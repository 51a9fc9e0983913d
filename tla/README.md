# A verification project for cms

`cms` is a small command-line host (`src/src/cms`) around a vendored and locally
built copy of the JerryScript engine (`src/src/jerry`). It executes JavaScript
files, or reads and evaluates lines, and gives scripts a function `pp` that
prints objects as JSON. Almost all the logic whose correctness is not obvious
from reading it once lies where the host and the engine meet: which script code
runs when, what the engine still has to do while script code runs, and what is
left behind when some of that fails. This directory models that part in TLA+,
checks the models with TLC and proves the core results with TLAPS.

All source paths below are relative to the repository, whose root is `src/`.

## 1. The system

Everything is single threaded. There is nevertheless a lot of interleaving: the
engine calls script code in the middle of its own operations (the getter of a
`then` property, an executor, a thenable, a reaction handler, a host function),
and that code may call any operation of the engine, on the same objects, before
it returns. Work that has to wait is put into one queue of jobs, which runs when
the host says so.

```
  argv, files, lines          scripts                      jobs
        |                        |                           ^
   cms.c main --> sources.c / repl.c --> jerry_run      jerry_run_jobs
        |                                    |               |
        |                              vm.c, opcodes.c  ecma-jobqueue.c
        |                                    |    \          |
      pp.c <-- native function call ---------+     ecma-promise-object.c
        |                                                    |
   jerry-port (stdout)                       ecma-gc.c, jmem (heap)
```

### Inventory

| Component | State | Operations | What is hard | What makes it correct |
|---|---|---|---|---|
| Job queue (`ecma-jobqueue.c`) | head and tail of an intrusive list; the word `next_and_type` of each item | enqueue, run all, release all, one processor per type of job | the tail is stale when the list is empty; jobs enqueue jobs while their own item is alive; a run stops at a failing job | FIFO order, each item owned once, nothing leaked, failures reported |
| Promises (`ecma-promise-object.c`) | per promise: pending / fulfilled bits, `ALREADY_RESOLVED`, the value, the collected reactions | create, resolve, reject, then, resolve by thenable, await | script code runs between the check of the flags and the settling; the flag is cleared again for a thenable; reactions become jobs | one resolution at a time, settled for good, no reaction lost, no promise orphaned |
| Async functions (`vm.c`, `opcodes.c`) | the executable object: frame, registers, and the promise in its iterator slot | start, await, resume, exit | suspended functions that wait for each other; the exit settles without the checks | resumed exactly once per await |
| Embedding API (`jerryscript.c`) | the engine context, "API enabled" | init, cleanup, parse, run, run jobs, promise functions, accessors | the host settles promises in the middle of a resolution | the assertions of the engine are not reachable by correct use |
| cms program (`cms.c`) | options, file list, exit code | main | exit code and references on every failure path | exit code 0 is a promise, no reference leaked |
| REPL and sources (`repl.c`, `sources.c`) | the result of the current line | read, parse, run, print, run jobs | five paths to the one error exit; a failing line leaves its jobs | each value released once |
| pp (`pp.c`) | a buffer of 64 bytes per argument | convert, print, flush | buffer limit, NUL in the middle, conversion that fails | output is the arguments, unchanged and in order |
| Promise combinators, finally (`ecma-promise-object.c`) | remaining-elements counter, values array | all, allSettled, any, race, finally | elements that settle early, late or twice | the derived promise settles once, when the last element did |
| Async generators (`ecma-async-generator-object.c`) | queue of requests, running / awaiting / yielding flags | next, throw, return, yield*, await | requests while the generator runs or waits | one answer per request, in order |
| Modules (`ecma-module.c`) | per module: status, DFS index, ancestor index, evaluated bits | link, evaluate, resolve import | cycles, errors in the middle of a strongly connected component | each module linked and evaluated once; errors leave a defined state |
| Garbage collector (`ecma-gc.c`) | per object: reference count and colour in one word; the object list | mark, sweep, allocate, ref, deref | bounded recursion of the mark phase, weak references | no reachable object is freed, no unreachable one kept for ever |
| Heap and pools (`jmem-heap.c`, `jmem-poolman.c`) | free list by offsets, skip pointer | alloc, free, realloc, pools | splitting and merging next to the cached skip position | blocks are disjoint, the free list is sorted and complete |
| Property cache and hash map (`ecma-lcache.c`, `ecma-property-hashmap.c`) | cache rows of raw property pointers; open addressing table | lookup, insert, invalidate, rehash | a stale pointer after deletion | a hit is the property itself |
| Containers (`ecma-container-object.c`) | flat buffer of entries with empty slots | get, set, delete, clear, iterate | deleting and adding during an iteration | each entry visited at most once, none skipped |
| Handle scopes (`handle-scope*.c`) | preallocated array, then a heap list of scopes | open, close, escape | the switch from one list to the other | each handle freed once |
| Parser, scanner, RegExp, built-ins, math, ports, snapshots, debugger, other programs | | | sequential translations, libraries, I/O, or compiled out | not modelled, see section 7 |

`PROJECT.json` lists the same components with their status, and under
`hazards` the places in the code where they bite, each with the properties that
would notice.

## 2. Modules

| Module | Models |
|---|---|
| `JobFifo` | what the job queue promises: an abstract queue |
| `JobQueue`, `JobQueueProofs` | `ecma-jobqueue.c`, as the linked list it is; implements `JobFifo` |
| `Promises` | promises, reactions, jobs of promises, async functions |
| `PromisesHost`, `PromisesProofs` | `Promises`, with a host that settles promises through the API |
| `PromiseAll`, `PromiseAllProofs` | one call of `Promise.all`, `allSettled`, `any` or `race`, and its element functions |
| `RequestQueue` | what an async generator promises to those who call it |
| `AsyncGenerator`, `AsyncGeneratorProofs` | one async generator with its requests, jobs, awaits and `yield*`; implements `RequestQueue` |
| `ModuleStates` | what linking and evaluation promise to the owner of a graph of modules |
| `ModuleGraph`, `ModuleGraphProofs` | `ecma-module.c`: linking as a search, evaluation, the callbacks of the host; implements `ModuleStates` |
| `Gc`, `GcProofs` | the garbage collector, weak maps and weak references |
| `JmemHeap`, `JmemHeapProofs` | the heap allocator, with collections in the middle of an allocation |
| `CmsMain`, `CmsProofs` | `main`, the REPL and the script loader, over an instance of `JobFifo` |
| `Pp`, `CmsProofs` | the function `pp` and its buffer |
| `MC*` | the small instances: symmetry sets, and for `Gc` and `ModuleGraph` the heaps and graphs to begin with |

The modules meet in three places. `CmsMain` instantiates `JobFifo`, and
`JobQueue` is proved to implement `JobFifo`, so that what is said of the program
holds with the linked list underneath. `Promises` and `AsyncGenerator` keep the
part of the queue that concerns them as a sequence of jobs with contents (the
jobs of `JobFifo` are opaque). `JmemHeap` runs an abstract collector in the
middle of an allocation, which may free any of the blocks; what the collector
really frees is the subject of `Gc`. `map` in `PROJECT.json` says for each
definition which lines it stands for.

Each module with a property also has a few operators marked "Mutant of ...":
they are never part of a specification. Each is a plausible mistake in the
operator or action that it is named after, and replaces it to show that a
property notices.

### JobQueue

State: `head` and `tail` are the two pointers of the engine context, `next[b]`
the address bits of the word `next_and_type` of the item in block `b`,
`payload[b]` its type bits and values, `live` the blocks that hold an item.
`current` is the local variable `job_p` of the loop in
`ecma_process_all_enqueued_jobs`, `ret` its result, `mode` where the host is.
`fifo` is a history variable: the items in the order in which they came. The
list does not look at it.

`Null` and `Garbage` are values of a pointer: a freed block holds `Garbage`, and
so does a word whose address bits were ORed into twice (`OrAddress`): the code
links an item with `|=`, which is right only while the address bits are zero.
`EnqueueJob` takes any free block, so that the heap may hand out the block that
the stale tail points to.

A step of the loop is two actions, since the job runs in between: `TakeJob`
unlinks, `FinishJob` frees the item and ends the run if the job failed; while
`current` is set the running job may enqueue. In the cleanup nothing runs, so
`DiscardJob` unlinks and frees in one step.

### Promises

State per promise: `state`, `already` (the flag `ALREADY_RESOLVED`), `result`,
`reactions`. `pairs[p]` records the resolver pairs that script code received,
one Boolean per pair: was one of its two functions called? The code has no such
flag, it only has the one of the promise; the Boolean tells the pairs apart.
`hidden` are promises that `await` makes and nobody can name, `exec`
tells whether an async function is idle, running, awaiting or done, `queue` is
the job queue, `stack` the calls in progress, `draining` whether the host is
inside `jerry_run_jobs`.

The stack is the heart of the model. An action is one native function from its
call to its return, or to the next call of script code: then it pushes a frame
that remembers what remains to be done. For example `ecma_fulfill_promise` reads
`then`, which may be a getter: `FulfillPromise` pushes a frame of kind `getter`
and stops; whatever the getter does, in any number of actions, it ends by
`GetterThrow`, `GetterCallable` or `GetterNotCallable`, which are the rest of
`ecma_fulfill_promise`. In the same way an executor, a thenable (`thencall`), a
handler, the body of an async function and a foreign capability have their
returns. Every frame that runs script code can perform every operation of
`ScriptStep`.

The internal operations (`Settle`, `FulfillPromise`, `RejectPromise`,
`FulfillWithChecks`, `RejectWithChecks`, `React`) are operators of the same
names as the functions; they take the stack and queue they start from, so that a
job processor can first remove its job.

Values: a promise; a thenable, an object whose `then` is a getter of the script;
or a plain value. Which of the three the operand is decides everything the code
does, so one thenable and two plain values are enough: `undefined`, and the
`TypeError` of a promise that is resolved with itself.

A capability is the promise it belongs to, when the constructor is the built-in
`Promise`: its functions are the resolvers of that promise. Otherwise it is
`Foreign`: its functions are script code that may throw, and then the job fails.

### PromisesHost

Adds `jerry_promise`, `jerry_promise_resolve` and `jerry_promise_reject`, for
the promises in `Settleable`. The host calls them between scripts, or from a
native function that a script has called, hence also inside getters and handlers.
`SettleableAssumption` keeps the promises of async functions out of `Settleable`:
the end of an async function does not look at `ALREADY_RESOLVED`, so that a host that
resolved such a promise first would meet an assertion of the engine.

### PromiseAll

`pc` is what the loop of `ecma_builtin_promise_perform` waits for: the iterator,
the constructor's `resolve`, an element's `then`, or the `return` of the
iterator after a failure. All of these run script code, and during each of them,
and after the loop, an element of the shape `thenable` may call any function it
was given (`ScriptCall`). An element of the shape `promise` calls one function
once, from a job, after the script has ended (`RunReaction`). `index` is the
field of each element function that is 0 once it was called, `remaining` the
count in the number object that they share, and `outcome` what the capability
was first called with. `Counting` says which callbacks of a routine are element
functions; the others are the functions of the capability itself. `Float` and
`Broken` are a count that went below zero, and what becomes of it.

### AsyncGenerator

`tasks` is the list of requests from `u3.head` on. `fresh` tells whether the
field `operation_value` of a request still holds the value it came with: the
code overwrites it when it hands the value to the body, and asserts as much at
`opcodes.c:828`. `called`, `completed` and `doAwait` are flags of the executable
object, `state` is the await state, which the code keeps in the bits above the
flags and changes by an exclusive or of the old and the new state
(`ECMA_AWAIT_CHANGE_STATE`): `Changed` is right only when the old state is the
one that is assumed, and `invalid` otherwise. `iterator` says whether the object
has an inner iterator. `awaited` and `jobs` are what will resume the generator:
pending promises that carry its reaction, and its jobs in the job queue.

As in `Promises`, `stack` holds the calls in progress. Script code runs in the
body, in the methods `next`, `throw` and `return` of the inner iterator of a
`yield*` and in the getters that find them, in the getters of an iterator
result, and in the getter of `then` of the value a request is answered with; in
each of them `Ask` may add a request. `Start` and `RunBody` or `RunYieldStar`
are `ecma_async_generator_run`, `AwaitResolved` is `ecma_await_continue`, and
`FinalizeNext` is one turn of the loop of `ecma_async_generator_finalize`, which
answers the requests that are left when the body ends. A request that is made in
the middle of that loop finds the generator completed and is answered at once,
before those that wait. `RequestQueue` allows this, and nothing else out of order.

### ModuleGraph

`imports` is the graph, the same in all states; `resolved[m]` how many of the
import requests of `m` hold a module rather than a path; `state` the field
`module_state`, `ancestor` the field `dfs_ancestor_index`. `scope`, `names`,
`bound` and `code` tell which parts of a module exist. A frame of the stack is a
call of `ecma_module_link` (with its items, those of `ecma_module_stack_item_t`,
and the place in its loops), of `ecma_module_evaluate`, or a callback of the
host.

The search resolves the imports of a module (`ResolveKnown`, `AskHost` and the
return of the callback), visits them (`VisitUnlinked`, `VisitOther`), and leaves
a module to its parent (`ReturnToParent`) or closes the circle that it began
(`CloseCircle`): then the namespaces of the circle are made, its imports are
bound, and its items leave the stack one by one, each with a callback. An error
at any point unwinds the search (`LinkError`). `Evaluate` recurs for the imports
(`EvaluateImport`), runs the body, and tells the host.

`HostCalls` says in which callbacks the host links and evaluates further
modules. In the others it returns at once.

### Gc

An object is a node with the objects it refers to (`strong`), the pairs of a weak
map, the target of a weak reference, and `weak`, the property in which a key or
target remembers its holders. `refs` tells whether the reference counter is above
zero. `list`, `black` and `white` are the lists of `ecma_gc_run`, `mark` the
colour, `position` and `again` the state of the loops.

`Edges(o)` is what `ecma_gc_mark` goes through for an object: pairs of a condition
and an object that is visited if the condition has been visited by then. A
reference is its own condition; a pair of a weak map is an edge of the map, whose
condition is the key, and one of the key, whose condition is the map. `calls` is
the stack of calls of `ecma_gc_mark` in progress, each with the edges it has still
to go through: `MarkNext` takes one of them, in any order, and
`ecma_gc_set_object_visited` then marks the object in a call of its own, or
leaves it gray when `MarkLimit` calls are in progress below the first one. A step
is one edge, one object of a loop, or one object that is freed. `DerefObject`,
`Deref`, `SetWeak` and `DeleteWeak` are what the program does between collections;
during one nothing else runs.

### JmemHeap

The area is a row of units of `JMEM_ALIGNMENT` bytes. `size` and `next` are the
headers that lie in free regions, at their first unit; the header at 0 is
`JERRY_HEAP_CONTEXT (first)`. When a region is merged or allocated, its header
ceases to be one, and the model forgets it, so that an access to it would be
noticed. `END` is no unit and not the unit behind the last one either: a region
that ends with the area is not adjacent to the end of the list. `skip` is
`jmem_heap_list_skip_p`, `allocated` and `limit` are the two counters. `data[u]`
is the block whose contents lie in unit `u`, `live` what the program has.

`pc` is the place in the allocator, `goal` what the call still has to do, `call`
its arguments. Walks through the list take one region per step. `AllocBlock`
begins an allocation; when it comes near the limit or finds nothing,
`reclaim` stands for `ecma_free_unused_memory`: any number of blocks of the
program are freed in the middle of the call, each by the same walk and the same
merge as any other. `slack` says that the requested size is not a multiple of
the unit, which counts only where the size is compared with the limit.
`ShrinkBlock` and `GrowBlock` are `jmem_heap_realloc_block`, with the five ways
it can take: shrink, extend into the region behind the block, into a part or all
of the one before it, or move. A chunk of a pool is a block like any other.

### CmsMain

`pc` names the places of `main` and of `jerryx_repl`; `argv` is any command line
made of the four kinds of arguments that the option loop tells apart (a digit
from 0 to 3 is a level after `--log-level` and a file name elsewhere). `held`
are the values whose references `main` or the REPL owns: a parsed script, a
result, an exception. What a script does is left open, except for the jobs it
enqueues, up to `MaxJobs`. The jobs are those of `JobFifo`.

### Pp

One call of `pp`. The arguments are of three kinds: what has a string
(primitives, symbols, what JSON can write), a function (JSON writes nothing),
and what JSON throws for. A string is any sequence over `Char`, one of which is
the NUL that is escaped. `buffered_print` is one action per character, the
callback of `jerry_string_iterate`. `meant` is a history variable: what a `pp`
without a buffer would have written.

The build (`build.zig`) does not define `JERRY_NDEBUG`, so that `JERRY_ASSERT`
is live, and an assertion that fails ends the program: the status `abort`.

## 3. Runs

| Run | Bounds | Distinct states | Question |
|---|---|---|---|
| `jobqueue` | 4 blocks, 2 payloads | 10,632 | does the list keep its shape, own each item once, report failures, and implement `JobFifo`; is every queued job reached? |
| `promises` | 2 promises of scripts, 1 of the host, 1 async function, 5 operations | 1,239,543 (up to symmetry) | flags, resolution and custody of promises under every nesting of script code, with a host that settles promises itself |
| `async` | 2 async functions, 1 promise, 5 operations | 281,580 | is every suspended function resumed exactly once, also if two wait for each other; do awaits and resolutions get on while jobs run? |
| `promise_all` | 3 elements of both shapes, 2 values, all four routines | 16,489 | is the count right, the array complete, and the derived promise settled, whenever and however often elements call? |
| `asyncgen` | 4 requests | 7,199 | is the generator resumed by exactly one job, is every request handed out once and answered, in order? |
| `modules` | every graph of 3 modules with at most 4 imports, up to renaming | 62,060 | does the search close exactly the circles of the graph, does an error leave a defined state, does every call return? |
| `gc` | 24,552 heaps of 4 objects, 1 or 2 of them weak holders; recursion limit 1 | 2,850,019 | is exactly the garbage freed, are the lists complete, and do weak references stay mutual during the sweep? |
| `jmem_heap` | 7 units, 4 blocks, limit step 2 | 1,063,125 (up to symmetry) | are blocks disjoint and complete, the list sorted and merged, the skip position valid, the counters exact? |
| `cms_main` | command lines of up to 3 arguments, 2 lines, 3 jobs | 9,685 | exit code and references on every path |
| `pp` | buffer of 2, 2 arguments of up to 4 characters | 98,526 | does `pp` write its arguments, wherever the buffer is cut? |
| `promise_all_doc` | `allSettled`, 2 elements | violation | does the count stay an integer, as asserted? |
| `asyncgen_doc` | 2 requests | violation | is an exception raised only when none is pending, as asserted? |

### What the properties say

*Job queue.* `ListShape`: the pointers spell out the order of arrival, whatever
blocks are reused and however stale the tail is. `Ownership`: each live item is
in the list once, or is the one being executed. `RunOutcome`: an exception is
returned exactly if a job failed; otherwise the queue is empty.
`ImplementsFifo`: refinement of `JobFifo`, with the payloads of `fifo` for the
abstract queue. `JobReached`: jobs that keep adding jobs do not starve the ones
that wait. That a cleanup leaves no item (`NothingLeaked`) is proved.

*Promises.* `OneResolution`: a promise that is being resolved (its thenable job
is queued, or its `then` getter runs) is pending, and is being resolved only
once; this is what the assertions at `ecma-promise-object.c:195` and `:247`
need. `AlreadyResolved`: a pending promise with the flag set is being resolved,
so that the flag cannot keep it pending for ever; and a settled promise with the
flag clear has no resolver anywhere that could get through the check.
`NoOrphan`: each pending promise whose resolvers the script or the host does not
hold is waited for by exactly one reaction, job or running handler, or belongs
to an unfinished async function. `AssertedPending`: the assertions themselves, as
an action property: a settled promise never changes. `ResumedOnce`: exactly one
reaction or job holds the executable object of a function that awaits, and none
that of a function that runs, has finished or has not begun. `AwaitEnds`,
`ResolutionEnds`: while jobs run, a queued resumption is reached, and a promise
being resolved gets out of that state.

*Combinators.* `RemainingCounts`: the count is the number of elements that are
waited for, and one for the loop while it runs. `CompleteResult`: the derived
promise gets the array after the loop only, and with no entry missing, although
elements may call while later ones are still unknown. `NobodyWaits`: it is not
left pending when the loop failed or nobody is left to call. `EntriesFixed`: an
entry is written once, hence not under the readers of the settled promise.
`PromisesSettle`: over promises that settle, the derived promise settles. `Twice`
excepts from the first, second and fourth, and in part from the third, the one
case in which they fail: an element of `allSettled` that calls both of its
functions (section 4).

*Async generators.* `ResumedByOne`: a suspended generator with requests is
resumed by exactly one job or awaited promise, and nothing resumes one that
runs, has finished or has nothing to do. `HandedOutOnce`: the value of a request
goes to the body once, and before the request is answered. `AwaitStates`: the
await state is never what an exclusive or leaves of a state that was not
expected, and it tells what the generator waits for. `ImplementsRequestQueue`:
one answer per request, in order. `EveryRequestAnswered`: every request is
answered in the end.

*Modules.* `TransitionsHaveOwner`: a module is "linking" or "evaluating" exactly
while one call that will end this state is in progress: an error leaves none
behind. `ReadyWhenLinked`: what can be evaluated leads only to modules whose
names exist and whose imports are bound. `NamesOnce`: names are made and imports
bound only once, also when linking failed and is tried again.
`ImplementsModuleStates`: circles are linked as a whole and after what they
import; a module is evaluated once, after its imports unless they are in its
circle; failures are final. `EveryCallEnds`.

*Garbage collector.* `TypeOK` includes that each object is on exactly one list,
once. `ExactlyGarbage`: when the sweep begins, and at each step of it, the
survivors are the objects that can be reached, where the value of a pair of a
weak map can be reached if its map and its key can. `WeakMirror`: a key or
target knows its holders and they know it, before, between and after the frees
of a sweep.

*Heap.* `BlocksIntact`: a unit belongs to one block, one new region or one free
region, and holds the data it should. `FreeListSorted`: the list has every free
region, in order, merged with its neighbours. `NothingStale`: neither the cached
position nor that of a running search is a header that was merged or allocated,
not even when a collection ran in between. `Accounting`: the counter is the
number of units in use, and the limit at most one step above it, as asserted.
`FailsOnlyWhenFull`: an allocation fails, or is fatal, only after a collection
with high pressure and a complete search.

*Program.* `SuccessIsComplete`: exit code 0 means that the usage was printed, or
that every file ran to its end in order and every job was executed.
`ReferencesReturned`: at the prompt, between files, while jobs run and when the
engine is finalized, no value is owned; and an engine that was started is shut
down.

*pp.* `NothingLost`: what was written, what is buffered and what is still to
come are together what was meant. That there is always room for a character
(`RoomLeft`) is proved.

### Why the bounds are enough

*Job queue.* A second and third item distinguish first, middle and last; a
fourth block is the one a stale tail can point to while the list has two
items and one is executed. Two payloads make an exchange of items visible.

*Promises.* Five operations are the shortest way to the deep cases: a script
starts, creates a promise, resolves it with a thenable, its job runs the
thenable, which calls an old resolver, and its return reacts to that.
Two promises of scripts and one of the host allow a promise to be resolved with
another whose derived promise is a third. `MaxCalls` bounds what script code and
host do; the returns and the jobs are not bounded. Symmetry exchanges the
promises that scripts create, between which no action distinguishes; it is not
used for liveness.

*Async functions.* Two, so that each can await the promise of the other; a third
promise for the hidden one of a thenable, or one that both await.

*Combinators.* Three elements: one that is waited for, one that calls early and
one that is yet to come. The theorems are for any number.

*Async generators.* Four requests: one that is served, one that waits, one that
is made by the body or a method while these do, and one that comes when the
generator has completed. What the body does is not bounded.

*Modules.* Three modules have every shape of circle that the comparison of
indices can confuse: two circles that share a module, a circle with a tail
before or behind it, one inside the other. A fourth import gives every pair of
them a second way to meet.

*Garbage collector.* `MarkLimit` 1 stands for `JERRY_GC_MARK_LIMIT`, 8: with a
limit of one, chains of three objects already leave gray ones behind. Two pairs
in one map, or two maps that are keys and values of each other, make the order
matter in which map and key are found. A weak reference lies on the list between
two objects, either of which is its target, so that each of the two can be freed
first.

*Heap.* Seven units hold four blocks with free regions before, between and
behind them, so that both neighbours of a block can be free, and the skip
position before, at or behind the place of an operation.

*Program.* Four counts the program name, so up to three accepted arguments: an
option with its value and a file, or three files. Three jobs: one that
fails, one before it and one behind it.

*pp.* With a buffer of two, strings of up to four characters fill it twice, and a
NUL can come at each position.

Bounds that appear as guards: `MaxCalls` (Promises), `MaxElements` (PromiseAll),
`MaxRequests` (AsyncGenerator), `MaxLines` and `MaxJobs` (CmsMain), `MaxPrinted`
and `MaxLength` (Pp). `MaxArgs` of CmsMain is no bound but
`JERRY_MAX_COMMAND_LINE_ARGS`, 16 in the code, and `Area`, `GCLimit` and
`MarkLimit` are parameters of the build.

### Deadlock

It is checked where the system should always be able to go on: in the runs of
`Promises`, `PromisesHost`, `AsyncGenerator` and `ModuleGraph`, where a state
without a step would be a call that cannot return or a job that cannot be
executed, and in those of `Gc` and `JmemHeap`, where it would be a loop that is
stuck (`Ended` stands for `jerry_fatal`, after which nothing comes). It is not
checked in the runs of `JobQueue` (nothing follows `jerry_cleanup`), `PromiseAll`
(a combinator ends when its elements have called), `CmsMain` (the program ends)
and `Pp` (the call ends).

### Fairness

`JobQueue`: weak fairness of the steps of both loops. They are loops of a single
thread without a wait, and the script code of a job is assumed to return.
Nothing is assumed of the host, which may never run the jobs again.

`Promises`: weak fairness of the returns of script code, of the job processors
and of the end of a run, for the same reason. Script code is not obliged to
perform any operation, and the host is not obliged to run jobs, which is why
`AwaitEnds` and `ResolutionEnds` speak of what happens during a run.

`PromiseAll`: weak fairness of the reaction of each element that is a promise:
the assumption that it settles and that its job is run. The loop itself need not
end, for its iterator may be endless.

`AsyncGenerator`: script code returns, awaited promises settle, and jobs are run
(strong fairness, since scripts that start again and again disable the jobs for
a while); a body that goes on again and again yields or ends at some point. The
last is an assumption about the script: a body that only awaits answers nothing.

`ModuleGraph`: weak fairness of the native code; callbacks and bodies return in
the end (strong fairness, since they may make calls of their own before they do).

## 4. Where the code and its documentation disagree

1. `promise_all_doc`. The two element functions of an element of
   `Promise.allSettled` have an index field each (`ecma-builtin-promise.c:299`
   and `:343`), so that neither knows that the other was called. An element with
   a `then` of its own that calls both is counted down twice: the derived promise
   settles before the others have, and the unsigned count passes below zero, is
   stored as a floating point number, and the next change of the count fails the
   assertion at `ecma-promise-object.c:556`. (In ECMAScript the two functions
   share one record of having been called.)
2. `asyncgen_doc`. When the inner iterator of a `yield*` has no `throw`,
   `ecma_async_yield_throw` looks for `return`
   (`ecma-async-generator-object.c:145`) and does not look at the result. If the
   getter throws, the error value is called as a function, which raises a type
   error while the exception of the getter is pending, against the assertion at
   `jcontext.c:88`.

Further observations that the models make, and that no run is kept for:

- The comments on `ecma_process_all_enqueued_jobs` (`ecma-jobqueue.c:542`) and
  `jerry_run_jobs` (`jerryscript.c:1072`) say that the result of the last job is
  returned. The code frees it and returns undefined.
- `ecma_is_resolver_already_called` (`ecma-promise-object.c:174`) is described
  as telling whether a resolver was called before. All resolver pairs of a
  promise share the flag it reads, and
  `ecma_process_promise_resolve_thenable_job` clears it: while a thenable runs, a
  resolver that was called before settles the promise.
- The byte code that ends an async function (`vm.c:2780`) settles its promise
  without a check, and `jerry_promise_resolve` and `jerry_promise_reject` do not
  refuse such a promise. A host that uses them on it reaches the assertion of
  `ecma_fulfill_promise` (`ecma-promise-object.c:247`); `Settleable` is therefore
  without async functions.
- `pp` of a function ends the program: the comment on `cms_handler_pp`
  (`pp.c:44`) promises an error, and `cms_op_to_string` makes one, but hands it
  to `ecma_op_to_string` (`pp.c:527`), which asserts a value of the language.
- A host that evaluates a module from within the callback that tells it of a
  linked one can start an import of the same circle that is still being linked,
  against the assertion at `ecma-module.c:551`. `HostCalls` of the run is
  therefore `body` and `ended`.
- The fast path of `jmem_heap_alloc` raises the limit by one step at most. With a
  step of less than a unit (a `JERRY_GC_LIMIT` of 1 to 7 bytes) the assertion at
  `jmem-heap.c:494` could fail; `HeapAssumption` asks for a unit at least.
- `register_js_function` keeps the Boolean of `jerryx_register_global` in a
  variable for values (`cms.c:43`), so that its warning can never be given: a
  matter of C types, which a model does not have.

## 5. Proofs

TLC looks at small instances; the theorems hold for every heap and every size of
a region, any number of jobs, promises, elements, requests and files, every finite
graph of modules, every heap of objects that refer to each other and every limit of
the recursion in marking it, every buffer and all strings. `tlapm` checks them. The type invariants of the modules below
(except those of `Promises`, `ModuleGraph` and `Gc`), `RoomLeft` of `Pp` and `NothingLeaked` of `JobQueue`
are left to the proofs and are not checked by a run.

### JobQueueProofs

Assumption: `PointerAssumption` (null and garbage are not blocks and differ, no
job has the payload `None`).

- `QueueSafety`: `Spec => [](TypeOK /\ ListShape /\ Ownership /\ NothingLeaked)`.
  The inductive invariant `IInv` is the conjunction of `TypeOK`, `ListShape`,
  `Ownership` and `Phases`. `Phases` is the strengthening: a job is executed
  only inside a run, and nothing is queued or executed once the engine is down.
  Without it `Cleanup` could start while a job is executed, whose item the
  cleanup would not find. `ListShape` needs `Ownership`, for a block that is
  freed or handed out must not be one of the list, and `Ownership` needs
  `ListShape`, for the code frees the block that `head` points to. The lemma
  `UnlinkHead` says what unlinking does to the list and serves both the run and
  the cleanup; `FreeStep` says that freeing a block outside the list leaves it
  alone; then there is one lemma per action that changes the list.
- `RunReportsFailure`: `Spec => RunOutcome`, from the same invariant.
- `ListIsFifo`: `Spec => ImplementsFifo`. The refinement mapping reads off
  the payloads along `fifo`. Initial states map to initial states, and each
  action to the abstract one of the same name. The additional invariant
  `PayloadInv` says that a live item has a payload of a job, which tells
  an executed job from none.

### PromiseAllProofs

Assumption: `PromiseAllAssumption` (the routines and shapes are those of the
code; what marks a broken count is no number, what marks a hole no entry).

- `CombinatorSafety`:
  `Spec => [](TypeOK /\ RemainingCounts /\ CompleteResult /\ NobodyWaits)`. The
  inductive invariant adds three parts. `Progress` relates the place of the loop
  to the length of the array; `Functions` says that a function that can still be
  called belongs to an element that was reached; `Entries` that an entry is
  written exactly if its element is not waited for. A count that reaches
  zero then means that the loop has ended and that nobody is waited for, hence
  (by `Entries`) that the array is complete. The lemma `ElementFunctionWrites` is
  the heart: the first call of an element function takes one element from those
  that are waited for, unless its twin was called before it.
- `EntriesWrittenOnce`: `Spec => EntriesFixed`, from the same invariant.

### AsyncGeneratorProofs

Assumption: `RequestAssumption` (the number of requests is a natural number).

- `GeneratorTypes`: `Spec => []TypeOK`.
- `GeneratorResumedByOne`: `Spec => []ResumedByOne`.
- `GeneratorHandsOutOnce`: `Spec => []HandedOutOnce`.
- `GeneratorAwaitStates`: `Spec => []AwaitStates`.
- `GeneratorAnswersInOrder`: `Spec => ImplementsRequestQueue`, the refinement.

The inductive invariant `IInv` says of the stack what the three properties only
need of its top. `Shape(stack)`: the generator is on it in at most one place, the
script that called it below, and one frame or two while a request is answered
in the middle of a `yield`. So what the generator executes is a function
`Gen(stack)` of the stack, and `Resumed`, `Handed` and `Waits` relate the requests,
the jobs and the await state to that one value. Each action is then a lemma that
says how it moves `Gen`.

The refinement needs one more invariant, `InOrder`: the requests in the queue of
the generator are the last ones made, in the order in which they were made, so
that the one at its head is the oldest that waits. `KindOfStep` sorts the actions
by what they do to the queue (nothing, a new request at its end, an answer to its
head), `OrderStep` shows `InOrder` to be kept, and `StepIsQueued` maps each kind to
a step of `RequestQueue` or to a stutter.

### CmsProofs

Of `CmsMain`, under `BoundAssumption` (the bounds are numbers, and `None` is not a
job):

- `ProgramTypes`: `Spec => []TypeOK`.
- `SuccessMeansDone`: `Spec => []SuccessIsComplete`.
- `ReferencesAreReturned`: `Spec => []ReferencesReturned`.

The invariant adds to the types where each value is held (`Held`, by the place in
the program), when the engine is up and what its queue then contains (`Engine`),
how jobs, files and the arguments read so far are counted (`Counted`, `Files`), and
that an exit code of zero is set only after the last file and the last run of jobs
(`Success`). `Engine` is needed for both properties: a job that is queued when the
cleanup begins would be neither run nor a failure.

Of `Pp`, under `BufferAssumption` (the buffer has at least one byte):

- `PrintsEverything`: `Spec => [](TypeOK /\ RoomLeft /\ NothingLost)`. The
  invariant adds to the three that a string is being passed on only in status
  `print`: otherwise what an interrupted conversion left could be appended to
  the next argument. The lemma `Glue` is about the equation
  `out \o buffer \o Escaped(text) = meant` when a character moves from the text
  to the buffer or the buffer to the output.

### GcProofs

Assumptions: `LimitAssumption` (`JERRY_GC_MARK_LIMIT` is above zero, the case that is
compiled), `NoneAssumption` (`None` is not an object) and `HeapsAssumption` (the heaps to
begin with are well formed: the list has each object once, only weak maps have
pairs and only weak references a target). The number of objects need not be finite.

- `Inductive`: `Spec => []IInv`.
- `ListsPartitionTheHeap`: `Spec => []TypeOK`.
- `CollectsExactlyGarbage`: `Spec => []ExactlyGarbage`.
- `WeakHoldersAreMutual`: `Spec => []WeakMirror`.

`ExactlyGarbage` speaks only of the sweep; the invariant says how it comes about.
The part that carries the proof is `Marked`, which holds in the middle of every call
and loop: the target of an edge has been visited, or the edge is still to come
(`Pending`), because its object is not black, or is a root that has not been marked
from, or is in a call that has not reached the edge. For a pair of a weak map it is enough
that one of the edges at the map and at the key is still to come: `EdgesMirrored`, a
consequence of `WeakMirror`, says that both exist, and the one that comes later finds
its condition visited. `MarkNext` drops an edge without a visit only if its
condition is white, and then the other edge of the pair is still to come
(`EdgePassed`).

When a pass over the white list ends without having marked anything, it has passed white
objects only (`Passed`) and nothing is pending, so that the black list is closed
under what its members lead to; with the roots on it (`Colours`) it contains what is
live, and by `Reached`, nothing else (`StartSweepStep`). `LiveStays` says that
freeing an object that is not live changes nothing for the others, so that this
stays true until the end of the sweep, where it gives `NoDangling` back: nothing
refers to a freed object. `Freed` is where `WeakMirror` is needed a second time:
`ecma_gc_free_object` clears each side of a weak reference through the other.

### JmemHeapProofs

Assumption: `HeapAssumption` (the area and the limit are positive, `NoBlock` is
not a block).

- `HeapTypes`: `Spec => []TypeOK`.
- `HeapBlocksIntact`: `Spec => []BlocksIntact`: live blocks and free regions never
  overlap, and their headers are not overwritten.
- `HeapListSorted`: `Spec => []FreeListSorted`.
- `HeapNothingStale`: `Spec => []NothingStale`: the skip pointer and the pointers a
  search keeps in local variables lead to regions that are free.
- `HeapAccounting`: `Spec => []Accounting`.
- `HeapFailsOnlyWhenFull`: `Spec => FailsOnlyWhenFull`.

The collection that an allocation may start in its middle frees any of the blocks, in
any order, each with its own walk along the list. The invariant therefore has to
say at each point of each walk what was already searched (`Searched`), what the
two pointers of an unlinking mean (`Unlinking`), which part of the area a block that
is being built covers (`NewRegion`), that a block that is being freed or moved is
the one the caller passed (`Arguments`), that the limit is not raised by a move
(`MovingLimit`), which blocks are alive (`Lives`) and how the program counter
determines what is in use (`Control`). `BlocksIntact`, `FreeListSorted` and
`NothingStale` are inductive only together: merging two regions preserves the
order because they do not overlap, and they do not overlap because the pointers
that were found are not stale. `FailsOnlyWhenFull` follows from `Searched`: when an
allocation fails, the whole list was seen after the last collection.

### PromisesProofs

Assumptions: `ValueAssumption` (the kinds of values are disjoint, `None` and
`Foreign` are neither promises nor values) and `SettleableAssumption` (the host
leaves the promises of async functions alone). The theorems are about `HostSpec`,
whose steps include those of `Spec`.

- `TypesHold`: `HostSpec => []TypeOK`.
- `ResolvedByOneValue`: `HostSpec => []OneResolution`.
- `FlagTellsTheTruth`: `HostSpec => []AlreadyResolved`.
- `NobodyIsOrphaned`: `HostSpec => []NoOrphan`.
- `AwaitsResumeOnce`: `HostSpec => []ResumedOnce`.
- `SettledForGood`: `HostSpec => AssertedPending`.

The inductive invariant counts tokens. A token is a job, a collected reaction or a
call in progress that names a promise; its sort says what it will do: resolve the
promise (`RES`), settle it as its custodian (`CUS`), resume its function (`AWAIT`),
or run script code that has its resolvers (`CODE`). `Absent` and `Sole` say that a
promise has no token, or one, of a sort, wherever it is. `IInv` then says of every
promise

- `Flags`: which combinations of state, `ALREADY_RESOLVED` and resolving tokens
  there are, and that reactions exist only while it is pending;
- `Function`: that an async function which awaits has one token, one that runs is
  on the stack once (also while a getter runs for its `await`), and that nobody
  else touches its promise before its end;
- `Custody`: that a promise whose resolvers nobody holds has one custodian until it
  is settled or being resolved.

None of them is inductive alone. The exit of an async function settles its promise
without the checks, which is right only because of `Function`; that of a `then`
getter, only because of the resolving token that `Flags` counts; and a missing
custodian can only be noticed through `Function` and `Flags`.

The first part of the module says what becomes of the tokens when a sequence grows
or shrinks (`AppendTokens`, `PushTokens`, `PopTokens`, `TriggerTokens`). Triggering
the reactions of a promise moves all of its tokens to the queue at once. The second
part is about the internal operations, from what each caller knows: `Ready` (the
resolvers may be called), `Idle` (an async function has just left the stack), `Open`
(a `then` getter has just returned). Then each action is a lemma, and the last part
reads the properties off the tokens.

### ModuleGraphProofs

Assumptions: `ModuleAssumption` (a graph has finitely many modules),
`GraphsAssumption` (its imports are modules), and the hypothesis `QuietHost` of the
theorems: the host links and evaluates modules from bodies and from
the callback at the end of an evaluation (`HostCalls \subseteq {"body", "ended"}`), as in
the run, but not from the callbacks of a search that is under way. The
hypothesis is needed. With a call from any callback of the search, TLC finds
`TransitionsHaveOwner` and `ReadyWhenLinked` violated, since a module has a single
`dfs_ancestor_index` for all searches, and `NamesOnce` with calls from the resolve
callback.

- `TypesCorrect`: `Spec => []TypeOK`.
- `OwnersKnown`: `Spec => []TransitionsHaveOwner`.
- `LinkedIsReady`: `Spec => []ReadyWhenLinked`.
- `NamesFilledOnce`: `Spec => []NamesOnce`.
- `LinksAndEvaluatesInOrder`: `Spec => ImplementsModuleStates`, the refinement.

The inductive invariant `IInv` (theorem `Inductive`) describes the stack.

- `Types` and `Calling`: what a frame is, and which frame may lie above which.
- `Linking`: the state of a search. Its items and the modules that are in linking
  are the same (`Items`), their indices are those of their places (`Counted`),
  which also bounds the ancestor index. `Requested` says which imports hold a module.
  `Lows` and `Tree` are the invariant of the search for strongly connected
  components: an ancestor index is that of an item which can be reached,
  and whatever a module that is done can reach is done too or an item at or above
  its ancestor index. `Circling` says what is left of a circle while its items
  leave the stack one by one. From `Lows` and `Tree` follows that what
  `CloseCircle` takes from the stack is a circle, and the whole of it.
- `Ready`: the imports of a linked module are linked or further. It gives
  `ReadyWhenLinked`. It also says that a module that is being linked cannot be
  reached from one that is finished, so a circle cannot extend into an earlier
  search.
- `Evaluating`: the imports before the place of an evaluation's loop are
  evaluated or have begun, which is what `ModuleStates` asks of a success.
- `Spoiled`: a module whose names were made and whose linking then failed imports, at
  some distance, a module that cannot be linked any more, so that no later search
  comes as far as to make its names again. `NamesOnce` rests on it.

`CloseCircle` was the hard step. Items, indices and tree are needed together:
an ancestor index means something only as long as the items above it were visited
from below it.

In the refinement a module's abstract state is read off its `state`, except that
the circle which leaves the stack item by item is linked at once, when its
imports are bound. So `ConnectImports` maps to `Link` of the circle, a failure while the
names or imports of a circle are made to `LinkFails`, `Evaluate` and `EvaluateImport` to
`Begin`, the end of a body to `Succeed` or `Fail`, an import in error and an error that
returns into an importer to `Fail`, and every other step stutters.

### What is only model-checked

Liveness (`JobReached`, `AwaitEnds`, `ResolutionEnds`,
`PromisesSettle`, `EveryRequestAnswered`, `EveryCallEnds`), which is out
of the reach of the proof system. Every invariant and action property that a
passing run checks is proved.

## 6. What the models leave out

*Job queue.* The contents of the items beyond a payload; their reference counts.
A host function that calls `jerry_run_jobs` from inside a job is
not modelled; no function that cms registers does.

*Promises.* The promise hook (`JERRY_PROMISE_CALLBACK` is off in this build).
Rejection with an object that is a promise or a thenable: a reason is stored
and passed on, never looked at, so plain values stand for all. A `constructor`
property that was overridden makes `await` and `Promise.resolve` fail or run
script code; that path is left out, but for a species constructor with foreign
functions, which is `Foreign`. The native `then` of a promise, when it is called
by the job of a promise that was resolved with a promise, creates a derived
promise that nobody can reach: it is left out, together with its jobs, which
only settle it.

*Combinators.* A capability whose functions are script code: the constructor is
`Promise` or a subclass of it. What the derived promise becomes once it is
resolved with a thenable by an element of `any` or `race` is a matter of
`Promises`; here it counts as settled when it is first resolved. The limit of
`UINT32_MAX - 1` elements is one of the exceptions of `LoopThrows`. The array is
not changed by anybody else. `finally` is not modelled.

*Async generators.* The iterator of a `yield*` over a synchronous iterable is
wrapped by an async-from-sync iterator, whose calls are here those of any
iterator. A promise that is settled when it is awaited enqueues the job at once:
that is an await whose promise settles next. Values are not modelled, only what
is handed out and answered.

*Modules.* How a name is resolved through exports and star exports: whether it
can be is a choice. Dynamic import. A native module is one without imports. The
`abort` of a run. Realms.

*Garbage collector.* Which objects an object of each kind refers to is one
set, so that `ecma_gc_mark` of a particular kind could miss a field
unnoticed. Property lists, native pointers and their callbacks, the overflow of
the reference counter, and WeakSets, whose entries are pairs without a value.

*Heap.* The lists of free chunks of the pools, the statistics, and the build
that takes the allocator of the system. The bytes: contents are a matter of
whose they are.

*cms.* What the options do to the logging. `jerry_port_line_read` never returns
an empty line that is not the end of the input. The exception of the last run
of jobs is freed without being printed: the exit code is all that tells.

*pp.* Script code that runs during a conversion (`toJSON`, getters) may call `pp`
itself, whose output then comes between the separator and the argument. The
conversion is one step.

## 7. What is not modelled

The parser, scanner and byte code emitter, the regular expression engine, the
built-in objects and the math library are sequential functions from data to
data, whose correctness is a matter of large definitions, not of states and
steps; they are by far the largest part of the source. The property lookup cache
and the hash map are caches of property lists: they take a model of the lists
and of every operation that deletes a property, of which no other module uses
anything. `Map` and `Set` and the iteration over them are sequential. Handle
scopes are a library that neither the engine nor cms uses. Snapshots and the
debugger are compiled out. The ports are thin wrappers of the C library; their
outcomes are choices in `CmsMain`. The other programs of the JerryScript
repository, its targets, tools and tests are not part of cms.

## 8. Plan

Everything below section 7 that can be modelled in the same way, in the order in
which it adds most:

1. `PromiseContract`: what a promise is for the code that uses it (unborn,
   pending, settled once; reactions that run once, after settling, in order),
   and `Promises` as an implementation of it.
2. `finally`, with its two native handlers between a promise and its derived one,
   and the async-from-sync iterator between a `yield*` and a synchronous iterator:
   both are promise operations in one more step.
3. `Lcache`, over property lists with deletion and the hash map, so that a stale
   pointer can be seen.
4. `Containers`: deletion and insertion during an iteration.
5. The free chunks of the pools below `JmemHeap`, and `HandleScope`.
6. `Gc` with a program that also stores references and makes objects between
   collections.

All models keep their parameters as `CONSTANTS` with named assumptions, one
action per operation, invariants as conjunctions of named parts, and no
recursive operators in the modules that are proved about.
