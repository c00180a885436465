# A TLA+ model of SEAM

SEAM is the virtual machine of Alice ML: a single operating-system thread runs
green threads, data-flow variables ("transients") synchronise them, a
generational store holds all data, and a pickler moves values between processes.
The language layers that SEAM runs are outside the repository; here they are the
environment of the modules. Three of the parts stand alone (scheduler, store,
queue), three are composed from smaller modules (`Events`, `Pickling`,
`HashMap`), and one is a single algorithm (`Minimizer`).

## 1. Inventory

| Component | State | Operations | Talks to |
|---|---|---|---|
| Scheduler (`generic/Scheduler.{cc,hh}`, `ThreadQueue.hh`) | run queue, current thread and its registers, status word | `Run`, `NewThread`, `ScheduleThread`, `WakeupThread`, `SuspendThread`, `ResumeThread`, `PushCall`, `DoRaise` | workers (result codes), transients, signals, I/O, store (GC between slices) |
| Threads (`generic/Thread.hh`, `TaskStack.cc`) | state, suspended flag, future waited for, task stack, handler stack | `BlockOn`, `Wakeup`, `PushFrame`, `PushHandler`, `ActivateNextHandler`, `PopHandler`, `Purge` | scheduler |
| Transients (`generic/Transients.hh`, `BindFutureWorker.cc`) | label, one argument: wait queue, associated future, closure, referenced word | `Future::New/AddToWaitQueue/ScheduleWaitingThreads`, `Hole::New/GetFuture/Fill/Fail`, `Byneed::New`, `Become` | scheduler (wakes threads) |
| Queue (`adt/Queue.hh`) | two indices, a buffer | `Enqueue`, `Dequeue`, `Remove`, `RemoveNthElement`, `Blank` | store; used by the run queue, wait queues, descriptor sets, the root set |
| Signals and alarms (`generic/SignalHandler.cc`, `StatusWord.hh`) | pending counters, one-shot handlers, sorted list of alarms, status bits | `RegisterSignal`, `RegisterAlarm`, `HandlePendingSignals`, the timer | POSIX signals, scheduler, futures |
| Descriptors (`generic/IOHandler.cc`, `IODesc.cc`) | three sets of (descriptor, future); flags of a descriptor | `WaitReadable/Writable/Connected`, `Poll`, `Block`, `Close`, `Read`, `Write` | `select`, futures |
| Store (`store/Store.cc`, `Heap.cc`, `Set.hh`, `GCHelper.hh`, `generic/RootSet.cc`) | generations, set of old blocks with young pointers, weak dictionaries, finalization list, root set | `Alloc`, `ReplaceArg`, `DoGCWithoutFinalize`, `DoFinalize`, `RootSet::Add/Remove` | everything |
| Maps (`store/BaseMap.cc`, `Map.cc`, `WeakMap.hh`, `adt/*Map*`) | table of chains, counter | `Put`, `Remove`, `Get`, `Resize`, `RehashAll` | store |
| Pickler, Unpickler (`generic/Pickler.cc`, `Unpickler.cc`) | explicit stack, seen map, locals, buffers | `Save`, `Pack`, `Load`, `Unpack` | scheduler (transients restart it), store |
| Minimizer (`generic/Minimizer.cc`, `MinimizerLoader.cc`) | partition, agenda | load a graph, refine, merge | scheduler |
| Debugger, Profiler, Broker, JIT, primitives | see `PROJECT.json` | | |

What is hard about it:

* **Interleaving of green threads.** A slice ends wherever a worker returns
  `PREEMPT`, `REQUEST` or `SUSPEND`. Suspension is orthogonal to blocking, so a
  thread can be woken while suspended and suspended while queued or blocked.
* **Binding.** `Hole::Fill` wakes any number of waiters between its test and the
  two bindings. Nothing else runs in between, but what it binds outlives the
  slice: other threads hold the words and bind other transients to them.
* **Ring buffers** that grow, shrink and lose entries from their middle.
* **Signals** that interrupt anything between `BlockSignals` and the clearing of
  the status word, and `select` calls that only the timer interrupts.
* **A moving collector** with a write barrier, whose hash tables hash addresses
  and whose finalizers see objects that are otherwise dead.
* **Restart**: the pickler and the minimizer start over when they meet a
  transient, the unpickler rolls its input back when the buffer runs dry.

For each component, what makes it correct:

* *Scheduler*: the run queue holds exactly the runnable threads; every queued
  thread is dispatched.
* *Transients*: no lost wakeup, single assignment, no reference cycles, one
  evaluator per byneed, hole and associated future agree.
* *Queue*: first-in first-out, no entry lost by resizing, no dead entry kept.
* *Signals*: no pending signal with a handler is forgotten, handlers run once,
  alarms fire when they are due and never early.
* *Descriptors*: one entry per file descriptor and set; whoever waits runs again
  when it is ready or closed; each descriptor is closed once, by its owner.
* *Store*: the graph the mutator sees is unchanged by a collection, nothing
  reachable dangles, an old block with a young pointer is remembered, a
  finalized value was unreachable and is finalized once.
* *Maps*: every key is found after any sequence of updates and collections.
* *Pickler and unpickler*: the unpickled graph is isomorphic to the original as
  it was at one moment; nothing but a whole pickle is accepted.
* *Minimizer*: the final partition is the coarsest one, and the reduced graph
  has the same value.

## 2. Modules

* **`Scheduler`** models `generic/Scheduler.{cc,hh}`, `Thread.hh`,
  `Transients.hh`, `BindFutureWorker.cc`, `PushCallWorker.cc` and the base frames
  of `TaskStack.cc`. `phase` says where `Scheduler::Run` is: about to dequeue
  (`dispatch`), in the inner loop (`run`), between slices (`events`), or returned
  (`exit`). Each result of a worker, each function language code may call and
  each iteration of `ScheduleWaitingThreads` is an action. A task stack has three
  layers: a pending `PushCall` frame (`callee`), frames of language code
  (`code`), and the base frame (`EmptyTask`, perhaps under a `BindFuture` or an
  `UncaughtException` frame). `binding` is the argument list of a
  `ScheduleWaitingThreads(); Become()` sequence in progress: it runs in as many
  steps as there are waiters, and no other step of the loop happens before it is
  complete. `UncaughtExceptionWorker::Run` and the call it ends with are two
  consecutive steps.
* **`SchedulerProofs`** extends `Scheduler` with its inductive invariant and the
  theorems; **`MCScheduler`** has the symmetry set for TLC.
* **`Fifo`** is what the users of a queue rely on: a sequence from which entries
  are taken at the head or withdrawn anywhere.
* **`Queue`** is `adt/Queue.hh`: the ring of words from index 0, the two indices,
  and the size field of the buffer's header (`store/HeaderOp.hh`), which `Blank`
  overwrites. `Contents` is what `GetNthElement` sees; it is the refinement
  mapping to `Fifo`. `purged` records that the last operation was `Blank`, for
  the properties only. **`MCQueue`** instantiates it. **`QueueProofs`** proves the
  refinement.
* **`Memory`** is what the store promises a program: objects with fields, holes
  that can be bound, weak maps, and values on their way to a finalizer. An object
  exists while something leads to it; there are no addresses or generations.
* **`Store`** is `store/Store.cc` with the write barrier, weak maps and
  finalization. An address is an object and one of three places for its copies;
  of the layout only the region is kept. `phase` says where
  `DoGCWithoutFinalize` and `DoFinalize` are: `scanRoots`, `intgen`/`entry`
  (`HandleInterGenerationalPointers`), `scanOld`, `dicts` and `entries` (the two
  phases of `HandleWeakDictionaries`), `scanFinal`, `finalize`. `Clash` says whether
  the forwarding address that replaced the header of a value is taken for the header
  of a map; `spared` has, for the properties, the values kept in this collection
  because it was. `scan` is the part
  of the to-space `CheneyScan` has yet to visit, field by field; `todo` and
  `slots` are the loop variables of the other functions. The refinement mapping
  to `Memory` looks through forwarding addresses and references, so it is defined
  in the middle of a collection, too; the program itself only runs between
  collections. **`MCStore`** instantiates it. `Deref` and `Reach` are recursive
  functions whose depth is bounded by the number of objects, the longest chain of
  references and the longest path there can be. **`StoreHeap`** has the lemmas
  about the operators on the heap, **`StoreProofs`** the inductive invariant and
  the theorems.

  Abstractions: the nodes of a weak map are merged into its table (a fresh node
  makes an old table childish just as a fresh value does here, and values are only
  read through a registered map); the mutator does not store pointers to the root
  block; the root block's old copy is freed with the collected regions; the
  finalization set's own entries, which `FinalizeCheneyScan` also visits after an
  enlargement, are already in to-space. `Collections` names the generations whose
  size may exceed its limit; the one collected is chosen among them. `DoFinalize`
  follows `DoGCWithoutFinalize` immediately, as in `Store::DoGC`. Finalizers run
  no code but the revival of their value.
* **`Waiting`** has what `Signals` and `Descriptors` share: the run queue, the
  thread that runs, and where `Scheduler::Run` is (`pc`). A thread here is a name
  in a queue; what it does inside is the business of `Scheduler`. The variable
  `limit` is chosen once and says how many alarms, handlers, descriptors and
  ticks of the clock a behaviour may use.
* **`Signals`** is `generic/SignalHandler.cc` with the status word: the timer and
  the signal handler of the process are steps from outside (`Tick`, `Deliver`),
  possible wherever the code has signals unblocked, that is between any two steps
  of the loop; `HandlePendingSignals` is one step because it runs with signals
  blocked. A delivery wakes a `select` that waits (`Interrupt`). `called` records
  the handlers that were called. The deliveries of a signal before it is handled
  lead to one call of each of its handlers, as in the code, which only tests
  `pending > 0`.
* **`Descriptors`** is `generic/IODesc.cc` and `generic/IOHandler.cc` on a system
  with `select`: `IODesc`s, the finalization set that holds their keys, the three
  sets of (descriptor, future), and what the kernel has open and ready. A read or
  write is several steps: `operation` is the system call in which the running
  thread is, so that a descriptor may become ready between the call that would
  block, the test in `WaitReadable`/`WaitWritable` and the wait. `retry` is the
  frame that repeats the operation when the thread is woken. File descriptors
  are given out as the kernel does, the least free one first, so that a closed
  one is reused at once.
* **`Events`** composes the two with the loop of `Scheduler::Run`: dequeue, run,
  collect, `Poll`, test the status word, handle, clear it; or `Block` when the
  queue is empty. **`EventsProofs`** has the theorems; **`MCEvents`** the limits.
* **`Words`** has the words of the language-level store for the two algorithms on
  graphs: integers, pointers to blocks, transients and `Deref`, which follows at most
  as many references as there are blocks (they form no cycle). `IsHeap` says what
  every heap is that the store can hold: its words are integers or lead to blocks
  of it.
* **`Pickle`** has the instructions (`generic/Pickle.hh`). A pickle is a sequence
  of bytes; integers are written in base `Radix` as `PutUInt` does in base 128.
* **`Pickler`** is `generic/Pickler.cc`: one action per case of
  `PickleWorker::Run`, with its stack, the table of seen blocks, the output, the
  stores of locals and the simulated stack height. Machine words have 6 bits here
  (`UIntModulus`), integers 5 (`INT_PRECISION`, 31 in the code). `ConcreteSizes` are
  the sizes that blocks with concrete representations may have, whose fields are not
  visited but whose size a `FULFILL` pops.
  When a transient is found the traversal goes on to the end, the thread requests the
  transient, other threads run (`OthersRun`: they bind and assign), and the
  traversal starts over.
* **`Unpickler`** is `generic/Unpickler.cc`: `CheckHeader`, the input buffer with
  its committed (`hd`) and its read position (`rd`), `FillFile` with its two ways
  of making room, and one action per instruction. A number that is too large ends the
  process (`OutOfRange`). An instruction that the buffer
  does not hold to its end is started over after `InputWorker` has read more.
* **`Pickling`** composes them: what was saved is loaded from a file, unpacked
  from a string, loaded from a file whose end was never written, or replaced by
  something foreign. **`MCPickling`** generates the graphs.
* **`Minimizer`** is `generic/MinimizerLoader.cc` and `generic/Minimizer.cc`, with
  the parts of `adt/Stack.hh` and `adt/DynamicArray.cc` they use: the loader, the
  initial classes (sorted as `DynNodeArray::sort` does), the agenda with signed
  counters of incoming edges, `FollowBack`, `DoSplits` and `ReduceGraph`. Other
  threads bind transients and assign to mutable blocks wherever the loader returns to
  the scheduler (`OthersRun`): while it waits for a transient, and if it is preempted
  when it is done. `original` has the arguments of each block as they were when it was
  collected, for the properties. The
  recursion of `sort` is a sequence of the calls to be made, so that it can be proved
  about; their order is the code's. **`MCMinimizer`** generates the graphs,
  **`MinimizerProofs`** has the theorems.
* **`Dictionary`** is what a map promises; **`HashMap`** is `store/BaseMap.cc` and
  `store/Map.cc`: tables of chains, keyed by an address that collections change,
  the weak list of maps, and `RehashAll` at the end of a collection. The
  refinement mapping reads `contents` through look-ups of every key. **`MCHashMap`**
  has the symmetry set, **`HashMapProofs`** the theorems.
* **`Filter`** takes the wanted elements out of a sequence: a chain of a map, the list of
  maps, the fields with pointers, the alarms, a set of descriptors. It stands
  for the loops that `SelectSeq` could stand for, about which the prover knows
  nothing. `Loop` is what a loop over a sequence leaves: the edges into a class
  that are counted one by one, the nodes that are marked.
  **`SequenceLemmas`** says what `Filter`, `FlattenSeq`, `RemoveAt`, `Append`,
  `Tail` and `\o` do to the elements of a sequence, and has the induction that the
  lemmas about recursive functions rest on.

## 3. Plan

| Step | Modules | State |
|---|---|---|
| 1 | `Scheduler`: threads and transients; runs, safety proofs | done |
| 2 | `Fifo`, `Queue`: refinement, checked and proved | done |
| 3 | `Memory`, `Store`: allocation, write barrier, minor and major collections, weak maps, finalization | done; all invariants proved, `IsMemory` only checked |
| 4 | `Signals`, `Descriptors`, `Events`: status word, alarms, `select`, closing and finalization | done; all invariants and `AlarmsOnTime` proved |
| 5 | `Dictionary`, `HashMap`: chains, resizing, rehash after a collection | done; `TypeOK`, `EachEntryOnce`, `IsDictionary` proved |
| 6 | `Pickle`, `Pickler`, `Unpickler`, `Pickling`: round trip, restart, buffer ends | done; no proof |
| 7 | `Minimizer`: refinement against the coarsest partition, with other threads at work | done; `CountersExact` and `Reduced` proved, `Coarsest` only checked |
| 8 | `StackFits` of `Pickling`, proved; needs the stream as a sequence of instructions (section 6) | open |
| 9 | the stack of exception handlers of a thread against a plain stack | open; needs a language layer's protocol |

## 4. Runs

| Run | Instance | Shows |
|---|---|---|
| `Scheduler` | 2 threads, 2 transients, 1 closure for uncaught exceptions, `FairSpec` | `TypeOK`, `RunQueueExact`, `WaitersExact`, `EvaluatorExact`, `BindingSound`, `RefsResolve`, `HoleFutureAgree`, `SingleAssignment`, `QueuedThreadsRun`, `WaitersRun` |
| `QueueRing` | 2 words, initial size 2, at most 5 entries (sizes 2 to 6) | `LayoutOK`, `BlankForgets`, `IsFifo` |
| `StoreGenerations` | 2 objects and an ageing root block of 2 fields, blocks and holes, all generations | `NoStalePointer`, `Remembered` |
| `StoreMemory` | a rooted map, one more object of any kind, 2 root fields, `FairSpec` | `IsMemory`, `CollectionEnds` |
| `StoreCollections` | a rooted map with 2 keys and any values, reviving finalizers, forwarding addresses that look like maps | `TypeOK`, `MajorReclaims`, `EntriesFinalized`, `FinalizersGetLiveValues` |
| `StoreSharedValue` | two maps that may hold the same value | violation of `NoEntryOfFinalizedValue` |
| `Events` | 2 threads with 2 descriptors, or 2 alarms and a handler, or an alarm and a descriptor, or 2 handlers | `ThreadsAccounted`, `WaitersNotStale`, `OpenIffRegistered`, `AlarmsOnTime`, `SignalsHandled`, `SleepersWake`, `ReadyWakes` |
| `HashMap` | 2 maps, 3 keys at 3 addresses, 2 values, 2 generations, at most 3 entries | `TypeOK`, `EachEntryOnce`, `IsDictionary` |
| `Pickling` | 828 graphs of 3 blocks, some without fields, and a name; concrete blocks of 1 to 3 words; buffer of 8 + 3 bytes | `TypeOK`, `RoundTrip`, `OnlyWholePickles`, `StackFits`, `VariablesSetOnce` |
| `PicklingConcreteCycle` | those graphs with a concrete representation that contains itself | violation of `HandlersAreFound` |
| `PicklingEmptyBlocks` | those graphs with an empty tuple | violation of `PushInFrame` |
| `Minimizer` | all graphs of 3 blocks with 2 arguments; towers of 12 blocks; lists with integers, mutable blocks and a transient; other threads bind and assign | `Coarsest`, `CountersExact`, `Reduced` |

Deadlock is checked except in `Minimizer`, which stops when the graph is reduced.

**Bounds.** *Scheduler*: one thread runs while the other waits, evaluates a
byneed or is suspended; two transients are a hole with its future. Longer chains
of waiters or references than two threads and two transients allow are covered by
the proofs of section 6, which hold for any number of both; only liveness rests
on this instance. *Queue*: with five entries a buffer of size 2 is enlarged three
times and shrunk by `Blank` in every layout, split or not. *Store*: the root block
is a third object that ages with the two others. In one of its fields it holds an old
block or transient, in the other the young object until that is referred to; what an
old reference stands for, younger than the block that refers to the reference, takes
just that. Collections are
unbounded in number: objects are reclaimed and allocated again, and ages stop at
the oldest generation. *Events*: two descriptors are one that is closed and one
that takes its file descriptor over; two alarms are in or out of order; two
handlers are of the same signal, one registered before a delivery and one after;
`MaxPending` of 1 suffices because the code only distinguishes zero from the
rest. The limits are per behaviour because threads
and handlers of different kinds meet only in the run queue and the status word,
which one of the instances exercises with both. *HashMap*: a table of two entries
is enlarged at the second and third key; addresses 0, 2 and 3 collide and separate
modulo 2 and 3. *Pickling*: three blocks give cycles of length one to three,
sharing of the root and of an inner block, a transient that is bound to a block
already visited; with a buffer of 8 bytes every instruction is cut at every place
in some pickle, and a chunk of nine bytes is longer than the buffer. A tuple of three
fields with up to two blocks without fields is the least in which the simulated height
is too low by more than the one word that the assertion in `UnpickleFrame::Push`
forgives. Concrete blocks of up to three words leave the simulated height of a cycle
above zero, as the name and the argument have been pushed; larger ones make it wrap
around (section 7). *Minimizer*:
with three blocks of two arguments every order of splits of up to three classes
occurs; the towers are the smallest shape found in which following back the
smaller half only of a class that is still on the agenda goes wrong.

A collection, stack overflow, profiling and the arguments of calls are not part
of `Scheduler`; no property it states depends on them.

## 5. Fairness

`FairSpec` of `Scheduler` assumes four things. `WF(Loop)`: `Scheduler::Run` and
the loops inside `ScheduleWaitingThreads` go on as long as they can.
`WF(RunFrame)`: the workers of the VM's own frames return. `WF(Tick)`: the
interval timer of `SignalHandler` fires again and again. `WF(PreemptCode)`: code
of a language layer that keeps running with the status word set reaches a call
or a return and yields (`Scheduler::PushCall` returns `PREEMPT` exactly then);
without it a single thread could keep the machine for ever, in the model as in
the program. Nothing is assumed about what code does otherwise.

`FairSpec` of `Store` assumes `WF(Collector)`: once begun, a collection goes on.

`Spec` of `Events` assumes that the loop goes on (`WF(LoopStep)`), that system
calls return and time passes, and two strong conditions. `SF(Preempt)`: a thread
that calls functions again and again tests in some of them whether it is to yield;
it is not continuously able to yield, because it is inside its calls in between.
`SF(Tick /\ pc # "clear")`: the timer is not in step with the loop; it may fire in
the short moment before the status word is cleared, where it is lost, but not
every time. With weak fairness alone TLC finds the behaviour in which every tick
falls into that moment and a pending signal is never handled.

## 6. What is proved

**`SchedulerProofs`** proves, for every set of threads, transients and values and
every number of uncaught-exception closures, the safety properties of
`Scheduler` that the run checks: `TypeOK`, `RunQueueExact`, `WaitersExact`,
`EvaluatorExact`, `BindingSound`, `RefsResolve`, `HoleFutureAgree` and
`SingleAssignment`. The only assumption is `ConstantsAssumption`: values and
transients are disjoint, and `None` is none of the things it is compared with.

None of the invariants is inductive alone. A byneed has one evaluator only
because the thread that will bind it is alive, which needs the run queue and the
wait queues; the wait queues are right only because a future with waiters is
unbound, which needs to know who may bind it; a hole agrees with its future only
because nobody else binds the future (`Origins`: an associated future belongs to
one hole and is neither a stream's nor a byneed's); and a binding in progress is
sound only because no step between the test and `Become` changes a chain of
references. `IInv` is the conjunction of all of them with `StacksOK` (a BindFuture
frame is uncovered only by a result). The proof has a lemma per action, and under
it a step per group of conjuncts that the action disturbs. The facts about
references are in `BindChains`: when the transients in a set `T` come to refer to
a word whose chain ends outside `T`, every chain that ended in `T` now ends there
and all others end where they did; so the tests for cycles in `Hole::Fill` and
`BindFutureWorker::IsCyclic`, which look at one end each, suffice.

**`QueueProofs`** proves for every set of words and all sizes that the ring of
`Queue` implements `Fifo` (`QueueIsFifo`), that its layout stays correct
(`LayoutCorrect`) and that `Blank` of a queue in use forgets what left it
(`BlankCorrect`). Besides `ConstantsAssumption` the theorems assume `BuffersFit`:
no buffer becomes larger than `MAX_BLOCKSIZE`. It is needed: above that size
`Blank` writes a size field that decodes to something else (section 7). The
inductive invariant is `LayoutOK`, a header that says the size of the buffer
(`HeaderOK`) and a buffer of words (`BufferOK`). The argument is about *rings*:
`View(r, w, a, s)` is the sequence that two indices and a buffer stand for, and a
lemma per elementary change says what becomes of it (`AddEntry`, `DropFirst`,
`GrowRing`, `RemoveBefore`, `RemoveBehind`, `BlankMoves`); the lemmas about
`memmove` reduce the code's split cases to those. `Remove` needs that `Scan` finds
the first matching entry; `Least` gives it from well-foundedness of the natural
numbers.

**`EventsProofs`** proves, for any number of threads, handlers, signals, alarms and
descriptors, all safety properties of `Events` that its run checks. It assumes
`ThreadsAssumption`, `SignalsAssumption` and `DelaysAssumption`: there are finitely
many threads and signals, a handler is not a thread, and times are natural numbers.
The argument has four layers, each of which uses those before it.

* `DescInv`, for `OpenIffRegistered` (`DescriptorsCorrect`): whatever the program
  or a frame refers to is an `IODesc` that exists (`DescsOK`). Only `NewFromFD` and
  `CloseDesc` change the pieces; closing is right because no other open `IODesc` has
  the same file descriptor, which is right because the kernel gives out only what
  is not open.
* `OpInv`: the system call in progress belongs to the thread that runs, and its
  `IODesc` is still open.
* `PlacesInv`, for `ThreadsAccounted` (`NoThreadIsLost`). The invariant does not
  count. It says for six places (run queue, processor, alarms, three sets) who is
  there (`Where`), that the places are disjoint, and that together they hold the
  living threads (`Accounted`); and for the sequences inside each place that
  nothing is in them twice. So a step is right if what it takes out of one place
  it puts into another: `MoveMany` and `MoveOne` have that argument once, and the
  lemmas about `Add`, `RemoveEntry`, `Schedule`, `CheckAlarms` and `CallHandlers`
  say what each takes and puts. `PlacesAre` returns to the counting of the property.
* `StaleInv`, for `WaitersNotStale` (`NobodyWaitsForAnother`): who waits will try
  again the open `IODesc` that has the number waited for. `IODesc::Close` keeps it
  because it wakes everybody who waits for its number, in all three sets, before
  the kernel can give the number to another.

`Sorted` says that the alarms are in the order of their times; with it
`CheckAlarms`, which stops at the first alarm that is not due, triggers exactly
those that are (`AlarmsAreOnTime`).

**`HashMapProofs`** proves, for any maps, keys, values and addresses, that tables
keep their shape (`TypeCorrect`), that `Apply`, `Fold` and `GetSize` meet every
entry of a listed map once (`EntriesMetOnce`), and that a look-up in a map finds
what `Dictionary` says (`MapIsDictionary`). A look-up meets one chain only, so what
it finds after the next collection depends on the nodes of all the others: `IInv` says
that each node is in the chain its key hashes to at the key's present address
(`Placed`), that no key has two nodes (`KeysOnce`), and that the nodes of a
reachable map are its entries (`Holds`). Growing and rehashing are loops over all
nodes; their invariant (`Rehashing`) is that the nodes of the chains already moved
are in their new places, the others are still in the old ones, and together they
are the same as before.

**`StoreProofs`** proves, for any objects, arities, keys and labels and any
collections, that no reachable block refers to one that was freed or moved
(`NoPointerIsStale`, what `Store::Verify` checks at run time), that the remembered
set is exact (`RememberedSetIsExact`), that finalizers get live values
(`FinalizedValuesAreLive`), and type correctness (`TypeCorrect`); and that a major
collection leaves in the heap nothing but what the root, the weak map or a value to
finalize leads to (`GarbageIsReclaimed`), and in the map no entry whose value only the
map refers to, unless a clash has spared it (`DeadEntriesAreFinalized`). One assumption is
needed, `MapsAreRooted`: the only weak map is the one that is rooted from the start, as
`FinalizationSet::Init` (`generic/FinalizationSet.hh:30-34`) makes it for every
finalization set; section 7 shows what happens without it. `StoreCollections`
and `StoreGenerations` are instances. Nothing is assumed about labels
in forwarding addresses or about the size of the finalization set: any address may be
taken for a map, and the set may be enlarged and freed, as it is in an instance of
section 7. A sufficient condition for that not to happen is proved besides
(`LargeFinSetStays`): a set with room for all entries of the map (`FinSetSuffices`)
is always allocated when it is read.

All these properties speak of the time between collections; the invariant `IInv`
has to say what is true in the middle of one. It is the tricolour argument for this
collector: `PendingFields` are the fields that some loop has yet to visit (on
`scan`, in an entry of `intgenSet` not yet handled, in the table of the weak map),
and `Sound` says that every *other* field of a block that stays refers to a block
that stays; a forwarded block has a copy that stays, and copies are unique. For
each phase `ScanOK`, `IntgenOK`, `MapOK` and `FinalOK` say what the loop variables
hold, `RememberedBlocks` being `intgenSet` with what
`HandleInterGenerationalPointers` has yet to put back into it. The invariant
covers garbage, too: a dead old block in `intgenSet` is visited as a live one is.
`StoreHeap` proves that copying a block (`ForwardSound`), storing a word with the
write barrier (`WriteSound`), storing one into a pending field (`StoreSound`),
allocation (`AddSound`) and freeing the collected regions (`ReleaseSound`)
preserve `Sound`; `StoreProofs` has a lemma per action, which says which fields
stop being pending and why they may. At `Release` nothing is pending, so that what
stays refers only to what stays, and `ReachStoredWords` carries this from the root to all that
can be reached. `LargeFinSetStays` rests on `RoomInv`: entries that were
finalized and those yet to be visited together are no more than the keys, so a set
that has room for these is never enlarged.

That nothing else survives is the converse, and needs an invariant of its own, since
`Sound` allows a copy nothing refers to. Following a path to each copy would be
hopeless: the fields on it are overwritten while blocks are copied. `ReclaimInv`
quantifies over sets instead: any set of addresses that contains the root and the
values in `finSet`, and with each of its copies what the fields of the copy that are
*not* pending refer to (`ClosedIn`), contains every copy that is not a table
(`Reclaimed`). A visit of a field takes it off the pending ones, so if it makes a copy,
every closed set has to contain it (`ReclaimedVisit`); a copy made for a finalized
entry is in `finSet`. Tables are apart because phase one copies the table of the map and not
the values: there is one, that of the map (`OneTable`). The invariant says this of two
kinds of sets. Those that are closed under the fields of the map, too, contain a value
kept because of a clash for that reason; those that are not have to contain `spared`
(`Kept`). At the end no field is pending, and what can be reached is a set of the first
kind (`StoredWordsReached`), which gives `MajorReclaims`; what can be reached otherwise
than through the map, from the root, the values to finalize and those that were spared,
is one of the second (`StrongWordsReached`), which gives `EntriesFinalized`.
`EntriesLeft` says that entries with an integer are still to be
visited, so none is left.

**`MinimizerProofs`** proves, for every heap and whatever other threads bind and
assign until it is partitioned, that `CountersExact` holds of `Minimizer` (`CountersAreExact`):
between any two steps of the refinement each class counts exactly the edges into
its nodes, is on the agenda with as many edges as it says, and is in the stack or
the current one if there are any. This is what the refinement rests on: a counter that
is too small drops an edge that should have been followed back, and one that is
too large keeps a class on the agenda with an edge that nothing takes off, so that the
search for the next edge never ends. It assumes `GraphsAssumption` (a graph is a
heap, and what is bound and assigned are words of it, as `Store` guarantees) and
`InvalidAssumption` (`INVALID_ARRAY_ELEM` is no integer). The assumptions are
evaluated by the run.

The inductive invariant `IInv` has four parts. `Collected`: the predecessors of a
node are links of nodes, and no link is recorded twice; otherwise the number of
recorded edges, which the code counts, would not be the number of edges. `Frames`
is why: the frames on the loader's stack stand for links that differ from each
other and from all that are recorded, because a node enters its arguments once,
when it gets its number. It also says that all words lead to blocks, which other
threads must keep. `Fresh`: until the refinement begins, the array is in the
order of loading. `Refined` is about the partition: the array is a permutation of
the nodes (`Permutes`), each class is a range of it (`Divides`), the classes to
split are those with marked nodes (`Marked`), the counters are those of the class's
members (`Counted`) and classes with negative counters are scheduled (`Scheduled`).
The proof has lemmas in the order of the code: what `Update` of a dynamic array, the
signed counters and the loops over the edges of a class do (`NewClassIs`,
`LeftIs`, `CompleteIs`, `ScheduleIs`), what marking a node does to the ranges
(`MarkNodeIs`), that `Deref` leads to words (`DerefIs`), that the quicksort stays in
its range, meets at a position and keeps all nodes, whatever order `Compare`
gives (`RoundIs`, `PartitionIs`, `SortIs`); and then one lemma per action, named
after it with `Keeps`. Induction over a sequence goes through `Induct` of
`SequenceLemmas`, with the values of the loop as a function.

It also proves that `Reduced` holds (`GraphIsReduced`): whatever has been assigned in
the meantime, each argument that holds what it held when its block was collected is
the integer it was or leads to a block of the class that it led into, and all these
arguments and the root lead to one block of a class; an argument that has been assigned to
keeps the word, or loses it to a block of the class that it had led into. This needs to know that the graph of
nodes *is* the heap as it was collected, which the counters do not. `Graph` says so of
`original`: different nodes have different blocks, which are no transients (`Owned`); an
edge is an argument that leads to the block of its node (`Linked`); a frame is an argument
that is still to be followed (`Framed`); and every argument is an integer, an edge or a
frame (`Covered`). When the stack is empty every argument that leads to a block is
therefore an edge, and of one node only. `Collecting` relates this to the heap there is:
it is the same but for the arguments of mutable blocks that were collected (`Twin`), so a
word leads to the same place in both, because references are never among these. Binding a
transient keeps `Graph` because what has been found stays (`DerefKept`): words that lead
to an integer or a block that is no transient lead there for good; an assignment to a
block that was not collected yet is part of `original`, and one to a collected block is
not. `Followed` says that nothing is left on the stack when the refinement begins.
`ReduceGraph` then chooses a node of each class, the root in its own (`LeadersAre`),
although the root has to be swapped with the first node of its class for that, and
rewires exactly the edges into the others (`RewiredIs`), whatever their arguments hold:
one that held what it did leads to the leader afterwards (`ArgLeads`), and one that was
assigned to since is overwritten (`ArgKept`, section 7).

Model-checked only, and why:

* liveness (`CollectionEnds`, `SignalsHandled`, `SleepersWake`, `ReadyWakes`,
  `QueuedThreadsRun`, `WaitersRun`), which is beyond the prover;
* `IsMemory` of `Store`: the refinement mapping resolves references and forwarded
  blocks in the middle of a collection, from the words the program has to the newest
  copies of all that they lead to; the proof would have to carry this graph, and
  not only which blocks are in it, through every copy;
* `Coarsest` of `Minimizer`: it is not true of every graph. A
  mutable block or chunk and an immutable one with the same content may compare equal,
  depending on the order in which they are compared (section 7), so `Compare` is no
  order and the first classes are not the classes of `Compare`. `Reduced` does not
  depend on what the classes are and is proved: blocks of a class are merged, and
  only those;
* `Pickling`: `OnlyWholePickles` is about the files in `Foreign` and holds of files that
  are no pickles, not of any bytes; `RoundTrip`, `StackFits`, `VariablesSetOnce` and the
  words of `TypeOK` are about what the pickler writes. Their proof would have to recover
  the instructions from the bytes, in whatever pieces the buffer delivers them, and to
  relate the pickler's stack of frames to the unpickler's stack of words instruction
  by instruction; the isomorphism of the two graphs is a closure over paths besides.

## 7. Findings

* `StoreSharedValue`: a value in two weak maps is finalized from one and stays in
  the other, although the manual and `test/store/basic/wk.cc` want both entries
  gone. SEAM's own users (`FinalizationSet`) register a value in one map only.
* `PicklingConcreteCycle`: the unpickler's `MakeFulfilledBlock` pops the argument
  of a concrete representation first and its name second, but the pickler visits
  the argument before the name (`Pickler.cc:1013-1014`), so the name is on top,
  as `AllocBlock` expects. For a cycle through a concrete representation the
  argument is taken for the name, no handler is found, and a whole pickle is
  refused as corrupt.

* `PicklingEmptyBlocks`: for a block without fields `SimulatePop(size - 1)`
  (`Pickler.cc:810`, `822`) adds one to the simulated height and not to its maximum, so
  that the announced height may be too small by as many words as there are such blocks.
  `UnpickleFrame::Push` asserts that it is not, and writes behind the frame in a
  production build. The assertion itself is off by one: it lets one word behind the frame
  pass. If the root is an empty tuple, `Assert(cur>0)` (`Pickler.cc:682`) fails
  before. `StackFits` says that nothing else is miscounted.

Met while modelling the pickler and the minimizer:

* A `FULFILL` of a concrete representation pops the size of its
  block from the simulated height rather than the two words of its transform
  (`Pickler.cc:770-773`). With more than three words the height wraps around, and the number that
  is written as the size of the stack is one that the unpickler refuses. `StackFits`
  fails in `Pickling` with `ConcreteSizes` as `{5}`.
* `ReduceGraph` stores the leader of a class in every argument
  that led to another node of it when the graph was loaded. What another thread has
  assigned to a mutable block in the meantime is lost: `Reduced` fails in `Minimizer`
  without the second of its alternatives for arguments that were assigned to. The worker
  that was to check whether a transient was met is never pushed
  (`MinimizerLoader.cc:324`).

Met while modelling the store, and reproducible by changing constants of its runs:

* `FINALIZE_PERMITTED(valp)` (`store/Store.cc:409`) reads the label of
  a header that the forwarding address has just replaced. With `LabelClash`, which says
  that an address may look like `WEAK_MAP_LABEL`, an entry that only the map refers to
  is kept: in `StoreCollections` `EntriesHold({})` fails, and `EntriesFinalized`, which
  leaves out what clashes spare, holds. The label bits are high bits of the address, so
  that all copies in some regions of memory are mistaken. `IsMemory` holds
  nevertheless: `StoreMemory` sets `LabelClash`, too.
* A finalization set that is enlarged during a collection of the youngest
  generation is allocated in one that a later minor collection frees, while `finSet`
  still refers to it, and `DoFinalize` reads it: in `StoreCollections` `FinSetIsAllocated`
  fails with a `FinSetSize` of 2 and `Collections` as `{0, 1}`. With the initial 1024 words
  this takes more than 511 finalizations in one collection.
* `finSet` is emptied only if a weak map is registered (`store/Store.cc:469`):
  after the last map was finalized, the next collection finalizes the old values
  again (`FinalizersGetLiveValues` fails with `StartupMap = None` and a map).
  Weak maps of SEAM itself are rooted for ever.
* A weak map revived by its own finalizer is no longer registered, is not scanned
  and keeps a stale table (`NoStalePointer` fails with maps and `Resurrect`).

Met in the queue, the reason for the preconditions of its properties:

* `Queue::Blank` takes an empty queue for a full one (`nentries > oldSize` in
  `adt/Queue.hh:182`), so it neither shrinks it nor zeroes its entries: words that
  left an empty run queue, wait queue or descriptor set stay alive across
  collections. `BlankForgets` is therefore about queues in use.
* `HeaderOp::EncodeSize` leaves the size-shift flag, so `Blank` of a buffer of
  more than `MAX_BLOCKSIZE` words writes a header that decodes to another size;
  hence `BuffersFit`.

Met in the event loop:

* A signal delivered between the test of the status word and its clearing waits
  for the next tick of the timer (`SignalsHandled` holds thanks to the tick).
* Without any descriptor to wait for, an idle machine does not call `select` and
  goes around the loop until a tick.
* `IODesc::NewClosed` leaves its key uninitialised, so that `Close` of such a
  descriptor unregisters an arbitrary key; `IOHandler`'s test for connected
  sockets passes the set of writers as the set of readers; `select` on a
  descriptor closed behind its back ends the program. None of these is modelled.

Met in the pickler: `StringOutputStream::Close` does not cut off the rest of its last
enlargement, so packed strings have bytes behind the end (`UnpackPacked`);
`PickleCheckWorker` commits its header piece by piece and starts over from the
last piece; an announced future is never bound if its handler replaces it.

Met in the minimizer: `compareBlocks` tests only one of two blocks for
mutability, so a mutable chunk and an immutable one may compare equal in one
order and not in the other. The labels of a mutable and an immutable block differ in
what SEAM's users allocate; the graphs of the run have no two that `Compare` could
confuse.

Met in the containers: `BaseMap::New` initialises `size` entries of a table whose
block may be larger for sizes above `MAX_BLOCKSIZE`; its threshold is 3/4 of the
size, that of `Resize` is 1 more; `Stack::SlowPush` does not grow stacks of
size 0 or 1, and `DynamicArray::Init` enlarges once, whatever the index: the
minimizer, their user here, meets neither.

## 8. Not modelled

* The stack of exception handlers of a thread (`Thread.hh:222-300`): frames of
  language layers push and pop its entries by a protocol that is not in this
  repository. `BindFutureWorker` and `UncaughtExceptionWorker` leave their entry
  in it, which is harmless in threads that end with these frames.
* The growth of task stacks, the layout of frames, backtraces, the profiler.
* The debugger's events and breakpoints, and the list structure of streams; what
  they do to threads and futures are actions of `Scheduler`.
* The broker, the loaders and start-up: straight-line calls of the operating
  system and registration of names.
* Windows: forwarder threads, handles, the timer thread. `select` stands for the
  kernel's; `FD_SETSIZE` is not reached.
* The header and the compression of gzip files, the bits of doubles and large
  integers, and quicksort of the pickler's locals, of which only the result
  (`StoresAt`) is modelled.
* The JIT, the interpreters, primitives and accessors of blocks: they keep no
  state that a property could relate, or work below the level of the model.

`PROJECT.json` lists every component with its state, every hazard with the
properties that watch it, and the source lines of every definition.
