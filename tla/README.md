# A TLA+ model of onlyio

onlyio is a single-threaded async runtime on `io_uring`. This directory holds
its specification: TLA+ modules translated from `src/src`, TLC configurations
that check them on small instances, and TLAPS proofs. Paths are relative to the
repository's own directory, `src/`; line numbers of every definition are in
`PROJECT.json` under `map`.

## 1. Inventory

One thread runs everything. There are no locks and no preemption; what makes the
program hard is that (a) `spawn()` polls another body in the middle of the
caller's poll, (b) all context travels through one thread-local, `CURRENT_TASK`,
(c) the kernel's answers come back as a 64-bit word that names a slab index and a
number, in any order, one or several per submission, and (d) tasks are freed by
hand-written reference counting.

| Component | State | Operations | Talks to |
|---|---|---|---|
| event loop, `runtime.rs` | `pending`, the ring, `CURRENT_TASK`, `RUNTIME_FREE_LIST` | `block_on`, `submit_and_wait`, `handle_cqe_entry`, `spawn`, `sqe_queue_push`, `free_unsed_slab_slot` | kernel, tasks, slab |
| task header, `task.rs` | `ref_counter`, `syscall_nb`, `slab_idx`, the future inline | `poll`, `inc_rc`, `add_rc`, `release`, `Clone`, `Drop` | slab (through the free list), future |
| syscall number, `task.rs`, `runtime.rs` | a u16: rank and `MULTIPLE_MASK`, one copy in the task, one in `CURRENT_TASK`, one in each SQE | `evaluate_syscall_nb`, both `augmente_syscall_nb`, `set_multishot`, `set_current_task_multiple` | event loop |
| task slab, `task_slab.rs` | array of tagged words, `head`, `len`, `task_count` | `insert`, `growth`, `remove_dropped_task`, `count`, `Drop` | event loop, tasks |
| user_data, `runtime.rs`, `buf_pool.rs` | 64 bits: slab index, generation, number; or the slot of a `WBuffer` | `into_user_data`, `from_user_data`, `wbuf_write_udata` | event loop |
| single-shot futures, `calls/read.rs`, `calls/accept.rs` | Init / Pending | `poll` | `CURRENT_TASK`, buf_ring |
| streams, `calls/read.rs`, `calls/accept.rs`, `stream.rs` | Init / Running / Done | `poll_next` | `CURRENT_TASK`, buf_ring |
| commit, `calls/commit.rs`, `buf_pool.rs` | Init / Pending, `committed` | `commit`, `poll`, `Drop for RwBuffer` | buf_ring |
| fan-out write, `calls/write.rs` | `in_fligth_count`, `fds` | `write_multiple` | `add_rc`, `advance_syscall_nb` |
| buf_ring, `runtime.rs` | entries and a u16 tail in shared memory | `release_buf_to_ring` | kernel |
| write pool, `buf_pool.rs` | `write_free`, `write_rc` | `alloc_write`, `Clone`, `Drop`, `submit`, `on_write_cqe` | event loop |
| connect, single write | Init / Connecting / Pending | `poll` | `CURRENT_TASK` |
| Waker, `runtime.rs` | `RUNTIME_WAKE_LIST` | `awake`, `Drop` | event loop; never constructed |

What makes each correct:

* *Counting*: a task is freed exactly when no SQE of it is outstanding and nobody
  polls it. Everything else rests on this, since the slab index in a `user_data`
  is followed with no generation check.
* *Tags*: the two copies of a task's number agree whenever a body can submit, and
  no SQE is ahead of its task; each completion reaches the future that waits for it.
* *Progress*: the loop never sleeps with nothing in flight, and it returns once
  the bodies have.
* *Buffers*: a read buffer is in one place: the buf_ring, a completion, or a task.
* *Writes*: a write buffer is free exactly when nobody holds it, and the kernel sends
  what the body put in it.
* *Ends*: what one `block_on` leaves behind, by returning or failing, harms neither the
  next call nor the destructors of the thread.
* *Slab*: the intrusive list goes through every free slot once; no index in use, or
  waiting to be vacated, is given out.

`PROJECT.json` lists under `hazards` the lines where each of these could go wrong.

## 2. Modules

| Module | Models | |
|---|---|---|
| `SyscallNb` | the number: ranks, mask, comparison, the two increments | constant-level |
| `Runtime` | event loop, counts, leaf futures, read buffers, the kernel | one action per handler |
| `MCRuntime` | `Runtime` and its symmetry set for TLC | |
| `Executor` | what a body may expect of the runtime | abstract; `Runtime` implements it |
| `Teardown` | the end of the thread: `Drop` of the slab | extends `Runtime` |
| `TaskSlab` | the slab word by word, and `RUNTIME_FREE_LIST` | detailed |
| `SlotTable` | what the runtime needs of the slab | abstract; `TaskSlab` implements it |
| `BufRing` | the memory of the buf_ring and the stores of a release | detailed |
| `BufBag` | what the runtime and the kernel need of the buf_ring | abstract; `BufRing` implements it |
| `WritePool` | write buffers, their handles and the writes in flight | |
| `UserData` | the union and the words of `WBuffer::submit`, as arithmetic | |
| `RuntimeProofs` | `Runtime`, all operations: types and reference counts | TLAPS |
| `TagProofs` | `Runtime`, all operations: numbers, and the causes of panics | TLAPS |
| `SingleShotProofs` | `Runtime`, single-shot programs: buffers, panics, `Executor` | TLAPS |
| `TeardownProofs` | `Teardown`, single-shot programs | TLAPS |
| `TaskSlabProofs`, `BufRingProofs` | invariants and the refinements of `SlotTable` and `BufBag` | TLAPS |
| `WritePoolProofs`, `UserDataProofs` | their invariants | TLAPS |

### Runtime

`pc` says where the thread is. `block_on` goes `start → (run … ret) → submit → wait
→ handle → (leaf … run … ret → handle)* → submit …` and ends in `done` (`Ok`),
`error` (`io_uring_enter` failed) or `panic`; `fault` says which assertion or
`expect` it was. After `done` or `error` the thread may call `block_on` again
(`BlockOnAgain`), with the tasks and SQEs an error left behind.

Two faults are modelled, both handled by the code in its own way: `SubmitFails`, an
error of `io_uring_enter` that `block_on` returns, and `WokenEarly`, a wait cut short
by a signal after the SQEs went through, which the program meets as a success with an
empty queue.

* `leaf`: `Task::poll` has been called for a completion and the future the body
  awaits is polled; the `Poll*` actions are its arms.
* `run`: the body runs between two awaits. A body is arbitrary code, so each of
  the actions of `Body` is possible: any operation in `Ops`, a nested `spawn`,
  dropping a buffer, `WBuffer::submit`, awaiting a future of another library (which
  a completion of something else may find ready, or not), making a new stream,
  returning. A property that holds of `Runtime` thus holds of every program whose
  tasks await one future at a time, keep at most one `RwBuffer` and have at most one
  stream of each kind at a time; section 6 lists what is left out.
* `ret`: poll has returned; `AfterPoll` makes the `release()` calls its caller
  makes: the explicit one and the `Drop` of its handle (`owed`), or only the latter
  when `F_MORE` is set.

`WBuffer::submit` (`SubmitWBuffer`) is the one operation whose SQE belongs to no task:
it takes no reference and nothing awaits it. Its word has bit 63 set and the index of
a write buffer below; `handle_cqe_entry` reads the index as a slab index and bit 63 as
`MULTIPLE_MASK` (`InternalSqe`, shown of the bits in `UserData`), and
`rt.tasks[abs_idx]` finds no task (`Verdict`). `WriteIdx` are these indices. They start
at 512 (`Runtime::new`), so a slab with more than 512 tasks shares them: `FewTasks`
says it does not, and is assumed where `"submit"` is in `Ops`; section 5 says what
happens otherwise. `TaskSqes` are the SQEs of tasks: `SqeOwnerLive`, `ReturnsClean` and
`PanicCauses` say what holds of these, and which panic the others cause.

`stack` holds the `old_context` locals of the `spawn()` calls in progress. `slot`
is the slab as `SlotTable` sees it. `sqes` are the submissions whose last
completion has not been handled; `pending` are the ones the kernel has not taken (in
`Runtime::pending`, or left in the submission queue by an `io_uring_enter` that failed:
both count against its room at the next call) and `posted` the ones whose last
completion is queued. `entries` is the
completion queue, and then the `Vec` the loop iterates over: with
`setup_defer_taskrun` the kernel posts only while the thread is in
`io_uring_enter`, so nothing is added while the `Vec` is handled. `avail[b]` counts
the entries of the buf_ring that name buffer `b`.

Data is reduced to what control depends on: a result is its sign, flags are
`F_MORE` and the buffer, an SQE carries its identity (`id`), its tag and its
operation. `current.op` is a history field, read by properties only.

The kernel (external, `KernelPost`) completes any submitted SQE, in any order, with
an error or a success; multishot operations any number of times with `F_MORE`.
A receive takes a buffer the ring names, and at end of file or on an error may carry
one or none, which is what `ReadFuture` handles. SOCKET yields any index, 0 included.

`connect` is two operations of one future: the leaf is `socket` until its completion
is polled, then `connect`, and `fd` is compared with 0 as in the code.

### Executor

Each slab index has a status: absent, running, waiting, answered, finished. The
executor resumes a body only after its answer, once; never loses an answer; gives a
place away only after the body has returned. `ImplementsExecutor` maps a live task to
its status by `fut`, `owed` and `posted`, with the fairness of `Executor`: the
environment may leave an operation unanswered, the executor may not leave an answer
unused. It holds of programs of single-shot operations; streams, commit and fan-out
break it in the ways sections 3 and 5 tell.

### Teardown

After `block_on` returns the thread may end. `Drop for Slab` goes through every slot
and releases its task once; a read buffer held by a dropped future stays out, since
`release_read_buf` uses `try_with`. The slots are visited in any order.

### TaskSlab and SlotTable

The slab is modelled word by word: tag bit, shift by one, 32-bit truncation (with
the width a parameter), doubling growth, sentinel. `Die` is the end of
`Task::release`; the index waits in `free_list` and the allocator may return the same
address for the next task before the slot is vacated. `ImplementsTable` is the
refinement: the status of each index, computed from tasks and free list, moves only
by `SlotTable`'s steps. `Runtime` uses the same three statuses and the same steps.

### BufRing and BufBag

Every entry has an address, a buffer id and the reserved field which, in entry 0, is
the tail. A release is its four memory accesses in program order, and the kernel may
select a buffer between any two, which is more than `DEFER_TASKRUN` allows it. `SlotOf`
is `tail & mask`, `NextTail` the cast to u16. `ImplementsBag` says that, to both sides, a
release happens at the store of the tail.

### WritePool

`handle[s]` counts the `WBuffer`s bodies hold of slot `s`; `future[f]` is the `_buffer` of
fan-out `f`; `flight` are the writes the kernel has not completed, each with the pointer
and the table index of its SQE. The clone a fan-out makes for `send_multiple_write`, the
clone of each fd and the drops of all of them are steps of their own (`write_multiple`,
`SendOne`, `SendEnds`), between which nothing else happens. `write()` names a slot
whoever holds it. `content` and `given` are versions of the data, so that a
fan-out that sends something else than it was given is seen (`torn`), unless a clone was
kept that may have been written through (`sole` is false). That a fan-out is
dropped only after its last write has been handled is what `Runtime` shows as
`SqeOwnerLive`, and is the guard of `DropFuture`.

### UserData

`task_idx + IDX * (response_gen + GEN * syscall_nb)` is the little-endian layout of the
`repr(C)` union; the widths are constants. `Handle` is `TaskInfo::from_entry`, applied to
the words of tasks and of `WBuffer::submit` alike: `RoundTrip` says what it finds in either.

## 3. Runs

Passing runs:

* `runtime_all`: two tasks, all operations but accept, write (the shape of read) and connect
  (two reads in a row), one read buffer, one write buffer for `WBuffer::submit`, fan-out to 0, 1 or 2 fds, a submission queue of 2 so that it
  overflows, four operations or further `block_on` calls in total, one completion with
  `F_MORE`. Four are enough for a stream inside a spawned task followed by a commit, for
  a nested spawn between two submissions, for a slot to be vacated and reused, for a
  failed call followed by another, and for the completion of a `WBuffer::submit` to hit a
  later call than the one that made it. Besides counts and tags it shows how far the mixing of
  completions goes: `OwnCompletion`, only tasks with a stream are polled with an answer
  to something else, and `PanicCauses`, which says of each panic where it comes from.
* `runtime_single`: three tasks, two buffers, four operations of accept, read, write,
  connect and spawn. On this part of the API no path panics but the interrupted wait,
  each future is polled only with its own completion, buffers are never lost or
  duplicated, `block_on` does not report success with its future dropped and no task is
  freed before its body returns. `RingEntries` is the number of tasks: with more tasks
  than submission-queue entries, `push_multiple` fails (`SubmitOverflow`).
  `MULTIPLE_MASK = 2` leaves two ranks, so the end of the rank's range is crossed.
* `runtime_live`: two tasks, fair, with read, connect and spawn. `FairSpec` has weak fairness of the thread's own
  steps, of bodies (a body reaches its next await; `Budget` bounds how many), and of
  the kernel, which answers what it has been given. `block_on` assumes the latter:
  an accept nobody connects to keeps it blocked, as it should. Faults and further calls
  have no fairness: they may happen or not. The same instance implements `Executor`,
  fairness included.
* `teardown`: single-shot programs, with the thread ending after any return: the
  slab's one release per task drops every future, because each has one SQE.
* `bufring`: four entries and a tail of three bits, so that it wraps every second lap;
  the code has 512 entries and sixteen bits, and a power of two divides another.
* `pool`: two write buffers, two fan-outs of up to two fds, clones, `submit`, `write` and
  two changes of content: the counts and the free list stay exact, and a fan-out keeps
  its buffer from being reused and sends what it was given. Two buffers let a freed
  one be given out while the other is in flight, and run out.
* `userdata`: all words of fields of 8, 4 and 8 values.
* `slab`: four addresses, capacity 1, growth to 4 slots, so two growths, full slabs
  and reuse of slots and addresses in every order. 9 is the least `U32_MAX` that
  encodes index 4.

Violation runs: each checks one sentence of a comment, document or test that the
code does not keep; `PROJECT.json` quotes the sentence.

| Run | What happens |
|---|---|
| `finding_commit` | read, then commit: the write's completion is refused as "newer than expected" |
| `finding_released_once` | a stream polled twice on one completion releases one buffer twice |
| `finding_fan_out` | the second completion of a two-fd write counts as stale; the root is dropped and `block_on` returns `Ok` |
| `finding_internal` | the completion of a `WBuffer::submit`, bit 63 set, is looked up as a task and panics |

Every bound is a constant: `Budget`, `MaxShots`, `RingEntries`, `MaxLen`, `MaxFds`,
`MaxHandles`, `MaxVersion`, the sizes of `Idx`, `Buf` and `WriteIdx`, and the widths
`U32_MAX`, `U16`, `IDX`, `GEN`, `NB`, `MULTIPLE_MASK`. The widths are scaled down;
`MULTIPLE_MASK = 16` leaves more ranks than `Budget` can use, so no run but
`runtime_single` meets the wrap.

Each property of a passing run has a mutant of the code in `PROJECT.json` that
breaks it.

## 4. Proofs

Every safety property a passing run checks is also a theorem, for all values of the
constants. What each rests on:

| Module | Theorem | States | Beyond the named assumptions of the constants |
|---|---|---|---|
| `RuntimeProofs` | `TypeCorrect` | `TypeOK` | `FewTasks` |
| | `CountsAreExact` | `RcExact` | `FewTasks` |
| | `OwnersStayLive` | `SqeOwnerLive` | `FewTasks` |
| | `NoVainWait` | `NeverWaitsForNothing` | `FewTasks` |
| | `ReturnsLeaveNothing` | `ReturnsClean` | `FewTasks` |
| `TagProofs` | `TagsStayInStep` | `TagsInStep` | `FewTasks`, `[]RanksFit` |
| | `StreamlessPollsAreTheirOwn` | `OwnCompletion` | `FewTasks`, `[]RanksFit` |
| | `PanicsExplained` | `PanicCauses` | `FewTasks`, `[]RanksFit` |
| `SingleShotProofs` | `EveryPollIsItsOwn` | `OwnCompletion` | `SingleShot` |
| | `BuffersAccountedFor` | `BufferLedger` | `SingleShot` |
| | `OkMeansCompleted` | `RootCompletes` | `SingleShot` |
| | `PanicFree` | `NoPanic` | `SingleShot`, no more slots than ring entries |
| | `FreedOnlyWhenComplete` | `FreedWhenComplete` | `SingleShot` |
| | `RuntimeFollowsExecutor` | `Promise!Spec` | `SingleShot` |
| `TeardownProofs` | `NothingLeaks` | `AllDropped` | `SingleShot` |
| `TaskSlabProofs` | `TypeCorrect` | `TypeOK` | `NoWrap` |
| | `FreeListAlwaysExact` | `FreeListExact` | `NoWrap` |
| | `CountAlwaysExact` | `CountExact` | `NoWrap` |
| | `IndicesAlwaysExact` | `IndexExact` | `NoWrap` |
| | `SlabImplementsTable` | `ImplementsTable` | `NoWrap` |
| `BufRingProofs` | `TypeCorrect` | `TypeOK` | |
| | `WindowAlwaysSound` | `WindowSound` | |
| | `RingImplementsBag` | `ImplementsBag` | |
| `WritePoolProofs` | `TypeCorrect` | `TypeOK` | |
| | `PoolCounts` | `RcExact` | |
| | `PoolFree` | `FreeExact` | |
| | `FanOutKept` | `InFlightKept` | |
| | `FanOutSendsItsData` | `SendsWhatWasGiven` | |
| `UserDataProofs` | `TypeCorrect` | `TypeOK` | |
| | `RoundTripAlways` | `RoundTrip` | |

The hypotheses:

* `FewTasks`: if the program calls `WBuffer::submit` at all, no slab index is the index
  of a write buffer: at most 512 tasks at a time. Other programs satisfy it whatever
  their size. Without it a completion of `submit` may reach a task (section 5), and the
  counts are not exact.
* `SingleShot`: the bodies use no stream, commit, fan-out, `WBuffer::submit` or foreign
  future. With streams, commits or fan-outs, properties of `runtime_single` fail, as sections 3 and 5 tell.
* `RanksFit`: no task has been resumed from so many single-shot operations that its rank
  is at the end of its range (0x7fff). Past it `augmente_syscall_nb` turns the rank into
  the mask and the other increment wraps to 0, so the tags do fall out of step.
* `NoWrap`: the slab has at most half as many slots as a u32 has values. Above that
  `free_slot` loses the top bit of an index.
* `PanicFree` needs the submission queue to hold one SQE of each task; with fewer entries
  `SubmitOverflow` is reachable.

### Reference counts: `IInv`

Apart from the types, none of the properties of `RuntimeProofs` is inductive. A release
subtracts what the poller owes, so one must know that `owed` is positive for exactly the
tasks being polled: `Polled`, `Nested` (the contexts saved by nested spawns name distinct
tasks) and `Owers`. Handling a completion removes its SQE, so one must know it is still
there, was submitted, and is not named by a later entry: `Queued`. Counting needs
finitely many SQEs with fresh identities: `Fresh`. `Waiting` says that from a drain of
the free list to the next poll no slot is dead, which is what a return of `block_on`
needs; `Drained` that the queue is empty outside the wait and the batch, so that none is
left when `block_on` returns. `Untasked` says what the SQEs of `WBuffer::submit` are: the
only ones whose index is a write buffer's. The rest (`Vacated`, `Awaits`) is what the
properties say, split by status. There
is one lemma per kind of step: steps that submit nothing (`Quiet`), steps that submit
(`Submits`), spawns, the three returns, submission, drains, dispatch, the kernel.

### Tags: `Tags`

`TagsInStep` says that the whole numbers agree whenever the body can still submit, and
their ranks as long as it is polled, which is not inductive: `InStep` says it of saved
contexts too, for when a nested `spawn` returns. The heart is `Awaited`: an SQE under
the present rank of its task and without the mask is one that the task, suspended,
awaits. A task that is being polled has none, so whatever its body does next leaves
behind only SQEs that are stale, masked, or awaited; and the completion of one of these
that does resume the task (`Handed`) is of the future it awaits. `Masked` says that a
masked SQE of the present rank is a stream's, or a commit's; a refused completion can be
nothing else. `Acts` is the shape of every step of a body or a future that keeps the
rank; `PollsOn` of those that enter a poll or advance it; `Settles` of those in between.

### Single-shot programs: `SInv`

`OneSqe` is the strengthening that matters: a task that is being polled has no SQE
outstanding, and one that is not has exactly one, under its present number and of the
operation its future awaits, or has returned. So every verdict is `Normal` (or
`Multiple`, past the last rank, where the two copies of the number still agree), none is
stale, and the last release comes after the body has returned. `Ledger` splits
`BufferLedger` by place, since a sum of cardinalities is not what a step preserves:
each buffer is in the ring, in one queued completion, in one task, or in the completion
being polled. `RuntimeFollowsExecutor` maps each kind of step to a step of `Executor` or
to none; `NothingLeaks` follows from `OneSqe`, as one release is what a task with one SQE
needs.

### The other components

*TaskSlab.* The free list is exact by an order on the free slots (`ord`): the head has the
highest place and each free slot points to the one below. Free list and indices are one
induction: a slot vacated is not on the list because the indices of `RUNTIME_FREE_LIST`
are task slots, and those stay task slots because `insert` takes a free one.

*BufRing.* `WindowSound` is not inductive: the entry being filled must lie outside the
window. It does because the buffers available, selected and being released are distinct
(`Apart`): a full ring would name more buffers than there are. `Written` says what the
stores done so far have put there. Across the wrap of the tail the places are the same
because the ring's size divides the tail's range.

*WritePool.* Counts and free list are one induction: a slot leaves the list with count 0
only if the list is exact, and returns to it with its last holder only if the counts
are. `InFlightKept` needs `Carried`: a write of a fan-out is of the buffer its future
keeps. `SendsWhatWasGiven` needs `Exclusive`: of a buffer given with its only handle no
body or future holds another, and nothing has changed in it. Of the clones of a fan-out
`CloneDropped` says that each is dropped again and is never the last handle.

*UserData.* Quotient and remainder (`DivMod`), at every width: TLC cannot enumerate the
2^64 words of the program.

The strengthenings of the runtime's properties (`IInv`, `SInv`, `Tags`) were checked with
TLC before they were proved.

Only model-checked: `BlockOnReturns` and the fairness part of `ImplementsExecutor`. Both
are liveness under weak fairness, which needs `ENABLED` and is out of the prover's reach.
The violation runs are counterexamples and have no theorem.

## 5. Seen while modelling

Behaviour the model has and no run singles out, where a comment or document reads
otherwise:

* Inside a read stream, `CommitFuture` resolves on the next receive
  (`src/calls/commit.rs:35`); `OwnCompletion` confines this to tasks with streams.
* A multishot receive that ends with result 0 and no buffer panics in `ReadStream`
  (`src/calls/read.rs:107`); `DESIGN_COMMIT_FIX.md:115` treats it as the end.
* A body that returns with a multishot operation outstanding is resumed, and panics
  (`src/task.rs:224`); the comment at line 219 says it returns `Ready` at once.
* After the last rank a task slides into multiple mode: the `checked_add` at
  `src/task.rs:142` cannot overflow.
* Above 2^31 slots `free_slot` loses the top bit of an index (`src/task_slab.rs:53`).
* `block_on` waits for every task, so an armed accept stream of another task keeps it
  after the root has returned (`src/runtime.rs:198`); `README.md:111` says it runs until
  the root completes.
* A wait interrupted by a signal after a submission panics with "Entries len ==0"
  (`src/runtime.rs:177`).
* `write_multiple` with no fd fails the assertion on overflow (`src/task.rs:187`).
* With the socket in slot 0 of the fixed files, CONNECT is submitted again on its own
  completion (`src/calls/socket.rs:32`).
* A clone kept across a fan-out can change what the kernel sends (`src/buf_pool.rs:273`).
* `write()` points into a write buffer and names a read buffer of the table
  (`src/runtime.rs:311`).
* `WBuffer::submit` drops its handle when it returns, so the slot is free, and may be
  written by the next owner, while the write is in flight (`WritePool.Submit`);
  `src/buf_pool.rs:284` says it consumes `self` without decrementing the count.
* `block_on` does not wait for the writes of `WBuffer::submit`: it may return `Ok` before
  they are submitted, and their completions then panic in the next call
  (`src/runtime.rs:153`).
* With more than 512 tasks alive, the completion of a `submit` reaches the task at that
  index: it takes a reference from it when it counts as stale, or resumes it if it is in
  multiple mode at rank 0 (`src/runtime.rs:216`). No run has such a slab.
* A `ReadStream` that ends with an error loses a buffer the completion carries
  (`src/calls/read.rs:103`); `ReadFuture` returns it, as line 35 explains.
* Bit 63, the mark of internal words, is set on every multishot tag
  (`src/buf_pool.rs:46`), so testing it first, as line 24 has it, would not tell them apart.
* At thread exit a task with two writes outstanding is released once and not dropped
  (`src/task_slab.rs:63`).

## 6. Not modelled

* Wakers: no code constructs one, so `RUNTIME_WAKE_LIST` stays empty.
* `spawn` outside `block_on`: the public function can be called before it; the task is
  then polled at once and waits for the first `block_on`.
* `WBuffer::submit` outside a task body: the public function can be called between two
  calls of `block_on`; the SQE waits in `pending` for the next one.
* Several streams of one kind alive in one task. A stream made in place of an earlier one
  is modelled, with the SQE of the earlier one still armed.
* `on_write_cqe`, `decode_wbuf_udata`, `is_internal_cqe` and `RWBUF_WRITE_UDATA`: nothing
  uses them.
  `write`, `connect` and `write_multiple` are modelled although `lib.rs` does not
  re-export the first two.
* The sockaddr behind a CONNECT, the lengths and results of writes beyond their sign,
  and the list of failures a fan-out returns.
* The fixed-file table: slots are never closed by the runtime, so a program that
  accepts more than `DEFAULT_MAX_CONNECTIONS` connections gets errors from the kernel.
* `Task` memory layout; `release` reads `*counter` after `dealloc`, but the value is
  never used.
* The width of `ref_counter` (65535 references need as many outstanding SQEs).
* `Slab::remove` (tests only), the unwinding of a panic, and the deallocations of
  `Drop for Runtime` and `Drop for BufPool`.
* Programs that poll several futures of one task at once (`join`, `select`).
* Debug output.

## 7. Plan

Every safety property is proved. What could be added is sharper statements for the parts
of the API that have findings: a ledger of read buffers for programs with commits but no
streams, and the causes, beyond panics, of a future dropped before its body returns.
