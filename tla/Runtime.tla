------------------------------ MODULE Runtime ------------------------------
(***************************************************************************)
(* The event loop of src/src/runtime.rs with the task reference counts of  *)
(* src/src/task.rs and the leaf futures of src/src/calls/*.rs.             *)
(*                                                                         *)
(* Everything runs on one thread, so the program is a sequential process   *)
(* with a program counter pc; only the kernel runs beside it, and (the     *)
(* ring is set up with DEFER_TASKRUN) posts completions only while the     *)
(* loop is inside io_uring_enter.  The bodies of the tasks are arbitrary:  *)
(* between two awaits a body picks any operation of Ops, in any order.     *)
(*                                                                         *)
(* The slab is used through what TaskSlab is shown to implement: insert    *)
(* returns some vacant index.                                              *)
(***************************************************************************)
EXTENDS SyscallNb, Sequences, FiniteSets

CONSTANTS
    Idx,          \* indices of the task slab
    NullIdx,      \* SlabIdx::dummy()
    WriteIdx,     \* absolute indices of write buffers: also u32, and from 512
                  \* on, so a slab of more than 512 tasks shares them
    Buf, NoBuf,   \* read buffers registered in the buf_ring; no buffer
    Ops,          \* the operations task bodies use
    FanOut,       \* the numbers of fds write_multiple is called with
    RingEntries,  \* DEFAULT_RING_ENTRIES: the depth of the submission queue
    Budget,       \* bound: operations all bodies start, together
    MaxShots      \* bound: completions a kernel posts with F_MORE set, and
                  \* connects that succeed on a socket of index 0

U16_MAX == 65535
RANK_MAX == 32767

Op == {"accept", "read", "write", "connect", "socket", "accept_stream",
       "read_stream", "commit", "write_multiple", "submit", "spawn", "foreign"}

ASSUME ConstantAssumption ==
    /\ NullIdx \notin Idx /\ NoBuf \notin Buf
    /\ Ops \subseteq Op
    /\ FanOut \subseteq 0 .. RANK_MAX   \* add_rc compares counts modulo 2^15
    /\ RingEntries \in Nat /\ Budget \in Nat /\ MaxShots \in Nat

VARIABLES
    pc,         \* where the thread is: see Running and the actions
    fault,      \* why it panicked
    current,    \* CURRENT_TASK: the TaskInfo futures read and tag SQEs with
    stack,      \* the old_context locals of the spawn() calls in progress
    slot,       \* "free", "live", or "dead": deallocated, the slab slot not
                \* yet vacated because its index waits in RUNTIME_FREE_LIST
    rc, nb,     \* RawTask::ref_counter and RawTask::syscall_nb
    fut,        \* the future stored behind the task's header
    owed,       \* release() calls the poller of a task makes once poll returns
    sqes,       \* submissions whose last completion has not been handled
    pending,    \* those not taken by the kernel: in Runtime::pending, or left
                \* in the submission queue by an io_uring_enter that failed
    posted,     \* those whose last completion is in the completion queue
    entries,    \* the completion queue, then the Vec the loop iterates over
    avail,      \* how many entries of the buf_ring name a read buffer
    root,       \* what became of the futures given to block_on
    budget, shots, sqe_seq   \* bounds, and the identity of the next SQE

loopVars == <<pc, fault, current, stack>>
taskVars == <<slot, rc, nb, fut, owed>>
ringVars == <<sqes, pending, posted, entries>>
boundVars == <<budget, shots, sqe_seq>>
vars == <<loopVars, taskVars, ringVars, avail, root, boundVars>>

-----------------------------------------------------------------------------
(* The data of the runtime. *)

Running == {"run", "leaf", "ret"}     \* some task is being polled
Halted  == {"done", "error", "panic"}
Location == {"start", "submit", "wait", "handle"} \cup Running \cup Halted

Multishot == {"accept_stream", "read_stream"}
Receives  == {"read", "read_stream"}

Gen == 0 .. U16_MAX
Result == {"pos", "zero", "neg"}      \* the sign of an i32 result

(* task, gen and nb are the user_data.  task is the index of a task, or what
   the union makes of the word of a WBuffer::submit. *)
Sqe == [id: Nat, task: Idx \cup WriteIdx, nb: SyscallNumber, gen: Gen,
        op: Op, buf: Buf \cup {NoBuf}]
Cqe == [sqe: Sqe, res: Result, more: BOOLEAN, buf: Buf \cup {NoBuf}]

(* TaskInfo: the tag, and result, flags (F_MORE and buffer id) and
   response_gen of the completion; op is the completion's operation. *)
TaskInfo == [task: Idx \cup {NullIdx}, nb: SyscallNumber, op: Op \cup {"none"},
             res: Result, more: BOOLEAN, buf: Buf \cup {NoBuf}, gen: Gen]

Dummy == [task |-> NullIdx, nb |-> 0, op |-> "none", res |-> "neg",
          more |-> TRUE, buf |-> NoBuf, gen |-> U16_MAX]

InitialPoll(i) == [task |-> i, nb |-> 0, op |-> "none", res |-> "pos",
                   more |-> FALSE, buf |-> NoBuf, gen |-> U16_MAX]

FromEntry(c) == [task |-> c.sqe.task, nb |-> c.sqe.nb, op |-> c.sqe.op,
                 res |-> c.res, more |-> c.more, buf |-> c.buf, gen |-> c.sqe.gen]

SetToNextTask(info) == [info EXCEPT !.res = "neg", !.more = FALSE, !.buf = NoBuf,
                                    !.gen = 0, !.nb = TagAugmente(@)]

(***************************************************************************)
(* A task's future: the leaf future its body awaits, the RwBuffer the body *)
(* holds, the buffer a CommitFuture keeps, the states of the body's two    *)
(* streams, the generations a WriteMultipleFuture still expects (its fds   *)
(* that are not u32::MAX; in_fligth_count is their number), and the fd of  *)
(* a SocketFuture: "zero" is 0, "neg" an error cast to u32.  A             *)
(* SocketFuture in state Connecting is leaf "socket" or "connect", by the  *)
(* SQE it submitted last.                                                  *)
(***************************************************************************)
Leaf == (Op \ {"spawn", "submit"}) \cup {"none", "complete"}
StreamState == {"Init", "Running", "Done"}
Future == [leaf: Leaf, held: Buf \cup {NoBuf}, cbuf: Buf \cup {NoBuf},
           astream: StreamState, rstream: StreamState,
           left: SUBSET Nat, fd: Result, root: BOOLEAN]

NewFuture(isRoot) == [leaf |-> "none", held |-> NoBuf, cbuf |-> NoBuf,
                      astream |-> "Init", rstream |-> "Init",
                      left |-> {}, fd |-> "zero", root |-> isRoot]

SqesOf(i) == {s \in sqes : s.task = i}

(* The submissions tasks await, and have a reference for. *)
TaskSqes == {s \in sqes : s.op # "submit"}

(* The slab of a program that calls WBuffer::submit does not reach the index
   of a write buffer: it has at most 512 tasks at a time. *)
FewTasks == "submit" \in Ops => WriteIdx \cap Idx = {}

(* release_buf_to_ring: one more entry of the buf_ring names buffer b. *)
release_read_buf(b) == IF b = NoBuf THEN avail ELSE [avail EXCEPT ![b] = @ + 1]

Panic(why) == /\ pc' = "panic" /\ fault' = why
              /\ UNCHANGED <<current, stack, taskVars, ringVars, avail, root, boundVars>>

-----------------------------------------------------------------------------
(***************************************************************************)
(* Reference counts.                                                       *)
(***************************************************************************)

(* What the handler of a completion, or spawn, gives back after the poll:
   its own handle (Drop), and the token of an SQE that has ended. *)
Owed(more) == IF more THEN 1 ELSE 2

\* The slot is offered for reuse while completions are still outstanding.
SlotAfterReleaseEager(i, n) == IF rc[i] <= n + 1 THEN [slot EXCEPT ![i] = "dead"] ELSE slot

\* release() that forgets to push the index on RUNTIME_FREE_LIST.
SlotNeverFreed(i, n) == slot

SlotAfterRelease(i, n) == IF rc[i] = n THEN [slot EXCEPT ![i] = "dead"] ELSE slot

(* n calls of Task::release on task i.  The last handle drops the future
   (an RwBuffer it holds goes back to the buf_ring) and pushes the index on
   RUNTIME_FREE_LIST. *)
Release(i, n) ==
    /\ rc' = [rc EXCEPT ![i] = @ - n]
    /\ IF rc[i] = n
       THEN /\ avail' = release_read_buf(fut[i].held)
            /\ fut' = [fut EXCEPT ![i] = NewFuture(FALSE)]
            /\ root' = IF fut[i].root /\ fut[i].leaf # "complete" THEN "dropped" ELSE root
       ELSE UNCHANGED <<avail, fut, root>>

\* One index taken from RUNTIME_FREE_LIST instead of all of them.
FreeOneSlot(sl) ==
    IF \E i \in Idx : sl[i] = "dead"
    THEN [sl EXCEPT ![CHOOSE i \in Idx : sl[i] = "dead"] = "free"]
    ELSE sl

(* free_unsed_slab_slot, and tasks.count() = 0 on its result. *)
free_unsed_slab_slot(sl) == [i \in Idx |-> IF sl[i] = "dead" THEN "free" ELSE sl[i]]

IsRuntimeFree(sl) == \A i \in Idx : sl[i] = "free"

-----------------------------------------------------------------------------
(***************************************************************************)
(* spawn(): Task::new (rc = 1), a clone for the slab (rc = 2), the context *)
(* of the caller saved, and the body entered for its first poll.           *)
(***************************************************************************)
SpawnTask(i, isRoot, context) ==
    /\ slot[i] = "free"
    /\ slot' = [slot EXCEPT ![i] = "live"]
    /\ rc' = [rc EXCEPT ![i] = 2]
    /\ nb' = [nb EXCEPT ![i] = 0]
    /\ fut' = [fut EXCEPT ![i] = NewFuture(isRoot)]
    /\ owed' = [owed EXCEPT ![i] = Owed(FALSE)]
    /\ stack' = Append(stack, context)
    /\ current' = InitialPoll(i)
    /\ pc' = "run"

BlockOn ==
    /\ pc = "start"
    /\ \E i \in Idx : SpawnTask(i, TRUE, Dummy)
    /\ UNCHANGED <<fault, ringVars, avail, root, boundVars>>

(* The thread calls block_on again.  After an error the tasks of the earlier
   call are still in the slab, their SQEs outstanding.  spawn() saves what the
   last poll left in CURRENT_TASK; nothing reads it once restored, as the next
   completion overwrites it, and it is Dummy here. *)
BlockOnAgain ==
    /\ pc \in {"done", "error"}
    /\ budget > 0 /\ budget' = budget - 1
    /\ \E i \in Idx : SpawnTask(i, TRUE, Dummy)
    /\ UNCHANGED <<fault, ringVars, avail, root, shots, sqe_seq>>

-----------------------------------------------------------------------------
(***************************************************************************)
(* Submissions: every send_* pushes one SQE tagged from CURRENT_TASK and   *)
(* takes one reference on the current task.                                *)
(***************************************************************************)
MakeSqe(id, n, gen, op, b) ==
    [id |-> id, task |-> current.task, nb |-> n, gen |-> gen, op |-> op, buf |-> b]

Send(op, n, b) ==
    LET s == MakeSqe(sqe_seq, n, current.gen, op, b)
    IN  /\ rc' = [rc EXCEPT ![current.task] = @ + 1]
        /\ sqes' = sqes \cup {s}
        /\ pending' = pending \cup {s}
        /\ sqe_seq' = sqe_seq + 1

(* send_read, send_accept, send_write, send_socket, send_connect: the number
   of the task as it is. *)
SendSingle(op) ==
    /\ Send(op, current.nb, NoBuf)
    /\ UNCHANGED <<current, nb>>

(* send_recv_multishot, send_accept_multishot: the mask goes on the tag and
   on the task. *)
SendMultishot(op) ==
    /\ Send(op, SetMultiple(current.nb), NoBuf)
    /\ current' = [current EXCEPT !.nb = SetMultiple(@)]
    /\ nb' = [nb EXCEPT ![current.task] = SetMultiple(@)]

(* send_commit_write: the mask goes on the tag only. *)
SendCommit(b) ==
    /\ Send("commit", SetMultiple(current.nb), b)
    /\ current' = [current EXCEPT !.nb = SetMultiple(@)]
    /\ UNCHANGED nb

\* add_rc called with one less than the number of SQEs pushed.
SendFanOutShort(n) ==
    LET new == {MakeSqe(sqe_seq + k, current.nb, k, "write_multiple", NoBuf) : k \in 0 .. n - 1}
    IN  /\ rc' = [rc EXCEPT ![current.task] = @ + n - 1]
        /\ sqes' = sqes \cup new
        /\ pending' = pending \cup new
        /\ sqe_seq' = sqe_seq + n
        /\ UNCHANGED <<current, nb>>

(* send_multiple_write: n SQEs under the number of the task, told apart by
   response_gen, and add_rc(n). *)
SendFanOut(n) ==
    LET new == {MakeSqe(sqe_seq + k, current.nb, k, "write_multiple", NoBuf) : k \in 0 .. n - 1}
    IN  /\ rc' = [rc EXCEPT ![current.task] = @ + n]
        /\ sqes' = sqes \cup new
        /\ pending' = pending \cup new
        /\ sqe_seq' = sqe_seq + n
        /\ UNCHANGED <<current, nb>>

-----------------------------------------------------------------------------
(***************************************************************************)
(* The body of the current task runs, from one await to the next.          *)
(***************************************************************************)
Me == fut[current.task]

Start(op) == /\ pc = "run"
             /\ op \in Ops
             /\ budget > 0 /\ budget' = budget - 1

(* accept(fd).await, write(fd, buf_id, len).await, connect(ip, port).await
   and read(fd).await: the first poll of an AcceptFuture, a WriteFuture, a
   SocketFuture (which submits SOCKET and goes to Connecting with fd = 0) and
   a ReadFuture. *)
Submit(op) ==
    /\ SendSingle(op)
    /\ fut' = [fut EXCEPT ![current.task].leaf = op]
    /\ pc' = "ret"
    /\ UNCHANGED <<fault, stack, slot, owed, posted, entries, avail, root, shots>>

Accept  == Start("accept") /\ Submit("accept")
Write   == Start("write") /\ Submit("write")
Connect == Start("connect") /\ Submit("socket")

Read ==
    /\ Start("read")
    /\ Me.held = NoBuf
    /\ Submit("read")

(* AcceptStream::poll_next in state Running: always Ready. *)
AcceptStreamRunning ==
    /\ fut' = [fut EXCEPT ![current.task].leaf = "none",
                          ![current.task].astream =
                              IF current.res = "neg" \/ ~current.more THEN "Done" ELSE @]
    /\ pc' = "run"
    /\ UNCHANGED <<fault, avail>>

(* ReadStream::poll_next in state Running: always Ready, or a panic when a
   completion that is not an error carries no buffer. *)
ReadStreamRunning ==
    /\ IF current.res = "neg"
       THEN /\ fut' = [fut EXCEPT ![current.task].leaf = "none", ![current.task].rstream = "Done"]
            /\ pc' = "run" /\ UNCHANGED fault
       ELSE IF current.buf = NoBuf
       THEN pc' = "panic" /\ fault' = "no_buf" /\ UNCHANGED fut
       ELSE /\ fut' = [fut EXCEPT ![current.task].leaf = "none",
                                  ![current.task].held = current.buf,
                                  ![current.task].rstream = IF current.more THEN @ ELSE "Done"]
            /\ pc' = "run" /\ UNCHANGED fault
    /\ UNCHANGED avail

(* conns.next().await and reads.next().await: Init submits and suspends;
   Running and Done resolve at once, from whatever CURRENT_TASK holds.  A
   body may make another stream at any time; it replaces the earlier one. *)
AcceptStreamInit ==
    /\ Start("accept_stream")
    /\ SendMultishot("accept_stream")
    /\ fut' = [fut EXCEPT ![current.task].leaf = "accept_stream",
                          ![current.task].astream = "Running"]
    /\ pc' = "ret"
    /\ UNCHANGED <<fault, stack, slot, owed, posted, entries, avail, root, shots>>

AcceptStreamNext ==
    /\ Start("accept_stream")
    /\ \/ Me.astream = "Running" /\ AcceptStreamRunning
       \/ Me.astream = "Done" /\ UNCHANGED <<pc, fault, fut, avail>>
    /\ UNCHANGED <<current, stack, slot, rc, nb, owed, ringVars, root, shots, sqe_seq>>

ReadStreamInit ==
    /\ Start("read_stream")
    /\ Me.held = NoBuf
    /\ SendMultishot("read_stream")
    /\ fut' = [fut EXCEPT ![current.task].leaf = "read_stream",
                          ![current.task].rstream = "Running"]
    /\ pc' = "ret"
    /\ UNCHANGED <<fault, stack, slot, owed, posted, entries, avail, root, shots>>

ReadStreamNext ==
    /\ Start("read_stream")
    /\ Me.held = NoBuf
    /\ \/ Me.rstream = "Running" /\ ReadStreamRunning
       \/ Me.rstream = "Done" /\ UNCHANGED <<pc, fault, fut, avail>>
    /\ UNCHANGED <<current, stack, slot, rc, nb, owed, ringVars, root, shots, sqe_seq>>

(* buf.commit(len).await: the RwBuffer is marked committed and moved into
   the CommitFuture, which submits the write. *)
Commit ==
    /\ Start("commit")
    /\ Me.held # NoBuf
    /\ SendCommit(Me.held)
    /\ fut' = [fut EXCEPT ![current.task].leaf = "commit",
                          ![current.task].held = NoBuf,
                          ![current.task].cbuf = fut[current.task].held]
    /\ pc' = "ret"
    /\ UNCHANGED <<fault, stack, slot, owed, posted, entries, avail, root, shots>>

(* RwBuffer::drop without commit. *)
DropRwBuffer(b) == release_read_buf(b)

DropBuffer ==
    /\ pc = "run"
    /\ Me.held # NoBuf
    /\ avail' = DropRwBuffer(Me.held)
    /\ fut' = [fut EXCEPT ![current.task].held = NoBuf]
    /\ UNCHANGED <<loopVars, slot, rc, nb, owed, ringVars, root, boundVars>>

(* write_multiple(fds, buffer, len).await with n fds.  add_rc asserts that
   the masked count changes, so it panics for n = 0. *)
WriteMultiple(n) ==
    /\ Start("write_multiple")
    /\ n # 0
    /\ SendFanOut(n)
    /\ fut' = [fut EXCEPT ![current.task].leaf = "write_multiple",
                          ![current.task].left = 0 .. n - 1]
    /\ pc' = "ret"
    /\ UNCHANGED <<fault, stack, slot, owed, posted, entries, avail, root, shots>>

WriteMultipleNone ==
    /\ pc = "run" /\ "write_multiple" \in Ops /\ 0 \in FanOut /\ budget > 0
    /\ Panic("add_rc_zero")

(* WBuffer::submit(fd, len), of the write buffer w: the SQE goes to pending
   under the word wbuf_write_udata(w), in which the union finds task_idx = w,
   response_gen = 0 and syscall_nb = 0x8000.  No reference is taken, nothing
   is awaited, and the body goes on. *)
InternalSqe(w) == [id |-> sqe_seq, task |-> w, nb |-> SetMultiple(0), gen |-> 0,
                   op |-> "submit", buf |-> NoBuf]

SubmitWBuffer(w) ==
    /\ Start("submit")
    /\ sqes' = sqes \cup {InternalSqe(w)}
    /\ pending' = pending \cup {InternalSqe(w)}
    /\ sqe_seq' = sqe_seq + 1
    /\ UNCHANGED <<loopVars, taskVars, posted, entries, avail, root, shots>>

Spawn ==
    /\ Start("spawn")
    /\ \E i \in Idx : SpawnTask(i, FALSE, current)
    /\ UNCHANGED <<fault, ringVars, avail, root, shots, sqe_seq>>

(* The body awaits a future of another library: Pending, nothing submitted. *)
AwaitForeign ==
    /\ Start("foreign")
    /\ fut' = [fut EXCEPT ![current.task].leaf = "foreign"]
    /\ pc' = "ret"
    /\ UNCHANGED <<fault, current, stack, slot, rc, nb, owed, ringVars, avail, root,
                   shots, sqe_seq>>

(* The body returns: its locals are dropped and poll is Ready. *)
Complete ==
    /\ pc = "run"
    /\ avail' = DropRwBuffer(Me.held)
    /\ fut' = [fut EXCEPT ![current.task].leaf = "complete", ![current.task].held = NoBuf]
    /\ root' = IF Me.root /\ root # "dropped" THEN "completed" ELSE root
    /\ pc' = "ret"
    /\ UNCHANGED <<fault, current, stack, slot, rc, nb, owed, ringVars, boundVars>>

Body ==
    \/ Accept \/ Write \/ Connect \/ Read \/ AcceptStreamInit \/ AcceptStreamNext
    \/ ReadStreamInit \/ ReadStreamNext \/ Commit \/ DropBuffer
    \/ \E n \in FanOut : WriteMultiple(n)
    \/ \E w \in WriteIdx : SubmitWBuffer(w)
    \/ WriteMultipleNone \/ Spawn \/ AwaitForeign \/ Complete

-----------------------------------------------------------------------------
(***************************************************************************)
(* A task is polled: the leaf future it awaits reads CURRENT_TASK.         *)
(***************************************************************************)
PollLeaf(leaf) == pc = "leaf" /\ Me.leaf = leaf

(* AcceptFuture::Submited, WriteFuture::Pending: Ready, whatever the result. *)
Resolve ==
    /\ fut' = [fut EXCEPT ![current.task].leaf = "none"]
    /\ pc' = "run"
    /\ UNCHANGED <<fault, current, stack, slot, rc, nb, owed, ringVars, avail, root, boundVars>>

PollAccept == PollLeaf("accept") /\ Resolve
PollWrite  == PollLeaf("write") /\ Resolve

(* SocketFuture::Connecting while fd is 0: the result is taken for the index
   of the socket and CONNECT is submitted; then Ready(fd), whatever the
   result of CONNECT. *)
PollConnecting ==
    /\ PollLeaf("socket") \/ PollLeaf("connect")
    /\ Me.fd = "zero"
    /\ SendSingle("connect")
    /\ fut' = [fut EXCEPT ![current.task].leaf = "connect", ![current.task].fd = current.res]
    /\ pc' = "ret"
    /\ UNCHANGED <<fault, stack, slot, owed, posted, entries, avail, root, budget, shots>>

PollConnected ==
    /\ PollLeaf("connect")
    /\ Me.fd # "zero"
    /\ fut' = [fut EXCEPT ![current.task].leaf = "none", ![current.task].fd = "zero"]
    /\ pc' = "run"
    /\ UNCHANGED <<fault, current, stack, slot, rc, nb, owed, ringVars, avail, root, boundVars>>

\* ReadFuture::Pending that keeps the buffer of an empty or failed read.
ReadFailedKeepsBuffer(b) == avail

(* ReadFuture::Pending on a result <= 0: a buffer the kernel consumed goes
   back. *)
ReadFailed(b) == release_read_buf(b)

PollRead ==
    /\ PollLeaf("read")
    /\ IF current.res = "pos"
       THEN IF current.buf = NoBuf
            THEN pc' = "panic" /\ fault' = "no_buf" /\ UNCHANGED <<fut, avail>>
            ELSE /\ fut' = [fut EXCEPT ![current.task].leaf = "none",
                                       ![current.task].held = current.buf]
                 /\ pc' = "run" /\ UNCHANGED <<fault, avail>>
       ELSE /\ avail' = ReadFailed(current.buf)
            /\ fut' = [fut EXCEPT ![current.task].leaf = "none"]
            /\ pc' = "run" /\ UNCHANGED fault
    /\ UNCHANGED <<current, stack, slot, rc, nb, owed, ringVars, root, boundVars>>

(* CommitFuture::Pending: returns the buffer and is Ready. *)
PollCommit ==
    /\ PollLeaf("commit")
    /\ avail' = release_read_buf(Me.cbuf)
    /\ fut' = [fut EXCEPT ![current.task].leaf = "none", ![current.task].cbuf = NoBuf]
    /\ pc' = "run"
    /\ UNCHANGED <<fault, current, stack, slot, rc, nb, owed, ringVars, root, boundVars>>

PollAcceptStream ==
    /\ PollLeaf("accept_stream")
    /\ AcceptStreamRunning
    /\ UNCHANGED <<current, stack, slot, rc, nb, owed, ringVars, root, boundVars>>

PollReadStream ==
    /\ PollLeaf("read_stream")
    /\ ReadStreamRunning
    /\ UNCHANGED <<current, stack, slot, rc, nb, owed, ringVars, root, boundVars>>

(* WriteMultipleFuture::Pending: one more of its writes is accounted for.
   The last one advances the task's number and the tag in CURRENT_TASK. *)
PollWriteMultiple ==
    /\ PollLeaf("write_multiple")
    /\ current.gen \in Me.left
    /\ LET rest == Me.left \ {current.gen}
       IN  IF rest = {}
           THEN /\ fut' = [fut EXCEPT ![current.task].leaf = "none", ![current.task].left = {}]
                /\ nb' = [nb EXCEPT ![current.task] = augmente_syscall_nb(@)]
                /\ current' = SetToNextTask(current)
                /\ pc' = "run"
           ELSE /\ fut' = [fut EXCEPT ![current.task].left = rest]
                /\ pc' = "ret"
                /\ UNCHANGED <<nb, current>>
    /\ UNCHANGED <<fault, stack, slot, rc, owed, ringVars, avail, root, boundVars>>

(* fds[gen] out of bounds, or a generation seen before. *)
PollWriteMultipleUnknown ==
    /\ PollLeaf("write_multiple")
    /\ current.gen \notin Me.left
    /\ Panic("unknown_gen")

(* A future of another library is polled: still Pending, or Ready. *)
PollForeignReady == PollLeaf("foreign") /\ Resolve

PollForeign ==
    /\ PollLeaf("foreign")
    /\ pc' = "ret"
    /\ UNCHANGED <<fault, current, stack, taskVars, ringVars, avail, root, boundVars>>

(* poll_fn on a body that has returned: `async fn` resumed after completion. *)
PollCompleted == PollLeaf("complete") /\ Panic("resumed")

Poll ==
    \/ PollAccept \/ PollWrite \/ PollConnecting \/ PollConnected
    \/ PollRead \/ PollCommit \/ PollAcceptStream \/ PollReadStream
    \/ PollWriteMultiple \/ PollWriteMultipleUnknown \/ PollForeign \/ PollForeignReady
    \/ PollCompleted

-----------------------------------------------------------------------------
(***************************************************************************)
(* poll has returned to its caller, which releases what it owes.           *)
(***************************************************************************)

\* spawn() that leaves CURRENT_TASK on the task it polled.
RestoreForgotten == current

(* spawn() puts the context of its caller back. *)
RestoredContext == stack[Len(stack)]

AfterPoll ==
    /\ pc = "ret"
    /\ Release(current.task, owed[current.task])
    /\ owed' = [owed EXCEPT ![current.task] = 0]

(* The end of a spawn() called from a task body. *)
ReturnToSpawner ==
    /\ AfterPoll
    /\ stack # <<>> /\ stack[Len(stack)].task \in Idx
    /\ slot' = SlotAfterRelease(current.task, owed[current.task])
    /\ current' = RestoredContext
    /\ stack' = SubSeq(stack, 1, Len(stack) - 1)
    /\ pc' = "run"
    /\ UNCHANGED <<fault, nb, ringVars, boundVars>>

(* The end of block_on's own spawn(), and the test before its loop. *)
ReturnToBlockOn ==
    /\ AfterPoll
    /\ stack # <<>> /\ stack[Len(stack)].task \notin Idx
    /\ slot' = free_unsed_slab_slot(SlotAfterRelease(current.task, owed[current.task]))
    /\ current' = RestoredContext
    /\ stack' = SubSeq(stack, 1, Len(stack) - 1)
    /\ pc' = IF IsRuntimeFree(slot') THEN "done" ELSE "submit"
    /\ UNCHANGED <<fault, nb, ringVars, boundVars>>

(* The end of handle_cqe_entry. *)
ReturnToLoop ==
    /\ AfterPoll
    /\ stack = <<>>
    /\ slot' = SlotAfterRelease(current.task, owed[current.task])
    /\ pc' = "handle"
    /\ UNCHANGED <<fault, current, stack, nb, ringVars, boundVars>>

-----------------------------------------------------------------------------
(***************************************************************************)
(* The loop of block_on.                                                   *)
(***************************************************************************)

(* submit_and_wait: all pending SQEs in one io_uring_enter.  push_multiple
   panics when they do not fit what is left of the submission queue. *)
SubmitAndWait ==
    /\ pc = "submit"
    /\ Cardinality(pending) <= RingEntries
    /\ pending' = {}
    /\ pc' = "wait"
    /\ UNCHANGED <<fault, current, stack, taskVars, sqes, posted, entries, avail, root, boundVars>>

SubmitOverflow ==
    /\ pc = "submit"
    /\ Cardinality(pending) > RingEntries
    /\ Panic("sq_full")

(* io_uring_enter fails (a signal while it had nothing to submit, for one),
   which it does only when it has taken no SQE: they stay in the submission
   queue.  block_on returns the error, its tasks stay in the slab. *)
SubmitFails ==
    /\ pc = "submit"
    /\ Cardinality(pending) <= RingEntries
    /\ pc' = "error"
    /\ UNCHANGED <<fault, current, stack, taskVars, ringVars, avail, root, boundVars>>

(* A signal interrupts the wait after something was submitted: io_uring_enter
   reports the number submitted and no error, and the loop finds no entry. *)
WokenEarly ==
    /\ pc = "submit"
    /\ pending # {} /\ Cardinality(pending) <= RingEntries
    /\ pending' = {}
    /\ pc' = "panic" /\ fault' = "no_entries"
    /\ UNCHANGED <<current, stack, taskVars, sqes, posted, entries, avail, root, boundVars>>

\* The loop starts over instead of going through the queue.
CollectAgain ==
    /\ pc = "wait"
    /\ entries # <<>>
    /\ slot' = free_unsed_slab_slot(slot)
    /\ pc' = IF IsRuntimeFree(slot') THEN "done" ELSE "submit"
    /\ UNCHANGED <<fault, current, stack, rc, nb, fut, owed, ringVars, avail, root, boundVars>>

(* io_uring_enter returns: at least one completion.  The free list is
   drained and the count tested once more before the queue is collected. *)
Collect ==
    /\ pc = "wait"
    /\ entries # <<>>
    /\ slot' = free_unsed_slab_slot(slot)
    /\ pc' = IF IsRuntimeFree(slot') THEN "done" ELSE "handle"
    /\ UNCHANGED <<fault, current, stack, rc, nb, fut, owed, ringVars, avail, root, boundVars>>

(* All entries handled; RUNTIME_WAKE_LIST is empty, as nothing in the crate
   builds a Waker. *)
EndBatch ==
    /\ pc = "handle"
    /\ entries = <<>>
    /\ slot' = free_unsed_slab_slot(slot)
    /\ pc' = IF IsRuntimeFree(slot') THEN "done" ELSE "submit"
    /\ UNCHANGED <<fault, current, stack, rc, nb, fut, owed, ringVars, avail, root, boundVars>>

-----------------------------------------------------------------------------
(***************************************************************************)
(* handle_cqe_entry, by the verdict on the completion's number.  Bit 63 is  *)
(* not tested: the index of any completion is looked up in the slab.       *)
(***************************************************************************)
Verdict(c) ==
    IF c.sqe.task \notin Idx \/ slot[c.sqe.task] = "free" THEN "Vacant"
    ELSE evaluate_syscall_nb(nb[c.sqe.task], c.sqe.nb)

(* The entry is taken; without F_MORE its SQE has ended. *)
TakeEntry(c) ==
    /\ entries' = Tail(entries)
    /\ sqes' = IF c.more THEN sqes ELSE sqes \ {c.sqe}
    /\ posted' = IF c.more THEN posted ELSE posted \ {c.sqe}
    /\ UNCHANGED pending

Dispatch(verdicts) ==
    /\ pc = "handle"
    /\ entries # <<>>
    /\ Verdict(Head(entries)) \in verdicts

(* The task is cloned and polled with the completion in CURRENT_TASK. *)
EnterPoll(c) ==
    /\ TakeEntry(c)
    /\ rc' = [rc EXCEPT ![c.sqe.task] = @ + 1]
    /\ owed' = [owed EXCEPT ![c.sqe.task] = Owed(c.more)]
    /\ pc' = "leaf"
    /\ UNCHANGED <<fault, stack, slot, fut, avail, root, boundVars>>

HandleNormal ==
    LET c == Head(entries)
    IN  /\ Dispatch({"Normal"})
        /\ EnterPoll(c)
        /\ nb' = [nb EXCEPT ![c.sqe.task] = augmente_syscall_nb(@)]
        /\ current' = [FromEntry(c) EXCEPT !.nb = @ + 1]

HandleMultiple ==
    LET c == Head(entries)
    IN  /\ Dispatch({"Multiple"})
        /\ EnterPoll(c)
        /\ current' = FromEntry(c)
        /\ UNCHANGED nb

(* A stale completion: cloned, not polled, released. *)
HandleExpired ==
    LET c == Head(entries)
    IN  /\ Dispatch({"Expired"})
        /\ TakeEntry(c)
        /\ Release(c.sqe.task, Owed(c.more) - 1)
        /\ slot' = SlotAfterRelease(c.sqe.task, Owed(c.more) - 1)
        /\ UNCHANGED <<loopVars, nb, owed, boundVars>>

(* "Recieve a SQE newer than expected", or Index for Slab with an index out of
   bounds or a free slot. *)
HandlePanics ==
    /\ Dispatch({"Error", "Vacant"})
    /\ Panic(Verdict(Head(entries)))

Loop ==
    \/ BlockOn \/ ReturnToSpawner \/ ReturnToBlockOn \/ ReturnToLoop
    \/ SubmitAndWait \/ SubmitOverflow \/ Collect \/ EndBatch
    \/ HandleNormal \/ HandleMultiple \/ HandleExpired \/ HandlePanics

-----------------------------------------------------------------------------
(***************************************************************************)
(* The kernel (external): completes submissions while the loop is inside   *)
(* io_uring_enter.  A single-shot operation gets one completion; a         *)
(* multishot one gets completions with F_MORE and a last one without.      *)
(* Receiving operations take a buffer from the buf_ring for data, and may  *)
(* report one or none on end of file and errors, as ReadFuture expects:    *)
(* "le kernel peut avoir consommé un buffer même sur EOF/erreur".  SOCKET  *)
(* yields any index, 0 included; CONNECT yields 0 or an error.             *)
(***************************************************************************)
Outcomes(op) ==
    IF op \in Receives \cup {"socket"} THEN Result
    ELSE IF op = "connect" THEN IF shots < MaxShots THEN {"zero", "neg"} ELSE {"neg"}
    ELSE {"pos", "neg"}

KernelCqes(s) ==
    {c \in [sqe: {s}, res: Outcomes(s.op), more: BOOLEAN, buf: Buf \cup {NoBuf}] :
        /\ c.more => c.res = "pos" /\ s.op \in Multishot /\ shots < MaxShots
        /\ c.buf # NoBuf => s.op \in Receives /\ avail[c.buf] > 0
        /\ s.op \in Receives /\ c.res = "pos" => c.buf # NoBuf}

Answer(s) ==
    \E c \in KernelCqes(s) :
        /\ entries' = Append(entries, c)
        /\ posted' = IF c.more THEN posted ELSE posted \cup {s}
        /\ avail' = IF c.buf = NoBuf THEN avail ELSE [avail EXCEPT ![c.buf] = @ - 1]
        /\ shots' = IF c.more \/ (s.op = "connect" /\ c.res = "zero") THEN shots + 1 ELSE shots
        /\ UNCHANGED <<loopVars, taskVars, sqes, pending, root, budget, sqe_seq>>

KernelPost == pc = "wait" /\ \E s \in sqes \ (pending \cup posted) : Answer(s)

-----------------------------------------------------------------------------
Init ==
    /\ pc = "start" /\ fault = "none"
    /\ current = Dummy /\ stack = <<>>
    /\ slot = [i \in Idx |-> "free"]
    /\ rc = [i \in Idx |-> 0]
    /\ nb = [i \in Idx |-> 0]
    /\ fut = [i \in Idx |-> NewFuture(FALSE)]
    /\ owed = [i \in Idx |-> 0]
    /\ sqes = {} /\ pending = {} /\ posted = {} /\ entries = <<>>
    /\ avail = [b \in Buf |-> 1]
    /\ root = "running"
    /\ budget = Budget /\ shots = 0 /\ sqe_seq = 0

(* block_on has returned or the thread has panicked. *)
Terminated == pc \in Halted /\ UNCHANGED vars

Faults == SubmitFails \/ WokenEarly

Next == Loop \/ Body \/ Poll \/ KernelPost \/ Faults \/ BlockOnAgain \/ Terminated

Spec == Init /\ [][Next]_vars

(***************************************************************************)
(* Fairness.  The thread executes its next instruction; a body reaches its *)
(* next await (Budget bounds it); and the kernel completes what it has     *)
(* been given, the assumption block_on makes of it.                        *)
(***************************************************************************)
Fairness == /\ WF_vars(Loop) /\ WF_vars(Body) /\ WF_vars(Poll)
            /\ WF_vars(KernelPost)

FairSpec == Spec /\ Fairness

-----------------------------------------------------------------------------
(***************************************************************************)
(* Properties of programs that use any of the operations (and FewTasks).   *)
(***************************************************************************)

TypeOK ==
    /\ pc \in Location
    /\ current \in TaskInfo
    /\ stack \in Seq(TaskInfo)
    /\ slot \in [Idx -> {"free", "live", "dead"}]
    /\ rc \in [Idx -> Nat]
    /\ nb \in [Idx -> SyscallNumber]
    /\ fut \in [Idx -> Future]
    /\ owed \in [Idx -> 0 .. 2]
    /\ sqes \subseteq Sqe /\ pending \subseteq sqes /\ posted \subseteq sqes
    /\ entries \in Seq(Cqe)
    /\ avail \in [Buf -> Nat]
    /\ root \in {"running", "completed", "dropped"}
    /\ budget \in Nat /\ shots \in Nat /\ sqe_seq \in Nat

(* README.md: "rc starts at 1 (spawn token). Each submitted SQE increments
   it; each completed poll decrements it."  Whatever a task does, its
   reference count is the number of its SQEs whose last completion has not
   been handled, plus what the handler polling it will give back: nothing is
   counted twice, nothing is lost, the two releases in spawn() included. *)
RcExact ==
    \A i \in Idx : slot[i] = "live" => rc[i] = Cardinality(SqesOf(i)) + owed[i]

(* The index in a user_data is followed without a generation check: for every
   SQE of a task not yet ended (pending, in the kernel, or in the batch being
   iterated) the slab slot it names still holds the task that submitted it, so
   rt.tasks[task_idx] meets neither a vacant slot nor a freed task, and no
   completion reaches a task inserted later in the same slot.  The SQEs of
   WBuffer::submit have no task: of them it says only that they are alone in
   this, as PanicCauses does. *)
SqeOwnerLive == \A s \in TaskSqes : s.task \in Idx /\ slot[s.task] = "live"

(* The loop blocks in io_uring_enter until one completion arrives: a task
   that is not being polled always has an SQE outstanding, and when the loop
   blocks the kernel has been given one or has already answered. *)
NeverWaitsForNothing ==
    /\ \A i \in Idx : slot[i] = "live" /\ owed[i] = 0 => SqesOf(i) # {}
    /\ pc = "wait" => TaskSqes \ pending # {}

(* What block_on leaves behind.  When it returns, by either way, every task
   that died has been taken out of the slab, so that the slab's own Drop and
   the next call meet no dangling task; when it returns Ok no submission of a
   task is outstanding, so that no completion of one reaches the next call:
   what may be left is writes of WBuffer::submit, which block_on does not
   wait for. *)
ReturnsClean ==
    /\ pc \in {"done", "error"} => \A i \in Idx : slot[i] # "dead"
    /\ pc = "done" => TaskSqes = {} /\ entries = <<>>

(* The task has polled one of its multishot streams. *)
Streams(i) == fut[i].astream # "Init" \/ fut[i].rstream # "Init"

(* The tag in CURRENT_TASK is the one of the task being polled, in step with
   the number stored in the task, also after a nested spawn() has run other
   bodies: the same rank, and as long as the body can submit under it the same
   mask; no SQE is tagged with a rank its task has not reached; and only a
   stream puts a task in multiple mode, as long as ranks do not wrap. *)
TagsInStep ==
    /\ pc \in Running => /\ current.task \in Idx /\ slot[current.task] = "live"
                         /\ Rank(current.nb) = Rank(nb[current.task])
    /\ pc \in {"run", "leaf"} => current.nb = nb[current.task]
    /\ \A s \in TaskSqes : Rank(s.nb) <= Rank(nb[s.task])
    /\ \A i \in Idx : slot[i] = "live" /\ IsMultiple(nb[i]) => Streams(i)

(* A task without streams has its futures polled only with completions of
   their own operations, whatever else it and the other tasks do: fan-outs
   whose late completions are stale, nested spawns, commits, connects, slots
   reused; and it is not resumed once its body has returned. *)
OwnCompletion ==
    pc = "leaf" => current.op = Me.leaf \/ Streams(current.task)

(* Where each panic comes from.  A completion is refused as newer than its
   task only for the write of a commit; a body is resumed after its end, a
   fan-out meets a generation it does not expect and a receive lacks its
   buffer only in tasks with streams; a completion finds no task in the slab
   only if it is of a WBuffer::submit, never if a task submitted it. *)
PanicCauses ==
    /\ fault = "Error" => Head(entries).sqe.op = "commit"
    /\ fault \in {"resumed", "unknown_gen", "no_buf"} => Streams(current.task)
    /\ fault = "Vacant" => Head(entries).sqe.op = "submit"

-----------------------------------------------------------------------------
(***************************************************************************)
(* Properties of programs that use single-shot operations only.            *)
(***************************************************************************)

(* Where a read buffer is: entries of the buf_ring naming it, completions
   carrying it, RwBuffers and CommitFutures holding it. *)
Places(b) ==
    avail[b] + Cardinality({k \in DOMAIN entries : entries[k].buf = b})
    + Cardinality({i \in Idx : fut[i].held = b})
    + Cardinality({i \in Idx : fut[i].cbuf = b})
    + (IF pc = "leaf" /\ current.buf = b THEN 1 ELSE 0)

(* A read buffer is in exactly one place: it is never lost, whatever the
   result of the read and whether its task ends first, and never given to
   the kernel while a task can still write to it. *)
BufferLedger == \A b \in Buf : Places(b) = 1

(* No path of the runtime panics, the wait interrupted by a signal apart. *)
NoPanic == pc = "panic" => fault = "no_entries"

(* README.md: block_on "Runs the runtime until the root future completes": it
   does not report success with its own future, or the one of an earlier call
   that failed, dropped unfinished. *)
RootCompletes == pc = "done" => root = "completed"

(* A task leaves the slab only after its body has returned: no completion
   handled early or twice frees a task that still awaits. *)
FreedWhenComplete ==
    [][\A i \in Idx : slot[i] = "live" /\ slot'[i] # "live" => fut[i].leaf = "complete"]_vars

(* Every call of block_on ends: it returns Ok, the error of io_uring_enter, or
   is stopped by an interrupted wait; the tasks an earlier call left behind
   included. *)
BlockOnReturns ==
    (pc \notin Halted) ~> (pc \in {"done", "error"} \/ fault = "no_entries")

(* Programs of single-shot operations get from the runtime what Executor
   promises: a task whose slot is taken is polled, waits for one SQE, has its
   completion queued, or has finished. *)
Status(i) ==
    IF slot[i] # "live" THEN "absent"
    ELSE IF fut[i].leaf = "complete" THEN "finished"
    ELSE IF owed[i] > 0 THEN "running"
    ELSE IF SqesOf(i) \cap posted # {} THEN "answered"
    ELSE "waiting"

Promise == INSTANCE Executor WITH Task <- Idx, status <- [i \in Idx |-> Status(i)]

ImplementsExecutor == Promise!FairSpec

-----------------------------------------------------------------------------
(***************************************************************************)
(* What comments and tests of the repository say of streams, commit and    *)
(* WBuffer::submit.                                                        *)
(***************************************************************************)

(* src/src/lib.rs, test_close: `assert!(buffer.commit(len).await > 0, ...)`
   after a read in the same task; README.md shows the same program.  No
   completion is refused as newer than its task. *)
CommitAccepted == fault # "Error"

(* src/src/calls/read.rs: a buffer handed out by a stream is released by its
   commit, or on drop: once.  The buf_ring never names a buffer twice. *)
ReleasedOnce == \A b \in Buf : avail[b] <= 1

(* src/src/buf_pool.rs: "Le runtime dispatche sur bit 63 en premier", and a
   completion with that bit is internal, "pas de task à réveiller": its index
   is not looked up in the slab, and it resumes no task.  Bit 63 of the word
   is the mask bit of syscall_nb. *)
InternalApart ==
    /\ fault \in {"Vacant", "Error"} => ~IsMultiple(Head(entries).sqe.nb)
    /\ pc = "leaf" => ~IsMultiple(current.nb)
=============================================================================
