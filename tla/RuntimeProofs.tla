--------------------------- MODULE RuntimeProofs ---------------------------
(***************************************************************************)
(* Proofs about Runtime, for every slab size, every set of operations, and *)
(* every bound: its types, and the four invariants that rest on reference  *)
(* counting.  None of the four is inductive: a count is exact only if the  *)
(* completions still queued name distinct outstanding submissions, and a   *)
(* poll gives back what it owes only if the nested spawn() calls in        *)
(* progress poll distinct live tasks.                                      *)
(*                                                                         *)
(* The hypothesis FewTasks is about WBuffer::submit alone: an SQE it made  *)
(* that names the slot of a live task would, when completed, release it.   *)
(***************************************************************************)
EXTENDS Runtime, FiniteSetTheorems, TLAPS

(* A slot with no live task has nothing outstanding and owes nothing. *)
Vacated == \A i \in Idx : slot[i] # "live" => SqesOf(i) = {} /\ owed[i] = 0

(* A live task nobody polls awaits a completion. *)
Awaits == \A i \in Idx : slot[i] = "live" /\ owed[i] = 0 => SqesOf(i) # {}

(* CURRENT_TASK names the task polled, and its poller will release it. *)
Polled == pc \in Running => current.task \in Idx /\ owed[current.task] > 0

(* The body or a leaf future of the task is running, or waits for a spawn(). *)
Polling(i) == owed[i] > 0 /\ ~(pc = "ret" /\ current.task = i)

(* The contexts that nested spawn() calls saved: distinct tasks being polled,
   except for the dummy that block_on's own spawn() saved. *)
Nested ==
    /\ \A k \in DOMAIN stack : stack[k].task \in Idx => owed[stack[k].task] > 0
    /\ \A k \in DOMAIN stack : k > 1 => stack[k].task \in Idx
    /\ \A j, k \in DOMAIN stack : stack[j].task = stack[k].task => j = k
    /\ pc \in Running => \A k \in DOMAIN stack : stack[k].task # current.task
    /\ pc \notin Running \cup {"panic"} => stack = <<>>

(* Only those tasks are owed a release. *)
Owers ==
    \A i \in Idx : owed[i] > 0 =>
        /\ pc \in Running \cup {"panic"}
        /\ i = current.task \/ \E k \in DOMAIN stack : stack[k].task = i

(* SQEs are finitely many, and the next one is new. *)
Fresh == /\ IsFiniteSet(sqes)
         /\ \A s \in sqes : s.id < sqe_seq

(* A queued completion is of a submitted SQE that has not ended, and one
   without F_MORE is the last of its SQE. *)
Queued ==
    \A k \in DOMAIN entries :
        /\ entries[k].sqe \in sqes \ pending
        /\ ~entries[k].more =>
              /\ entries[k].sqe \in posted
              /\ \A j \in DOMAIN entries : j > k => entries[j].sqe # entries[k].sqe

(* The loop goes on only with a live task, blocks with all submitted, and
   returns only after a drain of the free list that no release followed. *)
Waiting == /\ pc \in {"submit", "wait"} => \E i \in Idx : slot[i] = "live"
           /\ pc = "wait" => pending = {}
           /\ pc \in {"submit", "wait", "error"} => \A i \in Idx : slot[i] # "dead"
           /\ pc = "done" => IsRuntimeFree(slot)

(* The SQEs without a task are those of WBuffer::submit. *)
Untasked ==
    \A s \in sqes : /\ s.op = "submit" <=> s.task \notin Idx
                    /\ s.op = "submit" => "submit" \in Ops

(* Completions are queued only from the wait to the end of the batch: not
   between batches, nor while block_on polls its future for the first time. *)
Drained == /\ pc \in {"start", "submit", "done", "error"} => entries = <<>>
           /\ stack # <<>> /\ stack[1].task \notin Idx => entries = <<>>

Core == /\ RcExact /\ Vacated /\ Awaits /\ Polled /\ Nested /\ Owers
        /\ Fresh /\ Queued /\ Waiting /\ Untasked /\ Drained

IInv == FewTasks /\ TypeOK /\ Core

-----------------------------------------------------------------------------
(***************************************************************************)
(* Lemmas about numbers and counts.                                        *)
(***************************************************************************)

(* The increments and the mask stay within the range of a syscall number. *)
LEMMA NumberType ==
    ASSUME NEW n \in SyscallNumber
    PROVE  /\ SetMultiple(n) \in SyscallNumber
           /\ augmente_syscall_nb(n) \in SyscallNumber
           /\ TagAugmente(n) \in SyscallNumber
           /\ ~IsMultiple(n) => n + 1 \in SyscallNumber
<1>1. MULTIPLE_MASK \in Nat /\ MULTIPLE_MASK > 0 /\ n \in Nat
  BY MaskAssumption DEF SyscallNumber
<1>2. Rank(n) \in 0 .. MULTIPLE_MASK - 1
  BY <1>1 DEF Rank
<1>3. (Rank(n) + 1) % MULTIPLE_MASK \in 0 .. MULTIPLE_MASK - 1
  BY <1>1, <1>2
<1>4. QED
  BY <1>1, <1>2, <1>3 DEF SetMultiple, augmente_syscall_nb, TagAugmente, IsMultiple, SyscallNumber

(* A number is its rank, plus the mask if it has it. *)
LEMMA RankFacts ==
    ASSUME NEW n \in SyscallNumber
    PROVE  /\ Rank(n) \in 0 .. MULTIPLE_MASK - 1
           /\ ~IsMultiple(n) => Rank(n) = n
           /\ IsMultiple(n) => Rank(n) = n - MULTIPLE_MASK
<1> DEFINE m == MULTIPLE_MASK q == n \div m r == n % m
<1>1. m \in Nat /\ m > 0 /\ n \in Nat /\ n < 2 * m
  BY MaskAssumption DEF SyscallNumber
<1>2. q \in Int /\ r \in 0 .. m - 1 /\ n = m * q + r
  BY <1>1
<1>3. Rank(n) = r
  BY DEF Rank
<1> HIDE DEF q, r, m
<1>4. ~(q >= 2)
  <2>1. q >= 2 => m * q >= m * 2
    BY <1>1, <1>2
  <2>2. QED
    BY <1>1, <1>2, <2>1
<1>5. ~(q <= -1)
  <2>1. q <= -1 => m * q <= m * (-1)
    BY <1>1, <1>2
  <2>2. QED
    BY <1>1, <1>2, <2>1
<1>6. q = 0 \/ q = 1
  BY <1>2, <1>4, <1>5
<1>7. n = r \/ n = m + r
  BY <1>1, <1>2, <1>6
<1>8. QED
  BY <1>1, <1>2, <1>3, <1>7 DEF IsMultiple, m

(* The SQEs of a task are finitely many, so their number is a natural. *)
LEMMA SqesOfFinite ==
    ASSUME Fresh, NEW i
    PROVE  /\ IsFiniteSet(SqesOf(i))
           /\ Cardinality(SqesOf(i)) \in Nat
           /\ Cardinality(SqesOf(i)) = 0 <=> SqesOf(i) = {}
<1>1. SqesOf(i) \in SUBSET sqes
  BY DEF SqesOf
<1>2. IsFiniteSet(SqesOf(i))
  BY <1>1, FS_Subset DEF Fresh
<1>3. QED
  BY <1>2, FS_CardinalityType, FS_EmptySet

(* The count of a live task covers what its poller owes. *)
LEMMA RcCovers ==
    ASSUME IInv, NEW i \in Idx, slot[i] = "live"
    PROVE  /\ rc[i] - owed[i] = Cardinality(SqesOf(i))
           /\ rc[i] - owed[i] \in Nat
<1>1. rc[i] \in Nat /\ owed[i] \in 0 .. 2 /\ Cardinality(SqesOf(i)) \in Nat
  BY SqesOfFinite DEF IInv, Core, TypeOK
<1>2. QED
  BY <1>1 DEF IInv, Core, RcExact

(* Somebody polls the current task, and it is in the slab. *)
LEMMA CurrentLive ==
    ASSUME IInv, pc \in Running
    PROVE  /\ current.task \in Idx /\ slot[current.task] = "live" /\ owed[current.task] > 0
           /\ nb[current.task] \in SyscallNumber /\ current.nb \in SyscallNumber
BY DEF IInv, TypeOK, TaskInfo, Core, Polled, Vacated

-----------------------------------------------------------------------------
(***************************************************************************)
(* Steps of a body or of a leaf future that submit nothing.                *)
(***************************************************************************)
Quiet ==
    /\ pc \in Running /\ pc' \in Running \cup {"panic"}
    /\ current'.task = current.task
    /\ UNCHANGED <<stack, slot, rc, owed, ringVars, sqe_seq>>

(* Such a step keeps the part of the invariant that is not about types. *)
LEMMA QuietCore == Core /\ Quiet => Core'
<1> SUFFICES ASSUME Core, Quiet PROVE Core'
  OBVIOUS
<1> USE DEF Quiet, ringVars
<1>0. \A i : SqesOf(i)' = SqesOf(i)
  BY DEF SqesOf
<1>1. RcExact' /\ Vacated' /\ Awaits'
  BY <1>0 DEF Core, RcExact, Vacated, Awaits
<1>2. Polled' /\ Owers'
  BY DEF Core, Polled, Owers, Running
<1>3. Nested'
  BY DEF Core, Nested, Running
<1>4. Fresh' /\ Queued'
  BY DEF Core, Fresh, Queued
<1>5. Waiting' /\ Untasked' /\ Drained'
  BY DEF Core, Waiting, Untasked, Drained, Running
<1>6. QED
  BY <1>1, <1>2, <1>3, <1>4, <1>5 DEF Core


-----------------------------------------------------------------------------
(***************************************************************************)
(* Types of the records that steps update.                                 *)
(***************************************************************************)
(* The constants of the code's records belong to their types. *)
LEMMA Literals ==
    /\ {"pos", "zero", "neg"} \subseteq Result
    /\ 0 \in Gen /\ U16_MAX \in Gen
    /\ {"none", "complete", "accept", "read", "write", "socket", "connect", "accept_stream",
        "read_stream", "commit", "write_multiple", "foreign"} \subseteq Leaf
    /\ {"Init", "Running", "Done"} \subseteq StreamState
BY DEF Result, Gen, U16_MAX, Leaf, Op, StreamState

(* A buffer given back keeps the buf_ring well typed. *)
LEMMA AvailType ==
    ASSUME TypeOK, NEW b \in Buf \cup {NoBuf}
    PROVE  release_read_buf(b) \in [Buf -> Nat]
BY DEF TypeOK, release_read_buf

(* The context WriteMultipleFuture leaves behind. *)
LEMMA NextTaskType ==
    ASSUME current \in TaskInfo
    PROVE  /\ SetToNextTask(current) \in TaskInfo
           /\ SetToNextTask(current).task = current.task
<1>1. current.nb \in SyscallNumber
  BY DEF TaskInfo
<1>2. TagAugmente(current.nb) \in SyscallNumber
  BY <1>1, NumberType
<1> DEFINE e == "neg" g == 0 n == TagAugmente(current.nb)
<1>3. e \in Result /\ g \in Gen /\ n \in SyscallNumber
  BY <1>2, Literals
<1> HIDE DEF e, g, n
<1>4. LET t == [current EXCEPT !.res = e, !.more = FALSE, !.buf = NoBuf, !.gen = g, !.nb = n]
      IN  t \in TaskInfo /\ t.task = current.task
  BY <1>3 DEF TaskInfo
<1>5. QED
  BY <1>4 DEF SetToNextTask, e, g, n

(* One or several fields of the current task's future are written. *)
LEMMA FutureType ==
    ASSUME fut \in [Idx -> Future], NEW i \in Idx, NEW l \in Leaf,
           NEW h \in Buf \cup {NoBuf}, NEW c \in Buf \cup {NoBuf},
           NEW a \in StreamState, NEW w \in SUBSET Nat
    PROVE  /\ [fut EXCEPT ![i].leaf = l] \in [Idx -> Future]
           /\ [fut EXCEPT ![i].held = h] \in [Idx -> Future]
           /\ [fut EXCEPT ![i].left = w] \in [Idx -> Future]
           /\ [fut EXCEPT ![i].leaf = l, ![i].held = h] \in [Idx -> Future]
           /\ [fut EXCEPT ![i].leaf = l, ![i].cbuf = c] \in [Idx -> Future]
           /\ [fut EXCEPT ![i].leaf = l, ![i].left = w] \in [Idx -> Future]
           /\ [fut EXCEPT ![i].leaf = l, ![i].astream = a] \in [Idx -> Future]
           /\ [fut EXCEPT ![i].leaf = l, ![i].rstream = a] \in [Idx -> Future]
           /\ [fut EXCEPT ![i].leaf = l, ![i].held = h, ![i].cbuf = c] \in [Idx -> Future]
           /\ [fut EXCEPT ![i].leaf = l, ![i].held = h, ![i].rstream = a] \in [Idx -> Future]
<1>1. [fut EXCEPT ![i].leaf = l] \in [Idx -> Future]
  BY DEF Future
<1>2. [fut EXCEPT ![i].held = h] \in [Idx -> Future]
  BY DEF Future
<1>3. [fut EXCEPT ![i].left = w] \in [Idx -> Future]
  BY DEF Future
<1>4. [fut EXCEPT ![i].leaf = l, ![i].held = h] \in [Idx -> Future]
  BY DEF Future
<1>5. [fut EXCEPT ![i].leaf = l, ![i].cbuf = c] \in [Idx -> Future]
  BY DEF Future
<1>6. [fut EXCEPT ![i].leaf = l, ![i].left = w] \in [Idx -> Future]
  BY ZenonT(40) DEF Future
<1>7. [fut EXCEPT ![i].leaf = l, ![i].astream = a] \in [Idx -> Future]
  BY ZenonT(40) DEF Future
<1>8. [fut EXCEPT ![i].leaf = l, ![i].rstream = a] \in [Idx -> Future]
  BY ZenonT(40) DEF Future
<1>9. [fut EXCEPT ![i].leaf = l, ![i].held = h, ![i].cbuf = c] \in [Idx -> Future]
  <2>1. fut[i] \in Future
    OBVIOUS
  <2>2. [fut[i] EXCEPT !.leaf = l, !.held = h, !.cbuf = c] \in Future
    BY <2>1 DEF Future
  <2>3. [fut EXCEPT ![i].leaf = l, ![i].held = h, ![i].cbuf = c]
          = [fut EXCEPT ![i] = [fut[i] EXCEPT !.leaf = l, !.held = h, !.cbuf = c]]
    OBVIOUS
  <2>4. QED
    BY <2>2, <2>3
<1>10. [fut EXCEPT ![i].leaf = l, ![i].held = h, ![i].rstream = a] \in [Idx -> Future]
  <2>1. fut[i] \in Future
    OBVIOUS
  <2>2. [fut[i] EXCEPT !.leaf = l, !.held = h, !.rstream = a] \in Future
    BY <2>1 DEF Future
  <2>3. [fut EXCEPT ![i].leaf = l, ![i].held = h, ![i].rstream = a]
          = [fut EXCEPT ![i] = [fut[i] EXCEPT !.leaf = l, !.held = h, !.rstream = a]]
    OBVIOUS
  <2>4. QED
    BY <2>2, <2>3
<1>11. QED
  BY <1>1, <1>2, <1>3, <1>4, <1>5, <1>6, <1>7, <1>8, <1>9, <1>10

(* A SocketFuture moves on. *)
LEMMA SocketType ==
    ASSUME fut \in [Idx -> Future], NEW i \in Idx, NEW l \in Leaf, NEW d \in Result
    PROVE  [fut EXCEPT ![i].leaf = l, ![i].fd = d] \in [Idx -> Future]
BY DEF Future

(* A stream polled in state Running. *)
LEMMA StreamType ==
    ASSUME TypeOK, current.task \in Idx
    PROVE  /\ AcceptStreamRunning => fut' \in [Idx -> Future]
           /\ ReadStreamRunning => fut' \in [Idx -> Future]
<1> DEFINE i == current.task
<1>1. /\ fut \in [Idx -> Future] /\ i \in Idx /\ current.buf \in Buf \cup {NoBuf}
      /\ "none" \in Leaf /\ "Done" \in StreamState /\ {} \in SUBSET Nat /\ "zero" \in Result
      /\ fut[i].astream \in StreamState /\ fut[i].rstream \in StreamState
  BY Literals DEF TypeOK, TaskInfo, Future
<1>2. ASSUME AcceptStreamRunning PROVE fut' \in [Idx -> Future]
  <2>1. PICK a \in StreamState : fut' = [fut EXCEPT ![i].leaf = "none", ![i].astream = a]
    BY <1>1, <1>2 DEF AcceptStreamRunning
  <2>2. QED
    BY <1>1, <2>1, FutureType
<1>3. ASSUME ReadStreamRunning PROVE fut' \in [Idx -> Future]
  <2>1. CASE current.res = "neg"
    <3>1. fut' = [fut EXCEPT ![i].leaf = "none", ![i].rstream = "Done"]
      BY <1>3, <2>1 DEF ReadStreamRunning
    <3>2. QED
      BY <1>1, <3>1, FutureType
  <2>2. CASE current.res # "neg" /\ current.buf = NoBuf
    BY <1>1, <1>3, <2>2 DEF ReadStreamRunning
  <2>3. CASE current.res # "neg" /\ current.buf # NoBuf
    <3>1. PICK a \in StreamState :
            fut' = [fut EXCEPT ![i].leaf = "none", ![i].held = current.buf, ![i].rstream = a]
      BY <1>1, <1>3, <2>3 DEF ReadStreamRunning
    <3>2. QED
      BY <1>1, <3>1, FutureType, ZenonT(40)
  <2>4. QED
    BY <2>1, <2>2, <2>3
<1>4. QED
  BY <1>2, <1>3

-----------------------------------------------------------------------------
(***************************************************************************)
(* Leaf futures: every poll is quiet and keeps the types, except for the   *)
(* one with which a SocketFuture submits its CONNECT.                      *)
(***************************************************************************)
PollQuietly ==
    \/ PollAccept \/ PollWrite \/ PollConnected \/ PollRead \/ PollCommit
    \/ PollAcceptStream \/ PollReadStream \/ PollWriteMultiple
    \/ PollWriteMultipleUnknown \/ PollForeign \/ PollForeignReady \/ PollCompleted

(* A leaf future that is polled submits nothing and keeps the types. *)
LEMMA PollQuiet == IInv /\ PollQuietly => TypeOK' /\ Quiet
<1> SUFFICES ASSUME IInv, PollQuietly PROVE TypeOK' /\ Quiet
  OBVIOUS
<1> USE DEF loopVars, taskVars, ringVars, boundVars
<1> DEFINE i == current.task
<1>0. TypeOK
  BY DEF IInv
<1>a. pc = "leaf" /\ i \in Idx
  BY DEF IInv, Core, Polled, Running, PollQuietly, PollLeaf, PollAccept, PollWrite,
         PollConnected, PollRead, PollCommit, PollAcceptStream, PollReadStream, PollWriteMultiple, PollWriteMultipleUnknown,
         PollForeign, PollForeignReady, PollCompleted
<1>b. /\ fut \in [Idx -> Future] /\ current \in TaskInfo
      /\ current.buf \in Buf \cup {NoBuf} /\ NoBuf \in Buf \cup {NoBuf}
      /\ "none" \in Leaf /\ "Done" \in StreamState /\ {} \in SUBSET Nat /\ "zero" \in Result
  BY <1>0, Literals DEF TypeOK, TaskInfo
<1>c. fut[i].cbuf \in Buf \cup {NoBuf} /\ fut[i].left \in SUBSET Nat
  BY <1>a, <1>b DEF Future
<1>1. CASE PollAccept \/ PollWrite \/ PollForeignReady
  <2>0. Resolve
    BY <1>1 DEF PollAccept, PollWrite, PollForeignReady
  <2>1. fut' = [fut EXCEPT ![i].leaf = "none"]
    BY <2>0 DEF Resolve
  <2>2. fut' \in [Idx -> Future]
    BY <1>a, <1>b, <2>1, FutureType
  <2>3. QED
    BY <1>0, <1>a, <2>0, <2>2 DEF Resolve, TypeOK, Quiet, Running, Location
<1>2. CASE PollRead
  <2>1. fut' \in [Idx -> Future]
    <3>1. \/ fut' = fut
          \/ fut' = [fut EXCEPT ![i].leaf = "none", ![i].held = current.buf]
          \/ fut' = [fut EXCEPT ![i].leaf = "none"]
      BY <1>2 DEF PollRead
    <3>2. [fut EXCEPT ![i].leaf = "none", ![i].held = current.buf] \in [Idx -> Future]
      BY <1>a, <1>b, FutureType, ZenonT(40)
    <3>3. [fut EXCEPT ![i].leaf = "none"] \in [Idx -> Future]
      BY <1>a, <1>b, FutureType
    <3>4. QED
      BY <1>b, <3>1, <3>2, <3>3
  <2>2. avail' \in [Buf -> Nat]
    <3>1. avail' = avail \/ avail' = release_read_buf(current.buf)
      BY <1>2 DEF PollRead, ReadFailed
    <3>2. QED
      BY <1>0, <1>b, <3>1, AvailType DEF TypeOK
  <2>3. pc' \in {"run", "panic"}
    BY <1>2 DEF PollRead
  <2>4. UNCHANGED <<current, stack, slot, rc, nb, owed, ringVars, root, boundVars>>
    BY <1>2 DEF PollRead
  <2>5. QED
    BY <1>0, <1>a, <2>1, <2>2, <2>3, <2>4 DEF TypeOK, Quiet, Running, Location, Halted
<1>3. CASE PollCommit
  <2>1. fut' = [fut EXCEPT ![i].leaf = "none", ![i].cbuf = NoBuf]
    BY <1>3 DEF PollCommit
  <2>2. fut' \in [Idx -> Future]
    BY <1>a, <1>b, <2>1, FutureType
  <2>3. avail' \in [Buf -> Nat]
    BY <1>0, <1>c, <1>3, AvailType DEF PollCommit, Me
  <2>4. QED
    BY <1>0, <1>a, <1>3, <2>2, <2>3 DEF PollCommit, TypeOK, Quiet, Running, Location
<1>4. CASE PollAcceptStream
  <2>1. fut' \in [Idx -> Future]
    BY <1>0, <1>a, <1>4, StreamType DEF PollAcceptStream
  <2>2. QED
    BY <1>0, <1>a, <1>4, <2>1
    DEF PollAcceptStream, AcceptStreamRunning, TypeOK, Quiet, Running, Location
<1>5. CASE PollReadStream
  <2>1. fut' \in [Idx -> Future]
    BY <1>0, <1>a, <1>5, StreamType DEF PollReadStream
  <2>2. pc' \in {"run", "panic"} /\ avail' = avail
    BY <1>5 DEF PollReadStream, ReadStreamRunning
  <2>3. UNCHANGED <<current, stack, slot, rc, nb, owed, ringVars, root, boundVars>>
    BY <1>5 DEF PollReadStream
  <2>4. QED
    BY <1>0, <1>a, <2>1, <2>2, <2>3 DEF TypeOK, Quiet, Running, Location, Halted
<1>6. CASE PollWriteMultiple
  <2>1. PICK w \in SUBSET Nat : \/ fut' = [fut EXCEPT ![i].leaf = "none", ![i].left = w]
                                \/ fut' = [fut EXCEPT ![i].left = w]
    BY <1>c, <1>6 DEF PollWriteMultiple, Me
  <2>2. fut' \in [Idx -> Future]
    <3>1. [fut EXCEPT ![i].leaf = "none", ![i].left = w] \in [Idx -> Future]
      BY <1>a, <1>b, FutureType
    <3>2. [fut EXCEPT ![i].left = w] \in [Idx -> Future]
      BY <1>a, <1>b, FutureType
    <3>3. QED
      BY <2>1, <3>1, <3>2
  <2>3. nb' \in [Idx -> SyscallNumber]
    <3>1. nb' = nb \/ nb' = [nb EXCEPT ![i] = augmente_syscall_nb(nb[i])]
      BY <1>6 DEF PollWriteMultiple
    <3>2. nb \in [Idx -> SyscallNumber] /\ augmente_syscall_nb(nb[i]) \in SyscallNumber
      BY <1>0, <1>a, NumberType DEF TypeOK
    <3>3. QED
      BY <1>a, <3>1, <3>2
  <2>4. current' \in TaskInfo /\ current'.task = current.task
    <3>1. current' = current \/ current' = SetToNextTask(current)
      BY <1>6 DEF PollWriteMultiple
    <3>2. QED
      BY <1>b, <3>1, NextTaskType
  <2>5. pc' \in {"run", "ret"}
    BY <1>6 DEF PollWriteMultiple
  <2>6. UNCHANGED <<fault, stack, slot, rc, owed, ringVars, avail, root, boundVars>>
    BY <1>6 DEF PollWriteMultiple
  <2>7. QED
    BY <1>0, <1>a, <2>2, <2>3, <2>4, <2>5, <2>6 DEF TypeOK, Quiet, Running, Location
<1>7. CASE PollWriteMultipleUnknown \/ PollCompleted
  BY <1>0, <1>a, <1>7
  DEF PollWriteMultipleUnknown, PollCompleted, Panic, TypeOK, Quiet, Running, Location, Halted
<1>8. CASE PollForeign
  BY <1>0, <1>a, <1>8 DEF PollForeign, TypeOK, Quiet, Running, Location
<1>9. CASE PollConnected
  <2>1. fut' = [fut EXCEPT ![i].leaf = "none", ![i].fd = "zero"]
    BY <1>9 DEF PollConnected
  <2>2. fut' \in [Idx -> Future]
    BY <1>a, <1>b, <2>1, SocketType
  <2>3. QED
    BY <1>0, <1>a, <1>9, <2>2 DEF PollConnected, TypeOK, Quiet, Running, Location
<1>10. QED
  BY <1>1, <1>2, <1>3, <1>4, <1>5, <1>6, <1>7, <1>8, <1>9 DEF PollQuietly


-----------------------------------------------------------------------------
(***************************************************************************)
(* Submissions.                                                            *)
(***************************************************************************)
Submits(new) ==
    /\ pc \in {"run", "leaf"} /\ pc' = "ret"
    /\ current'.task = current.task
    /\ new \subseteq Sqe /\ IsFiniteSet(new)
    /\ sqe_seq' \in Nat /\ sqe_seq <= sqe_seq'
    /\ \A s \in new : /\ s.task = current.task /\ s.op # "submit"
                      /\ sqe_seq <= s.id /\ s.id < sqe_seq'
    /\ rc' = [rc EXCEPT ![current.task] = @ + Cardinality(new)]
    /\ sqes' = sqes \cup new /\ pending' = pending \cup new
    /\ UNCHANGED <<stack, slot, owed, posted, entries>>

(* Tokens and SQEs grow together. *)
LEMMA SubmitsCore ==
    ASSUME IInv, NEW new, Submits(new)
    PROVE  /\ Core' /\ rc' \in [Idx -> Nat]
           /\ sqes' \subseteq Sqe /\ pending' \subseteq sqes' /\ posted' \subseteq sqes'
<1> DEFINE i == current.task
<1>0. TypeOK /\ Core /\ i \in Idx /\ owed[i] > 0
  BY DEF IInv, Core, Polled, Running, Submits
<1>1. \A s \in sqes : s.id < sqe_seq /\ s.id \in Nat /\ sqe_seq \in Nat
  BY <1>0 DEF TypeOK, Sqe, Core, Fresh
<1>2. \A s \in new : s.id \in Nat /\ s.task = i /\ sqe_seq <= s.id /\ s.id < sqe_seq'
  BY DEF Submits, Sqe
<1>3. sqes \cap new = {}
  BY <1>1, <1>2
<1>4. /\ SqesOf(i)' = SqesOf(i) \cup new
      /\ \A j \in Idx : j # i => SqesOf(j)' = SqesOf(j)
  BY <1>2 DEF SqesOf, Submits
<1>5. IsFiniteSet(SqesOf(i)) /\ Cardinality(SqesOf(i)) \in Nat /\ IsFiniteSet(sqes)
  BY <1>0, SqesOfFinite DEF Core, Fresh
<1>6. IsFiniteSet(new) /\ Cardinality(new) \in Nat
  BY FS_CardinalityType DEF Submits
<1>7. Cardinality(SqesOf(i)') = Cardinality(SqesOf(i)) + Cardinality(new)
  <2>1. SqesOf(i) \cap new = {}
    BY <1>3 DEF SqesOf
  <2>2. Cardinality(SqesOf(i) \cup new)
          = Cardinality(SqesOf(i)) + Cardinality(new) - Cardinality(SqesOf(i) \cap new)
    BY <1>5, <1>6, FS_Union
  <2>3. Cardinality(SqesOf(i) \cap new) = 0
    BY <2>1, FS_EmptySet
  <2>4. QED
    BY <1>4, <1>5, <1>6, <2>2, <2>3
<1>8. rc' \in [Idx -> Nat]
  BY <1>0, <1>6 DEF TypeOK, Submits
<1>9. slot[i] = "live"
  BY <1>0 DEF TypeOK, Core, Vacated
<1>10. RcExact'
  <2> SUFFICES ASSUME NEW j \in Idx, slot'[j] = "live"
               PROVE  rc'[j] = Cardinality(SqesOf(j)') + owed'[j]
    BY DEF RcExact
  <2>1. rc[j] = Cardinality(SqesOf(j)) + owed[j] /\ rc[j] \in Nat /\ owed[j] \in 0 .. 2
    BY <1>0 DEF Core, RcExact, TypeOK, Submits
  <2>2. CASE j = i
    BY <1>0, <1>5, <1>6, <1>7, <2>1, <2>2 DEF Submits, TypeOK
  <2>3. CASE j # i
    BY <1>0, <1>4, <2>1, <2>3 DEF Submits, TypeOK
  <2>4. QED
    BY <2>2, <2>3
<1>11. Vacated' /\ Awaits'
  BY <1>0, <1>4, <1>9 DEF Core, Vacated, Awaits, Submits
<1>12. Polled' /\ Owers'
  BY <1>0 DEF Core, Polled, Owers, Running, Submits
<1>13. Nested'
  BY <1>0 DEF Core, Nested, Running, Submits
<1>14. Fresh'
  <2>1. IsFiniteSet(sqes')
    BY <1>5, <1>6, FS_Union DEF Submits
  <2>2. \A s \in sqes' : s.id < sqe_seq'
    BY <1>1, <1>2 DEF Submits
  <2>3. QED
    BY <2>1, <2>2 DEF Fresh
<1>15. Queued'
  <2>1. \A k \in DOMAIN entries : entries[k].sqe \in sqes \ pending
    BY <1>0 DEF Core, Queued
  <2>2. \A k \in DOMAIN entries : entries[k].sqe \in (sqes \cup new) \ (pending \cup new)
    BY <1>3, <2>1
  <2>3. QED
    BY <1>0, <2>2 DEF Core, Queued, Submits
<1>16. Waiting' /\ Untasked' /\ Drained'
  BY <1>0 DEF Core, Waiting, Untasked, Drained, Submits
<1>17. sqes' \subseteq Sqe /\ pending' \subseteq sqes' /\ posted' \subseteq sqes'
  BY <1>0 DEF TypeOK, Submits
<1>18. QED
  BY <1>8, <1>10, <1>11, <1>12, <1>13, <1>14, <1>15, <1>16, <1>17 DEF Core

(* The SQEs that the operations make. *)
LEMMA SqeType ==
    ASSUME TypeOK, current.task \in Idx, NEW id \in Nat, NEW n \in SyscallNumber,
           NEW g \in Gen, NEW op \in Op, NEW b \in Buf \cup {NoBuf}
    PROVE  /\ MakeSqe(id, n, g, op, b) \in Sqe
           /\ MakeSqe(id, n, g, op, b).id = id
           /\ MakeSqe(id, n, g, op, b).task = current.task
           /\ MakeSqe(id, n, g, op, b).op = op
BY DEF MakeSqe, Sqe

(* Every send_* of one SQE takes one reference. *)
LEMMA SendSubmits ==
    ASSUME IInv, pc \in {"run", "leaf"}, pc' = "ret", current'.task = current.task,
           NEW op \in Op \ {"submit"}, NEW n \in SyscallNumber, NEW b \in Buf \cup {NoBuf},
           Send(op, n, b), UNCHANGED <<stack, slot, owed, posted, entries>>
    PROVE  \E new : Submits(new)
<1> DEFINE s == MakeSqe(sqe_seq, n, current.gen, op, b)
<1>1. TypeOK /\ current.task \in Idx /\ current.gen \in Gen /\ sqe_seq \in Nat
  BY DEF IInv, Core, Polled, Running, TypeOK, TaskInfo
<1>2. s \in Sqe /\ s.id = sqe_seq /\ s.task = current.task /\ s.op # "submit"
  BY <1>1, SqeType
<1>3. /\ rc' = [rc EXCEPT ![current.task] = @ + 1]
      /\ sqes' = sqes \cup {s} /\ pending' = pending \cup {s}
      /\ sqe_seq' = sqe_seq + 1
  BY DEF Send
<1> HIDE DEF s
<1>4. IsFiniteSet({s}) /\ Cardinality({s}) = 1
  BY FS_Singleton
<1>5. rc' = [rc EXCEPT ![current.task] = @ + Cardinality({s})]
  BY <1>3, <1>4
<1>6. /\ {s} \subseteq Sqe /\ sqe_seq' \in Nat /\ sqe_seq <= sqe_seq'
      /\ \A x \in {s} : /\ x.task = current.task /\ x.op # "submit"
                        /\ sqe_seq <= x.id /\ x.id < sqe_seq'
  BY <1>1, <1>2, <1>3
<1>7. Submits({s})
  BY <1>3, <1>4, <1>5, <1>6 DEF Submits
<1>8. QED
  BY <1>7

(* send_multiple_write takes as many references as it pushes SQEs. *)
LEMMA FanOutSubmits ==
    ASSUME IInv, pc = "run", pc' = "ret", NEW n \in FanOut,
           SendFanOut(n), UNCHANGED <<stack, slot, owed, posted, entries>>
    PROVE  \E new : Submits(new)
<1> DEFINE f(k) == MakeSqe(sqe_seq + k, current.nb, k, "write_multiple", NoBuf)
           new == {f(k) : k \in 0 .. n - 1}
<1>1. /\ TypeOK /\ current.task \in Idx /\ current.nb \in SyscallNumber
      /\ sqe_seq \in Nat /\ n \in 0 .. RANK_MAX
  BY ConstantAssumption DEF IInv, Core, Polled, Running, TypeOK, TaskInfo
<1>0. n \in Nat /\ \A k \in 0 .. n - 1 : k \in Gen
  <2>1. n \in 0 .. RANK_MAX
    BY <1>1
  <2>2. RANK_MAX \in Nat /\ U16_MAX \in Nat /\ RANK_MAX <= U16_MAX
    BY DEF RANK_MAX, U16_MAX
  <2>3. QED
    BY <2>1, <2>2 DEF Gen
<1>2. ASSUME NEW k \in 0 .. n - 1
      PROVE  /\ f(k) \in Sqe /\ f(k).id = sqe_seq + k /\ f(k).task = current.task
             /\ f(k).op = "write_multiple"
  <2>1. k \in Gen /\ sqe_seq + k \in Nat
    BY <1>0, <1>1
  <2>2. "write_multiple" \in Op /\ NoBuf \in Buf \cup {NoBuf}
    BY DEF Op
  <2>3. QED
    BY <1>1, <2>1, <2>2, SqeType
<1>3. IsFiniteSet(new) /\ Cardinality(new) = n
  <2> DEFINE g == [k \in 0 .. n - 1 |-> f(k)]
  <2>1. \A j, k \in 0 .. n - 1 : f(j) = f(k) => j = k
    <3> SUFFICES ASSUME NEW j \in 0 .. n - 1, NEW k \in 0 .. n - 1, f(j) = f(k) PROVE j = k
      OBVIOUS
    <3>1. sqe_seq + j = sqe_seq + k
      BY <1>2
    <3>2. QED
      BY <1>0, <1>1, <3>1
  <2> HIDE DEF f
  <2>2. g \in Bijection(0 .. n - 1, new)
    <3>1. g \in [0 .. n - 1 -> new] /\ \A k \in 0 .. n - 1 : g[k] = f(k)
      OBVIOUS
    <3>2. g \in Injection(0 .. n - 1, new)
      BY <2>1, <3>1 DEF Injection, IsInjective
    <3>3. g \in Surjection(0 .. n - 1, new)
      BY <3>1 DEF Surjection
    <3>4. QED
      BY <3>2, <3>3 DEF Bijection
  <2>3. ExistsBijection(0 .. n - 1, new)
    BY <2>2 DEF ExistsBijection
  <2>4. IsFiniteSet(0 .. n - 1) /\ Cardinality(0 .. n - 1) = n
    BY <1>0, FS_Interval
  <2>5. QED
    BY <2>3, <2>4, FS_Bijection
<1>4. /\ rc' = [rc EXCEPT ![current.task] = @ + n]
      /\ sqes' = sqes \cup new /\ pending' = pending \cup new
      /\ sqe_seq' = sqe_seq + n /\ current' = current
  BY DEF SendFanOut
<1>5. new \subseteq Sqe
  BY <1>2
<1>6. \A s \in new : /\ s.task = current.task /\ s.op # "submit"
                     /\ sqe_seq <= s.id /\ s.id < sqe_seq + n
  <2> SUFFICES ASSUME NEW k \in 0 .. n - 1
               PROVE  /\ f(k).task = current.task /\ f(k).op # "submit"
                      /\ sqe_seq <= f(k).id /\ f(k).id < sqe_seq + n
    OBVIOUS
  <2> HIDE DEF f
  <2>1. f(k).task = current.task /\ f(k).id = sqe_seq + k /\ f(k).op = "write_multiple"
    BY <1>2
  <2>2. QED
    BY <1>0, <1>1, <2>1
<1> HIDE DEF new, f
<1>7. Submits(new)
  BY <1>0, <1>1, <1>3, <1>4, <1>5, <1>6 DEF Submits
<1>8. QED
  BY <1>7

-----------------------------------------------------------------------------
(***************************************************************************)
(* The body of a task, spawn() apart.                                      *)
(***************************************************************************)
BodyQuiet ==
    \/ AcceptStreamNext \/ ReadStreamNext \/ DropBuffer \/ WriteMultipleNone
    \/ AwaitForeign \/ Complete

BodySubmits ==
    \/ Accept \/ Write \/ Connect \/ Read \/ AcceptStreamInit \/ ReadStreamInit \/ Commit
    \/ \E n \in FanOut : WriteMultiple(n)

(* A body that submits nothing before its next await keeps the types. *)
LEMMA BodyQuietStep == IInv /\ BodyQuiet => TypeOK' /\ Quiet
<1> SUFFICES ASSUME IInv, BodyQuiet PROVE TypeOK' /\ Quiet
  OBVIOUS
<1> USE DEF loopVars, taskVars, ringVars, boundVars
<1> DEFINE i == current.task
<1>0. TypeOK
  BY DEF IInv
<1>a. pc = "run" /\ i \in Idx
  BY DEF IInv, Core, Polled, Running, BodyQuiet, AcceptStreamNext, ReadStreamNext, DropBuffer,
         WriteMultipleNone, AwaitForeign, Complete, Start
<1>b. /\ fut \in [Idx -> Future] /\ NoBuf \in Buf \cup {NoBuf} /\ {} \in SUBSET Nat
      /\ {"none", "complete", "foreign"} \subseteq Leaf /\ "Done" \in StreamState
      /\ "zero" \in Result
  BY <1>0, Literals DEF TypeOK
<1>c. fut[i].held \in Buf \cup {NoBuf}
  BY <1>a, <1>b DEF Future
<1>d. "foreign" \in Leaf /\ "complete" \in Leaf
  BY <1>b
<1>1. CASE AcceptStreamNext
  <2>1. fut' \in [Idx -> Future]
    BY <1>0, <1>a, <1>1, StreamType DEF AcceptStreamNext, TypeOK
  <2>2. /\ pc' = "run" /\ avail' = avail /\ budget' \in Nat
        /\ UNCHANGED <<current, stack, slot, rc, nb, owed, ringVars, root, shots, sqe_seq>>
    BY <1>0, <1>a, <1>1 DEF AcceptStreamNext, AcceptStreamRunning, Start, TypeOK
  <2>3. QED
    BY <1>0, <1>a, <2>1, <2>2 DEF TypeOK, Quiet, Running, Location
<1>2. CASE ReadStreamNext
  <2>1. fut' \in [Idx -> Future]
    BY <1>0, <1>a, <1>2, StreamType DEF ReadStreamNext, TypeOK
  <2>2. pc' \in {"run", "panic"} /\ avail' = avail
    BY <1>a, <1>2 DEF ReadStreamNext, ReadStreamRunning
  <2>3. /\ budget' \in Nat
        /\ UNCHANGED <<current, stack, slot, rc, nb, owed, ringVars, root, shots, sqe_seq>>
    BY <1>0, <1>2 DEF ReadStreamNext, Start, TypeOK
  <2>4. QED
    BY <1>0, <1>a, <2>1, <2>2, <2>3 DEF TypeOK, Quiet, Running, Location, Halted
<1>3. CASE DropBuffer
  <2>1. fut' = [fut EXCEPT ![i].held = NoBuf]
    BY <1>3 DEF DropBuffer
  <2>2. fut' \in [Idx -> Future]
    BY <1>a, <1>b, <1>d, <2>1, FutureType
  <2>3. avail' \in [Buf -> Nat]
    BY <1>0, <1>c, <1>3, AvailType DEF DropBuffer, DropRwBuffer, Me
  <2>4. QED
    BY <1>0, <1>a, <1>3, <2>2, <2>3 DEF DropBuffer, TypeOK, Quiet, Running, Location
<1>4. CASE WriteMultipleNone
  BY <1>0, <1>a, <1>4 DEF WriteMultipleNone, Panic, TypeOK, Quiet, Running, Location, Halted
<1>5. CASE AwaitForeign
  <2>1. fut' = [fut EXCEPT ![i].leaf = "foreign"]
    BY <1>5 DEF AwaitForeign
  <2>2. fut' \in [Idx -> Future]
    BY <1>a, <1>b, <1>d, <2>1, FutureType
  <2>3. QED
    BY <1>0, <1>a, <1>5, <2>2 DEF AwaitForeign, Start, TypeOK, Quiet, Running, Location
<1>6. CASE Complete
  <2>1. fut' = [fut EXCEPT ![i].leaf = "complete", ![i].held = NoBuf]
    BY <1>6 DEF Complete
  <2>2. fut' \in [Idx -> Future]
    BY <1>a, <1>b, <1>d, <2>1, FutureType
  <2>3. avail' \in [Buf -> Nat]
    BY <1>0, <1>c, <1>6, AvailType DEF Complete, DropRwBuffer, Me
  <2>4. root' \in {"running", "completed", "dropped"}
    BY <1>0, <1>6 DEF Complete, TypeOK
  <2>5. QED
    BY <1>0, <1>a, <1>6, <2>2, <2>3, <2>4 DEF Complete, TypeOK, Quiet, Running, Location
<1>7. QED
  BY <1>1, <1>2, <1>3, <1>4, <1>5, <1>6 DEF BodyQuiet

(* A body that awaits an operation of the crate keeps the invariant. *)
LEMMA BodySubmitsStep == IInv /\ BodySubmits => IInv'
<1> SUFFICES ASSUME IInv, BodySubmits PROVE IInv'
  OBVIOUS
<1> USE DEF ringVars
<1> DEFINE i == current.task
<1>0. TypeOK
  BY DEF IInv
<1>a. pc = "run" /\ i \in Idx
  BY DEF IInv, Core, Polled, Running, BodySubmits, Accept, Write, Connect, Read,
         AcceptStreamInit, ReadStreamInit, Commit, WriteMultiple, Start
<1>b. /\ pc' = "ret"
      /\ budget' \in Nat
      /\ UNCHANGED <<fault, stack, slot, owed, posted, entries, avail, root, shots>>
  <2>1. /\ pc' = "ret" /\ budget > 0 /\ budget' = budget - 1
        /\ UNCHANGED <<fault, stack, slot, owed, posted, entries, avail, root, shots>>
    BY DEF BodySubmits, Accept, Write, Connect, Read, Submit, AcceptStreamInit,
           ReadStreamInit, Commit, WriteMultiple, Start
  <2>2. budget \in Nat
    BY <1>0 DEF TypeOK
  <2>3. QED
    BY <2>1, <2>2
<1>c. /\ fut \in [Idx -> Future] /\ nb \in [Idx -> SyscallNumber] /\ current \in TaskInfo
      /\ current.nb \in SyscallNumber /\ NoBuf \in Buf \cup {NoBuf} /\ {} \in SUBSET Nat
      /\ "zero" \in Result
  BY <1>0, Literals DEF TypeOK, TaskInfo
<1>d. fut[i].held \in Buf \cup {NoBuf}
  BY <1>a, <1>c DEF Future
<1>e. /\ "accept" \in Leaf /\ "read" \in Leaf /\ "write" \in Leaf /\ "socket" \in Leaf
      /\ "accept_stream" \in Leaf
      /\ "read_stream" \in Leaf /\ "commit" \in Leaf /\ "write_multiple" \in Leaf
      /\ "Running" \in StreamState
  BY Literals
<1>f. LET op == Op \ {"submit"}
      IN  /\ "accept" \in op /\ "read" \in op /\ "write" \in op /\ "socket" \in op
          /\ "accept_stream" \in op /\ "read_stream" \in op /\ "commit" \in op
  BY DEF Op
<1>g. SetMultiple(current.nb) \in SyscallNumber /\ SetMultiple(nb[i]) \in SyscallNumber
  BY <1>a, <1>c, NumberType
<1>h. LET t == [current EXCEPT !.nb = SetMultiple(current.nb)]
      IN  t \in TaskInfo /\ t.task = current.task
  <2> DEFINE m == SetMultiple(current.nb)
  <2>1. m \in SyscallNumber
    BY <1>g
  <2> HIDE DEF m
  <2>2. LET t == [current EXCEPT !.nb = m] IN t \in TaskInfo /\ t.task = current.task
    BY <1>c, <2>1 DEF TaskInfo
  <2>3. QED
    BY <2>2 DEF m
<1>i. [nb EXCEPT ![i] = SetMultiple(nb[i])] \in [Idx -> SyscallNumber]
  BY <1>a, <1>c, <1>g
<1>j. SUFFICES /\ \E new : Submits(new)
               /\ fut' \in [Idx -> Future] /\ nb' \in [Idx -> SyscallNumber]
               /\ current' \in TaskInfo
  <2>1. PICK new : Submits(new)
    BY <1>j
  <2>2. /\ Core' /\ rc' \in [Idx -> Nat]
        /\ sqes' \subseteq Sqe /\ pending' \subseteq sqes' /\ posted' \subseteq sqes'
    BY <2>1, SubmitsCore
  <2>3. sqe_seq' \in Nat
    BY <2>1 DEF Submits
  <2>4. TypeOK'
    BY <1>0, <1>b, <1>j, <2>2, <2>3 DEF TypeOK, Location, Running
  <2>5. QED
    BY <2>2, <2>4 DEF IInv
<1>1. ASSUME NEW op \in {"accept", "write", "socket", "read"}, Submit(op)
      PROVE  /\ \E new : Submits(new)
             /\ fut' \in [Idx -> Future] /\ nb' \in [Idx -> SyscallNumber]
             /\ current' \in TaskInfo
  <2>0. op \in Leaf /\ op \in Op \ {"submit"}
    BY <1>e, <1>f
  <2>1. fut' = [fut EXCEPT ![i].leaf = op]
    BY <1>1 DEF Submit
  <2>2. fut' \in [Idx -> Future]
    BY <1>a, <1>c, <1>e, <2>0, <2>1, FutureType, ZenonT(40)
  <2>3. Send(op, current.nb, NoBuf) /\ UNCHANGED <<current, nb>>
    BY <1>1 DEF Submit, SendSingle
  <2>4. \E new : Submits(new)
    BY <1>a, <1>b, <1>c, <2>0, <2>3, SendSubmits
  <2>5. QED
    BY <1>c, <2>2, <2>3, <2>4
<1>2. CASE Accept \/ Write \/ Connect \/ Read
  BY <1>1, <1>2 DEF Accept, Write, Connect, Read
<1>3. CASE AcceptStreamInit
  <2>1. fut' = [fut EXCEPT ![i].leaf = "accept_stream", ![i].astream = "Running"]
    BY <1>3 DEF AcceptStreamInit
  <2>2. fut' \in [Idx -> Future]
    BY <1>a, <1>c, <1>e, <2>1, FutureType, ZenonT(40)
  <2>3. /\ Send("accept_stream", SetMultiple(current.nb), NoBuf)
        /\ current' = [current EXCEPT !.nb = SetMultiple(current.nb)]
        /\ nb' = [nb EXCEPT ![i] = SetMultiple(nb[i])]
    BY <1>3 DEF AcceptStreamInit, SendMultishot
  <2>4. \E new : Submits(new)
    BY <1>a, <1>b, <1>c, <1>f, <1>g, <1>h, <2>3, SendSubmits
  <2>5. QED
    BY <1>h, <1>i, <2>2, <2>3, <2>4
<1>4. CASE ReadStreamInit
  <2>1. fut' = [fut EXCEPT ![i].leaf = "read_stream", ![i].rstream = "Running"]
    BY <1>4 DEF ReadStreamInit
  <2>2. fut' \in [Idx -> Future]
    BY <1>a, <1>c, <1>e, <2>1, FutureType, ZenonT(40)
  <2>3. /\ Send("read_stream", SetMultiple(current.nb), NoBuf)
        /\ current' = [current EXCEPT !.nb = SetMultiple(current.nb)]
        /\ nb' = [nb EXCEPT ![i] = SetMultiple(nb[i])]
    BY <1>4 DEF ReadStreamInit, SendMultishot
  <2>4. \E new : Submits(new)
    BY <1>a, <1>b, <1>c, <1>f, <1>g, <1>h, <2>3, SendSubmits
  <2>5. QED
    BY <1>h, <1>i, <2>2, <2>3, <2>4
<1>5. CASE Commit
  <2>1. fut' = [fut EXCEPT ![i].leaf = "commit", ![i].held = NoBuf, ![i].cbuf = fut[i].held]
    BY <1>5 DEF Commit
  <2>2. fut' \in [Idx -> Future]
    <3> DEFINE b == fut[i].held
    <3>1. b \in Buf \cup {NoBuf}
      BY <1>d
    <3> HIDE DEF b
    <3>2. [fut EXCEPT ![i].leaf = "commit", ![i].held = NoBuf, ![i].cbuf = b] \in [Idx -> Future]
      BY <1>a, <1>c, <1>e, <3>1, FutureType, ZenonT(40)
    <3>3. QED
      BY <2>1, <3>2 DEF b
  <2>3. /\ Send("commit", SetMultiple(current.nb), fut[i].held)
        /\ current' = [current EXCEPT !.nb = SetMultiple(current.nb)]
        /\ nb' = nb
    BY <1>5 DEF Commit, SendCommit, Me
  <2>4. \E new : Submits(new)
    BY <1>a, <1>b, <1>d, <1>f, <1>g, <1>h, <2>3, SendSubmits
  <2>5. QED
    BY <1>c, <1>h, <2>2, <2>3, <2>4
<1>6. ASSUME NEW n \in FanOut, WriteMultiple(n)
      PROVE  /\ \E new : Submits(new)
             /\ fut' \in [Idx -> Future] /\ nb' \in [Idx -> SyscallNumber]
             /\ current' \in TaskInfo
  <2>1. fut' = [fut EXCEPT ![i].leaf = "write_multiple", ![i].left = 0 .. n - 1]
    BY <1>6 DEF WriteMultiple
  <2>2. 0 .. n - 1 \in SUBSET Nat
    BY ConstantAssumption
  <2>3. fut' \in [Idx -> Future]
    <3> DEFINE w == 0 .. n - 1
    <3>1. w \in SUBSET Nat
      BY <2>2
    <3> HIDE DEF w
    <3>2. [fut EXCEPT ![i].leaf = "write_multiple", ![i].left = w] \in [Idx -> Future]
      BY <1>a, <1>c, <1>e, <3>1, FutureType
    <3>3. QED
      BY <2>1, <3>2 DEF w
  <2>4. SendFanOut(n) /\ UNCHANGED <<current, nb>>
    BY <1>6 DEF WriteMultiple, SendFanOut
  <2>5. \E new : Submits(new)
    BY <1>a, <1>b, <2>4, FanOutSubmits
  <2>6. QED
    BY <1>c, <2>3, <2>4, <2>5
<1>7. QED
  BY <1>2, <1>3, <1>4, <1>5, <1>6 DEF BodySubmits

(* WBuffer::submit adds an SQE that no task is charged for. *)
LEMMA SubmitWBufferStep ==
    ASSUME IInv, NEW w \in WriteIdx, SubmitWBuffer(w)
    PROVE  IInv'
<1> USE DEF loopVars, taskVars
<1> DEFINE s == InternalSqe(w)
<1>0. TypeOK /\ Core /\ FewTasks
  BY DEF IInv
<1>1. /\ pc = "run" /\ "submit" \in Ops /\ budget > 0 /\ budget' = budget - 1
      /\ sqes' = sqes \cup {s} /\ pending' = pending \cup {s} /\ sqe_seq' = sqe_seq + 1
      /\ UNCHANGED <<loopVars, taskVars, posted, entries, avail, root, shots>>
  BY DEF SubmitWBuffer, Start
<1>2. w \notin Idx
  BY <1>0, <1>1 DEF FewTasks
<1>3. s \in Sqe /\ s.id = sqe_seq /\ s.task = w /\ s.op = "submit"
  <2> DEFINE n == SetMultiple(0) g == 0 op == "submit"
  <2>1. n \in SyscallNumber /\ g \in Gen /\ op \in Op /\ sqe_seq \in Nat
    <3>1. 0 \in SyscallNumber
      BY MaskAssumption DEF SyscallNumber
    <3>2. QED
      BY <1>0, <3>1, NumberType, Literals DEF Op, TypeOK
  <2> HIDE DEF n, g, op
  <2>2. LET r == [id |-> sqe_seq, task |-> w, nb |-> n, gen |-> g, op |-> op, buf |-> NoBuf]
        IN  r \in Sqe /\ r.id = sqe_seq /\ r.task = w /\ r.op = op
    BY <2>1 DEF Sqe
  <2>3. QED
    BY <2>2 DEF InternalSqe, n, g, op
<1> HIDE DEF s
<1>4. /\ sqes \subseteq Sqe /\ IsFiniteSet(sqes) /\ sqe_seq \in Nat
      /\ \A x \in sqes : x.id < sqe_seq /\ x.id \in Nat
  BY <1>0 DEF TypeOK, Core, Fresh, Sqe
<1>5. s \notin sqes
  BY <1>3, <1>4
<1>6. TypeOK'
  <2>1. /\ sqes' \subseteq Sqe /\ pending' \subseteq sqes' /\ posted' \subseteq sqes'
        /\ budget' \in Nat /\ sqe_seq' \in Nat
    BY <1>0, <1>1, <1>3 DEF TypeOK
  <2>2. QED
    BY <1>0, <1>1, <2>1 DEF TypeOK
<1>7. \A j \in Idx : SqesOf(j)' = SqesOf(j)
  BY <1>1, <1>2, <1>3 DEF SqesOf
<1>8. RcExact' /\ Vacated' /\ Awaits'
  BY <1>0, <1>1, <1>7 DEF Core, RcExact, Vacated, Awaits
<1>9. Polled' /\ Nested' /\ Owers'
  BY <1>0, <1>1 DEF Core, Polled, Nested, Owers
<1>10. Fresh'
  <2>1. IsFiniteSet(sqes')
    BY <1>1, <1>4, FS_AddElement
  <2>2. \A x \in sqes' : x.id < sqe_seq'
    BY <1>1, <1>3, <1>4
  <2>3. QED
    BY <2>1, <2>2 DEF Fresh
<1>11. Queued'
  <2>1. \A k \in DOMAIN entries : entries[k].sqe \in sqes \ pending
    BY <1>0 DEF Core, Queued
  <2>2. \A k \in DOMAIN entries : entries[k].sqe \in (sqes \cup {s}) \ (pending \cup {s})
    BY <1>5, <2>1
  <2>3. QED
    BY <1>0, <1>1, <2>2 DEF Core, Queued
<1>12. Waiting' /\ Untasked' /\ Drained'
  BY <1>0, <1>1, <1>2, <1>3 DEF Core, Waiting, Untasked, Drained
<1>13. QED
  BY <1>0, <1>6, <1>8, <1>9, <1>10, <1>11, <1>12 DEF IInv, Core

(* A SocketFuture that has its socket submits CONNECT. *)
LEMMA PollConnectingStep == IInv /\ PollConnecting => IInv'
<1> SUFFICES ASSUME IInv, PollConnecting PROVE IInv'
  OBVIOUS
<1> USE DEF ringVars
<1> DEFINE i == current.task
<1>0. TypeOK
  BY DEF IInv
<1>1. /\ pc = "leaf" /\ pc' = "ret" /\ i \in Idx
      /\ UNCHANGED <<fault, stack, slot, owed, posted, entries, avail, root, budget, shots>>
  BY DEF IInv, Core, Polled, Running, PollConnecting, PollLeaf
<1>2. /\ fut \in [Idx -> Future] /\ nb \in [Idx -> SyscallNumber] /\ current \in TaskInfo
      /\ current.nb \in SyscallNumber /\ current.res \in Result
      /\ NoBuf \in Buf \cup {NoBuf} /\ {} \in SUBSET Nat
      /\ "connect" \in Leaf /\ "connect" \in Op \ {"submit"} /\ "Done" \in StreamState
  BY <1>0, Literals DEF TypeOK, TaskInfo, Op
<1>3. Send("connect", current.nb, NoBuf) /\ UNCHANGED <<current, nb>>
  BY DEF PollConnecting, SendSingle
<1>4. fut' = [fut EXCEPT ![i].leaf = "connect", ![i].fd = current.res]
  BY DEF PollConnecting
<1>5. fut' \in [Idx -> Future]
  BY <1>1, <1>2, <1>4, SocketType
<1>6. PICK new : Submits(new)
  BY <1>1, <1>2, <1>3, SendSubmits
<1>7. /\ Core' /\ rc' \in [Idx -> Nat]
      /\ sqes' \subseteq Sqe /\ pending' \subseteq sqes' /\ posted' \subseteq sqes'
  BY <1>6, SubmitsCore
<1>8. sqe_seq' \in Nat
  BY <1>6 DEF Submits
<1>9. TypeOK'
  BY <1>0, <1>1, <1>3, <1>5, <1>7, <1>8 DEF TypeOK, Location, Running
<1>10. QED
  BY <1>7, <1>9 DEF IInv


-----------------------------------------------------------------------------
(***************************************************************************)
(* spawn(), from block_on or from a body.                                  *)
(***************************************************************************)
(* A body not started yet is a well-typed future. *)
LEMMA NewFutureType == ASSUME NEW r \in BOOLEAN PROVE NewFuture(r) \in Future
<1> DEFINE l == "none" a == "Init" d == "zero"
<1>1. l \in Leaf /\ a \in StreamState /\ d \in Result
  BY Literals
<1> HIDE DEF l, a, d
<1>2. [leaf |-> l, held |-> NoBuf, cbuf |-> NoBuf, astream |-> a, rstream |-> a,
       left |-> {}, fd |-> d, root |-> r] \in Future
  BY <1>1 DEF Future
<1>3. QED
  BY <1>2 DEF NewFuture, l, a, d

(* So is the context TaskInfo::initial_poll makes for it. *)
LEMMA InitialPollType ==
    ASSUME NEW i \in Idx PROVE InitialPoll(i) \in TaskInfo /\ InitialPoll(i).task = i
<1> DEFINE e == "pos" n == 0 o == "none" g == U16_MAX
<1>1. e \in Result /\ g \in Gen
  BY Literals
<1>2. n \in SyscallNumber
  BY MaskAssumption DEF SyscallNumber
<1>3. o \in Op \cup {"none"}
  OBVIOUS
<1> HIDE DEF e, n, o, g
<1>4. LET t == [task |-> i, nb |-> n, op |-> o, res |-> e, more |-> FALSE, buf |-> NoBuf, gen |-> g]
      IN  t \in TaskInfo /\ t.task = i
  BY <1>1, <1>2, <1>3 DEF TaskInfo
<1>5. QED
  BY <1>4 DEF InitialPoll, e, n, o, g

(* The context CURRENT_TASK holds outside block_on. *)
LEMMA DummyType == Dummy \in TaskInfo /\ Dummy.task \notin Idx
<1> DEFINE e == "neg" n == 0 o == "none" g == U16_MAX
<1>1. e \in Result /\ g \in Gen
  BY Literals
<1>2. n \in SyscallNumber
  BY MaskAssumption DEF SyscallNumber
<1>3. o \in Op \cup {"none"}
  OBVIOUS
<1> HIDE DEF e, n, o, g
<1>4. LET t == [task |-> NullIdx, nb |-> n, op |-> o, res |-> e, more |-> TRUE,
                buf |-> NoBuf, gen |-> g]
      IN  t \in TaskInfo /\ t.task = NullIdx
  BY <1>1, <1>2, <1>3 DEF TaskInfo
<1>5. QED
  BY <1>4, ConstantAssumption DEF Dummy, e, n, o, g

(* A spawn(): the slot was vacant, the new task is the only one that owes more. *)
LEMMA SpawnStep ==
    ASSUME IInv, NEW i \in Idx, NEW r \in BOOLEAN, NEW context \in TaskInfo,
           \/ pc = "run" /\ context = current
           \/ pc \in {"start", "done", "error"} /\ context.task \notin Idx,
           SpawnTask(i, r, context), UNCHANGED <<ringVars, avail, root, shots, sqe_seq>>,
           budget' \in Nat
    PROVE  IInv'
<1> USE DEF ringVars
<1>0. TypeOK /\ Core
  BY DEF IInv
<1>1. /\ slot[i] = "free" /\ pc' = "run"
      /\ slot' = [slot EXCEPT ![i] = "live"]
      /\ rc' = [rc EXCEPT ![i] = 2]
      /\ nb' = [nb EXCEPT ![i] = 0]
      /\ fut' = [fut EXCEPT ![i] = NewFuture(r)]
      /\ owed' = [owed EXCEPT ![i] = 2]
      /\ stack' = Append(stack, context)
      /\ current' = InitialPoll(i)
  BY DEF SpawnTask, Owed
<1>2. current' \in TaskInfo /\ current'.task = i
  BY <1>1, InitialPollType
<1>3. TypeOK'
  <2>1. 0 \in SyscallNumber
    BY MaskAssumption DEF SyscallNumber
  <2>2. fut' \in [Idx -> Future]
    BY <1>0, <1>1, NewFutureType DEF TypeOK
  <2>3. /\ slot' \in [Idx -> {"free", "live", "dead"}] /\ rc' \in [Idx -> Nat]
        /\ nb' \in [Idx -> SyscallNumber] /\ owed' \in [Idx -> 0 .. 2]
    BY <1>0, <1>1, <2>1 DEF TypeOK
  <2>4. stack' \in Seq(TaskInfo)
    BY <1>0, <1>1 DEF TypeOK
  <2>5. QED
    BY <1>0, <1>1, <1>2, <2>2, <2>3, <2>4 DEF TypeOK, Location, Running
<1>4. SqesOf(i) = {} /\ owed[i] = 0
  BY <1>0, <1>1 DEF Core, Vacated
<1>5. \A j : SqesOf(j)' = SqesOf(j)
  BY DEF SqesOf
<1>6. /\ slot \in [Idx -> {"free", "live", "dead"}] /\ rc \in [Idx -> Nat]
      /\ owed \in [Idx -> 0 .. 2] /\ stack \in Seq(TaskInfo) /\ current \in TaskInfo
  BY <1>0 DEF TypeOK
<1>7. RcExact'
  <2> SUFFICES ASSUME NEW j \in Idx, slot'[j] = "live"
               PROVE  rc'[j] = Cardinality(SqesOf(j)) + owed'[j]
    BY <1>5 DEF RcExact
  <2>1. CASE j = i
    <3>1. Cardinality(SqesOf(j)) = 0
      BY <1>4, <2>1, FS_EmptySet
    <3>2. rc'[j] = 2 /\ owed'[j] = 2
      BY <1>1, <1>6, <2>1
    <3>3. QED
      BY <3>1, <3>2
  <2>2. CASE j # i
    BY <1>0, <1>1, <1>6, <2>2 DEF Core, RcExact
  <2>3. QED
    BY <2>1, <2>2
<1>8. Vacated' /\ Awaits'
  BY <1>0, <1>1, <1>5, <1>6 DEF Core, Vacated, Awaits
<1>9. Polled'
  BY <1>1, <1>2, <1>6 DEF Polled, Running
<1>10. /\ Len(stack) \in Nat /\ DOMAIN stack = 1 .. Len(stack)
       /\ DOMAIN stack' = 1 .. Len(stack) + 1
       /\ \A k \in DOMAIN stack : stack'[k] = stack[k]
       /\ stack'[Len(stack) + 1] = context
  BY <1>1, <1>6
<1>11. /\ context.task \in Idx => owed[context.task] > 0
       /\ Len(stack) + 1 > 1 => context.task \in Idx
       /\ \A k \in DOMAIN stack : stack[k].task # context.task
  <2>1. CASE pc = "run" /\ context = current
    BY <1>0, <1>6, <2>1 DEF Core, Polled, Nested, Running
  <2>2. CASE pc \in {"start", "done", "error"} /\ context.task \notin Idx
    BY <1>0, <1>6, <2>2 DEF Core, Nested, Running
  <2>3. QED
    BY <2>1, <2>2
<1>12. \A k \in DOMAIN stack' : stack'[k].task \in Idx => owed[stack'[k].task] > 0
  BY <1>0, <1>10, <1>11 DEF Core, Nested
<1>13. \A k \in DOMAIN stack' : stack'[k].task # i
  BY <1>4, <1>12
<1>14. Nested'
  <2>1. \A k \in DOMAIN stack' : stack'[k].task \in Idx => owed'[stack'[k].task] > 0
    BY <1>1, <1>6, <1>12, <1>13
  <2>2. \A k \in DOMAIN stack' : k > 1 => stack'[k].task \in Idx
    BY <1>0, <1>10, <1>11 DEF Core, Nested
  <2>3. \A j, k \in DOMAIN stack' : stack'[j].task = stack'[k].task => j = k
    BY <1>0, <1>10, <1>11 DEF Core, Nested
  <2>4. QED
    BY <1>1, <1>2, <1>13, <2>1, <2>2, <2>3 DEF Nested, Running
<1>15. Owers'
  <2> SUFFICES ASSUME NEW j \in Idx, owed'[j] > 0, j # i
               PROVE  \E k \in DOMAIN stack' : stack'[k].task = j
    BY <1>1, <1>2 DEF Owers, Running
  <2>1. owed[j] > 0
    BY <1>1, <1>6
  <2>2. pc = "run" /\ context = current
    BY <1>0, <2>1 DEF Core, Owers, Running
  <2>3. j = context.task \/ \E k \in DOMAIN stack : stack[k].task = j
    BY <1>0, <2>1, <2>2 DEF Core, Owers
  <2>4. QED
    BY <1>10, <2>3
<1>16. Fresh' /\ Queued' /\ Waiting' /\ Untasked'
  BY <1>0, <1>1 DEF Core, Fresh, Queued, Waiting, Untasked
<1>17. Drained'
  <2>1. CASE pc = "run" /\ context = current
    <3>1. current.task \in Idx
      BY <1>0, <2>1 DEF Core, Polled, Running
    <3>2. stack = <<>> => stack'[1].task \in Idx
      BY <1>10, <2>1, <3>1
    <3>3. stack # <<>> => 1 \in DOMAIN stack /\ stack'[1] = stack[1]
      BY <1>6, <1>10
    <3>4. QED
      BY <1>0, <1>1, <3>2, <3>3 DEF Core, Drained
  <2>2. CASE pc \in {"start", "done", "error"}
    BY <1>0, <1>1, <2>2 DEF Core, Drained
  <2>3. QED
    BY <2>1, <2>2
<1>18. QED
  BY <1>3, <1>7, <1>8, <1>9, <1>14, <1>15, <1>16, <1>17 DEF IInv, Core

(* block_on's spawn() and a body's. *)
LEMMA SpawnsStep == IInv /\ (BlockOn \/ BlockOnAgain \/ Spawn) => IInv'
<1> USE DEF ringVars, boundVars
<1>1. ASSUME IInv, BlockOn \/ BlockOnAgain PROVE IInv'
  <2>1. PICK i \in Idx : SpawnTask(i, TRUE, Dummy)
    BY <1>1 DEF BlockOn, BlockOnAgain
  <2>2. budget' \in Nat
    <3>1. budget \in Nat
      BY <1>1 DEF IInv, TypeOK
    <3>2. budget' = budget \/ (budget > 0 /\ budget' = budget - 1)
      BY <1>1 DEF BlockOn, BlockOnAgain
    <3>3. QED
      BY <3>1, <3>2
  <2>3. /\ UNCHANGED <<ringVars, avail, root, shots, sqe_seq>>
        /\ pc \in {"start", "done", "error"}
    BY <1>1 DEF BlockOn, BlockOnAgain
  <2>4. QED
    BY <1>1, <2>1, <2>2, <2>3, DummyType, SpawnStep
<1>2. ASSUME IInv, Spawn PROVE IInv'
  <2>1. PICK i \in Idx : SpawnTask(i, FALSE, current)
    BY <1>2 DEF Spawn
  <2>2. UNCHANGED <<ringVars, avail, root, shots, sqe_seq>> /\ pc = "run"
    BY <1>2 DEF Spawn, Start
  <2>3. budget' \in Nat /\ current \in TaskInfo
    BY <1>2 DEF Spawn, Start, IInv, TypeOK
  <2>4. QED
    BY <1>2, <2>1, <2>2, <2>3, SpawnStep
<1>3. QED
  BY <1>1, <1>2

-----------------------------------------------------------------------------
(***************************************************************************)
(* A poll has returned: what is owed is released.                          *)
(***************************************************************************)

(* The slab sl, counts r and debts o agree with the outstanding SQEs. *)
Counts(sl, r, o) ==
    \A j \in Idx :
        /\ sl[j] = "live" => r[j] = Cardinality(SqesOf(j)) + o[j]
        /\ sl[j] # "live" => SqesOf(j) = {} /\ o[j] = 0
        /\ sl[j] = "live" /\ o[j] = 0 => SqesOf(j) # {}

(* Counts is what the invariant says of counts. *)
LEMMA CountsCore ==
    ASSUME Counts(slot', rc', owed'), UNCHANGED sqes
    PROVE  RcExact' /\ Vacated' /\ Awaits'
<1>1. \A j : SqesOf(j)' = SqesOf(j)
  BY DEF SqesOf
<1>2. QED
  BY <1>1 DEF Counts, RcExact, Vacated, Awaits

(* Draining RUNTIME_FREE_LIST changes no live task. *)
LEMMA FreedCounts ==
    ASSUME NEW sl \in [Idx -> {"free", "live", "dead"}], NEW r, NEW o, Counts(sl, r, o)
    PROVE  LET fr == free_unsed_slab_slot(sl)
           IN  /\ fr \in [Idx -> {"free", "live", "dead"}]
               /\ Counts(fr, r, o)
               /\ ~IsRuntimeFree(fr) => \E i \in Idx : fr[i] = "live"
               /\ \A i \in Idx : fr[i] # "dead"
<1> DEFINE fr == free_unsed_slab_slot(sl)
<1>1. \A j \in Idx : /\ fr[j] \in {"free", "live"}
                     /\ fr[j] = "live" <=> sl[j] = "live"
  BY DEF free_unsed_slab_slot
<1>2. fr \in [Idx -> {"free", "live", "dead"}]
  BY DEF free_unsed_slab_slot
<1> HIDE DEF fr
<1>3. Counts(fr, r, o)
  BY <1>1 DEF Counts
<1>4. ~IsRuntimeFree(fr) => \E i \in Idx : fr[i] = "live"
  BY <1>1 DEF IsRuntimeFree
<1>5. QED
  BY <1>1, <1>2, <1>3, <1>4 DEF fr

(* Task::release keeps the types when the count covers it. *)
LEMMA ReleaseType ==
    ASSUME TypeOK, NEW i \in Idx, NEW n \in 0 .. 2, rc[i] >= n, Release(i, n)
    PROVE  /\ rc' \in [Idx -> Nat] /\ fut' \in [Idx -> Future]
           /\ avail' \in [Buf -> Nat] /\ root' \in {"running", "completed", "dropped"}
           /\ SlotAfterRelease(i, n) \in [Idx -> {"free", "live", "dead"}]
<1>1. rc' \in [Idx -> Nat]
  BY DEF Release, TypeOK
<1>2. fut' \in [Idx -> Future]
  <2>1. NewFuture(FALSE) \in Future
    BY NewFutureType
  <2>2. fut' = fut \/ fut' = [fut EXCEPT ![i] = NewFuture(FALSE)]
    BY DEF Release
  <2>3. QED
    BY <2>1, <2>2 DEF TypeOK
<1>3. avail' \in [Buf -> Nat]
  <2>1. fut[i].held \in Buf \cup {NoBuf}
    BY DEF TypeOK, Future
  <2>2. release_read_buf(fut[i].held) \in [Buf -> Nat]
    BY <2>1, AvailType
  <2>3. QED
    BY <2>2 DEF Release, TypeOK
<1>4. root' \in {"running", "completed", "dropped"}
  BY DEF Release, TypeOK
<1>5. SlotAfterRelease(i, n) \in [Idx -> {"free", "live", "dead"}]
  BY DEF SlotAfterRelease, TypeOK
<1>6. QED
  BY <1>1, <1>2, <1>3, <1>4, <1>5

(* A poller releases what it owes: the count left is the number of SQEs, and
   the task dies exactly when there are none. *)
LEMMA AfterPollFacts ==
    ASSUME IInv, AfterPoll
    PROVE  LET i == current.task sl == SlotAfterRelease(i, owed[i])
           IN  /\ i \in Idx
               /\ rc' \in [Idx -> Nat] /\ fut' \in [Idx -> Future]
               /\ avail' \in [Buf -> Nat] /\ root' \in {"running", "completed", "dropped"}
               /\ sl \in [Idx -> {"free", "live", "dead"}]
               /\ owed' \in [Idx -> 0 .. 2]
               /\ \A j \in Idx : owed'[j] > 0 <=> owed[j] > 0 /\ j # i
               /\ \A j \in Idx : j # i => owed'[j] = owed[j]
               /\ Counts(sl, rc', owed')
<1> DEFINE i == current.task sl == SlotAfterRelease(i, owed[i])
<1>0. TypeOK /\ Core
  BY DEF IInv
<1>1. pc = "ret" /\ Release(i, owed[i]) /\ owed' = [owed EXCEPT ![i] = 0]
  BY DEF AfterPoll
<1>2. i \in Idx /\ owed[i] > 0
  BY <1>0, <1>1 DEF Core, Polled, Running
<1>3. slot[i] = "live"
  BY <1>0, <1>2 DEF Core, Vacated
<1>4. /\ slot \in [Idx -> {"free", "live", "dead"}] /\ rc \in [Idx -> Nat]
      /\ owed \in [Idx -> 0 .. 2]
  BY <1>0 DEF TypeOK
<1>5. rc[i] - owed[i] = Cardinality(SqesOf(i)) /\ rc[i] >= owed[i]
  BY <1>2, <1>3, <1>4, RcCovers
<1>6. /\ rc' \in [Idx -> Nat] /\ fut' \in [Idx -> Future]
      /\ avail' \in [Buf -> Nat] /\ root' \in {"running", "completed", "dropped"}
      /\ sl \in [Idx -> {"free", "live", "dead"}]
  <2>1. owed[i] \in 0 .. 2
    BY <1>2, <1>4
  <2>2. QED
    BY <1>0, <1>1, <1>2, <1>5, <2>1, ReleaseType
<1>7. /\ owed' \in [Idx -> 0 .. 2]
      /\ \A j \in Idx : j # i => owed'[j] = owed[j]
      /\ owed'[i] = 0
  BY <1>1, <1>2, <1>4
<1>8. Counts(sl, rc', owed')
  <2>1. rc'[i] = Cardinality(SqesOf(i)) /\ \A j \in Idx : j # i => rc'[j] = rc[j]
    BY <1>1, <1>2, <1>4, <1>5 DEF Release
  <2>2. Cardinality(SqesOf(i)) \in Nat /\ (Cardinality(SqesOf(i)) = 0 <=> SqesOf(i) = {})
    BY <1>0, SqesOfFinite DEF Core
  <2>3. sl[i] = "live" <=> SqesOf(i) # {}
    BY <1>2, <1>3, <1>4, <1>5, <2>2 DEF SlotAfterRelease
  <2>4. \A j \in Idx : j # i => sl[j] = slot[j]
    BY <1>4 DEF SlotAfterRelease
  <2> HIDE DEF sl
  <2> SUFFICES ASSUME NEW j \in Idx
               PROVE  /\ sl[j] = "live" => rc'[j] = Cardinality(SqesOf(j)) + owed'[j]
                      /\ sl[j] # "live" => SqesOf(j) = {} /\ owed'[j] = 0
                      /\ sl[j] = "live" /\ owed'[j] = 0 => SqesOf(j) # {}
    BY DEF Counts
  <2>5. CASE j = i
    BY <1>7, <2>1, <2>2, <2>3, <2>5
  <2>6. CASE j # i
    BY <1>0, <1>7, <2>1, <2>4, <2>6 DEF Core, RcExact, Vacated, Awaits
  <2>7. QED
    BY <2>5, <2>6
<1>9. \A j \in Idx : owed'[j] > 0 <=> owed[j] > 0 /\ j # i
  BY <1>7
<1>10. QED
  BY <1>2, <1>6, <1>7, <1>8, <1>9


(* The end of a nested spawn(): the context restored is the one on top. *)
LEMMA ReturnToSpawnerStep == IInv /\ ReturnToSpawner => IInv'
<1> SUFFICES ASSUME IInv, ReturnToSpawner PROVE IInv'
  OBVIOUS
<1> USE DEF ringVars, boundVars
<1> DEFINE i == current.task top == Len(stack)
<1>0. TypeOK /\ Core
  BY DEF IInv
<1>1. /\ AfterPoll /\ stack # <<>> /\ stack[top].task \in Idx
      /\ slot' = SlotAfterRelease(i, owed[i])
      /\ current' = stack[top] /\ stack' = SubSeq(stack, 1, top - 1) /\ pc' = "run"
      /\ UNCHANGED <<fault, nb, ringVars, boundVars>>
  BY DEF ReturnToSpawner, RestoredContext
<1>2. /\ i \in Idx
      /\ rc' \in [Idx -> Nat] /\ fut' \in [Idx -> Future]
      /\ avail' \in [Buf -> Nat] /\ root' \in {"running", "completed", "dropped"}
      /\ slot' \in [Idx -> {"free", "live", "dead"}]
      /\ owed' \in [Idx -> 0 .. 2]
      /\ \A j \in Idx : owed'[j] > 0 <=> owed[j] > 0 /\ j # i
      /\ Counts(slot', rc', owed')
  BY <1>1, AfterPollFacts
<1>3. stack \in Seq(TaskInfo) /\ pc = "ret"
  BY <1>0, <1>1 DEF TypeOK, AfterPoll
<1>4. /\ top \in Nat /\ top > 0 /\ DOMAIN stack = 1 .. top
      /\ stack' \in Seq(TaskInfo) /\ stack[top] \in TaskInfo
      /\ DOMAIN stack' = 1 .. top - 1
      /\ \A k \in 1 .. top - 1 : stack'[k] = stack[k]
  BY <1>1, <1>3
<1>5. TypeOK'
  BY <1>0, <1>1, <1>2, <1>4 DEF TypeOK, Location, Running
<1>6. RcExact' /\ Vacated' /\ Awaits'
  BY <1>1, <1>2, CountsCore
<1>7. /\ \A k \in 1 .. top : stack[k].task \in Idx => owed[stack[k].task] > 0
      /\ \A k \in 1 .. top : k > 1 => stack[k].task \in Idx
      /\ \A j, k \in 1 .. top : stack[j].task = stack[k].task => j = k
      /\ \A k \in 1 .. top : stack[k].task # i
  BY <1>0, <1>3, <1>4 DEF Core, Nested, Running
<1>8. Polled'
  BY <1>1, <1>2, <1>4, <1>7, SMTT(30) DEF Polled, Running
<1>9. Nested'
  <2>1. \A k \in DOMAIN stack' : stack'[k].task \in Idx => owed'[stack'[k].task] > 0
    <3> SUFFICES ASSUME NEW k \in 1 .. top - 1, stack[k].task \in Idx
                 PROVE  owed'[stack[k].task] > 0
      BY <1>4
    <3>1. k \in 1 .. top
      BY <1>4
    <3>2. owed[stack[k].task] > 0 /\ stack[k].task # i
      BY <1>7, <3>1
    <3> HIDE DEF i
    <3>3. QED
      BY <1>2, <3>2
  <2>2. \A k \in DOMAIN stack' : /\ k > 1 => stack'[k].task \in Idx
                                /\ stack'[k].task # current'.task
    BY <1>1, <1>4, <1>7
  <2>3. \A j, k \in DOMAIN stack' : stack'[j].task = stack'[k].task => j = k
    BY <1>4, <1>7
  <2>4. QED
    BY <1>1, <2>1, <2>2, <2>3 DEF Nested, Running
<1>10. Owers'
  <2> SUFFICES ASSUME NEW j \in Idx, owed'[j] > 0, j # current'.task
               PROVE  \E k \in DOMAIN stack' : stack'[k].task = j
    BY <1>1 DEF Owers, Running
  <2>1. PICK k \in DOMAIN stack : stack[k].task = j
    BY <1>0, <1>2 DEF Core, Owers
  <2>2. k # top
    BY <1>1, <2>1
  <2>3. QED
    BY <1>4, <2>1, <2>2
<1>11. Fresh' /\ Queued' /\ Waiting' /\ Untasked'
  BY <1>0, <1>1 DEF Core, Fresh, Queued, Waiting, Untasked
<1>12. Drained'
  <2>1. stack' # <<>> => 1 \in 1 .. top - 1 /\ stack'[1] = stack[1]
    BY <1>4
  <2>2. QED
    BY <1>0, <1>1, <2>1 DEF Core, Drained
<1>13. QED
  BY <1>5, <1>6, <1>8, <1>9, <1>10, <1>11, <1>12 DEF IInv, Core

(* Between polls nothing is owed and no spawn() is in progress. *)
LEMMA Idle ==
    ASSUME pc' \notin Running \cup {"start"}, stack' = <<>>,
           \A j \in Idx : ~(owed'[j] > 0)
    PROVE  Polled' /\ Nested' /\ Owers'
BY DEF Polled, Nested, Owers

(* The end of block_on's spawn(). *)
LEMMA ReturnToBlockOnStep == IInv /\ ReturnToBlockOn => IInv'
<1> SUFFICES ASSUME IInv, ReturnToBlockOn PROVE IInv'
  OBVIOUS
<1> USE DEF ringVars, boundVars
<1> DEFINE i == current.task top == Len(stack) sl == SlotAfterRelease(i, owed[i])
<1>0. TypeOK /\ Core
  BY DEF IInv
<1>1. /\ AfterPoll /\ stack # <<>> /\ stack[top].task \notin Idx
      /\ slot' = free_unsed_slab_slot(sl)
      /\ current' = stack[top] /\ stack' = SubSeq(stack, 1, top - 1)
      /\ pc' = IF IsRuntimeFree(slot') THEN "done" ELSE "submit"
      /\ UNCHANGED <<fault, nb, ringVars, boundVars>>
  BY DEF ReturnToBlockOn, RestoredContext
<1>2. /\ i \in Idx
      /\ rc' \in [Idx -> Nat] /\ fut' \in [Idx -> Future]
      /\ avail' \in [Buf -> Nat] /\ root' \in {"running", "completed", "dropped"}
      /\ sl \in [Idx -> {"free", "live", "dead"}]
      /\ owed' \in [Idx -> 0 .. 2]
      /\ \A j \in Idx : owed'[j] > 0 <=> owed[j] > 0 /\ j # i
      /\ Counts(sl, rc', owed')
  BY <1>1, AfterPollFacts
<1> HIDE DEF sl
<1>3. /\ slot' \in [Idx -> {"free", "live", "dead"}]
      /\ Counts(slot', rc', owed')
      /\ ~IsRuntimeFree(slot') => \E j \in Idx : slot'[j] = "live"
      /\ \A j \in Idx : slot'[j] # "dead"
  BY <1>1, <1>2, FreedCounts
<1>4. stack \in Seq(TaskInfo) /\ pc = "ret"
  BY <1>0, <1>1 DEF TypeOK, AfterPoll
<1>5. /\ top \in Nat /\ top > 0 /\ DOMAIN stack = 1 .. top
      /\ stack' \in Seq(TaskInfo) /\ stack[top] \in TaskInfo
  BY <1>1, <1>4
<1>6. top = 1
  BY <1>0, <1>1, <1>5 DEF Core, Nested
<1>7. stack' = <<>>
  BY <1>1, <1>4, <1>5, <1>6
<1>8. \A j \in Idx : ~(owed'[j] > 0)
  <2> SUFFICES ASSUME NEW j \in Idx, owed'[j] > 0 PROVE FALSE
    OBVIOUS
  <2>1. PICK k \in DOMAIN stack : stack[k].task = j
    BY <1>0, <1>2 DEF Core, Owers
  <2>2. QED
    BY <1>1, <1>5, <1>6, <2>1
<1>9. pc' \in {"done", "submit"}
  BY <1>1
<1>10. TypeOK'
  BY <1>0, <1>1, <1>2, <1>3, <1>5, <1>9 DEF TypeOK, Location, Halted
<1>11. RcExact' /\ Vacated' /\ Awaits'
  BY <1>1, <1>3, CountsCore
<1>12. Polled' /\ Nested' /\ Owers'
  BY <1>7, <1>8, <1>9, Idle DEF Running
<1>13. Fresh' /\ Queued' /\ Untasked'
  BY <1>0, <1>1 DEF Core, Fresh, Queued, Untasked
<1>14. Waiting' /\ Drained'
  <2>1. entries = <<>>
    BY <1>0, <1>1, <1>6 DEF Core, Drained
  <2>2. QED
    BY <1>1, <1>3, <2>1 DEF Waiting, Drained
<1>15. QED
  BY <1>10, <1>11, <1>12, <1>13, <1>14 DEF IInv, Core

(* The end of handle_cqe_entry. *)
LEMMA ReturnToLoopStep == IInv /\ ReturnToLoop => IInv'
<1> SUFFICES ASSUME IInv, ReturnToLoop PROVE IInv'
  OBVIOUS
<1> USE DEF ringVars, boundVars
<1> DEFINE i == current.task
<1>0. TypeOK /\ Core
  BY DEF IInv
<1>1. /\ AfterPoll /\ stack = <<>> /\ stack' = <<>> /\ pc' = "handle"
      /\ slot' = SlotAfterRelease(i, owed[i])
      /\ UNCHANGED <<fault, current, nb, ringVars, boundVars>>
  BY DEF ReturnToLoop
<1>2. /\ i \in Idx
      /\ rc' \in [Idx -> Nat] /\ fut' \in [Idx -> Future]
      /\ avail' \in [Buf -> Nat] /\ root' \in {"running", "completed", "dropped"}
      /\ slot' \in [Idx -> {"free", "live", "dead"}]
      /\ owed' \in [Idx -> 0 .. 2]
      /\ \A j \in Idx : owed'[j] > 0 <=> owed[j] > 0 /\ j # i
      /\ Counts(slot', rc', owed')
  BY <1>1, AfterPollFacts
<1>3. \A j \in Idx : ~(owed'[j] > 0)
  BY <1>0, <1>1, <1>2 DEF Core, Owers
<1>4. TypeOK'
  BY <1>0, <1>1, <1>2 DEF TypeOK, Location
<1>5. RcExact' /\ Vacated' /\ Awaits'
  BY <1>1, <1>2, CountsCore
<1>6. Polled' /\ Nested' /\ Owers'
  BY <1>1, <1>3, Idle DEF Running
<1>7. Fresh' /\ Queued' /\ Waiting' /\ Untasked' /\ Drained'
  BY <1>0, <1>1 DEF Core, Fresh, Queued, Waiting, Untasked, Drained
<1>8. QED
  BY <1>4, <1>5, <1>6, <1>7 DEF IInv, Core

(* The three ways a poll returns. *)
Returns == ReturnToSpawner \/ ReturnToBlockOn \/ ReturnToLoop

(* What they have in common. *)
LEMMA ReturnShape ==
    ASSUME IInv, Returns
    PROVE  /\ AfterPoll /\ current.task \in Idx
           /\ LET sl == SlotAfterRelease(current.task, owed[current.task])
              IN  \A j \in Idx : slot'[j] = "live" <=> sl[j] = "live"
           /\ pc' \in {"run", "done", "submit", "handle"}
           /\ pc' = "run" => \E k \in DOMAIN stack : current' = stack[k] /\ stack[k].task \in Idx
           /\ \A k \in DOMAIN stack' : k \in DOMAIN stack /\ stack'[k] = stack[k]
           /\ UNCHANGED <<fault, nb, ringVars>>
<1>1. AfterPoll /\ pc = "ret"
  BY DEF Returns, ReturnToSpawner, ReturnToBlockOn, ReturnToLoop, AfterPoll
<1>2. current.task \in Idx /\ stack \in Seq(TaskInfo)
  BY <1>1, CurrentLive DEF Running, IInv, TypeOK
<1>3. PICK sl : sl = SlotAfterRelease(current.task, owed[current.task])
  OBVIOUS
<1>4. slot' = sl \/ slot' = free_unsed_slab_slot(sl)
  BY <1>3 DEF Returns, ReturnToSpawner, ReturnToBlockOn, ReturnToLoop
<1>5. \A j \in Idx : slot'[j] = "live" <=> sl[j] = "live"
  BY <1>4 DEF free_unsed_slab_slot
<1>6. /\ pc' \in {"run", "done", "submit", "handle"}
      /\ UNCHANGED <<fault, nb, ringVars>>
  BY DEF Returns, ReturnToSpawner, ReturnToBlockOn, ReturnToLoop
<1>7. pc' = "run" => /\ stack # <<>> /\ current' = stack[Len(stack)]
                     /\ stack[Len(stack)].task \in Idx
  BY DEF Returns, ReturnToSpawner, ReturnToBlockOn, ReturnToLoop, RestoredContext
<1>8. stack' = stack \/ (stack # <<>> /\ stack' = SubSeq(stack, 1, Len(stack) - 1))
  BY DEF Returns, ReturnToSpawner, ReturnToBlockOn, ReturnToLoop
<1>9. stack # <<>> => Len(stack) \in DOMAIN stack
  BY <1>2
<1>10. \A k \in DOMAIN stack' : k \in DOMAIN stack /\ stack'[k] = stack[k]
  BY <1>2, <1>8
<1>11. QED
  BY <1>1, <1>2, <1>3, <1>5, <1>6, <1>7, <1>9, <1>10

-----------------------------------------------------------------------------
(***************************************************************************)
(* The loop of block_on.                                                   *)
(***************************************************************************)

(* A panic freezes everything but the program counter. *)
LEMMA PanicStep == ASSUME NEW why, IInv, Panic(why) PROVE IInv'
<1> USE DEF Panic, taskVars, ringVars, boundVars
<1>0. TypeOK /\ Core
  BY DEF IInv
<1>1. \A j : SqesOf(j)' = SqesOf(j)
  BY DEF SqesOf
<1>2. TypeOK'
  BY <1>0 DEF TypeOK, Location, Halted
<1>3. RcExact' /\ Vacated' /\ Awaits'
  BY <1>0, <1>1 DEF Core, RcExact, Vacated, Awaits
<1>4. Polled' /\ Nested' /\ Owers'
  BY <1>0 DEF Core, Polled, Nested, Owers, Running
<1>5. Fresh' /\ Queued' /\ Waiting' /\ Untasked' /\ Drained'
  BY <1>0 DEF Core, Fresh, Queued, Waiting, Untasked, Drained
<1>6. QED
  BY <1>2, <1>3, <1>4, <1>5 DEF IInv, Core

(* io_uring_enter, whether or not it fails or is interrupted. *)
LEMMA SubmitStep == IInv /\ (SubmitAndWait \/ SubmitFails \/ WokenEarly) => IInv'
<1> SUFFICES ASSUME IInv, SubmitAndWait \/ SubmitFails \/ WokenEarly PROVE IInv'
  OBVIOUS
<1> USE DEF taskVars, ringVars, boundVars
<1>0. TypeOK /\ Core
  BY DEF IInv
<1>1. /\ pc = "submit" /\ pc' \in {"wait", "error", "panic"}
      /\ pending' = {} \/ (pending' = pending /\ pc' = "error")
      /\ UNCHANGED <<current, stack, slot, rc, nb, fut, owed, sqes, posted, entries,
                     avail, root, boundVars>>
  BY DEF SubmitAndWait, SubmitFails, WokenEarly
<1>2. \A j : SqesOf(j)' = SqesOf(j)
  BY <1>1 DEF SqesOf
<1>3. TypeOK'
  BY <1>0, <1>1 DEF TypeOK, Location, Halted
<1>4. RcExact' /\ Vacated' /\ Awaits'
  BY <1>0, <1>1, <1>2 DEF Core, RcExact, Vacated, Awaits
<1>5. stack' = <<>> /\ \A j \in Idx : ~(owed'[j] > 0)
  BY <1>0, <1>1 DEF Core, Nested, Owers, Running
<1>6. Polled' /\ Nested' /\ Owers'
  BY <1>1, <1>5, Idle DEF Running
<1>7. Fresh' /\ Queued' /\ Waiting' /\ Untasked' /\ Drained'
  BY <1>0, <1>1 DEF Core, Fresh, Queued, Waiting, Untasked, Drained
<1>8. QED
  BY <1>3, <1>4, <1>6, <1>7 DEF IInv, Core

(* The tests of tasks.count() that follow a drain of RUNTIME_FREE_LIST. *)
LEMMA DrainStep == IInv /\ (Collect \/ EndBatch) => IInv'
<1> SUFFICES ASSUME IInv, Collect \/ EndBatch PROVE IInv'
  OBVIOUS
<1> USE DEF taskVars, ringVars, boundVars
<1>0. TypeOK /\ Core
  BY DEF IInv
<1>1. /\ pc \in {"wait", "handle"} /\ pc' \in {"done", "handle", "submit"}
      /\ slot' = free_unsed_slab_slot(slot)
      /\ pc' = "submit" => ~IsRuntimeFree(slot')
      /\ pc' = "done" => IsRuntimeFree(slot')
      /\ UNCHANGED <<fault, current, stack, rc, nb, fut, owed, ringVars, avail, root, boundVars>>
  BY DEF Collect, EndBatch
<1>2. slot \in [Idx -> {"free", "live", "dead"}] /\ Counts(slot, rc, owed)
  BY <1>0 DEF TypeOK, Core, RcExact, Vacated, Awaits, Counts
<1>3. /\ slot' \in [Idx -> {"free", "live", "dead"}]
      /\ Counts(slot', rc', owed')
      /\ ~IsRuntimeFree(slot') => \E j \in Idx : slot'[j] = "live"
      /\ \A j \in Idx : slot'[j] # "dead"
  BY <1>1, <1>2, FreedCounts
<1>4. TypeOK'
  BY <1>0, <1>1, <1>3 DEF TypeOK, Location, Halted
<1>5. RcExact' /\ Vacated' /\ Awaits'
  BY <1>1, <1>3, CountsCore
<1>6. stack' = <<>> /\ \A j \in Idx : ~(owed'[j] > 0)
  BY <1>0, <1>1 DEF Core, Nested, Owers, Running
<1>7. Polled' /\ Nested' /\ Owers'
  BY <1>1, <1>6, Idle DEF Running
<1>8. Fresh' /\ Queued' /\ Untasked'
  BY <1>0, <1>1 DEF Core, Fresh, Queued, Untasked
<1>9. Waiting' /\ Drained'
  <2>1. pc' \in {"submit", "done"} => entries = <<>>
    <3>1. CASE EndBatch
      BY <3>1 DEF EndBatch
    <3>2. CASE Collect
      <4>1. PICK i \in Idx : slot[i] = "live"
        BY <1>0, <3>2 DEF Core, Waiting, Collect
      <4>2. ~IsRuntimeFree(slot')
        BY <1>1, <4>1 DEF IsRuntimeFree, free_unsed_slab_slot
      <4>3. QED
        BY <3>2, <4>2 DEF Collect
    <3>3. QED
      BY <3>1, <3>2
  <2>2. QED
    BY <1>1, <1>3, <1>6, <2>1 DEF Waiting, Drained
<1>10. QED
  BY <1>4, <1>5, <1>7, <1>8, <1>9 DEF IInv, Core

-----------------------------------------------------------------------------
(***************************************************************************)
(* handle_cqe_entry.                                                       *)
(***************************************************************************)

(* If the entry at the head names a slot of the slab, it is of an outstanding
   SQE of a live task; taking it leaves a queue in order, and one SQE fewer if
   F_MORE is clear. *)
LEMMA TakeEntryFacts ==
    ASSUME IInv, pc = "handle", entries # <<>>,
           NEW c, c = Head(entries), NEW i \in Idx, i = c.sqe.task, TakeEntry(c)
    PROVE  /\ c \in Cqe /\ i \in Idx /\ slot[i] = "live"
           /\ rc[i] = Cardinality(SqesOf(i)) /\ rc[i] \in Nat /\ rc[i] > 0
           /\ entries' \in Seq(Cqe)
           /\ sqes' \subseteq Sqe /\ pending' \subseteq sqes' /\ posted' \subseteq sqes'
           /\ UNCHANGED pending
           /\ sqe_seq' = sqe_seq => Fresh'
           /\ Queued' /\ Untasked'
           /\ \A j : j # i => SqesOf(j)' = SqesOf(j)
           /\ c.more => SqesOf(i)' = SqesOf(i)
           /\ ~c.more => Cardinality(SqesOf(i)') = Cardinality(SqesOf(i)) - 1
<1> DEFINE s == c.sqe
<1>0. TypeOK /\ Core
  BY DEF IInv
<1>1. /\ entries \in Seq(Cqe) /\ Len(entries) \in Nat /\ Len(entries) > 0
      /\ DOMAIN entries = 1 .. Len(entries) /\ c = entries[1] /\ c \in Cqe
      /\ Tail(entries) \in Seq(Cqe) /\ DOMAIN Tail(entries) = 1 .. Len(entries) - 1
      /\ \A k \in 1 .. Len(entries) - 1 : Tail(entries)[k] = entries[k + 1]
  BY <1>0 DEF TypeOK
<1>2. /\ s \in sqes /\ s \notin pending
      /\ ~c.more => \A j \in DOMAIN entries : j > 1 => entries[j].sqe # s
  BY <1>0, <1>1 DEF Core, Queued
<1>3. s \in Sqe /\ i \in Idx
  BY <1>0, <1>2 DEF TypeOK
<1>4. s \in SqesOf(i)
  BY <1>2 DEF SqesOf
<1>5. slot[i] = "live" /\ owed[i] = 0
  <2>1. slot[i] = "live"
    BY <1>0, <1>3, <1>4 DEF Core, Vacated
  <2>2. owed[i] \in 0 .. 2
    BY <1>0, <1>3 DEF TypeOK
  <2>3. QED
    BY <1>0, <1>3, <2>1, <2>2 DEF Core, Owers, Running
<1>6. rc[i] = Cardinality(SqesOf(i)) /\ rc[i] \in Nat /\ rc[i] > 0
  <2>1. Cardinality(SqesOf(i)) \in Nat /\ Cardinality(SqesOf(i)) # 0
    BY <1>0, <1>4, SqesOfFinite DEF Core
  <2>2. QED
    BY <1>0, <1>3, <1>5, <2>1 DEF Core, RcExact
<1>7. /\ entries' = Tail(entries) /\ UNCHANGED pending
      /\ sqes' = IF c.more THEN sqes ELSE sqes \ {s}
      /\ posted' = IF c.more THEN posted ELSE posted \ {s}
  BY DEF TakeEntry
<1>8. /\ sqes' \subseteq Sqe /\ pending' \subseteq sqes' /\ posted' \subseteq sqes'
  BY <1>0, <1>2, <1>7 DEF TypeOK
<1>9. IsFiniteSet(sqes')
  BY <1>0, <1>7, FS_Subset DEF Core, Fresh
<1>10. \A j : j # i => SqesOf(j)' = SqesOf(j)
  BY <1>7 DEF SqesOf
<1>11. c.more => SqesOf(i)' = SqesOf(i)
  BY <1>7 DEF SqesOf
<1>12. ~c.more => Cardinality(SqesOf(i)') = Cardinality(SqesOf(i)) - 1
  <2>1. ~c.more => SqesOf(i)' = SqesOf(i) \ {s}
    BY <1>7 DEF SqesOf
  <2>2. IsFiniteSet(SqesOf(i))
    BY <1>0, SqesOfFinite DEF Core
  <2>3. Cardinality(SqesOf(i) \ {s}) = Cardinality(SqesOf(i)) - 1
    BY <1>4, <2>2, FS_RemoveElement
  <2>4. QED
    BY <2>1, <2>3
<1>13. Queued'
  <2> SUFFICES ASSUME NEW k \in DOMAIN entries'
               PROVE  /\ entries'[k].sqe \in sqes' \ pending'
                      /\ ~entries'[k].more =>
                            /\ entries'[k].sqe \in posted'
                            /\ \A j \in DOMAIN entries' : j > k => entries'[j].sqe # entries'[k].sqe
    BY DEF Queued
  <2>1. /\ k \in 1 .. Len(entries) - 1 /\ k + 1 \in DOMAIN entries /\ k + 1 > 1
        /\ entries'[k] = entries[k + 1]
    BY <1>1, <1>7
  <2>2. /\ entries[k + 1].sqe \in sqes \ pending
        /\ ~entries[k + 1].more =>
              /\ entries[k + 1].sqe \in posted
              /\ \A j \in DOMAIN entries : j > k + 1 => entries[j].sqe # entries[k + 1].sqe
    BY <1>0, <2>1 DEF Core, Queued
  <2>3. ~c.more => entries[k + 1].sqe # s
    BY <1>2, <2>1
  <2>4. \A j \in DOMAIN entries' : j > k =>
           j + 1 \in DOMAIN entries /\ j + 1 > k + 1 /\ entries'[j] = entries[j + 1]
    BY <1>1, <1>7, <2>1
  <2>5. QED
    BY <1>7, <2>1, <2>2, <2>3, <2>4
<1>14. sqe_seq' = sqe_seq => Fresh'
  BY <1>0, <1>7, <1>9 DEF Core, Fresh
<1>15. Untasked'
  BY <1>0, <1>7 DEF Core, Untasked
<1>16. QED
  BY <1>1, <1>3, <1>5, <1>6, <1>7, <1>8, <1>9, <1>10, <1>11, <1>12, <1>13, <1>14, <1>15


(* TaskInfo::from_entry, and the same with the next number. *)
LEMMA FromEntryType ==
    ASSUME NEW c \in Cqe, c.sqe.task \in Idx
    PROVE  /\ FromEntry(c) \in TaskInfo /\ FromEntry(c).task = c.sqe.task
           /\ \A n \in SyscallNumber :
                LET t == [FromEntry(c) EXCEPT !.nb = n]
                IN  t \in TaskInfo /\ t.task = c.sqe.task
           /\ FromEntry(c).nb = c.sqe.nb /\ c.sqe.nb \in SyscallNumber
<1>1. c.sqe \in Sqe /\ c.res \in Result /\ c.more \in BOOLEAN /\ c.buf \in Buf \cup {NoBuf}
  BY DEF Cqe
<1>2. /\ c.sqe.task \in Idx /\ c.sqe.nb \in SyscallNumber /\ c.sqe.gen \in Gen
      /\ c.sqe.op \in Op \cup {"none"}
  BY <1>1 DEF Sqe
<1>3. FromEntry(c) \in TaskInfo
  BY <1>1, <1>2 DEF FromEntry, TaskInfo
<1>4. FromEntry(c).task = c.sqe.task /\ FromEntry(c).nb = c.sqe.nb
  BY DEF FromEntry
<1>5. ASSUME NEW n \in SyscallNumber
      PROVE  LET t == [FromEntry(c) EXCEPT !.nb = n]
             IN  t \in TaskInfo /\ t.task = c.sqe.task
  BY <1>3, <1>4 DEF TaskInfo
<1>6. QED
  BY <1>2, <1>3, <1>4, <1>5

(* A task is polled with the completion at the head of the queue. *)
LEMMA EnterPollStep ==
    ASSUME IInv, pc = "handle", entries # <<>>,
           NEW c, c = Head(entries), NEW i \in Idx, i = c.sqe.task, EnterPoll(c),
           current' \in TaskInfo, current'.task = i, nb' \in [Idx -> SyscallNumber]
    PROVE  IInv'
<1> USE DEF boundVars
<1>0. TypeOK /\ Core
  BY DEF IInv
<1>1. /\ TakeEntry(c)
      /\ rc' = [rc EXCEPT ![i] = rc[i] + 1]
      /\ owed' = [owed EXCEPT ![i] = IF c.more THEN 1 ELSE 2]
      /\ pc' = "leaf"
      /\ UNCHANGED <<fault, stack, slot, fut, avail, root, boundVars>>
  BY DEF EnterPoll, Owed
<1>2. /\ c \in Cqe /\ i \in Idx /\ slot[i] = "live"
      /\ rc[i] = Cardinality(SqesOf(i)) /\ rc[i] \in Nat /\ rc[i] > 0
      /\ entries' \in Seq(Cqe)
      /\ sqes' \subseteq Sqe /\ pending' \subseteq sqes' /\ posted' \subseteq sqes'
      /\ Fresh' /\ Queued' /\ Untasked'
      /\ \A j : j # i => SqesOf(j)' = SqesOf(j)
      /\ c.more => SqesOf(i)' = SqesOf(i)
      /\ ~c.more => Cardinality(SqesOf(i)') = Cardinality(SqesOf(i)) - 1
  BY <1>1, TakeEntryFacts
<1>3. /\ slot \in [Idx -> {"free", "live", "dead"}] /\ rc \in [Idx -> Nat]
      /\ owed \in [Idx -> 0 .. 2]
  BY <1>0 DEF TypeOK
<1>4. /\ rc' \in [Idx -> Nat] /\ owed' \in [Idx -> 0 .. 2]
      /\ rc'[i] = rc[i] + 1 /\ owed'[i] = (IF c.more THEN 1 ELSE 2)
      /\ \A j \in Idx : j # i => rc'[j] = rc[j] /\ owed'[j] = owed[j]
  BY <1>1, <1>2, <1>3
<1>5. TypeOK'
  BY <1>0, <1>1, <1>2, <1>4 DEF TypeOK, Location, Running
<1>6. RcExact'
  <2> SUFFICES ASSUME NEW j \in Idx, slot[j] = "live"
               PROVE  rc'[j] = Cardinality(SqesOf(j)') + owed'[j]
    BY <1>1 DEF RcExact
  <2>1. CASE j = i
    <3>1. CASE c.more
      BY <1>2, <1>4, <2>1, <3>1
    <3>2. CASE ~c.more
      BY <1>2, <1>4, <2>1, <3>2
    <3>3. QED
      BY <3>1, <3>2
  <2>2. CASE j # i
    BY <1>0, <1>2, <1>4, <2>2 DEF Core, RcExact
  <2>3. QED
    BY <2>1, <2>2
<1>7. owed'[i] > 0
  BY <1>4
<1>8. Vacated' /\ Awaits'
  BY <1>0, <1>1, <1>2, <1>4, <1>7 DEF Core, Vacated, Awaits
<1>9. stack' = <<>> /\ \A j \in Idx : ~(owed[j] > 0)
  BY <1>0, <1>1 DEF Core, Nested, Owers, Running
<1>10. Polled' /\ Nested' /\ Owers'
  BY <1>1, <1>2, <1>4, <1>7, <1>9 DEF Polled, Nested, Owers, Running
<1>11. Waiting' /\ Drained'
  BY <1>1, <1>9 DEF Waiting, Drained
<1>12. QED
  BY <1>2, <1>5, <1>6, <1>8, <1>10, <1>11 DEF IInv, Core

(* A completion that handle_cqe_entry does not panic on names a slot. *)
LEMMA VerdictNames ==
    ASSUME NEW c, Verdict(c) # "Vacant" PROVE c.sqe.task \in Idx
BY DEF Verdict

(* So it is under either verdict that polls it. *)
LEMMA HandlePolledStep == IInv /\ (HandleNormal \/ HandleMultiple) => IInv'
<1> SUFFICES ASSUME IInv, HandleNormal \/ HandleMultiple PROVE IInv'
  OBVIOUS
<1>1. PICK c : c = Head(entries)
  OBVIOUS
<1>2. PICK i : i = c.sqe.task
  OBVIOUS
<1>3. /\ pc = "handle" /\ entries # <<>> /\ EnterPoll(c)
  BY <1>1 DEF HandleNormal, HandleMultiple, Dispatch
<1>4. TakeEntry(c) /\ i \in Idx
  BY <1>1, <1>2, <1>3, VerdictNames DEF EnterPoll, HandleNormal, HandleMultiple, Dispatch
<1>5. c \in Cqe /\ i \in Idx /\ slot[i] = "live"
  BY <1>1, <1>2, <1>3, <1>4, TakeEntryFacts
<1>6. nb \in [Idx -> SyscallNumber]
  BY DEF IInv, TypeOK
<1>7. CASE HandleNormal
  <2>1. nb' = [nb EXCEPT ![i] = augmente_syscall_nb(nb[i])]
    BY <1>1, <1>2, <1>7 DEF HandleNormal
  <2>2. augmente_syscall_nb(nb[i]) \in SyscallNumber
    BY <1>5, <1>6, NumberType
  <2>3. nb' \in [Idx -> SyscallNumber]
    BY <1>6, <2>1, <2>2
  <2>4. current' = [FromEntry(c) EXCEPT !.nb = FromEntry(c).nb + 1]
    BY <1>1, <1>7 DEF HandleNormal
  <2>5. c.sqe.nb + 1 \in SyscallNumber
    <3>1. evaluate_syscall_nb(nb[i], c.sqe.nb) = "Normal"
      BY <1>1, <1>2, <1>5, <1>7 DEF HandleNormal, Dispatch, Verdict
    <3>2. ~IsMultiple(c.sqe.nb)
      BY <3>1 DEF evaluate_syscall_nb, IsMultiple
    <3>3. QED
      BY <1>2, <1>5, <3>2, FromEntryType, NumberType
  <2>6. current' \in TaskInfo /\ current'.task = i
    BY <1>2, <1>5, <2>4, <2>5, FromEntryType
  <2>7. QED
    BY <1>1, <1>2, <1>3, <1>4, <2>3, <2>6, EnterPollStep
<1>8. CASE HandleMultiple
  <2>1. nb' = nb /\ current' = FromEntry(c)
    BY <1>1, <1>8 DEF HandleMultiple
  <2>2. current' \in TaskInfo /\ current'.task = i
    BY <1>2, <1>5, <2>1, FromEntryType
  <2>3. QED
    BY <1>1, <1>2, <1>3, <1>4, <1>6, <2>1, <2>2, EnterPollStep
<1>9. QED
  BY <1>7, <1>8

(* A stale completion gives back the reference of its SQE and no more. *)
LEMMA HandleExpiredStep == IInv /\ HandleExpired => IInv'
<1> SUFFICES ASSUME IInv, HandleExpired PROVE IInv'
  OBVIOUS
<1> USE DEF loopVars, boundVars
<1>0. TypeOK /\ Core
  BY DEF IInv
<1>1. PICK c : c = Head(entries)
  OBVIOUS
<1>2. PICK i : i = c.sqe.task
  OBVIOUS
<1>3. PICK n : n = Owed(c.more) - 1
  OBVIOUS
<1>4. /\ pc = "handle" /\ entries # <<>> /\ TakeEntry(c)
      /\ Release(i, n) /\ slot' = SlotAfterRelease(i, n)
      /\ UNCHANGED <<loopVars, nb, owed, boundVars>>
  BY <1>1, <1>2, <1>3 DEF HandleExpired, Dispatch
<1>a. i \in Idx
  BY <1>1, <1>2, VerdictNames DEF HandleExpired, Dispatch
<1>5. /\ c \in Cqe /\ i \in Idx /\ slot[i] = "live"
      /\ rc[i] = Cardinality(SqesOf(i)) /\ rc[i] \in Nat /\ rc[i] > 0
      /\ entries' \in Seq(Cqe)
      /\ sqes' \subseteq Sqe /\ pending' \subseteq sqes' /\ posted' \subseteq sqes'
      /\ Fresh' /\ Queued' /\ Untasked'
      /\ \A j : j # i => SqesOf(j)' = SqesOf(j)
      /\ c.more => SqesOf(i)' = SqesOf(i)
      /\ ~c.more => Cardinality(SqesOf(i)') = Cardinality(SqesOf(i)) - 1
  BY <1>1, <1>2, <1>4, <1>a, TakeEntryFacts
<1>6. n = (IF c.more THEN 0 ELSE 1)
  BY <1>3 DEF Owed
<1>7. /\ rc' \in [Idx -> Nat] /\ fut' \in [Idx -> Future]
      /\ avail' \in [Buf -> Nat] /\ root' \in {"running", "completed", "dropped"}
      /\ slot' \in [Idx -> {"free", "live", "dead"}]
  <2>1. n \in 0 .. 2 /\ rc[i] >= n
    BY <1>5, <1>6
  <2>2. QED
    BY <1>0, <1>4, <1>5, <2>1, ReleaseType
<1>8. TypeOK'
  BY <1>0, <1>4, <1>5, <1>7 DEF TypeOK
<1>9. /\ slot \in [Idx -> {"free", "live", "dead"}] /\ rc \in [Idx -> Nat]
      /\ owed \in [Idx -> 0 .. 2]
  BY <1>0 DEF TypeOK
<1>10. \A j \in Idx : ~(owed[j] > 0) /\ owed[j] = 0 /\ owed'[j] = 0
  BY <1>0, <1>4, <1>9 DEF Core, Owers, Running
<1>11. rc'[i] = Cardinality(SqesOf(i)') /\ \A j \in Idx : j # i => rc'[j] = rc[j]
  BY <1>4, <1>5, <1>6, <1>9 DEF Release
<1>12. \A j \in Idx : j # i => slot'[j] = slot[j]
  BY <1>4, <1>9 DEF SlotAfterRelease
<1>13. slot'[i] = "live" <=> SqesOf(i)' # {}
  <2>1. Cardinality(SqesOf(i)') = 0 <=> SqesOf(i)' = {}
    <3>1. IsFiniteSet(SqesOf(i)')
      <4>1. SqesOf(i)' \subseteq sqes'
        BY DEF SqesOf
      <4>2. QED
        BY <1>5, <4>1, FS_Subset DEF Fresh
    <3>2. QED
      BY <3>1, FS_EmptySet
  <2>2. rc'[i] = rc[i] - n
    BY <1>4, <1>5, <1>9 DEF Release
  <2>3. slot'[i] = "live" <=> rc[i] # n
    BY <1>4, <1>5, <1>9 DEF SlotAfterRelease
  <2>4. QED
    BY <1>5, <1>6, <1>11, <2>1, <2>2, <2>3
<1>14. RcExact' /\ Vacated' /\ Awaits'
  <2>1. RcExact'
    BY <1>0, <1>5, <1>9, <1>10, <1>11, <1>12 DEF Core, RcExact
  <2>2. Vacated' /\ Awaits'
    BY <1>0, <1>5, <1>10, <1>12, <1>13 DEF Core, Vacated, Awaits
  <2>3. QED
    BY <2>1, <2>2
<1>15. Polled' /\ Nested' /\ Owers'
  <2>1. stack' = <<>> /\ pc' = "handle"
    BY <1>0, <1>4 DEF Core, Nested, Running
  <2>2. QED
    BY <1>10, <2>1, Idle DEF Running
<1>16. Waiting' /\ Drained'
  <2>1. stack' = <<>>
    BY <1>0, <1>4 DEF Core, Nested, Running
  <2>2. QED
    BY <1>4, <2>1 DEF Waiting, Drained
<1>17. QED
  BY <1>5, <1>8, <1>14, <1>15, <1>16 DEF IInv, Core

-----------------------------------------------------------------------------
(***************************************************************************)
(* The kernel.                                                             *)
(***************************************************************************)
(* What the kernel posts is a completion of the SQE, with a buffer it had. *)
LEMMA KernelCqesType ==
    ASSUME TypeOK, NEW s \in Sqe, NEW c \in KernelCqes(s)
    PROVE  /\ c \in Cqe /\ c.sqe = s
           /\ c.buf # NoBuf => c.buf \in Buf /\ avail[c.buf] > 0
<1>1. /\ c \in [sqe: {s}, res: Result, more: BOOLEAN, buf: Buf \cup {NoBuf}]
      /\ c.buf # NoBuf => avail[c.buf] > 0
  BY DEF KernelCqes, Outcomes, Result
<1>2. QED
  BY <1>1 DEF Cqe

(* A completion goes to the end of the queue, and is its SQE's last if F_MORE is clear. *)
LEMMA KernelPostStep == IInv /\ KernelPost => IInv'
<1> SUFFICES ASSUME IInv, KernelPost PROVE IInv'
  OBVIOUS
<1> USE DEF loopVars, taskVars
<1>0. TypeOK /\ Core
  BY DEF IInv
<1>1. PICK s \in sqes \ (pending \cup posted) : Answer(s)
  BY DEF KernelPost
<1>2. PICK c \in KernelCqes(s) :
         /\ entries' = Append(entries, c)
         /\ posted' = IF c.more THEN posted ELSE posted \cup {s}
         /\ avail' = IF c.buf = NoBuf THEN avail ELSE [avail EXCEPT ![c.buf] = avail[c.buf] - 1]
         /\ shots' \in {shots, shots + 1}
  BY <1>1 DEF Answer
<1>3. UNCHANGED <<loopVars, taskVars, sqes, pending, root, budget, sqe_seq>> /\ pc = "wait"
  BY <1>1 DEF KernelPost, Answer
<1>4. s \in Sqe
  BY <1>0 DEF TypeOK
<1>5. /\ c \in Cqe /\ c.sqe = s
      /\ c.buf # NoBuf => c.buf \in Buf /\ avail[c.buf] > 0
  BY <1>0, <1>4, KernelCqesType
<1>6. avail' \in [Buf -> Nat]
  BY <1>0, <1>2, <1>5 DEF TypeOK
<1>7. /\ entries \in Seq(Cqe) /\ entries' \in Seq(Cqe)
      /\ Len(entries) \in Nat /\ DOMAIN entries = 1 .. Len(entries)
      /\ DOMAIN entries' = 1 .. Len(entries) + 1
      /\ entries'[Len(entries) + 1] = c
      /\ \A k \in DOMAIN entries : entries'[k] = entries[k]
  BY <1>0, <1>2, <1>5 DEF TypeOK
<1>8. posted \subseteq posted' /\ posted' \subseteq sqes /\ shots' \in Nat
  BY <1>0, <1>2 DEF TypeOK
<1>9. TypeOK'
  BY <1>0, <1>3, <1>6, <1>7, <1>8 DEF TypeOK
<1>10. \A j : SqesOf(j)' = SqesOf(j)
  BY <1>3 DEF SqesOf
<1>11. RcExact' /\ Vacated' /\ Awaits'
  BY <1>0, <1>3, <1>10 DEF Core, RcExact, Vacated, Awaits
<1>12. Polled' /\ Nested' /\ Owers'
  BY <1>0, <1>3 DEF Core, Polled, Nested, Owers
<1>13. Fresh' /\ Waiting' /\ Untasked' /\ Drained'
  <2>1. stack' = <<>>
    BY <1>0, <1>3 DEF Core, Nested, Running
  <2>2. QED
    BY <1>0, <1>3, <2>1 DEF Core, Fresh, Waiting, Untasked, Drained
<1>14. Queued'
  <2> SUFFICES ASSUME NEW k \in DOMAIN entries'
               PROVE  /\ entries'[k].sqe \in sqes' \ pending'
                      /\ ~entries'[k].more =>
                            /\ entries'[k].sqe \in posted'
                            /\ \A j \in DOMAIN entries' : j > k => entries'[j].sqe # entries'[k].sqe
    BY DEF Queued
  <2>1. CASE k = Len(entries) + 1
    <3>1. ~c.more => s \in posted'
      BY <1>2
    <3>2. QED
      BY <1>3, <1>5, <1>7, <2>1, <3>1
  <2>2. CASE k \in DOMAIN entries
    <3>1. /\ entries[k].sqe \in sqes \ pending
          /\ ~entries[k].more =>
                /\ entries[k].sqe \in posted
                /\ \A j \in DOMAIN entries : j > k => entries[j].sqe # entries[k].sqe
      BY <1>0, <2>2 DEF Core, Queued
    <3>2. s \notin posted
      OBVIOUS
    <3>3. \A j \in DOMAIN entries' : j \in DOMAIN entries \/ entries'[j] = c
      BY <1>7
    <3>4. QED
      BY <1>3, <1>5, <1>7, <1>8, <2>2, <3>1, <3>2, <3>3
  <2>3. QED
    BY <1>7, <2>1, <2>2
<1>15. QED
  BY <1>9, <1>11, <1>12, <1>13, <1>14 DEF IInv, Core

-----------------------------------------------------------------------------
(***************************************************************************)
(* The inductive invariant and the theorems.                               *)
(***************************************************************************)
(* The invariant holds when block_on is called. *)
LEMMA InitInv == FewTasks /\ Init => IInv
<1> SUFFICES ASSUME FewTasks, Init PROVE IInv
  OBVIOUS
<1> USE DEF Init
<1>1. Dummy \in TaskInfo
  BY DummyType
<1>2. NewFuture(FALSE) \in Future
  BY NewFutureType
<1>3. 0 \in SyscallNumber
  BY MaskAssumption DEF SyscallNumber
<1>4. budget \in Nat
  BY ConstantAssumption
<1>5. TypeOK
  <2>1. /\ slot \in [Idx -> {"free", "live", "dead"}] /\ rc \in [Idx -> Nat]
        /\ owed \in [Idx -> 0 .. 2] /\ avail \in [Buf -> Nat]
        /\ nb \in [Idx -> SyscallNumber]
    BY <1>3
  <2>2. fut \in [Idx -> Future]
    BY <1>2
  <2>3. stack \in Seq(TaskInfo) /\ entries \in Seq(Cqe) /\ current \in TaskInfo
    BY <1>1
  <2>4. QED
    BY <1>4, <2>1, <2>2, <2>3 DEF TypeOK, Location
<1>6. \A i : SqesOf(i) = {}
  BY DEF SqesOf
<1>7. RcExact /\ Vacated /\ Awaits
  BY <1>6 DEF RcExact, Vacated, Awaits
<1>8. Polled /\ Nested /\ Owers
  BY DEF Polled, Nested, Owers, Running
<1>9. Fresh /\ Queued /\ Waiting /\ Untasked /\ Drained
  BY FS_EmptySet DEF Fresh, Queued, Waiting, Untasked, Drained
<1>10. QED
  BY <1>5, <1>7, <1>8, <1>9 DEF IInv, Core

(* Every step keeps it. *)
LEMMA NextInv == IInv /\ [Next]_vars => IInv'
<1> SUFFICES ASSUME IInv, [Next]_vars PROVE IInv'
  OBVIOUS
<1>1. CASE Loop
  <2>1. CASE SubmitOverflow
    BY <2>1, PanicStep DEF SubmitOverflow
  <2>2. CASE HandlePanics
    BY <2>2, PanicStep DEF HandlePanics
  <2>3. QED
    BY <1>1, <2>1, <2>2, SpawnsStep, ReturnToSpawnerStep, ReturnToBlockOnStep,
       ReturnToLoopStep, SubmitStep, DrainStep, HandlePolledStep, HandleExpiredStep DEF Loop
<1>2. CASE Body
  <2>1. CASE BodyQuiet
    BY <2>1, BodyQuietStep, QuietCore DEF IInv
  <2>2. CASE BodySubmits
    BY <2>2, BodySubmitsStep
  <2>3. CASE Spawn
    BY <2>3, SpawnsStep
  <2>4. CASE \E w \in WriteIdx : SubmitWBuffer(w)
    BY <2>4, SubmitWBufferStep
  <2>5. QED
    BY <1>2, <2>1, <2>2, <2>3, <2>4 DEF Body, BodyQuiet, BodySubmits
<1>3. CASE Poll
  <2>1. CASE PollQuietly
    BY <2>1, PollQuiet, QuietCore DEF IInv
  <2>2. CASE PollConnecting
    BY <2>2, PollConnectingStep
  <2>3. QED
    BY <1>3, <2>1, <2>2 DEF Poll, PollQuietly
<1>4. CASE KernelPost
  BY <1>4, KernelPostStep
<1>5. CASE UNCHANGED vars
  <2> USE DEF vars, loopVars, taskVars, ringVars, boundVars
  <2>1. \A j : SqesOf(j)' = SqesOf(j)
    BY <1>5 DEF SqesOf
  <2>2. TypeOK'
    BY <1>5 DEF IInv, TypeOK
  <2>3. RcExact' /\ Vacated' /\ Awaits'
    BY <1>5, <2>1 DEF IInv, Core, RcExact, Vacated, Awaits
  <2>4. Polled' /\ Nested' /\ Owers'
    BY <1>5 DEF IInv, Core, Polled, Nested, Owers
  <2>5. Fresh' /\ Queued' /\ Waiting' /\ Untasked' /\ Drained'
    BY <1>5 DEF IInv, Core, Fresh, Queued, Waiting, Untasked, Drained
  <2>6. QED
    BY <2>2, <2>3, <2>4, <2>5 DEF IInv, Core
<1>6. CASE Faults \/ BlockOnAgain
  BY <1>6, SubmitStep, SpawnsStep DEF Faults
<1>7. QED
  BY <1>1, <1>2, <1>3, <1>4, <1>5, <1>6 DEF Next, Terminated

(* The inductive invariant holds in every reachable state. *)
THEOREM Invariance == ASSUME FewTasks PROVE Spec => []IInv
<1>1. Init => IInv
  BY InitInv
<1>2. QED
  BY <1>1, NextInv, PTL DEF Spec

(* Type correctness: every variable of the runtime keeps its type, for every
   slab size and number of buffers and whatever the bodies do; in particular no
   syscall number leaves the range of a u16 and no buf_ring entry count or
   reference count goes below zero. *)
THEOREM TypeCorrect == ASSUME FewTasks PROVE Spec => []TypeOK
<1>1. IInv => TypeOK
  BY DEF IInv
<1>2. QED
  BY <1>1, Invariance, PTL

(* Reference counting is exact: Task::release never runs early and never too
   late, whichever way polls, spawns and completions interleave. *)
THEOREM CountsAreExact == ASSUME FewTasks PROVE Spec => []RcExact
<1>1. IInv => RcExact
  BY DEF IInv, Core
<1>2. QED
  BY <1>1, Invariance, PTL

(* The slab index in the user_data of a task's SQE is always that of the task
   that submitted it: for such a completion handle_cqe_entry never meets a
   vacant or reused slot.  The SQEs of WBuffer::submit, which have no task,
   are in the model and are not covered. *)
THEOREM OwnersStayLive == ASSUME FewTasks PROVE Spec => []SqeOwnerLive
<1>1. IInv => SqeOwnerLive
  <2> SUFFICES ASSUME IInv, NEW s \in TaskSqes PROVE s.task \in Idx /\ slot[s.task] = "live"
    BY DEF SqeOwnerLive
  <2>1. s \in sqes /\ s.op # "submit"
    BY DEF TaskSqes
  <2>2. s.task \in Idx /\ s \in SqesOf(s.task)
    BY <2>1 DEF IInv, Core, Untasked, SqesOf
  <2>3. QED
    BY <2>2 DEF IInv, Core, Vacated
<1>2. QED
  BY <1>1, Invariance, PTL

(* block_on never blocks in io_uring_enter without an SQE of a task in the
   kernel or its completion already queued: the writes of WBuffer::submit are
   not what it relies on. *)
THEOREM NoVainWait == ASSUME FewTasks PROVE Spec => []NeverWaitsForNothing
<1>1. IInv => NeverWaitsForNothing
  <2> SUFFICES ASSUME IInv PROVE NeverWaitsForNothing
    OBVIOUS
  <2>1. \A i \in Idx : slot[i] = "live" /\ owed[i] = 0 => SqesOf(i) # {}
    BY DEF IInv, Core, Awaits
  <2>2. ASSUME pc = "wait" PROVE TaskSqes \ pending # {}
    <3>1. PICK i \in Idx : slot[i] = "live"
      BY <2>2 DEF IInv, Core, Waiting
    <3>2. owed[i] \in 0 .. 2 /\ ~(owed[i] > 0)
      BY <2>2 DEF IInv, TypeOK, Core, Owers, Running
    <3>3. PICK s : s \in SqesOf(i)
      BY <2>1, <3>1, <3>2
    <3>4. s \in sqes /\ s.op # "submit"
      BY <3>3 DEF IInv, Core, Untasked, SqesOf
    <3>5. QED
      BY <2>2, <3>4 DEF IInv, Core, Waiting, TaskSqes
  <2>3. QED
    BY <2>1, <2>2 DEF NeverWaitsForNothing
<1>2. QED
  BY <1>1, Invariance, PTL

(* block_on returns with no dead task in the slab, and returns Ok only with
   no SQE of a task outstanding and no completion left unhandled.  A write of
   WBuffer::submit may be outstanding then. *)
THEOREM ReturnsLeaveNothing == ASSUME FewTasks PROVE Spec => []ReturnsClean
<1>1. IInv => ReturnsClean
  <2> SUFFICES ASSUME IInv PROVE ReturnsClean
    OBVIOUS
  <2>1. pc \in {"done", "error"} => \A i \in Idx : slot[i] # "dead"
    BY DEF IInv, Core, Waiting, IsRuntimeFree
  <2>2. ASSUME pc = "done" PROVE TaskSqes = {} /\ entries = <<>>
    <3>1. \A i \in Idx : SqesOf(i) = {}
      BY <2>2 DEF IInv, Core, Waiting, IsRuntimeFree, Vacated
    <3>2. TaskSqes = {}
      BY <3>1 DEF IInv, Core, Untasked, SqesOf, TaskSqes
    <3>3. QED
      BY <2>2, <3>2 DEF IInv, Core, Drained
  <2>3. QED
    BY <2>1, <2>2 DEF ReturnsClean
<1>2. QED
  BY <1>1, Invariance, PTL

=============================================================================
