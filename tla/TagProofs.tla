------------------------------ MODULE TagProofs ------------------------------
(***************************************************************************)
(* Tags, with streams, commits, fan-outs, WBuffer::submit and foreign      *)
(* futures: which completions reach which futures, and where the panics of *)
(* handle_cqe_entry and of the leaf futures come from.  The hypotheses are *)
(* FewTasks and RanksFit: no task is resumed from more single-shot         *)
(* operations than a rank can count (0x7fff in the code); a rank past the  *)
(* end of its range turns into the mask.                                   *)
(*                                                                         *)
(* The heart of the argument is Awaited: an SQE under the present rank of  *)
(* its task and without the mask is one that the task, suspended, awaits.  *)
(* A task that is being polled has none, so whatever its body does next    *)
(* leaves behind only SQEs that are stale, masked, or awaited.             *)
(***************************************************************************)
EXTENDS RuntimeProofs

(* No rank is at the end of its range. *)
RanksFit == \A i \in Idx : Rank(nb[i]) + 1 < MULTIPLE_MASK

(* The copies of a number agree: in the task, in CURRENT_TASK, in the contexts
   nested spawn() calls saved; no SQE is ahead of its task. *)
InStep ==
    /\ pc \in {"run", "leaf"} => current.nb = nb[current.task]
    /\ pc = "ret" => Rank(current.nb) = Rank(nb[current.task])
    /\ \A k \in DOMAIN stack : stack[k].task \in Idx => stack[k].nb = nb[stack[k].task]
    /\ \A s \in TaskSqes : Rank(s.nb) <= Rank(nb[s.task])

(* A task is in multiple mode, or awaits a multishot operation, only once it
   has polled a stream. *)
StreamsOnly ==
    /\ \A i \in Idx : slot[i] = "live" /\ IsMultiple(nb[i]) => Streams(i)
    /\ \A i \in Idx : fut[i].leaf \in Multishot => Streams(i)

(* A masked SQE of the present rank is that of a stream, or of a commit. *)
Masked ==
    \A s \in TaskSqes : Rank(s.nb) = Rank(nb[s.task]) /\ IsMultiple(s.nb) /\ s.op # "commit"
                        => IsMultiple(nb[s.task])

Expected(s) == Rank(s.nb) = Rank(nb[s.task]) /\ ~IsMultiple(s.nb)

(* What leaf future f of a task waits for. *)
Awaits1(f, op, gen) == op = f.leaf /\ (op = "write_multiple" => gen \in f.left)

Awaited ==
    pc # "panic" =>
        \A s \in TaskSqes : Expected(s) => /\ ~Polling(s.task) /\ ~IsMultiple(nb[s.task])
                                           /\ Awaits1(fut[s.task], s.op, s.gen)

(* The completion a poll hands to a leaf future. *)
Handed ==
    pc = "leaf" => /\ current.op \in Op
                   /\ ~IsMultiple(current.nb) => Awaits1(Me, current.op, current.gen)

(* A receive that succeeds has its buffer. *)
HasBuffer(op, res, b) == op \in Receives /\ res = "pos" => b # NoBuf

Received ==
    /\ \A k \in DOMAIN entries : HasBuffer(entries[k].sqe.op, entries[k].res, entries[k].buf)
    /\ pc = "leaf" => HasBuffer(current.op, current.res, current.buf)

Faulted == fault # "none" <=> pc = "panic"

Tags == InStep /\ StreamsOnly /\ Masked /\ Awaited /\ Handed /\ Received /\ Faulted

-----------------------------------------------------------------------------
(***************************************************************************)
(* Numbers.                                                                *)
(***************************************************************************)

(* The mask leaves the rank. *)
LEMMA MaskFacts ==
    ASSUME NEW n \in SyscallNumber
    PROVE  Rank(SetMultiple(n)) = Rank(n) /\ IsMultiple(SetMultiple(n))
<1>1. /\ Rank(n) \in 0 .. MULTIPLE_MASK - 1 /\ MULTIPLE_MASK \in Nat
      /\ SetMultiple(n) \in SyscallNumber
  BY RankFacts, NumberType, MaskAssumption
<1>2. SetMultiple(n) = Rank(n) + MULTIPLE_MASK
  BY DEF SetMultiple
<1>3. IsMultiple(SetMultiple(n))
  BY <1>1, <1>2 DEF IsMultiple
<1>4. Rank(SetMultiple(n)) = SetMultiple(n) - MULTIPLE_MASK
  BY <1>1, <1>3, RankFacts
<1>5. QED
  BY <1>1, <1>2, <1>3, <1>4

(* Within the range the two increments agree and advance the rank. *)
LEMMA NextRank ==
    ASSUME NEW n \in SyscallNumber, Rank(n) + 1 < MULTIPLE_MASK
    PROVE  /\ Rank(augmente_syscall_nb(n)) = Rank(n) + 1
           /\ ~IsMultiple(augmente_syscall_nb(n))
           /\ TagAugmente(n) = augmente_syscall_nb(n)
<1>1. /\ Rank(n) \in 0 .. MULTIPLE_MASK - 1 /\ MULTIPLE_MASK \in Nat
      /\ Rank(n) + 1 \in SyscallNumber
  BY RankFacts, NumberType, MaskAssumption DEF augmente_syscall_nb
<1>2. ~IsMultiple(Rank(n) + 1)
  BY <1>1 DEF IsMultiple
<1>3. Rank(Rank(n) + 1) = Rank(n) + 1
  BY <1>1, <1>2, RankFacts
<1>4. TagAugmente(n) = Rank(n) + 1
  BY <1>3 DEF TagAugmente, Rank
<1>5. QED
  BY <1>2, <1>3, <1>4 DEF augmente_syscall_nb

(* The number of an outstanding SQE of a task and the one of the task. *)
LEMMA SqeNumber ==
    ASSUME IInv, NEW s \in TaskSqes
    PROVE  /\ s.task \in Idx /\ s.nb \in SyscallNumber /\ nb[s.task] \in SyscallNumber
           /\ Rank(s.nb) \in Nat /\ Rank(nb[s.task]) \in Nat /\ slot[s.task] = "live"
<1>0. s \in sqes /\ s.op # "submit"
  BY DEF TaskSqes
<1>1. s.task \in Idx /\ s.nb \in SyscallNumber /\ nb[s.task] \in SyscallNumber
  BY <1>0 DEF IInv, TypeOK, Core, Untasked, Sqe
<1>2. s \in SqesOf(s.task)
  BY <1>0 DEF SqesOf
<1>3. slot[s.task] = "live"
  BY <1>1, <1>2 DEF IInv, Core, Vacated
<1>4. Rank(s.nb) \in Nat /\ Rank(nb[s.task]) \in Nat
  BY <1>1, RankFacts
<1>5. QED
  BY <1>1, <1>3, <1>4

-----------------------------------------------------------------------------
(***************************************************************************)
(* Steps of a body or of a leaf future that keep the rank of their task.   *)
(***************************************************************************)

(* Task i, polled, submits the SQEs of new; it goes on only if there is none. *)
Acts(i, new) ==
    /\ pc \in {"run", "leaf"} /\ pc' \in {"run", "ret"} /\ (new # {} => pc' = "ret")
    /\ current'.task = i /\ Rank(current'.nb) = Rank(current.nb)
    /\ pc' = "run" => current'.nb = current.nb /\ nb'[i] = nb[i]
    /\ \A j \in Idx : j # i => nb'[j] = nb[j] /\ fut'[j] = fut[j]
    /\ Rank(nb'[i]) = Rank(nb[i]) /\ (IsMultiple(nb[i]) => IsMultiple(nb'[i]))
    /\ IsMultiple(nb'[i]) => IsMultiple(nb[i]) \/ Streams(i)'
    /\ Streams(i) \/ fut'[i].leaf \in Multishot => Streams(i)'
    /\ TaskSqes' = TaskSqes \cup new
    /\ \A s \in new :
          /\ s.task = i /\ Rank(s.nb) = Rank(nb[i])
          /\ ~IsMultiple(s.nb) => ~IsMultiple(nb'[i]) /\ Awaits1(fut'[i], s.op, s.gen)
          /\ IsMultiple(s.nb) /\ s.op # "commit" => IsMultiple(nb'[i])
    /\ UNCHANGED <<fault, stack, slot, owed, entries>>

(* What the task has left outstanding is not what it will be resumed by. *)
LEMMA ActsStep ==
    ASSUME IInv, Tags, NEW i, i = current.task, NEW new, Acts(i, new)
    PROVE  Tags'
<1> USE DEF Acts
<1>0. /\ i \in Idx /\ slot[i] = "live" /\ owed[i] > 0 /\ nb[i] \in SyscallNumber
      /\ current.nb = nb[i] /\ pc \in Running
  BY CurrentLive DEF Running, Tags, InStep
<1>1. \A j \in Idx : Rank(nb'[j]) = Rank(nb[j]) /\ (IsMultiple(nb[j]) => IsMultiple(nb'[j]))
  OBVIOUS
<1>2. \A s \in TaskSqes : s.task \in Idx
  BY SqeNumber
<1>3. Rank(nb[i]) \in Nat
  BY <1>0, RankFacts
<1>4. InStep'
  <2>1. \A k \in DOMAIN stack : stack[k].task \in Idx => stack[k].task # i
    BY <1>0 DEF IInv, Core, Nested
  <2>2. \A k \in DOMAIN stack : stack[k].task \in Idx => stack[k].nb = nb'[stack[k].task]
    BY <2>1 DEF Tags, InStep
  <2>3. \A s \in TaskSqes' : Rank(s.nb) <= Rank(nb'[s.task])
    BY <1>0, <1>1, <1>2, <1>3 DEF Tags, InStep
  <2>4. /\ pc' \in {"run", "leaf"} => current'.nb = nb'[current'.task]
        /\ pc' = "ret" => Rank(current'.nb) = Rank(nb'[current'.task])
    BY <1>0
  <2>5. QED
    BY <2>2, <2>3, <2>4 DEF InStep
<1>5. StreamsOnly'
  <2>1. \A j \in Idx : (Streams(j) => Streams(j)') /\ (fut'[j].leaf \in Multishot => Streams(j)')
    BY DEF Tags, StreamsOnly, Streams
  <2>2. \A j \in Idx : slot'[j] = "live" /\ IsMultiple(nb'[j]) => Streams(j)'
    BY <2>1 DEF Tags, StreamsOnly
  <2>3. QED
    BY <2>1, <2>2 DEF StreamsOnly
<1>6. Masked'
  BY <1>1, <1>2 DEF Tags, Masked
<1>7. Awaited'
  <2> SUFFICES ASSUME NEW s \in TaskSqes', Expected(s)'
               PROVE  /\ ~Polling(s.task)' /\ ~IsMultiple(nb'[s.task])
                      /\ Awaits1(fut'[s.task], s.op, s.gen)
    BY DEF Awaited, Awaits1
  <2>1. CASE s \in new
    BY <2>1 DEF Expected, Polling
  <2>2. CASE s \in TaskSqes
    <3>1. Expected(s) /\ s.task \in Idx
      BY <1>1, <1>2, <2>2 DEF Expected
    <3>2. /\ ~Polling(s.task) /\ ~IsMultiple(nb[s.task])
          /\ Awaits1(fut[s.task], s.op, s.gen)
      BY <2>2, <3>1 DEF Tags, Awaited
    <3>3. s.task # i /\ ~(owed[s.task] > 0)
      BY <1>0, <3>2 DEF Polling
    <3>4. QED
      BY <3>1, <3>2, <3>3 DEF Polling
  <2>3. QED
    BY <2>1, <2>2
<1>8. Handed' /\ Faulted'
  BY DEF Tags, Handed, Faulted
<1>9. Received'
  BY DEF Tags, Received
<1>10. QED
  BY <1>4, <1>5, <1>6, <1>7, <1>8, <1>9 DEF Tags

(* Only the future of task i is written, its leaf is l then, and a stream that
   has been polled is not back in its initial state. *)
Keeps(i, l) ==
    /\ \A j \in Idx : j # i => fut'[j] = fut[j]
    /\ fut'[i].leaf = l /\ (Streams(i) => Streams(i)')

(* The writes of the leaf futures and of the body to the task's future. *)
LEMMA Writes ==
    ASSUME fut \in [Idx -> Future], NEW i \in Idx, NEW l, NEW h, NEW c, NEW a, NEW d
    PROVE  /\ fut' = fut => Keeps(i, fut[i].leaf)
           /\ fut' = [fut EXCEPT ![i].held = h] => Keeps(i, fut[i].leaf)
           /\ fut' = [fut EXCEPT ![i].left = h] =>
                 Keeps(i, fut[i].leaf) /\ fut'[i].left = h
           /\ fut' = [fut EXCEPT ![i].leaf = l] => Keeps(i, l)
           /\ fut' = [fut EXCEPT ![i].leaf = l, ![i].held = h] => Keeps(i, l)
           /\ fut' = [fut EXCEPT ![i].leaf = l, ![i].cbuf = c] => Keeps(i, l)
           /\ fut' = [fut EXCEPT ![i].leaf = l, ![i].fd = d] => Keeps(i, l)
           /\ fut' = [fut EXCEPT ![i].leaf = l, ![i].left = h] =>
                 Keeps(i, l) /\ fut'[i].left = h
           /\ fut' = [fut EXCEPT ![i].leaf = l, ![i].held = h, ![i].cbuf = c] => Keeps(i, l)
           /\ fut' = [fut EXCEPT ![i].leaf = l, ![i].astream = a]
                 /\ (a # "Init" \/ a = fut[i].astream) =>
                 Keeps(i, l) /\ (a # "Init" => Streams(i)')
           /\ fut' = [fut EXCEPT ![i].leaf = l, ![i].rstream = a]
                 /\ (a # "Init" \/ a = fut[i].rstream) =>
                 Keeps(i, l) /\ (a # "Init" => Streams(i)')
           /\ fut' = [fut EXCEPT ![i].leaf = l, ![i].held = h, ![i].rstream = a]
                 /\ (a # "Init" \/ a = fut[i].rstream) => Keeps(i, l)
<1>1. fut[i] \in Future
  OBVIOUS
<1> USE DEF Keeps, Streams
<1>2. fut' = fut => Keeps(i, fut[i].leaf)
  OBVIOUS
<1>3. fut' = [fut EXCEPT ![i].held = h] => Keeps(i, fut[i].leaf)
  BY <1>1 DEF Future
<1>4. fut' = [fut EXCEPT ![i].left = h] => Keeps(i, fut[i].leaf) /\ fut'[i].left = h
  BY <1>1 DEF Future
<1>5. fut' = [fut EXCEPT ![i].leaf = l] => Keeps(i, l)
  BY <1>1 DEF Future
<1>6. fut' = [fut EXCEPT ![i].leaf = l, ![i].held = h] => Keeps(i, l)
  BY <1>1 DEF Future
<1>7. fut' = [fut EXCEPT ![i].leaf = l, ![i].cbuf = c] => Keeps(i, l)
  BY <1>1 DEF Future
<1>8. fut' = [fut EXCEPT ![i].leaf = l, ![i].fd = d] => Keeps(i, l)
  BY <1>1 DEF Future
<1>9. fut' = [fut EXCEPT ![i].leaf = l, ![i].left = h] => Keeps(i, l) /\ fut'[i].left = h
  BY <1>1 DEF Future
<1>10. fut' = [fut EXCEPT ![i].leaf = l, ![i].held = h, ![i].cbuf = c] => Keeps(i, l)
  BY <1>1 DEF Future
<1>11. fut' = [fut EXCEPT ![i].leaf = l, ![i].astream = a]
          /\ (a # "Init" \/ a = fut[i].astream) => Keeps(i, l) /\ (a # "Init" => Streams(i)')
  BY <1>1 DEF Future
<1>12. fut' = [fut EXCEPT ![i].leaf = l, ![i].rstream = a]
          /\ (a # "Init" \/ a = fut[i].rstream) => Keeps(i, l) /\ (a # "Init" => Streams(i)')
  BY <1>1 DEF Future
<1>13. fut' = [fut EXCEPT ![i].leaf = l, ![i].held = h, ![i].rstream = a]
          /\ (a # "Init" \/ a = fut[i].rstream) => Keeps(i, l)
  BY <1>1 DEF Future
<1>14. QED
  BY <1>2, <1>3, <1>4, <1>5, <1>6, <1>7, <1>8, <1>9, <1>10, <1>11, <1>12, <1>13

(* Steps that submit nothing. *)
LEMMA ActsQuietly ==
    ASSUME IInv, Tags, NEW i, i = current.task, pc \in {"run", "leaf"}, pc' \in {"run", "ret"},
           NEW l, Keeps(i, l), l \in Multishot => Streams(i),
           TaskSqes' = TaskSqes, UNCHANGED <<current, nb, fault, stack, slot, owed, entries>>
    PROVE  Tags'
<1>1. Acts(i, {})
  BY DEF Acts, Keeps
<1>2. QED
  BY <1>1, ActsStep

(* A stream polled in state Running. *)
LEMMA StreamKeeps ==
    ASSUME IInv, NEW i \in Idx, i = current.task, pc' # "panic",
           AcceptStreamRunning \/ ReadStreamRunning
    PROVE  Keeps(i, "none") /\ pc' = "run" /\ fault' = fault
<1>1. fut \in [Idx -> Future]
  BY DEF IInv, TypeOK
<1>d. PICK d, b, l : d = "Done" /\ b = current.buf /\ l = "none"
  OBVIOUS
<1>2. CASE AcceptStreamRunning
  <2>1. PICK a : /\ fut' = [fut EXCEPT ![i].leaf = l, ![i].astream = a]
                 /\ a # "Init" \/ a = fut[i].astream
    <3>1. CASE current.res = "neg" \/ ~current.more
      <4>1. fut' = [fut EXCEPT ![i].leaf = l, ![i].astream = d] /\ d # "Init"
        BY <1>d, <1>2, <3>1 DEF AcceptStreamRunning
      <4>2. QED
        BY <4>1
    <3>2. CASE ~(current.res = "neg" \/ ~current.more)
      BY <1>d, <1>2, <3>2 DEF AcceptStreamRunning
    <3>3. QED
      BY <3>1, <3>2
  <2>2. Keeps(i, l)
    BY <1>1, <2>1, Writes
  <2>3. QED
    BY <1>d, <1>2, <2>2 DEF AcceptStreamRunning
<1>3. CASE ReadStreamRunning
  <2>1. CASE current.res = "neg"
    <3>1. fut' = [fut EXCEPT ![i].leaf = l, ![i].rstream = d]
      BY <1>d, <1>3, <2>1 DEF ReadStreamRunning
    <3>2. Keeps(i, l)
      <4>1. d # "Init"
        BY <1>d
      <4>2. QED
        BY <1>1, <3>1, <4>1, Writes
    <3>3. QED
      BY <1>d, <1>3, <2>1, <3>2 DEF ReadStreamRunning
  <2>2. CASE current.res # "neg"
    <3>1. current.buf # NoBuf
      BY <1>3, <2>2 DEF ReadStreamRunning
    <3>2. PICK a : /\ fut' = [fut EXCEPT ![i].leaf = l, ![i].held = b,
                                         ![i].rstream = a]
                   /\ a # "Init" \/ a = fut[i].rstream
      <4>1. CASE current.more
        BY <1>d, <1>3, <2>2, <3>1, <4>1 DEF ReadStreamRunning
      <4>2. CASE ~current.more
        <5>1. /\ fut' = [fut EXCEPT ![i].leaf = l, ![i].held = b, ![i].rstream = d]
              /\ d # "Init"
          BY <1>d, <1>3, <2>2, <3>1, <4>2 DEF ReadStreamRunning
        <5>2. QED
          BY <5>1
      <4>3. QED
        BY <4>1, <4>2
    <3>3. Keeps(i, l)
      BY <1>1, <3>2, Writes
    <3>4. QED
      BY <1>d, <1>3, <2>2, <3>1, <3>3 DEF ReadStreamRunning
  <2>3. QED
    BY <2>1, <2>2
<1>4. QED
  BY <1>2, <1>3

(* Bodies that go on without an operation they await, or with a stream that
   has an item; futures that are Ready; foreign futures, and fan-outs with
   writes left. *)
Quietly ==
    \/ DropBuffer \/ Complete \/ AwaitForeign \/ AcceptStreamNext \/ ReadStreamNext
    \/ PollAccept \/ PollWrite \/ PollConnected \/ PollRead \/ PollCommit
    \/ PollAcceptStream \/ PollReadStream \/ PollForeign \/ PollForeignReady
    \/ \E w \in WriteIdx : SubmitWBuffer(w)
    \/ PollWriteMultiple /\ Me.left # {current.gen}

(* They keep every tag. *)
LEMMA QuietlyStep == ASSUME IInv, Tags, Quietly, pc' # "panic" PROVE Tags'
<1> USE DEF loopVars, taskVars, ringVars, boundVars
<1>0. pc \in {"run", "leaf"}
  BY DEF Quietly, DropBuffer, Complete, AwaitForeign, AcceptStreamNext, ReadStreamNext, Start,
         PollAccept, PollWrite, PollConnected, PollRead, PollCommit, PollAcceptStream,
         PollReadStream, PollForeign, PollForeignReady, PollWriteMultiple, PollLeaf,
         SubmitWBuffer
<1>1. PICK i : i = current.task
  OBVIOUS
<1>2. i \in Idx /\ fut \in [Idx -> Future]
  BY <1>0, <1>1, CurrentLive DEF Running, IInv, TypeOK
<1>3. fut[i].leaf \in Multishot => Streams(i)
  BY <1>2 DEF Tags, StreamsOnly
<1>4. \A l \in {"none", "complete", "foreign"} : l \notin Multishot
  BY DEF Multishot
<1> DEFINE Goal == /\ pc' \in {"run", "ret"}
                   /\ \E l : Keeps(i, l) /\ (l \in Multishot => Streams(i))
                   /\ UNCHANGED <<current, nb, sqes, fault, stack, slot, owed, entries>>
<1>5. Goal => Tags'
  <2>1. UNCHANGED sqes => TaskSqes' = TaskSqes
    BY DEF TaskSqes
  <2>2. QED
    BY <1>0, <1>1, <2>1, ActsQuietly
<1>6. CASE DropBuffer
  <2>1. fut' = [fut EXCEPT ![i].held = NoBuf]
    BY <1>1, <1>6 DEF DropBuffer
  <2>2. Keeps(i, fut[i].leaf)
    BY <1>2, <2>1, Writes
  <2>3. pc' = "run" /\ UNCHANGED <<current, nb, sqes, fault, stack, slot, owed, entries>>
    BY <1>6 DEF DropBuffer
  <2>4. QED
    BY <1>3, <1>5, <2>2, <2>3
<1>7. CASE Complete
  <2>1. fut' = [fut EXCEPT ![i].leaf = "complete", ![i].held = NoBuf]
    BY <1>1, <1>7 DEF Complete
  <2>2. Keeps(i, "complete")
    BY <1>2, <2>1, Writes
  <2>3. pc' = "ret" /\ UNCHANGED <<current, nb, sqes, fault, stack, slot, owed, entries>>
    BY <1>7 DEF Complete
  <2>4. QED
    BY <1>4, <1>5, <2>2, <2>3
<1>8. CASE AwaitForeign
  <2>1. fut' = [fut EXCEPT ![i].leaf = "foreign"]
    BY <1>1, <1>8 DEF AwaitForeign
  <2>2. Keeps(i, "foreign")
    BY <1>2, <2>1, Writes
  <2>3. pc' = "ret" /\ UNCHANGED <<current, nb, sqes, fault, stack, slot, owed, entries>>
    BY <1>8 DEF AwaitForeign
  <2>4. QED
    BY <1>4, <1>5, <2>2, <2>3
<1>9. CASE AcceptStreamNext \/ ReadStreamNext
  <2>1. /\ UNCHANGED <<current, nb, sqes, stack, slot, owed, entries>>
        /\ AcceptStreamRunning \/ ReadStreamRunning \/ UNCHANGED <<pc, fault, fut>>
        /\ pc = "run"
    BY <1>9 DEF AcceptStreamNext, ReadStreamNext, Start
  <2>2. CASE AcceptStreamRunning \/ ReadStreamRunning
    BY <1>1, <1>2, <1>4, <1>5, <2>1, <2>2, StreamKeeps
  <2>3. CASE UNCHANGED <<pc, fault, fut>>
    <3>1. Keeps(i, fut[i].leaf)
      BY <1>2, <2>3, Writes
    <3>2. QED
      BY <1>3, <1>5, <2>1, <2>3, <3>1
  <2>4. QED
    BY <2>1, <2>2, <2>3
<1>10. CASE PollAccept \/ PollWrite \/ PollForeignReady
  <2>1. fut' = [fut EXCEPT ![i].leaf = "none"]
    BY <1>1, <1>10 DEF PollAccept, PollWrite, PollForeignReady, Resolve
  <2>2. Keeps(i, "none")
    BY <1>2, <2>1, Writes
  <2>3. pc' = "run" /\ UNCHANGED <<current, nb, sqes, fault, stack, slot, owed, entries>>
    BY <1>10 DEF PollAccept, PollWrite, PollForeignReady, Resolve
  <2>4. QED
    BY <1>4, <1>5, <2>2, <2>3
<1>11. CASE PollConnected
  <2>1. fut' = [fut EXCEPT ![i].leaf = "none", ![i].fd = "zero"]
    BY <1>1, <1>11 DEF PollConnected
  <2>2. Keeps(i, "none")
    BY <1>2, <2>1, Writes
  <2>3. pc' = "run" /\ UNCHANGED <<current, nb, sqes, fault, stack, slot, owed, entries>>
    BY <1>11 DEF PollConnected
  <2>4. QED
    BY <1>4, <1>5, <2>2, <2>3
<1>12. CASE PollRead
  <2>1. \/ fut' = [fut EXCEPT ![i].leaf = "none", ![i].held = current.buf]
        \/ fut' = [fut EXCEPT ![i].leaf = "none"]
    BY <1>1, <1>12 DEF PollRead
  <2>2. Keeps(i, "none")
    BY <1>2, <2>1, Writes
  <2>3. pc' = "run" /\ UNCHANGED <<current, nb, sqes, fault, stack, slot, owed, entries>>
    BY <1>12 DEF PollRead
  <2>4. QED
    BY <1>4, <1>5, <2>2, <2>3
<1>13. CASE PollCommit
  <2>1. fut' = [fut EXCEPT ![i].leaf = "none", ![i].cbuf = NoBuf]
    BY <1>1, <1>13 DEF PollCommit
  <2>2. Keeps(i, "none")
    BY <1>2, <2>1, Writes
  <2>3. pc' = "run" /\ UNCHANGED <<current, nb, sqes, fault, stack, slot, owed, entries>>
    BY <1>13 DEF PollCommit
  <2>4. QED
    BY <1>4, <1>5, <2>2, <2>3
<1>14. CASE PollAcceptStream \/ PollReadStream
  <2>1. /\ UNCHANGED <<current, nb, sqes, stack, slot, owed, entries>>
        /\ AcceptStreamRunning \/ ReadStreamRunning
    BY <1>14 DEF PollAcceptStream, PollReadStream
  <2>2. QED
    BY <1>1, <1>2, <1>4, <1>5, <2>1, StreamKeeps
<1>15. CASE PollForeign
  <2>1. fut' = fut /\ pc' = "ret"
        /\ UNCHANGED <<current, nb, sqes, fault, stack, slot, owed, entries>>
    BY <1>15 DEF PollForeign
  <2>2. Keeps(i, fut[i].leaf)
    BY <1>2, <2>1, Writes
  <2>3. QED
    BY <1>3, <1>5, <2>1, <2>2
<1>16. CASE PollWriteMultiple /\ Me.left # {current.gen}
  <2>1. current.gen \in Me.left /\ Me.left \ {current.gen} # {}
    BY <1>16 DEF PollWriteMultiple
  <2>2. /\ fut' = [fut EXCEPT ![i].left = Me.left \ {current.gen}] /\ pc' = "ret"
        /\ UNCHANGED <<current, nb, sqes, fault, stack, slot, owed, entries>>
    BY <1>1, <1>16, <2>1 DEF PollWriteMultiple
  <2>3. Keeps(i, fut[i].leaf)
    BY <1>2, <2>2, Writes
  <2>4. QED
    BY <1>3, <1>5, <2>2, <2>3
<1>17. ASSUME NEW w \in WriteIdx, SubmitWBuffer(w) PROVE Tags'
  <2>1. /\ sqes' = sqes \cup {InternalSqe(w)} /\ pc' = pc /\ fut' = fut
        /\ UNCHANGED <<current, nb, fault, stack, slot, owed, entries>>
    BY <1>17 DEF SubmitWBuffer
  <2>2. InternalSqe(w).op = "submit"
    BY DEF InternalSqe
  <2>3. TaskSqes' = TaskSqes
    BY <2>1, <2>2 DEF TaskSqes
  <2>4. Keeps(i, fut[i].leaf)
    BY <1>2, <2>1, Writes
  <2>5. pc' \in {"run", "ret"}
    BY <1>17, <2>1 DEF SubmitWBuffer, Start
  <2>6. QED
    BY <1>0, <1>1, <1>3, <2>1, <2>3, <2>4, <2>5, ActsQuietly
<1>18. QED
  BY <1>6, <1>7, <1>8, <1>9, <1>10, <1>11, <1>12, <1>13, <1>14, <1>15, <1>16, <1>17 DEF Quietly

(* The SQE of a send_*. *)
LEMMA OneSent ==
    ASSUME NEW op, op # "submit", NEW n, NEW b, Send(op, n, b)
    PROVE  \E s : /\ s.task = current.task /\ s.nb = n /\ s.op = op
                  /\ TaskSqes' = TaskSqes \cup {s}
<1> DEFINE s == MakeSqe(sqe_seq, n, current.gen, op, b)
<1>1. s.task = current.task /\ s.nb = n /\ s.op = op
  BY DEF MakeSqe
<1>2. sqes' = sqes \cup {s}
  BY DEF Send
<1> HIDE DEF s
<1>3. TaskSqes' = TaskSqes \cup {s}
  BY <1>1, <1>2 DEF TaskSqes
<1>4. QED
  BY <1>1, <1>3

(* A single-shot operation: under the number of the task, masked or not. *)
LEMMA SendsSingle ==
    ASSUME IInv, Tags, NEW i, i = current.task, pc \in {"run", "leaf"}, pc' = "ret",
           NEW op, op \notin Multishot \cup {"write_multiple", "commit", "submit"}, SendSingle(op),
           Keeps(i, op), UNCHANGED <<fault, stack, slot, owed, entries>>
    PROVE  Tags'
<1>1. current' = current /\ nb' = nb /\ Send(op, current.nb, NoBuf)
  BY DEF SendSingle
<1>2. PICK s : /\ s.task = i /\ s.nb = current.nb /\ s.op = op
               /\ TaskSqes' = TaskSqes \cup {s}
  BY <1>1, OneSent
<1>3. current.nb = nb[i]
  BY DEF Tags, InStep
<1>4. ~IsMultiple(s.nb) => ~IsMultiple(nb'[i]) /\ Awaits1(fut'[i], s.op, s.gen)
  BY <1>1, <1>2, <1>3 DEF Awaits1, Keeps
<1>5. Acts(i, {s})
  BY <1>1, <1>2, <1>3, <1>4 DEF Acts, Keeps
<1>6. QED
  BY <1>5, ActsStep

(* A multishot operation puts the task in multiple mode. *)
LEMMA SendsMultishot ==
    ASSUME IInv, Tags, NEW i, i = current.task, pc = "run", pc' = "ret",
           NEW op \in Multishot, SendMultishot(op),
           Keeps(i, op), Streams(i)', UNCHANGED <<fault, stack, slot, owed, entries>>
    PROVE  Tags'
<1>0. i \in Idx /\ nb \in [Idx -> SyscallNumber] /\ current.nb = nb[i] /\ current \in TaskInfo
  BY CurrentLive DEF Running, IInv, TypeOK, Tags, InStep
<1>1. PICK m : m = SetMultiple(nb[i])
  OBVIOUS
<1>2. /\ current' = [current EXCEPT !.nb = m] /\ nb' = [nb EXCEPT ![i] = m]
      /\ Send(op, m, NoBuf)
  BY <1>0, <1>1 DEF SendMultishot
<1>3. PICK s : s.task = i /\ s.nb = m /\ s.op = op /\ TaskSqes' = TaskSqes \cup {s}
  <2>1. op # "submit"
    BY DEF Multishot
  <2>2. QED
    BY <1>2, <2>1, OneSent
<1>4. Rank(m) = Rank(nb[i]) /\ IsMultiple(m)
  BY <1>0, <1>1, MaskFacts
<1>5. /\ current'.task = i /\ current'.nb = m /\ nb'[i] = m
      /\ \A j \in Idx : j # i => nb'[j] = nb[j]
  BY <1>0, <1>2 DEF TaskInfo
<1>6. Acts(i, {s})
  BY <1>0, <1>3, <1>4, <1>5 DEF Acts, Keeps
<1>7. QED
  BY <1>6, ActsStep

(* A commit masks its SQE and the tag in CURRENT_TASK, not the task. *)
LEMMA CommitTags == ASSUME IInv, Tags, Commit PROVE Tags'
<1>0. PICK i \in Idx : i = current.task /\ nb[i] \in SyscallNumber /\ current.nb = nb[i]
  BY CurrentLive DEF Commit, Start, Running, Tags, InStep
<1>1. /\ fut \in [Idx -> Future] /\ current \in TaskInfo /\ pc = "run" /\ pc' = "ret"
      /\ UNCHANGED <<nb, fault, stack, slot, owed, entries>>
  BY DEF IInv, TypeOK, Commit, Start, SendCommit
<1>2. PICK m, b, l, h : m = SetMultiple(nb[i]) /\ b = Me.held /\ l = "commit" /\ h = NoBuf
  OBVIOUS
<1>3. current' = [current EXCEPT !.nb = m] /\ Send("commit", m, b)
  BY <1>0, <1>2 DEF Commit, SendCommit
<1>4. PICK s : s.task = i /\ s.nb = m /\ s.op = "commit" /\ TaskSqes' = TaskSqes \cup {s}
  BY <1>0, <1>3, OneSent
<1>5. Rank(m) = Rank(nb[i]) /\ IsMultiple(m)
  BY <1>0, <1>2, MaskFacts
<1>6. fut' = [fut EXCEPT ![i].leaf = l, ![i].held = h, ![i].cbuf = b]
  BY <1>0, <1>2 DEF Commit, Me
<1>7. Keeps(i, "commit")
  BY <1>1, <1>2, <1>6, Writes
<1>8. current'.task = i /\ current'.nb = m
  BY <1>0, <1>1, <1>3 DEF TaskInfo
<1>9. Acts(i, {s})
  BY <1>0, <1>1, <1>4, <1>5, <1>7, <1>8 DEF Acts, Keeps, Multishot
<1>10. QED
  BY <1>0, <1>9, ActsStep

(* A fan-out awaits the generations it has submitted. *)
LEMMA WriteMultipleTags ==
    ASSUME IInv, Tags, NEW n \in FanOut, WriteMultiple(n)
    PROVE  Tags'
<1>0. PICK i \in Idx : i = current.task /\ current.nb = nb[i]
  BY CurrentLive DEF WriteMultiple, Start, Running, Tags, InStep
<1>1. /\ fut \in [Idx -> Future] /\ pc = "run" /\ pc' = "ret" /\ SendFanOut(n)
      /\ UNCHANGED <<current, nb, fault, stack, slot, owed, entries>>
  BY DEF IInv, TypeOK, WriteMultiple, Start, SendFanOut
<1>2. PICK l, w : l = "write_multiple" /\ w = 0 .. n - 1
  OBVIOUS
<1>3. fut' = [fut EXCEPT ![i].leaf = l, ![i].left = w]
  BY <1>0, <1>2 DEF WriteMultiple
<1>4. Keeps(i, l) /\ fut'[i].left = w
  BY <1>1, <1>3, Writes
<1> DEFINE f(k) == MakeSqe(sqe_seq + k, current.nb, k, "write_multiple", NoBuf)
           new == {f(k) : k \in 0 .. n - 1}
<1>5. sqes' = sqes \cup new
  BY <1>1 DEF SendFanOut
<1>6. \A k : f(k).task = i /\ f(k).nb = nb[i] /\ f(k).gen = k /\ f(k).op = "write_multiple"
  BY <1>0 DEF MakeSqe
<1> HIDE DEF f
<1>7. \A s \in new : s.task = i /\ s.nb = nb[i] /\ s.gen \in w /\ s.op = l
  BY <1>2, <1>6
<1> HIDE DEF new
<1>8. \A s \in new : Awaits1(fut'[i], s.op, s.gen)
  BY <1>4, <1>7 DEF Awaits1, Keeps
<1>a. TaskSqes' = TaskSqes \cup new
  BY <1>2, <1>5, <1>7 DEF TaskSqes
<1>9. Acts(i, new)
  BY <1>0, <1>1, <1>2, <1>4, <1>7, <1>8, <1>a DEF Acts, Keeps, Multishot
<1>10. QED
  BY <1>0, <1>9, ActsStep

(* The steps of a task that submit. *)
Sending ==
    \/ Accept \/ Write \/ Connect \/ Read \/ PollConnecting
    \/ AcceptStreamInit \/ ReadStreamInit \/ Commit \/ \E n \in FanOut : WriteMultiple(n)

(* They keep every tag. *)
LEMMA SendingStep == ASSUME IInv, Tags, Sending PROVE Tags'
<1>0. pc \in {"run", "leaf"}
  BY DEF Sending, Accept, Write, Connect, Read, PollConnecting, AcceptStreamInit,
         ReadStreamInit, Commit, WriteMultiple, Start, PollLeaf
<1>1. PICK i : i = current.task
  OBVIOUS
<1>2. i \in Idx /\ fut \in [Idx -> Future]
  BY <1>0, <1>1, CurrentLive DEF Running, IInv, TypeOK
<1>3. ASSUME NEW op \in {"accept", "write", "socket", "read"}, pc = "run", Submit(op)
      PROVE  Tags'
  <2>1. fut' = [fut EXCEPT ![i].leaf = op]
    BY <1>1, <1>3 DEF Submit
  <2>2. Keeps(i, op)
    BY <1>2, <2>1, Writes
  <2>3. op \notin Multishot \cup {"write_multiple", "commit", "submit"}
    BY DEF Multishot
  <2>4. SendSingle(op) /\ pc' = "ret" /\ UNCHANGED <<fault, stack, slot, owed, entries>>
    BY <1>3 DEF Submit
  <2>5. QED
    BY <1>0, <1>1, <2>2, <2>3, <2>4, SendsSingle
<1>4. CASE Accept \/ Write \/ Connect \/ Read
  BY <1>3, <1>4 DEF Accept, Write, Connect, Read, Start
<1>5. CASE PollConnecting
  <2>1. PICK op, d : op = "connect" /\ d = current.res
    OBVIOUS
  <2>2. fut' = [fut EXCEPT ![i].leaf = op, ![i].fd = d]
    BY <1>1, <1>5, <2>1 DEF PollConnecting
  <2>3. Keeps(i, op)
    BY <1>2, <2>2, Writes
  <2>4. op \notin Multishot \cup {"write_multiple", "commit", "submit"}
    BY <2>1 DEF Multishot
  <2>5. SendSingle(op) /\ pc' = "ret" /\ UNCHANGED <<fault, stack, slot, owed, entries>>
    BY <1>5, <2>1 DEF PollConnecting
  <2>6. QED
    BY <1>0, <1>1, <2>3, <2>4, <2>5, SendsSingle
<1>6. CASE AcceptStreamInit
  <2>1. PICK op, a : op = "accept_stream" /\ a = "Running"
    OBVIOUS
  <2>2. fut' = [fut EXCEPT ![i].leaf = op, ![i].astream = a] /\ a # "Init"
    BY <1>1, <1>6, <2>1 DEF AcceptStreamInit
  <2>3. Keeps(i, op) /\ Streams(i)'
    <3>1. Keeps(i, op)
      BY <1>2, <2>2, Writes
    <3>2. Streams(i)'
      BY <1>2, <2>2 DEF Streams, Future
    <3>3. QED
      BY <3>1, <3>2
  <2>4. op \in Multishot
    BY <2>1 DEF Multishot
  <2>5. /\ SendMultishot(op) /\ pc = "run" /\ pc' = "ret"
        /\ UNCHANGED <<fault, stack, slot, owed, entries>>
    BY <1>6, <2>1 DEF AcceptStreamInit, Start
  <2>6. QED
    BY <1>1, <2>3, <2>4, <2>5, SendsMultishot
<1>7. CASE ReadStreamInit
  <2>1. PICK op, a : op = "read_stream" /\ a = "Running"
    OBVIOUS
  <2>2. fut' = [fut EXCEPT ![i].leaf = op, ![i].rstream = a] /\ a # "Init"
    BY <1>1, <1>7, <2>1 DEF ReadStreamInit
  <2>3. Keeps(i, op) /\ Streams(i)'
    <3>1. Keeps(i, op)
      BY <1>2, <2>2, Writes
    <3>2. Streams(i)'
      BY <1>2, <2>2 DEF Streams, Future
    <3>3. QED
      BY <3>1, <3>2
  <2>4. op \in Multishot
    BY <2>1 DEF Multishot
  <2>5. /\ SendMultishot(op) /\ pc = "run" /\ pc' = "ret"
        /\ UNCHANGED <<fault, stack, slot, owed, entries>>
    BY <1>7, <2>1 DEF ReadStreamInit, Start
  <2>6. QED
    BY <1>1, <2>3, <2>4, <2>5, SendsMultishot
<1>8. QED
  BY <1>4, <1>5, <1>6, <1>7, CommitTags, WriteMultipleTags DEF Sending

-----------------------------------------------------------------------------
(***************************************************************************)
(* Steps that enter a poll, or advance the rank of the task polled.        *)
(***************************************************************************)

(* Nothing outstanding is what task i would be resumed by. *)
Unawaited(i) ==
    \A s \in TaskSqes' : s.task = i =>
        /\ Rank(s.nb) <= Rank(nb'[i]) /\ ~Expected(s)'
        /\ Rank(s.nb) = Rank(nb'[i]) /\ IsMultiple(s.nb) /\ s.op # "commit" => IsMultiple(nb'[i])

(* The task is polled then, whether it is new or was suspended. *)
LEMMA PollsOn ==
    ASSUME IInv, Tags, NEW i \in Idx, Unawaited(i), pc \notin {"ret", "panic"},
           pc' \in {"run", "leaf"},
           current'.task = i, current'.nb = nb'[i], sqes' \subseteq sqes,
           \A j \in Idx : j # i => /\ nb'[j] = nb[j] /\ fut'[j] = fut[j]
                                   /\ owed'[j] = owed[j] /\ slot'[j] = slot[j],
           \A k \in DOMAIN stack' : stack'[k].task \in Idx => stack'[k].nb = nb'[stack'[k].task],
           IsMultiple(nb'[i]) \/ fut'[i].leaf \in Multishot => Streams(i)'
    PROVE  InStep' /\ StreamsOnly' /\ Masked' /\ Awaited'
<1>1. \A s \in TaskSqes' : s \in TaskSqes /\ s.task \in Idx
  BY SqeNumber DEF TaskSqes
<1>2. InStep'
  <2>1. \A s \in TaskSqes' : Rank(s.nb) <= Rank(nb'[s.task])
    <3> SUFFICES ASSUME NEW s \in TaskSqes' PROVE Rank(s.nb) <= Rank(nb'[s.task])
      OBVIOUS
    <3>1. CASE s.task = i
      BY <3>1 DEF Unawaited
    <3>2. CASE s.task # i
      BY <1>1, <3>2 DEF Tags, InStep
    <3>3. QED
      BY <3>1, <3>2
  <2>2. QED
    BY <2>1 DEF InStep
<1>3. StreamsOnly'
  <2>1. \A j \in Idx : j # i => Streams(j)' = Streams(j)
    BY DEF Streams
  <2>2. QED
    BY <2>1 DEF Tags, StreamsOnly
<1>4. Masked'
  <2> SUFFICES ASSUME NEW s \in TaskSqes', Rank(s.nb) = Rank(nb'[s.task]), IsMultiple(s.nb),
                      s.op # "commit"
               PROVE  IsMultiple(nb'[s.task])
    BY DEF Masked
  <2>1. CASE s.task = i
    BY <2>1 DEF Unawaited
  <2>2. CASE s.task # i
    BY <1>1, <2>2 DEF Tags, Masked
  <2>3. QED
    BY <2>1, <2>2
<1>5. Awaited'
  <2> SUFFICES ASSUME NEW s \in TaskSqes', Expected(s)'
               PROVE  /\ ~Polling(s.task)' /\ ~IsMultiple(nb'[s.task])
                      /\ Awaits1(fut'[s.task], s.op, s.gen)
    BY DEF Awaited, Awaits1
  <2>1. s.task # i
    BY DEF Unawaited
  <2>2. Expected(s)
    BY <1>1, <2>1 DEF Expected
  <2>3. /\ ~Polling(s.task) /\ ~IsMultiple(nb[s.task])
        /\ Awaits1(fut[s.task], s.op, s.gen)
    BY <1>1, <2>2 DEF Tags, Awaited
  <2>4. ~(owed[s.task] > 0)
    BY <2>3 DEF Polling
  <2>5. QED
    BY <1>1, <2>1, <2>3, <2>4 DEF Polling
<1>6. QED
  BY <1>2, <1>3, <1>4, <1>5

(* The rank of task i advances: what it has outstanding is stale. *)
LEMMA Advances ==
    ASSUME IInv, Tags, RanksFit, NEW i \in Idx, sqes' \subseteq sqes,
           nb' = [nb EXCEPT ![i] = augmente_syscall_nb(nb[i])]
    PROVE  /\ Unawaited(i) /\ ~IsMultiple(nb'[i]) /\ nb'[i] = augmente_syscall_nb(nb[i])
           /\ \A j \in Idx : j # i => nb'[j] = nb[j]
<1>1. nb \in [Idx -> SyscallNumber]
  BY DEF IInv, TypeOK
<1>2. nb'[i] = augmente_syscall_nb(nb[i]) /\ \A j \in Idx : j # i => nb'[j] = nb[j]
  BY <1>1
<1>3. Rank(nb'[i]) = Rank(nb[i]) + 1 /\ ~IsMultiple(nb'[i])
  <2>1. nb[i] \in SyscallNumber /\ Rank(nb[i]) + 1 < MULTIPLE_MASK
    BY <1>1 DEF RanksFit
  <2>2. QED
    BY <1>2, <2>1, NextRank
<1>4. \A s \in TaskSqes : s.task = i => Rank(s.nb) \in Nat /\ Rank(nb[i]) \in Nat
                                    /\ Rank(s.nb) <= Rank(nb[i])
  BY SqeNumber DEF Tags, InStep
<1>a. TaskSqes' \subseteq TaskSqes
  BY DEF TaskSqes
<1>5. \A s \in TaskSqes' : s.task = i => Rank(s.nb) < Rank(nb'[i]) /\ Rank(s.nb) <= Rank(nb'[i])
                                         /\ Rank(s.nb) # Rank(nb'[i])
  BY <1>3, <1>4, <1>a
<1>6. Unawaited(i)
  BY <1>5 DEF Unawaited, Expected
<1>7. QED
  BY <1>2, <1>3, <1>6

(* The last write of a fan-out: the body goes on under the next number. *)
LEMMA FanOutEnds ==
    ASSUME IInv, Tags, RanksFit, PollWriteMultiple, Me.left = {current.gen}
    PROVE  Tags'
<1> USE DEF ringVars
<1>0. PICK i \in Idx : i = current.task /\ current.nb = nb[i] /\ nb[i] \in SyscallNumber
  BY CurrentLive DEF PollWriteMultiple, PollLeaf, Running, Tags, InStep
<1>1. /\ fut \in [Idx -> Future] /\ current \in TaskInfo /\ pc = "leaf"
      /\ UNCHANGED <<fault, stack, slot, owed, entries, sqes>>
  BY DEF IInv, TypeOK, PollWriteMultiple, PollLeaf
<1>2. /\ fut' = [fut EXCEPT ![current.task].leaf = "none", ![current.task].left = {}]
      /\ nb' = [nb EXCEPT ![current.task] = augmente_syscall_nb(@)]
      /\ current' = SetToNextTask(current) /\ pc' = "run"
  <2>1. Me.left \ {current.gen} = {}
    OBVIOUS
  <2>2. QED
    BY <2>1 DEF PollWriteMultiple
<1>3. PICK l, e : l = "none" /\ e = {}
  OBVIOUS
<1>4. fut' = [fut EXCEPT ![i].leaf = l, ![i].left = e]
  BY <1>0, <1>2, <1>3
<1>5. Keeps(i, l)
  BY <1>1, <1>4, Writes
<1>6. nb' = [nb EXCEPT ![i] = augmente_syscall_nb(nb[i])]
  BY <1>0, <1>2
<1>7. /\ Unawaited(i) /\ ~IsMultiple(nb'[i]) /\ nb'[i] = augmente_syscall_nb(nb[i])
      /\ \A j \in Idx : j # i => nb'[j] = nb[j]
  BY <1>0, <1>1, <1>6, Advances
<1>8. current'.task = i /\ current'.nb = nb'[i]
  <2>1. PICK n : n = TagAugmente(nb[i])
    OBVIOUS
  <2>2. current'.task = i /\ current'.nb = n
    BY <1>0, <1>1, <1>2, <2>1 DEF SetToNextTask, TaskInfo
  <2>3. n = augmente_syscall_nb(nb[i])
    BY <1>0, <2>1, NextRank DEF RanksFit
  <2>4. QED
    BY <1>7, <2>2, <2>3
<1>9. \A k \in DOMAIN stack' : stack'[k].task \in Idx => stack'[k].nb = nb'[stack'[k].task]
  <2>1. \A k \in DOMAIN stack : stack[k].task # i
    BY <1>0, <1>1 DEF IInv, Core, Nested, Running
  <2>2. QED
    BY <1>1, <1>7, <2>1 DEF Tags, InStep
<1>10. InStep' /\ StreamsOnly' /\ Masked' /\ Awaited'
  <2>1. IsMultiple(nb'[i]) \/ fut'[i].leaf \in Multishot => Streams(i)'
    BY <1>3, <1>5, <1>7 DEF Keeps, Multishot
  <2>2. /\ pc \notin {"ret", "panic"} /\ pc' \in {"run", "leaf"} /\ sqes' \subseteq sqes
        /\ \A j \in Idx : j # i => /\ nb'[j] = nb[j] /\ fut'[j] = fut[j]
                                   /\ owed'[j] = owed[j] /\ slot'[j] = slot[j]
    BY <1>1, <1>2, <1>5, <1>7 DEF Keeps
  <2>3. QED
    BY <1>7, <1>8, <1>9, <2>1, <2>2, PollsOn
<1>11. Handed' /\ Faulted' /\ Received'
  BY <1>1, <1>2 DEF Tags, Handed, Faulted, Received
<1>12. QED
  BY <1>10, <1>11 DEF Tags

(* A new task has nothing outstanding, and its spawner's number is saved. *)
LEMMA SpawnTags ==
    ASSUME IInv, Tags, NEW i \in Idx, NEW r \in BOOLEAN, NEW context \in TaskInfo,
           SpawnTask(i, r, context), pc \notin {"ret", "panic"},
           context.task \in Idx => context.nb = nb[context.task] /\ slot[context.task] = "live",
           UNCHANGED <<fault, sqes, entries>>
    PROVE  Tags'
<1>1. /\ slot \in [Idx -> {"free", "live", "dead"}] /\ nb \in [Idx -> SyscallNumber]
      /\ fut \in [Idx -> Future] /\ owed \in [Idx -> 0 .. 2] /\ stack \in Seq(TaskInfo)
  BY DEF IInv, TypeOK
<1>2. slot[i] = "free" /\ stack' = Append(stack, context) /\ pc' = "run"
      /\ current' = InitialPoll(i)
  BY DEF SpawnTask
<1>3. /\ nb'[i] = 0 /\ fut'[i] = NewFuture(r)
      /\ \A j \in Idx : j # i => /\ nb'[j] = nb[j] /\ fut'[j] = fut[j]
                                 /\ owed'[j] = owed[j] /\ slot'[j] = slot[j]
  BY <1>1 DEF SpawnTask
<1>4. current'.task = i /\ current'.nb = nb'[i]
  BY <1>2, <1>3 DEF InitialPoll
<1>5. \A s \in TaskSqes : s.task # i
  BY <1>2, SqeNumber
<1>6. Unawaited(i) /\ sqes' \subseteq sqes
  BY <1>5 DEF Unawaited, TaskSqes
<1>7. ~IsMultiple(nb'[i]) /\ fut'[i].leaf \notin Multishot
  <2>1. ~IsMultiple(0)
    BY MaskAssumption DEF IsMultiple
  <2>2. QED
    BY <1>3, <2>1 DEF NewFuture, Multishot
<1>8. \A k \in DOMAIN stack' : stack'[k].task \in Idx => stack'[k].nb = nb'[stack'[k].task]
  <2>1. \A k \in DOMAIN stack' : stack'[k] = context \/ (k \in DOMAIN stack /\ stack'[k] = stack[k])
    BY <1>1, <1>2
  <2>2. context.task \in Idx => context.task # i
    BY <1>2
  <2>3. \A k \in DOMAIN stack : stack[k].task \in Idx =>
           stack[k].task # i /\ stack[k].nb = nb[stack[k].task]
    BY <1>2 DEF IInv, Core, Nested, Vacated, Tags, InStep
  <2>4. QED
    BY <1>3, <2>1, <2>2, <2>3
<1>9. InStep' /\ StreamsOnly' /\ Masked' /\ Awaited'
  BY <1>2, <1>3, <1>4, <1>6, <1>7, <1>8, PollsOn
<1>10. Handed' /\ Faulted' /\ Received'
  BY <1>2 DEF Tags, Handed, Faulted, Received
<1>11. QED
  BY <1>9, <1>10 DEF Tags

(* spawn() from a body, and block_on's own. *)
LEMMA SpawnsTags == ASSUME IInv, Tags, BlockOn \/ BlockOnAgain \/ Spawn PROVE Tags'
<1> USE DEF ringVars
<1>1. CASE BlockOn \/ BlockOnAgain
  <2>1. PICK i \in Idx : SpawnTask(i, TRUE, Dummy)
    BY <1>1 DEF BlockOn, BlockOnAgain
  <2>2. pc \notin {"ret", "panic"} /\ UNCHANGED <<fault, sqes, entries>>
    BY <1>1 DEF BlockOn, BlockOnAgain
  <2>3. QED
    BY <2>1, <2>2, DummyType, SpawnTags
<1>2. CASE Spawn
  <2>1. PICK i \in Idx : SpawnTask(i, FALSE, current)
    BY <1>2 DEF Spawn
  <2>2. pc = "run" /\ UNCHANGED <<fault, sqes, entries>>
    BY <1>2 DEF Spawn, Start
  <2>3. current \in TaskInfo /\ current.nb = nb[current.task] /\ slot[current.task] = "live"
    BY <2>2, CurrentLive DEF Running, IInv, TypeOK, Tags, InStep
  <2>4. QED
    BY <2>1, <2>2, <2>3, SpawnTags
<1>3. QED
  BY <1>1, <1>2

(* The completion at the head of the queue, of a WBuffer::submit or of a task. *)
LEMMA HeadVacant ==
    ASSUME IInv, Tags, entries # <<>>, NEW c, c = Head(entries)
    PROVE  /\ c = entries[1] /\ c \in Cqe /\ c.sqe \in sqes /\ c.sqe.op \in Op
           /\ HasBuffer(c.sqe.op, c.res, c.buf)
           /\ IF c.sqe.task \in Idx
              THEN /\ c.sqe \in TaskSqes
                   /\ Verdict(c) = evaluate_syscall_nb(nb[c.sqe.task], c.sqe.nb)
              ELSE Verdict(c) = "Vacant" /\ c.sqe.op = "submit"
<1>1. 1 \in DOMAIN entries /\ c = entries[1] /\ c \in Cqe
  BY DEF IInv, TypeOK
<1>2. c.sqe \in sqes /\ HasBuffer(c.sqe.op, c.res, c.buf)
  BY <1>1 DEF IInv, Core, Queued, Tags, Received
<1>3. c.sqe.op \in Op
  BY <1>1 DEF Cqe, Sqe
<1>4. c.sqe.op = "submit" <=> c.sqe.task \notin Idx
  BY <1>2 DEF IInv, Core, Untasked
<1>5. CASE c.sqe.task \in Idx
  <2>1. c.sqe \in TaskSqes
    BY <1>2, <1>4, <1>5 DEF TaskSqes
  <2>2. slot[c.sqe.task] = "live"
    BY <2>1, SqeNumber
  <2>3. QED
    BY <1>1, <1>2, <1>3, <1>5, <2>1, <2>2 DEF Verdict
<1>6. CASE c.sqe.task \notin Idx
  BY <1>1, <1>2, <1>3, <1>4, <1>6 DEF Verdict
<1>7. QED
  BY <1>5, <1>6

(* The completion at the head of the queue, when it is of a task. *)
LEMMA HeadFacts ==
    ASSUME IInv, Tags, entries # <<>>, NEW c, c = Head(entries), Verdict(c) # "Vacant"
    PROVE  /\ c = entries[1] /\ c \in Cqe /\ c.sqe \in TaskSqes /\ c.sqe.task \in Idx
           /\ c.sqe.nb \in SyscallNumber /\ c.sqe.op \in Op
           /\ HasBuffer(c.sqe.op, c.res, c.buf) /\ slot[c.sqe.task] = "live"
           /\ Verdict(c) = evaluate_syscall_nb(nb[c.sqe.task], c.sqe.nb)
<1>1. c.sqe.task \in Idx
  BY VerdictNames
<1>2. /\ c = entries[1] /\ c \in Cqe /\ c.sqe \in TaskSqes /\ c.sqe.op \in Op
      /\ HasBuffer(c.sqe.op, c.res, c.buf)
      /\ Verdict(c) = evaluate_syscall_nb(nb[c.sqe.task], c.sqe.nb)
  BY <1>1, HeadVacant
<1>3. c.sqe.nb \in SyscallNumber /\ slot[c.sqe.task] = "live"
  BY <1>2, SqeNumber
<1>4. QED
  BY <1>1, <1>2, <1>3

(* A number that is neither stale nor refused is the one of the task. *)
LEMMA Verdicts ==
    ASSUME NEW stored \in SyscallNumber, NEW n \in SyscallNumber
    PROVE  /\ evaluate_syscall_nb(stored, n) = "Normal" =>
                 Rank(n) = Rank(stored) /\ ~IsMultiple(n) /\ ~IsMultiple(stored) /\ n = stored
           /\ evaluate_syscall_nb(stored, n) = "Multiple" =>
                 Rank(n) = Rank(stored) /\ IsMultiple(n) /\ IsMultiple(stored) /\ n = stored
           /\ evaluate_syscall_nb(stored, n) = "Error" /\ Rank(n) <= Rank(stored) =>
                 Rank(n) = Rank(stored) /\ IsMultiple(stored) # IsMultiple(n)
           /\ evaluate_syscall_nb(stored, n) # "Vacant"
<1>1. /\ Rank(n) \in 0 .. MULTIPLE_MASK - 1 /\ Rank(stored) \in 0 .. MULTIPLE_MASK - 1
      /\ MULTIPLE_MASK \in Nat /\ n \in Nat /\ stored \in Nat
  BY RankFacts, MaskAssumption DEF SyscallNumber
<1>2. /\ IsMultiple(n) \in BOOLEAN /\ IsMultiple(stored) \in BOOLEAN
  BY <1>1 DEF IsMultiple
<1>3. ~(Rank(n) < Rank(stored)) /\ ~(Rank(n) > Rank(stored)) => Rank(n) = Rank(stored)
  BY <1>1
<1>4. Rank(n) <= Rank(stored) => ~(Rank(n) > Rank(stored))
  BY <1>1
<1>5. Rank(n) = Rank(stored) /\ IsMultiple(n) = IsMultiple(stored) => n = stored
  <2>1. CASE IsMultiple(n) /\ IsMultiple(stored)
    BY <1>1, <2>1, RankFacts
  <2>2. CASE ~IsMultiple(n) /\ ~IsMultiple(stored)
    BY <2>2, RankFacts
  <2>3. QED
    BY <2>1, <2>2
<1>6. QED
  BY <1>2, <1>3, <1>4, <1>5 DEF evaluate_syscall_nb

(* A completion is handed to its task. *)
LEMMA HandleTags ==
    ASSUME IInv, Tags, RanksFit, HandleNormal \/ HandleMultiple
    PROVE  Tags'
<1>1. PICK c : c = Head(entries)
  OBVIOUS
<1>2. PICK i : i = c.sqe.task
  OBVIOUS
<1>3. pc = "handle" /\ entries # <<>> /\ EnterPoll(c) /\ Verdict(c) # "Vacant"
  BY <1>1 DEF HandleNormal, HandleMultiple, Dispatch
<1>4. /\ c = entries[1] /\ c \in Cqe /\ c.sqe \in TaskSqes /\ i \in Idx
      /\ c.sqe.nb \in SyscallNumber /\ c.sqe.op \in Op
      /\ HasBuffer(c.sqe.op, c.res, c.buf) /\ slot[i] = "live"
      /\ Verdict(c) = evaluate_syscall_nb(nb[i], c.sqe.nb)
  BY <1>1, <1>2, <1>3, HeadFacts
<1>5. /\ entries' = Tail(entries) /\ sqes' \subseteq sqes
      /\ owed' = [owed EXCEPT ![i] = Owed(c.more)]
      /\ pc' = "leaf" /\ UNCHANGED <<fault, stack, slot, fut>>
  BY <1>2, <1>3 DEF EnterPoll, TakeEntry
<1>6. /\ owed \in [Idx -> 0 .. 2] /\ nb \in [Idx -> SyscallNumber] /\ entries \in Seq(Cqe)
  BY DEF IInv, TypeOK
<1>7. \A j \in Idx : j # i => owed'[j] = owed[j] /\ fut'[j] = fut[j] /\ slot'[j] = slot[j]
  BY <1>5, <1>6
<1>8. stack' = <<>>
  BY <1>3, <1>5 DEF IInv, Core, Nested, Running
<1>9. /\ current'.task = i /\ current'.op = c.sqe.op /\ current'.res = c.res
      /\ current'.buf = c.buf /\ current'.gen = c.sqe.gen
      /\ current'.nb = nb'[i] /\ Unawaited(i)
      /\ \A j \in Idx : j # i => nb'[j] = nb[j]
      /\ IsMultiple(nb'[i]) => Streams(i)
      /\ ~IsMultiple(nb'[i]) => Awaits1(fut[i], c.sqe.op, c.sqe.gen)
  <2>1. CASE HandleNormal
    <3>1. /\ nb' = [nb EXCEPT ![i] = augmente_syscall_nb(nb[i])]
          /\ current' = [FromEntry(c) EXCEPT !.nb = FromEntry(c).nb + 1]
      BY <1>1, <1>2, <2>1 DEF HandleNormal
    <3>2. /\ current'.task = i /\ current'.op = c.sqe.op /\ current'.res = c.res
          /\ current'.buf = c.buf /\ current'.gen = c.sqe.gen
          /\ current'.nb = c.sqe.nb + 1
      BY <1>2, <3>1 DEF FromEntry
    <3>3. /\ Unawaited(i) /\ ~IsMultiple(nb'[i]) /\ nb'[i] = augmente_syscall_nb(nb[i])
          /\ \A j \in Idx : j # i => nb'[j] = nb[j]
      BY <1>4, <1>5, <3>1, Advances
    <3>4. Verdict(c) = "Normal"
      BY <1>1, <2>1 DEF HandleNormal, Dispatch
    <3>5. Rank(c.sqe.nb) = Rank(nb[i]) /\ ~IsMultiple(c.sqe.nb) /\ c.sqe.nb = nb[i]
      BY <1>4, <1>6, <3>4, Verdicts, ZenonT(40)
    <3>6. Rank(c.sqe.nb) = c.sqe.nb
      BY <1>4, <3>5, RankFacts
    <3>7. current'.nb = nb'[i]
      BY <3>2, <3>3, <3>5, <3>6 DEF augmente_syscall_nb
    <3>8. Awaits1(fut[i], c.sqe.op, c.sqe.gen)
      BY <1>2, <1>3, <1>4, <3>5 DEF Tags, Awaited, Expected
    <3>9. QED
      BY <3>2, <3>3, <3>7, <3>8
  <2>2. CASE HandleMultiple
    <3>1. nb' = nb /\ current' = FromEntry(c)
      BY <1>1, <2>2 DEF HandleMultiple
    <3>2. /\ current'.task = i /\ current'.op = c.sqe.op /\ current'.res = c.res
          /\ current'.buf = c.buf /\ current'.gen = c.sqe.gen
          /\ current'.nb = c.sqe.nb
      BY <1>2, <3>1 DEF FromEntry
    <3>3. Verdict(c) = "Multiple"
      BY <1>1, <2>2 DEF HandleMultiple, Dispatch
    <3>4. IsMultiple(nb[i]) /\ c.sqe.nb = nb[i]
      BY <1>4, <1>6, <3>3, Verdicts, ZenonT(40)
    <3>5. \A s \in TaskSqes : s.task = i => ~Expected(s) /\ Rank(s.nb) <= Rank(nb[i])
      BY <1>3, <3>4 DEF Tags, Awaited, InStep
    <3>6. Unawaited(i)
      <4>1. TaskSqes' \subseteq TaskSqes
        BY <1>5 DEF TaskSqes
      <4>2. QED
        BY <1>4, <3>1, <3>4, <3>5, <4>1 DEF Unawaited, Expected
    <3>7. Streams(i)
      BY <1>4, <3>4 DEF Tags, StreamsOnly
    <3>8. QED
      BY <3>1, <3>2, <3>4, <3>6, <3>7
  <2>3. QED
    BY <2>1, <2>2
<1>10. InStep' /\ StreamsOnly' /\ Masked' /\ Awaited'
  <2>1. IsMultiple(nb'[i]) \/ fut'[i].leaf \in Multishot => Streams(i)'
    BY <1>4, <1>5, <1>9 DEF Tags, StreamsOnly, Streams
  <2>2. \A k \in DOMAIN stack' : stack'[k].task \in Idx => stack'[k].nb = nb'[stack'[k].task]
    BY <1>8
  <2>3. QED
    BY <1>3, <1>4, <1>5, <1>7, <1>9, <2>1, <2>2, PollsOn
<1>11. Handed'
  BY <1>4, <1>5, <1>9 DEF Handed, Me
<1>12. Received'
  <2>1. \A k \in DOMAIN entries' : k + 1 \in DOMAIN entries /\ entries'[k] = entries[k + 1]
    BY <1>3, <1>5, <1>6
  <2>2. \A k \in DOMAIN entries' : HasBuffer(entries'[k].sqe.op, entries'[k].res, entries'[k].buf)
    BY <2>1 DEF Tags, Received
  <2>3. HasBuffer(current'.op, current'.res, current'.buf)
    BY <1>4, <1>9
  <2>4. QED
    BY <2>2, <2>3 DEF Received, HasBuffer
<1>13. Faulted'
  BY <1>3, <1>5 DEF Tags, Faulted
<1>14. QED
  BY <1>10, <1>11, <1>12, <1>13 DEF Tags

-----------------------------------------------------------------------------
(***************************************************************************)
(* Steps that end a poll, and steps between polls.                         *)
(***************************************************************************)

(* They change a future only by dropping it with its task. *)
LEMMA Settles ==
    ASSUME IInv', Tags, pc # "panic", pc' \notin {"leaf", "ret", "panic"},
           pc' = "run" => /\ current'.task \in Idx
                          /\ current'.nb = nb[current'.task],
           \A k \in DOMAIN stack' : k \in DOMAIN stack /\ stack'[k] = stack[k],
           fut \in [Idx -> Future],
           \/ fut' = fut
           \/ \E i \in Idx : /\ fut' = [fut EXCEPT ![i] = NewFuture(FALSE)]
                             /\ slot'[i] # "live",
           \A j \in Idx : (slot'[j] = "live" => slot[j] = "live") /\ (Polling(j)' => Polling(j)),
           sqes' \subseteq sqes, UNCHANGED <<fault, nb>>, Received'
    PROVE  Tags'
<1>1. \A s \in TaskSqes' : s \in TaskSqes /\ s.task \in Idx /\ slot'[s.task] = "live"
  <2>1. \A s \in TaskSqes' : s \in TaskSqes /\ s.task \in Idx /\ s \in SqesOf(s.task)'
    BY DEF IInv, Core, Untasked, SqesOf, TaskSqes
  <2>2. QED
    BY <2>1 DEF IInv, Core, Vacated
<1>2. \A j \in Idx : \/ fut'[j] = fut[j]
                     \/ slot'[j] # "live" /\ fut'[j] = NewFuture(FALSE)
  OBVIOUS
<1>3. InStep'
  BY <1>1 DEF Tags, InStep
<1>4. StreamsOnly'
  <2> SUFFICES ASSUME NEW j \in Idx
               PROVE  /\ slot'[j] = "live" /\ IsMultiple(nb'[j]) => Streams(j)'
                      /\ fut'[j].leaf \in Multishot => Streams(j)'
    BY DEF StreamsOnly
  <2>1. CASE fut'[j] = fut[j]
    BY <2>1 DEF Tags, StreamsOnly, Streams
  <2>2. CASE slot'[j] # "live" /\ fut'[j] = NewFuture(FALSE)
    BY <2>2 DEF NewFuture, Multishot
  <2>3. QED
    BY <1>2, <2>1, <2>2
<1>5. Masked'
  BY <1>1 DEF Tags, Masked
<1>6. Awaited'
  <2> SUFFICES ASSUME NEW s \in TaskSqes', Expected(s)'
               PROVE  /\ ~Polling(s.task)' /\ ~IsMultiple(nb'[s.task])
                      /\ Awaits1(fut'[s.task], s.op, s.gen)
    BY DEF Awaited, Awaits1
  <2>1. Expected(s)
    BY DEF Expected
  <2>2. /\ ~Polling(s.task) /\ ~IsMultiple(nb[s.task])
        /\ Awaits1(fut[s.task], s.op, s.gen)
    BY <1>1, <2>1 DEF Tags, Awaited
  <2>3. fut'[s.task] = fut[s.task]
    BY <1>1, <1>2
  <2>4. QED
    BY <1>1, <2>2, <2>3
<1>7. Handed' /\ Faulted'
  BY DEF Tags, Handed, Faulted
<1>8. QED
  BY <1>3, <1>4, <1>5, <1>6, <1>7 DEF Tags

(* A poll that returns. *)
LEMMA ReturnsTags == ASSUME IInv, IInv', Tags, Returns PROVE Tags'
<1> USE DEF ringVars
<1>1. PICK i : i = current.task
  OBVIOUS
<1>2. PICK sl : sl = SlotAfterRelease(i, owed[i])
  OBVIOUS
<1>3. /\ AfterPoll /\ i \in Idx
      /\ \A j \in Idx : slot'[j] = "live" <=> sl[j] = "live"
      /\ pc' \in {"run", "done", "submit", "handle"}
      /\ pc' = "run" => \E k \in DOMAIN stack : current' = stack[k] /\ stack[k].task \in Idx
      /\ \A k \in DOMAIN stack' : k \in DOMAIN stack /\ stack'[k] = stack[k]
      /\ UNCHANGED <<fault, nb, sqes, entries>>
  BY <1>1, <1>2, ReturnShape
<1>4. /\ slot \in [Idx -> {"free", "live", "dead"}] /\ fut \in [Idx -> Future]
      /\ owed \in [Idx -> 0 .. 2]
  BY DEF IInv, TypeOK
<1>5. /\ pc = "ret" /\ Release(i, owed[i]) /\ owed' = [owed EXCEPT ![i] = 0]
  BY <1>1, <1>3 DEF AfterPoll
<1>6. \/ fut' = fut
      \/ fut' = [fut EXCEPT ![i] = NewFuture(FALSE)] /\ slot'[i] # "live"
  BY <1>2, <1>3, <1>4, <1>5 DEF Release, SlotAfterRelease
<1>7. \A j \in Idx : slot'[j] = "live" => slot[j] = "live"
  BY <1>2, <1>3, <1>4 DEF SlotAfterRelease
<1>8. \A j \in Idx : Polling(j)' => Polling(j)
  BY <1>1, <1>3, <1>4, <1>5 DEF Polling
<1>9. pc' = "run" => current'.task \in Idx /\ current'.nb = nb[current'.task]
  BY <1>3 DEF Tags, InStep
<1>10. Received'
  BY <1>3 DEF Tags, Received
<1>11. QED
  BY <1>3, <1>4, <1>5, <1>6, <1>7, <1>8, <1>9, <1>10, Settles

(* submit_and_wait, the drains of the free list, and the kernel's answers. *)
LEMMA LoopTags ==
    ASSUME IInv, IInv', Tags, SubmitAndWait \/ SubmitFails \/ Collect \/ EndBatch \/ KernelPost
    PROVE  Tags'
<1> USE DEF loopVars, taskVars, ringVars, boundVars
<1>1. /\ pc \in {"submit", "wait", "handle"} /\ pc' \notin Running \cup {"panic"}
      /\ UNCHANGED <<fault, stack, nb, fut, owed, sqes>>
      /\ slot' = slot \/ slot' = free_unsed_slab_slot(slot)
  BY DEF SubmitAndWait, SubmitFails, Collect, EndBatch, KernelPost, Answer, Running
<1>2. \A j \in Idx : (slot'[j] = "live" => slot[j] = "live") /\ (Polling(j)' => Polling(j))
  BY <1>1 DEF free_unsed_slab_slot, Polling, Running
<1>3. Received'
  <2>1. CASE entries' = entries
    BY <1>1, <2>1 DEF Tags, Received, Running
  <2>2. CASE KernelPost
    <3>1. PICK s \in sqes \ (pending \cup posted) : Answer(s)
      BY <2>2 DEF KernelPost
    <3>2. PICK c \in KernelCqes(s) : entries' = Append(entries, c)
      BY <3>1 DEF Answer
    <3>3. HasBuffer(c.sqe.op, c.res, c.buf)
      BY <3>2 DEF KernelCqes, HasBuffer
    <3>4. entries \in Seq(Cqe) /\ c \in Cqe
      <4>1. TypeOK /\ s \in Sqe
        BY DEF IInv, TypeOK
      <4>2. QED
        BY <4>1, KernelCqesType DEF TypeOK
    <3>5. \A k \in DOMAIN entries' : entries'[k] = c \/ (k \in DOMAIN entries /\ entries'[k] = entries[k])
      BY <3>2, <3>4
    <3>6. QED
      BY <1>1, <3>3, <3>5 DEF Tags, Received, Running
  <2>3. QED
    BY <2>1, <2>2 DEF SubmitAndWait, SubmitFails, Collect, EndBatch
<1>4. QED
  BY <1>1, <1>2, <1>3, Settles DEF Running, IInv, TypeOK

(* A stale completion gives its reference back, and maybe the task. *)
LEMMA ExpiredTags == ASSUME IInv, IInv', Tags, HandleExpired PROVE Tags'
<1> USE DEF loopVars
<1>1. PICK c : c = Head(entries)
  OBVIOUS
<1>2. PICK i, n : i = c.sqe.task /\ n = Owed(c.more) - 1
  OBVIOUS
<1>3. /\ pc = "handle" /\ entries # <<>> /\ TakeEntry(c) /\ Release(i, n)
      /\ slot' = SlotAfterRelease(i, n) /\ UNCHANGED <<loopVars, nb, owed>>
      /\ Verdict(c) # "Vacant"
  BY <1>1, <1>2 DEF HandleExpired, Dispatch
<1>4. i \in Idx
  BY <1>1, <1>2, <1>3, HeadFacts
<1>5. /\ slot \in [Idx -> {"free", "live", "dead"}] /\ fut \in [Idx -> Future]
      /\ entries \in Seq(Cqe)
  BY DEF IInv, TypeOK
<1>6. entries' = Tail(entries) /\ sqes' \subseteq sqes
  BY <1>3 DEF TakeEntry
<1>7. \/ fut' = fut
      \/ fut' = [fut EXCEPT ![i] = NewFuture(FALSE)] /\ slot'[i] # "live"
  BY <1>3, <1>4, <1>5 DEF Release, SlotAfterRelease
<1>8. \A j \in Idx : (slot'[j] = "live" => slot[j] = "live") /\ (Polling(j)' => Polling(j))
  BY <1>3, <1>4, <1>5 DEF SlotAfterRelease, Polling
<1>9. Received'
  <2>1. \A k \in DOMAIN entries' : k + 1 \in DOMAIN entries /\ entries'[k] = entries[k + 1]
    BY <1>3, <1>5, <1>6
  <2>2. QED
    BY <1>3, <2>1 DEF Tags, Received
<1>10. QED
  BY <1>3, <1>4, <1>5, <1>6, <1>7, <1>8, <1>9, Settles

-----------------------------------------------------------------------------
(***************************************************************************)
(* Panics.                                                                 *)
(***************************************************************************)

(* A leaf future of a task that has polled no stream has its own completion. *)
LEMMA OwnOrStreams ==
    ASSUME IInv, Tags, pc = "leaf"
    PROVE  \/ Streams(current.task)
           \/ current.op \in Op /\ Awaits1(Me, current.op, current.gen)
<1>1. /\ current.task \in Idx /\ slot[current.task] = "live" /\ current.nb = nb[current.task]
  BY CurrentLive DEF Running, Tags, InStep
<1>2. CASE IsMultiple(current.nb)
  BY <1>1, <1>2 DEF Tags, StreamsOnly
<1>3. CASE ~IsMultiple(current.nb)
  BY <1>3 DEF Tags, Handed
<1>4. QED
  BY <1>2, <1>3

(* The state a panic leaves. *)
LEMMA PanicTags ==
    ASSUME Tags, pc' = "panic", fault' # "none",
           UNCHANGED <<stack, slot, nb, fut, sqes, entries>>
    PROVE  Tags'
<1>1. InStep' /\ Masked'
  BY DEF Tags, InStep, Masked, TaskSqes
<1>2. StreamsOnly'
  BY DEF Tags, StreamsOnly, Streams
<1>3. Awaited' /\ Handed' /\ Faulted'
  BY DEF Awaited, Handed, Faulted
<1>4. Received'
  BY DEF Tags, Received
<1>5. QED
  BY <1>1, <1>2, <1>3, <1>4 DEF Tags

(* A receive without its buffer. *)
LEMMA NoBufPanics ==
    ASSUME IInv, Tags, Quietly, pc' = "panic"
    PROVE  /\ fault' = "no_buf" /\ Streams(current.task)
           /\ UNCHANGED <<current, stack, slot, nb, fut, sqes, entries>>
<1> USE DEF loopVars, taskVars, ringVars, boundVars
<1>1. \/ PollRead
      \/ ReadStreamNext /\ Me.rstream = "Running" /\ ReadStreamRunning
      \/ PollReadStream
  BY DEF Quietly, DropBuffer, Complete, AwaitForeign, AcceptStreamNext, ReadStreamNext, Start,
         AcceptStreamRunning, PollAccept, PollWrite, Resolve, PollConnected, PollCommit,
         PollAcceptStream, PollForeign, PollForeignReady, PollWriteMultiple, SubmitWBuffer
<1>2. CASE PollRead
  <2>1. /\ pc = "leaf" /\ Me.leaf = "read" /\ current.res = "pos" /\ current.buf = NoBuf
        /\ fault' = "no_buf" /\ UNCHANGED <<current, stack, slot, nb, fut, sqes, entries>>
    BY <1>2 DEF PollRead, PollLeaf
  <2>2. ~Awaits1(Me, current.op, current.gen)
    BY <2>1 DEF Tags, Received, HasBuffer, Receives, Awaits1
  <2>3. QED
    BY <2>1, <2>2, OwnOrStreams
<1>3. CASE ReadStreamNext /\ Me.rstream = "Running" /\ ReadStreamRunning
  <2>1. /\ fault' = "no_buf" /\ fut' = fut
        /\ UNCHANGED <<current, stack, slot, nb, sqes, entries>>
    BY <1>3 DEF ReadStreamNext, ReadStreamRunning
  <2>2. QED
    BY <1>3, <2>1 DEF Streams, Me
<1>4. CASE PollReadStream
  <2>1. /\ fault' = "no_buf" /\ fut' = fut /\ pc = "leaf" /\ Me.leaf = "read_stream"
        /\ UNCHANGED <<current, stack, slot, nb, sqes, entries>>
    BY <1>4 DEF PollReadStream, ReadStreamRunning, PollLeaf
  <2>2. current.task \in Idx
    BY <2>1, CurrentLive DEF Running
  <2>3. QED
    BY <2>1, <2>2 DEF Tags, StreamsOnly, Multishot, Me
<1>5. QED
  BY <1>1, <1>2, <1>3, <1>4

(* A completion the loop refuses is newer than its task, and a commit's; one
   that finds no task is of a WBuffer::submit. *)
LEMMA RefusedIsCommit ==
    ASSUME IInv, Tags, HandlePanics
    PROVE  /\ \/ fault' = "Error" /\ Head(entries').sqe.op = "commit"
              \/ fault' = "Vacant" /\ Head(entries').sqe.op = "submit"
           /\ UNCHANGED <<stack, slot, nb, fut, sqes, entries>> /\ pc' = "panic"
<1> USE DEF taskVars, ringVars
<1>1. PICK c : c = Head(entries)
  OBVIOUS
<1>2. /\ pc = "handle" /\ entries # <<>> /\ Verdict(c) \in {"Error", "Vacant"}
      /\ fault' = Verdict(c) /\ UNCHANGED <<stack, slot, nb, fut, sqes, entries>>
      /\ pc' = "panic"
  BY <1>1 DEF HandlePanics, Dispatch, Panic
<1>3. PICK i, s : i = c.sqe.task /\ s = c.sqe
  OBVIOUS
<1>4. CASE i \notin Idx
  <2>1. Verdict(c) = "Vacant" /\ s.op = "submit"
    BY <1>1, <1>2, <1>3, <1>4, HeadVacant
  <2>2. QED
    BY <1>1, <1>2, <1>3, <2>1
<1>5. CASE i \in Idx
  <2>1. s \in TaskSqes /\ s.task = i /\ Verdict(c) = evaluate_syscall_nb(nb[i], s.nb)
    BY <1>1, <1>2, <1>3, <1>5, HeadVacant
  <2>2. s.nb \in SyscallNumber /\ nb[i] \in SyscallNumber
    BY <2>1, SqeNumber
  <2>3. Rank(s.nb) <= Rank(nb[i])
    BY <2>1 DEF Tags, InStep
  <2>4. /\ Verdict(c) = "Error" /\ Rank(s.nb) = Rank(nb[i])
        /\ IsMultiple(nb[i]) # IsMultiple(s.nb)
    BY <1>2, <2>1, <2>2, <2>3, Verdicts
  <2>5. IsMultiple(s.nb)
    <3> SUFFICES ASSUME ~IsMultiple(s.nb) PROVE FALSE
      OBVIOUS
    <3>1. Expected(s)
      BY <2>1, <2>4 DEF Expected
    <3>2. ~IsMultiple(nb[i])
      BY <1>2, <2>1, <3>1 DEF Tags, Awaited
    <3>3. QED
      BY <2>4, <3>2 DEF IsMultiple
  <2>6. ~IsMultiple(nb[i])
    BY <2>4, <2>5 DEF IsMultiple
  <2>7. s.op = "commit"
    BY <2>1, <2>4, <2>5, <2>6 DEF Tags, Masked
  <2>8. QED
    BY <1>1, <1>2, <1>3, <2>4, <2>7
<1>6. QED
  BY <1>4, <1>5

(* The other panics. *)
Panics ==
    \/ SubmitOverflow \/ WokenEarly \/ WriteMultipleNone \/ PollCompleted
    \/ PollWriteMultipleUnknown

(* Each panic is of a kind that PanicCauses allows. *)
LEMMA PanicsStep ==
    ASSUME IInv, Tags, Panics \/ HandlePanics \/ (Quietly /\ pc' = "panic")
    PROVE  Tags' /\ PanicCauses'
<1> USE DEF taskVars, ringVars
<1>1. CASE HandlePanics
  BY <1>1, RefusedIsCommit, PanicTags DEF PanicCauses
<1>2. CASE Quietly /\ pc' = "panic"
  <2>1. /\ fault' = "no_buf" /\ Streams(current.task)
        /\ UNCHANGED <<current, stack, slot, nb, fut, sqes, entries>>
    BY <1>2, NoBufPanics
  <2>2. Streams(current.task)'
    BY <2>1 DEF Streams
  <2>3. QED
    BY <1>2, <2>1, <2>2, PanicTags DEF PanicCauses
<1>3. CASE Panics
  <2>1. /\ UNCHANGED <<current, stack, slot, nb, fut, sqes, entries>> /\ pc' = "panic"
        /\ fault' \in {"sq_full", "no_entries", "add_rc_zero", "resumed", "unknown_gen"}
        /\ fault' \in {"resumed", "unknown_gen"} =>
              /\ pc = "leaf"
              /\ Me.leaf = "complete" \/ (Me.leaf = "write_multiple" /\ current.gen \notin Me.left)
    BY <1>3 DEF Panics, SubmitOverflow, WokenEarly, WriteMultipleNone, PollCompleted,
                PollWriteMultipleUnknown, Panic, PollLeaf
  <2>2. ASSUME fault' \in {"resumed", "unknown_gen"} PROVE Streams(current.task)'
    <3>1. ~(current.op \in Op /\ Awaits1(Me, current.op, current.gen))
      BY <2>1, <2>2 DEF Awaits1, Op
    <3>2. Streams(current.task)
      BY <2>1, <2>2, <3>1, OwnOrStreams
    <3>3. QED
      BY <2>1, <3>2 DEF Streams
  <2>3. QED
    BY <2>1, <2>2, PanicTags DEF PanicCauses
<1>4. QED
  BY <1>1, <1>2, <1>3

-----------------------------------------------------------------------------
(***************************************************************************)
(* The theorems.                                                           *)
(***************************************************************************)

(* Nothing has panicked yet in the initial states. *)
LEMMA InitTags == Init => Tags /\ PanicCauses
<1> SUFFICES ASSUME Init PROVE Tags /\ PanicCauses
  OBVIOUS
<1> USE DEF Init
<1>1. InStep /\ Masked /\ Awaited /\ Handed /\ Received /\ Faulted
  BY DEF InStep, Masked, Awaited, Handed, Received, Faulted, TaskSqes
<1>2. StreamsOnly
  BY DEF StreamsOnly, NewFuture, Multishot
<1>3. PanicCauses
  BY DEF PanicCauses
<1>4. QED
  BY <1>1, <1>2, <1>3 DEF Tags

(* Every step taken while the ranks fit keeps the tags and explains a panic. *)
LEMMA NextTags ==
    ASSUME IInv, Tags, PanicCauses, RanksFit, [Next]_vars
    PROVE  Tags' /\ PanicCauses'
<1>0. IInv'
  BY NextInv
<1>1. CASE UNCHANGED vars
  <2> USE <1>1 DEF vars, loopVars, taskVars, ringVars
  <2>1. InStep' /\ Masked' /\ Handed' /\ Faulted'
    BY DEF Tags, InStep, Masked, Handed, Faulted, Me, TaskSqes
  <2>2. StreamsOnly' /\ Awaited'
    BY DEF Tags, StreamsOnly, Streams, Awaited, Expected, Polling, TaskSqes
  <2>3. Received'
    BY DEF Tags, Received
  <2>4. PanicCauses'
    BY DEF PanicCauses, Streams
  <2>5. QED
    BY <2>1, <2>2, <2>3, <2>4 DEF Tags
<1>2. CASE Panics \/ HandlePanics \/ (Quietly /\ pc' = "panic")
  BY <1>2, PanicsStep
<1>3. CASE ~(Quietly /\ pc' = "panic") /\ ~Panics /\ ~HandlePanics /\ ~UNCHANGED vars
  <2>1. Tags' /\ pc' # "panic"
    <3>1. \/ Sending \/ (Quietly /\ pc' # "panic")
          \/ PollWriteMultiple /\ Me.left = {current.gen}
          \/ BlockOn \/ BlockOnAgain \/ Spawn \/ Returns \/ HandleNormal \/ HandleMultiple
          \/ HandleExpired
          \/ SubmitAndWait \/ SubmitFails \/ Collect \/ EndBatch \/ KernelPost
      BY <1>3 DEF Next, Loop, Body, Poll, Faults, Terminated, Sending, Quietly, Panics, Returns
    <3>2. Tags'
      BY <1>0, <3>1, SendingStep, QuietlyStep, FanOutEnds, SpawnsTags, ReturnsTags, HandleTags,
         ExpiredTags, LoopTags
    <3>3. Sending => pc' = "ret"
      BY DEF Sending, Accept, Write, Connect, Read, Submit, PollConnecting, AcceptStreamInit,
             ReadStreamInit, Commit, WriteMultiple
    <3>4. /\ PollWriteMultiple => pc' \in {"run", "ret"}
          /\ BlockOn \/ BlockOnAgain \/ Spawn => pc' = "run"
          /\ Returns => pc' \in {"run", "done", "submit", "handle"}
      BY ReturnShape DEF PollWriteMultiple, BlockOn, BlockOnAgain, Spawn, SpawnTask
    <3>5. /\ HandleNormal \/ HandleMultiple => pc' = "leaf"
          /\ HandleExpired \/ KernelPost => pc' \in {"handle", "wait"}
          /\ SubmitAndWait \/ SubmitFails \/ Collect \/ EndBatch => pc' # "panic"
      BY DEF HandleNormal, HandleMultiple, EnterPoll, HandleExpired, Dispatch, KernelPost,
             Answer, loopVars, SubmitAndWait, SubmitFails, Collect, EndBatch
    <3>6. QED
      BY <3>1, <3>2, <3>3, <3>4, <3>5
  <2>2. QED
    BY <2>1 DEF Tags, Faulted, PanicCauses
<1>4. QED
  BY <1>1, <1>2, <1>3

(* The invariant of the tags, as long as no rank has reached its end. *)
LEMMA TagsInvariant ==
    ASSUME FewTasks PROVE Spec /\ []RanksFit => [](IInv /\ Tags /\ PanicCauses)
<1>1. Init => Tags /\ PanicCauses
  BY InitTags
<1>2. IInv /\ Tags /\ PanicCauses /\ RanksFit /\ [Next]_vars => (Tags /\ PanicCauses)'
  BY NextTags
<1>3. Spec => []IInv
  BY Invariance
<1>4. QED
  BY <1>1, <1>2, <1>3, PTL DEF Spec

(* Whatever programs run: the tag that submissions are made under is the
   number of the task being polled, mask and rank, after nested spawn() calls
   and fan-outs too; no submission of a task is ahead of it; and only streams
   put a task in multiple mode.  It holds up to the end of the rank's range. *)
THEOREM TagsStayInStep == ASSUME FewTasks PROVE Spec /\ []RanksFit => []TagsInStep
<1>1. IInv /\ Tags => TagsInStep
  <2> SUFFICES ASSUME IInv, Tags PROVE TagsInStep
    OBVIOUS
  <2>1. pc \in Running => current.task \in Idx /\ slot[current.task] = "live"
    BY CurrentLive
  <2>2. pc \in Running => Rank(current.nb) = Rank(nb[current.task])
    BY DEF Tags, InStep, Running
  <2>3. QED
    BY <2>1, <2>2 DEF TagsInStep, Tags, InStep, StreamsOnly
<1>2. QED
  BY <1>1, TagsInvariant, PTL

(* A task that has polled no stream is resumed only by completions of the
   operation its leaf future awaits, whatever it has left outstanding by
   fan-outs and commits, and whatever the other tasks do. *)
THEOREM StreamlessPollsAreTheirOwn ==
    ASSUME FewTasks PROVE Spec /\ []RanksFit => []OwnCompletion
<1>1. IInv /\ Tags => OwnCompletion
  BY OwnOrStreams DEF OwnCompletion, Awaits1
<1>2. QED
  BY <1>1, TagsInvariant, PTL

(* Every panic of handle_cqe_entry and of the leaf futures has one of three
   causes: the masked tag of a commit, a stream, or the completion of a
   WBuffer::submit, which is looked up in the slab. *)
THEOREM PanicsExplained == ASSUME FewTasks PROVE Spec /\ []RanksFit => []PanicCauses
BY TagsInvariant, PTL

=============================================================================
