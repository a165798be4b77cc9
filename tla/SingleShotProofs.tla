-------------------------- MODULE SingleShotProofs --------------------------
(***************************************************************************)
(* Programs whose tasks await single-shot operations only, of any number   *)
(* of tasks and buffers: accept, read, write, connect and spawn in any     *)
(* order.  The invariant of RuntimeProofs says that counts are exact; here *)
(* it is strengthened with what makes them small: a suspended task waits   *)
(* for one SQE, tagged with the task's own number and operation, so every  *)
(* completion is the one its task awaits.  This holds past the last rank   *)
(* too: the number of such a task stays at MULTIPLE_MASK, on both sides.   *)
(***************************************************************************)
EXTENDS RuntimeProofs

(* No stream, commit, fan-out, WBuffer::submit or foreign future in any body. *)
SingleShot ==
    Ops \cap {"accept_stream", "read_stream", "commit", "write_multiple", "submit", "foreign"} = {}

SingleOps == {"accept", "read", "write", "socket", "connect"}

(* The task waits for one SQE, the one its leaf future has submitted last. *)
Armed(i) ==
    \E s \in sqes : /\ SqesOf(i) = {s} /\ s.nb = nb[i]
                    /\ s.op = fut[i].leaf /\ s.op \in SingleOps

Returned(i) == fut[i].leaf = "complete" /\ SqesOf(i) = {}

OneSqe ==
    \A i \in Idx : slot[i] = "live" =>
        IF Polling(i) THEN SqesOf(i) = {} ELSE Armed(i) \/ Returned(i)

(* What a poll that is about to return has submitted has no answer yet. *)
Unanswered == pc = "ret" => SqesOf(current.task) \cap posted = {}

(* CURRENT_TASK, and the copies nested spawn() calls keep, have the numbers
   of their tasks; a body runs with no leaf future pending, and a leaf future
   is polled with a completion of its own operation. *)
Contexts ==
    /\ pc \in {"run", "leaf"} => current.nb = nb[current.task]
    /\ pc = "run" => Me.leaf = "none"
    /\ pc = "leaf" => current.op = Me.leaf /\ current.op \in SingleOps
    /\ \A k \in DOMAIN stack : stack[k].task \in Idx =>
          stack[k].nb = nb[stack[k].task] /\ fut[stack[k].task].leaf = "none"

(* Completions are last ones, and only those of reads carry buffers. *)
Carries(op, res, more, b) ==
    ~more /\ (b # NoBuf => op = "read") /\ (op = "read" /\ res = "pos" => b # NoBuf)

Results ==
    /\ \A k \in DOMAIN entries :
          Carries(entries[k].sqe.op, entries[k].res, entries[k].more, entries[k].buf)
    /\ pc = "leaf" => Carries(current.op, current.res, current.more, current.buf)

(* A task that reads, has returned or is gone holds no buffer. *)
Futures ==
    \A i \in Idx :
        /\ fut[i].cbuf = NoBuf /\ ~Streams(i)
        /\ fut[i].leaf \in {"read", "complete"} \/ slot[i] # "live" => fut[i].held = NoBuf

(* The only panics are those of submit_and_wait and of an interrupted wait. *)
Calm == pc = "panic" => fault \in {"no_entries", "sq_full"}

(* block_on's own future is in the slab until it has returned. *)
RootKept ==
    /\ root # "dropped"
    /\ pc # "start" =>
          root = "completed" \/ \E i \in Idx : /\ slot[i] = "live" /\ fut[i].root
                                               /\ fut[i].leaf # "complete"

Single == /\ SingleShot
          /\ OneSqe /\ Unanswered /\ Contexts /\ Results /\ Futures /\ Calm /\ RootKept

(* Where a read buffer is. *)
Queue(b) == {k \in DOMAIN entries : entries[k].buf = b}
Holders(b) == {i \in Idx : fut[i].held = b}
Carried(b) == pc = "leaf" /\ current.buf = b

InRing(b)  == avail[b] = 1 /\ Queue(b) = {} /\ Holders(b) = {} /\ ~Carried(b)
InQueue(b) == /\ avail[b] = 0 /\ Holders(b) = {} /\ ~Carried(b)
              /\ \E k \in DOMAIN entries : Queue(b) = {k}
InTask(b)  == /\ avail[b] = 0 /\ Queue(b) = {} /\ ~Carried(b)
              /\ \E i \in Idx : Holders(b) = {i}
InPoll(b)  == avail[b] = 0 /\ Queue(b) = {} /\ Holders(b) = {} /\ Carried(b)

Ledger == \A b \in Buf : InRing(b) \/ InQueue(b) \/ InTask(b) \/ InPoll(b)

-----------------------------------------------------------------------------
(***************************************************************************)
(* The shapes of the steps that are left.                                  *)
(***************************************************************************)

(* The fields of a future that its leaf does not touch. *)
SameRest(f, g) == /\ f.cbuf = g.cbuf /\ f.root = g.root
                  /\ f.astream = g.astream /\ f.rstream = g.rstream

(* Only the future of the current task changes, in its leaf and its buffer. *)
OnlyMine == \A j \in Idx : /\ SameRest(fut'[j], fut[j])
                           /\ j # current.task => fut'[j] = fut[j]

(* One SQE is submitted and the poll returns. *)
Sends(s) ==
    /\ pc \in {"run", "leaf"} /\ pc' = "ret"
    /\ pc = "leaf" => current.buf = NoBuf
    /\ s.task = current.task /\ s.nb = current.nb /\ s.op \in SingleOps /\ s \notin sqes
    /\ sqes' = sqes \cup {s}
    /\ OnlyMine
    /\ fut'[current.task].leaf = s.op
    /\ fut'[current.task].held = fut[current.task].held
    /\ s.op = "read" => fut[current.task].held = NoBuf
    /\ fut[current.task].leaf # "complete"
    /\ UNCHANGED <<fault, current, stack, slot, nb, owed, posted, entries, avail, root>>

(* A leaf future is Ready, or the body drops its buffer; the body goes on. *)
GoesOn ==
    /\ pc \in {"run", "leaf"} /\ pc' = "run"
    /\ OnlyMine
    /\ fut'[current.task].leaf = "none"
    /\ fut[current.task].leaf # "complete"
    /\ UNCHANGED <<fault, current, stack, slot, nb, owed, sqes, posted, entries, root>>

(* The SQE a step submits is not outstanding yet. *)
LEMMA NewSqe ==
    ASSUME IInv, current.task \in Idx, NEW op, NEW n, NEW b, Send(op, n, b)
    PROVE  \E s : /\ s.task = current.task /\ s.nb = n /\ s.op = op /\ s \notin sqes
                  /\ sqes' = sqes \cup {s}
<1> DEFINE s == MakeSqe(sqe_seq, n, current.gen, op, b)
<1>1. s.id = sqe_seq /\ s.task = current.task /\ s.nb = n /\ s.op = op
  BY DEF MakeSqe
<1>2. sqes' = sqes \cup {s}
  BY DEF Send
<1>3. sqe_seq \in Nat /\ \A x \in sqes : x.id \in Nat /\ x.id < sqe_seq
  BY DEF IInv, TypeOK, Sqe, Core, Fresh
<1> HIDE DEF s
<1>4. s \notin sqes
  BY <1>1, <1>3
<1>5. QED
  BY <1>1, <1>2, <1>4

(* Writing the leaf, the buffer or the fd of the current future. *)
LEMMA Writes ==
    ASSUME fut \in [Idx -> Future], current.task \in Idx, NEW l, NEW h, NEW d
    PROVE  /\ fut' = [fut EXCEPT ![current.task].leaf = l] =>
                 /\ OnlyMine /\ fut'[current.task].leaf = l
                 /\ fut'[current.task].held = fut[current.task].held
           /\ fut' = [fut EXCEPT ![current.task].leaf = l, ![current.task].fd = d] =>
                 /\ OnlyMine /\ fut'[current.task].leaf = l
                 /\ fut'[current.task].held = fut[current.task].held
           /\ fut' = [fut EXCEPT ![current.task].held = h] =>
                 /\ OnlyMine /\ fut'[current.task].held = h
                 /\ fut'[current.task].leaf = fut[current.task].leaf
           /\ fut' = [fut EXCEPT ![current.task].leaf = l, ![current.task].held = h] =>
                 /\ OnlyMine /\ fut'[current.task].leaf = l /\ fut'[current.task].held = h
<1>1. PICK i \in Idx : i = current.task
  OBVIOUS
<1>2. /\ fut' = [fut EXCEPT ![i].leaf = l] =>
            /\ OnlyMine /\ fut'[i].leaf = l /\ fut'[i].held = fut[i].held
  BY <1>1 DEF OnlyMine, SameRest, Future
<1>3. /\ fut' = [fut EXCEPT ![i].leaf = l, ![i].fd = d] =>
            /\ OnlyMine /\ fut'[i].leaf = l /\ fut'[i].held = fut[i].held
  BY <1>1 DEF OnlyMine, SameRest, Future
<1>4. /\ fut' = [fut EXCEPT ![i].held = h] =>
            /\ OnlyMine /\ fut'[i].held = h /\ fut'[i].leaf = fut[i].leaf
  BY <1>1 DEF OnlyMine, SameRest, Future
<1>5. /\ fut' = [fut EXCEPT ![i].leaf = l, ![i].held = h] =>
            /\ OnlyMine /\ fut'[i].leaf = l /\ fut'[i].held = h
  BY <1>1 DEF OnlyMine, SameRest, Future
<1>6. QED
  BY <1>1, <1>2, <1>3, <1>4, <1>5

(* A step that submits one SQE arms the task. *)
LEMMA SendsStep == ASSUME IInv, Single, NEW s, Sends(s) PROVE Single'
<1>0. PICK i \in Idx : /\ i = current.task /\ slot[i] = "live" /\ owed[i] > 0
                       /\ current'.task = i
  BY CurrentLive DEF Sends, Running
<1>1. /\ SqesOf(i)' = SqesOf(i) \cup {s}
      /\ \A j \in Idx : j # i => SqesOf(j)' = SqesOf(j)
  BY <1>0 DEF Sends, SqesOf
<1>2. Polling(i) /\ SqesOf(i) = {}
  BY <1>0 DEF Sends, Polling, Single, OneSqe
<1>3. current.nb = nb[i] /\ nb' = nb
  BY <1>0 DEF Sends, Single, Contexts
<1>4. OneSqe'
  <2> SUFFICES ASSUME NEW j \in Idx, slot'[j] = "live"
               PROVE  IF Polling(j)' THEN SqesOf(j)' = {} ELSE Armed(j)' \/ Returned(j)'
    BY DEF OneSqe
  <2>1. CASE j = i
    <3>1. ~Polling(i)'
      BY <1>0 DEF Polling, Sends
    <3>2. SqesOf(i)' = {s} /\ s \in sqes' /\ s.nb = nb'[i] /\ s.op = fut'[i].leaf /\ s.op \in SingleOps
      BY <1>0, <1>1, <1>2, <1>3 DEF Sends
    <3>3. Armed(i)'
      BY <3>2 DEF Armed
    <3>4. QED
      BY <2>1, <3>1, <3>3
  <2>2. CASE j # i
    <3>1. Polling(j)' <=> Polling(j)
      BY <1>0, <2>2 DEF Polling, Sends
    <3>2. IF Polling(j) THEN SqesOf(j) = {} ELSE Armed(j) \/ Returned(j)
      BY DEF Single, OneSqe, Sends
    <3>3. fut'[j] = fut[j] /\ sqes \subseteq sqes'
      BY <1>0, <2>2 DEF Sends, OnlyMine
    <3>4. (Armed(j) => Armed(j)') /\ (Returned(j) => Returned(j)')
      BY <1>1, <1>3, <2>2, <3>3 DEF Armed, Returned
    <3>5. QED
      BY <1>1, <2>2, <3>1, <3>2, <3>4
  <2>3. QED
    BY <2>1, <2>2
<1>5. Unanswered'
  <2>1. s \notin posted
    BY DEF IInv, TypeOK, Sends
  <2>2. QED
    BY <1>0, <1>1, <1>2, <2>1 DEF Unanswered, Sends
<1>6. Contexts'
  <2>1. \A k \in DOMAIN stack : stack[k].task # i
    BY <1>0 DEF IInv, Core, Nested, Sends, Running
  <2>2. \A k \in DOMAIN stack : stack[k].task \in Idx =>
           stack[k].nb = nb[stack[k].task] /\ fut'[stack[k].task].leaf = "none"
    BY <1>0, <2>1 DEF Single, Contexts, Sends, OnlyMine
  <2>3. QED
    BY <2>2 DEF Contexts, Sends
<1>7. Results' /\ Calm'
  BY DEF Single, Results, Calm, Sends
<1>8. Futures'
  <2> SUFFICES ASSUME NEW j \in Idx
               PROVE  /\ fut'[j].cbuf = NoBuf /\ ~Streams(j)'
                      /\ fut'[j].leaf \in {"read", "complete"} \/ slot'[j] # "live"
                            => fut'[j].held = NoBuf
    BY DEF Futures
  <2>1. fut'[j].cbuf = NoBuf /\ ~Streams(j)'
    BY DEF Single, Futures, Streams, Sends, OnlyMine, SameRest
  <2>2. CASE j = i
    BY <1>0, <2>1, <2>2 DEF Sends, SingleOps
  <2>3. CASE j # i
    BY <1>0, <2>1, <2>3 DEF Single, Futures, Sends, OnlyMine
  <2>4. QED
    BY <2>1, <2>2, <2>3
<1>9. RootKept'
  <2>1. root' # "dropped" /\ pc # "start"
    BY DEF Single, RootKept, Sends
  <2>2. CASE root = "completed"
    BY <2>1, <2>2 DEF RootKept, Sends
  <2>3. CASE root # "completed"
    <3>1. PICK r \in Idx : slot[r] = "live" /\ fut[r].root /\ fut[r].leaf # "complete"
      BY <2>1, <2>3 DEF Single, RootKept
    <3>2. slot'[r] = "live" /\ fut'[r].root
      BY <3>1 DEF Sends, OnlyMine, SameRest
    <3>3. fut'[r].leaf # "complete"
      BY <1>0, <3>1 DEF Sends, OnlyMine, SingleOps
    <3>4. QED
      BY <2>1, <3>2, <3>3 DEF RootKept
  <2>4. QED
    BY <2>2, <2>3
<1>10. QED
  BY <1>4, <1>5, <1>6, <1>7, <1>8, <1>9 DEF Single

(* A step that goes on with the body submits nothing. *)
LEMMA GoesOnStep == ASSUME IInv, Single, GoesOn PROVE Single'
<1>0. PICK i \in Idx : /\ i = current.task /\ slot[i] = "live" /\ owed[i] > 0
                       /\ current'.task = i
  BY CurrentLive DEF GoesOn, Running
<1>1. \A j \in Idx : SqesOf(j)' = SqesOf(j)
  BY DEF GoesOn, SqesOf
<1>3. current.nb = nb[i] /\ nb' = nb
  BY <1>0 DEF GoesOn, Single, Contexts
<1>4. OneSqe'
  <2> SUFFICES ASSUME NEW j \in Idx, slot'[j] = "live"
               PROVE  IF Polling(j)' THEN SqesOf(j)' = {} ELSE Armed(j)' \/ Returned(j)'
    BY DEF OneSqe
  <2>1. Polling(j)' <=> Polling(j)
    BY DEF Polling, GoesOn
  <2>2. IF Polling(j) THEN SqesOf(j) = {} ELSE Armed(j) \/ Returned(j)
    BY DEF Single, OneSqe, GoesOn
  <2>3. CASE j = i
    BY <1>0, <1>1, <2>1, <2>2, <2>3 DEF Polling, GoesOn
  <2>4. CASE j # i
    <3>1. fut'[j] = fut[j] /\ sqes' = sqes
      BY <1>0, <2>4 DEF GoesOn, OnlyMine
    <3>2. (Armed(j) => Armed(j)') /\ (Returned(j) => Returned(j)')
      BY <1>1, <1>3, <3>1 DEF Armed, Returned
    <3>3. QED
      BY <1>1, <2>1, <2>2, <3>2
  <2>5. QED
    BY <2>3, <2>4
<1>6. Contexts'
  <2>1. \A k \in DOMAIN stack : stack[k].task # i
    BY <1>0 DEF IInv, Core, Nested, GoesOn, Running
  <2>2. \A k \in DOMAIN stack : stack[k].task \in Idx =>
           stack[k].nb = nb[stack[k].task] /\ fut'[stack[k].task].leaf = "none"
    BY <1>0, <2>1 DEF Single, Contexts, GoesOn, OnlyMine
  <2>3. QED
    BY <1>0, <1>3, <2>2 DEF Contexts, GoesOn, Me
<1>7. Results' /\ Calm' /\ Unanswered'
  BY DEF Single, Results, Calm, Unanswered, GoesOn
<1>8. Futures'
  <2> SUFFICES ASSUME NEW j \in Idx
               PROVE  /\ fut'[j].cbuf = NoBuf /\ ~Streams(j)'
                      /\ fut'[j].leaf \in {"read", "complete"} \/ slot'[j] # "live"
                            => fut'[j].held = NoBuf
    BY DEF Futures
  <2>1. fut'[j].cbuf = NoBuf /\ ~Streams(j)'
    BY DEF Single, Futures, Streams, GoesOn, OnlyMine, SameRest
  <2>2. CASE j = i
    BY <1>0, <2>1, <2>2 DEF GoesOn
  <2>3. CASE j # i
    BY <1>0, <2>1, <2>3 DEF Single, Futures, GoesOn, OnlyMine
  <2>4. QED
    BY <2>1, <2>2, <2>3
<1>9. RootKept'
  <2>1. root' # "dropped" /\ pc # "start"
    BY DEF Single, RootKept, GoesOn
  <2>2. CASE root = "completed"
    BY <2>1, <2>2 DEF RootKept, GoesOn
  <2>3. CASE root # "completed"
    <3>1. PICK r \in Idx : slot[r] = "live" /\ fut[r].root /\ fut[r].leaf # "complete"
      BY <2>1, <2>3 DEF Single, RootKept
    <3>2. slot'[r] = "live" /\ fut'[r].root
      BY <3>1 DEF GoesOn, OnlyMine, SameRest
    <3>3. fut'[r].leaf # "complete"
      BY <1>0, <3>1 DEF GoesOn, OnlyMine
    <3>4. QED
      BY <2>1, <3>2, <3>3 DEF RootKept
  <2>4. QED
    BY <2>2, <2>3
<1>10. QED
  BY <1>4, <1>6, <1>7, <1>8, <1>9 DEF Single

(* The body returns: nothing is outstanding, and block_on's own is counted. *)
LEMMA CompleteStep == ASSUME IInv, Single, Complete PROVE Single'
<1> USE DEF ringVars, boundVars
<1>0. PICK i \in Idx : /\ i = current.task /\ slot[i] = "live" /\ owed[i] > 0
                       /\ pc = "run"
  BY CurrentLive DEF Complete, Running
<1>a. /\ pc' = "ret" /\ current'.task = i
      /\ OnlyMine /\ fut'[i].leaf = "complete" /\ fut'[i].held = NoBuf
      /\ root' = IF fut[i].root /\ root # "dropped" THEN "completed" ELSE root
      /\ UNCHANGED <<fault, current, stack, slot, nb, owed, sqes, posted, entries>>
  <2>1. fut' = [fut EXCEPT ![current.task].leaf = "complete", ![current.task].held = NoBuf]
    BY DEF Complete
  <2>2. fut \in [Idx -> Future]
    BY DEF IInv, TypeOK
  <2>3. OnlyMine /\ fut'[i].leaf = "complete" /\ fut'[i].held = NoBuf
    BY <1>0, <2>1, <2>2, Writes
  <2>4. QED
    BY <1>0, <2>3 DEF Complete, Me
<1>1. \A j \in Idx : SqesOf(j)' = SqesOf(j)
  BY <1>a DEF SqesOf
<1>2. Polling(i) /\ SqesOf(i) = {}
  BY <1>0 DEF Polling, Single, OneSqe
<1>4. OneSqe'
  <2> SUFFICES ASSUME NEW j \in Idx, slot'[j] = "live"
               PROVE  IF Polling(j)' THEN SqesOf(j)' = {} ELSE Armed(j)' \/ Returned(j)'
    BY DEF OneSqe
  <2>1. CASE j = i
    BY <1>a, <1>1, <1>2, <2>1 DEF Polling, Returned
  <2>2. CASE j # i
    <3>1. Polling(j)' <=> Polling(j)
      BY <1>0, <1>a, <2>2 DEF Polling
    <3>2. IF Polling(j) THEN SqesOf(j) = {} ELSE Armed(j) \/ Returned(j)
      BY <1>a DEF Single, OneSqe
    <3>3. fut'[j] = fut[j] /\ sqes' = sqes /\ nb' = nb
      BY <1>0, <1>a, <2>2 DEF OnlyMine
    <3>4. (Armed(j) => Armed(j)') /\ (Returned(j) => Returned(j)')
      BY <1>1, <3>3 DEF Armed, Returned
    <3>5. QED
      BY <1>1, <3>1, <3>2, <3>4
  <2>3. QED
    BY <2>1, <2>2
<1>5. Unanswered'
  BY <1>a, <1>1, <1>2 DEF Unanswered
<1>6. Contexts'
  <2>1. \A k \in DOMAIN stack : stack[k].task # i
    BY <1>0 DEF IInv, Core, Nested, Running
  <2>2. \A k \in DOMAIN stack : stack[k].task \in Idx =>
           stack[k].nb = nb[stack[k].task] /\ fut'[stack[k].task].leaf = "none"
    BY <1>0, <1>a, <2>1 DEF Single, Contexts, OnlyMine
  <2>3. QED
    BY <1>a, <2>2 DEF Contexts
<1>7. Results' /\ Calm'
  BY <1>a DEF Single, Results, Calm
<1>8. Futures'
  <2> SUFFICES ASSUME NEW j \in Idx
               PROVE  /\ fut'[j].cbuf = NoBuf /\ ~Streams(j)'
                      /\ fut'[j].leaf \in {"read", "complete"} \/ slot'[j] # "live"
                            => fut'[j].held = NoBuf
    BY DEF Futures
  <2>1. fut'[j].cbuf = NoBuf /\ ~Streams(j)'
    BY <1>a DEF Single, Futures, Streams, OnlyMine, SameRest
  <2>2. CASE j = i
    BY <1>a, <2>1, <2>2
  <2>3. CASE j # i
    BY <1>0, <1>a, <2>1, <2>3 DEF Single, Futures, OnlyMine
  <2>4. QED
    BY <2>1, <2>2, <2>3
<1>9. RootKept'
  <2>1. root' # "dropped" /\ root # "dropped"
    BY <1>a DEF Single, RootKept
  <2>2. CASE root = "completed" \/ fut[i].root
    BY <1>a, <2>1, <2>2 DEF RootKept
  <2>3. CASE root # "completed" /\ ~fut[i].root
    <3>1. PICK r \in Idx : slot[r] = "live" /\ fut[r].root /\ fut[r].leaf # "complete"
      BY <1>0, <2>3 DEF Single, RootKept
    <3>2. slot'[r] = "live" /\ fut'[r] = fut[r]
      BY <1>0, <1>a, <2>3, <3>1 DEF OnlyMine
    <3>3. QED
      BY <2>1, <3>1, <3>2 DEF RootKept
  <2>4. QED
    BY <2>2, <2>3
<1>10. QED
  BY <1>4, <1>5, <1>6, <1>7, <1>8, <1>9 DEF Single

(* spawn(): the new task has nothing outstanding and the number 0 on both
   sides; the one that spawns keeps its own number in the saved context. *)
LEMMA SpawnSingle ==
    ASSUME IInv, Single, NEW n \in Idx, NEW r \in BOOLEAN, NEW context \in TaskInfo,
           \/ pc = "run" /\ context = current
           \/ pc \in {"start", "done", "error"} /\ context.task \notin Idx,
           pc = "start" => r,
           SpawnTask(n, r, context), UNCHANGED <<fault, ringVars, avail, root>>
    PROVE  Single'
<1> USE DEF ringVars
<1>1. /\ slot[n] = "free" /\ pc' = "run"
      /\ slot' = [slot EXCEPT ![n] = "live"]
      /\ nb' = [nb EXCEPT ![n] = 0]
      /\ fut' = [fut EXCEPT ![n] = NewFuture(r)]
      /\ owed' = [owed EXCEPT ![n] = 2]
      /\ stack' = Append(stack, context)
      /\ current' = InitialPoll(n)
  BY DEF SpawnTask, Owed
<1>2. /\ slot \in [Idx -> {"free", "live", "dead"}] /\ nb \in [Idx -> SyscallNumber]
      /\ owed \in [Idx -> 0 .. 2] /\ stack \in Seq(TaskInfo) /\ fut \in [Idx -> Future]
  BY DEF IInv, TypeOK
<1>3. /\ slot'[n] = "live" /\ nb'[n] = 0 /\ fut'[n] = NewFuture(r) /\ owed'[n] = 2
      /\ \A j \in Idx : j # n => /\ slot'[j] = slot[j] /\ nb'[j] = nb[j] /\ fut'[j] = fut[j]
                                 /\ owed'[j] = owed[j]
  BY <1>1, <1>2
<1>4. current'.task = n /\ current'.nb = 0
  BY <1>1 DEF InitialPoll
<1>5. /\ fut'[n].leaf = "none" /\ fut'[n].held = NoBuf /\ fut'[n].cbuf = NoBuf
      /\ fut'[n].astream = "Init" /\ fut'[n].rstream = "Init" /\ fut'[n].root = r
  BY <1>3 DEF NewFuture
<1>6. SqesOf(n) = {} /\ owed[n] = 0 /\ \A j \in Idx : SqesOf(j)' = SqesOf(j)
  BY <1>1 DEF IInv, Core, Vacated, SqesOf
<1>7. OneSqe'
  <2> SUFFICES ASSUME NEW j \in Idx, slot'[j] = "live"
               PROVE  IF Polling(j)' THEN SqesOf(j)' = {} ELSE Armed(j)' \/ Returned(j)'
    BY DEF OneSqe
  <2>1. CASE j = n
    BY <1>1, <1>3, <1>6, <2>1 DEF Polling
  <2>2. CASE j # n
    <3>1. Polling(j)' <=> Polling(j)
      BY <1>1, <1>3, <2>2 DEF Polling
    <3>2. IF Polling(j) THEN SqesOf(j) = {} ELSE Armed(j) \/ Returned(j)
      BY <1>3, <2>2 DEF Single, OneSqe
    <3>3. (Armed(j) => Armed(j)') /\ (Returned(j) => Returned(j)')
      BY <1>3, <1>6, <2>2 DEF Armed, Returned
    <3>4. QED
      BY <1>6, <3>1, <3>2, <3>3
  <2>3. QED
    BY <2>1, <2>2
<1>8. Unanswered' /\ Calm' /\ Results'
  BY <1>1 DEF Single, Unanswered, Calm, Results
<1>9. Contexts'
  <2>1. /\ Len(stack) \in Nat /\ DOMAIN stack = 1 .. Len(stack)
        /\ DOMAIN stack' = 1 .. Len(stack) + 1
        /\ \A k \in DOMAIN stack : stack'[k] = stack[k]
        /\ stack'[Len(stack) + 1] = context
    BY <1>1, <1>2
  <2>2. \A k \in DOMAIN stack : stack[k].task \in Idx =>
           /\ stack[k].task # n
           /\ stack[k].nb = nb[stack[k].task] /\ fut[stack[k].task].leaf = "none"
    BY <1>6 DEF Single, Contexts, IInv, Core, Nested
  <2>3. context.task \in Idx =>
           /\ context.task # n
           /\ context.nb = nb[context.task] /\ fut[context.task].leaf = "none"
    <3>1. CASE pc = "run" /\ context = current
      BY <1>6, <3>1 DEF Single, Contexts, Me, IInv, Core, Polled, Running
    <3>2. CASE context.task \notin Idx
      BY <3>2
    <3>3. QED
      BY <3>1, <3>2
  <2>4. ASSUME NEW k \in DOMAIN stack', stack'[k].task \in Idx
        PROVE  stack'[k].nb = nb'[stack'[k].task] /\ fut'[stack'[k].task].leaf = "none"
    <3>1. CASE k \in DOMAIN stack
      <4>1. PICK t : t = stack[k].task
        OBVIOUS
      <4>2. t \in Idx /\ t # n /\ stack[k].nb = nb[t] /\ fut[t].leaf = "none" /\ stack'[k] = stack[k]
        BY <2>1, <2>2, <2>4, <3>1, <4>1
      <4>3. QED
        BY <1>3, <4>1, <4>2
    <3>2. CASE k = Len(stack) + 1
      BY <1>3, <2>1, <2>3, <2>4, <3>2
    <3>3. QED
      BY <2>1, <3>1, <3>2
  <2>5. QED
    BY <1>1, <1>3, <1>4, <1>5, <2>4 DEF Contexts, Me
<1>10. Futures'
  <2> SUFFICES ASSUME NEW j \in Idx
               PROVE  /\ fut'[j].cbuf = NoBuf /\ ~Streams(j)'
                      /\ fut'[j].leaf \in {"read", "complete"} \/ slot'[j] # "live"
                            => fut'[j].held = NoBuf
    BY DEF Futures
  <2>1. CASE j = n
    BY <1>5, <2>1 DEF Streams
  <2>2. CASE j # n
    BY <1>3, <2>2 DEF Single, Futures, Streams
  <2>3. QED
    BY <2>1, <2>2
<1>11. RootKept'
  <2>1. root' # "dropped"
    BY DEF Single, RootKept
  <2>2. CASE r
    BY <1>3, <1>5, <2>1, <2>2 DEF RootKept
  <2>3. CASE ~r /\ root = "completed"
    BY <2>1, <2>3 DEF RootKept
  <2>4. CASE ~r /\ root # "completed"
    <3>1. PICK q \in Idx : slot[q] = "live" /\ fut[q].root /\ fut[q].leaf # "complete"
      BY <2>4 DEF Single, RootKept
    <3>2. slot'[q] = "live" /\ fut'[q] = fut[q]
      BY <1>1, <1>3, <3>1
    <3>3. QED
      BY <2>1, <3>1, <3>2 DEF RootKept
  <2>5. QED
    BY <2>2, <2>3, <2>4
<1>12. QED
  BY <1>7, <1>8, <1>9, <1>10, <1>11 DEF Single

(* block_on's spawn() and a body's. *)
LEMMA SpawnsSingle == ASSUME IInv, Single, BlockOn \/ BlockOnAgain \/ Spawn PROVE Single'
<1>1. CASE BlockOn \/ BlockOnAgain
  <2>1. PICK n \in Idx : SpawnTask(n, TRUE, Dummy)
    BY <1>1 DEF BlockOn, BlockOnAgain
  <2>2. UNCHANGED <<fault, ringVars, avail, root>> /\ pc \in {"start", "done", "error"}
    BY <1>1 DEF BlockOn, BlockOnAgain
  <2>3. QED
    BY <2>1, <2>2, DummyType, SpawnSingle
<1>2. CASE Spawn
  <2>1. PICK n \in Idx : SpawnTask(n, FALSE, current)
    BY <1>2 DEF Spawn
  <2>2. UNCHANGED <<fault, ringVars, avail, root>> /\ pc = "run" /\ current \in TaskInfo
    BY <1>2 DEF Spawn, Start, IInv, TypeOK
  <2>3. QED
    BY <2>1, <2>2, SpawnSingle
<1>3. QED
  BY <1>1, <1>2

-----------------------------------------------------------------------------
(***************************************************************************)
(* Polls that return.                                                      *)
(***************************************************************************)

(* A poll leaves one SQE behind, and its reference, or the body has returned
   and the release frees the task, which holds nothing any more. *)
LEMMA ReturnFacts ==
    ASSUME IInv, Single, AfterPoll, NEW i \in Idx, i = current.task,
           NEW sl, sl = SlotAfterRelease(i, owed[i])
    PROVE  /\ avail' = avail /\ root' = root
           /\ slot[i] = "live" /\ owed[i] > 0 /\ owed' = [owed EXCEPT ![i] = 0]
           /\ \/ Armed(i) /\ fut' = fut /\ sl = slot
              \/ /\ Returned(i) /\ fut' = [fut EXCEPT ![i] = NewFuture(FALSE)]
                 /\ sl = [slot EXCEPT ![i] = "dead"]
<1>1. pc = "ret" /\ Release(i, owed[i]) /\ owed' = [owed EXCEPT ![i] = 0]
  BY DEF AfterPoll
<1>2. slot[i] = "live" /\ owed[i] > 0
  BY <1>1, CurrentLive DEF Running
<1>3. rc[i] - owed[i] = Cardinality(SqesOf(i)) /\ rc[i] \in Nat /\ owed[i] \in 0 .. 2
  BY <1>2, RcCovers DEF IInv, TypeOK
<1>4. Armed(i) \/ Returned(i)
  BY <1>1, <1>2 DEF Single, OneSqe, Polling
<1>5. CASE Armed(i)
  <2>1. Cardinality(SqesOf(i)) = 1
    BY <1>5, FS_Singleton DEF Armed
  <2>2. rc[i] # owed[i]
    BY <1>3, <2>1
  <2>3. avail' = avail /\ fut' = fut /\ root' = root /\ sl = slot
    BY <1>1, <2>2 DEF Release, SlotAfterRelease
  <2>4. QED
    BY <1>1, <1>2, <1>5, <2>3
<1>6. CASE Returned(i)
  <2>1. Cardinality(SqesOf(i)) = 0
    BY <1>6, FS_EmptySet DEF Returned
  <2>2. rc[i] = owed[i]
    BY <1>3, <2>1
  <2>3. fut[i].held = NoBuf /\ fut[i].leaf = "complete"
    BY <1>6 DEF Returned, Single, Futures
  <2>4. /\ avail' = avail /\ root' = root /\ fut' = [fut EXCEPT ![i] = NewFuture(FALSE)]
        /\ sl = [slot EXCEPT ![i] = "dead"]
    BY <1>1, <2>2, <2>3 DEF Release, SlotAfterRelease, release_read_buf
  <2>5. QED
    BY <1>1, <1>2, <1>6, <2>4
<1>7. QED
  BY <1>4, <1>5, <1>6

(* Whoever the poll returns to, and whether or not the slot is vacated. *)
LEMMA ReturnSingle ==
    ASSUME IInv, Single, AfterPoll, NEW i \in Idx, i = current.task,
           NEW sl, sl = SlotAfterRelease(i, owed[i]),
           \A j \in Idx : slot'[j] = "live" <=> sl[j] = "live",
           pc' \in {"run", "done", "submit", "handle"},
           pc' = "run" => \E k \in DOMAIN stack : current' = stack[k] /\ stack[k].task \in Idx,
           \A k \in DOMAIN stack' : k \in DOMAIN stack /\ stack'[k] = stack[k],
           UNCHANGED <<fault, nb, ringVars>>
    PROVE  Single'
<1> USE DEF ringVars
<1>1. /\ avail' = avail /\ root' = root
      /\ slot[i] = "live" /\ owed[i] > 0 /\ owed' = [owed EXCEPT ![i] = 0]
      /\ \/ Armed(i) /\ fut' = fut /\ sl = slot
         \/ /\ Returned(i) /\ fut' = [fut EXCEPT ![i] = NewFuture(FALSE)]
            /\ sl = [slot EXCEPT ![i] = "dead"]
  BY ReturnFacts
<1>2. /\ slot \in [Idx -> {"free", "live", "dead"}] /\ owed \in [Idx -> 0 .. 2]
      /\ fut \in [Idx -> Future] /\ pc = "ret"
  BY DEF IInv, TypeOK, AfterPoll
<1>3. /\ owed'[i] = 0
      /\ \A j \in Idx : j # i => /\ owed'[j] = owed[j] /\ fut'[j] = fut[j]
                                 /\ slot'[j] = "live" <=> slot[j] = "live"
  BY <1>1, <1>2, ZenonT(40)
<1>4. \A j \in Idx : SqesOf(j)' = SqesOf(j)
  BY DEF SqesOf
<1>5. \/ Armed(i) /\ fut'[i] = fut[i] /\ slot'[i] = "live"
      \/ Returned(i) /\ fut'[i] = NewFuture(FALSE) /\ slot'[i] # "live"
  BY <1>1, <1>2
<1>6. OneSqe'
  <2> SUFFICES ASSUME NEW j \in Idx, slot'[j] = "live"
               PROVE  IF Polling(j)' THEN SqesOf(j)' = {} ELSE Armed(j)' \/ Returned(j)'
    BY DEF OneSqe
  <2>1. CASE j = i
    <3>1. ~Polling(i)'
      BY <1>3 DEF Polling
    <3>2. Armed(i) /\ fut'[i] = fut[i]
      BY <1>5, <2>1
    <3>3. Armed(i)'
      BY <1>4, <3>2 DEF Armed
    <3>4. QED
      BY <2>1, <3>1, <3>3
  <2>2. CASE j # i
    <3>1. Polling(j)' <=> Polling(j)
      BY <1>2, <1>3, <2>2 DEF Polling
    <3>2. IF Polling(j) THEN SqesOf(j) = {} ELSE Armed(j) \/ Returned(j)
      BY <1>3, <2>2 DEF Single, OneSqe
    <3>3. (Armed(j) => Armed(j)') /\ (Returned(j) => Returned(j)')
      BY <1>3, <1>4, <2>2 DEF Armed, Returned
    <3>4. QED
      BY <1>4, <3>1, <3>2, <3>3
  <2>3. QED
    BY <2>1, <2>2
<1>7. \A k \in DOMAIN stack : stack[k].task \in Idx =>
         /\ stack[k].task # i
         /\ stack[k].nb = nb[stack[k].task] /\ fut[stack[k].task].leaf = "none"
  BY <1>2 DEF Single, Contexts, IInv, Core, Nested, Running
<1>8. \A k \in DOMAIN stack : stack[k].task \in Idx =>
         stack[k].nb = nb'[stack[k].task] /\ fut'[stack[k].task].leaf = "none"
  BY <1>3, <1>7
<1>9. Contexts'
  BY <1>8 DEF Contexts, Me
<1>10. Unanswered' /\ Calm' /\ Results'
  BY DEF Single, Unanswered, Calm, Results
<1>11. Futures'
  <2> SUFFICES ASSUME NEW j \in Idx
               PROVE  /\ fut'[j].cbuf = NoBuf /\ ~Streams(j)'
                      /\ fut'[j].leaf \in {"read", "complete"} \/ slot'[j] # "live"
                            => fut'[j].held = NoBuf
    BY DEF Futures
  <2>1. CASE j = i /\ fut'[i] = NewFuture(FALSE)
    BY <2>1 DEF Streams, NewFuture
  <2>2. CASE fut'[j] = fut[j] /\ (slot'[j] = "live" <=> slot[j] = "live")
    BY <2>2 DEF Single, Futures, Streams
  <2>3. QED
    BY <1>1, <1>3, <1>5, <2>1, <2>2
<1>12. RootKept'
  <2>1. root' # "dropped"
    BY <1>1 DEF Single, RootKept
  <2>2. CASE root = "completed"
    BY <1>1, <2>1, <2>2 DEF RootKept
  <2>3. CASE root # "completed"
    <3>1. PICK q \in Idx : slot[q] = "live" /\ fut[q].root /\ fut[q].leaf # "complete"
      BY <1>2, <2>3 DEF Single, RootKept
    <3>2. slot'[q] = "live" /\ fut'[q] = fut[q]
      BY <1>3, <1>5, <3>1 DEF Returned
    <3>3. QED
      BY <2>1, <3>1, <3>2 DEF RootKept
  <2>4. QED
    BY <2>2, <2>3
<1>13. QED
  BY <1>6, <1>9, <1>10, <1>11, <1>12 DEF Single

(* A poll that returns keeps the invariant. *)
LEMMA ReturnsSingle == ASSUME IInv, Single, Returns PROVE Single'
BY ReturnShape, ReturnSingle

-----------------------------------------------------------------------------
(***************************************************************************)
(* The loop and the kernel.                                                *)
(***************************************************************************)

(* Between polls a submission is the one its live task awaits. *)
LEMMA SqeIsAwaited ==
    ASSUME IInv, Single, pc \notin Running \cup {"panic"}, NEW s \in sqes
    PROVE  /\ s.task \in Idx /\ slot[s.task] = "live" /\ owed[s.task] = 0
           /\ SqesOf(s.task) = {s} /\ s.nb = nb[s.task]
           /\ s.op = fut[s.task].leaf /\ s.op \in SingleOps
<1>1. PICK i : i = s.task
  OBVIOUS
<1>2. i \in Idx /\ s \in SqesOf(i)
  BY <1>1 DEF IInv, Core, Untasked, SqesOf, Single, SingleShot
<1>3. slot[i] = "live" /\ owed[i] = 0
  <2>1. owed[i] \in 0 .. 2
    BY <1>2 DEF IInv, TypeOK
  <2>2. QED
    BY <1>2, <2>1 DEF IInv, Core, Vacated, Owers
<1>4. Armed(i)
  BY <1>2, <1>3 DEF Single, OneSqe, Polling, Returned
<1>5. QED
  BY <1>1, <1>2, <1>3, <1>4 DEF Armed

(* Steps between polls that change no task. *)
LEMMA LoopSingle ==
    ASSUME IInv, Single, pc \notin Running \cup {"start"}, pc' \notin Running \cup {"start"},
           \A j \in Idx : slot'[j] = "live" <=> slot[j] = "live",
           UNCHANGED <<stack, nb, fut, owed, sqes, root>>, Results', Calm'
    PROVE  Single'
<1>1. \A j \in Idx : SqesOf(j)' = SqesOf(j) /\ (Polling(j)' <=> Polling(j))
  BY DEF SqesOf, Polling, Running
<1>2. OneSqe'
  <2> SUFFICES ASSUME NEW j \in Idx, slot'[j] = "live"
               PROVE  IF Polling(j)' THEN SqesOf(j)' = {} ELSE Armed(j)' \/ Returned(j)'
    BY DEF OneSqe
  <2>1. (Armed(j) => Armed(j)') /\ (Returned(j) => Returned(j)')
    BY <1>1 DEF Armed, Returned
  <2>2. QED
    BY <1>1, <2>1 DEF Single, OneSqe
<1>3. Unanswered' /\ Contexts'
  BY DEF Single, Unanswered, Contexts, Running
<1>4. Futures' /\ RootKept'
  <2>1. Futures'
    BY DEF Single, Futures, Streams
  <2>2. RootKept'
    BY DEF Single, RootKept
  <2>3. QED
    BY <2>1, <2>2
<1>5. QED
  BY <1>2, <1>3, <1>4 DEF Single

(* submit_and_wait, whatever io_uring_enter does, and the drains. *)
LEMMA LoopStepsSingle ==
    ASSUME IInv, Single,
           SubmitAndWait \/ SubmitOverflow \/ SubmitFails \/ WokenEarly \/ Collect \/ EndBatch
    PROVE  Single'
<1> USE DEF taskVars, ringVars, boundVars
<1>1. /\ pc \in {"submit", "wait", "handle"} /\ pc' \in {"wait", "error", "panic", "done", "handle", "submit"}
      /\ pc' = "panic" => fault' \in {"no_entries", "sq_full"}
      /\ UNCHANGED <<stack, nb, fut, owed, sqes, root, entries>>
      /\ slot' = slot \/ slot' = free_unsed_slab_slot(slot)
  BY DEF SubmitAndWait, SubmitOverflow, Panic, SubmitFails, WokenEarly, Collect, EndBatch
<1>2. \A j \in Idx : slot'[j] = "live" <=> slot[j] = "live"
  BY <1>1 DEF free_unsed_slab_slot
<1>3. Results' /\ Calm'
  BY <1>1 DEF Single, Results, Calm
<1>4. QED
  BY <1>1, <1>2, <1>3, LoopSingle DEF Running

(* The kernel answers a single-shot SQE once, and a read with its buffer. *)
LEMMA KernelSingle == ASSUME IInv, Single, KernelPost PROVE Single'
<1> USE DEF loopVars, taskVars
<1>1. PICK s \in sqes \ (pending \cup posted) : Answer(s)
  BY DEF KernelPost
<1>2. PICK c \in KernelCqes(s) : entries' = Append(entries, c)
  BY <1>1 DEF Answer
<1>3. UNCHANGED <<loopVars, taskVars, sqes, pending, root>> /\ pc = "wait"
  BY <1>1 DEF KernelPost, Answer
<1>4. s.op \in SingleOps
  BY <1>3, SqeIsAwaited DEF Running
<1>5. c.sqe = s /\ Carries(s.op, c.res, c.more, c.buf)
  BY <1>4 DEF KernelCqes, Carries, SingleOps, Multishot, Receives
<1>6. entries \in Seq(Cqe) /\ c \in Cqe
  <2>1. TypeOK /\ s \in Sqe
    BY DEF IInv, TypeOK
  <2>2. QED
    BY <2>1, KernelCqesType DEF TypeOK
<1>7. \A k \in DOMAIN entries' : entries'[k] = c \/ (k \in DOMAIN entries /\ entries'[k] = entries[k])
  BY <1>2, <1>6
<1>8. Results' /\ Calm'
  BY <1>3, <1>5, <1>7 DEF Single, Results, Calm
<1>9. QED
  BY <1>3, <1>8, LoopSingle DEF Running

(* The completion at the head of the queue is the one its task awaits: its
   last, under the number of the task. *)
LEMMA HeadIsAwaited ==
    ASSUME IInv, Single, pc = "handle", entries # <<>>, NEW c, c = Head(entries)
    PROVE  /\ c \in Cqe /\ c = entries[1] /\ c.sqe \in sqes /\ c.sqe \in posted
           /\ c.sqe.task \in Idx /\ slot[c.sqe.task] = "live" /\ owed[c.sqe.task] = 0
           /\ SqesOf(c.sqe.task) = {c.sqe} /\ c.sqe.nb = nb[c.sqe.task]
           /\ c.sqe.op = fut[c.sqe.task].leaf /\ c.sqe.op \in SingleOps
           /\ Carries(c.sqe.op, c.res, c.more, c.buf)
           /\ Verdict(c) \in {"Normal", "Multiple"}
<1>1. /\ entries \in Seq(Cqe) /\ 1 \in DOMAIN entries /\ c = entries[1] /\ c \in Cqe
  BY DEF IInv, TypeOK
<1>2. Carries(c.sqe.op, c.res, c.more, c.buf)
  BY <1>1 DEF Single, Results
<1>3. c.sqe \in sqes /\ c.sqe \in posted
  <2>1. ~c.more
    BY <1>2 DEF Carries
  <2>2. QED
    BY <1>1, <2>1 DEF IInv, Core, Queued
<1>4. /\ c.sqe.task \in Idx /\ slot[c.sqe.task] = "live" /\ owed[c.sqe.task] = 0
      /\ SqesOf(c.sqe.task) = {c.sqe} /\ c.sqe.nb = nb[c.sqe.task]
      /\ c.sqe.op = fut[c.sqe.task].leaf /\ c.sqe.op \in SingleOps
  BY <1>3, SqeIsAwaited DEF Running
<1>5. Verdict(c) \in {"Normal", "Multiple"}
  <2>1. PICK n \in SyscallNumber : n = c.sqe.nb
    BY <1>3 DEF IInv, TypeOK, Sqe
  <2>2. Rank(n) \in 0 .. MULTIPLE_MASK - 1 /\ MULTIPLE_MASK \in Nat
    BY <2>1, RankFacts, MaskAssumption
  <2>3. ~(Rank(n) < Rank(n)) /\ ~(Rank(n) > Rank(n))
    BY <2>2
  <2>4. evaluate_syscall_nb(n, n) \in {"Normal", "Multiple"}
    BY <2>3 DEF evaluate_syscall_nb
  <2>5. QED
    BY <1>4, <2>1, <2>4 DEF Verdict
<1>6. QED
  BY <1>1, <1>2, <1>3, <1>4, <1>5

(* The task is polled with it; nothing of the task is outstanding then. *)
LEMMA HandleSingle == ASSUME IInv, Single, HandleNormal \/ HandleMultiple PROVE Single'
<1> USE DEF boundVars
<1>1. PICK c : c = Head(entries)
  OBVIOUS
<1>2. PICK i : i = c.sqe.task
  OBVIOUS
<1>3. pc = "handle" /\ entries # <<>> /\ EnterPoll(c)
  BY <1>1 DEF HandleNormal, HandleMultiple, Dispatch
<1>4. /\ c \in Cqe /\ c = entries[1] /\ c.sqe \in sqes /\ c.sqe \in posted
      /\ i \in Idx /\ slot[i] = "live" /\ owed[i] = 0
      /\ SqesOf(i) = {c.sqe} /\ c.sqe.nb = nb[i]
      /\ c.sqe.op = fut[i].leaf /\ c.sqe.op \in SingleOps
      /\ Carries(c.sqe.op, c.res, c.more, c.buf)
  BY <1>1, <1>2, <1>3, HeadIsAwaited
<1>5. /\ entries' = Tail(entries) /\ sqes' = sqes \ {c.sqe}
      /\ owed' = [owed EXCEPT ![i] = 2]
      /\ pc' = "leaf"
      /\ UNCHANGED <<fault, stack, slot, fut, avail, root>>
  BY <1>2, <1>3, <1>4 DEF EnterPoll, TakeEntry, Owed, Carries
<1>6. /\ owed \in [Idx -> 0 .. 2] /\ nb \in [Idx -> SyscallNumber] /\ entries \in Seq(Cqe)
  BY DEF IInv, TypeOK
<1>7. owed'[i] > 0 /\ \A j \in Idx : j # i => owed'[j] = owed[j]
  BY <1>4, <1>5, <1>6
<1>8. /\ SqesOf(i)' = {}
      /\ \A j \in Idx : j # i => SqesOf(j)' = SqesOf(j)
  BY <1>2, <1>4, <1>5 DEF SqesOf
<1>9. /\ current'.task = i /\ current'.op = c.sqe.op /\ current'.res = c.res
      /\ current'.more = c.more /\ current'.buf = c.buf
      /\ \A j \in Idx : j # i => nb'[j] = nb[j]
      /\ current'.nb = nb'[i]
  <2>1. CASE HandleNormal
    <3>1. /\ nb' = [nb EXCEPT ![i] = augmente_syscall_nb(nb[i])]
          /\ current' = [FromEntry(c) EXCEPT !.nb = FromEntry(c).nb + 1]
      BY <1>1, <1>2, <2>1 DEF HandleNormal
    <3>2. /\ current'.task = i /\ current'.op = c.sqe.op /\ current'.res = c.res
          /\ current'.more = c.more /\ current'.buf = c.buf
          /\ current'.nb = c.sqe.nb + 1
      BY <1>2, <3>1 DEF FromEntry
    <3>3. nb'[i] = Rank(nb[i]) + 1 /\ \A j \in Idx : j # i => nb'[j] = nb[j]
      BY <1>4, <1>6, <3>1 DEF augmente_syscall_nb
    <3>4. ~IsMultiple(nb[i])
      <4>1. evaluate_syscall_nb(nb[i], c.sqe.nb) = "Normal"
        BY <1>1, <1>2, <1>4, <2>1 DEF HandleNormal, Dispatch, Verdict
      <4>2. QED
        BY <4>1 DEF evaluate_syscall_nb, IsMultiple
    <3>5. Rank(nb[i]) = nb[i]
      BY <1>4, <1>6, <3>4, RankFacts
    <3>6. QED
      BY <1>4, <3>2, <3>3, <3>5
  <2>2. CASE HandleMultiple
    <3>1. nb' = nb /\ current' = FromEntry(c)
      BY <1>1, <2>2 DEF HandleMultiple
    <3>2. QED
      BY <1>2, <1>4, <3>1 DEF FromEntry
  <2>3. QED
    BY <2>1, <2>2
<1>10. OneSqe'
  <2> SUFFICES ASSUME NEW j \in Idx, slot'[j] = "live"
               PROVE  IF Polling(j)' THEN SqesOf(j)' = {} ELSE Armed(j)' \/ Returned(j)'
    BY DEF OneSqe
  <2>1. CASE j = i
    BY <1>5, <1>7, <1>8, <2>1 DEF Polling
  <2>2. CASE j # i
    <3>1. Polling(j)' <=> Polling(j)
      BY <1>3, <1>5, <1>7, <2>2 DEF Polling
    <3>2. IF Polling(j) THEN SqesOf(j) = {} ELSE Armed(j) \/ Returned(j)
      BY <1>5 DEF Single, OneSqe
    <3>3. Returned(j) => Returned(j)'
      BY <1>5, <1>8, <2>2 DEF Returned
    <3>4. Armed(j) => Armed(j)'
      <4> SUFFICES ASSUME NEW s \in sqes, SqesOf(j) = {s} /\ s.nb = nb[j]
                                       /\ s.op = fut[j].leaf /\ s.op \in SingleOps
                   PROVE  Armed(j)'
        BY DEF Armed
      <4>1. s.task = j
        BY DEF SqesOf
      <4>2. s \in sqes'
        BY <1>2, <1>5, <2>2, <4>1
      <4>3. SqesOf(j)' = {s} /\ s.nb = nb'[j] /\ s.op = fut'[j].leaf
        BY <1>5, <1>8, <1>9, <2>2
      <4>4. QED
        BY <4>2, <4>3 DEF Armed
    <3>5. QED
      BY <1>8, <2>2, <3>1, <3>2, <3>3, <3>4
  <2>3. QED
    BY <2>1, <2>2
<1>11. Contexts'
  <2>1. stack' = <<>>
    BY <1>3, <1>5 DEF IInv, Core, Nested, Running
  <2>2. QED
    BY <1>4, <1>5, <1>9, <2>1 DEF Contexts, Me
<1>12. Results'
  <2>1. \A k \in DOMAIN entries' : k + 1 \in DOMAIN entries /\ entries'[k] = entries[k + 1]
    BY <1>3, <1>5, <1>6
  <2>2. QED
    BY <1>4, <1>9, <2>1 DEF Single, Results
<1>13. Futures' /\ RootKept'
  <2>1. Futures'
    BY <1>5 DEF Single, Futures, Streams
  <2>2. RootKept'
    BY <1>3, <1>5 DEF Single, RootKept
  <2>3. QED
    BY <2>1, <2>2
<1>14. Unanswered' /\ Calm'
  BY <1>5 DEF Unanswered, Calm
<1>15. QED
  BY <1>10, <1>11, <1>12, <1>13, <1>14 DEF Single

(* No completion is stale, or newer than its task, or without one. *)
LEMMA NoStale == ASSUME IInv, Single PROVE ~HandleExpired /\ ~HandlePanics
BY HeadIsAwaited DEF HandleExpired, HandlePanics, Dispatch

-----------------------------------------------------------------------------
(***************************************************************************)
(* The steps that single-shot programs take.                               *)
(***************************************************************************)
Sending == Accept \/ Write \/ Connect \/ Read \/ PollConnecting

Going == DropBuffer \/ PollAccept \/ PollWrite \/ PollConnected \/ PollRead

Entering == SubmitAndWait \/ SubmitOverflow \/ SubmitFails \/ WokenEarly \/ Collect \/ EndBatch

Spawning == BlockOn \/ BlockOnAgain \/ Spawn

Handling == HandleNormal \/ HandleMultiple

SingleNext ==
    \/ Sending \/ Going \/ Complete \/ Spawning \/ Returns \/ Entering \/ KernelPost \/ Handling
    \/ UNCHANGED vars

(* No other action is enabled. *)
LEMMA OnlySingle == ASSUME IInv, Single, [Next]_vars PROVE SingleNext
<1>1. CASE Loop
  BY <1>1, NoStale DEF Loop, SingleNext, Spawning, Returns, Entering, Handling
<1>2. CASE Body
  BY <1>2 DEF Body, SingleNext, Sending, Going, Spawning, Single, SingleShot, Start, AcceptStreamInit,
              AcceptStreamNext, ReadStreamInit, ReadStreamNext, Commit, WriteMultiple,
              WriteMultipleNone, SubmitWBuffer, AwaitForeign
<1>3. CASE Poll
  <2>1. pc = "leaf" => Me.leaf \in SingleOps
    BY DEF Single, Contexts
  <2>2. ~PollCommit /\ ~PollAcceptStream /\ ~PollReadStream /\ ~PollWriteMultiple
    BY <2>1 DEF PollCommit, PollAcceptStream, PollReadStream, PollWriteMultiple, PollLeaf, SingleOps
  <2>3. ~PollWriteMultipleUnknown /\ ~PollForeign /\ ~PollForeignReady /\ ~PollCompleted
    BY <2>1 DEF PollWriteMultipleUnknown, PollForeign, PollForeignReady, PollCompleted, PollLeaf,
                SingleOps
  <2>4. QED
    BY <1>3, <2>2, <2>3 DEF Poll, SingleNext, Sending, Going
<1>4. CASE KernelPost \/ Faults \/ BlockOnAgain \/ UNCHANGED vars
  BY <1>4 DEF SingleNext, Faults, Entering, Spawning
<1>5. QED
  BY <1>1, <1>2, <1>3, <1>4 DEF Next, Terminated

(* An operation that suspends its task, or a socket that goes on to CONNECT,
   submits one SQE. *)
LEMMA SendingShape == ASSUME IInv, Single, Sending PROVE \E s : Sends(s)
<1>0. pc \in {"run", "leaf"}
  BY DEF Sending, Accept, Write, Connect, Read, PollConnecting, PollLeaf, Start
<1>1. current.task \in Idx /\ fut \in [Idx -> Future]
  BY <1>0, CurrentLive DEF Running, IInv, TypeOK
<1>2. ASSUME NEW op \in {"accept", "write", "socket", "read"}, pc = "run", Submit(op),
             op = "read" => Me.held = NoBuf
      PROVE  \E s : Sends(s)
  <2>1. Send(op, current.nb, NoBuf) /\ current' = current /\ nb' = nb
    BY <1>2 DEF Submit, SendSingle
  <2>2. PICK s : /\ s.task = current.task /\ s.nb = current.nb /\ s.op = op /\ s \notin sqes
                 /\ sqes' = sqes \cup {s}
    BY <1>1, <2>1, NewSqe
  <2>3. /\ OnlyMine /\ fut'[current.task].leaf = op
        /\ fut'[current.task].held = fut[current.task].held
    BY <1>1, <1>2, Writes DEF Submit
  <2>4. fut[current.task].leaf # "complete"
    BY <1>2 DEF Single, Contexts, Me
  <2>5. /\ pc' = "ret" /\ UNCHANGED <<fault, stack, slot, owed, posted, entries, avail, root>>
    BY <1>2 DEF Submit
  <2>6. Sends(s)
    BY <1>2, <2>1, <2>2, <2>3, <2>4, <2>5 DEF Sends, SingleOps, Me
  <2>7. QED
    BY <2>6
<1>3. CASE Accept \/ Write \/ Connect \/ Read
  BY <1>2, <1>3 DEF Accept, Write, Connect, Read, Start
<1>4. CASE PollConnecting
  <2>1. Send("connect", current.nb, NoBuf) /\ current' = current /\ nb' = nb
    BY <1>4 DEF PollConnecting, SendSingle
  <2>2. PICK s : /\ s.task = current.task /\ s.nb = current.nb /\ s.op = "connect" /\ s \notin sqes
                 /\ sqes' = sqes \cup {s}
    BY <1>1, <2>1, NewSqe
  <2>3. fut' = [fut EXCEPT ![current.task].leaf = "connect", ![current.task].fd = current.res]
    BY <1>4 DEF PollConnecting
  <2>4. /\ OnlyMine /\ fut'[current.task].leaf = "connect"
        /\ fut'[current.task].held = fut[current.task].held
    BY <1>1, <2>3, Writes
  <2>5. pc = "leaf" /\ Me.leaf \in {"socket", "connect"} /\ current.buf = NoBuf
    BY <1>4 DEF PollConnecting, PollLeaf, Single, Contexts, Results, Carries
  <2>6. /\ pc' = "ret" /\ UNCHANGED <<fault, stack, slot, owed, posted, entries, avail, root>>
    BY <1>4 DEF PollConnecting
  <2>7. Sends(s)
    BY <2>1, <2>2, <2>4, <2>5, <2>6 DEF Sends, SingleOps, Me
  <2>8. QED
    BY <2>7
<1>5. QED
  BY <1>3, <1>4 DEF Sending

(* Any other leaf future is Ready at its first poll with a completion. *)
LEMMA GoingShape == ASSUME IInv, Single, Going PROVE GoesOn
<1> USE DEF ringVars, boundVars, loopVars
<1>0. pc \in {"run", "leaf"}
  BY DEF Going, DropBuffer, PollAccept, PollWrite, PollConnected, PollRead, PollLeaf
<1>1. current.task \in Idx /\ fut \in [Idx -> Future]
  BY <1>0, CurrentLive DEF Running, IInv, TypeOK
<1>2. CASE DropBuffer
  <2>1. fut' = [fut EXCEPT ![current.task].held = NoBuf]
    BY <1>2 DEF DropBuffer
  <2>2. OnlyMine /\ fut'[current.task].leaf = fut[current.task].leaf
    BY <1>1, <2>1, Writes
  <2>3. fut[current.task].leaf = "none"
    BY <1>2 DEF DropBuffer, Single, Contexts, Me
  <2>4. QED
    BY <1>2, <2>2, <2>3 DEF GoesOn, DropBuffer
<1>3. CASE PollAccept \/ PollWrite
  <2>1. fut' = [fut EXCEPT ![current.task].leaf = "none"]
    BY <1>3 DEF PollAccept, PollWrite, Resolve
  <2>2. OnlyMine /\ fut'[current.task].leaf = "none"
    BY <1>1, <2>1, Writes
  <2>3. QED
    BY <1>3, <2>2 DEF GoesOn, PollAccept, PollWrite, Resolve, PollLeaf, Me
<1>4. CASE PollConnected
  <2>1. fut' = [fut EXCEPT ![current.task].leaf = "none", ![current.task].fd = "zero"]
    BY <1>4 DEF PollConnected
  <2>2. OnlyMine /\ fut'[current.task].leaf = "none"
    BY <1>1, <2>1, Writes
  <2>3. QED
    BY <1>4, <2>2 DEF GoesOn, PollConnected, PollLeaf, Me
<1>5. CASE PollRead
  <2>1. current.res = "pos" => current.buf # NoBuf
    BY <1>5 DEF PollRead, PollLeaf, Single, Contexts, Results, Carries
  <2>2. \/ fut' = [fut EXCEPT ![current.task].leaf = "none", ![current.task].held = current.buf]
        \/ fut' = [fut EXCEPT ![current.task].leaf = "none"]
    BY <1>5, <2>1 DEF PollRead
  <2>3. OnlyMine /\ fut'[current.task].leaf = "none"
    BY <1>1, <2>2, Writes
  <2>4. pc' = "run" /\ fault' = fault
    BY <1>5, <2>1 DEF PollRead
  <2>5. QED
    BY <1>5, <2>3, <2>4 DEF GoesOn, PollRead, PollLeaf, Me
<1>6. QED
  BY <1>2, <1>3, <1>4, <1>5 DEF Going

(* Every step keeps the strengthening. *)
LEMMA NextSingle == ASSUME IInv, Single, SingleNext PROVE Single'
<1>1. CASE Sending \/ Going
  BY <1>1, SendingShape, GoingShape, SendsStep, GoesOnStep
<1>2. CASE Complete \/ Spawning \/ Returns \/ Entering \/ KernelPost \/ Handling
  BY <1>2, CompleteStep, SpawnsSingle, ReturnsSingle, LoopStepsSingle, KernelSingle, HandleSingle
  DEF Spawning, Entering, Handling
<1>3. CASE UNCHANGED vars
  <2> USE DEF vars, loopVars, taskVars, ringVars, boundVars
  <2>1. OneSqe'
    BY <1>3 DEF Single, OneSqe, Polling, Armed, Returned, SqesOf
  <2>2. Unanswered' /\ Contexts' /\ Results' /\ Calm'
    BY <1>3 DEF Single, Unanswered, SqesOf, Contexts, Me, Results, Calm
  <2>3. Futures' /\ RootKept'
    BY <1>3 DEF Single, Futures, Streams, RootKept
  <2>4. QED
    BY <2>1, <2>2, <2>3 DEF Single
<1>4. QED
  BY <1>1, <1>2, <1>3 DEF SingleNext

-----------------------------------------------------------------------------
(***************************************************************************)
(* The ledger of read buffers.                                             *)
(***************************************************************************)

(* A step that moves no buffer. *)
LEMMA StayPut ==
    ASSUME Ledger, avail' = avail, entries' = entries,
           \A j \in Idx : fut'[j].held = fut[j].held,
           \A b \in Buf : Carried(b)' <=> Carried(b)
    PROVE  Ledger'
<1> SUFFICES ASSUME NEW b \in Buf
             PROVE  InRing(b)' \/ InQueue(b)' \/ InTask(b)' \/ InPoll(b)'
  BY DEF Ledger
<1>1. Queue(b)' = Queue(b) /\ Holders(b)' = Holders(b) /\ (Carried(b)' <=> Carried(b))
  BY DEF Queue, Holders
<1>2. InRing(b) \/ InQueue(b) \/ InTask(b) \/ InPoll(b)
  BY DEF Ledger
<1>3. QED
  BY <1>1, <1>2 DEF InRing, InQueue, InTask, InPoll

(* RwBuffer::drop: from the task to the buf_ring. *)
LEMMA DropsIt ==
    ASSUME TypeOK, Ledger, NEW i \in Idx, avail' = release_read_buf(fut[i].held),
           entries' = entries, fut'[i].held = NoBuf,
           \A j \in Idx : j # i => fut'[j].held = fut[j].held,
           pc # "leaf", pc' # "leaf"
    PROVE  Ledger'
<1>0. PICK h \in Buf \cup {NoBuf} : h = fut[i].held
  BY DEF TypeOK, Future
<1>1. CASE h = NoBuf
  <2>1. avail' = avail /\ \A j \in Idx : fut'[j].held = fut[j].held
    BY <1>0, <1>1 DEF release_read_buf
  <2>2. QED
    BY <2>1, StayPut DEF Carried
<1>2. CASE h \in Buf
  <2>0. h # NoBuf
    BY <1>2, ConstantAssumption
  <2>1. avail' = [avail EXCEPT ![h] = avail[h] + 1] /\ avail \in [Buf -> Nat]
    BY <1>0, <2>0 DEF release_read_buf, TypeOK
  <2>2. i \in Holders(h)
    BY <1>0 DEF Holders
  <2>3. InTask(h) /\ Holders(h) = {i}
    BY <1>2, <2>2 DEF Ledger, InRing, InQueue, InTask, InPoll
  <2> SUFFICES ASSUME NEW b \in Buf
               PROVE  InRing(b)' \/ InQueue(b)' \/ InTask(b)' \/ InPoll(b)'
    BY DEF Ledger
  <2>4. Queue(b)' = Queue(b) /\ ~Carried(b)' /\ ~Carried(b)
    BY DEF Queue, Carried
  <2>5. CASE b = h
    <3>1. avail'[b] = 1
      BY <1>2, <2>1, <2>3, <2>5 DEF InTask
    <3>2. Holders(b)' = {}
      BY <2>0, <2>3, <2>5 DEF Holders
    <3>3. QED
      BY <2>3, <2>4, <2>5, <3>1, <3>2 DEF InTask, InRing
  <2>6. CASE b # h
    <3>1. avail'[b] = avail[b]
      BY <1>2, <2>1, <2>6
    <3>2. Holders(b)' = Holders(b)
      BY <1>0, <2>6, ConstantAssumption DEF Holders
    <3>3. QED
      BY <2>4, <3>1, <3>2 DEF Ledger, InRing, InQueue, InTask, InPoll
  <2>7. QED
    BY <2>5, <2>6
<1>3. QED
  BY <1>1, <1>2

(* ReadFuture::Pending: the buffer of the completion goes to the body, or back
   to the buf_ring. *)
LEMMA ReadLedger == ASSUME IInv, Single, Ledger, PollRead PROVE Ledger'
<1> USE DEF ringVars
<1>0. /\ pc = "leaf" /\ Me.leaf = "read" /\ current.op = "read"
      /\ current.res = "pos" => current.buf # NoBuf
  BY DEF PollRead, PollLeaf, Single, Contexts, Results, Carries
<1>1. PICK i \in Idx : i = current.task
  BY <1>0, CurrentLive DEF Running
<1>2. PICK b0 \in Buf \cup {NoBuf} : b0 = current.buf
  BY DEF IInv, TypeOK, TaskInfo
<1>3. /\ pc' = "run" /\ entries' = entries /\ current' = current
      /\ current.res = "pos" => avail' = avail
      /\ current.res # "pos" => avail' = release_read_buf(b0)
      /\ avail \in [Buf -> Nat] /\ fut \in [Idx -> Future]
  BY <1>0, <1>2 DEF PollRead, ReadFailed, IInv, TypeOK
<1>4. fut[i].held = NoBuf
  BY <1>0, <1>1 DEF Single, Futures, Me
<1>5. /\ \A j \in Idx : j # i => fut'[j].held = fut[j].held
      /\ fut'[i].held = IF current.res = "pos" THEN b0 ELSE NoBuf
  <2>1. CASE current.res = "pos"
    <3>1. fut' = [fut EXCEPT ![current.task].leaf = "none", ![current.task].held = current.buf]
      BY <1>0, <2>1 DEF PollRead
    <3>2. OnlyMine /\ fut'[current.task].held = current.buf
      BY <1>1, <1>3, <3>1, Writes
    <3>3. QED
      BY <1>1, <1>2, <2>1, <3>2 DEF OnlyMine
  <2>2. CASE current.res # "pos"
    <3>1. fut' = [fut EXCEPT ![current.task].leaf = "none"]
      BY <2>2 DEF PollRead
    <3>2. OnlyMine /\ fut'[current.task].held = fut[current.task].held
      BY <1>1, <1>3, <3>1, Writes
    <3>3. QED
      BY <1>1, <1>4, <2>2, <3>2 DEF OnlyMine
  <2>3. QED
    BY <2>1, <2>2
<1>6. CASE b0 = NoBuf
  <2>1. avail' = avail /\ \A j \in Idx : fut'[j].held = fut[j].held
    BY <1>0, <1>2, <1>3, <1>4, <1>5, <1>6 DEF release_read_buf
  <2>2. \A b \in Buf : ~Carried(b) /\ ~Carried(b)'
    BY <1>2, <1>3, <1>6, ConstantAssumption DEF Carried
  <2>3. QED
    BY <1>3, <2>1, <2>2, StayPut
<1>7. CASE b0 \in Buf
  <2>0. b0 # NoBuf
    BY <1>7, ConstantAssumption
  <2>1. InPoll(b0)
    BY <1>0, <1>2, <1>7 DEF Ledger, InRing, InQueue, InTask, InPoll, Carried
  <2> SUFFICES ASSUME NEW b \in Buf
               PROVE  InRing(b)' \/ InQueue(b)' \/ InTask(b)' \/ InPoll(b)'
    BY DEF Ledger
  <2>2. Queue(b)' = Queue(b) /\ ~Carried(b)'
    BY <1>3 DEF Queue, Carried
  <2>3. CASE b = b0 /\ current.res = "pos"
    <3>1. avail'[b] = 0 /\ Queue(b) = {} /\ Holders(b) = {}
      BY <1>3, <2>1, <2>3 DEF InPoll
    <3>2. Holders(b)' = {i}
      BY <1>5, <2>3, <3>1 DEF Holders
    <3>3. QED
      BY <2>2, <3>1, <3>2 DEF InTask
  <2>4. CASE b = b0 /\ current.res # "pos"
    <3>1. avail[b] = 0 /\ Queue(b) = {} /\ Holders(b) = {}
      BY <2>1, <2>4 DEF InPoll
    <3>2. avail' = [avail EXCEPT ![b0] = avail[b0] + 1]
      BY <1>3, <2>0, <2>4 DEF release_read_buf
    <3>3. avail'[b] = 1
      BY <1>3, <2>4, <3>1, <3>2
    <3>4. Holders(b)' = {}
      BY <1>5, <2>0, <2>4, <3>1 DEF Holders
    <3>5. QED
      BY <2>2, <3>1, <3>3, <3>4 DEF InRing
  <2>5. CASE b # b0
    <3>1. avail'[b] = avail[b]
      BY <1>3, <2>5 DEF release_read_buf
    <3>2. Holders(b)' = Holders(b)
      BY <1>4, <1>5, <2>5, ConstantAssumption DEF Holders
    <3>3. ~Carried(b)
      BY <1>2, <2>5 DEF Carried
    <3>4. QED
      BY <1>3, <2>2, <3>1, <3>2, <3>3 DEF Ledger, InRing, InQueue, InTask, InPoll
  <2>6. QED
    BY <2>3, <2>4, <2>5
<1>8. QED
  BY <1>6, <1>7

(* The kernel takes a buffer out of the buf_ring for the completion it posts. *)
LEMMA KernelLedger == ASSUME IInv, Ledger, KernelPost PROVE Ledger'
<1> USE DEF loopVars, taskVars
<1>1. PICK s \in sqes \ (pending \cup posted) : Answer(s)
  BY DEF KernelPost
<1>2. PICK c \in KernelCqes(s) :
         /\ entries' = Append(entries, c)
         /\ avail' = IF c.buf = NoBuf THEN avail ELSE [avail EXCEPT ![c.buf] = avail[c.buf] - 1]
  BY <1>1 DEF Answer
<1>3. UNCHANGED <<loopVars, taskVars>> /\ pc = "wait"
  BY <1>1 DEF KernelPost, Answer
<1>4. /\ entries \in Seq(Cqe) /\ avail \in [Buf -> Nat] /\ c \in Cqe
      /\ c.buf # NoBuf => c.buf \in Buf /\ avail[c.buf] > 0
  <2>1. TypeOK /\ s \in Sqe
    BY DEF IInv, TypeOK
  <2>2. QED
    BY <2>1, KernelCqesType DEF TypeOK
<1>5. PICK n \in Nat : /\ n = Len(entries) /\ DOMAIN entries = 1 .. n
                       /\ DOMAIN entries' = 1 .. n + 1 /\ entries'[n + 1] = c
                       /\ \A k \in 1 .. n : entries'[k] = entries[k]
  <2>1. Len(entries) \in Nat /\ DOMAIN entries = 1 .. Len(entries)
    BY <1>4
  <2>2. /\ DOMAIN entries' = 1 .. Len(entries) + 1 /\ entries'[Len(entries) + 1] = c
        /\ \A k \in 1 .. Len(entries) : entries'[k] = entries[k]
    BY <1>2, <1>4
  <2>3. QED
    BY <2>1, <2>2
<1> SUFFICES ASSUME NEW b \in Buf
             PROVE  InRing(b)' \/ InQueue(b)' \/ InTask(b)' \/ InPoll(b)'
  BY DEF Ledger
<1>6. Holders(b)' = Holders(b) /\ ~Carried(b)' /\ ~Carried(b)
  BY <1>3 DEF Holders, Carried
<1>7. CASE c.buf = b
  <2>1. b # NoBuf /\ avail[b] > 0
    BY <1>4, <1>7, ConstantAssumption
  <2>2. InRing(b)
    BY <2>1 DEF Ledger, InRing, InQueue, InTask, InPoll
  <2>3. avail'[b] = 0
    BY <1>2, <1>4, <1>7, <2>1, <2>2 DEF InRing
  <2>4. Queue(b)' = {n + 1}
    <3>1. \A k \in 1 .. n : entries[k].buf # b
      BY <1>5, <2>2 DEF InRing, Queue
    <3>2. QED
      BY <1>5, <1>7, <3>1 DEF Queue
  <2>5. QED
    BY <1>5, <1>6, <2>2, <2>3, <2>4 DEF InRing, InQueue
<1>8. CASE c.buf # b
  <2>1. avail'[b] = avail[b]
    BY <1>2, <1>4, <1>8
  <2>2. Queue(b)' = Queue(b) /\ DOMAIN entries \subseteq DOMAIN entries'
    BY <1>5, <1>8 DEF Queue
  <2>3. InRing(b) \/ InQueue(b) \/ InTask(b) \/ InPoll(b)
    BY DEF Ledger
  <2>4. /\ InRing(b) => InRing(b)'
        /\ InTask(b) => InTask(b)'
        /\ ~InPoll(b)
    BY <1>6, <2>1, <2>2 DEF InRing, InTask, InPoll
  <2>5. InQueue(b) => InQueue(b)'
    BY <1>6, <2>1, <2>2 DEF InQueue
  <2>6. QED
    BY <2>3, <2>4, <2>5
<1>9. QED
  BY <1>7, <1>8

(* handle_cqe_entry: from the head of the queue to CURRENT_TASK. *)
LEMMA HandleLedger == ASSUME IInv, Ledger, HandleNormal \/ HandleMultiple PROVE Ledger'
<1>1. PICK c : c = Head(entries)
  OBVIOUS
<1>2. /\ pc = "handle" /\ entries # <<>> /\ pc' = "leaf" /\ entries' = Tail(entries)
      /\ avail' = avail /\ fut' = fut
  BY <1>1 DEF HandleNormal, HandleMultiple, Dispatch, EnterPoll, TakeEntry
<1>3. current'.buf = c.buf
  BY <1>1 DEF HandleNormal, HandleMultiple, FromEntry
<1>4. entries \in Seq(Cqe)
  BY DEF IInv, TypeOK
<1>5. PICK n \in Nat : /\ n > 0 /\ DOMAIN entries = 1 .. n /\ DOMAIN entries' = 1 .. n - 1
                       /\ c = entries[1]
                       /\ \A k \in 1 .. n - 1 : entries'[k] = entries[k + 1]
  BY <1>1, <1>2, <1>4
<1> SUFFICES ASSUME NEW b \in Buf
             PROVE  InRing(b)' \/ InQueue(b)' \/ InTask(b)' \/ InPoll(b)'
  BY DEF Ledger
<1>6. Holders(b)' = Holders(b) /\ avail'[b] = avail[b] /\ ~Carried(b)
  BY <1>2 DEF Holders, Carried
<1>7. CASE c.buf = b
  <2>1. 1 \in Queue(b) /\ Carried(b)'
    BY <1>2, <1>3, <1>5, <1>7 DEF Queue, Carried
  <2>2. InQueue(b) /\ Queue(b) = {1}
    BY <2>1 DEF Ledger, InRing, InQueue, InTask, InPoll
  <2>3. Queue(b)' = {}
    <3> SUFFICES ASSUME NEW k \in 1 .. n - 1, entries'[k].buf = b PROVE FALSE
      BY <1>5 DEF Queue
    <3>1. k + 1 \in Queue(b) /\ k + 1 # 1
      BY <1>5 DEF Queue
    <3>2. QED
      BY <2>2, <3>1
  <2>4. QED
    BY <1>6, <2>1, <2>2, <2>3 DEF InQueue, InPoll
<1>8. CASE c.buf # b
  <2>1. ~Carried(b)' /\ 1 \notin Queue(b)
    BY <1>3, <1>5, <1>8 DEF Carried, Queue
  <2>2. \A k \in 1 .. n - 1 : k \in Queue(b)' <=> k + 1 \in Queue(b)
    BY <1>5 DEF Queue
  <2>3. Queue(b)' \subseteq 1 .. n - 1 /\ Queue(b) \subseteq 1 .. n
    BY <1>5 DEF Queue
  <2>4. CASE InQueue(b)
    <3>1. PICK k \in 1 .. n : Queue(b) = {k}
      BY <1>5, <2>4 DEF InQueue
    <3>2. k # 1
      BY <2>1, <3>1
    <3>3. k - 1 \in 1 .. n - 1
      BY <1>5, <3>1, <3>2
    <3>4. Queue(b)' = {k - 1}
      <4>1. k - 1 \in Queue(b)'
        BY <2>2, <3>1, <3>3
      <4>2. ASSUME NEW j \in Queue(b)' PROVE j = k - 1
        <5>1. j \in 1 .. n - 1 /\ j + 1 = k
          BY <2>2, <2>3, <3>1, <4>2
        <5>2. QED
          BY <3>1, <5>1
      <4>3. QED
        BY <4>1, <4>2
    <3>5. QED
      BY <1>5, <1>6, <2>1, <2>4, <3>3, <3>4 DEF InQueue
  <2>5. CASE ~InQueue(b)
    <3>1. Queue(b) = {}
      BY <1>6, <2>5 DEF Ledger, InRing, InTask, InPoll
    <3>2. Queue(b)' = {}
      BY <2>2, <2>3, <3>1
    <3>3. QED
      BY <1>6, <2>1, <2>5, <3>1, <3>2 DEF Ledger, InRing, InTask, InPoll
  <2>6. QED
    BY <2>4, <2>5
<1>9. QED
  BY <1>7, <1>8

(* Every step keeps the ledger. *)
LEMMA NextLedger == ASSUME IInv, Single, Ledger, SingleNext PROVE Ledger'
<1> USE DEF ringVars, taskVars, boundVars, loopVars
<1>1. CASE Sending
  <2>1. PICK s : Sends(s)
    BY <1>1, SendingShape
  <2>2. current.task \in Idx
    BY <2>1, CurrentLive DEF Sends, Running
  <2>3. avail' = avail /\ entries' = entries /\ \A j \in Idx : fut'[j].held = fut[j].held
    BY <2>1, <2>2 DEF Sends, OnlyMine
  <2>4. \A b \in Buf : ~Carried(b) /\ ~Carried(b)'
    BY <2>1, ConstantAssumption DEF Sends, Carried
  <2>5. QED
    BY <2>3, <2>4, StayPut
<1>2. CASE DropBuffer \/ Complete
  <2>1. pc = "run" /\ pc' \in {"run", "ret"} /\ entries' = entries
    BY <1>2 DEF DropBuffer, Complete
  <2>2. PICK i \in Idx : i = current.task
    BY <2>1, CurrentLive DEF Running
  <2>3. \/ fut' = [fut EXCEPT ![current.task].held = NoBuf]
        \/ fut' = [fut EXCEPT ![current.task].leaf = "complete", ![current.task].held = NoBuf]
    BY <1>2 DEF DropBuffer, Complete
  <2>4. fut \in [Idx -> Future]
    BY DEF IInv, TypeOK
  <2>5. OnlyMine /\ fut'[i].held = NoBuf
    BY <2>2, <2>3, <2>4, Writes
  <2>6. avail' = release_read_buf(fut[i].held)
    BY <1>2, <2>2 DEF DropBuffer, Complete, DropRwBuffer, Me
  <2>7. \A j \in Idx : j # i => fut'[j].held = fut[j].held
    BY <2>2, <2>5 DEF OnlyMine
  <2>8. QED
    BY <2>1, <2>5, <2>6, <2>7, DropsIt DEF IInv
<1>3. CASE PollAccept \/ PollWrite \/ PollConnected
  <2>1. pc = "leaf" /\ pc' = "run" /\ entries' = entries /\ avail' = avail /\ Me.leaf # "read"
    BY <1>3 DEF PollAccept, PollWrite, Resolve, PollConnected, PollLeaf
  <2>2. PICK i \in Idx : i = current.task
    BY <2>1, CurrentLive DEF Running
  <2>3. \/ fut' = [fut EXCEPT ![current.task].leaf = "none"]
        \/ fut' = [fut EXCEPT ![current.task].leaf = "none", ![current.task].fd = "zero"]
    BY <1>3 DEF PollAccept, PollWrite, Resolve, PollConnected
  <2>4. fut \in [Idx -> Future]
    BY DEF IInv, TypeOK
  <2>5. OnlyMine /\ fut'[i].held = fut[i].held
    BY <2>2, <2>3, <2>4, Writes, ZenonT(40)
  <2>6. current.buf = NoBuf
    BY <2>1 DEF Single, Contexts, Results, Carries
  <2>7. \A j \in Idx : fut'[j].held = fut[j].held
    BY <2>2, <2>5 DEF OnlyMine
  <2>8. \A b \in Buf : ~Carried(b) /\ ~Carried(b)'
    BY <2>1, <2>6, ConstantAssumption DEF Carried
  <2>9. QED
    BY <2>1, <2>7, <2>8, StayPut
<1>4. CASE PollRead
  BY <1>4, ReadLedger
<1>5. CASE Spawning
  <2>1. PICK n \in Idx, r \in BOOLEAN : /\ slot[n] = "free" /\ pc' = "run"
                                        /\ fut' = [fut EXCEPT ![n] = NewFuture(r)]
    BY <1>5 DEF Spawning, BlockOn, BlockOnAgain, Spawn, SpawnTask
  <2>2. pc # "leaf" /\ avail' = avail /\ entries' = entries
    BY <1>5 DEF Spawning, BlockOn, BlockOnAgain, Spawn, Start
  <2>3. fut[n].held = NoBuf /\ fut \in [Idx -> Future]
    BY <2>1 DEF Single, Futures, IInv, TypeOK
  <2>4. \A j \in Idx : fut'[j].held = fut[j].held
    BY <2>1, <2>3 DEF NewFuture
  <2>5. QED
    BY <2>1, <2>2, <2>4, StayPut DEF Carried
<1>6. CASE Returns
  <2>1. AfterPoll /\ pc' # "leaf" /\ pc = "ret" /\ entries' = entries
    BY <1>6, ReturnShape DEF AfterPoll
  <2>2. PICK i \in Idx : i = current.task
    BY <1>6, ReturnShape
  <2>3. /\ avail' = avail /\ fut \in [Idx -> Future]
        /\ fut' = fut \/ (Returned(i) /\ fut' = [fut EXCEPT ![i] = NewFuture(FALSE)])
    BY <2>1, <2>2, ReturnFacts DEF IInv, TypeOK
  <2>4. Returned(i) => fut[i].held = NoBuf
    BY DEF Single, Futures, Returned
  <2>5. \A j \in Idx : fut'[j].held = fut[j].held
    BY <2>3, <2>4 DEF NewFuture
  <2>6. QED
    BY <2>1, <2>3, <2>5, StayPut DEF Carried
<1>7. CASE Entering
  <2>1. pc # "leaf" /\ pc' # "leaf" /\ UNCHANGED <<fut, avail, entries>>
    BY <1>7 DEF Entering, SubmitAndWait, SubmitOverflow, Panic, SubmitFails, WokenEarly, Collect, EndBatch
  <2>2. QED
    BY <2>1, StayPut DEF Carried
<1>8. CASE KernelPost \/ Handling
  BY <1>8, KernelLedger, HandleLedger DEF Handling
<1>9. CASE UNCHANGED vars
  <2>1. UNCHANGED <<fut, avail, entries, pc, current>>
    BY <1>9 DEF vars
  <2>2. QED
    BY <2>1, StayPut DEF Carried
<1>10. QED
  BY <1>1, <1>2, <1>3, <1>4, <1>5, <1>6, <1>7, <1>8, <1>9 DEF SingleNext, Going

-----------------------------------------------------------------------------
(***************************************************************************)
(* The theorems.                                                           *)
(***************************************************************************)

(* The strengthening holds when block_on is called. *)
LEMMA InitSingle == SingleShot /\ Init => Single /\ Ledger
<1> SUFFICES ASSUME SingleShot, Init PROVE Single /\ Ledger
  OBVIOUS
<1> USE DEF Init
<1>1. \A i \in Idx : fut[i] = NewFuture(FALSE) /\ slot[i] = "free" /\ owed[i] = 0
  OBVIOUS
<1>2. \A i \in Idx : /\ fut[i].held = NoBuf /\ fut[i].cbuf = NoBuf
                     /\ fut[i].astream = "Init" /\ fut[i].rstream = "Init"
  BY <1>1 DEF NewFuture
<1>3. OneSqe /\ Futures
  BY <1>1, <1>2 DEF OneSqe, Futures, Streams
<1>4. Unanswered /\ Contexts /\ Results /\ Calm /\ RootKept
  BY DEF Unanswered, Contexts, Results, Calm, RootKept
<1>5. ASSUME NEW b \in Buf PROVE InRing(b)
  <2>1. avail[b] = 1 /\ Queue(b) = {} /\ ~Carried(b)
    BY DEF Queue, Carried
  <2>2. Holders(b) = {}
    BY <1>2, ConstantAssumption DEF Holders
  <2>3. QED
    BY <2>1, <2>2 DEF InRing
<1>6. QED
  BY <1>3, <1>4, <1>5 DEF Single, Ledger

(* The inductive invariant of single-shot programs. *)
SInv == IInv /\ Single /\ Ledger

(* It holds in every state such a program reaches. *)
THEOREM SingleInvariance == ASSUME SingleShot PROVE Spec => []SInv
<1>1. Init => SInv
  <2>1. FewTasks
    BY DEF SingleShot, FewTasks
  <2>2. QED
    BY <2>1, InitInv, InitSingle DEF SInv
<1>2. SInv /\ [Next]_vars => SInv'
  BY NextInv, OnlySingle, NextSingle, NextLedger DEF SInv
<1>3. QED
  BY <1>1, <1>2, PTL DEF Spec

(* A leaf future is polled only with a completion of its own operation, and
   no body is resumed after it has returned. *)
THEOREM EveryPollIsItsOwn == ASSUME SingleShot PROVE Spec => []OwnCompletion
<1>1. SInv => OwnCompletion
  BY DEF SInv, Single, Contexts, OwnCompletion
<1>2. QED
  BY <1>1, SingleInvariance, PTL

(* A read buffer is always in exactly one place: an entry of the buf_ring, a
   queued completion, the poll of a ReadFuture, or an RwBuffer. *)
THEOREM BuffersAccountedFor == ASSUME SingleShot PROVE Spec => []BufferLedger
<1>1. SInv => BufferLedger
  <2> SUFFICES ASSUME SInv, NEW b \in Buf PROVE Places(b) = 1
    BY DEF BufferLedger
  <2>1. {i \in Idx : fut[i].cbuf = b} = {}
    BY ConstantAssumption DEF SInv, Single, Futures
  <2>2. Cardinality({i \in Idx : fut[i].cbuf = b}) = 0
    BY <2>1, FS_EmptySet
  <2>3. Places(b) = avail[b] + Cardinality(Queue(b)) + Cardinality(Holders(b)) + 0
                    + (IF Carried(b) THEN 1 ELSE 0)
    BY <2>2 DEF Places, Queue, Holders, Carried
  <2>4. InRing(b) \/ InQueue(b) \/ InTask(b) \/ InPoll(b)
    BY DEF SInv, Ledger
  <2>5. /\ Queue(b) = {} => Cardinality(Queue(b)) = 0
        /\ Holders(b) = {} => Cardinality(Holders(b)) = 0
    BY FS_EmptySet
  <2>6. /\ InQueue(b) => Cardinality(Queue(b)) = 1
        /\ InTask(b) => Cardinality(Holders(b)) = 1
    BY FS_Singleton DEF InQueue, InTask
  <2>7. CASE InRing(b)
    BY <2>3, <2>5, <2>7 DEF InRing
  <2>8. CASE InQueue(b)
    BY <2>3, <2>5, <2>6, <2>8 DEF InQueue
  <2>9. CASE InTask(b)
    BY <2>3, <2>5, <2>6, <2>9 DEF InTask
  <2>10. CASE InPoll(b)
    BY <2>3, <2>5, <2>10 DEF InPoll
  <2>11. QED
    BY <2>4, <2>7, <2>8, <2>9, <2>10
<1>2. QED
  BY <1>1, SingleInvariance, PTL

(* block_on does not return Ok with its own future, or that of an earlier
   call, dropped unfinished. *)
THEOREM OkMeansCompleted == ASSUME SingleShot PROVE Spec => []RootCompletes
<1>1. SInv => RootCompletes
  BY DEF SInv, Single, RootKept, IInv, Core, Waiting, IsRuntimeFree, RootCompletes
<1>2. QED
  BY <1>1, SingleInvariance, PTL

(* The pending SQEs are of different tasks. *)
LEMMA PendingFits ==
    ASSUME SInv, pc = "submit", IsFiniteSet(Idx)
    PROVE  Cardinality(pending) <= Cardinality(Idx)
<1> DEFINE f == [s \in pending |-> s.task]
<1>1. \A s \in pending : s.task \in Idx /\ SqesOf(s.task) = {s}
  BY SqeIsAwaited DEF SInv, IInv, TypeOK, Running
<1>2. f \in [pending -> Idx]
  BY <1>1
<1>3. \A s, t \in pending : f[s] = f[t] => s = t
  BY <1>1
<1>4. f \in Injection(pending, Idx)
  BY <1>2, <1>3 DEF Injection, IsInjective
<1> HIDE DEF f
<1>5. QED
  BY <1>4, FS_Injection

(* With a submission queue as deep as the slab is long, the only panic is
   that of a wait a signal has interrupted: no completion is refused, no body
   is resumed after its end, no read succeeds without a buffer, and the
   pending SQEs fit. *)
THEOREM PanicFree ==
    ASSUME SingleShot, IsFiniteSet(Idx), Cardinality(Idx) <= RingEntries
    PROVE  Spec => []NoPanic
<1>1. Init => NoPanic
  BY DEF Init, NoPanic
<1>2. SInv /\ NoPanic /\ [Next]_vars => NoPanic'
  <2> SUFFICES ASSUME SInv, NoPanic, [Next]_vars, pc' = "panic" PROVE fault' = "no_entries"
    BY DEF NoPanic
  <2>1. SingleNext
    BY OnlySingle DEF SInv
  <2>2. CASE Sending \/ Going
    BY <2>2, SendingShape, GoingShape DEF SInv, Sends, GoesOn
  <2>3. CASE Complete \/ Spawning
    BY <2>3 DEF Complete, Spawning, BlockOn, BlockOnAgain, Spawn, SpawnTask
  <2>4. CASE Returns
    BY <2>4, ReturnShape DEF SInv
  <2>5. CASE Entering
    <3>1. ~SubmitOverflow
      <4>1. Cardinality(Idx) \in Nat /\ RingEntries \in Nat
        BY FS_CardinalityType, ConstantAssumption
      <4>2. SUFFICES ASSUME pc = "submit" PROVE ~(Cardinality(pending) > RingEntries)
        BY DEF SubmitOverflow
      <4>3. IsFiniteSet(sqes) /\ pending \subseteq sqes
        BY DEF SInv, IInv, Core, Fresh, TypeOK
      <4>4. Cardinality(pending) \in Nat
        BY <4>3, FS_Subset, FS_CardinalityType
      <4>5. Cardinality(pending) <= Cardinality(Idx)
        BY <4>2, PendingFits
      <4>6. QED
        BY <4>1, <4>4, <4>5
    <3>2. QED
      BY <2>5, <3>1 DEF Entering, SubmitAndWait, SubmitFails, WokenEarly, Collect, EndBatch
  <2>6. CASE KernelPost \/ UNCHANGED vars
    <3>1. pc' = pc /\ fault' = fault
      BY <2>6 DEF KernelPost, Answer, loopVars, vars
    <3>2. QED
      BY <3>1 DEF NoPanic
  <2>7. CASE Handling
    BY <2>7 DEF Handling, HandleNormal, HandleMultiple, EnterPoll
  <2>8. QED
    BY <2>1, <2>2, <2>3, <2>4, <2>5, <2>6, <2>7 DEF SingleNext
<1>3. QED
  BY <1>1, <1>2, SingleInvariance, PTL DEF Spec

(* A task leaves the slab only after its body has returned: a completion
   handled early or twice would free a task that still awaits. *)
THEOREM FreedOnlyWhenComplete == ASSUME SingleShot PROVE Spec => FreedWhenComplete
<1>1. SInv /\ [Next]_vars =>
         [\A i \in Idx : slot[i] = "live" /\ slot'[i] # "live" => fut[i].leaf = "complete"]_vars
  <2> SUFFICES ASSUME SInv, [Next]_vars, NEW j \in Idx, slot[j] = "live", slot'[j] # "live"
               PROVE  fut[j].leaf = "complete"
    OBVIOUS
  <2>1. SingleNext
    BY OnlySingle DEF SInv
  <2>2. CASE Sending \/ Going
    BY <2>2, SendingShape, GoingShape DEF SInv, Sends, GoesOn
  <2>3. CASE Complete
    BY <2>3 DEF Complete
  <2>4. CASE Spawning
    <3>1. PICK n \in Idx : slot' = [slot EXCEPT ![n] = "live"]
      BY <2>4 DEF Spawning, BlockOn, BlockOnAgain, Spawn, SpawnTask
    <3>2. slot \in [Idx -> {"free", "live", "dead"}]
      BY DEF SInv, IInv, TypeOK
    <3>3. QED
      BY <3>1, <3>2
  <2>5. CASE Returns
    <3>1. PICK i \in Idx : i = current.task
      BY <2>5, ReturnShape DEF SInv
    <3>2. PICK sl : sl = SlotAfterRelease(i, owed[i])
      OBVIOUS
    <3>3. AfterPoll /\ sl[j] # "live"
      BY <2>5, <3>1, <3>2, ReturnShape DEF SInv
    <3>4. Returned(i) /\ sl = [slot EXCEPT ![i] = "dead"]
      BY <3>1, <3>2, <3>3, ReturnFacts DEF SInv
    <3>5. slot \in [Idx -> {"free", "live", "dead"}]
      BY DEF SInv, IInv, TypeOK
    <3>6. j = i
      BY <3>3, <3>4, <3>5
    <3>7. QED
      BY <3>4, <3>6 DEF Returned
  <2>6. CASE Entering
    <3>1. slot' = slot \/ slot' = free_unsed_slab_slot(slot)
      BY <2>6 DEF Entering, SubmitAndWait, SubmitOverflow, Panic, SubmitFails, WokenEarly,
                  Collect, EndBatch, taskVars
    <3>2. QED
      BY <3>1 DEF free_unsed_slab_slot
  <2>7. CASE KernelPost \/ Handling \/ UNCHANGED vars
    BY <2>7 DEF KernelPost, Answer, Handling, HandleNormal, HandleMultiple, EnterPoll, taskVars, vars
  <2>8. QED
    BY <2>1, <2>2, <2>3, <2>4, <2>5, <2>6, <2>7 DEF SingleNext
<1>2. QED
  BY <1>1, SingleInvariance, PTL DEF Spec, FreedWhenComplete

-----------------------------------------------------------------------------
(***************************************************************************)
(* Every step is one of the executor's, or changes no status.              *)
(***************************************************************************)

(* A task that is neither the one a step is about nor touched by it. *)
LEMMA SameStatus ==
    ASSUME NEW j \in Idx, slot'[j] = "live" <=> slot[j] = "live",
           slot[j] = "live" => fut'[j].leaf = fut[j].leaf /\ owed'[j] = owed[j]
                               /\ SqesOf(j)' \cap posted' = SqesOf(j) \cap posted
    PROVE  Status(j)' = Status(j)
BY DEF Status

(* The status of one task changes. *)
LEMMA OneMoves ==
    ASSUME NEW t \in Idx, NEW to, Status(t)' = to,
           \A j \in Idx : j # t => Status(j)' = Status(j)
    PROVE  [i \in Idx |-> Status(i)]' = [[i \in Idx |-> Status(i)] EXCEPT ![t] = to]
OBVIOUS

(* A step that submits or resolves leaves its task running. *)
LEMMA StaysRunning ==
    ASSUME SInv, Sending \/ Going, NEW j \in Idx
    PROVE  Status(j)' = Status(j)
<1>1. PICK i \in Idx : i = current.task /\ slot[i] = "live" /\ owed[i] > 0
  <2>1. pc \in {"run", "leaf"}
    BY SendingShape, GoingShape DEF SInv, Sends, GoesOn
  <2>2. QED
    BY <2>1, CurrentLive DEF Running, SInv
<1>2. CASE Sending
  <2>1. PICK s : Sends(s)
    BY <1>2, SendingShape DEF SInv
  <2>2. CASE j = i
    <3>1. Status(j) = "running"
      BY <1>1, <2>1, <2>2 DEF Status, Sends
    <3>2. Status(j)' = "running"
      BY <1>1, <2>1, <2>2 DEF Status, Sends, SingleOps
    <3>3. QED
      BY <3>1, <3>2
  <2>3. CASE j # i
    <3>1. SqesOf(j)' = SqesOf(j)
      BY <1>1, <2>1, <2>3 DEF Sends, SqesOf
    <3>2. QED
      BY <1>1, <2>1, <2>3, <3>1, SameStatus DEF Sends, OnlyMine
  <2>4. QED
    BY <2>2, <2>3
<1>3. CASE Going
  <2>1. GoesOn
    BY <1>3, GoingShape DEF SInv
  <2>2. CASE j = i
    BY <1>1, <2>1, <2>2 DEF Status, GoesOn
  <2>3. CASE j # i
    <3>1. SqesOf(j)' = SqesOf(j)
      BY <2>1 DEF GoesOn, SqesOf
    <3>2. QED
      BY <1>1, <2>1, <2>3, <3>1, SameStatus DEF GoesOn, OnlyMine
  <2>4. QED
    BY <2>2, <2>3
<1>4. QED
  BY <1>2, <1>3

(* The body returns: Finish. *)
LEMMA CompleteMoves ==
    ASSUME SInv, Complete
    PROVE  \E t \in Idx : /\ Status(t) = "running" /\ Status(t)' = "finished"
                          /\ \A j \in Idx : j # t => Status(j)' = Status(j)
<1> USE DEF ringVars
<1>1. PICK i \in Idx : i = current.task /\ slot[i] = "live" /\ owed[i] > 0 /\ fut[i].leaf = "none"
  BY CurrentLive DEF SInv, Complete, Running, Single, Contexts, Me
<1>2. OnlyMine /\ fut'[i].leaf = "complete"
  <2>1. fut' = [fut EXCEPT ![current.task].leaf = "complete", ![current.task].held = NoBuf]
    BY DEF Complete
  <2>2. fut \in [Idx -> Future]
    BY DEF SInv, IInv, TypeOK
  <2>3. QED
    BY <1>1, <2>1, <2>2, Writes
<1>3. UNCHANGED <<slot, owed, sqes, posted>>
  BY DEF Complete
<1>4. Status(i) = "running" /\ Status(i)' = "finished"
  BY <1>1, <1>2, <1>3 DEF Status
<1>5. ASSUME NEW j \in Idx, j # i PROVE Status(j)' = Status(j)
  <2>1. SqesOf(j)' = SqesOf(j)
    BY <1>3 DEF SqesOf
  <2>2. QED
    BY <1>1, <1>2, <1>3, <1>5, <2>1, SameStatus DEF OnlyMine
<1>6. QED
  BY <1>4, <1>5

(* spawn(): Spawn. *)
LEMMA SpawningMoves ==
    ASSUME SInv, Spawning
    PROVE  \E t \in Idx : /\ Status(t) = "absent" /\ Status(t)' = "running"
                          /\ \A j \in Idx : j # t => Status(j)' = Status(j)
<1> USE DEF ringVars
<1>1. PICK n \in Idx, r \in BOOLEAN :
         /\ slot[n] = "free" /\ slot' = [slot EXCEPT ![n] = "live"]
         /\ fut' = [fut EXCEPT ![n] = NewFuture(r)] /\ owed' = [owed EXCEPT ![n] = 2]
  BY DEF Spawning, BlockOn, BlockOnAgain, Spawn, SpawnTask, Owed
<1>2. UNCHANGED <<sqes, posted>>
  BY DEF Spawning, BlockOn, BlockOnAgain, Spawn
<1>3. /\ slot \in [Idx -> {"free", "live", "dead"}] /\ fut \in [Idx -> Future]
      /\ owed \in [Idx -> 0 .. 2]
  BY DEF SInv, IInv, TypeOK
<1>4. slot'[n] = "live" /\ owed'[n] = 2 /\ fut'[n].leaf = "none"
  BY <1>1, <1>3 DEF NewFuture
<1>5. Status(n) = "absent" /\ Status(n)' = "running"
  BY <1>1, <1>4 DEF Status
<1>6. ASSUME NEW j \in Idx, j # n PROVE Status(j)' = Status(j)
  <2>1. slot'[j] = slot[j] /\ fut'[j] = fut[j] /\ owed'[j] = owed[j]
    BY <1>1, <1>3, <1>6
  <2>2. SqesOf(j)' = SqesOf(j)
    BY <1>2 DEF SqesOf
  <2>3. QED
    BY <1>2, <2>1, <2>2, SameStatus
<1>7. QED
  BY <1>5, <1>6

(* A poll returns: Await, or Reap once the body has returned. *)
LEMMA ReturnsMove ==
    ASSUME SInv, Returns
    PROVE  \E t \in Idx : /\ \/ Status(t) = "running" /\ Status(t)' = "waiting"
                             \/ Status(t) = "finished" /\ Status(t)' = "absent"
                          /\ \A j \in Idx : j # t => Status(j)' = Status(j)
<1> USE DEF ringVars
<1>1. PICK i \in Idx : i = current.task
  BY ReturnShape DEF SInv
<1>2. PICK sl : sl = SlotAfterRelease(i, owed[i])
  OBVIOUS
<1>3. /\ AfterPoll /\ pc = "ret" /\ UNCHANGED <<sqes, posted>>
      /\ \A j \in Idx : slot'[j] = "live" <=> sl[j] = "live"
  BY <1>1, <1>2, ReturnShape DEF SInv, AfterPoll
<1>4. /\ slot[i] = "live" /\ owed[i] > 0 /\ owed' = [owed EXCEPT ![i] = 0]
      /\ \/ Armed(i) /\ fut' = fut /\ sl = slot
         \/ /\ Returned(i) /\ fut' = [fut EXCEPT ![i] = NewFuture(FALSE)]
            /\ sl = [slot EXCEPT ![i] = "dead"]
  BY <1>1, <1>2, <1>3, ReturnFacts DEF SInv
<1>5. /\ slot \in [Idx -> {"free", "live", "dead"}] /\ fut \in [Idx -> Future]
      /\ owed \in [Idx -> 0 .. 2]
  BY DEF SInv, IInv, TypeOK
<1>6. owed'[i] = 0 /\ \A j \in Idx : SqesOf(j)' = SqesOf(j)
  BY <1>3, <1>4, <1>5 DEF SqesOf
<1>7. ASSUME NEW j \in Idx, j # i PROVE Status(j)' = Status(j)
  <2>1. (slot'[j] = "live" <=> slot[j] = "live") /\ fut'[j] = fut[j] /\ owed'[j] = owed[j]
    BY <1>3, <1>4, <1>5, <1>7
  <2>2. QED
    BY <1>3, <1>6, <2>1, SameStatus
<1>8. \/ Status(i) = "running" /\ Status(i)' = "waiting"
      \/ Status(i) = "finished" /\ Status(i)' = "absent"
  <2>1. CASE Armed(i) /\ fut' = fut /\ sl = slot
    <3>1. fut[i].leaf # "complete" /\ fut'[i].leaf # "complete" /\ slot'[i] = "live"
      BY <1>3, <1>4, <2>1 DEF Armed, SingleOps
    <3>2. SqesOf(i)' \cap posted' = {} /\ ~(owed'[i] > 0)
      BY <1>1, <1>3, <1>6 DEF SInv, Single, Unanswered
    <3>3. Status(i) = "running" /\ Status(i)' = "waiting"
      BY <1>4, <3>1, <3>2 DEF Status
    <3>4. QED
      BY <3>3
  <2>2. CASE Returned(i) /\ sl = [slot EXCEPT ![i] = "dead"]
    <3>1. slot'[i] # "live"
      BY <1>3, <1>5, <2>2
    <3>2. QED
      BY <1>4, <2>2, <3>1 DEF Status, Returned
  <2>3. QED
    BY <1>4, <2>1, <2>2
<1>9. QED
  BY <1>7, <1>8

(* The kernel posts a completion: Answer. *)
LEMMA KernelMoves ==
    ASSUME SInv, KernelPost
    PROVE  \E t \in Idx : /\ Status(t) = "waiting" /\ Status(t)' = "answered"
                          /\ \A j \in Idx : j # t => Status(j)' = Status(j)
<1> USE DEF loopVars, taskVars
<1>1. PICK s \in sqes \ (pending \cup posted) : Answer(s)
  BY DEF KernelPost
<1>2. PICK c \in KernelCqes(s) : posted' = IF c.more THEN posted ELSE posted \cup {s}
  BY <1>1 DEF Answer
<1>3. UNCHANGED <<slot, fut, owed, sqes>> /\ pc = "wait"
  BY <1>1 DEF KernelPost, Answer
<1>4. PICK i : i = s.task
  OBVIOUS
<1>5. /\ i \in Idx /\ slot[i] = "live" /\ owed[i] = 0
      /\ SqesOf(i) = {s} /\ s.op = fut[i].leaf /\ s.op \in SingleOps
  BY <1>3, <1>4, SqeIsAwaited DEF SInv, Running
<1>6. ~c.more
  BY <1>5 DEF KernelCqes, SingleOps, Multishot
<1>7. \A j \in Idx : SqesOf(j)' = SqesOf(j)
  BY <1>3 DEF SqesOf
<1>8. fut[i].leaf # "complete" /\ ~(owed[i] > 0)
  BY <1>5 DEF SingleOps
<1>9. SqesOf(i) \cap posted = {} /\ SqesOf(i)' \cap posted' # {}
  BY <1>2, <1>5, <1>6, <1>7
<1>10. Status(i) = "waiting" /\ Status(i)' = "answered"
  BY <1>3, <1>5, <1>8, <1>9 DEF Status
<1>11. ASSUME NEW j \in Idx, j # i PROVE Status(j)' = Status(j)
  <2>1. s \notin SqesOf(j)
    BY <1>4, <1>11 DEF SqesOf
  <2>2. SqesOf(j)' \cap posted' = SqesOf(j) \cap posted
    BY <1>2, <1>6, <1>7, <2>1
  <2>3. QED
    BY <1>3, <2>2, SameStatus
<1>12. QED
  BY <1>5, <1>10, <1>11

(* handle_cqe_entry polls the task: Resume. *)
LEMMA HandlingMoves ==
    ASSUME SInv, Handling
    PROVE  \E t \in Idx : /\ Status(t) = "answered" /\ Status(t)' = "running"
                          /\ \A j \in Idx : j # t => Status(j)' = Status(j)
<1>1. PICK c : c = Head(entries)
  OBVIOUS
<1>2. PICK i : i = c.sqe.task
  OBVIOUS
<1>3. pc = "handle" /\ entries # <<>> /\ EnterPoll(c)
  BY <1>1 DEF Handling, HandleNormal, HandleMultiple, Dispatch
<1>4. /\ c.sqe \in posted /\ i \in Idx /\ slot[i] = "live" /\ owed[i] = 0
      /\ SqesOf(i) = {c.sqe} /\ c.sqe.op = fut[i].leaf /\ c.sqe.op \in SingleOps
      /\ Carries(c.sqe.op, c.res, c.more, c.buf)
  BY <1>1, <1>2, <1>3, HeadIsAwaited DEF SInv
<1>5. /\ sqes' = sqes \ {c.sqe} /\ posted' = posted \ {c.sqe}
      /\ owed' = [owed EXCEPT ![i] = 2] /\ UNCHANGED <<slot, fut>>
  BY <1>2, <1>3, <1>4 DEF EnterPoll, TakeEntry, Owed, Carries
<1>6. owed'[i] = 2 /\ \A j \in Idx : j # i => owed'[j] = owed[j]
  BY <1>4, <1>5 DEF SInv, IInv, TypeOK
<1>7. fut[i].leaf # "complete" /\ ~(owed[i] > 0) /\ owed'[i] > 0
  BY <1>4, <1>6 DEF SingleOps
<1>8. Status(i) = "answered" /\ Status(i)' = "running"
  BY <1>4, <1>5, <1>7 DEF Status
<1>9. ASSUME NEW j \in Idx, j # i PROVE Status(j)' = Status(j)
  <2>1. SqesOf(j)' \cap posted' = SqesOf(j) \cap posted
    BY <1>2, <1>5, <1>9 DEF SqesOf
  <2>2. QED
    BY <1>5, <1>6, <1>9, <2>1, SameStatus
<1>10. QED
  BY <1>4, <1>8, <1>9

(* Programs of single-shot operations get what Executor promises, fairness
   apart: a body is resumed once for each operation it awaits and only after
   the answer, an answer wakes its own body and no other, and a task's place
   is given away only after its body has returned. *)
THEOREM RuntimeFollowsExecutor == ASSUME SingleShot PROVE Spec => Promise!Spec
<1>1. Init => Promise!Init
  BY DEF Init, Promise!Init, Status
<1>2. SInv /\ [Next]_vars => [Promise!Next]_([i \in Idx |-> Status(i)])
  <2> SUFFICES ASSUME SInv, [Next]_vars PROVE [Promise!Next]_([i \in Idx |-> Status(i)])
    OBVIOUS
  <2>1. SingleNext
    BY OnlySingle DEF SInv
  <2>2. CASE Sending \/ Going
    <3>1. \A j \in Idx : Status(j)' = Status(j)
      BY <2>2, StaysRunning
    <3>2. QED
      BY <3>1
  <2>3. CASE Complete
    <3>1. PICK t \in Idx : /\ Status(t) = "running" /\ Status(t)' = "finished"
                           /\ \A j \in Idx : j # t => Status(j)' = Status(j)
      BY <2>3, CompleteMoves
    <3>2. Promise!Finish(t)
      BY <3>1, OneMoves DEF Promise!Finish, Promise!Moves
    <3>3. QED
      BY <3>2 DEF Promise!Next
  <2>4. CASE Spawning
    <3>1. PICK t \in Idx : /\ Status(t) = "absent" /\ Status(t)' = "running"
                           /\ \A j \in Idx : j # t => Status(j)' = Status(j)
      BY <2>4, SpawningMoves
    <3>2. Promise!Spawn(t)
      BY <3>1, OneMoves DEF Promise!Spawn, Promise!Moves
    <3>3. QED
      BY <3>2 DEF Promise!Next
  <2>5. CASE Returns
    <3>1. PICK t \in Idx : /\ \/ Status(t) = "running" /\ Status(t)' = "waiting"
                              \/ Status(t) = "finished" /\ Status(t)' = "absent"
                           /\ \A j \in Idx : j # t => Status(j)' = Status(j)
      BY <2>5, ReturnsMove
    <3>2. Promise!Await(t) \/ Promise!Reap(t)
      BY <3>1, OneMoves DEF Promise!Await, Promise!Reap, Promise!Moves
    <3>3. QED
      BY <3>2 DEF Promise!Next
  <2>6. CASE KernelPost
    <3>1. PICK t \in Idx : /\ Status(t) = "waiting" /\ Status(t)' = "answered"
                           /\ \A j \in Idx : j # t => Status(j)' = Status(j)
      BY <2>6, KernelMoves
    <3>2. Promise!Answer(t)
      BY <3>1, OneMoves DEF Promise!Answer, Promise!Moves
    <3>3. QED
      BY <3>2 DEF Promise!Next
  <2>7. CASE Handling
    <3>1. PICK t \in Idx : /\ Status(t) = "answered" /\ Status(t)' = "running"
                           /\ \A j \in Idx : j # t => Status(j)' = Status(j)
      BY <2>7, HandlingMoves
    <3>2. Promise!Resume(t)
      BY <3>1, OneMoves DEF Promise!Resume, Promise!Moves
    <3>3. QED
      BY <3>2 DEF Promise!Next
  <2>8. CASE Entering
    <3>1. /\ UNCHANGED <<fut, owed, sqes, posted>>
          /\ slot' = slot \/ slot' = free_unsed_slab_slot(slot)
      BY <2>8 DEF Entering, SubmitAndWait, SubmitOverflow, Panic, SubmitFails, WokenEarly,
                  Collect, EndBatch, taskVars, ringVars
    <3>2. ASSUME NEW j \in Idx PROVE Status(j)' = Status(j)
      <4>1. SqesOf(j)' = SqesOf(j) /\ (slot'[j] = "live" <=> slot[j] = "live")
        BY <3>1 DEF SqesOf, free_unsed_slab_slot
      <4>2. QED
        BY <3>1, <4>1, SameStatus
    <3>3. QED
      BY <3>2
  <2>9. CASE UNCHANGED vars
    <3>1. \A j \in Idx : Status(j)' = Status(j)
      BY <2>9 DEF Status, SqesOf, vars, taskVars, ringVars
    <3>2. QED
      BY <3>1
  <2>10. QED
    BY <2>1, <2>2, <2>3, <2>4, <2>5, <2>6, <2>7, <2>8, <2>9 DEF SingleNext
<1>3. QED
  BY <1>1, <1>2, SingleInvariance, PTL DEF Spec, Promise!Spec

=============================================================================
