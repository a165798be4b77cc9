----------------------------- MODULE WritePool -----------------------------
(***************************************************************************)
(* The write buffers of src/src/buf_pool.rs: the FIFO of free slots, the   *)
(* count per slot, the handles (WBuffer) the bodies hold, the fan-out      *)
(* writes of src/src/calls/write.rs that keep one, and the writes the      *)
(* kernel has not completed.  write() of src/src/calls/write.rs, which     *)
(* names a slot without a handle, is here for the buffer it names.         *)
(*                                                                         *)
(* A write's SQE carries a pointer and an index in the table given to      *)
(* register_buffers, of read and write buffers alike; the address of       *)
(* buffer k of the table is k.                                             *)
(***************************************************************************)
EXTENDS Integers, Sequences, FiniteSets

CONSTANTS
    read_count, write_count,  \* sizes of the two zones of the pool
    Ops,          \* the operations bodies use
    Fut, NoFut,   \* fan-out writes; none
    NoSlot,       \* no slot
    MaxFds,       \* bound: fds of a fan-out write
    MaxHandles,   \* bound: handles a body keeps of a slot
    MaxVersion    \* bound: times the content of the pool is changed

Op == {"clone", "write_slice", "write_multiple", "submit", "write"}

Slot == read_count .. read_count + write_count - 1

ASSUME PoolAssumption ==
    /\ read_count \in Nat \ {0} /\ write_count \in Nat \ {0}
    /\ Ops \subseteq Op
    /\ IsFiniteSet(Fut) /\ {NoFut, "submit", "write"} \cap Fut = {} /\ NoSlot \notin Slot
    /\ MaxFds \in Nat /\ MaxHandles \in Nat /\ MaxVersion \in Nat

VARIABLES
    write_free, write_rc,  \* BufPool's fields
    handle,     \* number of WBuffers of each slot that bodies hold
    future,     \* the slot of the _buffer of each WriteMultipleFuture
    sending,    \* the fan-out send_multiple_write is pushing the SQEs of
    left,       \* the fds it has still to go through
    flight,     \* writes pushed and not completed
    content,    \* the version of the data in each slot
    version,    \* the last version written
    torn,       \* a fan-out that had the only handle sent something else
    panicked    \* "BufPool: write pool épuisé"

loop == <<sending, left>>
vars == <<write_free, write_rc, handle, future, loop, flight, content, version, torn, panicked>>

(* A WriteFixed: its pointer, its index in the table, who awaits it, which
   of its fds, and (for the properties) the content a fan-out was given and
   whether that was the only handle. *)
Write == [ptr: Slot, buf_index: 0 .. read_count + write_count - 1,
          by: Fut \cup {"submit", "write"}, gen: 0 .. MaxFds,
          given: 0 .. MaxVersion, sole: BOOLEAN]

Holders(s) == {f \in Fut : future[f] = s}
FlightOf(f) == {w \in flight : w.by = f}

-----------------------------------------------------------------------------
(* BufPool::new *)
Init ==
    /\ write_free = [k \in 1 .. write_count |-> read_count + k - 1]
    /\ write_rc = [s \in Slot |-> 0]
    /\ handle = [s \in Slot |-> 0]
    /\ future = [f \in Fut |-> NoSlot]
    /\ sending = NoFut /\ left = 0
    /\ flight = {}
    /\ content = [s \in Slot |-> 0] /\ version = 0
    /\ torn = FALSE /\ panicked = FALSE

(* Some body runs, or the loop waits; no fan-out is halfway. *)
Ready == ~panicked /\ sending = NoFut

(* BufPool::alloc_write *)
alloc_write ==
    /\ Ready /\ write_free # <<>>
    /\ LET s == Head(write_free)
       IN  /\ write_rc' = [write_rc EXCEPT ![s] = 1]
           /\ handle' = [handle EXCEPT ![s] = @ + 1]
    /\ write_free' = Tail(write_free)
    /\ UNCHANGED <<future, loop, flight, content, version, torn, panicked>>

AllocPanics ==
    /\ Ready /\ write_free = <<>>
    /\ panicked' = TRUE
    /\ UNCHANGED <<write_free, write_rc, handle, future, loop, flight, content, version, torn>>

Uses(s, op) == Ready /\ op \in Ops /\ handle[s] > 0

(* Clone for WBuffer *)
Cloned(counts, s) == [counts EXCEPT ![s] = @ + 1]

Clone(s) ==
    /\ Uses(s, "clone") /\ handle[s] < MaxHandles
    /\ write_rc' = Cloned(write_rc, s)
    /\ handle' = [handle EXCEPT ![s] = @ + 1]
    /\ UNCHANGED <<write_free, future, loop, flight, content, version, torn, panicked>>

\* Drop that puts the slot back whoever still holds it.
DroppedAlways(counts, s) ==
    /\ write_rc' = [counts EXCEPT ![s] = @ - 1]
    /\ write_free' = Append(write_free, s)

\* Drop that forgets the free list.
DroppedKeeps(counts, s) ==
    /\ write_rc' = [counts EXCEPT ![s] = @ - 1]
    /\ UNCHANGED write_free

(* Drop for WBuffer, when the counts are as given. *)
Dropped(counts, s) ==
    /\ write_rc' = [counts EXCEPT ![s] = @ - 1]
    /\ write_free' = IF counts[s] = 1 THEN Append(write_free, s) ELSE write_free

Drop(s) ==
    /\ Ready /\ handle[s] > 0
    /\ Dropped(write_rc, s)
    /\ handle' = [handle EXCEPT ![s] = @ - 1]
    /\ UNCHANGED <<future, loop, flight, content, version, torn, panicked>>

(* write_slice, deref_mut: the body writes through one of its handles. *)
write_slice(s) ==
    /\ Uses(s, "write_slice") /\ version < MaxVersion
    /\ version' = version + 1
    /\ content' = [content EXCEPT ![s] = version + 1]
    /\ UNCHANGED <<write_free, write_rc, handle, future, loop, flight, torn, panicked>>

-----------------------------------------------------------------------------
MakeWrite(ptr, index, by, k) ==
    [ptr |-> ptr, buf_index |-> index, by |-> by, gen |-> k,
     given |-> IF by \in Fut THEN content[ptr] ELSE 0,
     sole |-> by \in Fut /\ handle[ptr] = 0 /\ Holders(ptr) = {by}]

\* The future's own buffer is handed to send_multiple_write, uncloned.
FanOutUncloned(f, s, n) ==
    /\ Uses(s, "write_multiple") /\ future[f] = NoSlot
    /\ handle' = [handle EXCEPT ![s] = @ - 1]
    /\ future' = [future EXCEPT ![f] = s]
    /\ sending' = f /\ left' = n
    /\ UNCHANGED <<write_rc, write_free, flight, content, version, torn, panicked>>

(***************************************************************************)
(* WriteMultipleFuture's first poll.  The handle of the caller moves into   *)
(* _buffer, a clone of it goes to send_multiple_write; every SQE is made    *)
(* from a clone of that one, which WBuffer::write drops, and it is dropped  *)
(* itself when the call ends.  Nothing else happens in between: the steps   *)
(* are apart so that the counts are checked after each.                     *)
(***************************************************************************)
write_multiple(f, s, n) ==
    /\ Uses(s, "write_multiple") /\ future[f] = NoSlot
    /\ write_rc' = Cloned(write_rc, s)
    /\ handle' = [handle EXCEPT ![s] = @ - 1]
    /\ future' = [future EXCEPT ![f] = s]
    /\ sending' = f /\ left' = n
    /\ UNCHANGED <<write_free, flight, content, version, torn, panicked>>

\* The clone of one fd is forgotten, as mem::forget would do.
SendOneForgets(f, s) ==
    /\ sending = f /\ left > 0 /\ future[f] = s
    /\ write_rc' = Cloned(write_rc, s)
    /\ flight' = flight \cup {MakeWrite(s, s, f, left)}
    /\ left' = left - 1
    /\ UNCHANGED <<write_free, handle, future, sending, content, version, torn, panicked>>

SendOne(f, s) ==
    /\ sending = f /\ left > 0 /\ future[f] = s
    /\ Dropped(Cloned(write_rc, s), s)
    /\ flight' = flight \cup {MakeWrite(s, s, f, left)}
    /\ left' = left - 1
    /\ UNCHANGED <<handle, future, sending, content, version, torn, panicked>>

SendEnds(f, s) ==
    /\ sending = f /\ left = 0 /\ future[f] = s
    /\ Dropped(write_rc, s)
    /\ sending' = NoFut
    /\ UNCHANGED <<handle, future, left, flight, content, version, torn, panicked>>

(* The future is dropped, with its _buffer: when its last write has been
   handled, or with its task, which outlives every SQE it has outstanding
   (Runtime, SqeOwnerLive). *)
DropFuture(f) ==
    /\ Ready /\ future[f] # NoSlot /\ FlightOf(f) = {}
    /\ Dropped(write_rc, future[f])
    /\ future' = [future EXCEPT ![f] = NoSlot]
    /\ UNCHANGED <<handle, loop, flight, content, version, torn, panicked>>

(* WBuffer::submit: the SQE is pushed, and self is dropped at the end. *)
Submit(s) ==
    /\ Uses(s, "submit")
    /\ flight' = flight \cup {MakeWrite(s, s, "submit", 0)}
    /\ Dropped(write_rc, s)
    /\ handle' = [handle EXCEPT ![s] = @ - 1]
    /\ UNCHANGED <<future, loop, content, version, torn, panicked>>

(* write_buf_ptr: the address of write buffer buf_id. *)
write_buf_ptr(buf_id) == read_count + buf_id

(* write(fd, buf_id, len): send_write points at write buffer buf_id and names
   entry buf_id of the table, whoever holds them. *)
SendWrite(buf_id) ==
    /\ Ready /\ "write" \in Ops
    /\ flight' = flight \cup {MakeWrite(write_buf_ptr(buf_id), buf_id, "write", 0)}
    /\ UNCHANGED <<write_free, write_rc, handle, future, loop, content, version, torn, panicked>>

(* The kernel (external) has read the buffer and completes the write. *)
Completed(w) ==
    /\ Ready /\ w \in flight
    /\ flight' = flight \ {w}
    /\ torn' = (torn \/ (w.sole /\ content[w.ptr] # w.given))
    /\ UNCHANGED <<write_free, write_rc, handle, future, loop, content, version, panicked>>

Stopped == panicked /\ UNCHANGED vars

Next ==
    \/ alloc_write \/ AllocPanics
    \/ \E s \in Slot : Clone(s) \/ Drop(s) \/ write_slice(s) \/ Submit(s)
    \/ \E f \in Fut, s \in Slot, n \in 0 .. MaxFds : write_multiple(f, s, n)
    \/ \E f \in Fut, s \in Slot : SendOne(f, s) \/ SendEnds(f, s)
    \/ \E f \in Fut : DropFuture(f)
    \/ \E b \in 0 .. write_count - 1 : SendWrite(b)
    \/ \E w \in flight : Completed(w)
    \/ Stopped

Spec == Init /\ [][Next]_vars

-----------------------------------------------------------------------------
TypeOK ==
    /\ write_free \in Seq(Slot)
    /\ write_rc \in [Slot -> Nat] /\ handle \in [Slot -> Nat]
    /\ future \in [Fut -> Slot \cup {NoSlot}]
    /\ sending \in Fut \cup {NoFut} /\ left \in 0 .. MaxFds
    /\ flight \subseteq Write
    /\ content \in [Slot -> 0 .. MaxVersion] /\ version \in 0 .. MaxVersion
    /\ torn \in BOOLEAN /\ panicked \in BOOLEAN

(* The count of a slot is the number of WBuffers of it: in bodies, in fan-out
   futures, and the one send_multiple_write has while it runs.  Every clone a
   fan-out makes is dropped again, and never the last handle with it. *)
Sent(s) == IF \E f \in Holders(s) : sending = f THEN 1 ELSE 0
RcExact == \A s \in Slot : write_rc[s] = handle[s] + Cardinality(Holders(s)) + Sent(s)

(* The free list has every slot nobody holds, once, and no other: no slot is
   given out twice, and none is lost.  alloc_write then panics only when
   every slot has a holder. *)
FreeExact ==
    /\ \A j, k \in DOMAIN write_free : write_free[j] = write_free[k] => j = k
    /\ \A s \in Slot : write_rc[s] = 0 <=> \E k \in DOMAIN write_free : write_free[k] = s
    /\ panicked => \A s \in Slot : handle[s] > 0 \/ Holders(s) # {}

(* A slot the kernel still has to read for a fan-out is not free: it cannot
   be handed to another body in between, although the clones made for the
   SQEs are gone. *)
InFlightKept == \A w \in flight : w.by \in Fut => write_rc[w.ptr] > 0

(* src/src/buf_pool.rs, write_slice: "slot write-pool exclusif tant que rc >= 1
   et non soumis".  A fan-out given the only handle of its buffer sends what
   was in it, however late the kernel reads it and however slots are reused. *)
SendsWhatWasGiven == ~torn
=============================================================================
