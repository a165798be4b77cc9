------------------------------ MODULE BufRing ------------------------------
(***************************************************************************)
(* The memory of the buf_ring: Runtime::new fills it, release_buf_to_ring  *)
(* writes one entry and advances the tail, all of src/src/runtime.rs.  The *)
(* tail is a u16 that never stops counting and lives in the resv field of  *)
(* entry 0; the kernel keeps a head of its own.                            *)
(*                                                                         *)
(* A release is taken apart into its stores, in program order (the Release *)
(* fence keeps the store of the tail last), and the kernel may select a    *)
(* buffer between any two of them.  That is more than a ring with          *)
(* DEFER_TASKRUN does on one thread, so what holds here does not rest on   *)
(* that flag.  Every entry has the same len, which is left out.            *)
(***************************************************************************)
EXTENDS Integers, FiniteSets

CONSTANTS
    ring_entries,  \* read_count, a power of 2
    U16            \* the number of values of the tail

ASSUME RingAssumption ==
    /\ ring_entries \in Nat \ {0} /\ U16 \in Nat
    /\ ring_entries < U16
    /\ \E k \in 1 .. U16 : k * ring_entries = U16

Slot == 0 .. ring_entries - 1
Buf  == 0 .. ring_entries - 1     \* buffer b is at address b of the read pool

VARIABLES
    entry,    \* the ring: addr, bid and resv of each entry
    head,     \* the kernel's position
    out,      \* buffers selected and not yet released: what the kernel
              \* reported (bid) and where it put the data (addr)
    step,     \* the next store of the release in progress, or "idle"
    tail,     \* its local copy of the tail
    buf_idx   \* its argument

vars == <<entry, head, out, step, tail, buf_idx>>

Entry == [addr: Buf, bid: Buf, resv: 0 .. U16 - 1]

TailWord == entry[0].resv

\* The entry past the tail.
SlotPast(t) == (t + 1) % ring_entries

(* tail & mask, with mask = ring_entries - 1. *)
SlotOf(t) == t % ring_entries

(* read_buf_addr: where buffer b is. *)
read_buf_addr(b) == b

-----------------------------------------------------------------------------
(* Runtime::new: entry i names buffer i and the tail is read_count. *)
Init ==
    /\ entry = [i \in Slot |-> [addr |-> read_buf_addr(i), bid |-> i,
                                resv |-> IF i = 0 THEN ring_entries % U16 ELSE 0]]
    /\ head = 0 /\ out = {}
    /\ step = "idle" /\ tail = 0 /\ buf_idx = 0

(* release_buf_to_ring, called with a buffer the program holds. *)
ReadTail ==
    /\ step = "idle"
    /\ \E o \in out : buf_idx' = o.bid /\ out' = out \ {o}
    /\ tail' = TailWord
    /\ step' = "addr"
    /\ UNCHANGED <<entry, head>>

WriteAddr ==
    /\ step = "addr"
    /\ entry' = [entry EXCEPT ![SlotOf(tail)].addr = read_buf_addr(buf_idx)]
    /\ step' = "bid"
    /\ UNCHANGED <<head, out, tail, buf_idx>>

\* The whole entry is stored, its reserved field with it.
StoreEntry(b) == [entry EXCEPT ![SlotOf(tail)] = [@ EXCEPT !.bid = b, !.resv = 0]]

StoreBid(b) == [entry EXCEPT ![SlotOf(tail)].bid = b]

WriteBid ==
    /\ step = "bid"
    /\ entry' = StoreBid(buf_idx)
    /\ step' = "tail"
    /\ UNCHANGED <<head, out, tail, buf_idx>>

\* The tail is kept below the number of entries, as an index would be.
NextTailMasked(t) == SlotOf(t + 1)

\* The sum is stored without the cast.
NextTailWide(t) == t + 1

(* (tail + 1) as u16 *)
NextTail(t) == (t + 1) % U16

WriteTail ==
    /\ step = "tail"
    /\ entry' = [entry EXCEPT ![0].resv = NextTail(tail)]
    /\ step' = "idle"
    /\ UNCHANGED <<head, out, tail, buf_idx>>

(* The kernel (external) selects the buffer at its head, unless the ring is
   empty. *)
Select ==
    /\ head # TailWord
    /\ out' = out \cup {[bid  |-> entry[head % ring_entries].bid,
                         addr |-> entry[head % ring_entries].addr]}
    /\ head' = (head + 1) % U16
    /\ UNCHANGED <<entry, step, tail, buf_idx>>

Next == ReadTail \/ WriteAddr \/ WriteBid \/ WriteTail \/ Select

Spec == Init /\ [][Next]_vars

-----------------------------------------------------------------------------
TypeOK ==
    /\ entry \in [Slot -> Entry]
    /\ head \in 0 .. U16 - 1 /\ tail \in 0 .. U16 - 1
    /\ out \subseteq [bid: Buf, addr: Buf]
    /\ step \in {"idle", "addr", "bid", "tail"}
    /\ buf_idx \in Buf

(* The entries the kernel may use: from its head up to the tail. *)
Size == (TailWord - head) % U16
At(k) == entry[(head + k) % ring_entries]
Window == 0 .. Size - 1

(* Whatever the kernel takes in the middle of a release, and however often
   the u16 has wrapped, the entries between head and tail are no more than
   the ring has, and each is of another buffer, at that buffer's address: no
   half-written entry and no entry of an earlier lap is ever selected, and
   data is never put in a buffer other than the one reported. *)
WindowSound ==
    /\ Size <= ring_entries
    /\ \A k \in Window : At(k).addr = read_buf_addr(At(k).bid)
    /\ \A j, k \in Window : At(j).bid = At(k).bid => j = k
    /\ \A o \in out : o.addr = read_buf_addr(o.bid)

(* release_buf_to_ring implements the atomic release that Runtime assumes,
   and loses no buffer: each is available to the kernel, or held by the
   program until the tail that publishes it is stored. *)
Releasing == IF step = "idle" THEN {} ELSE {buf_idx}
Bag == INSTANCE BufBag WITH
           available <- {At(k).bid : k \in Window},
           held <- {o.bid : o \in out} \cup Releasing

ImplementsBag == Bag!Spec
=============================================================================
