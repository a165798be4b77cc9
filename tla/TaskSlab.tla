------------------------------ MODULE TaskSlab ------------------------------
(***************************************************************************)
(* src/src/task_slab.rs: the slab of tasks with its intrusive free list,   *)
(* together with RUNTIME_FREE_LIST, through which a task that dies inside  *)
(* a poll has its slot vacated later (src/src/task.rs, release).           *)
(*                                                                         *)
(* A slot is one word.  A task is the address of its header, an even       *)
(* number; a free slot holds the next free index shifted left with bit 0   *)
(* set, in 32 bits.  U32_MAX is a parameter so that the end of the range   *)
(* can be reached.  A task that has died leaves its address in its slot    *)
(* until the list is drained, and the allocator may hand the same address  *)
(* to a new task before that.                                              *)
(***************************************************************************)
EXTENDS Integers, Sequences, FiniteSets

CONSTANTS
    U32_MAX,     \* the largest u32
    Task,        \* addresses Task::new may return
    Capacity,    \* the argument of with_capacity
    MaxLen       \* bound: the most slots realloc has memory for

ASSUME SlabAssumption ==
    /\ U32_MAX \in Nat /\ U32_MAX % 2 = 1
    /\ \A t \in Task : t \in Nat /\ t % 2 = 0
    /\ Capacity \in 1 .. U32_MAX \div 2     \* asserted by with_capacity
    /\ MaxLen \in Capacity .. U32_MAX

VARIABLES
    slots,       \* the words of the allocation
    head, len, task_count,
    slab_idx,    \* the index in the header of each allocated task
    free_list,   \* RUNTIME_FREE_LIST
    draining,    \* free_unsed_slab_slot is iterating over it
    fault        \* the assertion that failed, or "none"

vars == <<slots, head, len, task_count, slab_idx, free_list, draining, fault>>

-----------------------------------------------------------------------------
is_free(w) == w % 2 = 1
is_task(w) == w % 2 = 0

\* The tag bit is left in the index.
next_free_unshifted(w) == w

next_free(w) == w \div 2
free_slot(next) == ((2 * next) % (U32_MAX + 1)) + 1

Free == {i \in 0 .. len - 1 : is_free(slots[i])}
Occupied == {i \in 0 .. len - 1 : is_task(slots[i])}

(* The tasks allocated. *)
alive == DOMAIN slab_idx

Init ==
    /\ len = Capacity
    /\ slots = [i \in 0 .. Capacity - 1 |-> free_slot(i + 1)]
    /\ head = 0 /\ task_count = 0
    /\ slab_idx = [t \in {} |-> 0]
    /\ free_list = <<>> /\ draining = FALSE /\ fault = "none"

Panic(why) == /\ fault' = why
              /\ UNCHANGED <<slots, head, len, task_count, slab_idx, free_list, draining>>

\* The new slots are all written with the sentinel.
GrownKeepsSentinel(new_len) ==
    [i \in 0 .. new_len - 1 |-> IF i < len THEN slots[i] ELSE free_slot(new_len)]

(* growth: the new slots are chained, the last one to the new length. *)
Grown(new_len) ==
    [i \in 0 .. new_len - 1 |-> IF i < len THEN slots[i] ELSE free_slot(i + 1)]

NewLen == IF 2 * len <= U32_MAX THEN 2 * len ELSE U32_MAX

(* The end of insert, in an array sl of n slots. *)
Place(t, sl, n) ==
    /\ slots' = [sl EXCEPT ![head] = t]
    /\ len' = n
    /\ slab_idx' = [u \in alive \cup {t} |-> IF u = t THEN head ELSE slab_idx[u]]
    /\ head' = next_free(sl[head])
    /\ task_count' = task_count + 1
    /\ UNCHANGED <<free_list, draining, fault>>

Insert(t) ==
    /\ fault = "none" /\ ~draining /\ t \notin alive
    /\ head # len
    /\ Place(t, slots, len)

InsertGrows(t) ==
    /\ fault = "none" /\ ~draining /\ t \notin alive
    /\ head = len /\ len # U32_MAX
    /\ NewLen <= MaxLen
    /\ Place(t, Grown(NewLen), NewLen)

(* "Slab completly full", or realloc returns null. *)
GrowthFails ==
    /\ fault = "none" /\ ~draining /\ Task \ alive # {}
    /\ head = len /\ (len = U32_MAX \/ NewLen > MaxLen)
    /\ Panic("growth")

(* Task::release of the last handle: the memory goes back to the allocator,
   the index on RUNTIME_FREE_LIST. *)
Die(t) ==
    /\ fault = "none" /\ ~draining /\ t \in alive
    /\ slab_idx' = [u \in alive \ {t} |-> slab_idx[u]]
    /\ free_list' = Append(free_list, slab_idx[t])
    /\ UNCHANGED <<slots, head, len, task_count, draining, fault>>

\* A free slot written with its own index instead of the old head.
FreedToItself(i) == free_slot(i)

FreedWord(i) == free_slot(head)

(* An index remove_dropped_task refuses: out of bounds, or a free slot. *)
Refused(i) == i >= len \/ is_free(slots[i])

(* free_unsed_slab_slot: the loop over the list runs to its end before
   anything else does; each step is one remove_dropped_task. *)
free_unsed_slab_slot ==
    /\ fault = "none" /\ ~draining /\ free_list # <<>>
    /\ draining' = TRUE
    /\ UNCHANGED <<slots, head, len, task_count, slab_idx, free_list, fault>>

remove_dropped_task ==
    LET i == Head(free_list)
    IN  /\ fault = "none" /\ draining
        /\ IF Refused(i) THEN Panic("remove")
           ELSE /\ slots' = [slots EXCEPT ![i] = FreedWord(i)]
                /\ head' = i
                /\ task_count' = task_count - 1
                /\ free_list' = Tail(free_list)
                /\ draining' = (free_list' # <<>>)
                /\ UNCHANGED <<len, slab_idx, fault>>

(* A failed assertion has ended the thread. *)
Stopped == fault # "none" /\ UNCHANGED vars

Next ==
    \/ \E t \in Task : Insert(t) \/ InsertGrows(t) \/ Die(t)
    \/ GrowthFails \/ free_unsed_slab_slot \/ remove_dropped_task
    \/ Stopped

Spec == Init /\ [][Next]_vars

-----------------------------------------------------------------------------
(* The length never exceeds half the range of a u32: the hypothesis under
   which the properties below hold. *)
NoWrap == MaxLen <= U32_MAX \div 2

TypeOK ==
    /\ len \in Capacity .. MaxLen
    /\ slots \in [0 .. len - 1 -> Nat]
    /\ head \in 0 .. len
    /\ task_count \in 0 .. len
    /\ alive \subseteq Task /\ slab_idx \in [alive -> 0 .. len - 1]
    /\ free_list \in Seq(0 .. len - 1)
    /\ draining \in BOOLEAN
    /\ fault \in {"none", "growth", "remove"}

(* The chain from head goes through every free slot once and ends at len, so
   no slot is lost however inserts, growth and removals alternate: numbering
   the free slots backwards along the chain, the last one has number 1 and
   head the number of free slots. *)
FreeListExact ==
    \E ord \in [Free -> 1 .. Cardinality(Free)] :
        /\ \A i, j \in Free : ord[i] = ord[j] => i = j
        /\ \A i \in Free :
              IF ord[i] = 1 THEN next_free(slots[i]) = len
              ELSE /\ next_free(slots[i]) \in Free
                   /\ ord[next_free(slots[i])] = ord[i] - 1
        /\ IF Free = {} THEN head = len
           ELSE head \in Free /\ ord[head] = Cardinality(Free)

(* tasks.count(), by which block_on decides to return, is the number of slots
   not yet vacated. *)
CountExact == task_count = Cardinality(Occupied)

(* Every task allocated is found at the index its header holds, also when it
   was given the address of a task whose slot is not vacated yet; each index
   of RUNTIME_FREE_LIST is listed once, is a task slot of the slab, and names
   no task allocated: free_unsed_slab_slot vacates the slot of no other task
   and its assertions do not fail. *)
IndexExact ==
    /\ \A t \in alive : slots[slab_idx[t]] = t
    /\ \A k \in DOMAIN free_list :
         /\ free_list[k] \in Occupied
         /\ \A j \in DOMAIN free_list : free_list[j] = free_list[k] => j = k
         /\ \A t \in alive : slab_idx[t] # free_list[k]
    /\ fault # "remove"

(* The slab implements SlotTable. *)
Status(i) ==
    IF \E t \in alive : slab_idx[t] = i THEN "live"
    ELSE IF \E k \in DOMAIN free_list : free_list[k] = i THEN "dead" ELSE "free"

Table == INSTANCE SlotTable WITH Index <- 0 .. MaxLen - 1,
                                 slot <- [i \in 0 .. MaxLen - 1 |-> Status(i)]

(* Seen through the status of its indices, every step of the slab is a step
   of SlotTable: an index given out is one that no task and no pending
   vacation uses, in particular. *)
ImplementsTable == Table!Spec
=============================================================================
