------------------------------ MODULE UserData ------------------------------
(***************************************************************************)
(* The 64 bits that go with every SQE and come back with its completions:  *)
(* the union UserData of src/src/runtime.rs, a little-endian                *)
(* { task_idx: u32, response_gen: u16, syscall_nb: u16 }, and the words of  *)
(* WBuffer::submit in src/src/buf_pool.rs, which set bit 63: the one of    *)
(* MULTIPLE_MASK in syscall_nb.  The widths are parameters: TLC has no     *)
(* 64-bit integers.                                                        *)
(***************************************************************************)
EXTENDS Integers

CONSTANTS IDX, GEN, NB   \* the numbers of values of u32, u16 and u16

ASSUME WidthAssumption ==
    /\ IDX \in Nat \ {0} /\ GEN \in Nat \ {0}
    /\ NB \in Nat \ {0} /\ NB % 2 = 0

VARIABLES
    stage,     \* whose word is in flight, and whether it was handled
    origin,    \* the payload of the task, or the slot of the WBuffer, behind the word
    word,      \* the user_data
    received   \* the payload handle_cqe_entry reads out of it

vars == <<stage, origin, word, received>>

Payload == [task_idx: 0 .. IDX - 1, response_gen: 0 .. GEN - 1, syscall_nb: 0 .. NB - 1]

MULTIPLE == NB \div 2

\* response_gen and syscall_nb laid over each other.
into_overlapping(p) == p.task_idx + IDX * p.response_gen + IDX * p.syscall_nb

(* UserDataPayload::into_user_data and from_user_data *)
into_user_data(p) == p.task_idx + IDX * (p.response_gen + GEN * p.syscall_nb)

\* response_gen read as the 32 bits above task_idx.
from_unmasked(w) == [task_idx     |-> w % IDX,
                     response_gen |-> w \div IDX,
                     syscall_nb   |-> (w \div IDX) \div GEN]

from_user_data(w) == [task_idx     |-> w % IDX,
                      response_gen |-> (w \div IDX) % GEN,
                      syscall_nb   |-> (w \div IDX) \div GEN]

(* buf_pool.rs: bit 63, and the words of WBuffer::submit. *)
INTERNAL_FLAG == IDX * GEN * MULTIPLE

wbuf_write_udata(abs_idx) == INTERNAL_FLAG + abs_idx

-----------------------------------------------------------------------------
Empty == [task_idx |-> 0, response_gen |-> 0, syscall_nb |-> 0]

Init == stage = "idle" /\ origin = Empty /\ word = 0 /\ received = Empty

(* current_udata: an SQE of a task carries its tag and its generation. *)
SendTask == \E p \in Payload :
    /\ stage' = "task"
    /\ origin' = p
    /\ word' = into_user_data(p)
    /\ received' = Empty

(* WBuffer::submit carries the slot abs_idx. *)
SendInternal == \E abs_idx \in 0 .. IDX - 1 :
    /\ stage' = "internal"
    /\ origin' = [Empty EXCEPT !.task_idx = abs_idx]
    /\ word' = wbuf_write_udata(abs_idx)
    /\ received' = Empty

(* TaskInfo::from_entry, on every completion: handle_cqe_entry does not test
   bit 63 first. *)
Handle ==
    /\ stage \in {"task", "internal"}
    /\ stage' = (IF stage = "task" THEN "task handled" ELSE "internal handled")
    /\ received' = from_user_data(word)
    /\ UNCHANGED <<origin, word>>

Next == SendTask \/ SendInternal \/ Handle

Spec == Init /\ [][Next]_vars

-----------------------------------------------------------------------------
(* Every word fits the 64 bits of the union, and every payload its fields. *)
TypeOK == /\ stage \in {"idle", "task", "internal", "task handled", "internal handled"}
          /\ origin \in Payload /\ received \in Payload
          /\ word \in 0 .. IDX * GEN * NB - 1

(* What handle_cqe_entry reads is the tag and the generation the task was
   given, at the limits of the three fields too: no field of the union runs
   into its neighbour.  Out of a word of WBuffer::submit it reads the slot as
   a task index, and a number in multiple mode: what Runtime!InternalSqe has. *)
RoundTrip ==
    /\ stage = "task handled" => received = origin
    /\ stage = "internal handled" => received = [origin EXCEPT !.syscall_nb = MULTIPLE]
=============================================================================
