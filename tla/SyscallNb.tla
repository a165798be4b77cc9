----------------------------- MODULE SyscallNb -----------------------------
(***************************************************************************)
(* The syscall number of src/src/task.rs: a u16 whose top bit              *)
(* (MULTIPLE_MASK = 0x8000) marks a task that awaits several completions   *)
(* under one number and whose other bits are a rank that counts the        *)
(* single-shot operations the task has been resumed from.  A submission    *)
(* carries the number of its task; the completion's copy is compared with  *)
(* the task's own before the task is polled.                               *)
(*                                                                         *)
(* MULTIPLE_MASK is a parameter so that the end of the rank's range can be *)
(* reached: numbers are 0 .. 2*MULTIPLE_MASK - 1, as 0x8000 gives 0..65535. *)
(***************************************************************************)
EXTENDS Integers

CONSTANT MULTIPLE_MASK

ASSUME MaskAssumption == MULTIPLE_MASK \in Nat \ {0}

SyscallNumber == 0 .. 2 * MULTIPLE_MASK - 1

Rank(nb) == nb % MULTIPLE_MASK              \* nb & !MULTIPLE_MASK

IsMultiple(nb) == nb >= MULTIPLE_MASK       \* nb & MULTIPLE_MASK != 0

\* The mask added to a number that may already have it.
SetMultipleAdds(nb) == nb + MULTIPLE_MASK

SetMultiple(nb) == Rank(nb) + MULTIPLE_MASK \* nb | MULTIPLE_MASK

(* Task::evaluate_syscall_nb: what a completion means to its task. *)
evaluate_syscall_nb(stored, incoming) ==
    IF Rank(incoming) < Rank(stored) THEN "Expired"
    ELSE IF Rank(incoming) > Rank(stored) \/ IsMultiple(stored) # IsMultiple(incoming)
    THEN "Error"
    ELSE IF IsMultiple(stored) THEN "Multiple" ELSE "Normal"

(***************************************************************************)
(* The two increments.  Task::augmente_syscall_nb adds 1 to the rank with  *)
(* checked_add: the sum of a 15-bit rank and 1 never overflows a u16, so   *)
(* past the last rank it yields MULTIPLE_MASK itself.  The copy in         *)
(* CURRENT_TASK is advanced by `+= 1` in handle_cqe_entry and by           *)
(* Tag::augmente_syscall_nb, which wraps to 0 instead.                     *)
(***************************************************************************)

\* The number of the task is left behind the tag in CURRENT_TASK.
augmente_forgotten(nb) == Rank(nb)

augmente_syscall_nb(nb) == Rank(nb) + 1

TagAugmente(nb) == (Rank(nb) + 1) % MULTIPLE_MASK
=============================================================================
