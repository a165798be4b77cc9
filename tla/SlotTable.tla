----------------------------- MODULE SlotTable -----------------------------
(***************************************************************************)
(* What the runtime relies on in the task slab, with no free list and no   *)
(* memory: an index is free, names a live task, or names a task that has   *)
(* been deallocated and whose index waits in RUNTIME_FREE_LIST.  Inserting *)
(* gives out an index that is free; an index becomes free again only after *)
(* its task has died.  Runtime.tla moves its variable `slot` by exactly    *)
(* these steps; TaskSlab.tla implements them.                              *)
(***************************************************************************)
CONSTANT Index

VARIABLE slot

Init == slot = [i \in Index |-> "free"]

(* spawn(): some free index, the slab's choice. *)
Insert == \E i \in Index : /\ slot[i] = "free"
                           /\ slot' = [slot EXCEPT ![i] = "live"]

(* Task::release reaches 0. *)
Die == \E i \in Index : /\ slot[i] = "live"
                        /\ slot' = [slot EXCEPT ![i] = "dead"]

(* remove_dropped_task; free_unsed_slab_slot is one for every dead index. *)
Vacate == \E i \in Index : /\ slot[i] = "dead"
                           /\ slot' = [slot EXCEPT ![i] = "free"]

Next == Insert \/ Die \/ Vacate

Spec == Init /\ [][Next]_slot
=============================================================================
