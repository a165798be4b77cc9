------------------------------ MODULE Teardown ------------------------------
(***************************************************************************)
(* The end of the thread, after block_on has returned: the destructor of   *)
(* the thread-local GLOBAL_RUNTIME drops the slab (Drop for Slab and for   *)
(* SlabSlot, src/src/task_slab.rs), each task still in it through Drop for *)
(* Task.  block_on leaves tasks there when io_uring_enter fails.           *)
(*                                                                         *)
(* The unwinding of a panic is not modelled: from pc = "panic" the thread  *)
(* does not get here.                                                      *)
(***************************************************************************)
EXTENDS Runtime

VARIABLES
    exit,      \* "no", "dropping", "gone"
    visited    \* the slots the loop of Slab::drop has been through

exitVars == <<exit, visited>>
allVars == <<vars, exitVars>>

(* The thread returns from block_on and ends. *)
ThreadExit ==
    /\ pc \in {"done", "error"}
    /\ exit = "no" /\ exit' = "dropping"
    /\ UNCHANGED <<vars, visited>>

Visit(i) == /\ exit = "dropping"
            /\ i \notin visited
            /\ visited' = visited \cup {i}

(* drop_in_place on a free slot. *)
DropFree(i) ==
    /\ Visit(i)
    /\ slot[i] = "free"
    /\ UNCHANGED <<vars, exit>>

(* Drop for Task: one release.  The last one drops the future and pushes the
   index on RUNTIME_FREE_LIST; a read buffer of the future stays where it is,
   as release_read_buf does nothing once the thread-local is being destroyed. *)
DropTask(i) ==
    /\ Visit(i)
    /\ slot[i] # "free"
    /\ rc' = [rc EXCEPT ![i] = @ - 1]
    /\ slot' = SlotAfterRelease(i, 1)
    /\ fut' = IF rc[i] = 1 THEN [fut EXCEPT ![i] = NewFuture(FALSE)] ELSE fut
    /\ UNCHANGED <<loopVars, nb, owed, ringVars, avail, root, boundVars, exit>>

\* The loop of Slab::drop stops one slot early.
GoneEarly ==
    /\ exit = "dropping" /\ Cardinality(visited) + 1 >= Cardinality(Idx)
    /\ exit' = "gone"
    /\ UNCHANGED <<vars, visited>>

(* The loop has been through the len slots. *)
Gone ==
    /\ exit = "dropping" /\ visited = Idx
    /\ exit' = "gone"
    /\ UNCHANGED <<vars, visited>>

Ended == exit = "gone" /\ UNCHANGED allVars

TInit == Init /\ exit = "no" /\ visited = {}

TNext == \/ exit = "no" /\ Next /\ UNCHANGED exitVars
         \/ ThreadExit \/ Gone \/ Ended
         \/ \E i \in Idx : DropFree(i) \/ DropTask(i)

TSpec == TInit /\ [][TNext]_allVars

-----------------------------------------------------------------------------
(* src/src/task_slab.rs, Drop for Slab: "Drop toutes les tasks encore
   présentes".  The slab releases every task once, and no count is its own:
   it gives back the one of the SQE the task waits for.  A task that awaits
   single-shot operations waits for one at most, so its future is dropped and
   its memory freed. *)
AllDropped == exit = "gone" => \A i \in Idx : slot[i] # "live"
=============================================================================
