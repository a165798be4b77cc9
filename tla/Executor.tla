------------------------------ MODULE Executor ------------------------------
(***************************************************************************)
(* What a completion-driven executor promises the bodies it runs: a body   *)
(* that awaits is resumed once, and only, after its operation has been     *)
(* answered; an answer is never lost, and never wakes another body or a    *)
(* finished one; and the place of a task is given away only after its body *)
(* has returned.  Several bodies run at once when one spawns another and   *)
(* runs it up to its first await.                                          *)
(***************************************************************************)
CONSTANT Task
VARIABLE status

Init == status = [t \in Task |-> "absent"]

Moves(t, from, to) == /\ status[t] = from
                      /\ status' = [status EXCEPT ![t] = to]

Spawn(t)  == Moves(t, "absent", "running")
Await(t)  == Moves(t, "running", "waiting")
Answer(t) == Moves(t, "waiting", "answered")
Resume(t) == Moves(t, "answered", "running")
Finish(t) == Moves(t, "running", "finished")
Reap(t)   == Moves(t, "finished", "absent")

Next == \E t \in Task :
            Spawn(t) \/ Await(t) \/ Answer(t) \/ Resume(t) \/ Finish(t) \/ Reap(t)

Spec == Init /\ [][Next]_status

(* The environment may leave an operation unanswered; the executor may not
   leave an answer unused, a running body suspended, or a finished task in
   its place. *)
Fairness == \A t \in Task : /\ WF_status(Resume(t))
                            /\ WF_status(Await(t) \/ Finish(t))
                            /\ WF_status(Reap(t))

FairSpec == Spec /\ Fairness
=============================================================================
