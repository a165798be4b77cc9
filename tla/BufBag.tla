------------------------------- MODULE BufBag -------------------------------
(***************************************************************************)
(* What a provided-buffer ring promises its two sides: a buffer is either  *)
(* available to the kernel or held by the program, the kernel takes an     *)
(* available one, and a release makes a held one available again.  This is *)
(* the view Runtime has of the buf_ring through its variable avail.        *)
(***************************************************************************)
CONSTANT Buf
VARIABLES available, held

Init == available = Buf /\ held = {}

Take(b) == /\ b \in available
           /\ available' = available \ {b}
           /\ held' = held \cup {b}

Give(b) == /\ b \in held
           /\ available' = available \cup {b}
           /\ held' = held \ {b}

Next == \E b \in Buf : Take(b) \/ Give(b)

Spec == Init /\ [][Next]_<<available, held>>
=============================================================================
