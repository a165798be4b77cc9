--------------------------- MODULE TeardownProofs ---------------------------
(***************************************************************************)
(* The end of the thread, for programs of single-shot operations: the slab *)
(* releases every task once, and one release is what a task left behind by *)
(* a failed block_on still counts, because such a task waits for exactly   *)
(* one SQE (SingleShotProofs).                                             *)
(***************************************************************************)
EXTENDS Teardown, SingleShotProofs

(* Before the end the invariant of the runtime; then slots the loop of
   Slab::drop has been through hold no live task, the others a live one with
   a single reference or none. *)
DropInv ==
    /\ exit \in {"no", "dropping", "gone"} /\ visited \subseteq Idx
    /\ exit = "no" => SInv /\ visited = {}
    /\ exit # "no" => /\ slot \in [Idx -> {"free", "live", "dead"}] /\ rc \in [Idx -> Int]
                      /\ \A i \in visited : slot[i] # "live"
                      /\ \A i \in Idx \ visited :
                            slot[i] = "free" \/ (slot[i] = "live" /\ rc[i] = 1)
    /\ exit = "gone" => visited = Idx

(* block_on leaves free slots and tasks with a single reference. *)
LEMMA LeftBehind ==
    ASSUME SInv, pc \in {"done", "error"}, NEW i \in Idx
    PROVE  slot[i] = "free" \/ (slot[i] = "live" /\ rc[i] = 1)
<1>1. slot[i] \in {"free", "live"}
  BY DEF SInv, IInv, TypeOK, Core, Waiting, IsRuntimeFree
<1>2. ASSUME slot[i] = "live" PROVE rc[i] = 1
  <2>1. owed[i] = 0 /\ ~Polling(i)
    <3>1. owed[i] \in 0 .. 2
      BY DEF SInv, IInv, TypeOK
    <3>2. QED
      BY <3>1 DEF SInv, IInv, Core, Owers, Running, Polling
  <2>2. SqesOf(i) # {}
    BY <1>2, <2>1 DEF SInv, IInv, Core, Awaits
  <2>3. Armed(i)
    BY <1>2, <2>1, <2>2 DEF SInv, Single, OneSqe, Returned
  <2>4. Cardinality(SqesOf(i)) = 1
    BY <2>3, FS_Singleton DEF Armed
  <2>5. QED
    BY <1>2, <2>1, <2>4 DEF SInv, IInv, Core, RcExact
<1>3. QED
  BY <1>1, <1>2

(* Every step keeps the invariant. *)
LEMMA DropStep == ASSUME SingleShot, DropInv, [TNext]_allVars PROVE DropInv'
<1>1. CASE exit = "no" /\ Next /\ UNCHANGED exitVars
  <2>1. SInv /\ [Next]_vars
    BY <1>1 DEF DropInv
  <2>2. SInv'
    BY <2>1, NextInv, OnlySingle, NextSingle, NextLedger DEF SInv
  <2>3. QED
    BY <1>1, <2>2 DEF DropInv, exitVars
<1>2. CASE ThreadExit
  <2>1. SInv /\ pc \in {"done", "error"} /\ visited = {} /\ exit' = "dropping" /\ visited' = {}
    BY <1>2 DEF ThreadExit, DropInv
  <2>2. slot' = slot /\ rc' = rc
    BY <1>2 DEF ThreadExit, vars, taskVars
  <2>3. slot \in [Idx -> {"free", "live", "dead"}] /\ rc \in [Idx -> Int]
    BY <2>1 DEF SInv, IInv, TypeOK
  <2>4. \A i \in Idx : slot[i] = "free" \/ (slot[i] = "live" /\ rc[i] = 1)
    BY <2>1, LeftBehind
  <2>5. QED
    BY <2>1, <2>2, <2>3, <2>4 DEF DropInv
<1>3. ASSUME NEW i \in Idx, DropFree(i) PROVE DropInv'
  <2>1. slot' = slot /\ rc' = rc
    BY <1>3 DEF DropFree, vars, taskVars
  <2>2. /\ exit = "dropping" /\ exit' = "dropping" /\ visited' = visited \cup {i}
        /\ slot[i] = "free"
    BY <1>3 DEF DropFree, Visit
  <2>3. QED
    BY <2>1, <2>2 DEF DropInv
<1>4. ASSUME NEW i \in Idx, DropTask(i) PROVE DropInv'
  <2>1. /\ exit = "dropping" /\ exit' = "dropping" /\ i \notin visited
        /\ visited' = visited \cup {i} /\ slot[i] # "free"
        /\ rc' = [rc EXCEPT ![i] = rc[i] - 1]
        /\ slot' = SlotAfterRelease(i, 1)
    BY <1>4 DEF DropTask, Visit
  <2>2. slot[i] = "live" /\ rc[i] = 1
    BY <2>1 DEF DropInv
  <2>3. slot' = [slot EXCEPT ![i] = "dead"]
    BY <2>1, <2>2 DEF SlotAfterRelease
  <2>4. slot \in [Idx -> {"free", "live", "dead"}] /\ rc \in [Idx -> Int]
    BY <2>1 DEF DropInv
  <2>5. /\ slot' \in [Idx -> {"free", "live", "dead"}] /\ rc' \in [Idx -> Int]
        /\ slot'[i] = "dead" /\ \A j \in Idx : j # i => slot'[j] = slot[j] /\ rc'[j] = rc[j]
    BY <2>1, <2>3, <2>4
  <2>6. QED
    BY <2>1, <2>5 DEF DropInv
<1>5. CASE Gone
  <2>1. slot' = slot /\ rc' = rc
    BY <1>5 DEF Gone, vars, taskVars
  <2>2. exit = "dropping" /\ visited = Idx /\ exit' = "gone" /\ visited' = visited
    BY <1>5 DEF Gone
  <2>3. QED
    BY <2>1, <2>2 DEF DropInv
<1>6. CASE UNCHANGED allVars
  <2>1. exit' = exit /\ visited' = visited /\ UNCHANGED vars /\ slot' = slot /\ rc' = rc
    BY <1>6 DEF allVars, exitVars, vars, taskVars
  <2>2. exit = "no" => SInv'
    BY <2>1, NextInv, OnlySingle, NextSingle, NextLedger DEF SInv, DropInv
  <2>3. QED
    BY <2>1, <2>2 DEF DropInv
<1>7. QED
  BY <1>1, <1>2, <1>3, <1>4, <1>5, <1>6 DEF TNext, Ended

(* When the thread has ended, every task that was in the slab has been dropped
   for good, also those a failed call of block_on left waiting: the one release
   of Slab::drop is the last one of each. *)
THEOREM NothingLeaks == ASSUME SingleShot PROVE TSpec => []AllDropped
<1>1. TInit => DropInv
  <2>1. FewTasks
    BY DEF SingleShot, FewTasks
  <2>2. QED
    BY <2>1, InitInv, InitSingle DEF TInit, DropInv, SInv
<1>2. DropInv /\ [TNext]_allVars => DropInv'
  BY DropStep
<1>3. DropInv => AllDropped
  BY DEF DropInv, AllDropped
<1>4. QED
  BY <1>1, <1>2, <1>3, PTL DEF TSpec

=============================================================================
