--------------------------- MODULE TaskSlabProofs ---------------------------
(***************************************************************************)
(* Proofs about TaskSlab, for every capacity, every set of addresses and   *)
(* every width of an index, as long as the slab has at most half as many   *)
(* slots as a u32 has values (NoWrap): above that, free_slot loses the top *)
(* bit of an index.  The free list is exact only if the slot vacated is    *)
(* not on it, which the indices of RUNTIME_FREE_LIST being task slots      *)
(* gives, and those stay task slots only if insert takes a free one: free  *)
(* list and indices are one induction.                                     *)
(***************************************************************************)
EXTENDS TaskSlab, FiniteSetTheorems, SequenceTheorems, TLAPS

(* The drain has something to do. *)
Draining == draining => free_list # <<>>

IInv == TypeOK /\ FreeListExact /\ CountExact /\ IndexExact /\ Draining

-----------------------------------------------------------------------------
(* An index survives the encoding of a free slot. *)
LEMMA FreeSlotFacts ==
    ASSUME NoWrap, NEW n \in 0 .. MaxLen
    PROVE  /\ free_slot(n) \in Nat /\ is_free(free_slot(n)) /\ ~is_task(free_slot(n))
           /\ next_free(free_slot(n)) = n
<1>1. U32_MAX \in Nat /\ n \in Nat /\ n <= U32_MAX \div 2
  BY SlabAssumption DEF NoWrap
<1>2. 2 * n < U32_MAX + 1 /\ 2 * n \in Nat
  BY <1>1
<1>3. (2 * n) % (U32_MAX + 1) = 2 * n
  BY <1>1, <1>2
<1>4. free_slot(n) = 2 * n + 1
  BY <1>3 DEF free_slot
<1>5. QED
  BY <1>1, <1>4 DEF is_free, is_task, next_free

LEMMA WordParity ==
    ASSUME NEW w \in Nat
    PROVE  is_free(w) <=> ~is_task(w)
  BY DEF is_free, is_task

LEMMA TaskWord ==
    ASSUME NEW t \in Task
    PROVE  t \in Nat /\ is_task(t) /\ ~is_free(t)
  BY SlabAssumption DEF is_free, is_task

(* The free slots of an array, and FreeListExact of an array apart from the
   variables: an insert that grows the slab chains the new slots first. *)
FreeIn(sl, n) == {i \in 0 .. n - 1 : is_free(sl[i])}
TakenIn(sl, n) == {i \in 0 .. n - 1 : is_task(sl[i])}

Numbers(ord, sl, n, h) ==
    /\ \A i, j \in FreeIn(sl, n) : ord[i] = ord[j] => i = j
    /\ \A i \in FreeIn(sl, n) :
          IF ord[i] = 1 THEN next_free(sl[i]) = n
          ELSE /\ next_free(sl[i]) \in FreeIn(sl, n)
               /\ ord[next_free(sl[i])] = ord[i] - 1
    /\ IF FreeIn(sl, n) = {} THEN h = n
       ELSE h \in FreeIn(sl, n) /\ ord[h] = Cardinality(FreeIn(sl, n))

Chain(sl, n, h) ==
    \E ord \in [FreeIn(sl, n) -> 1 .. Cardinality(FreeIn(sl, n))] : Numbers(ord, sl, n, h)

LEMMA ChainIsExact == FreeListExact <=> Chain(slots, len, head)
<1>1. Free = FreeIn(slots, len)
  BY DEF Free, FreeIn
<1>2. QED
  BY <1>1 DEF FreeListExact, Chain, Numbers

LEMMA FreeInFinite ==
    ASSUME NEW n \in Nat, NEW sl
    PROVE  /\ IsFiniteSet(FreeIn(sl, n)) /\ Cardinality(FreeIn(sl, n)) \in Nat
           /\ IsFiniteSet(TakenIn(sl, n)) /\ Cardinality(TakenIn(sl, n)) \in 0 .. n
<1>1. IsFiniteSet(0 .. n - 1) /\ Cardinality(0 .. n - 1) = n
  BY FS_Interval
<1>2. FreeIn(sl, n) \in SUBSET (0 .. n - 1) /\ TakenIn(sl, n) \in SUBSET (0 .. n - 1)
  BY DEF FreeIn, TakenIn
<1>3. /\ IsFiniteSet(FreeIn(sl, n)) /\ IsFiniteSet(TakenIn(sl, n))
      /\ Cardinality(TakenIn(sl, n)) <= n
  BY <1>1, <1>2, FS_Subset
<1>4. QED
  BY <1>3, FS_CardinalityType

-----------------------------------------------------------------------------
(* insert takes the head of the chain. *)
LEMMA ChainPop ==
    ASSUME NEW n \in Nat, NEW sl \in [0 .. n - 1 -> Nat], NEW h, h # n,
           Chain(sl, n, h), NEW t \in Nat, ~is_free(t)
    PROVE  /\ h \in FreeIn(sl, n)
           /\ Chain([sl EXCEPT ![h] = t], n, next_free(sl[h]))
<1> DEFINE F == FreeIn(sl, n)
           c == Cardinality(F)
           sl2 == [sl EXCEPT ![h] = t]
           F2 == FreeIn(sl2, n)
<1>1. PICK ord \in [F -> 1 .. c] : Numbers(ord, sl, n, h)
  BY DEF Chain
<1>2. h \in F /\ ord[h] = c /\ h \in 0 .. n - 1
  BY <1>1 DEF Numbers, FreeIn
<1>3. F2 = F \ {h}
  BY <1>2 DEF FreeIn
<1>4. IsFiniteSet(F) /\ c \in Nat /\ Cardinality(F2) = c - 1 /\ IsFiniteSet(F2)
  BY <1>2, <1>3, FreeInFinite, FS_RemoveElement, ZenonT(40)
<1>5. \A i \in F2 : sl2[i] = sl[i] /\ i \in F /\ i # h
  BY <1>3 DEF FreeIn
<1> DEFINE ord2 == [i \in F2 |-> ord[i]]
<1> HIDE DEF F, F2, c, sl2
<1>6. ASSUME NEW i \in F2 PROVE ord[i] \in 1 .. c - 1
  <2>1. i \in F /\ i # h /\ ord[i] \in 1 .. c
    BY <1>1, <1>5
  <2>2. ord[i] # ord[h]
    BY <1>1, <1>2, <2>1 DEF Numbers, F
  <2>3. QED
    BY <1>2, <1>4, <2>1, <2>2
<1>7. ord2 \in [F2 -> 1 .. Cardinality(F2)]
  BY <1>4, <1>6
<1>8. \A i, j \in F2 : ord2[i] = ord2[j] => i = j
  BY <1>1, <1>5 DEF Numbers, F
<1>9. ASSUME NEW i \in F2
      PROVE  IF ord2[i] = 1 THEN next_free(sl2[i]) = n
             ELSE next_free(sl2[i]) \in F2 /\ ord2[next_free(sl2[i])] = ord2[i] - 1
  <2>1. CASE ord[i] = 1
    BY <1>1, <1>5, <2>1 DEF Numbers, F
  <2>2. CASE ord[i] # 1
    <3>1. next_free(sl[i]) \in F /\ ord[next_free(sl[i])] = ord[i] - 1
      BY <1>1, <1>5, <2>2 DEF Numbers, F
    <3>2. next_free(sl[i]) # h
      BY <1>2, <1>4, <1>6, <3>1
    <3>3. QED
      BY <1>3, <1>5, <2>2, <3>1, <3>2
  <2>3. QED
    BY <2>1, <2>2
<1>10. IF F2 = {} THEN next_free(sl[h]) = n
       ELSE next_free(sl[h]) \in F2 /\ ord2[next_free(sl[h])] = Cardinality(F2)
  <2>1. CASE c = 1
    <3>1. F2 = {}
      BY <1>6, <2>1
    <3>2. next_free(sl[h]) = n
      BY <1>1, <1>2, <2>1 DEF Numbers, F
    <3>3. QED
      BY <3>1, <3>2
  <2>2. CASE c # 1
    <3>1. next_free(sl[h]) \in F /\ ord[next_free(sl[h])] = c - 1
      BY <1>1, <1>2, <2>2 DEF Numbers, F
    <3>2. next_free(sl[h]) # h
      BY <1>2, <1>4, <3>1
    <3>3. next_free(sl[h]) \in F2
      BY <1>3, <3>1, <3>2
    <3>4. QED
      BY <1>4, <3>1, <3>3
  <2>3. QED
    BY <2>1, <2>2
<1>11. Numbers(ord2, sl2, n, next_free(sl[h]))
  BY <1>8, <1>9, <1>10 DEF Numbers, F2
<1>12. Chain(sl2, n, next_free(sl[h]))
  BY <1>7, <1>11 DEF Chain, F2
<1>13. QED
  BY <1>2, <1>12 DEF sl2, F

(* remove_dropped_task puts a slot before the head. *)
LEMMA ChainPush ==
    ASSUME NoWrap, NEW n \in 0 .. MaxLen, NEW sl \in [0 .. n - 1 -> Nat], NEW h,
           Chain(sl, n, h), NEW i \in 0 .. n - 1, ~is_free(sl[i])
    PROVE  /\ h \in 0 .. n
           /\ Chain([sl EXCEPT ![i] = free_slot(h)], n, i)
<1> DEFINE F == FreeIn(sl, n)
           c == Cardinality(F)
           sl2 == [sl EXCEPT ![i] = free_slot(h)]
           F2 == FreeIn(sl2, n)
<1>0. n \in Nat /\ MaxLen \in Nat /\ n <= MaxLen
  BY SlabAssumption
<1>1. PICK ord \in [F -> 1 .. c] : Numbers(ord, sl, n, h)
  BY DEF Chain
<1>2. h \in 0 .. n
  BY <1>0, <1>1 DEF Numbers, FreeIn
<1>3. /\ free_slot(h) \in Nat /\ is_free(free_slot(h)) /\ next_free(free_slot(h)) = h
  BY <1>0, <1>2, FreeSlotFacts
<1>4. F2 = F \cup {i} /\ i \notin F
  BY <1>3 DEF FreeIn
<1>5. IsFiniteSet(F) /\ c \in Nat /\ Cardinality(F2) = c + 1
  BY <1>0, <1>4, FreeInFinite, FS_AddElement
<1>6. (F = {} <=> c = 0) /\ (F = {} => h = n) /\ (F # {} => h \in F /\ ord[h] = c)
  BY <1>1, <1>5, FS_EmptySet DEF Numbers
<1>7. sl2[i] = free_slot(h) /\ \A j \in F : sl2[j] = sl[j] /\ j # i
  BY <1>4 DEF FreeIn
<1> DEFINE ord2 == [j \in F2 |-> IF j = i THEN c + 1 ELSE ord[j]]
<1> HIDE DEF F, F2, c, sl2
<1>8. ord2 \in [F2 -> 1 .. Cardinality(F2)]
  BY <1>1, <1>4, <1>5
<1>9. i \in F2 /\ ord2[i] = c + 1 /\ \A j \in F : j \in F2 /\ ord2[j] = ord[j] /\ ord[j] \in 1 .. c
  BY <1>1, <1>4, <1>7
<1>10. \A j, k \in F2 : ord2[j] = ord2[k] => j = k
  <2> SUFFICES ASSUME NEW j \in F2, NEW k \in F2, ord2[j] = ord2[k] PROVE j = k
    OBVIOUS
  <2>1. CASE j \in F /\ k \in F
    BY <1>1, <1>9, <2>1 DEF Numbers, F
  <2>2. CASE j = i \/ k = i
    BY <1>4, <1>5, <1>9, <2>2
  <2>3. QED
    BY <1>4, <2>1, <2>2
<1>11. ASSUME NEW j \in F2
       PROVE  IF ord2[j] = 1 THEN next_free(sl2[j]) = n
              ELSE next_free(sl2[j]) \in F2 /\ ord2[next_free(sl2[j])] = ord2[j] - 1
  <2>1. CASE j = i
    <3>1. next_free(sl2[j]) = h
      BY <1>3, <1>7, <2>1
    <3>2. CASE F = {}
      BY <1>5, <1>6, <1>9, <2>1, <3>1, <3>2
    <3>3. CASE F # {}
      <4>1. h \in F /\ c \in Nat /\ c # 0 /\ ord2[j] = c + 1
        BY <1>5, <1>6, <1>9, <2>1, <3>3
      <4>2. h \in F2 /\ ord2[h] = c
        BY <1>6, <1>9, <4>1
      <4>3. ord2[j] # 1 /\ ord2[h] = ord2[j] - 1
        BY <4>1, <4>2
      <4>4. QED
        BY <3>1, <4>2, <4>3
    <3>4. QED
      BY <3>2, <3>3
  <2>2. CASE j \in F
    <3>1. sl2[j] = sl[j] /\ ord2[j] = ord[j]
      BY <1>7, <1>9, <2>2
    <3>2. CASE ord[j] = 1
      BY <1>1, <2>2, <3>1, <3>2 DEF Numbers, F
    <3>3. CASE ord[j] # 1
      <4>1. next_free(sl[j]) \in F /\ ord[next_free(sl[j])] = ord[j] - 1
        BY <1>1, <2>2, <3>3 DEF Numbers, F
      <4>2. QED
        BY <1>9, <3>1, <3>3, <4>1
    <3>4. QED
      BY <3>2, <3>3
  <2>3. QED
    BY <1>4, <2>1, <2>2
<1>12. Numbers(ord2, sl2, n, i)
  BY <1>5, <1>9, <1>10, <1>11 DEF Numbers, F2
<1>13. Chain(sl2, n, i)
  BY <1>8, <1>12 DEF Chain, F2
<1>14. QED
  BY <1>2, <1>13 DEF sl2

(* with_capacity and growth: slots from m on chained to their successors. *)
LEMMA ChainFresh ==
    ASSUME NoWrap, NEW n \in 0 .. MaxLen, NEW m \in Nat, m < n, NEW sl,
           \A i \in 0 .. n - 1 : IF i < m THEN ~is_free(sl[i]) ELSE sl[i] = free_slot(i + 1)
    PROVE  Chain(sl, n, m)
<1>0. n \in Nat /\ MaxLen \in Nat /\ n <= MaxLen
  BY SlabAssumption
<1> DEFINE F == FreeIn(sl, n)
           ord == [i \in F |-> n - i]
<1>1. \A i \in m .. n - 1 : is_free(sl[i]) /\ next_free(sl[i]) = i + 1
  BY <1>0, FreeSlotFacts
<1>2. F = m .. n - 1
  BY <1>0, <1>1 DEF FreeIn
<1>3. Cardinality(F) = n - m
  BY <1>0, <1>2, FS_Interval
<1> HIDE DEF F
<1>4. ord \in [F -> 1 .. Cardinality(F)]
  BY <1>0, <1>2, <1>3
<1>5. /\ \A i, j \in F : ord[i] = ord[j] => i = j
      /\ F # {} /\ m \in F /\ ord[m] = Cardinality(F)
  BY <1>0, <1>2, <1>3
<1>6. \A i \in F : IF ord[i] = 1 THEN next_free(sl[i]) = n
                   ELSE next_free(sl[i]) \in F /\ ord[next_free(sl[i])] = ord[i] - 1
  BY <1>0, <1>1, <1>2
<1>7. Numbers(ord, sl, n, m)
  BY <1>5, <1>6 DEF Numbers, F
<1>8. QED
  BY <1>4, <1>7 DEF Chain, F

-----------------------------------------------------------------------------
(***************************************************************************)
(* The steps.                                                              *)
(***************************************************************************)
(* What the invariant says of the variables, in the form the steps use. *)
LEMMA Facts ==
    ASSUME IInv
    PROVE  /\ len \in Nat /\ MaxLen \in Nat /\ len <= MaxLen /\ len >= Capacity /\ Capacity \in Nat
           /\ len > 0
           /\ slots \in [0 .. len - 1 -> Nat] /\ head \in 0 .. len
           /\ slab_idx \in [alive -> 0 .. len - 1] /\ alive \subseteq Task
           /\ free_list \in Seq(0 .. len - 1)
           /\ Chain(slots, len, head)
           /\ task_count = Cardinality(TakenIn(slots, len))
           /\ \A t \in alive : slots[slab_idx[t]] = t /\ slab_idx[t] \in TakenIn(slots, len)
           /\ \A k \in DOMAIN free_list : free_list[k] \in TakenIn(slots, len)
<1>1. /\ len \in Capacity .. MaxLen /\ Capacity \in Nat /\ Capacity > 0 /\ MaxLen \in Nat
  BY SlabAssumption DEF IInv, TypeOK
<1>2. /\ slots \in [0 .. len - 1 -> Nat] /\ head \in 0 .. len
      /\ slab_idx \in [alive -> 0 .. len - 1] /\ alive \subseteq Task
      /\ free_list \in Seq(0 .. len - 1)
  BY DEF IInv, TypeOK
<1>3. Chain(slots, len, head)
  BY ChainIsExact DEF IInv
<1>4. TakenIn(slots, len) = Occupied
  BY DEF TakenIn, Occupied
<1>5. ASSUME NEW t \in alive
      PROVE  slots[slab_idx[t]] = t /\ slab_idx[t] \in TakenIn(slots, len)
  <2>1. slots[slab_idx[t]] = t /\ slab_idx[t] \in 0 .. len - 1 /\ is_task(t)
    BY <1>2, TaskWord DEF IInv, IndexExact
  <2>2. QED
    BY <2>1 DEF TakenIn
<1>6. QED
  BY <1>1, <1>2, <1>3, <1>4, <1>5 DEF IInv, CountExact, IndexExact

(* No slot is both free and a task. *)
LEMMA FreeOrTaken ==
    ASSUME NEW n \in Nat, NEW sl \in [0 .. n - 1 -> Nat]
    PROVE  \A i \in FreeIn(sl, n) : i \notin TakenIn(sl, n)
  BY WordParity DEF FreeIn, TakenIn

(* The chain starts within the array. *)
LEMMA ChainHead ==
    ASSUME NEW n \in Nat, NEW sl, NEW h, Chain(sl, n, h)
    PROVE  h \in 0 .. n
  BY DEF Chain, Numbers, FreeIn

(* The end of insert, in an array whose slots beyond the old ones are free. *)
LEMMA PlaceStep ==
    ASSUME IInv, NEW t \in Task \ alive, NEW n \in len .. MaxLen,
           NEW sl \in [0 .. n - 1 -> Nat],
           \A i \in 0 .. len - 1 : sl[i] = slots[i],
           \A i \in len .. n - 1 : ~is_task(sl[i]),
           Chain(sl, n, head), head # n, ~draining, Place(t, sl, n)
    PROVE  IInv'
<1> DEFINE sl2 == [sl EXCEPT ![head] = t]
<1>1. /\ len \in Nat /\ n \in Nat /\ MaxLen \in Nat /\ len <= n /\ n <= MaxLen
      /\ Capacity \in Nat /\ len >= Capacity
  BY Facts
<1>2. t \in Nat /\ is_task(t) /\ ~is_free(t)
  BY TaskWord
<1>3. head \in FreeIn(sl, n) /\ Chain(sl2, n, next_free(sl[head])) /\ head \in 0 .. n - 1
  BY <1>1, <1>2, ChainPop DEF FreeIn
<1>4. slots' = sl2 /\ len' = n /\ head' = next_free(sl[head])
  BY DEF Place
<1>5. FreeListExact'
  <2>1. Chain(slots', len', head')
    BY <1>3, <1>4
  <2>2. Free' = FreeIn(slots', len')
    BY DEF Free, FreeIn
  <2>3. QED
    BY <2>1, <2>2 DEF FreeListExact, Chain, Numbers
<1>6. sl2 \in [0 .. n - 1 -> Nat] /\ sl2[head] = t /\ \A i \in 0 .. n - 1 : i # head => sl2[i] = sl[i]
  BY <1>2, <1>3
<1>7. TakenIn(sl2, n) = TakenIn(slots, len) \cup {head} /\ head \notin TakenIn(slots, len)
  <2>1. \A i \in 0 .. n - 1 : i \in 0 .. len - 1 \/ i \in len .. n - 1
    BY <1>1
  <2>2. TakenIn(sl, n) = TakenIn(slots, len)
    BY <1>1, <2>1 DEF TakenIn
  <2>3. head \notin TakenIn(sl, n)
    BY <1>1, <1>3, FreeOrTaken
  <2>4. TakenIn(sl2, n) = TakenIn(sl, n) \cup {head}
    BY <1>2, <1>3, <1>6 DEF TakenIn
  <2>5. QED
    BY <2>2, <2>3, <2>4
<1>8. CountExact'
  <2>1. Occupied' = TakenIn(sl2, n)
    BY <1>4 DEF Occupied, TakenIn
  <2>2. Cardinality(TakenIn(sl2, n)) = Cardinality(TakenIn(slots, len)) + 1
    BY <1>1, <1>7, FreeInFinite, FS_AddElement
  <2>3. QED
    BY <2>1, <2>2, Facts DEF CountExact, Place
<1>9. /\ alive' = alive \cup {t} /\ free_list' = free_list /\ draining' = draining /\ fault' = fault
      /\ slab_idx' = [u \in alive \cup {t} |-> IF u = t THEN head ELSE slab_idx[u]]
  BY DEF Place, alive
<1>10. TypeOK'
  <2>1. head' \in 0 .. n
    BY <1>1, <1>3, <1>4, ChainHead
  <2>2. task_count' \in 0 .. n
    BY <1>1, <1>4, <1>8, FreeInFinite DEF CountExact, Occupied, TakenIn
  <2>3. slab_idx' \in [alive' -> 0 .. n - 1]
    <3>1. \A u \in alive : slab_idx[u] \in 0 .. n - 1
      BY <1>1, Facts
    <3>2. QED
      BY <1>3, <1>9, <3>1
  <2>4. free_list' \in Seq(0 .. n - 1)
    <3>1. free_list \in Seq(0 .. len - 1) /\ 0 .. len - 1 \subseteq 0 .. n - 1
      BY <1>1, Facts
    <3>2. QED
      BY <1>9, <3>1, SeqMonotonic
  <2>5. alive' \subseteq Task /\ len' \in Capacity .. MaxLen /\ slots' \in [0 .. len' - 1 -> Nat]
    BY <1>1, <1>4, <1>6, <1>9, Facts
  <2>6. draining' \in BOOLEAN /\ fault' \in {"none", "growth", "remove"}
    BY <1>9 DEF IInv, TypeOK
  <2>7. QED
    BY <1>4, <2>1, <2>2, <2>3, <2>4, <2>5, <2>6 DEF TypeOK
<1>11. IndexExact'
  <2>1. ASSUME NEW u \in alive'
        PROVE  slots'[slab_idx'[u]] = u
    <3>1. CASE u = t
      BY <1>4, <1>6, <1>9, <3>1
    <3>2. CASE u # t
      <4>1. u \in alive /\ slab_idx'[u] = slab_idx[u]
        BY <1>9, <3>2
      <4>2. slab_idx[u] # head /\ slab_idx[u] \in 0 .. len - 1 /\ slots[slab_idx[u]] = u
        BY <1>7, <4>1, Facts
      <4>3. sl2[slab_idx[u]] = sl[slab_idx[u]] /\ sl[slab_idx[u]] = u
        BY <1>1, <1>6, <4>2
      <4>4. QED
        BY <1>4, <4>1, <4>3
    <3>3. QED
      BY <3>1, <3>2
  <2>2. ASSUME NEW k \in DOMAIN free_list'
        PROVE  /\ free_list'[k] \in Occupied'
               /\ \A j \in DOMAIN free_list' : free_list'[j] = free_list'[k] => j = k
               /\ \A u \in alive' : slab_idx'[u] # free_list'[k]
    <3>1. free_list[k] \in TakenIn(slots, len) /\ k \in DOMAIN free_list
      BY <1>9, Facts
    <3>2. Occupied' = TakenIn(sl2, n)
      BY <1>4 DEF Occupied, TakenIn
    <3>3. \A u \in alive : slab_idx[u] # free_list[k]
      BY <3>1 DEF IInv, IndexExact
    <3>4. \A u \in alive' : slab_idx'[u] # free_list[k]
      BY <1>7, <1>9, <3>1, <3>3
    <3>5. \A j \in DOMAIN free_list : free_list[j] = free_list[k] => j = k
      BY <3>1 DEF IInv, IndexExact
    <3>6. QED
      BY <1>7, <1>9, <3>1, <3>2, <3>4, <3>5
  <2>3. fault' # "remove"
    BY <1>9 DEF IInv, IndexExact
  <2>4. QED
    BY <2>1, <2>2, <2>3 DEF IndexExact
<1>12. Draining'
  BY <1>9 DEF Draining
<1>13. QED
  BY <1>5, <1>8, <1>10, <1>11, <1>12 DEF IInv

(* insert with a free slot. *)
LEMMA InsertStep == \A t \in Task : IInv /\ Insert(t) => IInv'
<1> SUFFICES ASSUME NEW t \in Task, IInv, Insert(t) PROVE IInv'
  OBVIOUS
<1>1. /\ t \in Task \ alive /\ head # len /\ ~draining /\ Place(t, slots, len)
  BY DEF Insert
<1>2. len \in len .. MaxLen /\ slots \in [0 .. len - 1 -> Nat] /\ len .. len - 1 = {}
  BY Facts
<1>3. Chain(slots, len, head)
  BY Facts
<1>4. QED
  BY <1>1, <1>2, <1>3, PlaceStep

(* insert that grows the slab: the list was empty, and is the new slots. *)
LEMMA GrownFacts ==
    ASSUME NoWrap, IInv, head = len, len # U32_MAX, NewLen <= MaxLen
    PROVE  /\ NewLen \in len .. MaxLen /\ len < NewLen
           /\ Grown(NewLen) \in [0 .. NewLen - 1 -> Nat]
           /\ \A i \in 0 .. len - 1 : Grown(NewLen)[i] = slots[i]
           /\ \A i \in len .. NewLen - 1 : ~is_task(Grown(NewLen)[i])
           /\ Chain(Grown(NewLen), NewLen, head)
<1> DEFINE n == NewLen
           sl == Grown(NewLen)
<1>1. /\ len \in Nat /\ MaxLen \in Nat /\ U32_MAX \in Nat /\ len <= MaxLen /\ MaxLen <= U32_MAX
      /\ len > 0
  BY Facts, SlabAssumption
<1>2. n \in Nat /\ len < n /\ n <= MaxLen
  BY <1>1 DEF NewLen
<1>3. sl = [i \in 0 .. n - 1 |-> IF i < len THEN slots[i] ELSE free_slot(i + 1)]
  BY DEF Grown
<1> HIDE DEF n, sl
<1>4. \A i \in 0 .. len - 1 : i \in 0 .. n - 1 /\ sl[i] = slots[i] /\ slots[i] \in Nat
  BY <1>1, <1>2, <1>3, Facts
<1>5. \A i \in len .. n - 1 :
         /\ i \in 0 .. n - 1 /\ sl[i] = free_slot(i + 1) /\ sl[i] \in Nat /\ ~is_task(sl[i])
  <2> SUFFICES ASSUME NEW i \in len .. n - 1
               PROVE  /\ i \in 0 .. n - 1 /\ sl[i] = free_slot(i + 1)
                      /\ sl[i] \in Nat /\ ~is_task(sl[i])
    OBVIOUS
  <2>1. i \in 0 .. n - 1 /\ ~(i < len) /\ i + 1 \in 0 .. MaxLen
    BY <1>1, <1>2
  <2>2. sl[i] = free_slot(i + 1)
    BY <1>3, <2>1
  <2>3. QED
    BY <2>1, <2>2, FreeSlotFacts
<1>6. \A i \in 0 .. n - 1 : i \in 0 .. len - 1 \/ i \in len .. n - 1
  BY <1>1, <1>2
<1>7. DOMAIN sl = 0 .. n - 1 /\ sl \in [0 .. n - 1 -> Nat]
  BY <1>3, <1>4, <1>5, <1>6
<1>8. FreeIn(slots, len) = {}
  BY <1>1, Facts, SMTT(30) DEF Chain, Numbers, FreeIn
<1>9. \A i \in 0 .. n - 1 : IF i < len THEN ~is_free(sl[i]) ELSE sl[i] = free_slot(i + 1)
  BY <1>1, <1>2, <1>4, <1>5, <1>6, <1>8 DEF FreeIn
<1>10. Chain(sl, n, len)
  BY <1>1, <1>2, <1>9, ChainFresh
<1>11. QED
  BY <1>1, <1>2, <1>4, <1>5, <1>7, <1>10 DEF n, sl

LEMMA InsertGrowsStep == ASSUME NoWrap PROVE \A t \in Task : IInv /\ InsertGrows(t) => IInv'
<1> SUFFICES ASSUME NEW t \in Task, IInv, InsertGrows(t) PROVE IInv'
  OBVIOUS
<1>1. /\ t \in Task \ alive /\ head = len /\ len # U32_MAX /\ NewLen <= MaxLen /\ ~draining
      /\ Place(t, Grown(NewLen), NewLen)
  BY DEF InsertGrows
<1>2. head # NewLen
  BY <1>1, GrownFacts
<1>3. QED
  BY <1>1, <1>2, GrownFacts, PlaceStep

(* The last handle of a task: its index goes to the end of the free list. *)
LEMMA DieStep == \A t \in Task : IInv /\ Die(t) => IInv'
<1> SUFFICES ASSUME NEW t \in Task, IInv, Die(t) PROVE IInv'
  OBVIOUS
<1> DEFINE i == slab_idx[t]
           m == Len(free_list)
<1>1. /\ t \in alive /\ ~draining
      /\ slab_idx' = [u \in alive \ {t} |-> slab_idx[u]]
      /\ free_list' = Append(free_list, i)
      /\ UNCHANGED <<slots, head, len, task_count, draining, fault>>
  BY DEF Die
<1>2. alive' = alive \ {t} /\ \A u \in alive' : slab_idx'[u] = slab_idx[u]
  BY <1>1 DEF alive
<1>3. i \in 0 .. len - 1 /\ i \in TakenIn(slots, len) /\ slots[i] = t
  BY <1>1, Facts
<1>4. /\ free_list \in Seq(0 .. len - 1) /\ free_list' \in Seq(0 .. len - 1) /\ m \in Nat
      /\ DOMAIN free_list = 1 .. m /\ DOMAIN free_list' = 1 .. m + 1 /\ free_list'[m + 1] = i
      /\ \A k \in 1 .. m : free_list'[k] = free_list[k]
  BY <1>1, <1>3, Facts
<1>5. TypeOK'
  <2>1. slab_idx' \in [alive' -> 0 .. len - 1] /\ alive' \subseteq Task
    BY <1>1, <1>2, Facts
  <2>2. QED
    BY <1>1, <1>4, <2>1 DEF IInv, TypeOK
<1>6. FreeListExact' /\ CountExact'
  <2>1. Free' = Free /\ Occupied' = Occupied
    BY <1>1 DEF Free, Occupied
  <2>2. QED
    BY <1>1, <2>1 DEF IInv, FreeListExact, CountExact
<1>7. IndexExact'
  <2> DEFINE Listed(k) == /\ free_list'[k] \in TakenIn(slots, len)
                          /\ \A j \in DOMAIN free_list' : free_list'[j] = free_list'[k] => j = k
                          /\ \A u \in alive' : slab_idx'[u] # free_list'[k]
  <2>1. \A u \in alive' : slab_idx[u] # i /\ slots'[slab_idx'[u]] = u
    BY <1>1, <1>2, <1>3, Facts
  <2>2. \A k \in 1 .. m : free_list[k] # i
    BY <1>1, <1>4 DEF IInv, IndexExact
  <2>3. \A k \in 1 .. m :
          /\ \A j \in 1 .. m : free_list[j] = free_list[k] => j = k
          /\ \A u \in alive : slab_idx[u] # free_list[k]
    BY <1>4 DEF IInv, IndexExact
  <2>4. ASSUME NEW k \in DOMAIN free_list' PROVE Listed(k)
    <3>1. CASE k = m + 1
      <4>1. \A j \in DOMAIN free_list' : free_list'[j] = i => j = k
        BY <1>4, <2>2, <3>1
      <4>2. QED
        BY <1>2, <1>3, <1>4, <2>1, <3>1, <4>1
    <3>2. CASE k \in 1 .. m
      <4>1. free_list'[k] = free_list[k] /\ free_list[k] \in TakenIn(slots, len)
        BY <1>4, <3>2, Facts
      <4>2. \A j \in DOMAIN free_list' : free_list'[j] = free_list[k] => j = k
        BY <1>4, <2>2, <2>3, <3>2
      <4>3. \A u \in alive' : slab_idx'[u] # free_list[k]
        BY <1>2, <2>3, <3>2
      <4>4. QED
        BY <4>1, <4>2, <4>3
    <3>3. QED
      BY <1>4, <3>1, <3>2
  <2>5. Occupied' = TakenIn(slots, len)
    BY <1>1 DEF Occupied, TakenIn
  <2>6. fault' # "remove"
    BY <1>1 DEF IInv, IndexExact
  <2>7. QED
    BY <2>1, <2>4, <2>5, <2>6 DEF IndexExact
<1>8. Draining'
  BY <1>1 DEF Draining
<1>9. QED
  BY <1>5, <1>6, <1>7, <1>8 DEF IInv

(* remove_dropped_task: neither of its assertions fails, and the slot it
   vacates becomes the head of the chain. *)
LEMMA RemoveFacts ==
    ASSUME IInv, draining
    PROVE  /\ free_list # <<>> /\ Head(free_list) = free_list[1] /\ 1 \in DOMAIN free_list
           /\ Head(free_list) \in 0 .. len - 1 /\ Head(free_list) \in TakenIn(slots, len)
           /\ ~Refused(Head(free_list))
<1>1. free_list # <<>>
  BY DEF IInv, Draining
<1>2. Head(free_list) = free_list[1] /\ 1 \in DOMAIN free_list
  BY <1>1, Facts
<1>3. Head(free_list) \in TakenIn(slots, len)
  BY <1>2, Facts
<1>4. Head(free_list) \in 0 .. len - 1 /\ is_task(slots[Head(free_list)])
  BY <1>3 DEF TakenIn
<1>5. QED
  BY <1>1, <1>2, <1>3, <1>4, Facts, WordParity DEF Refused

LEMMA RemoveStep == ASSUME NoWrap PROVE IInv /\ remove_dropped_task => IInv'
<1> SUFFICES ASSUME IInv, remove_dropped_task PROVE IInv'
  OBVIOUS
<1> DEFINE i == Head(free_list)
           m == Len(free_list)
           sl2 == [slots EXCEPT ![i] = free_slot(head)]
<1>1. /\ free_list # <<>> /\ i = free_list[1] /\ 1 \in DOMAIN free_list
      /\ i \in 0 .. len - 1 /\ i \in TakenIn(slots, len) /\ ~Refused(i)
  BY RemoveFacts DEF remove_dropped_task
<1>2. /\ slots' = sl2 /\ head' = i /\ task_count' = task_count - 1
      /\ free_list' = Tail(free_list) /\ draining' = (free_list' # <<>>)
      /\ UNCHANGED <<len, slab_idx, fault>>
  BY <1>1 DEF remove_dropped_task, FreedWord
<1>3. /\ len \in Nat /\ len \in 0 .. MaxLen /\ slots \in [0 .. len - 1 -> Nat]
      /\ ~is_free(slots[i])
  BY <1>1, Facts DEF Refused
<1>4. /\ head \in 0 .. len /\ head \in 0 .. MaxLen
  BY Facts
<1>5. Chain(sl2, len, i)
  BY <1>1, <1>3, Facts, ChainPush
<1>6. /\ free_slot(head) \in Nat /\ ~is_task(free_slot(head))
  BY <1>4, FreeSlotFacts
<1>7. /\ sl2 \in [0 .. len - 1 -> Nat] /\ sl2[i] = free_slot(head)
      /\ \A j \in 0 .. len - 1 : j # i => sl2[j] = slots[j]
  BY <1>1, <1>3, <1>6
<1>8. TakenIn(sl2, len) = TakenIn(slots, len) \ {i}
  BY <1>1, <1>6, <1>7 DEF TakenIn
<1>9. FreeListExact'
  <2>1. Chain(slots', len', head')
    BY <1>2, <1>5
  <2>2. Free' = FreeIn(slots', len')
    BY DEF Free, FreeIn
  <2>3. QED
    BY <2>1, <2>2 DEF FreeListExact, Chain, Numbers
<1>10. Occupied' = TakenIn(sl2, len)
  BY <1>2 DEF Occupied, TakenIn
<1>11. CountExact'
  <2>1. Cardinality(TakenIn(sl2, len)) = Cardinality(TakenIn(slots, len)) - 1
    BY <1>1, <1>3, <1>8, FreeInFinite, FS_RemoveElement, ZenonT(40)
  <2>2. QED
    BY <1>2, <1>10, <2>1, Facts DEF CountExact
<1>12. /\ free_list' \in Seq(0 .. len - 1) /\ m \in Nat
       /\ DOMAIN free_list = 1 .. m /\ DOMAIN free_list' = 1 .. m - 1
       /\ \A k \in 1 .. m - 1 : free_list'[k] = free_list[k + 1] /\ k + 1 \in 1 .. m /\ k + 1 # 1
  BY <1>1, <1>2, Facts
<1>13. TypeOK'
  <2>1. task_count' \in 0 .. len
    BY <1>3, <1>10, <1>11, FreeInFinite DEF CountExact
  <2>2. len' \in Capacity .. MaxLen /\ len' = len
    BY <1>2 DEF IInv, TypeOK
  <2>3. slots' \in [0 .. len - 1 -> Nat]
    BY <1>2, <1>7
  <2>4. head' \in 0 .. len
    BY <1>1, <1>2, <1>3
  <2>5. alive' \subseteq Task /\ slab_idx' \in [alive' -> 0 .. len - 1]
    <3>1. alive' = alive /\ slab_idx' = slab_idx
      BY <1>2 DEF alive
    <3>2. QED
      BY <3>1, Facts
  <2>6. draining' \in BOOLEAN
    BY <1>2
  <2>7. fault' \in {"none", "growth", "remove"}
    BY <1>2 DEF IInv, TypeOK
  <2>8. QED
    BY <1>12, <2>1, <2>2, <2>3, <2>4, <2>5, <2>6, <2>7 DEF TypeOK
<1>14. IndexExact'
  <2>0. alive' = alive /\ slab_idx' = slab_idx
    BY <1>2 DEF alive
  <2>1. \A t \in alive : slab_idx[t] # i /\ slab_idx[t] \in 0 .. len - 1 /\ slots[slab_idx[t]] = t
    BY <1>1, Facts DEF IInv, IndexExact
  <2>2. \A t \in alive : slots'[slab_idx[t]] = t
    BY <1>2, <1>7, <2>1
  <2>3. \A k \in 1 .. m :
          /\ free_list[k] \in TakenIn(slots, len)
          /\ \A j \in 1 .. m : free_list[j] = free_list[k] => j = k
          /\ \A t \in alive : slab_idx[t] # free_list[k]
    BY <1>12, Facts DEF IInv, IndexExact
  <2>4. ASSUME NEW k \in DOMAIN free_list'
        PROVE  /\ free_list'[k] \in Occupied'
               /\ \A j \in DOMAIN free_list' : free_list'[j] = free_list'[k] => j = k
               /\ \A t \in alive' : slab_idx'[t] # free_list'[k]
    <3>1. k \in 1 .. m - 1 /\ free_list'[k] = free_list[k + 1] /\ k + 1 \in 1 .. m /\ k + 1 # 1
      BY <1>12
    <3>2. free_list[k + 1] # i
      BY <1>1, <1>12, <2>3, <3>1
    <3>3. free_list'[k] \in Occupied'
      BY <1>8, <1>10, <2>3, <3>1, <3>2
    <3>4. ASSUME NEW j \in DOMAIN free_list', free_list'[j] = free_list'[k] PROVE j = k
      <4>1. j \in 1 .. m - 1 /\ j + 1 \in 1 .. m /\ free_list'[j] = free_list[j + 1]
        BY <1>12
      <4>2. j + 1 = k + 1
        BY <2>3, <3>1, <3>4, <4>1
      <4>3. QED
        BY <1>12, <3>1, <4>1, <4>2
    <3>5. QED
      BY <2>0, <2>3, <3>1, <3>3, <3>4
  <2>5. fault' # "remove"
    BY <1>2 DEF IInv, IndexExact
  <2>6. QED
    BY <2>0, <2>2, <2>4, <2>5 DEF IndexExact
<1>15. Draining'
  BY <1>2 DEF Draining
<1>16. QED
  BY <1>9, <1>11, <1>13, <1>14, <1>15 DEF IInv

(* Steps that touch neither the array nor the indices. *)
LEMMA OtherSteps ==
    ASSUME IInv,
           UNCHANGED <<slots, head, len, task_count, slab_idx, free_list>>,
           draining' \in BOOLEAN, draining' => free_list # <<>>,
           fault' \in {"none", "growth", "remove"}, fault' # "remove"
    PROVE  IInv'
<1>1. Free' = Free /\ Occupied' = Occupied /\ alive' = alive
  BY DEF Free, Occupied, alive
<1>2. TypeOK' /\ Draining'
  BY <1>1 DEF IInv, TypeOK, Draining
<1>3. FreeListExact' /\ CountExact'
  BY <1>1 DEF IInv, FreeListExact, CountExact
<1>4. IndexExact'
  BY <1>1 DEF IInv, IndexExact
<1>5. QED
  BY <1>2, <1>3, <1>4 DEF IInv

-----------------------------------------------------------------------------
(* with_capacity builds an exact list of all its slots. *)
LEMMA InitInv == ASSUME NoWrap PROVE Init => IInv
<1> SUFFICES ASSUME Init PROVE IInv
  OBVIOUS
<1> USE DEF Init
<1>1. Capacity \in Nat /\ Capacity > 0 /\ MaxLen \in Nat /\ Capacity <= MaxLen
  BY SlabAssumption
<1>2. \A i \in 0 .. Capacity - 1 :
        /\ slots[i] = free_slot(i + 1) /\ slots[i] \in Nat /\ ~is_task(slots[i])
  BY <1>1, FreeSlotFacts
<1>3. slots \in [0 .. len - 1 -> Nat]
  BY <1>1, <1>2
<1>4. \A i \in 0 .. len - 1 : IF i < 0 THEN ~is_free(slots[i]) ELSE slots[i] = free_slot(i + 1)
  BY <1>1, <1>2
<1>5. Chain(slots, len, 0)
  BY <1>1, <1>4, ChainFresh
<1>6. FreeListExact
  BY <1>5, ChainIsExact
<1>7. Occupied = {}
  BY <1>1, <1>2 DEF Occupied
<1>8. CountExact
  BY <1>7, FS_EmptySet DEF CountExact
<1>9. alive = {} /\ slab_idx \in [alive -> 0 .. len - 1]
  BY DEF alive
<1>10. TypeOK
  BY <1>1, <1>3, <1>9 DEF TypeOK
<1>11. IndexExact /\ Draining
  BY <1>9 DEF IndexExact, Draining
<1>12. QED
  BY <1>6, <1>8, <1>10, <1>11 DEF IInv

(* Every step keeps the invariant. *)
LEMMA NextInv == ASSUME NoWrap PROVE IInv /\ [Next]_vars => IInv'
<1> SUFFICES ASSUME IInv, [Next]_vars PROVE IInv'
  OBVIOUS
<1>0. /\ draining \in BOOLEAN /\ fault \in {"none", "growth", "remove"} /\ fault # "remove"
      /\ draining => free_list # <<>>
  BY DEF IInv, TypeOK, IndexExact, Draining
<1>1. CASE \E t \in Task : Insert(t) \/ InsertGrows(t) \/ Die(t)
  BY <1>1, InsertStep, InsertGrowsStep, DieStep
<1>2. CASE GrowthFails
  BY <1>0, <1>2, OtherSteps DEF GrowthFails, Panic
<1>3. CASE free_unsed_slab_slot
  BY <1>0, <1>3, OtherSteps DEF free_unsed_slab_slot
<1>4. CASE remove_dropped_task
  BY <1>4, RemoveStep
<1>5. CASE UNCHANGED vars
  BY <1>0, <1>5, OtherSteps DEF vars
<1>6. QED
  BY <1>1, <1>2, <1>3, <1>4, <1>5 DEF Next, Stopped

(* Free list, count and indices are exact in every reachable state. *)
THEOREM Invariance == ASSUME NoWrap PROVE Spec => []IInv
<1>1. Init => IInv
  BY InitInv
<1>2. IInv /\ [Next]_vars => IInv'
  BY NextInv
<1>3. QED
  BY <1>1, <1>2, PTL DEF Spec

(* Type correctness: head and every index stay within the slab, and the count
   never goes below zero. *)
THEOREM TypeCorrect == ASSUME NoWrap PROVE Spec => []TypeOK
<1>1. IInv => TypeOK
  BY DEF IInv
<1>2. Spec => []IInv
  BY Invariance
<1>3. QED
  BY <1>1, <1>2, PTL

(* The intrusive free list holds every free slot once and ends at the
   sentinel, through any number of inserts, growths and removals: no slot is
   lost and insert is never given one in use. *)
THEOREM FreeListAlwaysExact == ASSUME NoWrap PROVE Spec => []FreeListExact
<1>1. IInv => FreeListExact
  BY DEF IInv
<1>2. Spec => []IInv
  BY Invariance
<1>3. QED
  BY <1>1, <1>2, PTL

(* tasks.count() is the number of slots not vacated. *)
THEOREM CountAlwaysExact == ASSUME NoWrap PROVE Spec => []CountExact
<1>1. IInv => CountExact
  BY DEF IInv
<1>2. Spec => []IInv
  BY Invariance
<1>3. QED
  BY <1>1, <1>2, PTL

(* A task is found at the index its header holds, and the drain of
   RUNTIME_FREE_LIST vacates slots of dead tasks only, each once, whichever
   addresses the allocator hands out again before it. *)
THEOREM IndicesAlwaysExact == ASSUME NoWrap PROVE Spec => []IndexExact
<1>1. IInv => IndexExact
  BY DEF IInv
<1>2. Spec => []IInv
  BY Invariance
<1>3. QED
  BY <1>1, <1>2, PTL

-----------------------------------------------------------------------------
(***************************************************************************)
(* The slab implements SlotTable.                                          *)
(***************************************************************************)
LiveAt(i) == \E t \in alive : slab_idx[t] = i
ListedAt(i) == \E k \in DOMAIN free_list : free_list[k] = i

statuses == [i \in 0 .. MaxLen - 1 |-> Status(i)]

LEMMA StatusCases ==
    ASSUME NEW i
    PROVE  /\ LiveAt(i) => Status(i) = "live"
           /\ ~LiveAt(i) /\ ListedAt(i) => Status(i) = "dead"
           /\ ~LiveAt(i) /\ ~ListedAt(i) => Status(i) = "free"
  BY DEF Status, LiveAt, ListedAt

LEMMA NextStatusCases ==
    ASSUME NEW i
    PROVE  /\ LiveAt(i)' => Status(i)' = "live"
           /\ ~LiveAt(i)' /\ ListedAt(i)' => Status(i)' = "dead"
           /\ ~LiveAt(i)' /\ ~ListedAt(i)' => Status(i)' = "free"
  BY DEF Status, LiveAt, ListedAt

(* A step that changes the status of one index only. *)
LEMMA OneStatus ==
    ASSUME NEW i \in 0 .. MaxLen - 1, NEW v, Status(i)' = v,
           \A j \in 0 .. MaxLen - 1 : j # i => Status(j)' = Status(j)
    PROVE  statuses' = [statuses EXCEPT ![i] = v]
  BY DEF statuses

LEMMA SameStatus ==
    ASSUME UNCHANGED <<slab_idx, free_list>>
    PROVE  statuses' = statuses
<1>1. \A j : Status(j)' = Status(j)
  BY DEF Status, alive
<1>2. QED
  BY <1>1 DEF statuses

(* The index insert gives out was free: a slot of the chain is neither that
   of a task nor one of RUNTIME_FREE_LIST. *)
LEMMA PlaceStatus ==
    ASSUME IInv, NEW t \in Task \ alive, NEW sl, NEW n, Place(t, sl, n),
           head \in 0 .. MaxLen - 1, head \notin TakenIn(slots, len)
    PROVE  statuses[head] = "free" /\ statuses' = [statuses EXCEPT ![head] = "live"]
<1>0. PICK h : h = head
  OBVIOUS
<1>1. /\ alive' = alive \cup {t} /\ free_list' = free_list
      /\ slab_idx'[t] = h /\ \A u \in alive : slab_idx'[u] = slab_idx[u]
  BY <1>0 DEF Place, alive
<1>2. ~LiveAt(h) /\ ~ListedAt(h)
  BY <1>0, Facts DEF LiveAt, ListedAt
<1>3. Status(h) = "free"
  BY <1>2, StatusCases
<1>4. Status(h)' = "live"
  BY <1>1, NextStatusCases DEF LiveAt
<1>5. ASSUME NEW j \in 0 .. MaxLen - 1, j # h PROVE Status(j)' = Status(j)
  <2>1. LiveAt(j)' <=> LiveAt(j)
    BY <1>1, <1>5 DEF LiveAt
  <2>2. ListedAt(j)' <=> ListedAt(j)
    BY <1>1 DEF ListedAt
  <2>3. QED
    BY <2>1, <2>2, StatusCases, NextStatusCases
<1>6. statuses' = [statuses EXCEPT ![h] = "live"]
  BY <1>0, <1>4, <1>5, OneStatus
<1>7. QED
  BY <1>0, <1>3, <1>6 DEF statuses

LEMMA InsertStatus ==
    ASSUME NoWrap, IInv, NEW t \in Task, Insert(t) \/ InsertGrows(t)
    PROVE  \E i \in 0 .. MaxLen - 1 :
              statuses[i] = "free" /\ statuses' = [statuses EXCEPT ![i] = "live"]
<1>1. CASE Insert(t)
  <2>1. t \in Task \ alive /\ head # len /\ Place(t, slots, len)
    BY <1>1 DEF Insert
  <2>2. head \in FreeIn(slots, len)
    BY <2>1, Facts DEF Chain, Numbers, FreeIn
  <2>3. head \in 0 .. MaxLen - 1 /\ head \notin TakenIn(slots, len)
    <3>1. head \in 0 .. len - 1
      BY <2>2 DEF FreeIn
    <3>2. len \in Nat /\ slots \in [0 .. len - 1 -> Nat] /\ len <= MaxLen /\ MaxLen \in Nat
      BY Facts
    <3>3. head \notin TakenIn(slots, len)
      BY <2>2, <3>2, FreeOrTaken
    <3>4. QED
      BY <3>1, <3>2, <3>3
  <2>4. QED
    BY <2>1, <2>3, PlaceStatus
<1>2. CASE InsertGrows(t)
  <2>1. /\ t \in Task \ alive /\ head = len /\ len # U32_MAX /\ NewLen <= MaxLen
        /\ Place(t, Grown(NewLen), NewLen)
    BY <1>2 DEF InsertGrows
  <2>2. NewLen \in len .. MaxLen /\ len < NewLen
    BY <2>1, GrownFacts
  <2>3. head \in 0 .. MaxLen - 1 /\ head \notin TakenIn(slots, len)
    BY <2>1, <2>2, Facts DEF TakenIn
  <2>4. QED
    BY <2>1, <2>3, PlaceStatus
<1>3. QED
  BY <1>1, <1>2

LEMMA DieStatus ==
    ASSUME IInv, NEW t \in Task, Die(t)
    PROVE  \E i \in 0 .. MaxLen - 1 :
              statuses[i] = "live" /\ statuses' = [statuses EXCEPT ![i] = "dead"]
<1>0. PICK i : i = slab_idx[t]
  OBVIOUS
<1> DEFINE m == Len(free_list)
<1>1. /\ t \in alive /\ slab_idx' = [u \in alive \ {t} |-> slab_idx[u]]
      /\ free_list' = Append(free_list, i)
  BY <1>0 DEF Die
<1>2. alive' = alive \ {t} /\ \A u \in alive' : slab_idx'[u] = slab_idx[u]
  BY <1>1 DEF alive
<1>3. i \in 0 .. len - 1 /\ i \in 0 .. MaxLen - 1 /\ slots[i] = t
  BY <1>0, <1>1, Facts
<1>4. \A u \in alive : slab_idx[u] = i => u = t
  BY <1>3, Facts
<1>5. /\ DOMAIN free_list = 1 .. m /\ DOMAIN free_list' = 1 .. m + 1 /\ m \in Nat
      /\ free_list'[m + 1] = i /\ \A k \in 1 .. m : free_list'[k] = free_list[k]
  BY <1>1, <1>3, Facts
<1>6. Status(i) = "live"
  BY <1>0, <1>1, StatusCases DEF LiveAt
<1>7. ~LiveAt(i)' /\ ListedAt(i)'
  BY <1>2, <1>4, <1>5 DEF LiveAt, ListedAt
<1>8. Status(i)' = "dead"
  BY <1>7, NextStatusCases
<1>9. ASSUME NEW j \in 0 .. MaxLen - 1, j # i PROVE Status(j)' = Status(j)
  <2>1. LiveAt(j)' <=> LiveAt(j)
    BY <1>0, <1>2, <1>9 DEF LiveAt
  <2>2. ListedAt(j)' <=> ListedAt(j)
    BY <1>5, <1>9 DEF ListedAt
  <2>3. QED
    BY <2>1, <2>2, StatusCases, NextStatusCases
<1>10. statuses' = [statuses EXCEPT ![i] = "dead"]
  BY <1>3, <1>8, <1>9, OneStatus
<1>11. QED
  BY <1>3, <1>6, <1>10 DEF statuses

LEMMA RemoveStatus ==
    ASSUME IInv, remove_dropped_task
    PROVE  \E i \in 0 .. MaxLen - 1 :
              statuses[i] = "dead" /\ statuses' = [statuses EXCEPT ![i] = "free"]
<1>0. PICK i : i = Head(free_list)
  OBVIOUS
<1> DEFINE m == Len(free_list)
<1>1. /\ free_list # <<>> /\ i = free_list[1] /\ 1 \in DOMAIN free_list
      /\ i \in 0 .. len - 1 /\ ~Refused(i)
  BY <1>0, RemoveFacts DEF remove_dropped_task
<1>2. free_list' = Tail(free_list) /\ UNCHANGED slab_idx
  BY <1>0, <1>1 DEF remove_dropped_task
<1>3. /\ m \in Nat /\ DOMAIN free_list = 1 .. m /\ DOMAIN free_list' = 1 .. m - 1
      /\ \A k \in 1 .. m - 1 : free_list'[k] = free_list[k + 1] /\ k + 1 \in 1 .. m /\ k + 1 # 1
      /\ \A k \in 1 .. m : k # 1 => k - 1 \in 1 .. m - 1 /\ (k - 1) + 1 = k
  BY <1>1, <1>2, Facts
<1>4. i \in 0 .. MaxLen - 1
  BY <1>1, Facts
<1>5. LiveAt(i)' <=> LiveAt(i)
  BY <1>2 DEF LiveAt, alive
<1>6. ~LiveAt(i) /\ ListedAt(i)
  BY <1>1 DEF LiveAt, ListedAt, IInv, IndexExact
<1>7. ~ListedAt(i)'
  <2>1. \A k \in 1 .. m : free_list[k] = i => k = 1
    BY <1>1, <1>3 DEF IInv, IndexExact
  <2>2. QED
    BY <1>3, <2>1 DEF ListedAt
<1>8. Status(i) = "dead" /\ Status(i)' = "free"
  BY <1>5, <1>6, <1>7, StatusCases, NextStatusCases
<1>9. ASSUME NEW j \in 0 .. MaxLen - 1, j # i PROVE Status(j)' = Status(j)
  <2>1. LiveAt(j)' <=> LiveAt(j)
    BY <1>2 DEF LiveAt, alive
  <2>2. ASSUME ListedAt(j) PROVE ListedAt(j)'
    <3>1. PICK k \in 1 .. m : free_list[k] = j
      BY <1>3, <2>2 DEF ListedAt
    <3>2. k # 1
      BY <1>1, <1>9, <3>1
    <3>3. k - 1 \in 1 .. m - 1 /\ free_list'[k - 1] = j
      BY <1>3, <3>1, <3>2
    <3>4. QED
      BY <1>3, <3>3 DEF ListedAt
  <2>3. ListedAt(j)' => ListedAt(j)
    BY <1>3 DEF ListedAt
  <2>4. QED
    BY <2>1, <2>2, <2>3, StatusCases, NextStatusCases
<1>10. statuses' = [statuses EXCEPT ![i] = "free"]
  BY <1>4, <1>8, <1>9, OneStatus
<1>11. QED
  BY <1>4, <1>8, <1>10 DEF statuses

(* Every step of the slab is a step of SlotTable or leaves it as it is. *)
LEMMA StepImplements ==
    ASSUME NoWrap, IInv, [Next]_vars
    PROVE  [Table!Next]_statuses
<1>1. CASE \E t \in Task : Insert(t) \/ InsertGrows(t)
  <2>1. PICK i \in 0 .. MaxLen - 1 :
           statuses[i] = "free" /\ statuses' = [statuses EXCEPT ![i] = "live"]
    BY <1>1, InsertStatus
  <2>2. Table!Insert
    BY <2>1 DEF Table!Insert, statuses
  <2>3. QED
    BY <2>2 DEF Table!Next
<1>2. CASE \E t \in Task : Die(t)
  <2>1. PICK i \in 0 .. MaxLen - 1 :
           statuses[i] = "live" /\ statuses' = [statuses EXCEPT ![i] = "dead"]
    BY <1>2, DieStatus
  <2>2. Table!Die
    BY <2>1 DEF Table!Die, statuses
  <2>3. QED
    BY <2>2 DEF Table!Next
<1>3. CASE remove_dropped_task
  <2>1. PICK i \in 0 .. MaxLen - 1 :
           statuses[i] = "dead" /\ statuses' = [statuses EXCEPT ![i] = "free"]
    BY <1>3, RemoveStatus
  <2>2. Table!Vacate
    BY <2>1 DEF Table!Vacate, statuses
  <2>3. QED
    BY <2>2 DEF Table!Next
<1>4. CASE GrowthFails \/ free_unsed_slab_slot \/ UNCHANGED vars
  <2>1. UNCHANGED <<slab_idx, free_list>>
    BY <1>4 DEF GrowthFails, Panic, free_unsed_slab_slot, vars
  <2>2. QED
    BY <2>1, SameStatus
<1>5. QED
  BY <1>1, <1>2, <1>3, <1>4 DEF Next, Stopped

LEMMA InitImplements == Init => Table!Init
<1> SUFFICES ASSUME Init PROVE Table!Init
  OBVIOUS
<1>1. \A i : Status(i) = "free"
  BY DEF Init, Status, alive
<1>2. QED
  BY <1>1 DEF Table!Init

(* The task slab implements the table of slots that Runtime uses in its
   place: seen through the status of its indices, each of its steps inserts
   at a free index, kills a live one, vacates a dead one, or shows nothing. *)
THEOREM SlabImplementsTable == ASSUME NoWrap PROVE Spec => ImplementsTable
<1>1. Init => Table!Init
  BY InitImplements
<1>2. IInv /\ [Next]_vars => [Table!Next]_([i \in 0 .. MaxLen - 1 |-> Status(i)])
  BY StepImplements DEF statuses
<1>3. Spec => []IInv
  BY Invariance
<1>4. QED
  BY <1>1, <1>2, <1>3, PTL DEF Spec, ImplementsTable, Table!Spec
=============================================================================
