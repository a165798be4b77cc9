-------------------------- MODULE WritePoolProofs --------------------------
(***************************************************************************)
(* Proofs about WritePool, for every size of the pool, every number of     *)
(* fan-out writes and every bound.  The count of a slot is exact only if a *)
(* slot taken off the free list has no holder, and the free list is exact  *)
(* only if the counts are: the two are one induction.  That a slot being   *)
(* read by the kernel for a fan-out is not free rests on one fact more,    *)
(* that every such write belongs to a future that keeps its buffer.        *)
(***************************************************************************)
EXTENDS WritePool, FiniteSetTheorems, TLAPS

(* A write in flight of a fan-out is of the buffer its future keeps. *)
Carried == \A w \in flight : w.by \in Fut => future[w.by] = w.ptr

IInv == TypeOK /\ RcExact /\ FreeExact /\ Carried

-----------------------------------------------------------------------------
(* The sequence without its head has one index less. *)
LEMMA TailFacts ==
    ASSUME NEW S, NEW q \in Seq(S), q # <<>>
    PROVE  /\ Tail(q) \in Seq(S) /\ Head(q) \in S /\ Head(q) = q[1]
           /\ 1 \in DOMAIN q /\ DOMAIN Tail(q) = 1 .. Len(q) - 1 /\ Len(q) \in Nat
           /\ DOMAIN q = 1 .. Len(q)
           /\ \A k \in DOMAIN Tail(q) : k + 1 \in DOMAIN q /\ Tail(q)[k] = q[k + 1]
OBVIOUS

LEMMA AppendFacts ==
    ASSUME NEW S, NEW q \in Seq(S), NEW x \in S
    PROVE  /\ Append(q, x) \in Seq(S) /\ Len(q) \in Nat
           /\ DOMAIN q = 1 .. Len(q) /\ DOMAIN Append(q, x) = 1 .. Len(q) + 1
           /\ \A k \in DOMAIN q : Append(q, x)[k] = q[k]
           /\ Append(q, x)[Len(q) + 1] = x
OBVIOUS

(* The futures are finitely many, so those that keep a slot can be counted. *)
LEMMA HoldersFinite ==
    ASSUME NEW s
    PROVE  /\ IsFiniteSet(Holders(s)) /\ Cardinality(Holders(s)) \in Nat
           /\ Cardinality(Holders(s)) = 0 <=> Holders(s) = {}
<1>1. Holders(s) \subseteq Fut
  BY DEF Holders
<1>2. IsFiniteSet(Holders(s))
  BY <1>1, PoolAssumption, FS_Subset
<1>3. QED
  BY <1>2, FS_CardinalityType, FS_EmptySet

(* Between calls send_multiple_write has no handle. *)
LEMMA SentOf ==
    ASSUME NEW s
    PROVE  /\ Sent(s) \in Nat
           /\ Sent(s) > 0 => Holders(s) # {}
           /\ sending = NoFut => Sent(s) = 0
  BY PoolAssumption DEF Sent, Holders

(* Who keeps a slot after future f takes or leaves one. *)
LEMMA HoldersAdd ==
    ASSUME TypeOK, NEW f \in Fut, NEW s \in Slot, future[f] = NoSlot,
           future' = [future EXCEPT ![f] = s]
    PROVE  \A t \in Slot : Cardinality(Holders(t)') =
                             Cardinality(Holders(t)) + (IF t = s THEN 1 ELSE 0)
<1> SUFFICES ASSUME NEW t \in Slot
             PROVE  Cardinality(Holders(t)') =
                      Cardinality(Holders(t)) + (IF t = s THEN 1 ELSE 0)
  OBVIOUS
<1>0. NoSlot \notin Slot /\ future \in [Fut -> Slot \cup {NoSlot}]
  BY PoolAssumption DEF TypeOK
<1>1. CASE t = s
  <2>1. Holders(t)' = Holders(t) \cup {f} /\ f \notin Holders(t)
    BY <1>0, <1>1 DEF Holders
  <2>2. QED
    BY <1>1, <2>1, HoldersFinite, FS_AddElement
<1>2. CASE t # s
  <2>1. Holders(t)' = Holders(t)
    BY <1>0, <1>2 DEF Holders
  <2>2. QED
    BY <1>2, <2>1, HoldersFinite
<1>3. QED
  BY <1>1, <1>2

LEMMA HoldersRemove ==
    ASSUME TypeOK, NEW f \in Fut, future[f] # NoSlot,
           future' = [future EXCEPT ![f] = NoSlot]
    PROVE  \A t \in Slot : Cardinality(Holders(t)') =
                             Cardinality(Holders(t)) - (IF t = future[f] THEN 1 ELSE 0)
<1> SUFFICES ASSUME NEW t \in Slot
             PROVE  Cardinality(Holders(t)') =
                      Cardinality(Holders(t)) - (IF t = future[f] THEN 1 ELSE 0)
  OBVIOUS
<1>0. NoSlot \notin Slot /\ future \in [Fut -> Slot \cup {NoSlot}]
  BY PoolAssumption DEF TypeOK
<1>1. CASE t = future[f]
  <2>1. Holders(t)' = Holders(t) \ {f} /\ f \in Holders(t)
    BY <1>0, <1>1 DEF Holders
  <2>2. QED
    BY <1>1, <2>1, HoldersFinite, FS_RemoveElement
<1>2. CASE t # future[f]
  <2>1. Holders(t)' = Holders(t)
    BY <1>0, <1>2 DEF Holders
  <2>2. QED
    BY <1>2, <2>1, HoldersFinite
<1>3. QED
  BY <1>1, <1>2

-----------------------------------------------------------------------------
(* The two clauses of FreeExact about the list itself. *)
ListExact ==
    /\ \A j, k \in DOMAIN write_free : write_free[j] = write_free[k] => j = k
    /\ \A s \in Slot : write_rc[s] = 0 <=> \E k \in DOMAIN write_free : write_free[k] = s

(* Dropping a handle of a slot that has one keeps the list exact: the slot is
   put back with its last handle, and was not on the list. *)
LEMMA DroppedExact ==
    ASSUME TypeOK, ListExact, NEW s \in Slot, write_rc[s] > 0, Dropped(write_rc, s)
    PROVE  /\ ListExact'
           /\ write_free' \in Seq(Slot) /\ write_rc' \in [Slot -> Nat]
<1>0. /\ write_free \in Seq(Slot) /\ write_rc \in [Slot -> Nat]
      /\ write_rc' = [write_rc EXCEPT ![s] = @ - 1]
      /\ write_rc[s] \in Nat
  BY DEF TypeOK, Dropped
<1>1. write_rc' \in [Slot -> Nat]
  BY <1>0
<1>2. CASE write_rc[s] = 1
  <2>1. write_free' = Append(write_free, s)
    BY <1>2 DEF Dropped
  <2>2. /\ write_free' \in Seq(Slot) /\ Len(write_free) \in Nat
        /\ DOMAIN write_free = 1 .. Len(write_free)
        /\ DOMAIN write_free' = 1 .. Len(write_free) + 1
        /\ \A k \in DOMAIN write_free : write_free'[k] = write_free[k]
        /\ write_free'[Len(write_free) + 1] = s
    BY <1>0, <2>1, AppendFacts
  <2>3. \A k \in DOMAIN write_free : write_free[k] # s
    BY <1>2 DEF ListExact
  <2>4. \A j, k \in DOMAIN write_free' : write_free'[j] = write_free'[k] => j = k
    BY <2>2, <2>3 DEF ListExact
  <2>5. ASSUME NEW t \in Slot
        PROVE  write_rc'[t] = 0 <=> \E k \in DOMAIN write_free' : write_free'[k] = t
    <3>1. CASE t = s
      <4>1. write_rc'[t] = 0
        BY <1>0, <1>2, <3>1
      <4>2. QED
        BY <4>1, <2>2, <3>1
    <3>2. CASE t # s
      <4>1. write_rc'[t] = write_rc[t]
        BY <1>0, <3>2
      <4>2. (\E k \in DOMAIN write_free' : write_free'[k] = t)
              <=> (\E k \in DOMAIN write_free : write_free[k] = t)
        BY <2>2, <3>2
      <4>3. QED
        BY <4>1, <4>2 DEF ListExact
    <3>3. QED
      BY <3>1, <3>2
  <2>6. QED
    BY <1>1, <2>2, <2>4, <2>5 DEF ListExact
<1>3. CASE write_rc[s] # 1
  <2>1. write_free' = write_free
    BY <1>3 DEF Dropped
  <2>2. \A t \in Slot : write_rc'[t] = 0 <=> write_rc[t] = 0
    BY <1>0, <1>3
  <2>3. QED
    BY <1>0, <1>1, <2>1, <2>2 DEF ListExact
<1>4. QED
  BY <1>2, <1>3

(* Such a slot has a count: a handle or a future keeps it. *)
LEMMA HeldCounted ==
    ASSUME TypeOK, RcExact, NEW s \in Slot
    PROVE  /\ write_rc[s] > 0 <=> handle[s] > 0 \/ Holders(s) # {}
           /\ write_rc[s] \in Nat /\ handle[s] \in Nat
<1>1. write_rc[s] \in Nat /\ handle[s] \in Nat
  BY DEF TypeOK
<1>2. write_rc[s] = handle[s] + Cardinality(Holders(s)) + Sent(s)
  BY DEF RcExact
<1>3. /\ Cardinality(Holders(s)) \in Nat
      /\ Cardinality(Holders(s)) = 0 <=> Holders(s) = {}
  BY HoldersFinite
<1>4. QED
  BY <1>1, <1>2, <1>3, SentOf

(* A clone that is dropped at once changes nothing: not the last handle, as
   another was there to clone. *)
LEMMA CloneDropped ==
    ASSUME TypeOK, RcExact, NEW f \in Fut, NEW s \in Slot, future[f] = s,
           Dropped(Cloned(write_rc, s), s)
    PROVE  UNCHANGED <<write_rc, write_free>>
<1>1. write_rc \in [Slot -> Nat] /\ write_rc[s] \in Nat
  BY DEF TypeOK
<1>2. write_rc[s] > 0
  BY HeldCounted DEF Holders
<1>3. Cloned(write_rc, s) \in [Slot -> Nat] /\ Cloned(write_rc, s)[s] = write_rc[s] + 1
  BY <1>1 DEF Cloned
<1>4. [Cloned(write_rc, s) EXCEPT ![s] = @ - 1] = write_rc
  <2> DEFINE back == [Cloned(write_rc, s) EXCEPT ![s] = @ - 1]
  <2>1. back = [t \in Slot |-> IF t = s THEN Cloned(write_rc, s)[s] - 1
                                        ELSE Cloned(write_rc, s)[t]]
    BY <1>3
  <2>2. \A t \in Slot : t # s => Cloned(write_rc, s)[t] = write_rc[t]
    BY <1>1 DEF Cloned
  <2>3. \A t \in Slot : back[t] = write_rc[t]
    BY <1>1, <1>3, <2>1, <2>2
  <2>4. QED
    BY <1>1, <2>1, <2>3
<1>5. QED
  BY <1>1, <1>2, <1>3, <1>4 DEF Dropped

LEMMA InitInv == Init => IInv
<1> SUFFICES ASSUME Init PROVE IInv
  OBVIOUS
<1> USE PoolAssumption DEF Init
<1>0. \A k \in 1 .. write_count : read_count + k - 1 \in Slot
  BY DEF Slot
<1>1. write_free \in Seq(Slot)
  BY <1>0
<1>2. TypeOK
  <2>1. /\ write_rc \in [Slot -> Nat] /\ handle \in [Slot -> Nat]
        /\ future \in [Fut -> Slot \cup {NoSlot}] /\ flight \subseteq Write
    OBVIOUS
  <2>2. /\ content \in [Slot -> 0 .. MaxVersion] /\ version \in 0 .. MaxVersion
        /\ sending \in Fut \cup {NoFut} /\ left \in 0 .. MaxFds
    OBVIOUS
  <2>3. torn \in BOOLEAN /\ panicked \in BOOLEAN
    OBVIOUS
  <2>4. QED
    BY <1>1, <2>1, <2>2, <2>3 DEF TypeOK
<1>3. \A s \in Slot : Holders(s) = {}
  BY DEF Holders
<1>4. RcExact
  BY <1>3, HoldersFinite, SentOf DEF RcExact
<1>5. \A s \in Slot : s - read_count + 1 \in 1 .. write_count
                     /\ write_free[s - read_count + 1] = s
  BY DEF Slot
<1>6. DOMAIN write_free = 1 .. write_count
  OBVIOUS
<1>7. FreeExact
  <2>1. \A j, k \in DOMAIN write_free : write_free[j] = write_free[k] => j = k
    BY <1>6
  <2>2. \A s \in Slot : write_rc[s] = 0
    OBVIOUS
  <2>3. \A s \in Slot : \E k \in DOMAIN write_free : write_free[k] = s
    BY <1>5, <1>6
  <2>4. ~panicked
    OBVIOUS
  <2>5. QED
    BY <2>1, <2>2, <2>3, <2>4 DEF FreeExact
<1>8. QED
  BY <1>2, <1>4, <1>7 DEF IInv, Carried

-----------------------------------------------------------------------------
(* A step that leaves the counts, the list and the holders alone. *)
LEMMA CountsKept ==
    ASSUME RcExact, FreeExact,
           UNCHANGED <<write_free, write_rc, handle, future, sending, panicked>>
    PROVE  RcExact' /\ FreeExact'
<1>1. \A s \in Slot : Holders(s)' = Holders(s) /\ Sent(s)' = Sent(s)
  BY DEF Holders, Sent
<1>2. QED
  BY <1>1 DEF RcExact, FreeExact

(* Every step keeps the invariant. *)
LEMMA NextInv == IInv /\ [Next]_vars => IInv'
<1> SUFFICES ASSUME IInv, [Next]_vars PROVE IInv'
  OBVIOUS
<1> USE PoolAssumption
<1>0. TypeOK /\ RcExact /\ FreeExact /\ ListExact /\ Carried
  BY DEF IInv, FreeExact, ListExact
<1>1. CASE alloc_write
  <2> DEFINE h == Head(write_free)
  <2>1. /\ write_free \in Seq(Slot) /\ write_free # <<>> /\ ~panicked
        /\ write_free' = Tail(write_free)
        /\ write_rc' = [write_rc EXCEPT ![h] = 1] /\ handle' = [handle EXCEPT ![h] = @ + 1]
        /\ UNCHANGED <<future, sending, left, flight, content, version, torn, panicked>>
        /\ sending = NoFut /\ write_rc \in [Slot -> Nat] /\ handle \in [Slot -> Nat]
    BY <1>0, <1>1 DEF alloc_write, Ready, loop, TypeOK
  <2>2. /\ Tail(write_free) \in Seq(Slot) /\ h \in Slot /\ h = write_free[1]
        /\ 1 \in DOMAIN write_free /\ Len(write_free) \in Nat
        /\ DOMAIN write_free = 1 .. Len(write_free)
        /\ DOMAIN Tail(write_free) = 1 .. Len(write_free) - 1
        /\ \A k \in DOMAIN Tail(write_free) :
             k + 1 \in DOMAIN write_free /\ Tail(write_free)[k] = write_free[k + 1]
    BY <2>1, TailFacts
  <2>3. TypeOK'
    BY <1>0, <2>1, <2>2 DEF TypeOK
  <2>4. write_rc[h] = 0
    BY <1>0, <2>2 DEF ListExact
  <2>5. handle[h] = 0 /\ Holders(h) = {}
    BY <1>0, <2>2, <2>4, HeldCounted
  <2>6. \A s \in Slot : Holders(s)' = Holders(s) /\ Sent(s)' = Sent(s) /\ Sent(s) = 0
    BY <2>1, SentOf DEF Holders, Sent
  <2>7. RcExact'
    <3> SUFFICES ASSUME NEW s \in Slot
                 PROVE  write_rc'[s] = handle'[s] + Cardinality(Holders(s)') + Sent(s)'
      BY DEF RcExact
    <3>1. CASE s = h
      <4>1. write_rc'[s] = 1 /\ handle'[s] = 1
        <5>1. handle[s] = 0
          BY <2>5, <3>1
        <5>2. handle' = [handle EXCEPT ![s] = @ + 1] /\ write_rc' = [write_rc EXCEPT ![s] = 1]
          BY <2>1, <3>1
        <5>3. QED
          BY <2>1, <5>1, <5>2
      <4>2. Cardinality(Holders(s)') = 0
        <5>1. Holders(s)' = {}
          BY <2>5, <2>6, <3>1
        <5>2. QED
          BY <5>1, FS_EmptySet
      <4>3. QED
        BY <2>6, <4>1, <4>2
    <3>2. CASE s # h
      BY <1>0, <2>1, <2>6, <3>2 DEF RcExact
    <3>3. QED
      BY <3>1, <3>2
  <2>8. \A j, k \in DOMAIN write_free' : write_free'[j] = write_free'[k] => j = k
    BY <1>0, <2>1, <2>2 DEF ListExact
  <2>9. ASSUME NEW s \in Slot
        PROVE  write_rc'[s] = 0 <=> \E k \in DOMAIN write_free' : write_free'[k] = s
    <3>1. CASE s = h
      <4>1. \A k \in DOMAIN write_free' : write_free'[k] # h
        <5> SUFFICES ASSUME NEW k \in DOMAIN write_free', write_free'[k] = h PROVE FALSE
          OBVIOUS
        <5>1. k + 1 \in DOMAIN write_free /\ write_free[k + 1] = write_free[1]
          BY <2>1, <2>2
        <5>2. k + 1 = 1
          BY <1>0, <2>2, <5>1 DEF ListExact
        <5>3. QED
          BY <2>1, <2>2, <5>2
      <4>2. QED
        BY <2>1, <2>2, <3>1, <4>1
    <3>2. CASE s # h
      <4>1. write_rc'[s] = write_rc[s]
        BY <2>1, <3>2
      <4>2. ASSUME NEW k \in DOMAIN write_free, write_free[k] = s
            PROVE  k - 1 \in DOMAIN write_free' /\ write_free'[k - 1] = s
        BY <2>1, <2>2, <3>2, <4>2
      <4>3. (\E k \in DOMAIN write_free' : write_free'[k] = s)
              <=> (\E k \in DOMAIN write_free : write_free[k] = s)
        BY <2>1, <2>2, <4>2
      <4>4. QED
        BY <1>0, <4>1, <4>3 DEF ListExact
    <3>3. QED
      BY <3>1, <3>2
  <2>10. FreeExact'
    BY <2>1, <2>8, <2>9 DEF FreeExact
  <2>11. QED
    BY <1>0, <2>1, <2>3, <2>7, <2>10 DEF IInv, Carried
<1>2. CASE AllocPanics
  <2>1. \A s \in Slot : write_rc[s] # 0
    BY <1>0, <1>2 DEF AllocPanics, ListExact
  <2>2. \A s \in Slot : handle[s] > 0 \/ Holders(s) # {}
    BY <1>0, <2>1, HeldCounted
  <2>3. \A s \in Slot : Holders(s)' = Holders(s) /\ Sent(s)' = Sent(s)
    BY <1>2 DEF AllocPanics, loop, Holders, Sent
  <2>4. QED
    BY <1>0, <1>2, <2>2, <2>3
       DEF AllocPanics, loop, IInv, TypeOK, RcExact, FreeExact, Carried
<1>3. ASSUME NEW s \in Slot, Clone(s) PROVE IInv'
  <2>1. TypeOK'
    BY <1>0, <1>3 DEF Clone, Cloned, loop, TypeOK
  <2>2. \A t \in Slot : Holders(t)' = Holders(t) /\ Sent(t)' = Sent(t)
    BY <1>3 DEF Clone, loop, Holders, Sent
  <2>3. write_rc[s] > 0 /\ write_rc[s] \in Nat
    BY <1>0, <1>3, HeldCounted DEF Clone, Uses
  <2>4. RcExact'
    BY <1>0, <1>3, <2>2, HoldersFinite, SentOf DEF Clone, Cloned, TypeOK, RcExact
  <2>5. FreeExact'
    BY <1>0, <1>3, <2>3 DEF Clone, Cloned, Uses, Ready, TypeOK, FreeExact
  <2>6. QED
    BY <1>0, <1>3, <2>1, <2>4, <2>5 DEF IInv, Clone, Carried
<1>4. ASSUME NEW s \in Slot, Drop(s) PROVE IInv'
  <2>1. write_rc[s] > 0 /\ handle[s] \in Nat /\ write_rc[s] \in Nat /\ handle[s] > 0
    BY <1>0, <1>4, HeldCounted DEF Drop
  <2>2. ListExact' /\ write_free' \in Seq(Slot) /\ write_rc' \in [Slot -> Nat]
    BY <1>0, <1>4, <2>1, DroppedExact DEF Drop
  <2>3. TypeOK'
    <3>1. handle' \in [Slot -> Nat]
      BY <1>0, <1>4, <2>1 DEF Drop, TypeOK
    <3>2. QED
      BY <1>0, <1>4, <2>2, <3>1 DEF Drop, loop, TypeOK
  <2>4. \A t \in Slot : Holders(t)' = Holders(t) /\ Sent(t)' = Sent(t)
    BY <1>4 DEF Drop, loop, Holders, Sent
  <2>5. RcExact'
    BY <1>0, <1>4, <2>4, HoldersFinite, SentOf DEF Drop, Dropped, TypeOK, RcExact
  <2>6. FreeExact'
    BY <1>4, <2>2 DEF Drop, Ready, FreeExact, ListExact
  <2>7. QED
    BY <1>0, <1>4, <2>3, <2>5, <2>6 DEF IInv, Drop, Carried
<1>5. ASSUME NEW s \in Slot, write_slice(s) PROVE IInv'
  <2>1. RcExact' /\ FreeExact'
    BY <1>0, <1>5, CountsKept DEF write_slice, loop
  <2>2. TypeOK'
    BY <1>0, <1>5 DEF write_slice, loop, TypeOK
  <2>3. QED
    BY <1>0, <1>5, <2>1, <2>2 DEF IInv, write_slice, Carried
<1>6. ASSUME NEW s \in Slot, Submit(s) PROVE IInv'
  <2>1. write_rc[s] > 0 /\ handle[s] \in Nat /\ write_rc[s] \in Nat /\ handle[s] > 0
    BY <1>0, <1>6, HeldCounted DEF Submit, Uses
  <2>2. ListExact' /\ write_free' \in Seq(Slot) /\ write_rc' \in [Slot -> Nat]
    BY <1>0, <1>6, <2>1, DroppedExact DEF Submit
  <2>3. MakeWrite(s, s, "submit", 0) \in Write
    BY <1>0 DEF MakeWrite, Write, TypeOK, Slot
  <2>4. TypeOK'
    <3>1. handle' \in [Slot -> Nat]
      BY <1>0, <1>6, <2>1 DEF Submit, TypeOK
    <3>2. QED
      BY <1>0, <1>6, <2>2, <2>3, <3>1 DEF Submit, loop, TypeOK
  <2>5. \A t \in Slot : Holders(t)' = Holders(t) /\ Sent(t)' = Sent(t)
    BY <1>6 DEF Submit, loop, Holders, Sent
  <2>6. RcExact'
    BY <1>0, <1>6, <2>5, HoldersFinite, SentOf DEF Submit, Dropped, TypeOK, RcExact
  <2>7. FreeExact'
    BY <1>6, <2>2 DEF Submit, Uses, Ready, FreeExact, ListExact
  <2>8. Carried'
    BY <1>0, <1>6 DEF Submit, Carried, MakeWrite
  <2>9. QED
    BY <2>4, <2>6, <2>7, <2>8 DEF IInv
<1>7. ASSUME NEW f \in Fut, NEW s \in Slot, NEW n \in 0 .. MaxFds, write_multiple(f, s, n)
      PROVE  IInv'
  <2>1. /\ handle[s] \in Nat /\ handle[s] > 0 /\ future[f] = NoSlot /\ ~panicked /\ ~panicked'
        /\ write_rc[s] \in Nat /\ sending = NoFut /\ sending' = f /\ left' = n
        /\ write_rc' = [write_rc EXCEPT ![s] = @ + 1]
        /\ future' = [future EXCEPT ![f] = s] /\ handle' = [handle EXCEPT ![s] = @ - 1]
        /\ UNCHANGED <<write_free, flight, content, version, torn, panicked>>
    BY <1>0, <1>7 DEF write_multiple, Uses, Ready, Cloned, TypeOK
  <2>2. TypeOK'
    <3>1. handle' \in [Slot -> Nat] /\ write_rc' \in [Slot -> Nat]
      BY <1>0, <2>1 DEF TypeOK
    <3>2. QED
      BY <1>0, <2>1, <3>1 DEF TypeOK
  <2>3. \A t \in Slot : Cardinality(Holders(t)') =
                          Cardinality(Holders(t)) + (IF t = s THEN 1 ELSE 0)
    BY <1>0, <2>1, HoldersAdd
  <2>4. \A t \in Slot : Sent(t) = 0 /\ Sent(t)' = (IF t = s THEN 1 ELSE 0)
    <3>1. future \in [Fut -> Slot \cup {NoSlot}]
      BY <1>0 DEF TypeOK
    <3>2. \A t \in Slot : f \in Holders(t)' <=> t = s
      BY <2>1, <3>1 DEF Holders
    <3>3. QED
      BY <2>1, <3>2, SentOf DEF Sent
  <2>5. RcExact'
    <3> SUFFICES ASSUME NEW t \in Slot
                 PROVE  write_rc'[t] = handle'[t] + Cardinality(Holders(t)') + Sent(t)'
      BY DEF RcExact
    <3>1. /\ write_rc[t] \in Nat /\ handle[t] \in Nat /\ Cardinality(Holders(t)) \in Nat
          /\ write_rc[t] = handle[t] + Cardinality(Holders(t))
      BY <1>0, <2>4, HoldersFinite DEF TypeOK, RcExact
    <3>2. /\ write_rc'[t] = write_rc[t] + (IF t = s THEN 1 ELSE 0)
          /\ handle'[t] = handle[t] - (IF t = s THEN 1 ELSE 0)
      BY <1>0, <2>1, <3>1 DEF TypeOK
    <3>3. QED
      BY <2>3, <2>4, <3>1, <3>2
  <2>6. write_rc[s] > 0
    BY <1>0, <2>1, HeldCounted
  <2>7. FreeExact'
    BY <1>0, <2>1, <2>6 DEF TypeOK, FreeExact
  <2>8. ASSUME NEW w \in flight, w.by \in Fut PROVE future'[w.by] = w.ptr
    <3>1. future[w.by] = w.ptr /\ w.ptr \in Slot
      BY <1>0, <2>8 DEF Carried, TypeOK, Write
    <3>2. w.by # f
      BY <2>1, <3>1
    <3>3. QED
      BY <1>0, <2>1, <2>8, <3>1, <3>2 DEF TypeOK
  <2>9. QED
    BY <2>1, <2>2, <2>5, <2>7, <2>8 DEF IInv, Carried
<1>8. ASSUME NEW f \in Fut, NEW s \in Slot, SendOne(f, s) PROVE IInv'
  <2>1. UNCHANGED <<write_rc, write_free, handle, future, sending, content, version, torn, panicked>>
    BY <1>0, <1>8, CloneDropped DEF SendOne, TypeOK
  <2>2. RcExact' /\ FreeExact'
    BY <1>0, <2>1, CountsKept
  <2>3. MakeWrite(s, s, f, left) \in Write
    BY <1>0 DEF MakeWrite, Write, TypeOK, Slot
  <2>4. TypeOK'
    BY <1>0, <1>8, <2>1, <2>3 DEF SendOne, TypeOK
  <2>5. Carried'
    BY <1>0, <1>8, <2>1 DEF SendOne, Carried, MakeWrite
  <2>6. QED
    BY <2>2, <2>4, <2>5 DEF IInv
<1>9. ASSUME NEW f \in Fut, NEW s \in Slot, SendEnds(f, s) PROVE IInv'
  <2>1. /\ sending = f /\ f \in Holders(s) /\ sending' = NoFut /\ Dropped(write_rc, s)
        /\ future[f] = s
        /\ UNCHANGED <<handle, future, left, flight, content, version, torn, panicked>>
    BY <1>9 DEF SendEnds, Holders
  <2>2. write_rc[s] > 0 /\ write_rc[s] \in Nat
    BY <1>0, <2>1, HeldCounted
  <2>3. ListExact' /\ write_free' \in Seq(Slot) /\ write_rc' \in [Slot -> Nat]
    BY <1>0, <2>1, <2>2, DroppedExact
  <2>4. TypeOK'
    BY <1>0, <2>1, <2>3 DEF TypeOK
  <2>5. \A t \in Slot : /\ Holders(t)' = Holders(t) /\ Sent(t)' = 0
                         /\ Sent(t) = (IF t = s THEN 1 ELSE 0)
    <3>1. \A t \in Slot : f \in Holders(t) <=> t = s
      BY <2>1 DEF Holders
    <3>2. \A t \in Slot : Holders(t)' = Holders(t)
      BY <2>1 DEF Holders
    <3>3. \A t \in Slot : Sent(t) = (IF t = s THEN 1 ELSE 0)
      BY <2>1, <3>1 DEF Sent
    <3>4. \A t \in Slot : Sent(t)' = 0
      BY <2>1, PoolAssumption DEF Sent, Holders
    <3>5. QED
      BY <3>2, <3>3, <3>4
  <2>6. RcExact'
    <3> SUFFICES ASSUME NEW t \in Slot
                 PROVE  write_rc'[t] = handle'[t] + Cardinality(Holders(t)') + Sent(t)'
      BY DEF RcExact
    <3>1. /\ write_rc[t] \in Nat /\ handle[t] \in Nat /\ Cardinality(Holders(t)) \in Nat
          /\ write_rc[t] = handle[t] + Cardinality(Holders(t)) + (IF t = s THEN 1 ELSE 0)
      BY <1>0, <2>5, HoldersFinite DEF TypeOK, RcExact
    <3>2. write_rc'[t] = write_rc[t] - (IF t = s THEN 1 ELSE 0) /\ handle'[t] = handle[t]
      BY <1>0, <2>1, <3>1 DEF Dropped, TypeOK
    <3>3. QED
      BY <2>5, <3>1, <3>2
  <2>7. FreeExact'
    BY <1>0, <2>1, <2>3, <2>5 DEF FreeExact, ListExact
  <2>8. QED
    BY <1>0, <2>1, <2>4, <2>6, <2>7 DEF IInv, Carried
<1>10. ASSUME NEW f \in Fut, DropFuture(f) PROVE IInv'
  <2> DEFINE s == future[f]
  <2>1. /\ s \in Slot /\ s # NoSlot /\ ~panicked' /\ FlightOf(f) = {} /\ sending = NoFut
        /\ future' = [future EXCEPT ![f] = NoSlot] /\ Dropped(write_rc, s)
        /\ UNCHANGED <<handle, sending, left, flight, content, version, torn, panicked>>
    BY <1>0, <1>10 DEF DropFuture, Ready, loop, TypeOK
  <2>2. f \in Holders(s)
    BY DEF Holders
  <2>3. write_rc[s] > 0 /\ write_rc[s] \in Nat
    BY <1>0, <2>1, <2>2, HeldCounted
  <2>4. ListExact' /\ write_free' \in Seq(Slot) /\ write_rc' \in [Slot -> Nat]
    BY <1>0, <2>1, <2>3, DroppedExact
  <2>5. TypeOK'
    BY <1>0, <2>1, <2>4 DEF TypeOK
  <2>6. \A t \in Slot : Cardinality(Holders(t)') =
                          Cardinality(Holders(t)) - (IF t = s THEN 1 ELSE 0)
    BY <1>0, <2>1, HoldersRemove
  <2>7. \A t \in Slot : Sent(t) = 0 /\ Sent(t)' = 0
    BY <2>1, PoolAssumption DEF Sent, Holders
  <2>8. RcExact'
    BY <1>0, <2>1, <2>6, <2>7, HoldersFinite DEF Dropped, TypeOK, RcExact
  <2>9. FreeExact'
    BY <2>1, <2>4 DEF FreeExact, ListExact
  <2>10. Carried'
    BY <1>0, <2>1 DEF Carried, FlightOf, TypeOK
  <2>11. QED
    BY <2>5, <2>8, <2>9, <2>10 DEF IInv
<1>11. ASSUME NEW b \in 0 .. write_count - 1, SendWrite(b) PROVE IInv'
  <2>1. RcExact' /\ FreeExact'
    BY <1>0, <1>11, CountsKept DEF SendWrite, loop
  <2>2. MakeWrite(write_buf_ptr(b), b, "write", 0) \in Write
    BY <1>0 DEF MakeWrite, Write, TypeOK, Slot, write_buf_ptr
  <2>3. TypeOK'
    BY <1>0, <1>11, <2>2 DEF SendWrite, loop, TypeOK
  <2>4. Carried'
    BY <1>0, <1>11 DEF SendWrite, Carried, MakeWrite
  <2>5. QED
    BY <2>1, <2>3, <2>4 DEF IInv
<1>12. ASSUME NEW w \in flight, Completed(w) PROVE IInv'
  <2>1. RcExact' /\ FreeExact'
    BY <1>0, <1>12, CountsKept DEF Completed, loop
  <2>2. TypeOK' /\ Carried'
    BY <1>0, <1>12 DEF Completed, loop, TypeOK, Carried
  <2>3. QED
    BY <2>1, <2>2 DEF IInv
<1>13. CASE UNCHANGED vars
  <2>1. RcExact' /\ FreeExact'
    BY <1>0, <1>13, CountsKept DEF vars, loop
  <2>2. TypeOK' /\ Carried'
    BY <1>0, <1>13 DEF vars, loop, TypeOK, Carried
  <2>3. QED
    BY <2>1, <2>2 DEF IInv
<1>14. QED
  BY <1>1, <1>2, <1>3, <1>4, <1>5, <1>6, <1>7, <1>8, <1>9, <1>10, <1>11, <1>12, <1>13
     DEF Next, Stopped

(* The invariant holds in every reachable state of every instance. *)
THEOREM Invariance == Spec => []IInv
  BY InitInv, NextInv, PTL DEF Spec

(* Every variable keeps its type: no count of a buffer goes below zero, on
   Drop and submit included. *)
THEOREM TypeCorrect == Spec => []TypeOK
<1>1. IInv => TypeOK
  BY DEF IInv
<1>2. QED
  BY Invariance, <1>1, PTL

(* The count of every write buffer is the number of its holders. *)
THEOREM PoolCounts == Spec => []RcExact
<1>1. IInv => RcExact
  BY DEF IInv
<1>2. QED
  BY Invariance, <1>1, PTL

(* The free list has exactly the buffers without a holder, each once:
   alloc_write never hands out a buffer somebody holds, and panics only when
   all are held. *)
THEOREM PoolFree == Spec => []FreeExact
<1>1. IInv => FreeExact
  BY DEF IInv
<1>2. QED
  BY Invariance, <1>1, PTL

-----------------------------------------------------------------------------
(* A buffer the kernel still has to read for a fan-out is never free, so never
   handed to another body, whatever clones, submits and writes the bodies do. *)
THEOREM FanOutKept == Spec => []InFlightKept
<1>1. IInv => InFlightKept
  <2> SUFFICES ASSUME IInv, NEW w \in flight, w.by \in Fut PROVE write_rc[w.ptr] > 0
    BY DEF InFlightKept
  <2>1. future[w.by] = w.ptr /\ w.ptr \in Slot
    BY DEF IInv, Carried, TypeOK, Write
  <2>2. w.by \in Holders(w.ptr)
    BY <2>1 DEF Holders
  <2>3. QED
    BY <2>1, <2>2, HeldCounted DEF IInv
<1>2. QED
  BY Invariance, <1>1, PTL
-----------------------------------------------------------------------------
(* A fan-out in flight that was given the only handle of its buffer: no body
   holds another, no other future keeps the buffer, and nothing has changed in
   it. *)
Exclusive ==
    /\ ~torn
    /\ \A w \in flight : w.sole => /\ handle[w.ptr] = 0 /\ Holders(w.ptr) = {w.by}
                                   /\ content[w.ptr] = w.given

(* A buffer that is exclusively in flight is out of reach of the step, which
   leaves its handles and its content alone. *)
LEMMA OutOfReach ==
    ASSUME Exclusive, UNCHANGED torn,
           \A w \in flight' : w.sole => /\ w \in flight
                                        /\ handle'[w.ptr] = handle[w.ptr]
                                        /\ Holders(w.ptr)' = Holders(w.ptr)
                                        /\ content'[w.ptr] = content[w.ptr]
    PROVE  Exclusive'
  BY DEF Exclusive

(* So it is of a step that changes no future, and the handles and the content
   of one slot that is not exclusively in flight. *)
LEMMA OtherSlot ==
    ASSUME TypeOK, Exclusive, NEW s \in Slot, UNCHANGED <<torn, future>>,
           \A w \in flight' : w.sole => w \in flight /\ w.ptr # s,
           \A t \in Slot : t # s => handle'[t] = handle[t] /\ content'[t] = content[t]
    PROVE  Exclusive'
<1>1. \A w \in flight : w.ptr \in Slot
  BY DEF TypeOK, Write
<1>2. \A t : Holders(t)' = Holders(t)
  BY DEF Holders
<1>3. QED
  BY <1>1, <1>2, OutOfReach

LEMMA ExclusiveStep == IInv /\ Exclusive /\ [Next]_vars => Exclusive'
<1> SUFFICES ASSUME IInv, Exclusive, [Next]_vars PROVE Exclusive'
  OBVIOUS
<1> USE PoolAssumption
<1>0. /\ TypeOK /\ RcExact /\ FreeExact /\ Carried
      /\ write_free \in Seq(Slot)
      /\ handle \in [Slot -> Nat] /\ content \in [Slot -> 0 .. MaxVersion]
      /\ future \in [Fut -> Slot \cup {NoSlot}]
      /\ \A w \in flight : w.ptr \in Slot
  BY DEF IInv, TypeOK, Write
<1>1. CASE alloc_write
  <2> DEFINE h == Head(write_free)
  <2>1. h \in Slot /\ 1 \in DOMAIN write_free /\ h = write_free[1]
    BY <1>0, <1>1, TailFacts DEF alloc_write
  <2>2. write_rc[h] = 0
    BY <1>0, <2>1 DEF FreeExact
  <2>3. Holders(h) = {}
    BY <1>0, <2>1, <2>2, HeldCounted
  <2>4. \A w \in flight : w.sole => w.ptr # h
    BY <2>3 DEF Exclusive
  <2>5. QED
    BY <1>0, <1>1, <2>1, <2>4, OtherSlot DEF alloc_write
<1>2. CASE AllocPanics
  BY <1>0, <1>2, OutOfReach DEF AllocPanics, Holders
<1>3. ASSUME NEW s \in Slot, Clone(s) PROVE Exclusive'
  <2>1. \A w \in flight : w.sole => w.ptr # s
    BY <1>0, <1>3 DEF Exclusive, Clone, Uses
  <2>2. QED
    BY <1>0, <1>3, <2>1, OtherSlot DEF Clone
<1>4. ASSUME NEW s \in Slot, Drop(s) PROVE Exclusive'
  <2>1. \A w \in flight : w.sole => w.ptr # s
    BY <1>0, <1>4 DEF Exclusive, Drop
  <2>2. QED
    BY <1>0, <1>4, <2>1, OtherSlot DEF Drop
<1>5. ASSUME NEW s \in Slot, write_slice(s) PROVE Exclusive'
  <2>1. \A w \in flight : w.sole => w.ptr # s
    BY <1>0, <1>5 DEF Exclusive, write_slice, Uses
  <2>2. QED
    BY <1>0, <1>5, <2>1, OtherSlot DEF write_slice
<1>6. ASSUME NEW s \in Slot, Submit(s) PROVE Exclusive'
  <2>1. \A w \in flight : w.sole => w.ptr # s
    BY <1>0, <1>6 DEF Exclusive, Submit, Uses
  <2>2. MakeWrite(s, s, "submit", 0).sole = FALSE
    BY DEF MakeWrite
  <2>3. \A w \in flight' : w.sole => w \in flight /\ w.ptr # s
    BY <1>6, <2>1, <2>2 DEF Submit
  <2>4. QED
    BY <1>0, <1>6, <2>3, OtherSlot DEF Submit
<1>7. ASSUME NEW f \in Fut, NEW s \in Slot, NEW n \in 0 .. MaxFds, write_multiple(f, s, n)
      PROVE  Exclusive'
  <2>1. /\ handle[s] > 0 /\ handle' = [handle EXCEPT ![s] = @ - 1]
        /\ future[f] = NoSlot /\ future' = [future EXCEPT ![f] = s]
        /\ UNCHANGED <<flight, content, torn>>
    BY <1>7 DEF write_multiple, Uses
  <2>2. \A w \in flight : w.sole => w.ptr # s
    BY <1>0, <2>1 DEF Exclusive
  <2>3. \A t \in Slot : t # s => Holders(t)' = Holders(t)
    BY <1>0, <2>1 DEF Holders
  <2>4. QED
    BY <1>0, <2>1, <2>2, <2>3, OutOfReach
<1>8. ASSUME NEW f \in Fut, NEW s \in Slot, SendOne(f, s) PROVE Exclusive'
  <2>1. /\ flight' = flight \cup {MakeWrite(s, s, f, left)}
        /\ UNCHANGED <<handle, future, content, torn>>
    BY <1>8 DEF SendOne
  <2>2. \A t : Holders(t)' = Holders(t)
    BY <2>1 DEF Holders
  <2> DEFINE w == MakeWrite(s, s, f, left)
  <2>3. w.sole => handle[s] = 0 /\ Holders(s) = {f} /\ w.by = f /\ w.ptr = s
                  /\ w.given = content[s]
    BY DEF MakeWrite
  <2> HIDE DEF w
  <2>4. QED
    BY <2>1, <2>2, <2>3 DEF Exclusive, w
<1>9. ASSUME NEW f \in Fut, NEW s \in Slot, SendEnds(f, s) PROVE Exclusive'
  BY <1>9, OutOfReach DEF SendEnds, Holders
<1>10. ASSUME NEW f \in Fut, DropFuture(f) PROVE Exclusive'
  <2> DEFINE s == future[f]
  <2>1. /\ s \in Slot /\ FlightOf(f) = {} /\ future' = [future EXCEPT ![f] = NoSlot]
        /\ UNCHANGED <<handle, flight, content, torn>>
    BY <1>0, <1>10 DEF DropFuture
  <2>2. ASSUME NEW w \in flight, w.sole PROVE w.ptr # s
    <3> SUFFICES ASSUME w.ptr = s PROVE FALSE
      OBVIOUS
    <3>1. Holders(s) = {w.by}
      BY <2>2 DEF Exclusive
    <3>2. f \in Holders(s)
      BY DEF Holders
    <3>3. w.by = f
      BY <3>1, <3>2
    <3>4. QED
      BY <2>1, <3>3 DEF FlightOf
  <2>3. \A t \in Slot : t # s => Holders(t)' = Holders(t)
    BY <1>0, <2>1 DEF Holders
  <2>4. QED
    BY <1>0, <2>1, <2>2, <2>3, OutOfReach
<1>11. ASSUME NEW b \in 0 .. write_count - 1, SendWrite(b) PROVE Exclusive'
  <2>1. MakeWrite(write_buf_ptr(b), b, "write", 0).sole = FALSE
    BY DEF MakeWrite
  <2>2. \A w \in flight' : w.sole => w \in flight
    BY <1>11, <2>1 DEF SendWrite
  <2>3. QED
    BY <1>11, <2>2, OutOfReach DEF SendWrite, Holders
<1>12. ASSUME NEW w \in flight, Completed(w) PROVE Exclusive'
  <2>1. torn' = FALSE /\ flight' = flight \ {w} /\ UNCHANGED <<handle, future, content>>
    BY <1>12 DEF Completed, Exclusive
  <2>2. \A t : Holders(t)' = Holders(t)
    BY <2>1 DEF Holders
  <2>3. QED
    BY <2>1, <2>2 DEF Exclusive
<1>13. CASE UNCHANGED vars
  BY <1>13, OutOfReach DEF vars, Holders
<1>14. QED
  BY <1>1, <1>2, <1>3, <1>4, <1>5, <1>6, <1>7, <1>8, <1>9, <1>10, <1>11, <1>12, <1>13
     DEF Next, Stopped

(* A fan-out given the only handle of its buffer sends what was in it,
   whatever the other bodies do with the pool until the kernel reads it. *)
THEOREM FanOutSendsItsData == Spec => []SendsWhatWasGiven
<1>1. Init => Exclusive
  BY DEF Init, Exclusive
<1>2. Exclusive => SendsWhatWasGiven
  BY DEF Exclusive, SendsWhatWasGiven
<1>3. QED
  BY Invariance, ExclusiveStep, <1>1, <1>2, PTL DEF Spec
=============================================================================
