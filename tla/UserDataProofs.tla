--------------------------- MODULE UserDataProofs ---------------------------
(***************************************************************************)
(* Proofs about UserData at every width of its fields, the u32, u16 and    *)
(* u16 of the program included, which TLC cannot count to.                 *)
(***************************************************************************)
EXTENDS UserData, TLAPS

(* A positive multiple of m is at least m. *)
LEMMA Multiple ==
    ASSUME NEW m \in Nat, NEW k \in Int, k >= 1
    PROVE  m * k >= m
<1>1. k - 1 \in Nat
  OBVIOUS
<1>2. m * (k - 1) \in Nat
  BY <1>1
<1>3. m * k = m * (k - 1) + m
  OBVIOUS
<1>4. QED
  BY <1>2, <1>3

(* A number below m and a multiple of m, added, come apart again. *)
LEMMA DivMod ==
    ASSUME NEW m \in Nat \ {0}, NEW a \in 0 .. m - 1, NEW q \in Nat
    PROVE  (a + m * q) % m = a /\ (a + m * q) \div m = q
<1> DEFINE x == a + m * q
           d == x \div m
           r == x % m
<1>1. x \in Nat /\ m * q \in Nat
  OBVIOUS
<1>2. d \in Int /\ r \in 0 .. m - 1 /\ x = m * d + r
  BY <1>1
<1> HIDE DEF d, r
<1>3. m * (q - d) = r - a
  BY <1>1, <1>2
<1>4. r - a < m /\ r - a > -m
  BY <1>2
<1>5. ~(q - d >= 1)
  <2>1. q - d >= 1 => m * (q - d) >= m
    BY <1>2, Multiple
  <2>2. QED
    BY <2>1, <1>2, <1>3, <1>4
<1>6. ~(q - d <= -1)
  <2>1. q - d <= -1 => m * (d - q) >= m
    BY <1>2, Multiple
  <2>2. m * (d - q) = a - r
    BY <1>2, <1>3
  <2>3. QED
    BY <2>1, <2>2, <1>2, <1>4
<1>7. q = d
  BY <1>2, <1>5, <1>6
<1>8. r = a
  BY <1>2, <1>3, <1>7
<1>9. QED
  BY <1>7, <1>8 DEF d, r

-----------------------------------------------------------------------------
(* Reading a payload back from its word gives the payload. *)
LEMMA PayloadBack ==
    ASSUME NEW p \in Payload
    PROVE  from_user_data(into_user_data(p)) = p
<1> DEFINE g == p.response_gen
           n == p.syscall_nb
           high == g + GEN * n
<1>1. /\ IDX \in Nat \ {0} /\ GEN \in Nat \ {0}
      /\ p.task_idx \in 0 .. IDX - 1 /\ g \in 0 .. GEN - 1 /\ n \in Nat
  BY WidthAssumption DEF Payload
<1>2. high \in Nat
  BY <1>1
<1>3. high % GEN = g /\ high \div GEN = n
  BY <1>1, DivMod
<1>4. into_user_data(p) % IDX = p.task_idx /\ into_user_data(p) \div IDX = high
  BY <1>1, <1>2, DivMod DEF into_user_data
<1>5. from_user_data(into_user_data(p)) =
        [task_idx |-> p.task_idx, response_gen |-> g, syscall_nb |-> n]
  BY <1>3, <1>4 DEF from_user_data
<1>6. QED
  BY <1>5 DEF Payload

-----------------------------------------------------------------------------
(* Where a + m * q lies between the multiples of m. *)
LEMMA Digit ==
    ASSUME NEW m \in Nat \ {0}, NEW a \in 0 .. m - 1, NEW q \in Nat, NEW k \in Nat
    PROVE  a + m * q < m * k <=> q < k
<1>0. m * q \in Nat /\ m * k \in Nat
  OBVIOUS
<1>1. CASE q < k
  <2>1. m * (k - q) >= m
    BY <1>1, Multiple
  <2>2. m * k = m * q + m * (k - q)
    OBVIOUS
  <2>3. m * (k - q) \in Int
    OBVIOUS
  <2>4. QED
    BY <1>0, <1>1, <2>1, <2>2, <2>3
<1>2. CASE ~(q < k)
  <2>1. q - k \in Nat
    BY <1>2
  <2>2. m * (q - k) \in Nat
    BY <2>1
  <2>3. m * q = m * k + m * (q - k)
    OBVIOUS
  <2>4. QED
    BY <1>0, <1>2, <2>2, <2>3
<1>3. QED
  BY <1>1, <1>2

LEMMA Widths ==
    /\ IDX \in Nat \ {0} /\ GEN \in Nat \ {0} /\ NB \in Nat \ {0}
    /\ MULTIPLE \in Nat /\ MULTIPLE < NB
<1>1. NB \in Nat \ {0}
  BY WidthAssumption
<1>2. NB \div 2 \in Nat /\ NB \div 2 < NB
  BY <1>1
<1>3. QED
  BY <1>2, WidthAssumption DEF MULTIPLE

(* The words of payloads are 64 bits long. *)
LEMMA WordOf ==
    ASSUME NEW p \in Payload
    PROVE  into_user_data(p) \in 0 .. IDX * GEN * NB - 1
<1> DEFINE g == p.response_gen
           n == p.syscall_nb
           high == g + GEN * n
           w == into_user_data(p)
<1>1. /\ p.task_idx \in 0 .. IDX - 1 /\ g \in 0 .. GEN - 1
      /\ n \in Nat /\ n < NB
  BY Widths DEF Payload
<1>2. high \in Nat /\ w = p.task_idx + IDX * high
  BY <1>1, Widths DEF into_user_data
<1>3. GEN * NB \in Nat
  BY Widths
<1>4. high < GEN * NB
  BY <1>1, Widths, Digit
<1> HIDE DEF high, w
<1>5. w < IDX * (GEN * NB)
  BY <1>1, <1>2, <1>3, <1>4, Widths, Digit
<1>6. w \in Nat
  BY <1>1, <1>2, Widths
<1>7. IDX * (GEN * NB) = IDX * GEN * NB /\ IDX * GEN * NB \in Nat
  BY Widths
<1>8. w \in 0 .. IDX * GEN * NB - 1
  BY <1>5, <1>6, <1>7
<1>9. QED
  BY <1>8 DEF w

(* The payload that handle_cqe_entry finds in a word: the task's own, or, for
   a WBuffer, one with the slot for an index and with the mask. *)
Meant == IF stage \in {"internal", "internal handled"}
         THEN [origin EXCEPT !.syscall_nb = MULTIPLE] ELSE origin

(* The word in flight is the one of the payload it is meant to carry. *)
Coded == /\ stage \in {"idle", "task", "internal", "task handled", "internal handled"}
         /\ origin \in Payload /\ received \in Payload /\ Meant \in Payload
         /\ word = into_user_data(Meant)
         /\ RoundTrip

LEMMA CodedStep == Coded /\ [Next]_vars => Coded'
<1> SUFFICES ASSUME Coded, [Next]_vars PROVE Coded'
  OBVIOUS
<1>0. Empty \in Payload
  BY Widths DEF Empty, Payload
<1>1. CASE SendTask
  <2>1. PICK p \in Payload : /\ stage' = "task" /\ origin' = p
                             /\ word' = into_user_data(p) /\ received' = Empty
    BY <1>1 DEF SendTask
  <2>2. QED
    BY <1>0, <2>1 DEF Coded, Meant, RoundTrip
<1>2. CASE SendInternal
  <2>1. PICK k \in 0 .. IDX - 1 : /\ stage' = "internal" /\ received' = Empty
                                  /\ origin' = [Empty EXCEPT !.task_idx = k]
                                  /\ word' = wbuf_write_udata(k)
    BY <1>2 DEF SendInternal
  <2> DEFINE p == [task_idx |-> k, response_gen |-> 0, syscall_nb |-> MULTIPLE]
  <2>2. p \in Payload /\ origin' \in Payload
    BY <2>1, Widths DEF Payload, Empty
  <2>3. into_user_data(p) = k + IDX * (0 + GEN * MULTIPLE)
    BY DEF into_user_data
  <2>4. k + IDX * (0 + GEN * MULTIPLE) = INTERNAL_FLAG + k
    BY <2>1, Widths DEF INTERNAL_FLAG
  <2>5. word' = into_user_data(p)
    BY <2>1, <2>3, <2>4 DEF wbuf_write_udata
  <2>6. Meant' = p
    BY <2>1 DEF Meant, Empty
  <2>7. QED
    BY <1>0, <2>1, <2>2, <2>5, <2>6 DEF Coded, RoundTrip
<1>3. CASE Handle
  <2>1. received' = Meant /\ UNCHANGED <<origin, word>>
    BY <1>3, PayloadBack DEF Handle, Coded
  <2>2. \/ stage = "task" /\ stage' = "task handled"
        \/ stage = "internal" /\ stage' = "internal handled"
    BY <1>3 DEF Handle
  <2>3. Meant' = Meant
    BY <2>1, <2>2 DEF Meant
  <2>4. RoundTrip'
    BY <2>1, <2>2 DEF RoundTrip, Meant
  <2>5. QED
    BY <2>1, <2>2, <2>3, <2>4 DEF Coded
<1>4. CASE UNCHANGED vars
  BY <1>4 DEF vars, Coded, Meant, RoundTrip
<1>5. QED
  BY <1>1, <1>2, <1>3, <1>4 DEF Next

LEMMA CodedInit == Init => Coded
<1> SUFFICES ASSUME Init PROVE Coded
  OBVIOUS
<1>1. Empty \in Payload
  BY Widths DEF Empty, Payload
<1>2. into_user_data(Empty) = 0
  BY Widths DEF into_user_data, Empty
<1>3. QED
  BY <1>1, <1>2 DEF Init, Coded, Meant, RoundTrip

(* The tag and the generation of a completion are those the task was given,
   whatever their values and whatever the widths of the fields; the word of a
   WBuffer::submit is read as the tag of a masked operation of task abs_idx. *)
THEOREM RoundTripAlways == Spec => []RoundTrip
<1>1. Coded => RoundTrip
  BY DEF Coded
<1>2. QED
  BY CodedInit, CodedStep, <1>1, PTL DEF Spec

(* No word is longer than 64 bits and no field read from one exceeds its
   width, the words of WBuffer::submit that handle_cqe_entry reads as tags
   included. *)
THEOREM TypeCorrect == Spec => []TypeOK
<1>1. Coded => TypeOK
  BY WordOf DEF Coded, TypeOK
<1>2. QED
  BY CodedInit, CodedStep, <1>1, PTL DEF Spec
=============================================================================
