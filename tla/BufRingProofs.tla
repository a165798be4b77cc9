---------------------------- MODULE BufRingProofs ----------------------------
(***************************************************************************)
(* Proofs about BufRing, for every size of the ring and every width of the *)
(* tail that is a multiple of it.  The entries between head and tail are   *)
(* sound only if the entry being written is not one of them, and it is not *)
(* because the buffer being released is in none of the others: a full ring *)
(* would name more buffers than there are.                                 *)
(***************************************************************************)
EXTENDS BufRing, FiniteSetTheorems, TLAPS

(* The buffers available, selected and being released are distinct. *)
Apart ==
    /\ \A o, p \in out : o.bid = p.bid => o = p
    /\ \A k \in Window : \A o \in out : At(k).bid # o.bid
    /\ step # "idle" => /\ \A k \in Window : At(k).bid # buf_idx
                        /\ \A o \in out : o.bid # buf_idx

(* What the stores done so far have put in the entry at the tail. *)
Written ==
    /\ step # "idle" => tail = TailWord
    /\ step \in {"bid", "tail"} => entry[SlotOf(tail)].addr = read_buf_addr(buf_idx)
    /\ step = "tail" => entry[SlotOf(tail)].bid = buf_idx

IInv == TypeOK /\ WindowSound /\ Apart /\ Written

-----------------------------------------------------------------------------
(***************************************************************************)
(* Remainders.                                                             *)
(***************************************************************************)
LEMMA Multiple ==
    ASSUME NEW m \in Nat, NEW k \in Int, k >= 1
    PROVE  m * k >= m
<1>1. k - 1 \in Nat /\ m * (k - 1) \in Nat
  OBVIOUS
<1>2. m * k = m * (k - 1) + m
  OBVIOUS
<1>3. QED
  BY <1>1, <1>2

(* A number below m is the remainder of its sum with a multiple of m. *)
LEMMA Remainder ==
    ASSUME NEW m \in Nat \ {0}, NEW a \in 0 .. m - 1, NEW q \in Int
    PROVE  (a + m * q) % m = a
<1> DEFINE x == a + m * q
           d == x \div m
           r == x % m
<1>1. x \in Int /\ m * q \in Int
  OBVIOUS
<1>2. d \in Int /\ r \in 0 .. m - 1 /\ x = m * d + r
  BY <1>1
<1> HIDE DEF d, r
<1>3. m * (q - d) = r - a
  BY <1>1, <1>2
<1>4. r - a < m /\ r - a > -m
  BY <1>2
<1>5. ~(q - d >= 1)
  <2>1. q - d >= 1 => m * (q - d) >= m
    BY <1>2, Multiple
  <2>2. QED
    BY <2>1, <1>2, <1>3, <1>4
<1>6. ~(q - d <= -1)
  <2>1. q - d <= -1 => m * (d - q) >= m
    BY <1>2, Multiple
  <2>2. m * (d - q) = a - r
    BY <1>2, <1>3
  <2>3. QED
    BY <2>1, <2>2, <1>2, <1>4
<1>7. q = d
  BY <1>2, <1>5, <1>6
<1>8. r = a
  BY <1>2, <1>3, <1>7
<1>9. QED
  BY <1>8 DEF r

(* A multiple of m does not change a remainder. *)
LEMMA Shift ==
    ASSUME NEW m \in Nat \ {0}, NEW a \in Int, NEW q \in Int
    PROVE  (a + m * q) % m = a % m
<1> DEFINE d == a \div m
           r == a % m
<1>1. d \in Int /\ r \in 0 .. m - 1 /\ a = r + m * d
  OBVIOUS
<1> HIDE DEF d, r
<1>2. a + m * q = r + m * (d + q) /\ d + q \in Int
  BY <1>1
<1>3. QED
  BY <1>1, <1>2, Remainder DEF r

(* Less than a lap apart, two positions are in different entries. *)
LEMMA Distinct ==
    ASSUME NEW m \in Nat \ {0}, NEW a \in Int, NEW b \in Int, a < b, b - a < m
    PROVE  a % m # b % m
<1> DEFINE c == a \div m
           r == a % m
           d == b \div m
           s == b % m
<1>1. c \in Int /\ r \in 0 .. m - 1 /\ a = r + m * c /\ d \in Int /\ s \in 0 .. m - 1 /\ b = s + m * d
  OBVIOUS
<1> HIDE DEF c, r, d, s
<1>2. SUFFICES ASSUME r = s PROVE FALSE
  BY DEF r, s
<1>3. m * (d - c) = b - a
  BY <1>1, <1>2
<1>4. d - c >= 1 => m * (d - c) >= m
  BY <1>1, Multiple
<1>5. d - c <= 0 => m * (c - d) >= 0
  BY <1>1
<1>6. m * (c - d) = a - b
  BY <1>1, <1>2
<1>7. QED
  BY <1>1, <1>3, <1>4, <1>5, <1>6

-----------------------------------------------------------------------------
LEMMA RingFacts ==
    /\ ring_entries \in Nat \ {0} /\ U16 \in Nat \ {0} /\ U16 >= 2 * ring_entries
    /\ \E k \in Nat : U16 = ring_entries * k
<1>1. PICK k \in 1 .. U16 : k * ring_entries = U16
  BY RingAssumption
<1>2. ring_entries \in Nat \ {0} /\ U16 \in Nat /\ ring_entries < U16 /\ k \in Nat /\ k >= 1
  BY <1>1, RingAssumption
<1>3. U16 = ring_entries * k
  BY <1>1, <1>2
<1>4. k # 1
  BY <1>2, <1>3
<1>5. ring_entries * (k - 1) >= ring_entries
  BY <1>2, <1>4, Multiple
<1>6. ring_entries * k = ring_entries * (k - 1) + ring_entries
  BY <1>2
<1>7. ring_entries * (k - 1) \in Int
  BY <1>2
<1>8. QED
  BY <1>2, <1>3, <1>5, <1>6, <1>7

(* Wrapping at 2^16 does not change the entry a position is in. *)
LEMMA Wrap ==
    ASSUME NEW x \in Int, NEW k \in Int
    PROVE  ((x % U16) + k) % ring_entries = (x + k) % ring_entries
<1> DEFINE d == x \div U16
           r == x % U16
<1>1. PICK n \in Nat : U16 = ring_entries * n
  BY RingFacts
<1>0. U16 \in Nat \ {0}
  BY RingFacts
<1>2. d \in Int /\ r \in 0 .. U16 - 1 /\ x = r + U16 * d
  BY <1>0
<1> HIDE DEF d, r
<1>3. x + k = (r + k) + ring_entries * (n * d)
  BY <1>1, <1>2, RingFacts
<1>4. n * d \in Int /\ r + k \in Int
  BY <1>2
<1>5. QED
  BY <1>3, <1>4, RingFacts, Shift, ZenonT(40) DEF r

(* The number of entries between two positions of the u16 counters, and what
   one step of either makes of it. *)
LEMMA SizeFacts ==
    ASSUME NEW t \in 0 .. U16 - 1, NEW h \in 0 .. U16 - 1, NEW n \in Int, n = (t - h) % U16
    PROVE  /\ n \in 0 .. U16 - 1 /\ t = (h + n) % U16
           /\ n = 0 <=> t = h
           /\ n # 0 => (t - ((h + 1) % U16)) % U16 = n - 1
           /\ n + 1 < U16 => (((t + 1) % U16) - h) % U16 = n + 1
<1> DEFINE D(a) == a % U16
<1>0. U16 \in Nat \ {0} /\ t \in Int /\ h \in Int
  BY RingFacts
<1>a. \A a \in 0 .. U16 - 1 : \A q \in Int : (a + U16 * q) % U16 = a
  BY <1>0, Remainder
<1>1. \A a \in 0 .. U16 - 1 : a % U16 = a
  BY <1>0
<1>2. \A a \in U16 .. 2 * U16 - 1 : a % U16 = a - U16
  <2> SUFFICES ASSUME NEW a \in U16 .. 2 * U16 - 1 PROVE a % U16 = a - U16
    OBVIOUS
  <2>1. a - U16 \in 0 .. U16 - 1 /\ a = (a - U16) + U16 * 1
    BY <1>0
  <2>2. QED
    BY <1>a, <2>1
<1>3. \A a \in -U16 .. -1 : a % U16 = a + U16
  <2> SUFFICES ASSUME NEW a \in -U16 .. -1 PROVE a % U16 = a + U16
    OBVIOUS
  <2>1. a + U16 \in 0 .. U16 - 1 /\ a = (a + U16) + U16 * (-1)
    BY <1>0
  <2>2. QED
    BY <1>a, <2>1
<1>4. n = IF t >= h THEN t - h ELSE t - h + U16
  BY <1>0, <1>1, <1>3
<1>5. n \in 0 .. U16 - 1 /\ (n = 0 <=> t = h)
  BY <1>0, <1>4
<1>6. t = (h + n) % U16
  <2>1. CASE t >= h
    BY <1>0, <1>1, <1>4, <2>1
  <2>2. CASE t < h
    <3>1. h + n \in U16 .. 2 * U16 - 1 /\ h + n - U16 = t
      BY <1>0, <1>4, <2>2
    <3>2. (h + n) % U16 = (h + n) - U16
      BY <1>2, <3>1
    <3>3. QED
      BY <1>0, <1>5, <3>1, <3>2
  <2>3. QED
    BY <1>0, <2>1, <2>2
<1>7. ASSUME n # 0 PROVE (t - ((h + 1) % U16)) % U16 = n - 1
  <2>0. t # h
    BY <1>5, <1>7
  <2>1. CASE h + 1 < U16
    <3>1. (h + 1) % U16 = h + 1
      BY <1>0, <1>1, <2>1
    <3>2. CASE t >= h
      BY <1>0, <1>1, <1>4, <2>0, <3>1, <3>2
    <3>3. CASE t < h
      <4>1. t - (h + 1) \in -U16 .. -1
        BY <1>0, <3>3
      <4>2. QED
        BY <1>0, <1>3, <1>4, <3>1, <3>3, <4>1
    <3>4. QED
      BY <1>0, <3>2, <3>3
  <2>2. CASE h + 1 = U16
    <3>1. (h + 1) % U16 = 0
      BY <1>0, <1>2, <2>2
    <3>2. t < h /\ n = t + 1
      BY <1>0, <1>4, <2>0, <2>2
    <3>3. QED
      BY <1>0, <1>1, <3>1, <3>2
  <2>3. QED
    BY <1>0, <2>1, <2>2
<1>8. ASSUME n + 1 < U16 PROVE (((t + 1) % U16) - h) % U16 = n + 1
  <2>1. CASE t + 1 < U16
    <3>1. (t + 1) % U16 = t + 1
      BY <1>0, <1>1, <2>1
    <3>2. CASE t >= h
      BY <1>0, <1>1, <1>4, <1>8, <3>1, <3>2
    <3>3. CASE t < h
      <4>1. t + 1 - h \in -U16 .. -1
        BY <1>0, <1>4, <1>8, <3>3
      <4>2. QED
        BY <1>0, <1>3, <1>4, <3>1, <3>3, <4>1
    <3>4. QED
      BY <1>0, <3>2, <3>3
  <2>2. CASE t + 1 = U16
    <3>1. (t + 1) % U16 = 0
      BY <1>0, <1>2, <2>2
    <3>2. t >= h /\ n = t - h
      BY <1>0, <1>4, <2>2
    <3>3. 0 - h \in -U16 .. -1
      BY <1>0, <1>8, <2>2, <3>2
    <3>4. QED
      BY <1>0, <1>3, <2>2, <3>1, <3>2, <3>3
  <2>3. QED
    BY <1>0, <2>1, <2>2
<1>9. QED
  BY <1>5, <1>6, <1>7, <1>8
-----------------------------------------------------------------------------
(***************************************************************************)
(* The window.                                                             *)
(***************************************************************************)
LEMMA Facts ==
    ASSUME IInv
    PROVE  /\ TailWord \in 0 .. U16 - 1 /\ head \in 0 .. U16 - 1
           /\ Size \in 0 .. U16 - 1 /\ Size <= ring_entries /\ Size \in Nat
           /\ Size = 0 <=> TailWord = head
           /\ TailWord % ring_entries = (head + Size) % ring_entries
           /\ Window = 0 .. Size - 1
<1>0. ring_entries \in Nat \ {0} /\ U16 \in Nat \ {0} /\ U16 >= 2 * ring_entries
  BY RingFacts
<1>1. 0 \in Slot /\ entry \in [Slot -> Entry] /\ head \in 0 .. U16 - 1
  BY <1>0 DEF IInv, TypeOK, Slot
<1>2. TailWord \in 0 .. U16 - 1
  BY <1>1 DEF TailWord, Entry
<1>3. PICK t, n : t = TailWord /\ n = Size
  OBVIOUS
<1>4. /\ Size \in 0 .. U16 - 1 /\ TailWord = (head + Size) % U16
      /\ Size = 0 <=> TailWord = head
  <2>0. t \in 0 .. U16 - 1 /\ n = (t - head) % U16
    BY <1>2, <1>3 DEF Size
  <2>1. t \in 0 .. U16 - 1 /\ n \in Int /\ n = (t - head) % U16
    BY <1>0, <1>1, <2>0
  <2>2. n \in 0 .. U16 - 1 /\ t = (head + n) % U16 /\ (n = 0 <=> t = head)
    BY <1>1, <2>1, SizeFacts
  <2>3. QED
    BY <1>3, <2>2
<1> DEFINE x == head + Size
<1>5. x \in Int /\ 0 \in Int
  BY <1>0, <1>1, <1>4
<1>6. ((x % U16) + 0) % ring_entries = (x + 0) % ring_entries
  BY <1>5, Wrap
<1>7. TailWord % ring_entries = x % ring_entries
  BY <1>0, <1>4, <1>5, <1>6
<1>8. QED
  BY <1>0, <1>1, <1>2, <1>4, <1>7 DEF IInv, WindowSound, Window

(* The entries of the window, and the entry at the tail unless the ring is
   full, are distinct entries. *)
LEMMA SlotsApart ==
    ASSUME IInv, NEW j \in 0 .. ring_entries - 1, NEW k \in 0 .. ring_entries - 1,
           (head + j) % ring_entries = (head + k) % ring_entries
    PROVE  j = k
<1>1. ring_entries \in Nat \ {0} /\ head \in Int /\ j \in Int /\ k \in Int
  BY RingFacts, Facts
<1>2. head + j \in Int /\ head + k \in Int
  BY <1>1
<1>3. ~(j < k)
  <2>1. j < k => head + j < head + k /\ (head + k) - (head + j) < ring_entries
    BY <1>1
  <2>2. QED
    BY <1>1, <1>2, <2>1, Distinct
<1>4. ~(k < j)
  <2>1. k < j => head + k < head + j /\ (head + j) - (head + k) < ring_entries
    BY <1>1
  <2>2. QED
    BY <1>1, <1>2, <2>1, Distinct
<1>5. QED
  BY <1>1, <1>3, <1>4

LEMMA SlotType ==
    ASSUME IInv, NEW k \in Nat
    PROVE  (head + k) % ring_entries \in Slot /\ At(k) \in Entry
<1>1. ring_entries \in Nat \ {0} /\ head + k \in Int
  BY RingFacts, Facts
<1>2. (head + k) % ring_entries \in Slot
  BY <1>1 DEF Slot
<1>3. QED
  BY <1>2 DEF IInv, TypeOK, At

(* While a buffer is being released the ring is not full. *)
LEMMA RoomAtTail ==
    ASSUME IInv, step # "idle"
    PROVE  Size < ring_entries
<1>1. ring_entries \in Nat \ {0} /\ Size \in Nat /\ Size <= ring_entries /\ Window = 0 .. Size - 1
  BY RingFacts, Facts
<1>2. SUFFICES ASSUME Size = ring_entries PROVE FALSE
  BY <1>1
<1> DEFINE S == 0 .. ring_entries - 1
           T == S \ {buf_idx}
           f == [k \in S |-> At(k).bid]
<1>3. Window = S /\ buf_idx \in S
  BY <1>1, <1>2 DEF IInv, TypeOK, Buf
<1>4. IsFiniteSet(S) /\ Cardinality(S) = ring_entries
  BY <1>1, FS_Interval
<1>5. IsFiniteSet(T) /\ Cardinality(T) = ring_entries - 1
  BY <1>3, <1>4, FS_RemoveElement
<1>6. \A k \in S : At(k).bid \in T
  <2> SUFFICES ASSUME NEW k \in S PROVE At(k).bid \in T
    OBVIOUS
  <2>1. At(k) \in Entry
    BY <1>1, SlotType
  <2>2. At(k).bid \in S
    BY <2>1 DEF Entry, Buf
  <2>3. At(k).bid # buf_idx
    BY <1>3 DEF IInv, Apart
  <2>4. QED
    BY <2>2, <2>3
<1>7. f \in [S -> T]
  BY <1>6
<1>8. \E j, k \in S : j # k /\ f[j] = f[k]
  <2>1. Cardinality(T) < Cardinality(S)
    BY <1>1, <1>4, <1>5
  <2> HIDE DEF S, T, f
  <2>2. QED
    BY <1>4, <1>5, <1>7, <2>1, FS_PigeonHole
<1>9. \A j, k \in S : At(j).bid = At(k).bid => j = k
  BY <1>3 DEF IInv, WindowSound
<1>10. QED
  BY <1>8, <1>9

(* The entry being written is outside the window. *)
LEMMA TailOutside ==
    ASSUME IInv, step # "idle"
    PROVE  /\ SlotOf(tail) \in Slot /\ SlotOf(tail) = (head + Size) % ring_entries
           /\ \A k \in Window : (head + k) % ring_entries # SlotOf(tail)
<1>1. Size < ring_entries /\ Size \in Nat /\ ring_entries \in Nat /\ Window = 0 .. Size - 1
  BY RoomAtTail, Facts, RingFacts
<1>2. SlotOf(tail) = (head + Size) % ring_entries
  BY Facts DEF SlotOf, IInv, Written
<1>3. SlotOf(tail) \in Slot
  BY <1>1, <1>2, SlotType
<1>4. ASSUME NEW k \in Window PROVE (head + k) % ring_entries # SlotOf(tail)
  <2>1. k \in 0 .. ring_entries - 1 /\ Size \in 0 .. ring_entries - 1 /\ k # Size
    BY <1>1
  <2>2. QED
    BY <1>2, <2>1, SlotsApart
<1>5. QED
  BY <1>2, <1>3, <1>4
-----------------------------------------------------------------------------
(***************************************************************************)
(* The steps.                                                              *)
(***************************************************************************)
(* A store into the entry at the tail changes nothing the kernel may use. *)
LEMMA StoreOutside ==
    ASSUME IInv, step # "idle", step' \in {"bid", "tail"}, TailWord' = TailWord,
           entry' \in [Slot -> Entry],
           \A i \in Slot : i # SlotOf(tail) => entry'[i] = entry[i],
           UNCHANGED <<head, out, tail, buf_idx>>
    PROVE  /\ TypeOK' /\ WindowSound' /\ Apart' /\ tail' = TailWord'
           /\ Window' = Window /\ \A k \in Window : At(k)' = At(k)
<1>1. Size' = Size /\ Window' = Window
  BY DEF Size, Window
<1>2. ASSUME NEW k \in Window PROVE At(k)' = At(k)
  <2>1. (head + k) % ring_entries # SlotOf(tail)
    BY TailOutside
  <2>2. k \in Nat
    BY Facts
  <2>3. (head + k) % ring_entries \in Slot
    BY <2>2, SlotType
  <2>4. QED
    BY <2>1, <2>3 DEF At
<1>3. TypeOK'
  BY DEF IInv, TypeOK
<1>4. WindowSound'
  BY <1>1, <1>2 DEF IInv, WindowSound
<1>5. Apart'
  BY <1>1, <1>2 DEF IInv, Apart
<1>6. QED
  BY <1>1, <1>2, <1>3, <1>4, <1>5 DEF IInv, Written

LEMMA EntryStores ==
    ASSUME entry \in [Slot -> Entry], NEW i \in Slot
    PROVE  /\ \A b \in Buf : [entry EXCEPT ![i].addr = b] \in [Slot -> Entry]
           /\ \A b \in Buf : [entry EXCEPT ![i].bid = b] \in [Slot -> Entry]
           /\ \A t \in 0 .. U16 - 1 : [entry EXCEPT ![i].resv = t] \in [Slot -> Entry]
  BY DEF Entry

LEMMA WriteAddrStep ==
    ASSUME IInv, WriteAddr
    PROVE  IInv' /\ Window' = Window /\ \A k \in Window : At(k)' = At(k)
<1>1. /\ step = "addr" /\ step' = "bid" /\ UNCHANGED <<head, out, tail, buf_idx>>
      /\ entry' = [entry EXCEPT ![SlotOf(tail)].addr = read_buf_addr(buf_idx)]
  BY DEF WriteAddr
<1>2. /\ entry \in [Slot -> Entry] /\ buf_idx \in Buf /\ read_buf_addr(buf_idx) \in Buf
      /\ SlotOf(tail) \in Slot /\ 0 \in Slot
  BY <1>1, TailOutside, RingFacts DEF IInv, TypeOK, read_buf_addr, Slot
<1>3. entry' \in [Slot -> Entry]
  BY <1>1, <1>2, EntryStores
<1>4. /\ \A i \in Slot : i # SlotOf(tail) => entry'[i] = entry[i]
      /\ entry'[0].resv = entry[0].resv
      /\ entry'[SlotOf(tail)].addr = read_buf_addr(buf_idx)
  BY <1>1, <1>2 DEF Entry
<1>5. /\ TypeOK' /\ WindowSound' /\ Apart' /\ tail' = TailWord'
      /\ Window' = Window /\ \A k \in Window : At(k)' = At(k)
  BY <1>1, <1>3, <1>4, StoreOutside DEF TailWord
<1>6. Written'
  BY <1>1, <1>4, <1>5 DEF Written, SlotOf, read_buf_addr
<1>7. QED
  BY <1>5, <1>6 DEF IInv

LEMMA WriteBidStep ==
    ASSUME IInv, WriteBid
    PROVE  IInv' /\ Window' = Window /\ \A k \in Window : At(k)' = At(k)
<1>1. /\ step = "bid" /\ step' = "tail" /\ UNCHANGED <<head, out, tail, buf_idx>>
      /\ entry' = [entry EXCEPT ![SlotOf(tail)].bid = buf_idx]
  BY DEF WriteBid, StoreBid
<1>2. /\ entry \in [Slot -> Entry] /\ buf_idx \in Buf
      /\ SlotOf(tail) \in Slot /\ 0 \in Slot
      /\ entry[SlotOf(tail)].addr = read_buf_addr(buf_idx)
  BY <1>1, TailOutside, RingFacts DEF IInv, TypeOK, Slot, Written
<1>3. entry' \in [Slot -> Entry]
  BY <1>1, <1>2, EntryStores
<1>4. /\ \A i \in Slot : i # SlotOf(tail) => entry'[i] = entry[i]
      /\ entry'[0].resv = entry[0].resv
      /\ entry'[SlotOf(tail)].addr = read_buf_addr(buf_idx)
      /\ entry'[SlotOf(tail)].bid = buf_idx
  BY <1>1, <1>2 DEF Entry
<1>5. /\ TypeOK' /\ WindowSound' /\ Apart' /\ tail' = TailWord'
      /\ Window' = Window /\ \A k \in Window : At(k)' = At(k)
  BY <1>1, <1>3, <1>4, StoreOutside DEF TailWord
<1>6. Written'
  BY <1>1, <1>4, <1>5 DEF Written, SlotOf, read_buf_addr
<1>7. QED
  BY <1>5, <1>6 DEF IInv

(* The tail is read once the buffer is given up. *)
LEMMA ReadTailStep ==
    ASSUME IInv, ReadTail
    PROVE  /\ IInv' /\ Window' = Window /\ \A k : At(k)' = At(k)
           /\ step = "idle" /\ step' = "addr"
           /\ \E o \in out : buf_idx' = o.bid /\ out' = out \ {o}
<1>1. PICK o \in out : buf_idx' = o.bid /\ out' = out \ {o}
  BY DEF ReadTail
<1>2. step = "idle" /\ step' = "addr" /\ tail' = TailWord /\ UNCHANGED <<entry, head>>
  BY DEF ReadTail
<1>3. Window' = Window /\ Size' = Size /\ TailWord' = TailWord /\ \A k : At(k)' = At(k)
  BY <1>2 DEF Window, Size, TailWord, At
<1>4. o \in [bid: Buf, addr: Buf]
  BY DEF IInv, TypeOK
<1>5. TypeOK'
  BY <1>1, <1>2, <1>4, Facts DEF IInv, TypeOK
<1>6. WindowSound'
  BY <1>1, <1>3 DEF IInv, WindowSound
<1>7. Apart'
  <2>1. \A p \in out' : p \in out /\ p.bid # o.bid
    BY <1>1 DEF IInv, Apart
  <2>2. \A k \in Window : At(k).bid # o.bid
    BY DEF IInv, Apart
  <2>3. QED
    BY <1>1, <1>2, <1>3, <2>1, <2>2 DEF IInv, Apart
<1>8. Written'
  BY <1>2, <1>3 DEF Written
<1>9. QED
  BY <1>1, <1>2, <1>3, <1>5, <1>6, <1>7, <1>8 DEF IInv

(* Storing the tail adds the entry that was written to the window. *)
LEMMA WriteTailStep ==
    ASSUME IInv, WriteTail
    PROVE  /\ IInv' /\ Window' = Window \cup {Size} /\ Size \notin Window
           /\ \A k \in Nat : At(k)'.bid = At(k).bid
           /\ At(Size).bid = buf_idx
           /\ step = "tail" /\ step' = "idle" /\ UNCHANGED <<out, buf_idx>>
<1>1. /\ step = "tail" /\ step' = "idle" /\ UNCHANGED <<head, out, tail, buf_idx>>
      /\ entry' = [entry EXCEPT ![0].resv = NextTail(tail)]
  BY DEF WriteTail
<1>2. /\ entry \in [Slot -> Entry] /\ 0 \in Slot /\ buf_idx \in Buf
      /\ ring_entries \in Nat \ {0} /\ U16 \in Nat \ {0} /\ U16 >= 2 * ring_entries
      /\ head \in 0 .. U16 - 1 /\ TailWord \in 0 .. U16 - 1 /\ tail = TailWord
      /\ Size \in Nat /\ Size < ring_entries /\ Window = 0 .. Size - 1
  BY <1>1, RingFacts, Facts, RoomAtTail, SMTT(30) DEF IInv, TypeOK, Slot, Written
<1>3. NextTail(tail) = (TailWord + 1) % U16 /\ NextTail(tail) \in 0 .. U16 - 1
  BY <1>2 DEF NextTail
<1>4. entry' \in [Slot -> Entry]
  BY <1>1, <1>2, <1>3, EntryStores
<1>5. /\ \A i \in Slot : entry'[i].addr = entry[i].addr /\ entry'[i].bid = entry[i].bid
      /\ TailWord' = (TailWord + 1) % U16
  BY <1>1, <1>2, <1>3 DEF Entry, TailWord
<1>6. Size' = Size + 1
  <2>1. PICK t, n : t = TailWord /\ n = Size
    OBVIOUS
  <2>2. t \in 0 .. U16 - 1 /\ n \in Int /\ n = (t - head) % U16 /\ n + 1 < U16
    BY <1>2, <2>1 DEF Size
  <2>3. (((t + 1) % U16) - head) % U16 = n + 1
    <3>1. head \in 0 .. U16 - 1
      BY <1>2
    <3>2. QED
      BY <2>2, <3>1, SizeFacts
  <2>4. QED
    BY <1>1, <1>5, <2>1, <2>3 DEF Size
<1>7. Window' = Window \cup {Size} /\ Size \notin Window
  BY <1>2, <1>6 DEF Window
<1>8. \A k \in Nat : At(k)'.bid = At(k).bid /\ At(k)'.addr = At(k).addr
  BY <1>1, <1>5, SlotType DEF At
<1>9. At(Size).bid = buf_idx /\ At(Size).addr = read_buf_addr(buf_idx)
  BY <1>1, TailOutside DEF At, IInv, Written
<1>10. \A k \in Window' : k \in Nat /\ (k \in Window \/ k = Size)
  BY <1>2, <1>7
<1>11. TypeOK'
  BY <1>1, <1>4 DEF IInv, TypeOK
<1>12. WindowSound'
  <2>0. \A k \in Window : At(k).bid # buf_idx
    BY <1>1 DEF IInv, Apart
  <2>1. \A k \in Window' : At(k)'.addr = read_buf_addr(At(k)'.bid)
    BY <1>8, <1>9, <1>10 DEF IInv, WindowSound, read_buf_addr
  <2>2. ASSUME NEW j \in Window', NEW k \in Window', At(j)'.bid = At(k)'.bid PROVE j = k
    <3>1. At(j).bid = At(k).bid
      BY <1>8, <1>10, <2>2
    <3>2. CASE j \in Window /\ k \in Window
      BY <3>1, <3>2 DEF IInv, WindowSound
    <3>3. CASE j = Size \/ k = Size
      BY <1>9, <1>10, <2>0, <3>1, <3>3
    <3>4. QED
      BY <1>10, <3>2, <3>3
  <2>3. Size' <= ring_entries
    BY <1>2, <1>6
  <2>4. \A o \in out' : o.addr = read_buf_addr(o.bid)
    BY <1>1 DEF IInv, WindowSound
  <2>5. QED
    BY <2>1, <2>2, <2>3, <2>4 DEF WindowSound, read_buf_addr
<1>13. Apart'
  <2>1. \A o \in out : o.bid # buf_idx /\ \A k \in Window : At(k).bid # o.bid
    BY <1>1 DEF IInv, Apart
  <2>2. \A k \in Window' : \A o \in out' : At(k)'.bid # o.bid
    BY <1>1, <1>8, <1>9, <1>10, <2>1
  <2>3. \A o, p \in out' : o.bid = p.bid => o = p
    BY <1>1 DEF IInv, Apart
  <2>4. QED
    BY <1>1, <2>2, <2>3 DEF Apart
<1>14. Written'
  BY <1>1 DEF Written
<1>15. QED
  BY <1>1, <1>7, <1>8, <1>9, <1>11, <1>12, <1>13, <1>14 DEF IInv

(* The kernel takes the first entry of the window. *)
LEMMA SelectStep ==
    ASSUME IInv, Select
    PROVE  /\ IInv' /\ 0 \in Window
           /\ out' = out \cup {[bid |-> At(0).bid, addr |-> At(0).addr]}
           /\ \A k \in Window' : At(k)' = At(k + 1) /\ k + 1 \in Window /\ k + 1 # 0
           /\ \A k \in Window : k # 0 => k - 1 \in Window' /\ (k - 1) + 1 = k
           /\ UNCHANGED <<step, buf_idx>>
<1>1. /\ head # TailWord /\ head' = (head + 1) % U16
      /\ out' = out \cup {[bid  |-> entry[head % ring_entries].bid,
                           addr |-> entry[head % ring_entries].addr]}
      /\ UNCHANGED <<entry, step, tail, buf_idx>>
  BY DEF Select
<1>2. /\ ring_entries \in Nat \ {0} /\ U16 \in Nat \ {0}
      /\ head \in 0 .. U16 - 1 /\ TailWord \in 0 .. U16 - 1
      /\ Size \in Nat /\ Size <= ring_entries /\ Size # 0 /\ Window = 0 .. Size - 1
      /\ TailWord' = TailWord
  BY <1>1, RingFacts, Facts DEF TailWord
<1>3. Size' = Size - 1
  <2>1. PICK t, n : t = TailWord /\ n = Size
    OBVIOUS
  <2>2. t \in 0 .. U16 - 1 /\ n \in Int /\ n = (t - head) % U16 /\ n # 0
    BY <1>2, <2>1 DEF Size
  <2>3. (t - ((head + 1) % U16)) % U16 = n - 1
    <3>1. head \in 0 .. U16 - 1
      BY <1>2
    <3>2. QED
      BY <2>2, <3>1, SizeFacts
  <2>4. QED
    BY <1>1, <1>2, <2>1, <2>3 DEF Size
<1>4. Window' = 0 .. Size - 2 /\ 0 \in Window
  BY <1>2, <1>3 DEF Window
<1>5. \A k \in Window' : k \in Nat /\ k + 1 \in Window /\ k + 1 # 0
  BY <1>2, <1>4
<1>6. \A k \in Window : k # 0 => k - 1 \in Window' /\ (k - 1) + 1 = k
  BY <1>2, <1>4
<1>7. ASSUME NEW k \in Window' PROVE At(k)' = At(k + 1)
  <2>1. head + 1 \in Int /\ k \in Int /\ k \in Nat
    BY <1>2, <1>5
  <2>2. (((head + 1) % U16) + k) % ring_entries = (head + 1 + k) % ring_entries
    BY <2>1, Wrap
  <2>3. head + 1 + k = head + (k + 1)
    BY <1>2, <2>1
  <2>4. (head' + k) % ring_entries = (head + (k + 1)) % ring_entries
    BY <1>1, <2>2, <2>3
  <2>5. QED
    BY <1>1, <2>4 DEF At
<1>8. At(0) = entry[head % ring_entries] /\ At(0) \in Entry
  <2>1. head + 0 = head
    BY <1>2
  <2>2. QED
    BY <2>1, SlotType DEF At
<1> DEFINE n == [bid |-> At(0).bid, addr |-> At(0).addr]
<1>9. out' = out \cup {n} /\ n \in [bid: Buf, addr: Buf] /\ n.bid = At(0).bid
      /\ n.addr = At(0).addr
  BY <1>1, <1>8 DEF Entry
<1> HIDE DEF n
<1>10. TypeOK'
  <2>1. head' \in 0 .. U16 - 1
    BY <1>1, <1>2
  <2>2. QED
    BY <1>1, <1>9, <2>1 DEF IInv, TypeOK
<1>11. WindowSound'
  <2>1. \A k \in Window : At(k).addr = read_buf_addr(At(k).bid)
    BY DEF IInv, WindowSound
  <2>2. \A k \in Window' : At(k)'.addr = read_buf_addr(At(k)'.bid)
    BY <1>5, <1>7, <2>1
  <2>3. ASSUME NEW j \in Window', NEW k \in Window', At(j)'.bid = At(k)'.bid PROVE j = k
    <3>1. At(j + 1).bid = At(k + 1).bid /\ j + 1 \in Window /\ k + 1 \in Window
      BY <1>5, <1>7, <2>3
    <3>2. j + 1 = k + 1
      BY <3>1 DEF IInv, WindowSound
    <3>3. QED
      BY <1>5, <3>2
  <2>4. \A o \in out' : o.addr = read_buf_addr(o.bid)
    BY <1>4, <1>9, <2>1 DEF IInv, WindowSound
  <2>5. Size' <= ring_entries
    BY <1>2, <1>3
  <2>6. QED
    BY <2>2, <2>3, <2>4, <2>5 DEF WindowSound, read_buf_addr
<1>12. Apart'
  <2>1. \A k \in Window' : At(k)'.bid # n.bid
    BY <1>4, <1>5, <1>7, <1>9 DEF IInv, WindowSound
  <2>2. \A k \in Window' : \A o \in out : At(k)'.bid # o.bid
    BY <1>5, <1>7 DEF IInv, Apart
  <2>3. \A o \in out : o.bid # n.bid
    BY <1>4, <1>9 DEF IInv, Apart
  <2>4. \A o, p \in out' : o.bid = p.bid => o = p
    BY <1>9, <2>3 DEF IInv, Apart
  <2>5. step' # "idle" => /\ \A k \in Window' : At(k)'.bid # buf_idx'
                          /\ \A o \in out' : o.bid # buf_idx'
    BY <1>1, <1>4, <1>5, <1>7, <1>9 DEF IInv, Apart
  <2>6. QED
    BY <1>9, <2>1, <2>2, <2>4, <2>5 DEF Apart
<1>13. Written'
  BY <1>1, <1>2 DEF IInv, Written, SlotOf, read_buf_addr
<1>14. QED
  BY <1>1, <1>4, <1>5, <1>6, <1>7, <1>9, <1>10, <1>11, <1>12, <1>13 DEF IInv, n
-----------------------------------------------------------------------------
(* Runtime::new gives the kernel every buffer once. *)
LEMMA InitFacts ==
    ASSUME Init
    PROVE  IInv /\ {At(k).bid : k \in Window} = Buf
<1> USE DEF Init
<1>1. ring_entries \in Nat \ {0} /\ U16 \in Nat \ {0} /\ U16 >= 2 * ring_entries
  BY RingFacts
<1>2. ring_entries % U16 = ring_entries
  BY <1>1
<1>3. entry \in [Slot -> Entry]
  <2>1. \A i \in Slot : i \in Buf /\ read_buf_addr(i) \in Buf
    BY DEF Slot, Buf, read_buf_addr
  <2>2. ring_entries \in 0 .. U16 - 1 /\ 0 \in 0 .. U16 - 1
    BY <1>1
  <2>3. QED
    BY <1>2, <2>1, <2>2 DEF Entry
<1>4. TailWord = ring_entries /\ 0 \in Slot /\ 0 \in Buf
  BY <1>1, <1>2 DEF TailWord, Slot, Buf
<1>5. Size = ring_entries
  BY <1>1, <1>2, <1>4 DEF Size
<1>6. Window = Buf /\ Window = Slot
  BY <1>5 DEF Window, Buf, Slot
<1>7. ASSUME NEW k \in Slot PROVE At(k).bid = k /\ At(k).addr = read_buf_addr(k)
  <2>0. k \in 0 .. ring_entries - 1 /\ head = 0
    BY DEF Slot
  <2>1. head + k = k /\ k % ring_entries = k
    BY <1>1, <2>0
  <2>2. At(k) = entry[k]
    BY <2>1 DEF At
  <2>3. QED
    BY <2>2
<1>8. TypeOK
  BY <1>1, <1>3, <1>4 DEF TypeOK
<1>9. WindowSound
  BY <1>1, <1>5, <1>6, <1>7 DEF WindowSound, read_buf_addr
<1>10. Apart /\ Written
  BY DEF Apart, Written
<1>11. {At(k).bid : k \in Window} = Buf
  BY <1>6, <1>7
<1>12. QED
  BY <1>8, <1>9, <1>10, <1>11 DEF IInv

(* Every step keeps the invariant. *)
LEMMA NextInv == IInv /\ [Next]_vars => IInv'
<1> SUFFICES ASSUME IInv, [Next]_vars PROVE IInv'
  OBVIOUS
<1>1. CASE UNCHANGED vars
  <2>1. \A k : At(k)' = At(k)
    BY <1>1 DEF vars, At
  <2>2. Window' = Window /\ Size' = Size /\ TailWord' = TailWord
    BY <1>1 DEF vars, Window, Size, TailWord
  <2>3. QED
    BY <1>1, <2>1, <2>2
    DEF vars, IInv, TypeOK, WindowSound, Apart, Written, SlotOf, read_buf_addr
<1>2. QED
  BY <1>1, ReadTailStep, WriteAddrStep, WriteBidStep, WriteTailStep, SelectStep DEF Next

THEOREM Invariance == Spec => []IInv
<1>1. Init => IInv
  BY InitFacts
<1>2. QED
  BY <1>1, NextInv, PTL DEF Spec

(* Type correctness: the tail and the head stay u16s, however often they
   wrap, and every entry names a buffer of the pool. *)
THEOREM TypeCorrect == Spec => []TypeOK
<1>1. IInv => TypeOK
  BY DEF IInv
<1>2. QED
  BY <1>1, Invariance, PTL

(* The kernel never finds a half-written entry or one of an earlier lap
   between its head and the tail, wherever in release_buf_to_ring it looks,
   and never gets one buffer twice. *)
THEOREM WindowAlwaysSound == Spec => []WindowSound
<1>1. IInv => WindowSound
  BY DEF IInv
<1>2. QED
  BY <1>1, Invariance, PTL

-----------------------------------------------------------------------------
(***************************************************************************)
(* The ring implements BufBag.                                             *)
(***************************************************************************)
Available == {At(k).bid : k \in Window}
Held == {o.bid : o \in out} \cup Releasing

(* The kernel takes an available buffer. *)
LEMMA SelectTakes ==
    ASSUME IInv, Select
    PROVE  \E b \in Buf : /\ b \in Available /\ Available' = Available \ {b}
                          /\ Held' = Held \cup {b}
<1>1. PICK b : b = At(0).bid
  OBVIOUS
<1>2. /\ 0 \in Window /\ out' = out \cup {[bid |-> b, addr |-> At(0).addr]}
      /\ \A k \in Window' : At(k)' = At(k + 1) /\ k + 1 \in Window /\ k + 1 # 0
      /\ \A k \in Window : k # 0 => k - 1 \in Window' /\ (k - 1) + 1 = k
      /\ UNCHANGED <<step, buf_idx>>
  BY <1>1, SelectStep
<1>3. b \in Buf /\ b \in Available
  <2>1. At(0) \in Entry
    BY SlotType
  <2>2. QED
    BY <1>1, <1>2, <2>1 DEF Entry, Available
<1>4. \A k \in Window : At(k).bid = b <=> k = 0
  BY <1>1, <1>2 DEF IInv, WindowSound
<1>5. ASSUME NEW c \in Available' PROVE c \in Available /\ c # b
  <2>1. PICK k \in Window' : c = At(k)'.bid
    BY <1>5 DEF Available
  <2>2. c = At(k + 1).bid /\ k + 1 \in Window /\ k + 1 # 0
    BY <1>2, <2>1
  <2>3. QED
    BY <1>4, <2>2 DEF Available
<1>6. ASSUME NEW c \in Available, c # b PROVE c \in Available'
  <2>1. PICK k \in Window : c = At(k).bid
    BY <1>6 DEF Available
  <2>2. k - 1 \in Window' /\ At(k - 1)' = At(k)
    <3>1. k # 0
      BY <1>4, <1>6, <2>1
    <3>2. k - 1 \in Window' /\ (k - 1) + 1 = k
      BY <1>2, <3>1
    <3>3. QED
      BY <1>2, <3>2
  <2>3. QED
    BY <2>1, <2>2 DEF Available
<1>7. Available' = Available \ {b}
  BY <1>5, <1>6
<1>8. Held' = Held \cup {b}
  <2>1. Releasing' = Releasing
    BY <1>2 DEF Releasing
  <2>2. PICK n : n = [bid |-> b, addr |-> At(0).addr]
    OBVIOUS
  <2>3. n.bid = b /\ out' = out \cup {n}
    BY <1>2, <2>2
  <2>4. {o.bid : o \in out'} = {o.bid : o \in out} \cup {b}
    BY <2>3
  <2>5. QED
    BY <2>1, <2>4 DEF Held
<1>9. QED
  BY <1>3, <1>7, <1>8

(* The store of the tail makes the buffer available. *)
LEMMA WriteTailGives ==
    ASSUME IInv, WriteTail
    PROVE  \E b \in Buf : /\ b \in Held /\ Available' = Available \cup {b}
                          /\ Held' = Held \ {b}
<1>1. PICK b : b = buf_idx
  OBVIOUS
<1>2. PICK n : n = Size
  OBVIOUS
<1>3. /\ Window' = Window \cup {n}
      /\ \A k \in Nat : At(k)'.bid = At(k).bid
      /\ At(n).bid = b
      /\ step = "tail" /\ step' = "idle" /\ UNCHANGED <<out, buf_idx>>
  BY <1>1, <1>2, WriteTailStep
<1>4. n \in Nat /\ \A k \in Window : k \in Nat
  BY <1>2, Facts
<1>5. b \in Buf /\ Releasing = {b} /\ Releasing' = {}
  BY <1>1, <1>3 DEF IInv, TypeOK, Releasing
<1>6. \A o \in out : o.bid # b
  BY <1>1, <1>3 DEF IInv, Apart
<1>7. Available' = Available \cup {b}
  BY <1>3, <1>4 DEF Available
<1>8. Held' = Held \ {b} /\ b \in Held
  BY <1>3, <1>5, <1>6 DEF Held
<1>9. QED
  BY <1>5, <1>7, <1>8

(* The other stores are not seen. *)
LEMMA OthersHide ==
    ASSUME IInv, ReadTail \/ WriteAddr \/ WriteBid \/ UNCHANGED vars
    PROVE  Available' = Available /\ Held' = Held
<1>1. Window' = Window /\ \A k \in Window : At(k)' = At(k)
  <2>1. CASE UNCHANGED vars
    BY <2>1 DEF vars, Window, Size, TailWord, At
  <2>2. QED
    BY <2>1, ReadTailStep, WriteAddrStep, WriteBidStep
<1>2. Available' = Available
  BY <1>1 DEF Available
<1>3. Held' = Held
  <2>1. CASE ReadTail
    <3>1. PICK o \in out : buf_idx' = o.bid /\ out' = out \ {o}
      BY <2>1, ReadTailStep
    <3>2. Releasing = {} /\ Releasing' = {o.bid}
      BY <2>1, <3>1, ReadTailStep DEF Releasing
    <3>3. QED
      BY <3>1, <3>2 DEF Held
  <2>2. CASE WriteAddr \/ WriteBid \/ UNCHANGED vars
    <3>1. UNCHANGED <<out, buf_idx>> /\ (step' = "idle" <=> step = "idle")
      BY <2>2 DEF WriteAddr, WriteBid, vars
    <3>2. Releasing' = Releasing
      BY <3>1 DEF Releasing
    <3>3. QED
      BY <3>1, <3>2 DEF Held
  <2>3. QED
    BY <2>1, <2>2
<1>4. QED
  BY <1>2, <1>3

LEMMA StepImplements ==
    ASSUME IInv, [Next]_vars
    PROVE  [Bag!Next]_<<Available, Held>>
<1>1. CASE Select
  <2>1. PICK b \in Buf : /\ b \in Available /\ Available' = Available \ {b}
                         /\ Held' = Held \cup {b}
    BY <1>1, SelectTakes
  <2>2. Bag!Take(b)
    BY <2>1 DEF Bag!Take, Available, Held
  <2>3. QED
    BY <2>2 DEF Bag!Next
<1>2. CASE WriteTail
  <2>1. PICK b \in Buf : /\ b \in Held /\ Available' = Available \cup {b}
                         /\ Held' = Held \ {b}
    BY <1>2, WriteTailGives
  <2>2. Bag!Give(b)
    BY <2>1 DEF Bag!Give, Available, Held
  <2>3. QED
    BY <2>2 DEF Bag!Next
<1>3. CASE ReadTail \/ WriteAddr \/ WriteBid \/ UNCHANGED vars
  BY <1>3, OthersHide
<1>4. QED
  BY <1>1, <1>2, <1>3 DEF Next

(* release_buf_to_ring, store by store, implements the atomic release that
   Runtime assumes of the buf_ring: no buffer is lost and none is available
   to the kernel while the program holds it. *)
THEOREM RingImplementsBag == Spec => ImplementsBag
<1>1. Init => Bag!Init
  <2> SUFFICES ASSUME Init PROVE Bag!Init
    OBVIOUS
  <2>1. {o.bid : o \in out} \cup Releasing = {}
    BY DEF Init, Releasing
  <2>2. QED
    BY <2>1, InitFacts DEF Bag!Init
<1>2. IInv /\ [Next]_vars =>
        [Bag!Next]_<<{At(k).bid : k \in Window}, {o.bid : o \in out} \cup Releasing>>
  BY StepImplements DEF Available, Held
<1>3. QED
  BY <1>1, <1>2, Invariance, PTL DEF Spec, ImplementsBag, Bag!Spec
=============================================================================
