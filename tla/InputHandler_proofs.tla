------------------------- MODULE InputHandler_proofs -------------------------
(***************************************************************************)
(* Proofs about the ring buffer and the read method of an input handler:   *)
(* the unread bytes stay where they are, read() never reaches one of them, *)
(* and what is reported is exactly the lines of what was read that fit.    *)
(*                                                                         *)
(* The inductive invariant has the geometry of the ring (Placed), what is  *)
(* in it (RingExact), where the lines reported end and the next begins     *)
(* (Bounded) and how many there are (Counted).  The geometry has one odd   *)
(* case, Skewed: purgeline leaves border at end when it removes a whole    *)
(* ring, and input_buffer_find overlooks a ring that is then filled.       *)
(***************************************************************************)
EXTENDS InputHandler, FiniteSetTheorems, WellFoundedInduction, TLAPS

(* Bytes read that are no longer in the ring. *)
Gone == pos - Unread

(* The offset of the i-th unread byte. *)
Cell(i) == IF border + i < Size THEN border + i ELSE border + i - Size

(* A ring that is full while border is end: input_buffer_find sees nothing *)
(* of it.                                                                  *)
Skewed == border = Size /\ current = 0 /\ available = 0

(* Where border, current and the unread bytes lie, what may be written,    *)
(* and where a purge can find the ring. border is end only after one       *)
(* read() filled the ring. Only datagrams are cut.                         *)
Placed ==
  /\ Skewed \/ border + Unread \in {current, current + Size}
  /\ write = IF current < border THEN border - current ELSE Min2(Size - current, available)
  /\ pc = "idle" => available > 0
  /\ pc = "purge" => border = 0 /\ state = "is_err" /\ Unread <= widest
  /\ pc = "idle" /\ state = "is_err" => border = 0 /\ available = Size
  /\ pc = "report" => state = "is_ready"
  /\ border = Size => widest >= Size
  /\ cuts # {} => datagrams

(* The lines reported end before the first unread byte, and unless an      *)
(* oversized line is being dropped a line begins there.                    *)
Bounded ==
  /\ \A n \in 1 .. Len(reported) : Len(reported[n]) > 0 /\ reported[n][Len(reported[n])] <= Gone
  /\ state = "is_ready" /\ pc \in {"idle", "report"} => Gone = 0 \/ Gone \in newlines

(* b is the end of a line that fits into the ring. *)
Fits(b) == \E a \in b - Size + 1 .. b : IsLine(a, b)
Fitting == {b \in newlines : b <= Gone /\ Fits(b)}

(* Unless one read() filled the ring: as many lines are reported as fit;   *)
(* no line is left when a read returns; and of a line that is being        *)
(* dropped at least a ring has gone.                                       *)
Counted ==
  widest < Size =>
    /\ Len(reported) = Cardinality(Fitting)
    /\ pc = "idle" => \A b \in Gone + 1 .. pos : b \notin newlines
    /\ state = "is_err" /\ pc \in {"idle", "purge"} =>
         Gone >= Size /\ \A b \in Gone - Size + 1 .. Gone : b \notin newlines

(* The inductive invariant. *)
IInv == TypeOK /\ Placed /\ RingExact /\ LinesGenuine /\ Bounded /\ Counted
-----------------------------------------------------------------------------
(* A set of naturals has a least element: the CHOOSE of Find has something *)
(* to choose.                                                              *)
LEMMA Least ==
  ASSUME NEW S, S \subseteq Nat, S # {}
  PROVE  \E m \in S : \A n \in S : m <= n
<1> DEFINE R == OpToRel(<, Nat)
<1>1. IsWellFoundedOn(R, Nat)
  BY NatLessThanWellFounded
<1>2. PICK m \in S : \A n \in S : <<n, m>> \notin R
  <2> HIDE DEF R
  <2> QED
    BY <1>1, WFMin
<1>3. \A n \in S : ~(n < m)
  BY <1>2 DEF OpToRel
<1> QED
  BY <1>3

(* input_buffer_find looks through all that is unread, but for the odd     *)
(* case.                                                                   *)
LEMMA SearchedIs ==
  ASSUME TypeOK, Placed
  PROVE  /\ Searched \in 0 .. Unread
         /\ Searched = Unread \/ Skewed
<1> USE InputAssumption DEF TypeOK, Placed, Skewed, Unread
<1>1. CASE current > border
  BY <1>1 DEF Searched
<1>2. CASE ~(current > border) /\ available = Size
  BY <1>2 DEF Searched
<1>3. CASE ~(current > border) /\ available # Size
  BY <1>3 DEF Searched
<1> QED
  BY <1>1, <1>2, <1>3

(* What input_buffer_find returns. *)
LEMMA FindIs ==
  ASSUME TypeOK, Placed
  PROVE  \/ Find = -1 /\ \A i \in 0 .. Searched - 1 : Byte(i) \notin newlines
         \/ /\ Find \in 1 .. Searched
            /\ Byte(Find - 1) \in newlines
            /\ \A i \in 0 .. Find - 2 : Byte(i) \notin newlines
<1>1. Searched \in Nat
  BY SearchedIs DEF Unread, TypeOK
<1>2. CASE Hits = {}
  BY <1>2 DEF Find, Hits
<1>3. CASE Hits # {}
  <2>1. Hits \subseteq Nat
    BY <1>1 DEF Hits
  <2> DEFINE m == CHOOSE i \in Hits : \A j \in Hits : i <= j
  <2>2. m \in Hits /\ \A j \in Hits : m <= j
    BY <1>3, <2>1, Least
  <2>3. Find = 1 + m
    BY <1>3 DEF Find
  <2> HIDE DEF m
  <2>4. m \in 0 .. Searched - 1 /\ Byte(m) \in newlines
    BY <2>2 DEF Hits
  <2>5. \A i \in 0 .. Find - 2 : Byte(i) \notin newlines
    <3> SUFFICES ASSUME NEW i \in 0 .. Find - 2, Byte(i) \in newlines
                 PROVE  FALSE
      OBVIOUS
    <3>1. i \in Hits /\ i < m
      BY <1>1, <2>3, <2>4 DEF Hits
    <3> QED
      BY <2>2, <2>4, <3>1
  <2>6. Find - 1 = m /\ Find \in 1 .. Searched
    BY <1>1, <2>3, <2>4
  <2> QED
    BY <2>4, <2>5, <2>6
<1> QED
  BY <1>2, <1>3

(* The line found, as bytes of the input. *)
LEMMA Line ==
  ASSUME TypeOK, Placed, RingExact, Find # -1
  PROVE  /\ Find \in 1 .. Unread /\ Gone \in Nat /\ Gone + Find <= pos
         /\ \A i \in 0 .. Find - 1 : Byte(i) = Gone + 1 + i
         /\ Gone + Find \in newlines
         /\ \A b \in Gone + 1 .. Gone + Find - 1 : b \notin newlines
         /\ ~Skewed
<1> USE InputAssumption
<1>1. Unread \in 0 .. Size /\ pos \in Nat /\ Unread <= pos
  BY DEF TypeOK, Unread, RingExact
<1>2. /\ Find \in 1 .. Searched /\ Byte(Find - 1) \in newlines
      /\ \A i \in 0 .. Find - 2 : Byte(i) \notin newlines
  BY FindIs
<1>3. Find \in 1 .. Unread
  BY <1>1, <1>2, SearchedIs
<1>4. \A i \in 0 .. Find - 1 : Byte(i) = Gone + 1 + i
  BY <1>1, <1>3 DEF RingExact, Gone
<1>5. Gone \in Nat /\ Gone + Find <= pos
  BY <1>1, <1>3 DEF Gone
<1>6. Gone + Find \in newlines
  BY <1>2, <1>3, <1>4, <1>5
<1>7. ASSUME NEW b \in Gone + 1 .. Gone + Find - 1
      PROVE  b \notin newlines
  <2>1. b - Gone - 1 \in 0 .. Find - 2 /\ b - Gone - 1 \in 0 .. Find - 1
    BY <1>3, <1>5
  <2>2. Byte(b - Gone - 1) = b
    BY <1>4, <1>5, <2>1
  <2> QED
    BY <1>2, <2>1, <2>2
<1>8. ~Skewed
  BY <1>2 DEF Skewed, Searched, TypeOK
<1> QED
  BY <1>3, <1>4, <1>5, <1>6, <1>7, <1>8

(* When there is none. *)
LEMMA NoLine ==
  ASSUME TypeOK, Placed, RingExact, Find = -1
  PROVE  \A b \in Gone + 1 .. pos : b \notin newlines \/ Skewed
<1> SUFFICES ASSUME NEW b \in Gone + 1 .. pos, ~Skewed
             PROVE  b \notin newlines
  OBVIOUS
<1>1. Unread \in 0 .. Size /\ pos \in Nat /\ Unread <= pos
  BY InputAssumption DEF TypeOK, Unread, RingExact
<1>2. b - Gone - 1 \in 0 .. Unread - 1
  BY <1>1 DEF Gone
<1>3. Byte(b - Gone - 1) = b
  BY <1>1, <1>2 DEF RingExact, Gone
<1>4. Searched = Unread /\ \A i \in 0 .. Searched - 1 : Byte(i) \notin newlines
  BY <1>1, FindIs, SearchedIs
<1> QED
  BY <1>2, <1>3, <1>4

(* What read() may store is free. *)
LEMMA Room ==
  ASSUME TypeOK, Placed, pc = "idle"
  PROVE  /\ write > 0 /\ available > 0 /\ write <= available
         /\ current + write <= Size
         /\ ~Skewed
         /\ \A i \in 0 .. Unread - 1 : Cell(i) \in 0 .. Size - 1 /\ Cell(i) \notin current .. current + write - 1
         /\ \A j \in 0 .. write - 1 : Cell(Unread + j) = current + j
<1> USE InputAssumption DEF TypeOK, Placed, Skewed, Unread, Min2
<1>1. CASE current < border
  <2>1. write = border - current /\ border + Unread = current + Size
    BY <1>1
  <2> QED
    BY <1>1, <2>1 DEF Cell
<1>2. CASE ~(current < border)
  <2>1. border + Unread = current
    BY <1>2
  <2>2. write \in 1 .. available /\ current + write <= Size
    BY <1>2
  <2> QED
    BY <1>2, <2>1, <2>2 DEF Cell
<1> QED
  BY <1>1, <1>2

(* A read of k bytes, of all that were there or as many as may be written. *)
Stores(k, S) ==
  /\ pc = "idle" /\ state # "is_eof"
  /\ k <= write
  /\ Store(k, S)
  /\ cuts' = cuts \/ (cuts' = cuts \cup {pos + k} /\ datagrams)

(* Every read is one.                                                      *)
LEMMA ReadStores ==
  ASSUME TypeOK, NEW n \in 1 .. MaxRead, NEW S \in SUBSET (pos + 1 .. pos + n), Read(n, S)
  PROVE  \E k \in 1 .. MaxRead : \E T \in SUBSET (pos + 1 .. pos + k) : Stores(k, T)
<1> DEFINE k == Min2(write, n)
<1>1. k \in 1 .. MaxRead /\ k <= write
  BY InputAssumption DEF Read, Min2, TypeOK
<1>2. S \in SUBSET (pos + 1 .. pos + k) /\ pos' = pos + k
  BY DEF Read, Store
<1>3. Stores(k, S)
  BY <1>1, <1>2 DEF Read, Stores
<1> QED
  BY <1>1, <1>2, <1>3

(* read() and input_buffer_update: the new bytes follow the unread ones. *)
LEMMA StepRead ==
  ASSUME IInv, NEW k \in 1 .. MaxRead, NEW S \in SUBSET (pos + 1 .. pos + k), Stores(k, S)
  PROVE  TypeOK' /\ Placed' /\ RingExact' /\ Gone' = Gone
<1> USE InputAssumption DEF IInv
<1>1. /\ write > 0 /\ available > 0 /\ write <= available /\ k <= write
      /\ current + write <= Size /\ ~Skewed /\ pc = "idle" /\ pos + k <= MaxBytes
  BY Room DEF Stores, Store, TypeOK
<1>2. /\ UNCHANGED <<border, state, datagrams, reported>>
      /\ current' = IF current + k = Size THEN 0 ELSE current + k
      /\ available' = available - k
      /\ write' = IF current' < border THEN border - current'
                                       ELSE Min2(Size - current', available')
      /\ pos' = pos + k /\ newlines' = newlines \cup S
      /\ widest' = IF k > widest THEN k ELSE widest
      /\ pc' = IF state = "is_err" THEN "purge" ELSE "report"
      /\ state # "is_eof"
      /\ cuts' = cuts \/ (cuts' = cuts \cup {pos + k} /\ datagrams)
  BY DEF Stores, Store
<1>3. mem' = [i \in 0 .. Size - 1 |-> IF i \in current .. current + k - 1
                                        THEN pos + 1 + i - current ELSE mem[i]]
  BY DEF Stores, Store
<1>4. mem' \in [0 .. Size - 1 -> 0 .. MaxBytes]
  BY <1>1, <1>3 DEF TypeOK
<1>5. /\ border' \in 0 .. Size /\ current' \in 0 .. Size - 1 /\ available' \in 0 .. Size
      /\ pos' \in 0 .. MaxBytes /\ widest' \in 0 .. MaxRead
  BY <1>1, <1>2 DEF TypeOK
<1>6. write' \in 0 .. Size
  BY <1>2, <1>5 DEF Min2
<1>7. newlines' \subseteq 1 .. pos' /\ cuts' \subseteq 1 .. pos'
  <2>1. pos \in Nat /\ pos' = pos + k /\ newlines \subseteq 1 .. pos /\ cuts \subseteq 1 .. pos
    BY <1>2 DEF TypeOK
  <2>2. 1 .. pos \subseteq 1 .. pos' /\ pos + k \in 1 .. pos'
    BY <2>1
  <2>3. newlines' \subseteq 1 .. pos'
    BY <1>2, <2>1
  <2> QED
    BY <1>2, <2>1, <2>2, <2>3
<1>8. TypeOK'
  BY <1>2, <1>4, <1>5, <1>6, <1>7 DEF TypeOK
<1>9. Unread' = Unread + k /\ Gone' = Gone
  BY <1>1, <1>2 DEF Unread, Gone, TypeOK
<1>10. Placed'
  <2>1. Skewed' \/ border' + Unread' \in {current', current' + Size}
    <3>1. /\ border + Unread \in {current, current + Size} /\ Unread = Size - available
          /\ border \in 0 .. Size /\ current \in 0 .. Size - 1 /\ available \in 1 .. Size
      BY <1>1 DEF Placed, Unread, TypeOK
    <3>2. current' = current + k \/ (current + k = Size /\ current' = 0)
      BY <1>2
    <3>3. CASE current' = current + k
      BY <1>2, <1>9, <3>1, <3>3
    <3>4. CASE current + k = Size /\ current' = 0 /\ border + Unread = current
      BY <1>2, <1>9, <3>1, <3>4
    <3>5. CASE current + k = Size /\ current' = 0 /\ border + Unread = current + Size
      <4>1. border + Unread' = Size + Size
        BY <1>9, <3>1, <3>5
      <4>2. k <= available
        BY <1>1, <3>1 DEF TypeOK
      <4>3. border + (Size - (available - k)) = Size + Size
        BY <1>9, <3>1, <4>1
      <4>4. border = Size /\ available - k = 0
        BY <3>1, <4>2, <4>3
      <4> QED
        BY <1>2, <3>5, <4>4 DEF Skewed
    <3> QED
      BY <3>1, <3>2, <3>3, <3>4, <3>5
  <2>2. border' = Size => widest' >= Size
    BY <1>2 DEF Placed, TypeOK
  <2>3. pc' = "purge" => border' = 0 /\ state' = "is_err" /\ Unread' <= widest'
    BY <1>1, <1>2, <1>9 DEF Placed, TypeOK, Unread
  <2> QED
    BY <1>1, <1>2, <2>1, <2>2, <2>3 DEF Placed, TypeOK
<1>11. RingExact'
  <2>1. Unread' <= pos'
    BY <1>2, <1>9 DEF RingExact, TypeOK, Unread
  <2>2. ASSUME NEW i \in 0 .. Unread' - 1
        PROVE  Byte(i)' = pos' - Unread' + 1 + i
    <3>1. Unread \in Nat /\ pos \in Nat /\ Cell(i)' = Cell(i) /\ Byte(i)' = mem'[Cell(i)] /\ Byte(i) = mem[Cell(i)]
      BY <1>2 DEF Cell, Byte, Unread, TypeOK
    <3>2. CASE i < Unread
      <4>1. i \in 0 .. Unread - 1
        BY <3>1, <3>2
      <4>2. Cell(i) \in 0 .. Size - 1 /\ Cell(i) \notin current .. current + k - 1
        BY <1>1, <4>1, Room DEF TypeOK
      <4>3. Byte(i) = pos - Unread + 1 + i
        BY <4>1 DEF RingExact
      <4>4. mem'[Cell(i)] = mem[Cell(i)]
        BY <1>3, <4>2
      <4>5. pos' - Unread' = pos - Unread
        BY <1>2, <1>9, <3>1
      <4> QED
        BY <3>1, <4>3, <4>4, <4>5
    <3>3. CASE i >= Unread
      <4>1. i - Unread \in 0 .. k - 1 /\ i = Unread + (i - Unread)
        BY <1>9, <3>1, <3>3
      <4>2. i - Unread \in 0 .. write - 1
        BY <1>1, <4>1 DEF TypeOK
      <4>3. Cell(i) = current + (i - Unread)
        BY <1>1, <4>1, <4>2, Room
      <4>4. Cell(i) \in 0 .. Size - 1 /\ Cell(i) \in current .. current + k - 1
        <5>1. current \in Nat /\ Size \in Nat /\ current + k <= Size
          BY <1>1 DEF TypeOK
        <5> QED
          BY <4>1, <4>3, <5>1
      <4>5. mem'[Cell(i)] = pos + 1 + (i - Unread)
        BY <1>3, <3>1, <4>1, <4>3, <4>4 DEF TypeOK
      <4> QED
        BY <1>2, <1>9, <3>1, <4>5
    <3> QED
      BY <3>1, <3>2, <3>3
  <2> QED
    BY <2>1, <2>2 DEF RingExact
<1> QED
  BY <1>8, <1>9, <1>10, <1>11

(* A line taken from the front: border moves past it. *)
LEMMA StepTaken ==
  ASSUME TypeOK, Placed, RingExact, Find # -1,
         border' = IF border + Find >= Size /\ ~(pc = "purge" /\ border + Find = Size)
                     THEN border + Find - Size ELSE border + Find,
         write' = Writable(border'), available' = available + Find,
         UNCHANGED <<mem, current, seen>>
  PROVE  /\ available' \in 1 .. Size /\ border' \in 0 .. Size /\ write' \in 0 .. Size
         /\ ~Skewed' /\ border' + Unread' \in {current', current' + Size}
         /\ write' = IF current' < border' THEN border' - current'
                                           ELSE Min2(Size - current', available')
         /\ RingExact' /\ Gone' = Gone + Find
<1> USE InputAssumption DEF seen
<1>1. Find \in 1 .. Unread /\ ~Skewed
  BY Line
<1>2. /\ Unread \in 1 .. Size /\ border \in 0 .. Size /\ current \in 0 .. Size - 1
      /\ available \in 0 .. Size /\ pos \in Nat /\ Unread <= pos
      /\ border + Unread \in {current, current + Size}
  BY <1>1 DEF Unread, TypeOK, Placed, RingExact
<1>3. Unread' = Unread - Find /\ available' \in 1 .. Size /\ border' \in 0 .. Size
  BY <1>1, <1>2 DEF Unread
<1>4. border' + Unread' \in {current', current' + Size} /\ ~Skewed'
  BY <1>1, <1>2, <1>3 DEF Skewed, Unread
<1>5. /\ write' \in 0 .. Size
      /\ write' = IF current' < border' THEN border' - current'
                                        ELSE Min2(Size - current', available')
  BY <1>1, <1>2, <1>3, <1>4 DEF Writable, Min2, Unread
<1>6. Gone' = Gone + Find
  BY <1>1, <1>2, <1>3 DEF Gone
<1>7. RingExact'
  <2>1. Unread' <= pos'
    BY <1>1, <1>2, <1>3
  <2>2. ASSUME NEW i \in 0 .. Unread' - 1
        PROVE  Byte(i)' = pos' - Unread' + 1 + i
    <3>1. i + Find \in 0 .. Unread - 1
      BY <1>1, <1>2, <1>3
    <3>2. Byte(i + Find) = pos - Unread + 1 + (i + Find)
      BY <3>1 DEF RingExact
    <3>3. Byte(i)' = Byte(i + Find)
      BY <1>1, <1>2, <1>3, <1>4, <3>1 DEF Byte
    <3> QED
      BY <1>1, <1>2, <1>3, <3>1, <3>2, <3>3
  <2> QED
    BY <2>1, <2>2 DEF RingExact
<1> QED
  BY <1>3, <1>4, <1>5, <1>6, <1>7

(* The ring emptied. *)
LEMMA StepCleared ==
  ASSUME TypeOK, border' = 0, current' = 0, write' = Size, available' = Size,
         UNCHANGED <<mem, seen>>
  PROVE  /\ RingExact' /\ Gone' = pos /\ ~Skewed'
         /\ border' + Unread' \in {current', current' + Size}
         /\ write' = IF current' < border' THEN border' - current'
                                           ELSE Min2(Size - current', available')
<1> USE InputAssumption DEF TypeOK, Unread, Gone, Skewed, seen
<1>1. Unread' = 0 /\ Gone' = pos /\ pos \in Nat
  OBVIOUS
<1>2. RingExact'
  <2>1. 0 .. 0 - 1 = {}
    OBVIOUS
  <2> HIDE DEF Unread
  <2> QED
    BY <1>1, <2>1 DEF RingExact
<1> QED
  BY <1>1, <1>2 DEF Min2

(* Every step keeps the geometry and the contents of the ring. *)
LEMMA StepPlaced ==
  ASSUME IInv, Next
  PROVE  TypeOK' /\ Placed' /\ RingExact'
<1> USE InputAssumption DEF IInv, ring, seen
<1>1. CASE \E n \in 1 .. MaxRead : \E S \in SUBSET (pos + 1 .. pos + n) : Read(n, S)
  BY <1>1, ReadStores, StepRead
<1>2. CASE ReadEof \/ Die
  <2>1. UNCHANGED <<mem, border, current, available, write, datagrams, seen, reported>>
    BY <1>2 DEF ReadEof, Die
  <2>2. TypeOK'
    BY <1>2, <2>1 DEF TypeOK, ReadEof, Die
  <2>3. RingExact'
    BY <2>1 DEF RingExact, Unread, Byte
  <2>4. Unread' = Unread /\ Skewed' = Skewed
    BY <2>1 DEF Unread, Skewed
  <2>5. Placed'
    BY <1>2, <2>1, <2>4 DEF Placed, ReadEof, Die
  <2> QED
    BY <2>2, <2>3, <2>5
<1>3. CASE PurgeAll
  <2>1. /\ border' = 0 /\ current' = 0 /\ write' = Size /\ available' = Size
        /\ UNCHANGED <<mem, datagrams, seen, reported>> /\ state' = "is_err" /\ pc' = "idle"
    BY <1>3 DEF PurgeAll
  <2>2. TypeOK'
    BY <2>1 DEF TypeOK
  <2> QED
    BY <2>1, <2>2, StepCleared DEF Placed
<1>4. CASE PurgeLine
  <2>1. pc = "purge" /\ Find # -1 /\ border = 0
    BY <1>4 DEF PurgeLine, Placed
  <2>2. Find \in 1 .. Size
    BY <2>1, Line DEF Unread, TypeOK
  <2>3. /\ border' = border + Find
        /\ write' = Writable(border') /\ available' = available + Find
        /\ UNCHANGED <<mem, current, datagrams, seen, reported>> /\ state' = "is_ready" /\ pc' = "report"
    BY <1>4, <2>1, <2>2 DEF PurgeLine
  <2>4. /\ available' \in 1 .. Size /\ border' \in 0 .. Size /\ write' \in 0 .. Size
        /\ ~Skewed' /\ border' + Unread' \in {current', current' + Size}
        /\ write' = IF current' < border' THEN border' - current'
                                          ELSE Min2(Size - current', available')
        /\ RingExact'
    <3>1. border' = IF border + Find >= Size /\ ~(pc = "purge" /\ border + Find = Size)
                      THEN border + Find - Size ELSE border + Find
      BY <2>1, <2>2, <2>3
    <3> QED
      BY <2>1, <2>3, <3>1, StepTaken
  <2>5. TypeOK'
    <3>1. available' \in 0 .. Size
      BY <2>4
    <3> QED
      BY <2>3, <2>4, <3>1 DEF TypeOK
  <2>6. border' = Size => widest' >= Size
    <3>1. Find \in 1 .. Unread /\ Unread <= widest /\ Unread \in Nat /\ widest \in Nat
      BY <2>1, Line DEF Placed, TypeOK, Unread
    <3> QED
      BY <2>1, <2>3, <3>1
  <2> QED
    BY <2>3, <2>4, <2>5, <2>6 DEF Placed
<1>5. CASE Report
  <2>1. pc = "report" /\ Find # -1 /\ state = "is_ready"
    BY <1>5 DEF Report, Placed
  <2>2. /\ border' = IF border + Find >= Size THEN border + Find - Size ELSE border + Find
        /\ write' = Writable(border') /\ available' = available + Find
        /\ UNCHANGED <<mem, current, state, pc, datagrams, seen>>
        /\ reported' = Append(reported, [i \in 1 .. Find |-> Byte(i - 1)])
    BY <1>5 DEF Report
  <2>3. /\ available' \in 1 .. Size /\ border' \in 0 .. Size /\ write' \in 0 .. Size
        /\ ~Skewed' /\ border' + Unread' \in {current', current' + Size}
        /\ write' = IF current' < border' THEN border' - current'
                                          ELSE Min2(Size - current', available')
        /\ RingExact'
    <3>1. border' = IF border + Find >= Size /\ ~(pc = "purge" /\ border + Find = Size)
                      THEN border + Find - Size ELSE border + Find
      BY <2>1, <2>2
    <3> QED
      BY <2>1, <2>2, <3>1, StepTaken
  <2>4. [i \in 1 .. Find |-> Byte(i - 1)] \in Seq(1 .. MaxBytes)
    <3>1. Find \in Nat /\ \A i \in 1 .. Find : Byte(i - 1) \in 1 .. MaxBytes
      <4>1. /\ Find \in 1 .. Unread /\ Gone \in Nat /\ Gone + Find <= pos /\ pos <= MaxBytes
            /\ \A i \in 0 .. Find - 1 : Byte(i) = Gone + 1 + i
        BY <2>1, Line DEF TypeOK
      <4>2. Unread \in Nat /\ pos \in Nat
        BY DEF TypeOK, Unread
      <4> QED
        BY <4>1, <4>2
    <3> QED
      BY <3>1
  <2>5. reported' \in Seq(Seq(1 .. MaxBytes))
    BY <2>2, <2>4 DEF TypeOK
  <2>6. TypeOK'
    <3>1. /\ mem' \in [0 .. Size - 1 -> 0 .. MaxBytes] /\ current' \in 0 .. Size - 1
          /\ state' \in {"is_ready", "is_err", "is_eof"}
          /\ pc' \in {"idle", "purge", "report", "dead"}
          /\ pos' \in 0 .. MaxBytes /\ newlines' \subseteq 1 .. pos' /\ widest' \in 0 .. MaxRead
          /\ datagrams' \in BOOLEAN /\ cuts' \subseteq 1 .. pos'
      BY <2>2 DEF TypeOK
    <3>2. available' \in 0 .. Size
      BY <2>3
    <3> QED
      BY <2>3, <2>5, <3>1, <3>2 DEF TypeOK
  <2>7. border' = Size => border = Size
    <3>1. Find \in 1 .. Unread /\ Unread \in 0 .. Size /\ border \in 0 .. Size
      BY <2>1, Line DEF TypeOK, Unread
    <3> QED
      BY <2>2, <3>1
  <2> QED
    BY <2>1, <2>2, <2>3, <2>6, <2>7 DEF Placed
<1>6. CASE ReadDone
  <2>1. CASE available # 0
    <3>1. UNCHANGED <<mem, border, current, available, write, state, datagrams, seen, reported>>
          /\ pc = "report" /\ pc' = "idle"
      BY <1>6, <2>1 DEF ReadDone
    <3>2. TypeOK'
      BY <3>1 DEF TypeOK
    <3>3. RingExact'
      BY <3>1 DEF RingExact, Unread, Byte
    <3>4. Unread' = Unread /\ Skewed' = Skewed
      BY <3>1 DEF Unread, Skewed
    <3>5. Placed'
      BY <2>1, <3>1, <3>4 DEF Placed, TypeOK
    <3> QED
      BY <3>2, <3>3, <3>5
  <2>2. CASE available = 0
    <3>1. /\ border' = 0 /\ current' = 0 /\ write' = Size /\ available' = Size
          /\ UNCHANGED <<mem, datagrams, seen, reported>> /\ state' = "is_err" /\ pc' = "idle"
      BY <1>6, <2>2 DEF ReadDone
    <3>2. TypeOK'
      BY <3>1 DEF TypeOK
    <3> QED
      BY <3>1, <3>2, StepCleared DEF Placed
  <2> QED
    BY <2>1, <2>2
<1> QED
  BY <1>1, <1>2, <1>3, <1>4, <1>5, <1>6 DEF Next

(* Bytes gone and bytes unread are the bytes that were read. *)
LEMMA Counts ==
  ASSUME TypeOK, RingExact
  PROVE  /\ Unread \in 0 .. Size /\ pos \in Nat /\ Gone \in 0 .. pos /\ pos = Gone + Unread
         /\ \A b \in newlines : b \in 1 .. pos
BY InputAssumption DEF TypeOK, RingExact, Unread, Gone

(* Bytes read later change nothing of a line that is there. *)
LEMMA SameLine ==
  ASSUME TypeOK, newlines \subseteq newlines',
         \A b \in newlines' : b \in newlines \/ b > pos,
         NEW a \in Int, NEW b \in Int, a <= b, b <= pos
  PROVE  IsLine(a, b)' <=> IsLine(a, b)
<1>1. pos \in Int
  BY DEF TypeOK
<1>2. \A c \in Int : c <= pos => (c \in newlines' <=> c \in newlines)
  BY <1>1
<1>4. \A c \in a .. b - 1 : c \in Int /\ c <= pos
  BY <1>1
<1>5. IsLine(a, b) => IsLine(a, b)'
  BY <1>2, <1>4 DEF IsLine
<1>6. IsLine(a, b)' => IsLine(a, b)
  <2> SUFFICES ASSUME IsLine(a, b)'
               PROVE  IsLine(a, b)
    OBVIOUS
  <2>1. b \in newlines /\ \A c \in a .. b - 1 : c \notin newlines
    BY <1>2, <1>4 DEF IsLine
  <2>2. a = 1 \/ a - 1 \in newlines'
    BY DEF IsLine
  <2>3. a - 1 <= pos
    BY <1>1
  <2> QED
    BY <1>2, <2>1, <2>2, <2>3 DEF IsLine
<1> QED
  BY <1>5, <1>6

(* The bytes of the lines that were reported. *)
LEMMA LineShapes ==
  ASSUME TypeOK, Bounded
  PROVE  \A n \in 1 .. Len(reported) :
           LET line == reported[n] IN
             /\ Len(line) \in Nat \ {0}
             /\ line[1] \in Int /\ line[Len(line)] \in Int /\ line[Len(line)] <= Gone
<1> SUFFICES ASSUME NEW n \in 1 .. Len(reported)
             PROVE  /\ Len(reported[n]) \in Nat \ {0}
                    /\ reported[n][1] \in Int /\ reported[n][Len(reported[n])] \in Int
                    /\ reported[n][Len(reported[n])] <= Gone
  OBVIOUS
<1>1. reported[n] \in Seq(1 .. MaxBytes)
  BY DEF TypeOK
<1>2. Len(reported[n]) > 0 /\ reported[n][Len(reported[n])] <= Gone
  BY DEF Bounded
<1>3. Len(reported[n]) \in Nat \ {0}
  BY <1>1, <1>2
<1>4. 1 \in 1 .. Len(reported[n]) /\ Len(reported[n]) \in 1 .. Len(reported[n])
  BY <1>3
<1>5. ASSUME NEW s \in Seq(1 .. MaxBytes), NEW i \in 1 .. Len(s)
      PROVE  s[i] \in Int
  <2> DEFINE T == 1 .. MaxBytes
  <2>1. T \subseteq Int
    BY InputAssumption
  <2>2. s \in Seq(T)
    OBVIOUS
  <2> HIDE DEF T
  <2>3. s[i] \in T
    BY <2>2
  <2> QED
    BY <2>1, <2>3
<1>6. reported[n][1] \in Int /\ reported[n][Len(reported[n])] \in Int
  BY <1>1, <1>4, <1>5
<1> QED
  BY <1>2, <1>3, <1>6

(* A step that reports nothing and drops nothing but what is in the ring. *)
LEMMA LinesKept ==
  ASSUME TypeOK, RingExact, LinesGenuine, Bounded, reported' = reported,
         Gone' \in Nat, Gone <= Gone',
         newlines \subseteq newlines', \A b \in newlines' : b \in newlines \/ b > pos,
         cuts' # {} => datagrams'
  PROVE  /\ LinesGenuine'
         /\ \A n \in 1 .. Len(reported') :
              Len(reported'[n]) > 0 /\ reported'[n][Len(reported'[n])] <= Gone'
<1>1. Gone \in Nat /\ pos \in Nat /\ Gone <= pos
  BY Counts
<1>2. ASSUME NEW n \in 1 .. Len(reported)
      PROVE  /\ \A i \in 1 .. Len(reported[n]) : reported[n][i] = reported[n][1] + i - 1
             /\ IsLine(reported[n][1], reported[n][Len(reported[n])])'
             /\ n < Len(reported) => reported[n][Len(reported[n])] < reported[n + 1][1]
             /\ Len(reported[n]) > 0 /\ reported[n][Len(reported[n])] <= Gone'
  <2> DEFINE a == reported[n][1]
             b == reported[n][Len(reported[n])]
  <2>1. Len(reported[n]) \in Nat \ {0} /\ a \in Int /\ b \in Int /\ b <= Gone
    BY LineShapes
  <2>2. /\ \A i \in 1 .. Len(reported[n]) : reported[n][i] = a + i - 1
        /\ IsLine(a, b)
        /\ n < Len(reported) => b < reported[n + 1][1]
    BY DEF LinesGenuine
  <2>3. a <= b
    BY <2>1, <2>2
  <2> HIDE DEF a, b
  <2>4. IsLine(a, b)'
    <3>1. b <= pos
      BY <1>1, <2>1
    <3>2. ASSUME NEW x \in Int, NEW y \in Int, x <= y, y <= pos, IsLine(x, y)
          PROVE  IsLine(x, y)'
      BY <3>2, SameLine
    <3>3. \A x, y \in Int : x <= y /\ y <= pos /\ IsLine(x, y) => IsLine(x, y)'
      BY <3>2
    <3>4. IsLine(a, b) => (b \in newlines' /\ (a = 1 \/ a - 1 \in newlines')
                            /\ \A c \in a .. b - 1 : c \notin newlines')
      BY <2>1, <2>3, <3>1, <3>3 DEF IsLine
    <3> QED
      BY <2>2, <3>4 DEF IsLine, a, b
  <2> QED
    BY <1>1, <2>1, <2>2, <2>4 DEF a, b
<1>3. \A a, b : IsCut(a, b)' => datagrams'
  BY DEF IsCut
<1> QED
  BY <1>2, <1>3 DEF LinesGenuine

(* A line that is reported is a line of the input, after the others. *)
LEMMA LinesGrow ==
  ASSUME TypeOK, Placed, RingExact, LinesGenuine, Bounded, pc = "report", Find # -1,
         reported' = Append(reported, [i \in 1 .. Find |-> Byte(i - 1)]),
         newlines' = newlines, Gone' = Gone + Find, cuts' # {} => datagrams'
  PROVE  /\ LinesGenuine'
         /\ \A n \in 1 .. Len(reported') :
              Len(reported'[n]) > 0 /\ reported'[n][Len(reported'[n])] <= Gone'
<1> DEFINE new == [i \in 1 .. Find |-> Byte(i - 1)]
           N   == Len(reported)
<1>1. Gone \in Nat /\ Find \in Nat \ {0} /\ N \in Nat
  <2>1. Find \in 1 .. Unread /\ Gone \in Nat /\ Unread \in Nat
    BY Counts, Line
  <2>2. Len(reported) \in Nat
    BY DEF TypeOK
  <2> QED
    BY <2>1, <2>2
<1>2. Len(new) = Find /\ \A i \in 1 .. Find : new[i] = Gone + i
  <2>1. \A i \in 1 .. Find : Byte(i - 1) = Gone + i
    BY <1>1, Line
  <2> QED
    BY <1>1, <2>1
<1>3. IsLine(Gone + 1, Gone + Find)
  BY <1>1, Line DEF IsLine, Bounded, Placed
<1>4. /\ Len(reported') = N + 1 /\ reported'[N + 1] = new
      /\ \A n \in 1 .. N : reported'[n] = reported[n]
  BY DEF TypeOK
<1>5. \A a, b : IsLine(a, b)' <=> IsLine(a, b)
  BY DEF IsLine
<1> HIDE DEF new
<1>6. ASSUME NEW n \in 1 .. N
      PROVE  /\ \A i \in 1 .. Len(reported'[n]) : reported'[n][i] = reported'[n][1] + i - 1
             /\ IsLine(reported'[n][1], reported'[n][Len(reported'[n])])
             /\ reported'[n][Len(reported'[n])] < reported'[n + 1][1]
             /\ Len(reported'[n]) > 0 /\ reported'[n][Len(reported'[n])] <= Gone'
  <2>1. Len(reported[n]) > 0 /\ reported[n][Len(reported[n])] \in Int
        /\ reported[n][Len(reported[n])] <= Gone
    BY LineShapes
  <2>2. /\ \A i \in 1 .. Len(reported[n]) : reported[n][i] = reported[n][1] + i - 1
        /\ IsLine(reported[n][1], reported[n][Len(reported[n])])
        /\ n < N => reported[n][Len(reported[n])] < reported[n + 1][1]
    BY DEF LinesGenuine
  <2>3. reported[n][Len(reported[n])] < reported'[n + 1][1]
    <3>1. CASE n < N
      <4>1. reported'[n + 1] = reported[n + 1]
        BY <1>1, <1>4, <3>1
      <4> QED
        BY <2>2, <3>1, <4>1
    <3>2. CASE n = N
      <4>1. reported'[n + 1][1] = Gone + 1
        BY <1>1, <1>2, <1>4, <3>2
      <4> QED
        BY <1>1, <2>1, <4>1
    <3> QED
      BY <1>1, <3>1, <3>2
  <2>4. reported[n][Len(reported[n])] <= Gone'
    BY <1>1, <2>1
  <2> QED
    BY <1>4, <2>1, <2>2, <2>3, <2>4
<1>7. /\ \A i \in 1 .. Len(new) : new[i] = new[1] + i - 1
      /\ IsLine(new[1], new[Len(new)])
      /\ Len(new) > 0 /\ new[Len(new)] <= Gone'
  BY <1>1, <1>2, <1>3
<1>8. \A n \in 1 .. Len(reported') : n \in 1 .. N \/ (n = N + 1 /\ ~(n < Len(reported')))
  BY <1>1, <1>4
<1>9. \A a, b : IsCut(a, b)' => datagrams'
  BY DEF IsCut
<1> HIDE DEF N
<1> QED
  BY <1>4, <1>5, <1>6, <1>7, <1>8, <1>9 DEF LinesGenuine

(* Every step keeps the lines reported genuine. *)
LEMMA StepLines ==
  ASSUME IInv, Next
  PROVE  LinesGenuine' /\ Bounded'
<1> USE InputAssumption DEF IInv, ring, seen
<1>0. /\ Unread \in 0 .. Size /\ pos \in Nat /\ Gone \in 0 .. pos /\ pos = Gone + Unread
  BY Counts
<1>a. cuts' # {} => datagrams'
  BY StepPlaced DEF Placed
<1>1. ASSUME NEW k \in 1 .. MaxRead, NEW S \in SUBSET (pos + 1 .. pos + k), Stores(k, S)
      PROVE  LinesGenuine' /\ Bounded'
  <2>1. /\ Gone' = Gone /\ reported' = reported /\ newlines' = newlines \cup S
        /\ state' = state /\ pc = "idle"
    BY <1>1, StepRead DEF Stores, Store
  <2>2. newlines \subseteq newlines' /\ \A b \in newlines' : b \in newlines \/ b > pos
    <3>1. \A b \in pos + 1 .. pos + k : b > pos
      BY <1>0
    <3>2. \A b \in S : b \in pos + 1 .. pos + k
      OBVIOUS
    <3> HIDE <1>1 DEF IInv
    <3> QED
      BY <2>1, <3>1, <3>2
  <2>3. /\ LinesGenuine'
        /\ \A n \in 1 .. Len(reported') :
              Len(reported'[n]) > 0 /\ reported'[n][Len(reported'[n])] <= Gone'
    BY <1>0, <2>1, <2>2, <1>a, LinesKept
  <2> QED
    BY <2>1, <2>3 DEF Bounded
<1>2. CASE ReadEof \/ Die
  <2>1. UNCHANGED <<available, pos, newlines, reported>> /\ newlines' = newlines
    BY <1>2 DEF ReadEof, Die
  <2>2. Gone' = Gone
    BY <2>1 DEF Gone, Unread
  <2>3. /\ LinesGenuine'
        /\ \A n \in 1 .. Len(reported') :
              Len(reported'[n]) > 0 /\ reported'[n][Len(reported'[n])] <= Gone'
    BY <1>0, <2>1, <2>2, <1>a, LinesKept
  <2> QED
    BY <1>2, <2>1, <2>2, <2>3 DEF Bounded, ReadEof, Die
<1>3. CASE PurgeAll \/ (ReadDone /\ available = 0)
  <2>1. /\ UNCHANGED <<pos, newlines, reported>> /\ newlines' = newlines
        /\ border' = 0 /\ current' = 0 /\ write' = Size /\ available' = Size
        /\ state' = "is_err" /\ UNCHANGED <<mem, seen>>
    BY <1>3 DEF PurgeAll, ReadDone
  <2>2. Gone' = pos
    BY <2>1, StepCleared
  <2>3. /\ LinesGenuine'
        /\ \A n \in 1 .. Len(reported') :
              Len(reported'[n]) > 0 /\ reported'[n][Len(reported'[n])] <= Gone'
    BY <1>0, <2>1, <2>2, <1>a, LinesKept
  <2> QED
    BY <2>1, <2>3 DEF Bounded
<1>4. CASE PurgeLine
  <2>1. UNCHANGED <<pos, newlines, reported>> /\ newlines' = newlines /\ Find # -1
        /\ available' = available + Find
    BY <1>4 DEF PurgeLine
  <2>2. Gone' = Gone + Find /\ Gone' \in newlines /\ Find \in 1 .. Unread
    <3>1. Gone + Find \in newlines /\ Find \in 1 .. Unread
      BY <2>1, Line
    <3>2. available \in Nat /\ Size \in Nat /\ Find \in Nat
      BY <1>0, <3>1 DEF TypeOK
    <3>3. Gone' = Gone + Find
      BY <1>0, <2>1, <3>2 DEF Gone, Unread
    <3> QED
      BY <3>1, <3>3
  <2>3. /\ LinesGenuine'
        /\ \A n \in 1 .. Len(reported') :
              Len(reported'[n]) > 0 /\ reported'[n][Len(reported'[n])] <= Gone'
    BY <1>0, <2>1, <2>2, <1>a, LinesKept
  <2> QED
    BY <2>1, <2>2, <2>3 DEF Bounded
<1>5. CASE Report
  <2>1. /\ UNCHANGED <<pos, newlines>> /\ Find # -1 /\ pc = "report"
        /\ available' = available + Find
        /\ reported' = Append(reported, [i \in 1 .. Find |-> Byte(i - 1)])
    BY <1>5 DEF Report
  <2>2. Gone' = Gone + Find /\ Gone' \in newlines
    <3>1. Gone + Find \in newlines /\ Find \in 1 .. Unread
      BY <2>1, Line
    <3>2. available \in Nat /\ Size \in Nat /\ Find \in Nat
      BY <1>0, <3>1 DEF TypeOK
    <3>3. Gone' = Gone + Find
      BY <1>0, <2>1, <3>2 DEF Gone, Unread
    <3> QED
      BY <3>1, <3>3
  <2>3. /\ LinesGenuine'
        /\ \A n \in 1 .. Len(reported') :
              Len(reported'[n]) > 0 /\ reported'[n][Len(reported'[n])] <= Gone'
    BY <2>1, <2>2, <1>a, LinesGrow
  <2> QED
    BY <2>1, <2>2, <2>3 DEF Bounded
<1>6. CASE ReadDone /\ available # 0
  <2>1. UNCHANGED <<available, pos, newlines, reported, state>> /\ newlines' = newlines
        /\ pc = "report"
    BY <1>6 DEF ReadDone
  <2>2. Gone' = Gone
    BY <2>1 DEF Gone, Unread
  <2>3. /\ LinesGenuine'
        /\ \A n \in 1 .. Len(reported') :
              Len(reported'[n]) > 0 /\ reported'[n][Len(reported'[n])] <= Gone'
    BY <1>0, <2>1, <2>2, <1>a, LinesKept
  <2> QED
    BY <2>1, <2>2, <2>3 DEF Bounded
<1> QED
  BY <1>1, <1>2, <1>3, <1>4, <1>5, <1>6, ReadStores DEF Next

(* The lines that were there to report can be counted. *)
LEMMA FittingFinite ==
  ASSUME TypeOK, RingExact
  PROVE  IsFiniteSet(Fitting) /\ Cardinality(Fitting) \in Nat
<1>1. Fitting \subseteq 1 .. pos /\ 1 \in Int /\ pos \in Int
  BY Counts DEF Fitting
<1>2. IsFiniteSet(1 .. pos)
  BY <1>1, FS_Interval
<1> QED
  BY <1>1, <1>2, FS_Subset, FS_CardinalityType

(* Bytes read later do not change whether a line fits. *)
LEMMA FitsSame ==
  ASSUME TypeOK, newlines \subseteq newlines',
         \A b \in newlines' : b \in newlines \/ b > pos,
         NEW b \in Int, b <= pos
  PROVE  Fits(b)' <=> Fits(b)
<1>1. \A a \in b - Size + 1 .. b : a \in Int /\ a <= b
  BY InputAssumption
<1>2. \A a \in b - Size + 1 .. b : IsLine(a, b)' <=> IsLine(a, b)
  BY <1>1, SameLine
<1> QED
  BY <1>2 DEF Fits

(* No line ends in what is dropped: the lines counted are the same. *)
LEMMA FittingSame ==
  ASSUME TypeOK, TypeOK', RingExact, newlines \subseteq newlines',
         \A b \in newlines' : b \in newlines \/ b > pos,
         Gone' \in Int, Gone <= Gone', Gone' <= pos,
         \A b \in Gone + 1 .. Gone' : b \in newlines => ~Fits(b)
  PROVE  Fitting' = Fitting
<1>1. Gone \in Nat /\ pos \in Nat /\ Gone <= pos /\ \A b \in newlines : b \in 1 .. pos
  BY Counts
<1>2. \A b \in newlines : Fits(b)' <=> Fits(b)
  BY <1>1, FitsSame
<1>3. \A b \in newlines' : b <= Gone' => b \in newlines
  <2>1. \A b \in newlines' : b \in Int
    BY DEF TypeOK
  <2> QED
    BY <1>1, <2>1
<1>4. \A b \in newlines : Fits(b) => (b <= Gone' <=> b <= Gone)
  BY <1>1
<1> QED
  BY <1>2, <1>3, <1>4 DEF Fitting

(* Every step keeps the count: a line is reported when it goes, an         *)
(* oversized one is dropped in pieces and does not fit.                    *)
LEMMA StepCounted ==
  ASSUME IInv, TypeOK', RingExact', Next
  PROVE  Counted'
<1> USE InputAssumption DEF IInv, ring, seen
<1>0. /\ Unread \in 0 .. Size /\ pos \in Nat /\ Gone \in 0 .. pos /\ pos = Gone + Unread
      /\ \A b \in newlines : b \in 1 .. pos
  BY Counts
<1> SUFFICES ASSUME widest' < Size
             PROVE  /\ Len(reported') = Cardinality(Fitting')
                    /\ pc' = "idle" => \A b \in Gone' + 1 .. pos' : b \notin newlines'
                    /\ state' = "is_err" /\ pc' \in {"idle", "purge"} =>
                         Gone' >= Size /\ \A b \in Gone' - Size + 1 .. Gone' : b \notin newlines'
  BY DEF Counted
<1>1. ASSUME NEW k \in 1 .. MaxRead, NEW S \in SUBSET (pos + 1 .. pos + k), Stores(k, S)
      PROVE  Counted'
  <2>1. /\ Gone' = Gone /\ reported' = reported /\ newlines' = newlines \cup S
        /\ state' = state /\ pc = "idle" /\ pc' # "idle" /\ widest <= widest'
    <3>1. Gone' = Gone
      BY <1>1, StepRead
    <3>2. widest <= widest'
      BY <1>1 DEF Stores, Store, TypeOK
    <3> QED
      BY <1>1, <3>1, <3>2 DEF Stores, Store
  <2>2. newlines \subseteq newlines' /\ \A b \in newlines' : b \in newlines \/ b > pos
    <3>1. \A b \in pos + 1 .. pos + k : b > pos
      BY <1>0
    <3>2. \A b \in S : b \in pos + 1 .. pos + k
      OBVIOUS
    <3> HIDE <1>1 DEF IInv
    <3> QED
      BY <2>1, <3>1, <3>2
  <2>3. Fitting' = Fitting
    <3>1. Gone + 1 .. Gone' = {}
      BY <1>0, <2>1
    <3>2. Gone' \in Int /\ Gone <= Gone' /\ Gone' <= pos
      BY <1>0, <2>1
    <3> QED
      BY <2>2, <3>1, <3>2, FittingSame
  <2>4. widest < Size
    BY <2>1 DEF TypeOK
  <2>5. \A b \in Gone - Size + 1 .. Gone : b \in newlines' => b \in newlines
    BY <1>0, <2>2
  <2> QED
    BY <2>1, <2>3, <2>4, <2>5 DEF Counted
<1>2. CASE ReadEof \/ Die
  <2>1. UNCHANGED <<available, pos, newlines, reported, widest>>
        /\ (pc' = "idle" => pc = "idle") /\ (state' = "is_err" => state = "is_err")
        /\ (pc' = "purge" => pc = "purge")
    BY <1>2 DEF ReadEof, Die
  <2>2. Gone' = Gone /\ Fitting' = Fitting
    BY <2>1 DEF Gone, Unread, Fitting, Fits, IsLine
  <2> QED
    BY <2>1, <2>2 DEF Counted
<1>3. CASE PurgeAll \/ (ReadDone /\ available = 0)
  <2>1. /\ UNCHANGED <<pos, newlines, reported, widest>> /\ Find = -1
        /\ border' = 0 /\ current' = 0 /\ write' = Size /\ available' = Size
        /\ state' = "is_err" /\ UNCHANGED <<mem, seen>> /\ pc' = "idle"
    BY <1>3 DEF PurgeAll, ReadDone
  <2>2. Gone' = pos
    BY <2>1, StepCleared
  <2>3. ~Skewed
    BY <2>1 DEF Placed, Skewed, TypeOK
  <2>4. \A b \in Gone + 1 .. pos : b \notin newlines
    BY <2>1, <2>3, NoLine
  <2>5. Fitting' = Fitting
    <3>1. newlines \subseteq newlines' /\ \A b \in newlines' : b \in newlines \/ b > pos
      BY <2>1
    <3>2. Gone' \in Int /\ Gone <= Gone' /\ Gone' <= pos
      BY <1>0, <2>2
    <3> QED
      BY <2>2, <2>4, <3>1, <3>2, FittingSame
  <2>6. pos >= Size /\ \A b \in pos - Size + 1 .. pos : b \notin newlines
    <3>1. CASE PurgeAll
      <4>1. Gone >= Size /\ \A b \in Gone - Size + 1 .. Gone : b \notin newlines
        BY <2>1, <3>1 DEF Counted, PurgeAll, Placed
      <4>2. \A b \in pos - Size + 1 .. pos :
              b \in Gone - Size + 1 .. Gone \/ b \in Gone + 1 .. pos
        BY <1>0
      <4> QED
        BY <1>0, <2>4, <4>1, <4>2
    <3>2. CASE available = 0
      BY <1>0, <2>4, <3>2 DEF Unread
    <3> QED
      BY <1>3, <3>1, <3>2
  <2>7. Gone' + 1 .. pos' = {}
    BY <1>0, <2>1, <2>2
  <2> QED
    BY <2>1, <2>2, <2>5, <2>6, <2>7 DEF Counted
<1>4. ASSUME Find # -1, pc \in {"purge", "report"}, UNCHANGED <<pos, newlines, widest>>,
             available' = available + Find
      PROVE  /\ Gone' = Gone + Find /\ Gone' \in newlines /\ Gone' \in Nat /\ Gone' <= pos
             /\ Gone <= Gone' /\ Find \in 1 .. Size
             /\ \A b \in Gone + 1 .. Gone' - 1 : b \notin newlines
  <2>1. /\ Gone + Find \in newlines /\ Find \in 1 .. Unread
        /\ \A b \in Gone + 1 .. Gone + Find - 1 : b \notin newlines
    BY <1>4, Line
  <2>2. available \in Nat /\ Size \in Nat /\ Find \in Nat
    BY <1>0, <2>1 DEF TypeOK
  <2>3. Gone' = Gone + Find
    BY <1>0, <1>4, <2>2 DEF Gone, Unread
  <2> QED
    BY <1>0, <2>1, <2>2, <2>3
<1>5. CASE PurgeLine
  <2>1. /\ UNCHANGED <<pos, newlines, reported, widest>> /\ Find # -1 /\ pc = "purge"
        /\ available' = available + Find /\ state' = "is_ready" /\ pc' = "report"
    BY <1>5 DEF PurgeLine
  <2>2. /\ Gone' = Gone + Find /\ Gone' \in newlines /\ Gone' \in Nat /\ Gone' <= pos
        /\ Gone <= Gone' /\ Find \in 1 .. Size
        /\ \A b \in Gone + 1 .. Gone' - 1 : b \notin newlines
    BY <1>4, <2>1
  <2>3. Gone >= Size /\ \A b \in Gone - Size + 1 .. Gone : b \notin newlines
    BY <2>1 DEF Counted, Placed
  <2>4. ~Fits(Gone')
    <3> SUFFICES ASSUME NEW a \in Gone' - Size + 1 .. Gone', IsLine(a, Gone')
                 PROVE  FALSE
      BY DEF Fits
    <3>1. a > 1
      BY <1>0, <2>2, <2>3
    <3>2. a - 1 \in newlines
      BY <3>1 DEF IsLine
    <3>3. a - 1 \in Gone - Size + 1 .. Gone \/ a - 1 \in Gone + 1 .. Gone' - 1
      BY <1>0, <2>2
    <3> QED
      BY <2>2, <2>3, <3>2, <3>3
  <2>5. Fitting' = Fitting
    <3>1. newlines \subseteq newlines' /\ \A b \in newlines' : b \in newlines \/ b > pos
      BY <2>1
    <3>2. \A b \in Gone + 1 .. Gone' : b = Gone' \/ b \in Gone + 1 .. Gone' - 1
      BY <1>0, <2>2
    <3>3. \A b \in Gone + 1 .. Gone' : b \in newlines => ~Fits(b)
      BY <2>2, <2>4, <3>2
    <3>4. Gone' \in Int /\ Gone <= Gone' /\ Gone' <= pos
      BY <2>2
    <3> QED
      BY <3>1, <3>3, <3>4, FittingSame
  <2> QED
    BY <2>1, <2>5 DEF Counted
<1>6. CASE Report
  <2>1. /\ UNCHANGED <<pos, newlines, widest>> /\ Find # -1 /\ pc = "report"
        /\ available' = available + Find /\ pc' = "report"
        /\ Len(reported') = Len(reported) + 1
    BY <1>6 DEF Report, TypeOK
  <2>2. /\ Gone' = Gone + Find /\ Gone' \in newlines /\ Gone' \in Nat /\ Gone' <= pos
        /\ Gone <= Gone' /\ Find \in 1 .. Size
        /\ \A b \in Gone + 1 .. Gone' - 1 : b \notin newlines
    BY <1>4, <2>1
  <2>3. IsLine(Gone + 1, Gone')
    BY <1>0, <2>1, <2>2 DEF IsLine, Bounded, Placed
  <2>4. Fits(Gone')
    <3>1. Gone + 1 \in Gone' - Size + 1 .. Gone'
      BY <1>0, <2>2
    <3> QED
      BY <2>3, <3>1 DEF Fits
  <2>5. Fitting' = Fitting \cup {Gone'}
    <3>1. \A b : Fits(b)' <=> Fits(b)
      BY <2>1 DEF Fits, IsLine
    <3>2. \A b \in newlines : b <= Gone' <=> b <= Gone \/ b = Gone'
      <4>1. \A b \in newlines : b > Gone /\ b <= Gone' => b = Gone' \/ b \in Gone + 1 .. Gone' - 1
        BY <1>0, <2>2
      <4> QED
        BY <1>0, <2>2, <4>1
    <3> QED
      BY <2>1, <2>2, <2>4, <3>1, <3>2 DEF Fitting
  <2>6. Gone' \notin Fitting
    BY <1>0, <2>2 DEF Fitting
  <2>7. Cardinality(Fitting') = Cardinality(Fitting) + 1
    BY <2>5, <2>6, FittingFinite, FS_AddElement
  <2> QED
    BY <2>1, <2>7 DEF Counted
<1>7. CASE ReadDone /\ available # 0
  <2>1. UNCHANGED <<available, pos, newlines, reported, state, widest, border, current>>
        /\ pc = "report" /\ Find = -1 /\ state = "is_ready"
    BY <1>7 DEF ReadDone, Placed
  <2>2. Gone' = Gone /\ Fitting' = Fitting
    BY <2>1 DEF Gone, Unread, Fitting, Fits, IsLine
  <2>3. \A b \in Gone + 1 .. pos : b \notin newlines
    BY <1>7, <2>1, NoLine DEF Skewed
  <2> QED
    BY <2>1, <2>2, <2>3 DEF Counted
<1> QED
  BY <1>1, <1>2, <1>3, <1>5, <1>6, <1>7, ReadStores DEF Next, Counted

(* The invariant holds of a new input handler. *)
LEMMA InitIInv ==
  ASSUME Init
  PROVE  IInv
<1> USE InputAssumption DEF Init
<1>1. TypeOK
  <2>1. <<>> \in Seq(Seq(1 .. MaxBytes))
    OBVIOUS
  <2>2. mem \in [0 .. Size - 1 -> 0 .. MaxBytes]
    OBVIOUS
  <2> QED
    BY <2>1, <2>2 DEF TypeOK
<1>2. Unread = 0 /\ Gone = 0
  BY DEF Unread, Gone
<1>3. Placed
  BY <1>2 DEF Placed, Min2
<1>4. RingExact
  <2>1. 0 .. 0 - 1 = {}
    OBVIOUS
  <2> QED
    BY <1>2, <2>1 DEF RingExact
<1>5. LinesGenuine /\ Bounded
  <2>1. 1 .. Len(reported) = {}
    OBVIOUS
  <2> QED
    BY <1>2, <2>1 DEF LinesGenuine, Bounded
<1>6. Counted
  <2>1. Fitting = {} /\ Len(reported) = 0
    BY DEF Fitting
  <2> QED
    BY <2>1, FS_EmptySet DEF Counted
<1> QED
  BY <1>1, <1>3, <1>4, <1>5, <1>6 DEF IInv

(* The invariant is inductive. *)
LEMMA StepIInv ==
  ASSUME IInv, [Next]_vars
  PROVE  IInv'
<1>1. CASE Next
  <2>1. TypeOK' /\ Placed' /\ RingExact'
    BY <1>1, StepPlaced
  <2>2. LinesGenuine' /\ Bounded'
    BY <1>1, StepLines
  <2>3. Counted'
    BY <1>1, <2>1, StepCounted
  <2> QED
    BY <2>1, <2>2, <2>3 DEF IInv
<1>2. CASE UNCHANGED vars
  <2> USE <1>2 DEF vars, ring, seen, IInv
  <2>1. Unread' = Unread /\ Gone' = Gone /\ Skewed' = Skewed
    BY DEF Unread, Gone, Skewed
  <2>2. TypeOK' /\ Placed'
    BY <2>1 DEF TypeOK, Placed
  <2>3. RingExact'
    BY <2>1 DEF RingExact, Byte
  <2>4. LinesGenuine' /\ Bounded'
    BY <2>1 DEF LinesGenuine, Bounded, IsLine, IsCut
  <2>5. Fitting' = Fitting
    BY <2>1 DEF Fitting, Fits, IsLine
  <2>6. Counted'
    BY <2>1, <2>5 DEF Counted
  <2> QED
    BY <2>2, <2>3, <2>4, <2>6
<1> QED
  BY <1>1, <1>2

(* By the invariant what read() may store is free. *)
LEMMA ImpliesReadFits ==
  ASSUME IInv
  PROVE  ReadFits
<1> SUFFICES ASSUME pc = "idle"
             PROVE  /\ write > 0 /\ available > 0 /\ current + write <= Size
                    /\ \A i \in 0 .. Unread - 1 : Cell(i) \notin current .. current + write - 1
  BY DEF ReadFits, Cell
<1> QED
  BY Room DEF IInv

(* By the invariant all lines that fit are reported when a read returns. *)
LEMMA ImpliesLinesExact ==
  ASSUME IInv
  PROVE  LinesExact
<1> SUFFICES ASSUME pc = "idle", widest < Size
             PROVE  Len(reported) = Cardinality({b \in newlines : Fits(b)})
  BY DEF LinesExact, Fits
<1>1. Len(reported) = Cardinality(Fitting) /\ \A b \in Gone + 1 .. pos : b \notin newlines
  BY DEF IInv, Counted
<1>2. \A b \in newlines : b <= Gone
  BY <1>1, Counts DEF IInv
<1>3. Fitting = {b \in newlines : Fits(b)}
  BY <1>2 DEF Fitting
<1> QED
  BY <1>1, <1>3

(* The inductive invariant holds in every behaviour of an input handler. *)
THEOREM Inductive == Spec => []IInv
BY InitIInv, StepIInv, PTL DEF Spec

(* The variables of the ring keep their types: border and current stay     *)
(* offsets into it, the counts of bytes within its size.                   *)
THEOREM TypeCorrect == Spec => []TypeOK
<1>1. IInv => TypeOK
  BY DEF IInv
<1> QED
  BY <1>1, Inductive, PTL

(* input_buffer.c: whatever the reads, wraps and purges were, the unread   *)
(* bytes are in the ring in the order they were read, for a ring and reads *)
(* of any size.                                                            *)
THEOREM RingIsExact == Spec => []RingExact
<1>1. IInv => RingExact
  BY DEF IInv
<1> QED
  BY <1>1, Inductive, PTL

(* input_tools.c:32-33: read() is called only with room for a byte, and    *)
(* neither passes the end of the ring nor overwrites an unread byte.       *)
THEOREM ReadsFit == Spec => []ReadFits
BY ImpliesReadFits, Inductive, PTL

(* What input_handler_common_read reports are whole lines of what it read, *)
(* in that order, none split, joined or repeated. Of a stream these are    *)
(* lines of the input; of a udp socket too, but for those in which the     *)
(* kernel dropped the rest of a datagram (input_tools.c:53-55).            *)
THEOREM LinesAreGenuine == Spec => []LinesGenuine
<1>1. IInv => LinesGenuine
  BY DEF IInv
<1> QED
  BY <1>1, Inductive, PTL

(* When input_handler_common_read returns, each complete line of what was  *)
(* read that fits into the ring was reported, however long the lines       *)
(* before it were, as long as no single read() filled the ring. (What the  *)
(* kernel drops of a datagram is not read.)                                *)
THEOREM LinesAreExact == Spec => []LinesExact
BY ImpliesLinesExact, Inductive, PTL

(* input_tools.c:133: as long as no single read() filled the ring, a full  *)
(* ring that is purged holds no complete line. (Without that the comment   *)
(* is wrong.)                                                              *)
THEOREM PurgesNoLine == Spec => [](widest < Size => FullMeansNoLine)
<1>1. IInv => (widest < Size => FullMeansNoLine)
  <2> SUFFICES ASSUME IInv, widest < Size, Find = -1
               PROVE  \A b \in pos - Unread + 1 .. pos : b \notin newlines
    BY DEF FullMeansNoLine
  <2>1. ~Skewed
    BY DEF IInv, Placed, Skewed, TypeOK
  <2> QED
    BY <2>1, NoLine DEF IInv, Gone
<1> QED
  BY <1>1, Inductive, PTL
=============================================================================
