-------------------------- MODULE MsgBuffer_proofs --------------------------
(***************************************************************************)
(* Proofs about MsgBuffer, for any number of producers, any set of         *)
(* messages and any chunk size: the safety properties the runs check.      *)
(*                                                                         *)
(* None of them is inductive.  The argument is the invariant IInv: who     *)
(* holds the mutex is told by the labels (Excluded), the chunks are a      *)
(* chain without gaps from head to current (Chained), the indices are at   *)
(* a chunk's edge only under the lock (Edges), every position from First   *)
(* to Last holds a message (Stored), and the balance of the semaphore:     *)
(* messages stored = posts made + posts to come + the one message a pop    *)
(* has been granted and has not taken (Balanced).  The proof that a step   *)
(* preserves it shows at the same time that the step is one of MsgQueue,   *)
(* or none (StepCorrect).                                                  *)
(***************************************************************************)
EXTENDS MsgBuffer, FiniteSetTheorems, SequenceTheorems, TLAPS

(* Threads that have stored a message and not yet posted it. *)
Posting == {t \in Threads : pc[t] \in {"push_grow", "unlock", "post"}}

(* Pops let through by the semaphore that have not taken their message. *)
Granted == IF pc[Logger] \in {"pop_lock", "pop_take"} THEN 1 ELSE 0

ProducerLabels ==
  {"idle", "push_lock", "push_store", "push_grow", "unlock", "post", "testcancel", "dead"}

LoggerLabels == Labels \ {"push_lock", "push_store", "push_grow"}

(* Where each thread can be; the one at a critical label has the mutex. *)
Excluded ==
  /\ \A t \in Producers : pc[t] \in ProducerLabels
  /\ pc[Logger] \in LoggerLabels
  /\ \A t \in Threads : pc[t] \in Critical <=> mutex = t

(* Who has a message in hand, and where. *)
Carried ==
  /\ \A t \in Threads :
       pc[t] \in {"push_lock", "push_store", "unpop_lock", "unpop_grow", "unpop_store"} =>
         msg[t] \in Msg
  /\ \A t \in Producers : pc[t] \notin {"push_lock", "push_store"} => msg[t] = Nil
  /\ pc[Logger] \in {"pop_wait", "pop_lock", "pop_take"} => msg[Logger] = Nil
  /\ closed => \A t \in Threads : pc[t] \in {"idle", "dead"}

(* The chunks from head to current, linked in order and without a gap. *)
Chained ==
  /\ DOMAIN slot = head .. current + ReallocSize - 1
  /\ \A c \in DOMAIN next :
       /\ head <= c /\ c <= current
       /\ c = current => next[c] = Nil
       /\ c # current => next[c] = c + ReallocSize /\ c + ReallocSize \in DOMAIN next
  /\ \A c, d \in DOMAIN next : c < d => c + ReallocSize <= d

(* An index is at the end of its chunk only while its owner has the lock. *)
Edges ==
  /\ pc[Logger] = "unpop_grow" => headindex = 0
  /\ pc[Logger] = "unpop_store" => headindex > 0
  /\ pc[Logger] = "pop_drop" => headindex = ReallocSize
  /\ headindex = ReallocSize => pc[Logger] \in {"unpop_store", "pop_drop"}
  /\ \A t \in Producers : pc[t] = "push_grow" => endindex = ReallocSize
  /\ endindex = ReallocSize => \E t \in Producers : pc[t] = "push_grow"

(* Every slot from First to Last holds a message. *)
Stored == \A p \in First .. Last : slot[p] \in Msg

(* The balance of the semaphore. *)
Balanced ==
  /\ IsFiniteSet(Posting)
  /\ Last - First + 1 = semaphore + Cardinality(Posting) + Granted

(* What size() promised is still there: only the logger takes. *)
Promised == qsize <= semaphore

(* The inductive invariant. *)
IInv ==
  /\ TypeOK /\ Excluded /\ Carried
  /\ Chained /\ Edges /\ Stored /\ Balanced
  /\ Promised
-----------------------------------------------------------------------------
(* The invariant holds when buffer_init returns.                           *)
LEMMA InitIInv == Init => IInv
<1> SUFFICES ASSUME Init PROVE IInv
  OBVIOUS
<1> USE BufferAssumption DEF Init, Threads, Slots
<1>1. TypeOK
  <2>1. \A c \in DOMAIN next : c \in Int /\ next[c] \in Int \cup {Nil}
    OBVIOUS
  <2>2. \A p \in DOMAIN slot : p \in Int /\ slot[p] \in Msg \cup {Junk}
    OBVIOUS
  <2>3. head \in DOMAIN next /\ current \in DOMAIN next
    OBVIOUS
  <2>4. /\ headindex \in 0 .. ReallocSize /\ endindex \in 0 .. ReallocSize
        /\ semaphore \in Nat /\ qsize \in Nat
    OBVIOUS
  <2>5. mutex \in Threads \cup {Nil} /\ msg \in [Threads -> Msg \cup {Nil}]
    OBVIOUS
  <2>6. pc \in [Threads -> Labels]
    BY DEF Labels
  <2>7. cancelled \subseteq Cancellable /\ fresh \subseteq Msg /\ freed \subseteq Msg
    OBVIOUS
  <2>8. closed \in BOOLEAN
    OBVIOUS
  <2> QED
    BY <2>1, <2>2, <2>3, <2>4, <2>5, <2>6, <2>7, <2>8 DEF TypeOK
<1>2. Excluded
  BY DEF Excluded, ProducerLabels, LoggerLabels, Labels, Locking, Critical
<1>3. Carried /\ Edges /\ Promised
  BY DEF Carried, Edges, Promised
<1>4. Chained
  BY DEF Chained
<1>5. Stored
  BY DEF Stored, First, Last
<1>6. Balanced
  <2>1. Posting = {}
    BY DEF Posting
  <2> QED
    BY <2>1, FS_EmptySet DEF Balanced, First, Last, Granted
<1> QED
  BY <1>1, <1>2, <1>3, <1>4, <1>5, <1>6 DEF IInv
-----------------------------------------------------------------------------
(* What is stored, as a sequence: how a window on the slots changes when   *)
(* it gains or loses an end.  First, its type and length.                  *)
LEMMA WindowSeq ==
  ASSUME NEW S, NEW f, NEW a \in Int, NEW b \in Int, a <= b + 1,
         \A p \in a .. b : f[p] \in S
  PROVE  Window(f, a, b) \in Seq(S) /\ Len(Window(f, a, b)) = b - a + 1
<1> DEFINE n == b - a + 1
<1>1. n \in Nat
  OBVIOUS
<1>2. \A k \in 1 .. n : f[a + k - 1] \in S
  OBVIOUS
<1> QED
  BY <1>1, <1>2 DEF Window

(* A slot more at the end is an Append. *)
LEMMA WindowAppend ==
  ASSUME NEW f, NEW a \in Int, NEW b \in Int, a <= b + 1
  PROVE  Window(f, a, b + 1) = Append(Window(f, a, b), f[b + 1])
<1> DEFINE S == {f[p] : p \in a .. b + 1}
           w == Window(f, a, b)
           v == Window(f, a, b + 1)
           u == Append(w, f[b + 1])
<1>0. \A p \in a .. b + 1 : f[p] \in S
  OBVIOUS
<1> HIDE DEF S
<1>1. w \in Seq(S) /\ Len(w) = b - a + 1
  <2> DEFINE n == b - a + 1
  <2>1. n \in Nat
    OBVIOUS
  <2>2. \A k \in 1 .. n : f[a + k - 1] \in S
    BY <1>0
  <2> QED
    BY <2>1, <2>2 DEF Window
<1>2. v \in Seq(S) /\ Len(v) = b - a + 2
  <2> DEFINE n == b + 1 - a + 1
  <2>1. n \in Nat /\ n = b - a + 2
    OBVIOUS
  <2>2. \A k \in 1 .. n : f[a + k - 1] \in S
    BY <1>0
  <2> QED
    BY <2>1, <2>2 DEF Window
<1>3. \A k \in 1 .. b - a + 1 : w[k] = f[a + k - 1]
  BY DEF Window
<1>4. \A k \in 1 .. b - a + 2 : v[k] = f[a + k - 1]
  BY DEF Window
<1>5. f[b + 1] \in S
  BY <1>0
<1> HIDE DEF w, v
<1>6. /\ u \in Seq(S) /\ Len(u) = Len(w) + 1
      /\ \A k \in 1 .. Len(w) : u[k] = w[k]
      /\ u[Len(w) + 1] = f[b + 1]
  BY <1>1, <1>5, AppendProperties
<1> HIDE DEF u
<1>7. ASSUME NEW k \in 1 .. Len(v) PROVE v[k] = u[k]
  <2>1. CASE k \in 1 .. Len(w)
    BY <1>1, <1>3, <1>4, <1>6, <2>1
  <2>2. CASE k = Len(w) + 1
    BY <1>1, <1>4, <1>6, <2>2
  <2> QED
    BY <1>1, <1>2, <2>1, <2>2
<1>8. Len(v) = Len(u)
  BY <1>1, <1>2, <1>6
<1>9. v = u
  BY <1>2, <1>6, <1>7, <1>8, SeqEqual
<1> QED
  BY <1>9 DEF u, v, w

(* A slot more in front is a concatenation with it. *)
LEMMA WindowCons ==
  ASSUME NEW f, NEW a \in Int, NEW b \in Int, a <= b + 1
  PROVE  Window(f, a - 1, b) = <<f[a - 1]>> \o Window(f, a, b)
<1> DEFINE S == {f[p] : p \in a - 1 .. b}
           w == Window(f, a, b)
           v == Window(f, a - 1, b)
           e == <<f[a - 1]>>
           u == e \o w
<1>0. \A p \in a - 1 .. b : f[p] \in S
  OBVIOUS
<1> HIDE DEF S
<1>1. w \in Seq(S) /\ Len(w) = b - a + 1
  <2> DEFINE n == b - a + 1
  <2>1. n \in Nat
    OBVIOUS
  <2>2. \A k \in 1 .. n : f[a + k - 1] \in S
    BY <1>0
  <2> QED
    BY <2>1, <2>2 DEF Window
<1>2. v \in Seq(S) /\ Len(v) = b - a + 2
  <2> DEFINE n == b - (a - 1) + 1
  <2>1. n \in Nat /\ n = b - a + 2
    OBVIOUS
  <2>2. \A k \in 1 .. n : f[a - 1 + k - 1] \in S
    BY <1>0
  <2> QED
    BY <2>1, <2>2 DEF Window
<1>3. \A k \in 1 .. b - a + 1 : w[k] = f[a + k - 1]
  BY DEF Window
<1>4. \A k \in 1 .. b - a + 2 : v[k] = f[a + k - 2]
  BY DEF Window
<1>5. e \in Seq(S) /\ Len(e) = 1 /\ e[1] = f[a - 1]
  BY <1>0
<1> HIDE DEF w, v, e
<1>6. /\ u \in Seq(S) /\ Len(u) = Len(e) + Len(w)
      /\ \A k \in 1 .. Len(e) + Len(w) : u[k] = IF k <= Len(e) THEN e[k] ELSE w[k - Len(e)]
  BY <1>1, <1>5, ConcatProperties
<1> HIDE DEF u
<1>7. ASSUME NEW k \in 1 .. Len(v) PROVE v[k] = u[k]
  <2>1. u[k] = IF k <= 1 THEN e[k] ELSE w[k - 1]
    BY <1>1, <1>2, <1>5, <1>6
  <2>2. CASE k = 1
    BY <1>1, <1>2, <1>4, <1>5, <2>1, <2>2
  <2>3. CASE k > 1
    <3>1. k - 1 \in 1 .. b - a + 1
      BY <1>2, <2>3
    <3>2. w[k - 1] = f[a + k - 2]
      BY <1>3, <3>1
    <3> QED
      BY <1>2, <1>4, <2>1, <2>3, <3>2
  <2> QED
    BY <1>2, <2>2, <2>3
<1>8. v = u
  BY <1>1, <1>2, <1>5, <1>6, <1>7, SeqEqual
<1> QED
  BY <1>8 DEF u, v, w, e

(* A slot less in front is the Tail. *)
LEMMA WindowTail ==
  ASSUME NEW f, NEW a \in Int, NEW b \in Int, a <= b
  PROVE  /\ Window(f, a, b) # <<>>
         /\ Head(Window(f, a, b)) = f[a]
         /\ Tail(Window(f, a, b)) = Window(f, a + 1, b)
<1> DEFINE S == {f[p] : p \in a .. b}
           w == Window(f, a, b)
           v == Window(f, a + 1, b)
<1>0. \A p \in a .. b : f[p] \in S
  OBVIOUS
<1> HIDE DEF S
<1>1. w \in Seq(S) /\ Len(w) = b - a + 1
  <2> DEFINE n == b - a + 1
  <2>1. n \in Nat
    OBVIOUS
  <2>2. \A k \in 1 .. n : f[a + k - 1] \in S
    BY <1>0
  <2> QED
    BY <2>1, <2>2 DEF Window
<1>2. v \in Seq(S) /\ Len(v) = b - a
  <2> DEFINE n == b - (a + 1) + 1
  <2>1. n \in Nat /\ n = b - a
    OBVIOUS
  <2>2. \A k \in 1 .. n : f[a + 1 + k - 1] \in S
    BY <1>0
  <2> QED
    BY <2>1, <2>2 DEF Window
<1>3. \A k \in 1 .. b - a + 1 : w[k] = f[a + k - 1]
  BY DEF Window
<1>4. \A k \in 1 .. b - a : v[k] = f[a + k]
  BY DEF Window
<1> HIDE DEF w, v
<1>5. w # <<>>
  BY <1>1
<1>6. Head(w) = f[a]
  BY <1>1, <1>3, <1>5
<1>7. /\ Tail(w) \in Seq(S) /\ Len(Tail(w)) = Len(w) - 1
      /\ \A k \in 1 .. Len(Tail(w)) : Tail(w)[k] = w[k + 1]
  BY <1>1, <1>5, HeadTailProperties
<1>8. ASSUME NEW k \in 1 .. Len(v) PROVE v[k] = Tail(w)[k]
  BY <1>1, <1>2, <1>3, <1>4, <1>7
<1>9. v = Tail(w)
  BY <1>1, <1>2, <1>7, <1>8, SeqEqual
<1> QED
  BY <1>5, <1>6, <1>9 DEF v, w

(* A window sees only its own slots. *)
LEMMA WindowSame ==
  ASSUME NEW f, NEW g, NEW a \in Int, NEW b \in Int, \A p \in a .. b : g[p] = f[p]
  PROVE  Window(g, a, b) = Window(f, a, b)
  BY DEF Window

(* First and Last are integers, and at most one apart when nothing is      *)
(* stored: the balance is never negative.                                  *)
LEMMA StoredBounds ==
  ASSUME IInv
  PROVE  First \in Int /\ Last \in Int /\ First <= Last + 1
<1>1. semaphore \in Nat /\ Cardinality(Posting) \in Nat /\ Granted \in Nat
  BY FS_CardinalityType DEF IInv, TypeOK, Balanced, Granted
<1>2. First \in Int /\ Last \in Int
  BY BufferAssumption DEF IInv, TypeOK, First, Last
<1> QED
  BY <1>1, <1>2 DEF IInv, Balanced

(* The slots buffer_cleanup reads are among the stored ones.               *)
LEMMA CleanedStored ==
  ASSUME IInv, \A t \in Threads : pc[t] \in {"idle", "dead"}
  PROVE  Cleaned \subseteq First .. Last
<1>1. /\ head \in Int /\ current \in Int /\ headindex \in Nat /\ endindex \in Nat
      /\ ReallocSize \in Nat /\ ReallocSize > 0
  BY BufferAssumption DEF IInv, TypeOK
<1>2. endindex < ReallocSize
  BY <1>1 DEF IInv, Edges, TypeOK, Threads
<1>3. next[head] # Nil => head + ReallocSize <= current
  BY <1>1 DEF IInv, Chained, TypeOK
<1>4. next[head] = Nil => head = current
  BY <1>1, BufferAssumption DEF IInv, Chained, TypeOK
<1> QED
  BY <1>1, <1>2, <1>3, <1>4 DEF Cleaned, First, Last
-----------------------------------------------------------------------------
(* A step of the queue, or none.                                           *)
QueueStep == [Queue!Next]_(Queue!vars)

(* Every step preserves the invariant, and is to the queue one step or     *)
(* none.                                                                   *)
LEMMA StepCorrect == IInv /\ [Next]_vars => IInv' /\ QueueStep
<1> SUFFICES ASSUME IInv, [Next]_vars PROVE IInv' /\ QueueStep
  OBVIOUS
<1> USE BufferAssumption DEF IInv, Threads, Goto, At, list, local, ended
<1>0. /\ head \in Int /\ current \in Int /\ headindex \in Nat /\ endindex \in Nat
      /\ First \in Int /\ Last \in Int
      /\ semaphore \in Nat /\ Cardinality(Posting) \in Nat
      /\ ReallocSize \in Nat /\ ReallocSize > 0
  BY FS_CardinalityType DEF TypeOK, First, Last, Balanced
<1>1. ASSUME NEW t \in Producers, NEW m \in Msg, PushCall(t, m) PROVE IInv' /\ QueueStep
  <2>1. TypeOK'
    BY <1>1 DEF TypeOK, PushCall, Labels, Locking, Critical
  <2>2. Excluded'
    BY <1>1 DEF Excluded, TypeOK, PushCall, ProducerLabels, LoggerLabels, Labels, Locking, Critical
  <2>3. Carried'
    BY <1>1 DEF Carried, TypeOK, PushCall
  <2>4. Chained'
    BY <1>1 DEF Chained, PushCall
  <2>5. Edges'
    BY <1>1 DEF Edges, Excluded, TypeOK, PushCall, ProducerLabels, LoggerLabels, Labels, Critical, Locking
  <2>6. Stored'
    BY <1>1 DEF Stored, First, Last, PushCall
  <2>7. Balanced'
    <3>1. Posting' = Posting
      BY <1>1 DEF Posting, TypeOK, PushCall, Locking
    <3> QED
      BY <1>1, <3>1 DEF Balanced, Granted, First, Last, TypeOK, Excluded, LoggerLabels, PushCall, Locking
  <2>8. Promised'
    BY <1>1 DEF Promised, TypeOK, PushCall
  <2>9. QueueStep
    <3>1. msg[t] = Nil
      BY <1>1 DEF PushCall, Carried
    <3>2. Contents' = Contents
      BY <1>1 DEF PushCall, Contents, First, Last
    <3> QED
      BY <1>1, <3>1, <3>2 DEF PushCall, QueueStep, Queue!Next, Queue!Obtain
  <2> QED
    BY <2>1, <2>2, <2>3, <2>4, <2>5, <2>6, <2>7, <2>8, <2>9 DEF IInv
<1>2. ASSUME UnpopCall PROVE IInv' /\ QueueStep
  <2>1. TypeOK'
    BY <1>2 DEF TypeOK, UnpopCall, Labels, Locking, Critical
  <2>2. Excluded'
    BY <1>2 DEF Excluded, TypeOK, UnpopCall, ProducerLabels, LoggerLabels, Labels, Locking, Critical
  <2>3. Carried'
    BY <1>2 DEF Carried, TypeOK, UnpopCall
  <2>4. Chained'
    BY <1>2 DEF Chained, UnpopCall
  <2>5. Edges'
    BY <1>2 DEF Edges, Excluded, TypeOK, UnpopCall, ProducerLabels, LoggerLabels, Labels, Critical, Locking
  <2>6. Stored'
    BY <1>2 DEF Stored, First, Last, UnpopCall
  <2>7. Balanced'
    <3>1. Posting' = Posting
      BY <1>2 DEF Posting, TypeOK, UnpopCall, Locking
    <3> QED
      BY <1>2, <3>1 DEF Balanced, Granted, First, Last, TypeOK, Excluded, LoggerLabels, UnpopCall, Locking
  <2>8. Promised'
    BY <1>2 DEF Promised, TypeOK, UnpopCall
  <2>9. QueueStep
    BY <1>2 DEF QueueStep, Queue!vars, Contents, First, Last, UnpopCall
  <2> QED
    BY <2>1, <2>2, <2>3, <2>4, <2>5, <2>6, <2>7, <2>8, <2>9 DEF IInv
<1>3. ASSUME PopCall PROVE IInv' /\ QueueStep
  <2>1. TypeOK'
    BY <1>3 DEF TypeOK, PopCall, Labels, Locking, Critical
  <2>2. Excluded'
    BY <1>3 DEF Excluded, TypeOK, PopCall, ProducerLabels, LoggerLabels, Labels, Locking, Critical
  <2>3. Carried'
    BY <1>3 DEF Carried, TypeOK, PopCall
  <2>4. Chained'
    BY <1>3 DEF Chained, PopCall
  <2>5. Edges'
    BY <1>3 DEF Edges, Excluded, TypeOK, PopCall, ProducerLabels, LoggerLabels, Labels, Critical, Locking
  <2>6. Stored'
    BY <1>3 DEF Stored, First, Last, PopCall
  <2>7. Balanced'
    <3>1. Posting' = Posting
      BY <1>3 DEF Posting, TypeOK, PopCall, Locking
    <3> QED
      BY <1>3, <3>1 DEF Balanced, Granted, First, Last, TypeOK, Excluded, LoggerLabels, PopCall, Locking
  <2>8. Promised'
    BY <1>3 DEF Promised, TypeOK, PopCall
  <2>9. QueueStep
    <3>1. Contents' = Contents /\ closed' = closed /\ fresh' = fresh
      BY <1>3 DEF PopCall, Contents, First, Last
    <3>2. CASE msg[Logger] = Nil
      <4>1. msg' = msg
        BY <1>3, <3>2 DEF PopCall, TypeOK
      <4> QED
        BY <3>1, <4>1 DEF QueueStep, Queue!vars
    <3>3. CASE msg[Logger] # Nil
      BY <1>3, <3>1, <3>3 DEF PopCall, QueueStep, Queue!Next, Queue!Discard
    <3> QED
      BY <3>2, <3>3
  <2> QED
    BY <2>1, <2>2, <2>3, <2>4, <2>5, <2>6, <2>7, <2>8, <2>9 DEF IInv
<1>4. ASSUME Size PROVE IInv' /\ QueueStep
  <2>1. TypeOK'
    BY <1>4 DEF TypeOK, Size, Labels, Locking, Critical
  <2>2. Excluded'
    BY <1>4 DEF Excluded, TypeOK, Size, ProducerLabels, LoggerLabels, Labels, Locking, Critical
  <2>3. Carried'
    BY <1>4 DEF Carried, TypeOK, Size
  <2>4. Chained'
    BY <1>4 DEF Chained, Size
  <2>5. Edges'
    BY <1>4 DEF Edges, Excluded, TypeOK, Size, ProducerLabels, LoggerLabels, Labels, Critical, Locking
  <2>6. Stored'
    BY <1>4 DEF Stored, First, Last, Size
  <2>7. Balanced'
    <3>1. Posting' = Posting
      BY <1>4 DEF Posting, TypeOK, Size, Locking
    <3> QED
      BY <1>4, <3>1 DEF Balanced, Granted, First, Last, TypeOK, Excluded, LoggerLabels, Size, Locking
  <2>8. Promised'
    BY <1>4 DEF Promised, TypeOK, Size
  <2>9. QueueStep
    BY <1>4 DEF QueueStep, Queue!vars, Contents, First, Last, Size
  <2> QED
    BY <2>1, <2>2, <2>3, <2>4, <2>5, <2>6, <2>7, <2>8, <2>9 DEF IInv
<1>5. ASSUME NEW t \in Threads, PopWait(t) PROVE IInv' /\ QueueStep
  <2>1. TypeOK'
    BY <1>5 DEF TypeOK, PopWait, Labels, Locking, Critical
  <2>2. Excluded'
    BY <1>5 DEF Excluded, TypeOK, PopWait, ProducerLabels, LoggerLabels, Labels, Locking, Critical
  <2>3. Carried'
    BY <1>5 DEF Carried, TypeOK, PopWait
  <2>4. Chained'
    BY <1>5 DEF Chained, PopWait
  <2>5. Edges'
    BY <1>5 DEF Edges, Excluded, TypeOK, PopWait, ProducerLabels, LoggerLabels, Labels, Critical, Locking
  <2>6. Stored'
    BY <1>5 DEF Stored, First, Last, PopWait
  <2>7. Balanced'
    <3>1. Posting' = Posting
      BY <1>5 DEF Posting, TypeOK, PopWait
    <3>2. Granted = 0 /\ Granted' = 1
      BY <1>5 DEF Granted, PopWait, Excluded, TypeOK, ProducerLabels
    <3>3. First' = First /\ Last' = Last /\ semaphore' = semaphore - 1
      BY <1>5 DEF First, Last, PopWait
    <3> QED
      BY <1>0, <3>1, <3>2, <3>3 DEF Balanced
  <2>8. Promised'
    BY <1>5 DEF Promised, TypeOK, PopWait
  <2>9. QueueStep
    BY <1>5 DEF QueueStep, Queue!vars, Contents, First, Last, PopWait
  <2> QED
    BY <2>1, <2>2, <2>3, <2>4, <2>5, <2>6, <2>7, <2>8, <2>9 DEF IInv
<1>6. ASSUME NEW t \in Threads, Lock(t) PROVE IInv' /\ QueueStep
  <2>1. TypeOK'
    BY <1>6 DEF TypeOK, Lock, Labels, Locking, Critical
  <2>2. Excluded'
    BY <1>6 DEF Excluded, TypeOK, Lock, ProducerLabels, LoggerLabels, Labels, Locking, Critical
  <2>3. Carried'
    <3>1. /\ UNCHANGED <<msg, closed>>
          /\ \A u \in Threads : u # t => pc'[u] = pc[u]
      BY <1>6 DEF Lock, TypeOK
    <3>2. \/ pc[t] = "push_lock" /\ pc'[t] = "push_store"
          \/ pc[t] = "unpop_lock" /\ pc'[t] \in {"unpop_grow", "unpop_store"}
          \/ pc[t] = "pop_lock" /\ pc'[t] = "pop_take"
      <4>1. CASE pc[t] = "push_lock" /\ pc' = [pc EXCEPT ![t] = "push_store"]
        BY <4>1 DEF TypeOK
      <4>2. CASE pc[t] = "unpop_lock" /\ pc' = [pc EXCEPT ![t] = IF headindex = 0 THEN "unpop_grow"
                                                                                  ELSE "unpop_store"]
        BY <4>2 DEF TypeOK
      <4>3. CASE pc[t] = "pop_lock" /\ pc' = [pc EXCEPT ![t] = "pop_take"]
        BY <4>3 DEF TypeOK
      <4> QED
        BY <1>6, <4>1, <4>2, <4>3 DEF Lock
    <3>3. \A u \in Threads :
            pc'[u] \in {"push_lock", "push_store", "unpop_lock", "unpop_grow", "unpop_store"} =>
              msg'[u] \in Msg
      BY <3>1, <3>2 DEF Carried
    <3>4. \A u \in Producers : pc'[u] \notin {"push_lock", "push_store"} => msg'[u] = Nil
      BY <3>1, <3>2 DEF Carried, Excluded, ProducerLabels
    <3>5. pc'[Logger] \in {"pop_wait", "pop_lock", "pop_take"} => msg'[Logger] = Nil
      BY <3>1, <3>2 DEF Carried
    <3>6. ~closed'
      BY <3>1, <3>2 DEF Carried
    <3> QED
      BY <3>3, <3>4, <3>5, <3>6 DEF Carried
  <2>4. Chained'
    BY <1>6 DEF Chained, Lock
  <2>5. Edges'
    BY <1>6 DEF Edges, Excluded, TypeOK, Lock, ProducerLabels, LoggerLabels, Labels, Critical, Locking
  <2>6. Stored'
    BY <1>6 DEF Stored, First, Last, Lock
  <2>7. Balanced'
    <3>1. Posting' = Posting
      BY <1>6 DEF Posting, TypeOK, Lock, Locking
    <3> QED
      BY <1>6, <3>1 DEF Balanced, Granted, First, Last, TypeOK, Excluded, LoggerLabels, Lock, Locking
  <2>8. Promised'
    BY <1>6 DEF Promised, TypeOK, Lock
  <2>9. QueueStep
    BY <1>6 DEF QueueStep, Queue!vars, Contents, First, Last, Lock
  <2> QED
    BY <2>1, <2>2, <2>3, <2>4, <2>5, <2>6, <2>7, <2>8, <2>9 DEF IInv
<1>7. ASSUME NEW t \in Threads, PushStore(t) PROVE IInv' /\ QueueStep
  <2>a. t \in Producers /\ mutex = t /\ msg[t] \in Msg
    BY <1>7 DEF PushStore, Excluded, LoggerLabels, Carried, Critical
  <2>b. endindex < ReallocSize
    BY <1>7, <1>0, <2>a DEF PushStore, Edges, Excluded, TypeOK, Critical
  <2>c. current + endindex \in DOMAIN slot
    BY <1>0, <2>b DEF Chained, TypeOK
  <2>d. DOMAIN slot' = DOMAIN slot /\ slot'[current + endindex] = msg[t]
        /\ \A p \in DOMAIN slot : p # current + endindex => slot'[p] = slot[p]
    BY <1>7, <2>c DEF PushStore
  <2>e. First' = First /\ Last' = Last + 1 /\ Last' = current + endindex
    BY <1>7, <1>0 DEF PushStore, First, Last
  <2>f. \A p \in First .. Last : p \in DOMAIN slot /\ p # current + endindex
    BY <1>0, <2>b, <2>e DEF Chained, First, Last
  <2>1. TypeOK'
    <3>1. \A p \in DOMAIN slot' : p \in Int /\ slot'[p] \in Msg \cup {Junk}
      BY <2>a, <2>c, <2>d DEF TypeOK
    <3>2. endindex' \in 0 .. ReallocSize
      BY <1>7, <1>0, <2>b DEF PushStore
    <3> QED
      BY <1>7, <3>1, <3>2 DEF TypeOK, PushStore, Labels, Locking, Critical
  <2>2. Excluded'
    BY <1>7 DEF Excluded, TypeOK, PushStore, ProducerLabels, LoggerLabels, Labels, Locking, Critical
  <2>3. Carried'
    BY <1>7 DEF Carried, TypeOK, PushStore
  <2>4. Chained'
    BY <1>7 DEF Chained, PushStore
  <2>5. Edges'
    BY <1>7 DEF Edges, Excluded, TypeOK, PushStore, ProducerLabels, LoggerLabels, Labels, Critical, Locking
  <2>6. Stored'
    <3>1. \A p \in First .. Last : slot'[p] \in Msg
      BY <2>d, <2>f DEF Stored
    <3> QED
      BY <1>0, <2>a, <2>d, <2>e, <3>1 DEF Stored
  <2>7. Balanced'
    <3>1. Posting' = Posting \cup {t} /\ t \notin Posting
      BY <1>7 DEF Posting, TypeOK, PushStore
    <3>2. Cardinality(Posting') = Cardinality(Posting) + 1 /\ IsFiniteSet(Posting')
      BY <3>1, FS_AddElement DEF Balanced
    <3>3. Granted' = Granted /\ semaphore' = semaphore
      BY <1>7, <2>a DEF Granted, PushStore, TypeOK
    <3>4. Granted \in Int
      BY DEF Granted
    <3> QED
      BY <1>0, <2>e, <3>2, <3>3, <3>4 DEF Balanced
  <2>8. Promised'
    BY <1>7 DEF Promised, TypeOK, PushStore
  <2>9. QueueStep
    <3>1. ~closed /\ ~closed' /\ fresh' = fresh /\ msg' = [msg EXCEPT ![t] = Nil] /\ msg[t] # Nil
      BY <1>7, <2>a DEF PushStore, Carried
    <3>2. slot'[Last + 1] = msg[t] /\ First <= Last + 1
      BY <1>0, <2>a, <2>d, <2>e, StoredBounds
    <3>3. /\ \A p \in First .. Last : slot[p] \in Msg
          /\ \A p \in First .. Last : slot'[p] = slot[p]
      BY <2>d, <2>f DEF Stored
    <3>4. Window(slot', First, Last + 1) = Append(Window(slot, First, Last), slot'[Last + 1])
      <4>1. Window(slot', First, Last) = Window(slot, First, Last)
        BY <1>0, <3>3, WindowSame
      <4> QED
        BY <1>0, <3>2, <4>1, WindowAppend
    <3>5. Contents' = Append(Contents, msg[t])
      BY <2>e, <3>2, <3>4 DEF Contents
    <3> QED
      BY <2>a, <3>1, <3>5 DEF QueueStep, Queue!Next, Queue!Push
  <2> QED
    BY <2>1, <2>2, <2>3, <2>4, <2>5, <2>6, <2>7, <2>8, <2>9 DEF IInv
<1>8. ASSUME NEW t \in Threads, PushGrow(t) PROVE IInv' /\ QueueStep
  <2>a. t \in Producers /\ mutex = t /\ endindex = ReallocSize
    BY <1>8 DEF PushGrow, Excluded, LoggerLabels, Critical, Edges
  <2>b. /\ DOMAIN slot = head .. current + ReallocSize - 1
        /\ DOMAIN slot' = DOMAIN slot \cup Slots(current + ReallocSize)
        /\ \A p \in DOMAIN slot : slot'[p] = slot[p]
        /\ \A p \in Slots(current + ReallocSize) : slot'[p] = Junk
    BY <1>8, <1>0 DEF PushGrow, Extend, Slots, Chained
  <2>c. /\ DOMAIN next' = DOMAIN next \cup {current + ReallocSize}
        /\ current \in DOMAIN next /\ current + ReallocSize \notin DOMAIN next
        /\ next'[current] = current + ReallocSize
        /\ next'[current + ReallocSize] = Nil
        /\ \A c \in DOMAIN next : c # current => next'[c] = next[c]
    <3>1. current \in DOMAIN next /\ current + ReallocSize \notin DOMAIN next
      BY <1>0 DEF Chained, TypeOK
    <3>2. next' = Extend([next EXCEPT ![current] = current + ReallocSize],
                         {current + ReallocSize}, Nil)
      BY <1>8 DEF PushGrow
    <3> QED
      BY <1>0, <3>1, <3>2 DEF Extend
  <2>d. First' = First /\ Last' = Last /\ head' = head /\ current' = current + ReallocSize
    BY <1>8, <1>0, <2>a DEF PushGrow, First, Last
  <2>e. \A p \in First .. Last : p \in DOMAIN slot /\ slot'[p] = slot[p]
    BY <1>0, <2>a, <2>b DEF First, Last
  <2>1. TypeOK'
    <3>1. \A c \in DOMAIN next' : c \in Int /\ next'[c] \in Int \cup {Nil}
      BY <1>0, <2>c DEF TypeOK
    <3>2. \A p \in DOMAIN slot' : p \in Int /\ slot'[p] \in Msg \cup {Junk}
      BY <1>0, <2>b DEF TypeOK, Slots
    <3>3. head' \in DOMAIN next' /\ current' \in DOMAIN next'
      BY <2>c, <2>d DEF TypeOK
    <3>4. endindex' \in 0 .. ReallocSize
      BY <1>8, <1>0 DEF PushGrow
    <3> QED
      BY <1>8, <3>1, <3>2, <3>3, <3>4 DEF TypeOK, PushGrow, Labels, Locking, Critical
  <2>2. Excluded'
    BY <1>8 DEF Excluded, TypeOK, PushGrow, ProducerLabels, LoggerLabels, Labels, Locking, Critical
  <2>3. Carried'
    BY <1>8 DEF Carried, TypeOK, PushGrow
  <2>4. Chained'
    <3>1. DOMAIN slot' = head' .. current' + ReallocSize - 1
      BY <1>0, <2>b, <2>d DEF Slots, Chained, TypeOK
    <3>2. ASSUME NEW c \in DOMAIN next'
          PROVE /\ head' <= c /\ c <= current'
                /\ c = current' => next'[c] = Nil
                /\ c # current' => next'[c] = c + ReallocSize /\ c + ReallocSize \in DOMAIN next'
      BY <1>0, <2>c, <2>d DEF Chained, TypeOK
    <3>3. \A c, d \in DOMAIN next' : c < d => c + ReallocSize <= d
      BY <1>0, <2>c, <2>d DEF Chained, TypeOK
    <3> QED
      BY <3>1, <3>2, <3>3, <1>8 DEF Chained, PushGrow
  <2>5. Edges'
    BY <1>8 DEF Edges, Excluded, TypeOK, PushGrow, ProducerLabels, LoggerLabels, Labels, Critical, Locking
  <2>6. Stored'
    BY <2>d, <2>e DEF Stored
  <2>7. Balanced'
    <3>1. Posting' = Posting
      BY <1>8 DEF Posting, TypeOK, PushGrow
    <3>2. Granted' = Granted /\ semaphore' = semaphore
      BY <1>8, <2>a DEF Granted, PushGrow, TypeOK
    <3> QED
      BY <2>d, <3>1, <3>2 DEF Balanced
  <2>8. Promised'
    BY <1>8 DEF Promised, TypeOK, PushGrow
  <2>9. QueueStep
    <3>1. \A p \in First .. Last : slot'[p] = slot[p]
      BY <2>e
    <3>2. Window(slot', First, Last) = Window(slot, First, Last)
      BY <1>0, <3>1, WindowSame
    <3>3. Contents' = Contents
      BY <2>d, <3>2 DEF Contents
    <3> QED
      BY <1>8, <3>3 DEF PushGrow, QueueStep, Queue!vars
  <2> QED
    BY <2>1, <2>2, <2>3, <2>4, <2>5, <2>6, <2>7, <2>8, <2>9 DEF IInv
<1>9. ASSUME NEW t \in Threads, UnpopGrow(t) PROVE IInv' /\ QueueStep
  <2>a. t = Logger /\ mutex = t /\ headindex = 0
    BY <1>9 DEF UnpopGrow, Excluded, ProducerLabels, Critical, Edges
  <2>b. /\ DOMAIN slot = head .. current + ReallocSize - 1
        /\ DOMAIN slot' = DOMAIN slot \cup Slots(head - ReallocSize)
        /\ \A p \in DOMAIN slot : slot'[p] = slot[p]
        /\ \A p \in Slots(head - ReallocSize) : slot'[p] = Junk
    BY <1>9, <1>0 DEF UnpopGrow, Extend, Slots, Chained
  <2>c. /\ DOMAIN next' = DOMAIN next \cup {head - ReallocSize}
        /\ head \in DOMAIN next /\ head - ReallocSize \notin DOMAIN next
        /\ next'[head - ReallocSize] = head
        /\ \A c \in DOMAIN next : next'[c] = next[c]
    <3>1. head \in DOMAIN next /\ head - ReallocSize \notin DOMAIN next
      BY <1>0 DEF Chained, TypeOK
    <3>2. next' = Extend(next, {head - ReallocSize}, head)
      BY <1>9 DEF UnpopGrow
    <3> QED
      BY <1>0, <3>1, <3>2 DEF Extend
  <2>d. First' = First /\ Last' = Last /\ head' = head - ReallocSize /\ current' = current
    BY <1>9, <1>0, <2>a DEF UnpopGrow, First, Last
  <2>e. \A p \in First .. Last : p \in DOMAIN slot /\ slot'[p] = slot[p]
    BY <1>0, <2>a, <2>b DEF First, Last, TypeOK
  <2>1. TypeOK'
    <3>1. \A c \in DOMAIN next' : c \in Int /\ next'[c] \in Int \cup {Nil}
      BY <1>0, <2>c DEF TypeOK
    <3>2. \A p \in DOMAIN slot' : p \in Int /\ slot'[p] \in Msg \cup {Junk}
      BY <1>0, <2>b DEF TypeOK, Slots
    <3>3. head' \in DOMAIN next' /\ current' \in DOMAIN next'
      BY <2>c, <2>d DEF TypeOK
    <3>4. headindex' \in 0 .. ReallocSize
      BY <1>9, <1>0 DEF UnpopGrow
    <3> QED
      BY <1>9, <3>1, <3>2, <3>3, <3>4 DEF TypeOK, UnpopGrow, Labels, Locking, Critical
  <2>2. Excluded'
    BY <1>9 DEF Excluded, TypeOK, UnpopGrow, ProducerLabels, LoggerLabels, Labels, Locking, Critical
  <2>3. Carried'
    BY <1>9 DEF Carried, TypeOK, UnpopGrow
  <2>4. Chained'
    <3>1. DOMAIN slot' = head' .. current' + ReallocSize - 1
      BY <1>0, <2>b, <2>d DEF Slots, Chained, TypeOK
    <3>2. ASSUME NEW c \in DOMAIN next'
          PROVE /\ head' <= c /\ c <= current'
                /\ c = current' => next'[c] = Nil
                /\ c # current' => next'[c] = c + ReallocSize /\ c + ReallocSize \in DOMAIN next'
      BY <1>0, <2>c, <2>d DEF Chained, TypeOK
    <3>3. \A c, d \in DOMAIN next' : c < d => c + ReallocSize <= d
      BY <1>0, <2>c, <2>d DEF Chained, TypeOK
    <3> QED
      BY <3>1, <3>2, <3>3, <1>9 DEF Chained, UnpopGrow
  <2>5. Edges'
    BY <1>9 DEF Edges, Excluded, TypeOK, UnpopGrow, ProducerLabels, LoggerLabels, Labels, Critical, Locking
  <2>6. Stored'
    BY <2>d, <2>e DEF Stored
  <2>7. Balanced'
    <3>1. Posting' = Posting
      BY <1>9 DEF Posting, TypeOK, UnpopGrow
    <3>2. Granted' = Granted /\ semaphore' = semaphore
      BY <1>9, <2>a DEF Granted, UnpopGrow, TypeOK
    <3> QED
      BY <2>d, <3>1, <3>2 DEF Balanced
  <2>8. Promised'
    BY <1>9 DEF Promised, TypeOK, UnpopGrow
  <2>9. QueueStep
    <3>1. \A p \in First .. Last : slot'[p] = slot[p]
      BY <2>e
    <3>2. Window(slot', First, Last) = Window(slot, First, Last)
      BY <1>0, <3>1, WindowSame
    <3>3. Contents' = Contents
      BY <2>d, <3>2 DEF Contents
    <3> QED
      BY <1>9, <3>3 DEF UnpopGrow, QueueStep, Queue!vars
  <2> QED
    BY <2>1, <2>2, <2>3, <2>4, <2>5, <2>6, <2>7, <2>8, <2>9 DEF IInv
<1>10. ASSUME NEW t \in Threads, UnpopStore(t) PROVE IInv' /\ QueueStep
  <2>a. t = Logger /\ mutex = t /\ msg[t] \in Msg /\ headindex > 0 /\ headindex <= ReallocSize
    BY <1>10 DEF UnpopStore, Excluded, ProducerLabels, Carried, Critical, Edges, TypeOK
  <2>b. head + headindex - 1 \in DOMAIN slot
    BY <1>0, <2>a DEF Chained, TypeOK
  <2>c. DOMAIN slot' = DOMAIN slot /\ slot'[head + headindex - 1] = msg[t]
        /\ \A p \in DOMAIN slot : p # head + headindex - 1 => slot'[p] = slot[p]
    BY <1>10, <2>b DEF UnpopStore
  <2>d. First' = First - 1 /\ Last' = Last /\ First' = head + headindex - 1
    BY <1>10, <1>0 DEF UnpopStore, First, Last
  <2>e. endindex < ReallocSize
    BY <1>0, <2>a DEF Edges, Excluded, TypeOK, Critical
  <2>f. \A p \in First .. Last : p \in DOMAIN slot /\ p # head + headindex - 1
    <3>1. DOMAIN slot = head .. current + ReallocSize - 1
      BY DEF Chained
    <3> QED
      BY <1>0, <2>a, <2>e, <3>1 DEF First, Last
  <2>1. TypeOK'
    <3>1. \A p \in DOMAIN slot' : p \in Int /\ slot'[p] \in Msg \cup {Junk}
      BY <2>a, <2>b, <2>c DEF TypeOK
    <3>2. headindex' \in 0 .. ReallocSize
      BY <1>10, <1>0, <2>a DEF UnpopStore
    <3> QED
      BY <1>10, <3>1, <3>2 DEF TypeOK, UnpopStore, Labels, Locking, Critical
  <2>2. Excluded'
    BY <1>10 DEF Excluded, TypeOK, UnpopStore, ProducerLabels, LoggerLabels, Labels, Locking, Critical
  <2>3. Carried'
    BY <1>10 DEF Carried, TypeOK, UnpopStore
  <2>4. Chained'
    BY <1>10 DEF Chained, UnpopStore
  <2>5. Edges'
    BY <1>10 DEF Edges, Excluded, TypeOK, UnpopStore, ProducerLabels, LoggerLabels, Labels, Critical, Locking
  <2>6. Stored'
    <3>1. \A p \in First .. Last : slot'[p] \in Msg
      BY <2>c, <2>f DEF Stored
    <3> QED
      BY <1>0, <2>a, <2>c, <2>d, <3>1 DEF Stored
  <2>7. Balanced'
    <3>1. Posting' = Posting \cup {t} /\ t \notin Posting
      BY <1>10 DEF Posting, TypeOK, UnpopStore
    <3>2. Cardinality(Posting') = Cardinality(Posting) + 1 /\ IsFiniteSet(Posting')
      BY <3>1, FS_AddElement DEF Balanced
    <3>3. Granted' = Granted /\ semaphore' = semaphore
      BY <1>10, <2>a DEF Granted, UnpopStore, TypeOK
    <3>4. Granted \in Int
      BY DEF Granted
    <3> QED
      BY <1>0, <2>d, <3>2, <3>3, <3>4 DEF Balanced
  <2>8. Promised'
    BY <1>10 DEF Promised, TypeOK, UnpopStore
  <2>9. QueueStep
    <3>1. ~closed /\ ~closed' /\ fresh' = fresh /\ msg' = [msg EXCEPT ![t] = Nil] /\ msg[t] # Nil
      BY <1>10, <2>a DEF UnpopStore, Carried
    <3>2. slot'[First - 1] = msg[t] /\ First <= Last + 1
      BY <1>0, <2>a, <2>c, <2>d, StoredBounds
    <3>3. /\ \A p \in First .. Last : slot[p] \in Msg
          /\ \A p \in First .. Last : slot'[p] = slot[p]
      BY <2>c, <2>f DEF Stored
    <3>4. Window(slot', First - 1, Last) = <<slot'[First - 1]>> \o Window(slot, First, Last)
      <4>1. Window(slot', First, Last) = Window(slot, First, Last)
        BY <1>0, <3>3, WindowSame
      <4> QED
        BY <1>0, <3>2, <4>1, WindowCons
    <3>5. Contents' = <<msg[t]>> \o Contents
      BY <2>d, <3>2, <3>4 DEF Contents
    <3> QED
      BY <2>a, <3>1, <3>5 DEF QueueStep, Queue!Next, Queue!Unpop
  <2> QED
    BY <2>1, <2>2, <2>3, <2>4, <2>5, <2>6, <2>7, <2>8, <2>9 DEF IInv
<1>11. ASSUME NEW t \in Threads, PopTake(t) PROVE IInv' /\ QueueStep
  <2>a. t = Logger /\ mutex = t /\ Granted = 1 /\ headindex < ReallocSize
    BY <1>11, <1>0 DEF PopTake, Excluded, ProducerLabels, Critical, Granted, Edges, TypeOK
  <2>b. First <= Last
    BY <1>0, <2>a DEF Balanced
  <2>c. slot[head + headindex] \in Msg
    BY <1>0, <2>b DEF Stored, First
  <2>d. First' = First + 1 /\ Last' = Last
    BY <1>11, <1>0 DEF PopTake, First, Last
  <2>1. TypeOK'
    <3>1. headindex' \in 0 .. ReallocSize
      BY <1>11, <1>0, <2>a DEF PopTake
    <3>2. msg' \in [Threads -> Msg \cup {Nil}]
      BY <1>11, <2>c DEF PopTake, TypeOK
    <3> QED
      BY <1>11, <3>1, <3>2 DEF TypeOK, PopTake, Labels, Locking, Critical
  <2>2. Excluded'
    BY <1>11 DEF Excluded, TypeOK, PopTake, ProducerLabels, LoggerLabels, Labels, Locking, Critical
  <2>3. Carried'
    BY <1>11, <2>a DEF Carried, PopTake, TypeOK
  <2>4. Chained'
    BY <1>11 DEF Chained, PopTake
  <2>5. Edges'
    BY <1>11 DEF Edges, Excluded, TypeOK, PopTake, ProducerLabels, LoggerLabels, Labels, Critical, Locking
  <2>6. Stored'
    BY <1>11, <1>0, <2>d DEF Stored, PopTake
  <2>7. Balanced'
    <3>1. Posting' = Posting
      BY <1>11 DEF Posting, TypeOK, PopTake
    <3>2. Granted' = 0 /\ semaphore' = semaphore
      BY <1>11, <2>a DEF Granted, PopTake, TypeOK
    <3> QED
      BY <1>0, <2>a, <2>d, <3>1, <3>2 DEF Balanced
  <2>8. Promised'
    BY <1>11 DEF Promised, TypeOK, PopTake
  <2>9. QueueStep
    <3>1. ~closed /\ ~closed' /\ fresh' = fresh /\ msg[t] = Nil
          /\ msg' = [msg EXCEPT ![t] = slot[First]] /\ slot' = slot
      BY <1>11, <2>a DEF PopTake, Carried, First
    <3>2. \A p \in First .. Last : slot[p] \in Msg
      BY DEF Stored
    <3>3. Contents # <<>> /\ Head(Contents) = slot[First]
          /\ Tail(Contents) = Window(slot, First + 1, Last)
      BY <1>0, <2>b, <3>2, WindowTail DEF Contents
    <3>4. Contents' = Tail(Contents)
      BY <2>d, <3>1, <3>3 DEF Contents
    <3> QED
      BY <2>a, <3>1, <3>3, <3>4 DEF QueueStep, Queue!Next, Queue!Pop
  <2> QED
    BY <2>1, <2>2, <2>3, <2>4, <2>5, <2>6, <2>7, <2>8, <2>9 DEF IInv
<1>12. ASSUME NEW t \in Threads, PopDrop(t) PROVE IInv' /\ QueueStep
  <2>a. t = Logger /\ mutex = t /\ Granted = 0 /\ headindex = ReallocSize
    BY <1>12, <1>0 DEF PopDrop, Excluded, ProducerLabels, Critical, Granted, Edges, TypeOK
  <2>b. endindex < ReallocSize
    BY <1>0, <2>a DEF Edges, Excluded, TypeOK, Critical
  <2>c. head < current
    BY <1>0, <2>a, <2>b DEF Balanced, First, Last
  <2>d. head' = head + ReallocSize /\ next[head] \in DOMAIN next /\ current' = current
    BY <1>12, <1>0, <2>c DEF PopDrop, Chained, TypeOK
  <2>e. /\ DOMAIN next' = DOMAIN next \ {head}
        /\ \A c \in DOMAIN next' : next'[c] = next[c]
    BY <1>12 DEF PopDrop, Remove
  <2>f. /\ DOMAIN slot' = DOMAIN slot \ Slots(head)
        /\ \A p \in DOMAIN slot' : slot'[p] = slot[p]
    BY <1>12 DEF PopDrop, Remove
  <2>g. First' = First /\ Last' = Last
    BY <1>12, <1>0, <2>a, <2>d DEF PopDrop, First, Last
  <2>1. TypeOK'
    <3>1. \A c \in DOMAIN next' : c \in Int /\ next'[c] \in Int \cup {Nil}
      BY <2>e DEF TypeOK
    <3>2. \A p \in DOMAIN slot' : p \in Int /\ slot'[p] \in Msg \cup {Junk}
      BY <2>f DEF TypeOK
    <3>3. head' \in DOMAIN next' /\ current' \in DOMAIN next'
      <4>1. head # next[head] /\ head # current /\ current \in DOMAIN next
        BY <1>0, <2>c DEF TypeOK, Chained
      <4>2. head' = next[head]
        BY <1>12 DEF PopDrop
      <4> QED
        BY <2>d, <2>e, <4>1, <4>2
    <3>4. headindex' \in 0 .. ReallocSize
      BY <1>12, <1>0 DEF PopDrop
    <3> QED
      BY <1>12, <3>1, <3>2, <3>3, <3>4 DEF TypeOK, PopDrop, Labels, Locking, Critical
  <2>2. Excluded'
    BY <1>12 DEF Excluded, TypeOK, PopDrop, ProducerLabels, LoggerLabels, Labels, Locking, Critical
  <2>3. Carried'
    BY <1>12 DEF Carried, TypeOK, PopDrop
  <2>4. Chained'
    <3>1. DOMAIN slot' = head' .. current' + ReallocSize - 1
      BY <1>0, <2>c, <2>d, <2>f DEF Slots, Chained, TypeOK
    <3>2. ASSUME NEW c \in DOMAIN next'
          PROVE /\ head' <= c /\ c <= current'
                /\ c = current' => next'[c] = Nil
                /\ c # current' => next'[c] = c + ReallocSize /\ c + ReallocSize \in DOMAIN next'
      BY <1>0, <2>d, <2>e DEF Chained, TypeOK
    <3>3. \A c, d \in DOMAIN next' : c < d => c + ReallocSize <= d
      BY <2>e DEF Chained
    <3> QED
      BY <3>1, <3>2, <3>3, <1>12 DEF Chained, PopDrop
  <2>5. Edges'
    BY <1>12 DEF Edges, Excluded, TypeOK, PopDrop, ProducerLabels, LoggerLabels, Labels, Critical, Locking
  <2>6. Stored'
    <3>1. ASSUME NEW p \in First .. Last PROVE p \in DOMAIN slot'
      BY <1>0, <2>a, <2>b, <2>c, <2>f DEF Chained, Slots, First, Last
    <3> QED
      BY <2>f, <2>g, <3>1 DEF Stored
  <2>7. Balanced'
    <3>1. Posting' = Posting
      BY <1>12 DEF Posting, TypeOK, PopDrop
    <3>2. Granted' = 0 /\ semaphore' = semaphore
      BY <1>12, <2>a DEF Granted, PopDrop, TypeOK
    <3> QED
      BY <2>a, <2>g, <3>1, <3>2 DEF Balanced
  <2>8. Promised'
    BY <1>12 DEF Promised, TypeOK, PopDrop
  <2>9. QueueStep
    <3>1. \A p \in First .. Last : slot'[p] = slot[p]
      BY <1>0, <2>a, <2>b, <2>c, <2>f DEF First, Last, Chained, Slots
    <3>2. Window(slot', First, Last) = Window(slot, First, Last)
      BY <1>0, <3>1, WindowSame
    <3>3. Contents' = Contents
      BY <2>g, <3>2 DEF Contents
    <3> QED
      BY <1>12, <3>3 DEF PopDrop, QueueStep, Queue!vars
  <2> QED
    BY <2>1, <2>2, <2>3, <2>4, <2>5, <2>6, <2>7, <2>8, <2>9 DEF IInv
<1>13. ASSUME NEW t \in Threads, Unlock(t) PROVE IInv' /\ QueueStep
  <2>1. TypeOK'
    BY <1>13 DEF TypeOK, Unlock, Labels, Locking, Critical
  <2>2. Excluded'
    BY <1>13 DEF Excluded, TypeOK, Unlock, ProducerLabels, LoggerLabels, Labels, Locking, Critical
  <2>3. Carried'
    BY <1>13 DEF Carried, TypeOK, Unlock
  <2>4. Chained'
    BY <1>13 DEF Chained, Unlock
  <2>5. Edges'
    BY <1>13 DEF Edges, Excluded, TypeOK, Unlock, ProducerLabels, LoggerLabels, Labels, Critical, Locking
  <2>6. Stored'
    BY <1>13 DEF Stored, First, Last, Unlock
  <2>7. Balanced'
    <3>1. Posting' = Posting
      BY <1>13 DEF Posting, TypeOK, Unlock, Locking
    <3> QED
      BY <1>13, <3>1 DEF Balanced, Granted, First, Last, TypeOK, Excluded, LoggerLabels, Unlock, Locking
  <2>8. Promised'
    BY <1>13 DEF Promised, TypeOK, Unlock
  <2>9. QueueStep
    BY <1>13 DEF QueueStep, Queue!vars, Contents, First, Last, Unlock
  <2> QED
    BY <2>1, <2>2, <2>3, <2>4, <2>5, <2>6, <2>7, <2>8, <2>9 DEF IInv
<1>14. ASSUME NEW t \in Threads, Post(t) PROVE IInv' /\ QueueStep
  <2>1. TypeOK'
    BY <1>14 DEF TypeOK, Post, Labels, Locking, Critical
  <2>2. Excluded'
    BY <1>14 DEF Excluded, TypeOK, Post, ProducerLabels, LoggerLabels, Labels, Locking, Critical
  <2>3. Carried'
    BY <1>14 DEF Carried, TypeOK, Post
  <2>4. Chained'
    BY <1>14 DEF Chained, Post
  <2>5. Edges'
    BY <1>14 DEF Edges, Excluded, TypeOK, Post, ProducerLabels, LoggerLabels, Labels, Critical, Locking
  <2>6. Stored'
    BY <1>14 DEF Stored, First, Last, Post
  <2>7. Balanced'
    <3>1. Posting' = Posting \ {t} /\ t \in Posting
      BY <1>14 DEF Posting, TypeOK, Post
    <3>2. Cardinality(Posting') = Cardinality(Posting) - 1 /\ IsFiniteSet(Posting')
      BY <3>1, FS_RemoveElement DEF Balanced
    <3>3. Granted' = Granted /\ semaphore' = semaphore + 1
      BY <1>14 DEF Granted, Post, TypeOK
    <3>4. First' = First /\ Last' = Last
      BY <1>14 DEF Post, First, Last
    <3>5. Granted \in Int
      BY DEF Granted
    <3> QED
      BY <1>0, <3>2, <3>3, <3>4, <3>5 DEF Balanced
  <2>8. Promised'
    BY <1>14 DEF Promised, TypeOK, Post
  <2>9. QueueStep
    BY <1>14 DEF QueueStep, Queue!vars, Contents, First, Last, Post
  <2> QED
    BY <2>1, <2>2, <2>3, <2>4, <2>5, <2>6, <2>7, <2>8, <2>9 DEF IInv
<1>15. ASSUME NEW t \in Threads, Return(t) PROVE IInv' /\ QueueStep
  <2>1. TypeOK'
    BY <1>15 DEF TypeOK, Return, Labels, Locking, Critical
  <2>2. Excluded'
    BY <1>15 DEF Excluded, TypeOK, Return, ProducerLabels, LoggerLabels, Labels, Locking, Critical
  <2>3. Carried'
    BY <1>15 DEF Carried, TypeOK, Return
  <2>4. Chained'
    BY <1>15 DEF Chained, Return
  <2>5. Edges'
    BY <1>15 DEF Edges, Excluded, TypeOK, Return, ProducerLabels, LoggerLabels, Labels, Critical, Locking
  <2>6. Stored'
    BY <1>15 DEF Stored, First, Last, Return
  <2>7. Balanced'
    <3>1. Posting' = Posting
      BY <1>15 DEF Posting, TypeOK, Return, Locking
    <3> QED
      BY <1>15, <3>1 DEF Balanced, Granted, First, Last, TypeOK, Excluded, LoggerLabels, Return, Locking
  <2>8. Promised'
    BY <1>15 DEF Promised, TypeOK, Return
  <2>9. QueueStep
    BY <1>15 DEF QueueStep, Queue!vars, Contents, First, Last, Return
  <2> QED
    BY <2>1, <2>2, <2>3, <2>4, <2>5, <2>6, <2>7, <2>8, <2>9 DEF IInv
<1>16. ASSUME NEW t \in Threads, Die(t) PROVE IInv' /\ QueueStep
  <2>1. TypeOK'
    BY <1>16 DEF TypeOK, Die, Labels, Locking, Critical
  <2>2. Excluded'
    BY <1>16 DEF Excluded, TypeOK, Die, ProducerLabels, LoggerLabels, Labels, Locking, Critical
  <2>3. Carried'
    BY <1>16 DEF Carried, TypeOK, Die
  <2>4. Chained'
    BY <1>16 DEF Chained, Die
  <2>5. Edges'
    BY <1>16 DEF Edges, Excluded, TypeOK, Die, ProducerLabels, LoggerLabels, Labels, Critical, Locking
  <2>6. Stored'
    BY <1>16 DEF Stored, First, Last, Die
  <2>7. Balanced'
    <3>1. Posting' = Posting
      BY <1>16 DEF Posting, TypeOK, Die, Locking
    <3> QED
      BY <1>16, <3>1 DEF Balanced, Granted, First, Last, TypeOK, Excluded, LoggerLabels, Die, Locking
  <2>8. Promised'
    BY <1>16 DEF Promised, TypeOK, Die
  <2>9. QueueStep
    BY <1>16 DEF QueueStep, Queue!vars, Contents, First, Last, Die
  <2> QED
    BY <2>1, <2>2, <2>3, <2>4, <2>5, <2>6, <2>7, <2>8, <2>9 DEF IInv
<1>17. ASSUME NEW t \in Threads, Cancel(t) PROVE IInv' /\ QueueStep
  <2>1. TypeOK'
    BY <1>17 DEF TypeOK, Cancel, Labels, Locking, Critical
  <2>2. Excluded'
    BY <1>17 DEF Excluded, TypeOK, Cancel, ProducerLabels, LoggerLabels, Labels, Locking, Critical
  <2>3. Carried'
    BY <1>17 DEF Carried, TypeOK, Cancel
  <2>4. Chained'
    BY <1>17 DEF Chained, Cancel
  <2>5. Edges'
    BY <1>17 DEF Edges, Excluded, TypeOK, Cancel, ProducerLabels, LoggerLabels, Labels, Critical, Locking
  <2>6. Stored'
    BY <1>17 DEF Stored, First, Last, Cancel
  <2>7. Balanced'
    <3>1. Posting' = Posting
      BY <1>17 DEF Posting, TypeOK, Cancel, Locking
    <3> QED
      BY <1>17, <3>1 DEF Balanced, Granted, First, Last, TypeOK, Excluded, LoggerLabels, Cancel, Locking
  <2>8. Promised'
    BY <1>17 DEF Promised, TypeOK, Cancel
  <2>9. QueueStep
    BY <1>17 DEF QueueStep, Queue!vars, Contents, First, Last, Cancel
  <2> QED
    BY <2>1, <2>2, <2>3, <2>4, <2>5, <2>6, <2>7, <2>8, <2>9 DEF IInv
<1>18. ASSUME Cleanup PROVE IInv' /\ QueueStep
  <2>1. TypeOK'
    <3>1. Cleaned \subseteq First .. Last
      BY <1>18, CleanedStored DEF Cleanup
    <3>2. freed' \subseteq Msg
      BY <1>18, <3>1 DEF Cleanup, Stored
    <3> QED
      BY <1>18, <3>2 DEF TypeOK, Cleanup
  <2>2. Excluded'
    BY <1>18 DEF Excluded, TypeOK, Cleanup, ProducerLabels, LoggerLabels, Labels, Locking, Critical
  <2>3. Carried'
    BY <1>18 DEF Carried, TypeOK, Cleanup
  <2>4. Chained'
    BY <1>18 DEF Chained, Cleanup
  <2>5. Edges'
    BY <1>18 DEF Edges, Excluded, TypeOK, Cleanup, ProducerLabels, LoggerLabels, Labels, Critical, Locking
  <2>6. Stored'
    BY <1>18 DEF Stored, First, Last, Cleanup
  <2>7. Balanced'
    <3>1. Posting' = Posting
      BY <1>18 DEF Posting, TypeOK, Cleanup, Locking
    <3> QED
      BY <1>18, <3>1 DEF Balanced, Granted, First, Last, TypeOK, Excluded, LoggerLabels, Cleanup, Locking
  <2>8. Promised'
    BY <1>18 DEF Promised, TypeOK, Cleanup
  <2>9. QueueStep
    BY <1>18 DEF Cleanup, QueueStep, Queue!Next, Queue!Destroy
  <2> QED
    BY <2>1, <2>2, <2>3, <2>4, <2>5, <2>6, <2>7, <2>8, <2>9 DEF IInv
<1>19. CASE UNCHANGED vars
  BY <1>19 DEF vars, TypeOK, Excluded, Carried, Chained, Edges, Stored, Balanced, Promised,
               Posting, Granted, First, Last, Contents, QueueStep, Queue!vars
<1> QED
  BY <1>1, <1>2, <1>3, <1>4, <1>5, <1>6, <1>7, <1>8, <1>9, <1>10, <1>11, <1>12, <1>13, <1>14, <1>15, <1>16, <1>17, <1>18, <1>19 DEF Next, Step

(* The invariant holds in every reachable state. *)
LEMMA SpecIInv == Spec => []IInv
  BY InitIInv, StepCorrect, PTL DEF Spec
-----------------------------------------------------------------------------
(* The state of buffer.c keeps its types whatever the threads do; indices  *)
(* never leave a chunk, and head and current are always allocated.         *)
THEOREM TypeCorrect == Spec => []TypeOK
  BY SpecIInv, PTL DEF IInv

(* A pop let through by the semaphore always finds a message that was      *)
(* stored, and a next chunk when it frees the head (buffer.c:86, 92).      *)
THEOREM PopIsSafe == Spec => []PopSafe
<1>1. IInv => PopSafe
  <2> SUFFICES ASSUME IInv, NEW t \in Threads
               PROVE  /\ At(t, "pop_take") =>
                           First \in DOMAIN slot /\ First <= Last /\ slot[First] \in Msg
                      /\ At(t, "pop_drop") => next[head] \in DOMAIN next
    BY DEF PopSafe
  <2>0. /\ head \in Int /\ current \in Int /\ headindex \in Nat /\ endindex \in Nat
        /\ First \in Int /\ Last \in Int /\ semaphore \in Nat /\ Cardinality(Posting) \in Nat
        /\ ReallocSize \in Nat /\ ReallocSize > 0
    BY BufferAssumption, FS_CardinalityType DEF IInv, TypeOK, First, Last, Balanced
  <2>1. CASE At(t, "pop_take")
    <3>1. t = Logger /\ mutex = t
      BY <2>1 DEF IInv, At, Excluded, ProducerLabels, Critical, Threads
    <3>2. headindex < ReallocSize /\ endindex < ReallocSize
      BY <2>0, <2>1, <3>1 DEF IInv, At, Edges, Excluded, TypeOK, Critical, Threads
    <3>3. First <= Last
      BY <2>0, <2>1, <3>1 DEF IInv, At, Balanced, Granted
    <3>4. First \in DOMAIN slot
      BY <2>0, <3>2, <3>3 DEF IInv, Chained, First, Last
    <3> QED
      BY <2>0, <2>1, <3>3, <3>4 DEF IInv, Stored, At
  <2>2. CASE At(t, "pop_drop")
    <3>1. t = Logger /\ mutex = t /\ headindex = ReallocSize /\ Granted = 0
      BY <2>2 DEF IInv, At, Excluded, ProducerLabels, Critical, Edges, Granted, Threads
    <3>2. endindex < ReallocSize
      BY <2>0, <2>2, <3>1 DEF IInv, At, Edges, Excluded, TypeOK, Critical, Threads
    <3>3. head < current
      BY <2>0, <3>1, <3>2 DEF IInv, Balanced, First, Last
    <3> QED
      BY <2>0, <2>2, <3>3 DEF IInv, Chained, TypeOK, At
  <2> QED
    BY <2>1, <2>2
<1> QED
  BY <1>1, SpecIInv, PTL

(* Whatever cancellation hits, the semaphore is exact once every thread    *)
(* has left the operation it was in, and the mutex is free.                *)
THEOREM RestIsBalanced == Spec => []AtRest
<1>1. IInv => AtRest
  <2> SUFFICES ASSUME IInv, \A t \in Threads : pc[t] \in {"idle", "pop_wait", "dead"}
               PROVE  mutex = Nil /\ semaphore = Len(Contents)
    BY DEF AtRest
  <2>1. mutex = Nil
    BY DEF IInv, Excluded, TypeOK, Critical
  <2>2. Posting = {} /\ Granted = 0
    BY DEF Posting, Granted, Threads
  <2>3. Len(Contents) = Last - First + 1
    <3>1. First \in Int /\ Last \in Int /\ First <= Last + 1
      BY StoredBounds
    <3>2. Last - First + 1 \in Nat
      BY <3>1
    <3> QED
      BY <3>1, <3>2 DEF Contents, Window
  <2>4. Last - First + 1 = semaphore
    BY <2>2, FS_EmptySet DEF IInv, Balanced, TypeOK
  <2> QED
    BY <2>1, <2>3, <2>4
<1> QED
  BY <1>1, SpecIInv, PTL

(* A size() never promises more pops than the semaphore will let through.  *)
THEOREM PromiseIsKept == Spec => []SizeIsPromise
<1>1. IInv => SizeIsPromise
  BY DEF IInv, Promised, SizeIsPromise, TypeOK
<1> QED
  BY <1>1, SpecIInv, PTL

(* buffer_cleanup frees no slot that does not hold a stored message.       *)
THEOREM CleanupIsSafe == Spec => CleanupFreesOnlyStored
<1> DEFINE Freeing == closed' /\ ~closed => freed' \subseteq {Contents[k] : k \in DOMAIN Contents}
<1>1. IInv /\ [Next]_vars => [Freeing]_vars
  <2> SUFFICES ASSUME IInv, Next, closed', ~closed
               PROVE  freed' \subseteq {Contents[k] : k \in DOMAIN Contents}
    OBVIOUS
  <2>1. Cleanup
    BY DEF Next, Step, PushCall, UnpopCall, PopCall, Size, PopWait, Lock, PushStore, PushGrow,
           UnpopGrow, UnpopStore, PopTake, PopDrop, Unlock, Post, Return, Die, Cancel, ended
  <2>2. Cleaned \subseteq First .. Last
    BY <2>1, CleanedStored DEF Cleanup
  <2>3. ASSUME NEW p \in First .. Last
        PROVE  slot[p] \in {Contents[k] : k \in DOMAIN Contents}
    <3>1. p - First + 1 \in DOMAIN Contents /\ Contents[p - First + 1] = slot[p]
      BY StoredBounds DEF Contents, Window
    <3> QED
      BY <3>1
  <2> QED
    BY <2>1, <2>2, <2>3 DEF Cleanup
<1> QED
  BY <1>1, SpecIInv, PTL DEF Spec, CleanupFreesOnlyStored

(* For any interleaving, chunk size and number of messages, struct buffer  *)
(* implements the queue: FIFO among pushes, LIFO for what is given back,   *)
(* no message lost, invented or delivered twice.                           *)
THEOREM ImplementsQueue == Spec => IsQueue
<1>1. Init => Queue!Init
  BY BufferAssumption DEF Init, Queue!Init, Contents, First, Last, Threads, Queue!Threads
<1>2. IInv /\ [Next]_vars => [Queue!Next]_(Queue!vars)
  BY StepCorrect DEF QueueStep
<1> QED
  BY <1>1, <1>2, SpecIInv, PTL DEF Spec, IsQueue, Queue!Spec
=============================================================================
