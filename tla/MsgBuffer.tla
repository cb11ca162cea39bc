------------------------------ MODULE MsgBuffer ------------------------------
(***************************************************************************)
(* The message buffer between the reader and the logger (buffer.c): a      *)
(* linked list of chunks of ReallocSize slots, a mutex around the list and *)
(* a semaphore that counts the messages a pop may take.                    *)
(*                                                                         *)
(* Every operation is a sequence of steps of its thread, so a step of      *)
(* another thread may come between any two of them; what the mutex         *)
(* excludes is left to the mutex.  A chunk is named by a position: its     *)
(* msgs[i] is slot[c + i], and malloc gives a tail chunk the next higher   *)
(* name and a head chunk the next lower one.  The names carry no links:    *)
(* the list is walked along next, as in the code.                          *)
(***************************************************************************)
EXTENDS Integers, Sequences, FiniteSets

CONSTANTS
  Producers,    \* threads that push: the reader, and main for the end marker
  Logger,       \* the thread that pops, unpops and asks for the size
  Cancellable,  \* threads pthread_cancel may hit (the signal handler: the reader)
  Msg,          \* message pointers; the end marker NULL is one of them
  ReallocSize,  \* REALLOC_SIZE, the slots of a chunk
  Junk,         \* what an unwritten slot holds
  Nil           \* no message, no chunk, nobody

Threads == Producers \cup {Logger}

ASSUME BufferAssumption ==
  /\ ReallocSize \in Nat \ {0}
  /\ IsFiniteSet(Producers)
  /\ Logger \notin Producers
  /\ Cancellable \subseteq Threads
  /\ Nil \notin Msg \cup Threads \cup Int
  /\ Junk \notin Msg \cup {Nil}

VARIABLES
  slot,       \* the slots of the allocated chunks, by position
  next,       \* next[c]: the chunk after chunk c, or Nil; its domain is what is allocated
  head,       \* buff->head
  current,    \* buff->current, where pushes go
  headindex,  \* index in head of the oldest message
  endindex,   \* index in current of the next free slot
  semaphore,  \* value of buff->semaphore
  mutex,      \* the thread that holds buff->mutex, or Nil
  pc,         \* pc[t]: the next step of thread t in buffer.c; "idle" is its caller's code
  msg,        \* msg[t]: the message t passes in or got back, or Nil
  qsize,      \* pops the logger still owes to the last size() it asked for
  cancelled,  \* threads with a cancellation pending
  fresh,      \* messages nobody has pushed yet
  freed,      \* messages buffer_cleanup has freed
  closed      \* buffer_cleanup has run

list  == <<slot, next, head, current, headindex, endindex>>
local == <<msg, qsize, fresh>>
ended == <<freed, closed>>
vars  == <<list, semaphore, mutex, pc, local, cancelled, ended>>

Locking  == {"push_lock", "unpop_lock", "pop_lock"}
Critical == {"push_store", "push_grow", "unpop_grow", "unpop_store",
             "pop_take", "pop_drop", "unlock", "pop_unlock"}
Labels   == {"idle", "pop_wait", "post", "testcancel", "dead"} \cup Locking \cup Critical

Goto(t, l) == pc' = [pc EXCEPT ![t] = l]
At(t, l)   == pc[t] = l

(* f on its domain, v on the rest of S: a malloc()ed chunk, or its link. *)
Extend(f, S, v) == [x \in DOMAIN f \cup S |-> IF x \in S THEN v ELSE f[x]]
Remove(f, S)    == [x \in DOMAIN f \ S |-> f[x]]
Slots(c)        == c .. c + ReallocSize - 1

(* f[a], f[a + 1], ..., f[b] as a sequence. *)
Window(f, a, b) == [k \in 1 .. b - a + 1 |-> f[a + k - 1]]

(* The messages stored, oldest first. *)
First    == head + headindex
Last     == current + endindex - 1
Contents == Window(slot, First, Last)

Init ==
  /\ slot = [p \in Slots(0) |-> Junk]
  /\ next = [c \in {0} |-> Nil]
  /\ head = 0 /\ current = 0
  /\ headindex = 0 /\ endindex = 0
  /\ semaphore = 0
  /\ mutex = Nil
  /\ pc = [t \in Threads |-> "idle"]
  /\ msg = [t \in Threads |-> Nil]
  /\ qsize = 0
  /\ cancelled = {}
  /\ fresh = Msg
  /\ freed = {} /\ closed = FALSE
-----------------------------------------------------------------------------
(* Mutated forms of the definitions below, for checking the properties.    *)

UnpopStoreLate(t) ==
  /\ At(t, "unpop_store")
  /\ slot' = [slot EXCEPT ![head + headindex] = msg[t]]
  /\ headindex' = headindex - 1
  /\ msg' = [msg EXCEPT ![t] = Nil]
  /\ Goto(t, "unlock")
  /\ UNCHANGED <<next, head, current, endindex, semaphore, mutex, qsize, fresh,
                 cancelled, ended>>

PushGrowNoReset(t) ==
  /\ At(t, "push_grow")
  /\ LET new == current + ReallocSize IN
       /\ slot' = Extend(slot, Slots(new), Junk)
       /\ next' = Extend([next EXCEPT ![current] = new], {new}, Nil)
       /\ current' = new
  /\ Goto(t, "unlock")
  /\ UNCHANGED <<head, headindex, endindex, semaphore, mutex, local, cancelled, ended>>

PushGrowUnlinked(t) ==
  /\ At(t, "push_grow")
  /\ LET new == current + ReallocSize IN
       /\ slot' = Extend(slot, Slots(new), Junk)
       /\ next' = Extend(next, {new}, Nil)
       /\ current' = new
  /\ endindex' = 0
  /\ Goto(t, "unlock")
  /\ UNCHANGED <<head, headindex, semaphore, mutex, local, cancelled, ended>>

DieWhileDisabled(t) ==
  /\ t \in cancelled
  /\ pc[t] \in {"idle", "pop_wait", "post", "testcancel"}
  /\ Goto(t, "dead")
  /\ UNCHANGED <<list, semaphore, mutex, local, cancelled, ended>>

PostIfZero(t) ==
  /\ At(t, "post")
  /\ semaphore' = IF semaphore = 0 THEN 1 ELSE semaphore
  /\ Goto(t, "testcancel")
  /\ UNCHANGED <<list, mutex, local, cancelled, ended>>

SizeOfList ==
  /\ At(Logger, "idle")
  /\ qsize' = Len(Contents)
  /\ UNCHANGED <<list, semaphore, mutex, pc, msg, cancelled, fresh, ended>>

CleanedIgnoringEnd == head + headindex .. head + ReallocSize - 1
-----------------------------------------------------------------------------
(* Calls.  A push brings a fresh message; an unpop brings back the message *)
(* the logger holds; a pop finds the logger done with the one before.      *)

PushCall(t, m) ==
  /\ ~closed
  /\ t \in Producers
  /\ At(t, "idle")
  /\ m \in fresh
  /\ fresh' = fresh \ {m}
  /\ msg' = [msg EXCEPT ![t] = m]
  /\ Goto(t, "push_lock")
  /\ UNCHANGED <<list, semaphore, mutex, qsize, cancelled, ended>>

UnpopCall ==
  /\ ~closed
  /\ At(Logger, "idle")
  /\ msg[Logger] # Nil
  /\ qsize' = 0
  /\ Goto(Logger, "unpop_lock")
  /\ UNCHANGED <<list, semaphore, mutex, msg, fresh, cancelled, ended>>

PopCall ==
  /\ ~closed
  /\ At(Logger, "idle")
  /\ msg' = [msg EXCEPT ![Logger] = Nil]
  /\ Goto(Logger, "pop_wait")
  /\ UNCHANGED <<list, semaphore, mutex, qsize, fresh, cancelled, ended>>

(* size() reads the semaphore without the lock. *)
Size ==
  /\ ~closed
  /\ At(Logger, "idle")
  /\ qsize' = semaphore
  /\ UNCHANGED <<list, semaphore, mutex, pc, msg, fresh, cancelled, ended>>

(* sem_wait: the only blocking step that cancellation can interrupt. *)
PopWait(t) ==
  /\ At(t, "pop_wait")
  /\ semaphore > 0
  /\ semaphore' = semaphore - 1
  /\ qsize' = IF qsize > 0 THEN qsize - 1 ELSE 0
  /\ Goto(t, "pop_lock")
  /\ UNCHANGED <<list, mutex, msg, fresh, cancelled, ended>>

Lock(t) ==
  /\ mutex = Nil
  /\ mutex' = t
  /\ \/ At(t, "push_lock") /\ Goto(t, "push_store")
     \/ At(t, "unpop_lock") /\ Goto(t, IF headindex = 0 THEN "unpop_grow" ELSE "unpop_store")
     \/ At(t, "pop_lock") /\ Goto(t, "pop_take")
  /\ UNCHANGED <<list, semaphore, local, cancelled, ended>>

PushStore(t) ==
  /\ At(t, "push_store")
  /\ slot' = [slot EXCEPT ![current + endindex] = msg[t]]
  /\ endindex' = endindex + 1
  /\ msg' = [msg EXCEPT ![t] = Nil]
  /\ Goto(t, IF endindex + 1 = ReallocSize THEN "push_grow" ELSE "unlock")
  /\ UNCHANGED <<next, head, current, headindex, semaphore, mutex, qsize, fresh,
                 cancelled, ended>>

(* The chunk is full: the next one is allocated and linked at once. *)
PushGrow(t) ==
  /\ At(t, "push_grow")
  /\ LET new == current + ReallocSize IN
       /\ slot' = Extend(slot, Slots(new), Junk)
       /\ next' = Extend([next EXCEPT ![current] = new], {new}, Nil)
       /\ current' = new
  /\ endindex' = 0
  /\ Goto(t, "unlock")
  /\ UNCHANGED <<head, headindex, semaphore, mutex, local, cancelled, ended>>

(* No slot before the oldest message: a chunk goes in front of the list. *)
UnpopGrow(t) ==
  /\ At(t, "unpop_grow")
  /\ LET new == head - ReallocSize IN
       /\ slot' = Extend(slot, Slots(new), Junk)
       /\ next' = Extend(next, {new}, head)
       /\ head' = new
  /\ headindex' = ReallocSize
  /\ Goto(t, "unpop_store")
  /\ UNCHANGED <<current, endindex, semaphore, mutex, local, cancelled, ended>>

UnpopStore(t) ==
  /\ At(t, "unpop_store")
  /\ headindex' = headindex - 1
  /\ slot' = [slot EXCEPT ![head + headindex - 1] = msg[t]]
  /\ msg' = [msg EXCEPT ![t] = Nil]
  /\ Goto(t, "unlock")
  /\ UNCHANGED <<next, head, current, endindex, semaphore, mutex, qsize, fresh,
                 cancelled, ended>>

PopTake(t) ==
  /\ At(t, "pop_take")
  /\ msg' = [msg EXCEPT ![t] = slot[head + headindex]]
  /\ headindex' = headindex + 1
  /\ Goto(t, IF headindex + 1 = ReallocSize THEN "pop_drop" ELSE "pop_unlock")
  /\ UNCHANGED <<slot, next, head, current, endindex, semaphore, mutex, qsize, fresh,
                 cancelled, ended>>

(* The last slot of the head chunk was taken: the chunk is freed. *)
PopDrop(t) ==
  /\ At(t, "pop_drop")
  /\ head' = next[head]
  /\ next' = Remove(next, {head})
  /\ slot' = Remove(slot, Slots(head))
  /\ headindex' = 0
  /\ Goto(t, "pop_unlock")
  /\ UNCHANGED <<current, endindex, semaphore, mutex, local, cancelled, ended>>

Unlock(t) ==
  /\ pc[t] \in {"unlock", "pop_unlock"}
  /\ mutex' = Nil
  /\ Goto(t, IF At(t, "unlock") THEN "post" ELSE "testcancel")
  /\ UNCHANGED <<list, semaphore, local, cancelled, ended>>

Post(t) ==
  /\ At(t, "post")
  /\ semaphore' = semaphore + 1
  /\ Goto(t, "testcancel")
  /\ UNCHANGED <<list, mutex, local, cancelled, ended>>

Return(t) ==
  /\ At(t, "testcancel")
  /\ t \notin cancelled
  /\ Goto(t, "idle")
  /\ UNCHANGED <<list, semaphore, mutex, local, cancelled, ended>>

(* Cancellation is deferred: it takes effect in the caller's code, in      *)
(* sem_wait and in pthread_testcancel, never between setcancelstate pairs. *)
Die(t) ==
  /\ t \in cancelled
  /\ pc[t] \in {"idle", "pop_wait", "testcancel"}
  /\ Goto(t, "dead")
  /\ UNCHANGED <<list, semaphore, mutex, local, cancelled, ended>>

(* The signal handler calls pthread_cancel at any moment. *)
Cancel(t) ==
  /\ ~closed
  /\ t \in Cancellable \ cancelled
  /\ cancelled' = cancelled \cup {t}
  /\ UNCHANGED <<list, semaphore, mutex, pc, local, ended>>

(* The slots buffer_cleanup frees: those of the head chunk.  Its index is  *)
(* ReallocSize, the end, from the second chunk on.                         *)
Cleaned ==
  head + headindex .. head + (IF next[head] = Nil THEN endindex ELSE ReallocSize) - 1

(* buffer_cleanup, called by main when the other threads are joined. *)
Cleanup ==
  /\ ~closed
  /\ \A t \in Threads : pc[t] \in {"idle", "dead"}
  /\ freed' = {slot[p] : p \in Cleaned}
  /\ closed' = TRUE
  /\ UNCHANGED <<list, semaphore, mutex, pc, local, cancelled>>

Step(t) ==
  \/ PopWait(t) \/ Lock(t)
  \/ PushStore(t) \/ PushGrow(t)
  \/ UnpopGrow(t) \/ UnpopStore(t)
  \/ PopTake(t) \/ PopDrop(t)
  \/ Unlock(t) \/ Post(t) \/ Return(t) \/ Die(t)

Next ==
  \/ \E t \in Producers, m \in Msg : PushCall(t, m)
  \/ UnpopCall \/ PopCall \/ Size
  \/ \E t \in Threads : Step(t) \/ Cancel(t)
  \/ Cleanup

(* A thread inside buffer.c keeps running; no thread has to call it. *)
Fairness == \A t \in Threads : WF_vars(Step(t))

Spec == Init /\ [][Next]_vars /\ Fairness
-----------------------------------------------------------------------------
TypeOK ==
  /\ \A c \in DOMAIN next : c \in Int /\ next[c] \in Int \cup {Nil}
  /\ \A p \in DOMAIN slot : p \in Int /\ slot[p] \in Msg \cup {Junk}
  /\ head \in DOMAIN next /\ current \in DOMAIN next
  /\ headindex \in 0 .. ReallocSize
  /\ endindex \in 0 .. ReallocSize
  /\ semaphore \in Nat
  /\ mutex \in Threads \cup {Nil}
  /\ pc \in [Threads -> Labels]
  /\ msg \in [Threads -> Msg \cup {Nil}]
  /\ qsize \in Nat
  /\ cancelled \subseteq Cancellable
  /\ fresh \subseteq Msg
  /\ freed \subseteq Msg
  /\ closed \in BOOLEAN

(* A pop that got past the semaphore reads a slot some push or unpop wrote *)
(* and nobody has taken, and when it empties the head chunk there is a     *)
(* next one: buffer_pop checks neither (buffer.c:86, 92).                  *)
PopSafe ==
  \A t \in Threads :
    /\ At(t, "pop_take") => First \in DOMAIN slot /\ First <= Last /\ slot[First] \in Msg
    /\ At(t, "pop_drop") => next[head] \in DOMAIN next

(* Whenever no thread is between two steps of an operation, whatever       *)
(* threads were cancelled on the way, the mutex is free and the semaphore  *)
(* counts the stored messages exactly: no post is lost, none is made twice *)
(* (buffer.c:27-44).                                                       *)
AtRest ==
  (\A t \in Threads : pc[t] \in {"idle", "pop_wait", "dead"}) =>
    mutex = Nil /\ semaphore = Len(Contents)

(* The pops that a size() has promised never block: the loop of            *)
(* logger_write_backlog (logger.c:39-43) takes qsize messages while pushes *)
(* go on, and must not stop inside the backlog branch to wait for input.   *)
SizeIsPromise ==
  At(Logger, "pop_wait") /\ qsize > 0 => semaphore > 0

(* A message stored is seen: a logger asleep in sem_wait over a queue with *)
(* a message in it wakes up (or is cancelled there).                       *)
NoLostWakeup ==
  At(Logger, "pop_wait") /\ Contents # <<>> ~> ~At(Logger, "pop_wait")

(* buffer_cleanup frees only messages that are still stored: never an      *)
(* unwritten slot, nor a message the logger has popped (buffer.c:157).     *)
CleanupFreesOnlyStored ==
  [][closed' /\ ~closed => freed' \subseteq {Contents[k] : k \in DOMAIN Contents}]_vars

(* buffer.c:156 "Cleanup remaining messages": what the queue still holds   *)
(* when the buffer is destroyed is freed, all of it.                       *)
CleanupFreesAll ==
  closed => {Contents[k] : k \in DOMAIN Contents} \subseteq freed

(* The buffer is the queue MsgQueue specifies: whatever the interleaving,  *)
(* chunk boundaries included, a pop returns the oldest message, an unpop   *)
(* makes its message the oldest, and no message is lost or duplicated.     *)
Queue == INSTANCE MsgQueue WITH
           queue <- IF closed THEN <<>> ELSE Contents,
           held  <- msg

IsQueue == Queue!Spec
=============================================================================
