------------------------------ MODULE MsgQueue ------------------------------
(***************************************************************************)
(* What struct buffer (buffer.h) promises its callers, with no semaphore,  *)
(* lock or memory in it: one queue of messages that many threads extend at *)
(* the back, and that one thread, the logger, takes from and gives back to *)
(* the front.  A message has one owner: it is not read yet (fresh), in the *)
(* hands of a thread (held) or in the queue.  MsgBuffer implements this.   *)
(***************************************************************************)
EXTENDS Sequences

CONSTANTS
  Producers,  \* threads that push
  Logger,     \* the one thread that pops and unpops
  Msg,        \* message pointers; the end marker NULL is one of them
  Nil         \* no message

VARIABLES
  queue,      \* messages stored, oldest first
  held,       \* held[t]: the message thread t has in hand, or Nil
  fresh       \* messages no producer has obtained yet

vars == <<queue, held, fresh>>

Threads == Producers \cup {Logger}

Init ==
  /\ queue = <<>>
  /\ held = [t \in Threads |-> Nil]
  /\ fresh = Msg

(* A producer reads a message from its input. *)
Obtain(p, m) ==
  /\ held[p] = Nil
  /\ m \in fresh
  /\ fresh' = fresh \ {m}
  /\ held' = [held EXCEPT ![p] = m]
  /\ UNCHANGED queue

(* The message in hand becomes the youngest of the queue. *)
Push(p) ==
  /\ held[p] # Nil
  /\ queue' = Append(queue, held[p])
  /\ held' = [held EXCEPT ![p] = Nil]
  /\ UNCHANGED fresh

(* The oldest message, and no other, goes to the logger. *)
Pop ==
  /\ held[Logger] = Nil
  /\ queue # <<>>
  /\ held' = [held EXCEPT ![Logger] = Head(queue)]
  /\ queue' = Tail(queue)
  /\ UNCHANGED fresh

(* The logger gives the message back: it is again the oldest. *)
Unpop ==
  /\ held[Logger] # Nil
  /\ queue' = <<held[Logger]>> \o queue
  /\ held' = [held EXCEPT ![Logger] = Nil]
  /\ UNCHANGED fresh

(* The logger is done with the message it holds. *)
Discard ==
  /\ held[Logger] # Nil
  /\ held' = [held EXCEPT ![Logger] = Nil]
  /\ UNCHANGED <<queue, fresh>>

(* The queue is given up with what is left in it. *)
Destroy ==
  /\ queue' = <<>>
  /\ UNCHANGED <<held, fresh>>

Next ==
  \/ \E p \in Producers, m \in Msg : Obtain(p, m)
  \/ \E p \in Producers : Push(p)
  \/ Pop
  \/ Unpop
  \/ Discard
  \/ Destroy

Spec == Init /\ [][Next]_vars
=============================================================================
