------------------------------- MODULE Logger -------------------------------
(***************************************************************************)
(* The logger thread (logger.c): it delivers the messages of the buffer in *)
(* turn, and when a delivery fails puts the buffer into the backlog file   *)
(* and delivers from there.  The process may be killed at any moment and   *)
(* started again; the file is what it finds.                               *)
(*                                                                         *)
(* Messages are numbered in the order the reader obtained them, over all   *)
(* lives of the process.  The buffer is the queue MsgBuffer implements,    *)
(* and deliver_message has the two outcomes of Delivery.  A stdio write    *)
(* reaches the file when fflush returns.  Where the code's behaviour is    *)
(* undefined the model stops in a pc that says why.                        *)
(***************************************************************************)
EXTENDS Integers, Sequences, SequencesExt

CONSTANTS
  MaxMsgs,   \* bound: messages read over all lives
  MaxLives,  \* bound: times the process is started
  Faults,    \* the library calls that may fail
  None,      \* no message in hand: msg is NULL
  Nil,       \* no stream: backlog_in is NULL
  End        \* the end marker in the buffer, a NULL message

ASSUME LoggerAssumption ==
  /\ MaxMsgs \in Nat
  /\ MaxLives \in Nat \ {0}
  /\ None \notin Nat /\ Nil \notin Nat /\ End \notin Nat
  /\ Faults \subseteq {"initial", "append", "read", "fputs", "fflush", "getline", "truncate"}

VARIABLES
  file,       \* lines of the backlog file
  backlog,    \* a backlog file was named
  queue,      \* the message buffer, oldest first
  ended,      \* the reader is done: nothing is pushed any more
  msg,        \* the message in hand
  in,         \* backlog_in: lines read from it so far, or Nil
  out,        \* backlog_out is open
  left,       \* messages logger_write_backlog has yet to take
  pc,         \* where the logger thread is
  obtained,   \* messages the reader has obtained, in all lives
  delivered,  \* deliveries that succeeded, in all lives
  forgotten,  \* messages that were only in memory when the process died
  dropped,    \* messages the logger lost: unwritten, or cut off with the file
  sent,       \* messages delivered in this life
  kept,       \* a truncate failed in this life
  behind,     \* lines of the file were left unread, and the buffer came first, in this life
  life        \* times the process was started

stream  == <<in, out>>
buffer  == <<queue, ended>>
history == <<obtained, delivered, forgotten, sent, kept, behind, life>>
vars    == <<file, backlog, buffer, msg, stream, left, pc, dropped, history>>

(* Where the logger thread has returned, and where the process has ended. *)
Returned == {"done", "no_dest"}
Broken   == {"segfault", "require", "double_close", "dangling", "garbage"}
Stopped  == Returned \cup Broken

Init ==
  /\ file = <<>>
  /\ backlog \in BOOLEAN
  /\ queue = <<>> /\ ended = FALSE
  /\ msg = None
  /\ in = Nil /\ out = FALSE
  /\ left = 0
  /\ pc = "start"
  /\ obtained = 0 /\ delivered = <<>> /\ forgotten = {} /\ dropped = {}
  /\ sent = {} /\ kept = FALSE /\ behind = FALSE
  /\ life = 1
-----------------------------------------------------------------------------
(* The other threads and the outside world.                                *)

(* The reader pushes a message; main pushes the end marker after it. *)
Push ==
  /\ ~ended /\ pc \notin Broken
  /\ obtained < MaxMsgs
  /\ obtained' = obtained + 1
  /\ queue' = Append(queue, obtained + 1)
  /\ UNCHANGED <<file, backlog, ended, msg, stream, left, pc, delivered, forgotten,
                 dropped, sent, kept, behind, life>>

PushEnd ==
  /\ ~ended /\ pc \notin Broken
  /\ ended' = TRUE
  /\ queue' = Append(queue, End)
  /\ UNCHANGED <<file, backlog, msg, stream, left, pc, dropped, history>>

(* The process is gone, killed or done, and is started again. *)
Restart ==
  /\ life < MaxLives
  /\ life' = life + 1
  /\ forgotten' = forgotten \cup ((Range(queue) \cup {msg}) \ {End, None})
  /\ queue' = <<>> /\ ended' = FALSE
  /\ msg' = None
  /\ in' = Nil /\ out' = FALSE
  /\ left' = 0
  /\ pc' = "start"
  /\ sent' = {} /\ kept' = FALSE /\ behind' = FALSE
  /\ UNCHANGED <<file, backlog, obtained, delivered, dropped>>
-----------------------------------------------------------------------------
(* Mutated forms of the definitions below, for checking the properties.    *)

PopUnchecked ==
  /\ pc = "pop" /\ queue # <<>>
  /\ queue' = Tail(queue)
  /\ msg' = Head(queue)
  /\ pc' = "deliver"
  /\ UNCHANGED <<file, backlog, ended, stream, left, dropped, history>>

StartForgets ==
  /\ pc = "start"
  /\ pc' = "pop"
  /\ UNCHANGED <<file, backlog, buffer, msg, stream, left, dropped, history>>

TruncateSkipped ==
  /\ pc = "truncate"
  /\ in' = Nil
  /\ pc' = "pop"
  /\ UNCHANGED <<file, backlog, buffer, msg, out, left, dropped, history>>

ReopenSkipped ==
  /\ pc = "failed" /\ in # Nil /\ ~out
  /\ pc' = "deliver"
  /\ UNCHANGED <<file, backlog, buffer, msg, stream, left, dropped, history>>

(* Opened for writing, not for appending. *)
ReopenEmpties ==
  /\ pc = "failed" /\ in # Nil /\ ~out
  /\ out' = TRUE /\ file' = <<>>
  /\ pc' = "deliver"
  /\ UNCHANGED <<backlog, buffer, msg, in, left, dropped, history>>

WriteBacklogDrops ==
  /\ pc \in {"add", "create"} /\ left > 0 /\ queue # <<>>
  /\ Head(queue) # End
  /\ queue' = Tail(queue)
  /\ left' = 0
  /\ out' = FALSE
  /\ UNCHANGED <<file, backlog, ended, msg, in, pc, dropped, history>>

WrittenInFront(m) ==
  \/ file' = <<m>> \o file /\ UNCHANGED dropped
  \/ "fflush" \in Faults /\ dropped' = dropped \cup {m} /\ UNCHANGED file
-----------------------------------------------------------------------------
(* logger_run, up to the first message: without a destination it returns;  *)
(* the old backlog is opened and read from, or, without one or one that    *)
(* cannot be read, the buffer.                                             *)
Start ==
  /\ pc = "start"
  /\ \/ /\ pc' = "no_dest"
        /\ UNCHANGED <<in, msg, behind>>
     \/ /\ backlog /\ file # <<>>
        /\ in' = 1 /\ msg' = file[1]
        /\ pc' = "deliver"
        /\ UNCHANGED behind
     \/ /\ ~backlog \/ file = <<>> \/ "initial" \in Faults
        /\ pc' = "pop"
        /\ behind' = (file # <<>>)
        /\ UNCHANGED <<in, msg>>
  /\ UNCHANGED <<file, backlog, buffer, out, left, dropped, obtained, delivered, forgotten,
                 sent, kept, life>>

(* buffer->pop waits for a message; the end marker ends the loop. *)
Pop ==
  /\ pc = "pop" /\ queue # <<>>
  /\ queue' = Tail(queue)
  /\ IF Head(queue) = End
       THEN pc' = "done" /\ UNCHANGED msg
       ELSE pc' = "deliver" /\ msg' = Head(queue)
  /\ UNCHANGED <<file, backlog, ended, stream, left, dropped, history>>

(* deliver_message returns 1: the message is freed.  The next one comes    *)
(* from the backlog while there is one, and nothing is added to it then.   *)
(* Any failure of getline is taken for its end.                            *)
Delivered ==
  /\ pc = "deliver"
  /\ delivered' = Append(delivered, msg)
  /\ sent' = sent \cup {msg}
  /\ \/ /\ in = Nil
        /\ msg' = None
        /\ pc' = "pop"
        /\ UNCHANGED stream
     \/ /\ in # Nil /\ in < Len(file)
        /\ msg' = file[in + 1]
        /\ in' = in + 1
        /\ out' = FALSE
        /\ UNCHANGED pc
     \/ /\ in # Nil
        /\ in = Len(file) \/ "getline" \in Faults
        /\ msg' = None
        /\ out' = FALSE
        /\ pc' = "truncate"
        /\ UNCHANGED in
  /\ UNCHANGED <<file, backlog, buffer, left, obtained, forgotten, dropped, kept, behind,
                 life>>

(* The lines of the backlog that are not read yet. *)
Rest == SubSeq(file, in + 1, Len(file))

(* The backlog, all of it read or not, is emptied, and is over. *)
Truncate ==
  /\ pc = "truncate"
  /\ \/ /\ file' = <<>>
        /\ dropped' = dropped \cup (Range(Rest) \ Range(delivered))
        /\ UNCHANGED <<kept, behind>>
     \/ /\ "truncate" \in Faults
        /\ kept' = TRUE
        /\ behind' = (behind \/ Rest # <<>>)
        /\ UNCHANGED <<file, dropped>>
  /\ in' = Nil
  /\ pc' = "pop"
  /\ UNCHANGED <<backlog, buffer, msg, out, left, obtained, delivered, forgotten, sent, life>>

(* deliver_message returns 0. *)
NotDelivered ==
  /\ pc = "deliver"
  /\ pc' = "failed"
  /\ UNCHANGED <<file, backlog, buffer, msg, stream, left, dropped, history>>

(* No backlog was named: the same again. *)
FailedNoBacklog ==
  /\ pc = "failed" /\ in = Nil /\ ~backlog
  /\ pc' = "deliver"
  /\ UNCHANGED <<file, backlog, buffer, msg, stream, left, dropped, history>>

(* In the middle of the backlog, which is not open for writing.  The test  *)
(* of fopen is the wrong way round: what was opened is used from the next  *)
(* failure on, what was not is used at once.                               *)
FailedReopen ==
  /\ pc = "failed" /\ in # Nil /\ ~out
  /\ \/ out' = TRUE /\ pc' = "deliver"
     \/ "append" \in Faults /\ pc' = "require" /\ UNCHANGED out
  /\ UNCHANGED <<file, backlog, buffer, msg, in, left, dropped, history>>

(* In the middle of the backlog: the messages now in the buffer are added. *)
FailedAgain ==
  /\ pc = "failed" /\ in # Nil /\ out
  /\ left' = Len(queue)
  /\ pc' = "add"
  /\ UNCHANGED <<file, backlog, buffer, msg, stream, dropped, history>>

(* fputs and fflush of a line: it is in the file, or nobody has noticed    *)
(* that it is not.                                                         *)
Written(m) ==
  \/ file' = Append(file, m) /\ UNCHANGED dropped
  \/ "fflush" \in Faults /\ dropped' = dropped \cup {m} /\ UNCHANGED file

(* There is no backlog yet: the file is opened twice and the message in    *)
(* hand written to it.  If that fails the message goes back to the buffer  *)
(* and stays in hand too: whichever of the two is freed first leaves the   *)
(* other one dangling.                                                     *)
FailedFirst ==
  /\ pc = "failed" /\ in = Nil /\ backlog
  /\ in' \in {0} \cup (IF "read" \in Faults THEN {Nil} ELSE {})
  /\ \/ /\ "append" \in Faults
        /\ pc' = "deliver"
        /\ UNCHANGED <<file, queue, msg, out, left, dropped>>
     \/ /\ "fputs" \in Faults
        /\ out' = TRUE
        /\ queue' = <<msg>> \o queue
        /\ pc' = "dangling"
        /\ UNCHANGED <<file, msg, left, dropped>>
     \/ /\ out' = TRUE
        /\ Written(msg)
        /\ msg' = None
        /\ left' = Len(queue)
        /\ pc' = "create"
        /\ UNCHANGED queue
  /\ UNCHANGED <<backlog, ended, history>>

(* One message of logger_write_backlog.  When it is the end marker the     *)
(* stream is closed here, and by the caller again.                         *)
WriteBacklog ==
  /\ pc \in {"add", "create"} /\ left > 0 /\ queue # <<>>
  /\ \/ /\ Head(queue) = End
        /\ queue' = Tail(queue)
        /\ left' = 0
        /\ pc' = "double_close"
        /\ UNCHANGED <<file, out, dropped>>
     \/ /\ Head(queue) # End
        /\ queue' = Tail(queue)
        /\ Written(Head(queue))
        /\ left' = left - 1
        /\ UNCHANGED <<pc, out>>
     \/ /\ Head(queue) # End /\ "fputs" \in Faults
        /\ left' = 0
        /\ out' = FALSE
        /\ UNCHANGED <<file, queue, pc, dropped>>
  /\ UNCHANGED <<backlog, ended, msg, in, history>>

(* The caller goes on: to the message it has in msg, or to the first line *)
(* of the new backlog.  A getline that finds none leaves a buffer with     *)
(* nothing in it, and one that fails closes the stream as well.            *)
BacklogWritten ==
  /\ left = 0
  /\ \/ /\ pc = "add"
        /\ pc' = "deliver"
        /\ UNCHANGED <<msg, in>>
     \/ /\ pc = "create" /\ in = Nil
        /\ pc' = "segfault"
        /\ UNCHANGED <<msg, in>>
     \/ /\ pc = "create" /\ in # Nil
        /\ \/ file = <<>> /\ UNCHANGED in
           \/ "getline" \in Faults /\ in' = Nil
        /\ pc' = "garbage"
        /\ UNCHANGED msg
     \/ /\ pc = "create" /\ in # Nil /\ file # <<>>
        /\ msg' = file[1] /\ in' = 1
        /\ pc' = "deliver"
  /\ UNCHANGED <<file, backlog, buffer, out, left, dropped, history>>

Failed == NotDelivered \/ FailedNoBacklog \/ FailedReopen \/ FailedAgain \/ FailedFirst

Run ==
  \/ Start \/ Pop \/ Delivered \/ Truncate
  \/ Failed \/ WriteBacklog \/ BacklogWritten

Next == Push \/ PushEnd \/ Restart \/ Run

(* The logger thread runs, and deliver_message returns (see Delivery). *)
Fairness == WF_vars(Run)

Spec == Init /\ [][Next]_vars /\ Fairness
-----------------------------------------------------------------------------
Messages == 1 .. obtained

TypeOK ==
  /\ file \in Seq(Messages)
  /\ backlog \in BOOLEAN
  /\ queue \in Seq(Messages \cup {End}) /\ ended \in BOOLEAN
  /\ msg \in Messages \cup {None}
  /\ in \in {Nil} \cup 0 .. Len(file)
  /\ out \in BOOLEAN
  /\ left \in 0 .. Len(queue)
  /\ pc \in {"start", "pop", "deliver", "failed", "truncate", "add", "create"} \cup Stopped
  /\ obtained \in 0 .. MaxMsgs
  /\ delivered \in Seq(Messages)
  /\ forgotten \subseteq Messages /\ dropped \subseteq Messages /\ sent \subseteq Messages
  /\ kept \in BOOLEAN /\ behind \in BOOLEAN
  /\ life \in 1 .. MaxLives

(* What the logger has still to deliver, in this order: the message in     *)
(* msg, the lines of the backlog it has not read, the buffer.              *)
InHand  == IF msg = None \/ pc = "dangling" THEN <<>> ELSE <<msg>>
Unread  == IF in # Nil THEN Rest ELSE file
Queued  == IF End \in Range(queue) THEN Front(queue) ELSE queue
Pending == InHand \o Unread \o Queued

Owed    == Range(Pending) \ Range(delivered)

(* A message that was obtained is delivered, or still in the memory of a   *)
(* process that is there, or in the backlog file.  Only three things lose  *)
(* one: the end of the process when the message was in memory alone, the   *)
(* fflush that nobody looks at, and a getline that fails in the middle of  *)
(* the backlog.                                                            *)
NothingLost ==
  pc \notin Broken =>
    \A m \in Messages :
      m \in Range(delivered) \cup Range(file) \cup Range(queue) \cup {msg}
              \cup forgotten \cup dropped

(* While the logger runs, what it has not delivered yet will be delivered  *)
(* in the order it was obtained: the backlog holds older messages than the *)
(* buffer, whenever it is written, read, drained and written again.  (Until *)
(* lines are left behind in it: the old one could not be opened, or one    *)
(* that could not be read could not be emptied either.)                    *)
PendingInOrder ==
  pc \notin Stopped /\ ~behind =>
    \A i, j \in DOMAIN Pending :
      i < j /\ {Pending[i], Pending[j]} \subseteq Owed => Pending[i] < Pending[j]

(* Within a life no message is delivered twice, unless the file could not  *)
(* be truncated: a line is read once, and what is written to the backlog   *)
(* is not in the buffer any more.                                          *)
NoRepeats ==
  pc \notin Stopped /\ ~kept => \A i \in DOMAIN Pending : Pending[i] \notin sent

(* README:29-31: the whole backlog is delivered, then it is truncated.  A  *)
(* logger that stops at the end of the buffer has delivered everything but *)
(* what an earlier life, a failing fflush or a failing getline has lost,   *)
(* and what is in a file it left behind; one that stops because nobody     *)
(* takes its messages has them in the file (but for the one whose delivery *)
(* was just tried, if it is in hand).                                      *)
EndMeansSafe ==
  LET safe == Range(delivered) \cup forgotten \cup dropped IN
    /\ pc = "done" =>
         \A m \in Messages : m \in safe \/ (behind /\ m \in Range(file))
    /\ pc = "double_close" => \A m \in Messages : m \in safe \cup Range(file) \cup {msg}

(* A call on the backlog fails. *)
BacklogFails ==
  \/ FailedFirst /\ (~out' \/ in' = Nil)
  \/ WriteBacklog /\ ~out'

(* With a backlog file the logger stops after the end of the input, even   *)
(* if no message is ever delivered again, unless writes to it fail for     *)
(* ever.                                                                   *)
Terminates ==
  \/ ~backlog
  \/ []<><<BacklogFails>>_vars
  \/ (ended ~> pc \in Stopped \/ ~ended)

(* Over all lives the logger and its file are a relay: each delivery is of *)
(* the oldest message still owed, or repeats one after a restart or after  *)
(* a truncate that failed; a crash costs what was not in the file, and a   *)
(* failing fflush a message on its way into it.  What is in the file is    *)
(* lost by a failing getline only, and what is lost is recorded.  Once     *)
(* lines are left behind the order is that of the buffer until a restart.  *)
Relay == INSTANCE Relay WITH
  Unnoticed <- "fflush" \in Faults,
  CutShort  <- "getline" \in Faults,
  LeavesOld <- "initial" \in Faults \/ {"getline", "truncate"} \subseteq Faults,
  owed      <- Owed,
  safe      <- Range(file) \cap Owed,
  lost      <- dropped,
  doubt     <- life > 1 \/ kept,
  muddled   <- behind

IsRelay == Relay!Spec

(* logger.c:48-49 "Reader has already stopped, we should stop and continue *)
(* another lifetime": the logger comes to its return.                      *)
StopsCleanly == pc # "double_close"
=============================================================================
