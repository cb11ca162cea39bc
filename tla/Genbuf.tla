------------------------------- MODULE Genbuf -------------------------------
(***************************************************************************)
(* The life of the process (main.c): the reader thread, the logger thread, *)
(* and main, which joins the one, cleans up after it, pushes the end       *)
(* marker, and joins the other.  The reader is Reader's; of the logger     *)
(* there is what the others depend on: that it takes messages until the    *)
(* end marker, and that it opens and closes three descriptors meanwhile,   *)
(* the destination and the backlog's two streams.  What it does with the   *)
(* messages is in Logger, and how one is delivered in Delivery.            *)
(***************************************************************************)
EXTENDS Reader

VARIABLES
  main,     \* the next step of main's run()
  closing,  \* the handler reader_cleanup is at
  logger,   \* where the logger thread is
  own       \* the logger's descriptors: "dest", "in" and "out", each a number or Bad

allVars == <<vars, main, closing, logger, own>>

Streams == {"dest", "in", "out"}
Own(s)  == <<s, 0>>

GInit ==
  /\ Init
  /\ main = "join_reader"
  /\ closing = 1
  /\ logger = "start"
  /\ own = [s \in Streams |-> Bad]

(* The process is there until main returns or the logger aborts it. *)
Alive == main # "exit" /\ logger # "aborted"
-----------------------------------------------------------------------------
(* Mutated forms of the definitions below, for checking the properties.    *)

JoinNobody ==
  /\ main = "join_reader"
  /\ main' = "cleanup"
  /\ UNCHANGED <<vars, closing, logger, own>>

PushEndIfAny ==
  /\ main = "cleanup" /\ closing > Len(handlers)
  /\ queue' = IF handlers = <<>> THEN queue ELSE Append(queue, "end")
  /\ main' = "join_logger"
  /\ UNCHANGED <<set, files, world, handlers, fds, scan, held, pc, cancelled, closing,
                 logger, own>>

CleanupPast ==
  /\ main = "cleanup" /\ closing <= Len(handlers) + 1
  /\ IF closing > Len(handlers) THEN UNCHANGED files ELSE Cleanup(handlers[closing])
  /\ closing' = closing + 1
  /\ UNCHANGED <<set, world, handlers, fds, scan, held, pc, cancelled, queue, main, logger, own>>

CleanupSkipsFirst ==
  /\ main = "cleanup" /\ closing <= Len(handlers)
  /\ IF closing = Len(handlers) THEN UNCHANGED files ELSE Cleanup(handlers[closing + 1])
  /\ closing' = closing + 1
  /\ UNCHANGED <<set, world, handlers, fds, scan, held, pc, cancelled, queue, main, logger, own>>
-----------------------------------------------------------------------------
(* SIGHUP or SIGTERM.  Once the reader is joined pthread_cancel finds no   *)
(* thread: the C library keeps its stack and answers ESRCH.                *)
Signal ==
  /\ main = "join_reader"
  /\ Cancel
  /\ UNCHANGED <<main, closing, logger, own>>

JoinReader ==
  /\ main = "join_reader" /\ pc \in {"done", "dead"}
  /\ main' = "cleanup"
  /\ UNCHANGED <<vars, closing, logger, own>>

(* reader_cleanup: the handlers one by one, then the end marker. *)
CleanupHandler ==
  /\ main = "cleanup" /\ closing <= Len(handlers)
  /\ Cleanup(handlers[closing])
  /\ closing' = closing + 1
  /\ UNCHANGED <<set, world, handlers, fds, scan, held, pc, cancelled, queue, main, logger, own>>

PushEnd ==
  /\ main = "cleanup" /\ closing > Len(handlers)
  /\ queue' = Append(queue, "end")
  /\ main' = "join_logger"
  /\ UNCHANGED <<set, files, world, handlers, fds, scan, held, pc, cancelled, closing,
                 logger, own>>

JoinLogger ==
  /\ main = "join_logger" /\ logger = "done"
  /\ main' = "logger_cleanup"
  /\ UNCHANGED <<vars, closing, logger, own>>

OpenOwn(s)  == own[s] = Bad /\ Open(Lowest, Own(s)) /\ own' = [own EXCEPT ![s] = Lowest]
CloseOwn(s) == own[s] # Bad /\ Close(own[s]) /\ own' = [own EXCEPT ![s] = Bad]

(* The output handler is disconnected; buffer_cleanup frees what is left. *)
Finalize ==
  /\ main = "logger_cleanup"
  /\ \/ CloseOwn("dest")
     \/ own["dest"] = Bad /\ UNCHANGED <<files, own>>
  /\ queue' = <<>>
  /\ main' = "exit"
  /\ UNCHANGED <<set, world, handlers, fds, scan, held, pc, cancelled, closing, logger>>
-----------------------------------------------------------------------------
others == <<set, world, handlers, fds, scan, held, pc, cancelled, main, closing>>

(* Without a destination the thread returns.  Otherwise it opens the old   *)
(* backlog, if there is one.                                               *)
Start ==
  /\ logger = "start"
  /\ \/ logger' \in {"done", "pop"} /\ UNCHANGED <<files, own>>
     \/ logger' = "first" /\ OpenOwn("in")
  /\ UNCHANGED <<others, queue>>

(* Its first line is a message to deliver; without one it is closed. *)
ReadFirst ==
  /\ logger = "first"
  /\ \/ logger' = "deliver" /\ UNCHANGED <<files, own>>
     \/ logger' = "pop" /\ CloseOwn("in")
  /\ UNCHANGED <<others, queue>>

(* The end marker ends the thread, any other message is to be delivered. *)
Pop ==
  /\ logger = "pop" /\ queue # <<>>
  /\ queue' = Tail(queue)
  /\ logger' = IF Head(queue) = "end" THEN "done" ELSE "deliver"
  /\ UNCHANGED <<others, files, own>>

(* The message, and all of the backlog, is delivered.  Or it never is: the *)
(* logger tries again for ever where it has no backlog, and a destination  *)
(* that is ready but takes nothing is not given up (gives_up in Delivery). *)
Deliver ==
  /\ logger = "deliver" /\ own["in"] = Bad /\ own["out"] = Bad
  /\ logger' = "pop"
  /\ UNCHANGED <<others, files, queue, own>>

(* After a delivery that failed the messages go to the backlog; the end    *)
(* marker ends the process there (double_close in Logger).                 *)
Backlog ==
  /\ logger = "deliver" /\ own["out"] # Bad /\ queue # <<>>
  /\ queue' = Tail(queue)
  /\ logger' = IF Head(queue) = "end" THEN "aborted" ELSE "deliver"
  /\ UNCHANGED <<others, files, own>>

(* What else ends the process in the logger thread: the Fatal, Require and *)
(* exit of Delivery, and where Logger stops without a return.              *)
Abort ==
  /\ logger = "deliver"
  /\ logger' = "aborted"
  /\ UNCHANGED <<others, files, queue, own>>

(* connect and disconnect of the destination. *)
Connects    == logger = "deliver" /\ OpenOwn("dest") /\ UNCHANGED <<others, queue, logger>>
Disconnects == logger = "deliver" /\ CloseOwn("dest") /\ UNCHANGED <<others, queue, logger>>

(* The backlog is opened for writing and for reading after a delivery that *)
(* failed; it is closed for writing after one that did not, or when a      *)
(* write to it fails, and altogether when it is delivered.                 *)
OpensBacklog ==
  /\ logger = "deliver"
  /\ OpenOwn("in") \/ OpenOwn("out")
  /\ UNCHANGED <<others, queue, logger>>

ClosesBacklog ==
  /\ logger = "deliver"
  /\ CloseOwn("in") \/ CloseOwn("out")
  /\ UNCHANGED <<others, queue, logger>>

ReaderRun == Alive /\ Run /\ UNCHANGED <<main, closing, logger, own>>
MainRun   == Alive /\ (JoinReader \/ CleanupHandler \/ PushEnd \/ JoinLogger \/ Finalize)
LoggerRun == Alive /\ (Start \/ ReadFirst \/ Pop)

GNext ==
  \/ Alive /\ Senders /\ UNCHANGED <<main, closing, logger, own>>
  \/ Alive /\ Signal
  \/ ReaderRun \/ MainRun \/ LoggerRun
  \/ Alive /\ (Deliver \/ Backlog \/ Abort)
  \/ Alive /\ (Connects \/ Disconnects \/ OpensBacklog \/ ClosesBacklog)

(* Each thread runs; but nothing says that a message is ever delivered, or *)
(* that a select() which waits fails.                                      *)
GSpec ==
  /\ GInit /\ [][GNext]_allVars
  /\ WF_allVars(ReaderRun /\ ~SelectFails) /\ WF_allVars(MainRun) /\ WF_allVars(LoggerRun)
-----------------------------------------------------------------------------
GTypeOK ==
  /\ TypeOK
  /\ main \in {"join_reader", "cleanup", "join_logger", "logger_cleanup", "exit"}
  /\ closing \in 1 .. Len(handlers) + 1
  /\ logger \in {"start", "first", "pop", "deliver", "done", "aborted"}
  /\ own \in [Streams -> Nat \cup {Bad}]

(* The logger opens and closes three descriptors while the reader and,     *)
(* after it, main close theirs: no thread closes a descriptor of another   *)
(* one, and the handlers not yet cleaned up keep theirs.                   *)
ThreadsApart ==
  Apart => /\ \A s \in Streams : own[s] # Bad => At(own[s]) = Own(s)
           /\ main # "exit" => \A k \in closing .. Len(handlers) : ReadsOwn(k)

(* After reader_cleanup no connection and no udp socket is open, whichever *)
(* handlers were added, removed and left (reader.c:192-195).               *)
NothingLeaks ==
  Apart /\ main \in {"join_logger", "logger_cleanup", "exit"} =>
    \A n \in DOMAIN files : Kind(files[n]) \notin {"conn", "udp"}

(* Nothing comes after the end marker, at which the logger stops: main     *)
(* pushes it when the reader can push no more (main.c:67-68).              *)
MarkerLast == \A k \in DOMAIN queue : queue[k] = "end" => k = Len(queue)

(* main.c:32 "Nice shutdown requested": after a signal, or when the reader *)
(* is done, main comes to wait for the logger, whatever the logger is at;  *)
(* and then the process ends, unless the logger keeps a message that it    *)
(* can neither deliver nor put away (logger.c:226-231, output.c:86).       *)
ShutdownEnds ==
  /\ (cancelled \/ pc = "done" ~> main = "join_logger" \/ ~Alive)
  /\ (main = "join_logger" ~> ~Alive) \/ <>[](logger = "deliver")
=============================================================================
