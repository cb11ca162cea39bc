------------------------------ MODULE Delivery ------------------------------
(***************************************************************************)
(* The delivery of one message at a time by the logger thread: the retry   *)
(* loop of deliver_message (output.c) around an output handler's connect,  *)
(* disconnect and write (output_tcp.c and its twin output_udp.c,           *)
(* output_file.c, output_tools.c).                                         *)
(*                                                                         *)
(* The kernel answers every call as it likes; descriptors are numbers,     *)
(* open() and socket() take the lowest free one, and the other threads     *)
(* open and close theirs in between.  A message is its units 1 .. MsgLen,  *)
(* the last one being the newline.  A string that does not end in one      *)
(* (strlen stops at a NUL byte of the input) is never written: cut says    *)
(* that the message is such a string.  What a receiver has of the line it  *)
(* is in is kept, not everything it ever got; it has what write() took.    *)
(***************************************************************************)
EXTENDS Integers, Sequences, FiniteSets, SequencesExt

CONSTANTS
  Kinds,      \* the output types that are checked
  Fds,        \* descriptor numbers a new descriptor may get
  MaxOthers,  \* bound: descriptors the other threads have open at a time
  MsgLen      \* units of a message: what a write() may take one at a time

ASSUME DeliveryAssumption ==
  /\ Kinds \subseteq {"tcp", "udp", "file", "stdout", "unix"}
  /\ Fds \subseteq Nat \ {0, 1, 2}
  /\ MaxOthers \in Nat
  /\ MsgLen \in Nat \ {0}

VARIABLES
  kind,     \* the handler's type; "stdout" is a file handler made for "-"
  state,    \* handler->state
  fd,       \* handler->fd, or -1
  own,      \* descriptors the handler has opened and not closed
  others,   \* descriptors the other threads have open
  watched,  \* fds, the descriptor set of the current call
  retry,    \* retry of the current call
  todo,     \* units of the message not yet written in this call
  cut,      \* the message ends before its newline
  pc,       \* where deliver_message is; "idle" is the logger's code
  result,   \* what the last call returned
  line,     \* units of the receiver's unfinished line; 0 is a fragment left by an earlier call
  lines,    \* lines completed on this connection: 0, 1, or 2 for more
  got       \* the last completed line

handler  == <<state, fd, own>>
receiver == <<line, lines, got>>
vars     == <<kind, handler, others, watched, retry, todo, cut, pc, result, receiver>>

Net     == {"tcp", "udp"}
Stdout  == 1
Retries == 3
Ended   == {"exited", "aborted", "cleaned"}
Called  == {"top", "select", "write", "check"}
Whole   == [i \in 1 .. MsgLen |-> i]
Opened  == own \cup others \cup {Stdout}

(* POSIX: the lowest descriptor that is free.  (socket() without one is    *)
(* fatal; MaxOthers leaves one.)                                           *)
IsLowestFree(f) == f \in Fds \ Opened /\ \A g \in Fds \ Opened : f <= g

Sendable == state \in {"ready", "sending"}

(* What select(fd + 1, ...) looks at; a descriptor that is not open is an error. *)
Selected == {f \in watched : f <= fd}

Init ==
  /\ kind \in Kinds
  /\ state = "disconnected"
  /\ fd = IF kind = "stdout" THEN Stdout ELSE -1
  /\ own = {} /\ others = {}
  /\ watched = {}
  /\ retry = 0 /\ todo = 0 /\ cut = FALSE
  /\ pc = "idle"
  /\ result = "none"
  /\ line = <<>> /\ lines = 0 /\ got = <<>>
-----------------------------------------------------------------------------
(* Mutated forms of the definitions below, for checking the properties.    *)

NetDisconnectLeaks ==
  /\ kind \in Net
  /\ state' = "disconnected"
  /\ fd' = -1
  /\ UNCHANGED own

NetDisconnectKeepsFd ==
  /\ kind \in Net
  /\ state' = "disconnected"
  /\ own' = own \ {fd}
  /\ UNCHANGED fd
-----------------------------------------------------------------------------
(* The handler's methods.                                                  *)

(* A new connection: its receiver has nothing yet. *)
NewReceiver == line' = <<>> /\ lines' = 0 /\ UNCHANGED got

(* output_tcp_connect, output_udp_connect: the socket is created first.    *)
(* Resolving or connecting fails, is said to take time, or succeeds.       *)
NetConnect ==
  /\ kind \in Net
  /\ \E f \in Fds :
       /\ IsLowestFree(f)
       /\ fd' = f
       /\ own' = own \cup {f}
  /\ \/ state' \in {"error", "connecting"} /\ UNCHANGED receiver
     \/ state' = "ready" /\ NewReceiver

(* output_file_connect: an open that fails leaves the handler as it was. *)
FileConnect ==
  /\ \/ /\ kind = "file"
        /\ \E f \in Fds :
             /\ IsLowestFree(f)
             /\ fd' = f
             /\ own' = own \cup {f}
        /\ state' = "ready"
     \/ /\ kind = "file"
        /\ fd' = -1
        /\ UNCHANGED <<own, state>>
     \/ /\ kind = "stdout"
        /\ state' = "ready"
        /\ UNCHANGED <<fd, own>>
  /\ UNCHANGED receiver

(* output_unix_connect, a stub: the handler stays disconnected, so that    *)
(* none of its other stubs is ever called but cleanup.                     *)
UnixConnect ==
  /\ kind = "unix"
  /\ UNCHANGED <<handler, receiver>>

(* output_tcp_disconnect, output_udp_disconnect: whatever close() says. *)
NetDisconnect ==
  /\ kind \in Net
  /\ state' = "disconnected"
  /\ own' = own \ {fd}
  /\ fd' = -1

(* output_file_disconnect: a close() that fails, as it does for good once  *)
(* fd is -1, leaves the state as it is.                                    *)
FileDisconnect ==
  /\ kind = "file"
  /\ state' \in IF fd = -1 THEN {state} ELSE {state, "disconnected"}
  /\ own' = own \ {fd}
  /\ fd' = -1

(* The handler disconnects and control goes to next; the Require of the    *)
(* disconnect methods does not allow "sending", and stdout exits.          *)
Disconnect(next) ==
  \/ /\ state # "sending"
     /\ NetDisconnect \/ FileDisconnect
     /\ pc' = next
  \/ /\ state # "sending" /\ kind = "stdout"
     /\ pc' = "exited"
     /\ UNCHANGED handler
  \/ /\ state = "sending"
     /\ pc' = "aborted"
     /\ UNCHANGED handler
-----------------------------------------------------------------------------
(* Mutated forms of the steps of deliver_message below.                    *)

PrepareUnlessZero ==
  /\ pc = "top" /\ retry # 0
  /\ IF state # "disconnected" THEN UNCHANGED <<handler, receiver>> /\ pc' = "select"
     ELSE IF kind \in Net /\ fd # -1 THEN UNCHANGED <<handler, receiver>> /\ pc' = "aborted"
     ELSE (NetConnect \/ FileConnect \/ UnixConnect) /\ pc' = "select"
  /\ watched' = IF fd' = -1 THEN watched ELSE watched \cup {fd'}
  /\ UNCHANGED <<kind, others, retry, todo, cut, result>>

TimeoutUncounted ==
  /\ pc = "select"
  /\ Sendable => Selected \subseteq Opened
  /\ watched' = IF Sendable THEN {} ELSE watched
  /\ pc' = "check"
  /\ UNCHANGED <<kind, handler, others, retry, todo, cut, result, receiver>>

TakenUncounted(k) ==
  /\ k \in 1 .. todo
  /\ kind = "udp" => k = todo
  /\ todo' = IF k = todo THEN 0 ELSE MsgLen
  /\ LET all == line \o SubSeq(Whole, MsgLen - todo + 1, MsgLen - todo + k) IN
       IF k = todo
         THEN line' = <<>> /\ got' = all /\ lines' = IF lines = 0 THEN 1 ELSE 2
         ELSE line' = all /\ UNCHANGED <<got, lines>>

WriteFailsSending ==
  /\ pc = "write" /\ ~cut
  /\ state' = "sending"
  /\ pc' = "check"
  /\ UNCHANGED <<kind, fd, own, others, watched, retry, todo, cut, result, receiver>>
-----------------------------------------------------------------------------
(* deliver_message.                                                        *)

Return(r) == pc' = "idle" /\ result' = r

(* The logger has a message to deliver.  (The length of a cut one is never *)
(* looked at.)                                                             *)
Deliver ==
  /\ pc = "idle"
  /\ watched' = {}
  /\ todo' = MsgLen
  /\ cut' \in BOOLEAN
  /\ retry' = Retries
  /\ pc' = "top"
  /\ result' = "none"
  /\ line' = IF line = <<>> THEN <<>> ELSE <<0>>
  /\ UNCHANGED <<kind, handler, others, lines, got>>

GiveUp ==
  /\ pc = "top" /\ retry <= 0
  /\ Return("failed")
  /\ UNCHANGED <<kind, handler, others, watched, retry, todo, cut, receiver>>

(* The head of the loop: connect if disconnected, and watch the descriptor *)
(* there is.  What was watched stays watched.                              *)
Prepare ==
  /\ pc = "top" /\ retry > 0
  /\ IF state # "disconnected" THEN UNCHANGED <<handler, receiver>> /\ pc' = "select"
     ELSE IF kind \in Net /\ fd # -1 THEN UNCHANGED <<handler, receiver>> /\ pc' = "aborted"
     ELSE (NetConnect \/ FileConnect \/ UnixConnect) /\ pc' = "select"
  /\ watched' = IF fd' = -1 THEN watched ELSE watched \cup {fd'}
  /\ UNCHANGED <<kind, others, retry, todo, cut, result>>

(* select() says some descriptors are writable, and leaves those in the    *)
(* set; it may be another one than the handler's.                          *)
Wake(ready) ==
  /\ pc = "select" /\ Sendable
  /\ ready # {} /\ ready \subseteq Selected
  /\ Selected \subseteq Opened
  /\ watched' = ready
  /\ retry' = Retries
  /\ pc' = IF fd \in ready THEN "write" ELSE "check"
  /\ UNCHANGED <<kind, handler, others, todo, cut, result, receiver>>

(* Thirty seconds without an answer, or five without a connection to ask.  *)
Timeout ==
  /\ pc = "select"
  /\ Sendable => Selected \subseteq Opened
  /\ watched' = IF Sendable THEN {} ELSE watched
  /\ retry' = retry - 1
  /\ pc' = "check"
  /\ UNCHANGED <<kind, handler, others, todo, cut, result, receiver>>

(* A signal, or a watched descriptor that was closed meanwhile. *)
SelectError ==
  /\ pc = "select"
  /\ Return("failed")
  /\ UNCHANGED <<kind, handler, others, watched, retry, todo, cut, receiver>>
(* k more units of the message are taken; the last is the newline.  A      *)
(* datagram is taken whole.                                                *)
Taken(k) ==
  /\ k \in 1 .. todo
  /\ kind = "udp" => k = todo
  /\ todo' = todo - k
  /\ LET all == line \o SubSeq(Whole, MsgLen - todo + 1, MsgLen - todo + k) IN
       IF k = todo
         THEN line' = <<>> /\ got' = all /\ lines' = IF lines = 0 THEN 1 ELSE 2
         ELSE line' = all /\ UNCHANGED <<got, lines>>

(* output_handler_common_write with a string that does not end in a        *)
(* newline: Fatal.                                                         *)
WriteCut ==
  /\ pc = "write" /\ cut
  /\ pc' = "aborted"
  /\ UNCHANGED <<kind, handler, others, watched, retry, todo, cut, result, receiver>>

(* A write() of output_handler_common_write that sends something. *)
WriteSome(k) ==
  /\ pc = "write" /\ ~cut
  /\ Taken(k)
  /\ \/ /\ k = todo
        /\ state' = "ready"
        /\ Return("ok")
     \/ /\ k < todo
        /\ state' = "sending"
        /\ UNCHANGED <<pc, result>>
  /\ UNCHANGED <<kind, fd, own, others, watched, retry, cut>>

(* EAGAIN: only a descriptor this program did not open is non-blocking. *)
WriteAgain ==
  /\ pc = "write" /\ ~cut
  /\ kind = "stdout"
  /\ state' = "sending"
  /\ pc' = "check"
  /\ UNCHANGED <<kind, fd, own, others, watched, retry, todo, cut, result, receiver>>

(* EPIPE or another error. *)
WriteFails ==
  /\ pc = "write" /\ ~cut
  /\ state' = "error"
  /\ pc' = "check"
  /\ UNCHANGED <<kind, fd, own, others, watched, retry, todo, cut, result, receiver>>

(* The end of the loop: a handler in error is disconnected. *)
Check ==
  /\ pc = "check"
  /\ \/ /\ state = "error"
        /\ Disconnect("top")
        /\ retry' = retry - 1
     \/ /\ state # "error"
        /\ pc' = "top"
        /\ UNCHANGED <<handler, retry>>
  /\ UNCHANGED <<kind, others, watched, todo, cut, result, receiver>>

(* output_handler_common_cleanup, when the logger is done for good.  (That *)
(* of unix does less, but it has nothing to disconnect.)                   *)
Cleanup ==
  /\ pc = "idle"
  /\ \/ state = "disconnected" /\ pc' = "cleaned" /\ UNCHANGED handler
     \/ state # "disconnected" /\ Disconnect("cleaned")
  /\ UNCHANGED <<kind, others, watched, retry, todo, cut, result, receiver>>

(* The reader accepts a connection or opens an input; it closes one. *)
OthersOpen(f) ==
  /\ pc \notin Ended
  /\ Cardinality(others) < MaxOthers
  /\ others' = others \cup {f}
  /\ IsLowestFree(f)
  /\ UNCHANGED <<kind, handler, watched, retry, todo, cut, pc, result, receiver>>

OthersClose(f) ==
  /\ pc \notin Ended
  /\ f \in others
  /\ others' = others \ {f}
  /\ UNCHANGED <<kind, handler, watched, retry, todo, cut, pc, result, receiver>>

(* Every step of the loop is taken: connect() and close() return, select() *)
(* has a timeout.  A write() has none: the descriptors are blocking, so a  *)
(* receiver that stops reading may hold it for ever.                       *)
Loop ==
  \/ GiveUp \/ Prepare
  \/ Timeout \/ SelectError \/ \E ready \in SUBSET watched : Wake(ready)
  \/ WriteCut \/ Check

Next ==
  \/ Deliver \/ Loop
  \/ \E k \in 1 .. MsgLen : WriteSome(k)
  \/ WriteAgain \/ WriteFails
  \/ Cleanup
  \/ \E f \in Fds : OthersOpen(f) \/ OthersClose(f)

Fairness == WF_vars(Loop)

Spec == Init /\ [][Next]_vars /\ Fairness
-----------------------------------------------------------------------------
TypeOK ==
  /\ kind \in Kinds
  /\ state \in {"disconnected", "connecting", "ready", "sending", "error"}
  /\ fd \in Fds \cup {-1, Stdout}
  /\ own \subseteq Fds
  /\ others \subseteq Fds
  /\ watched \subseteq Fds \cup {Stdout}
  /\ retry \in -1 .. Retries
  /\ todo \in 0 .. MsgLen
  /\ cut \in BOOLEAN
  /\ pc \in {"idle"} \cup Called \cup Ended
  /\ result \in {"none", "ok", "failed"}
  /\ line \in Seq(0 .. MsgLen)
  /\ lines \in 0 .. 2
  /\ got \in Seq(0 .. MsgLen)

(* deliver_message returns 1 only when write() has taken the newline of    *)
(* the message and nothing after it: a file has the message whole, after a *)
(* fragment at most, however often it was reopened on the way, a           *)
(* connection has as its line only an end of this message, which need not  *)
(* be all of it.                                                           *)
DeliveredEnds ==
  result = "ok" =>
    /\ line = <<>>
    /\ IF kind \in Net THEN IsSuffix(got, Whole) ELSE IsSuffix(Whole, got)

(* On a network connection only the first line may be damaged: every later *)
(* one is a message, complete, with nothing of another one before it,      *)
(* whatever calls failed in between.                                       *)
LinesWhole == kind \in Net /\ lines = 2 => got = Whole

(* Over all reconnects, failed closes and failed calls the handler has     *)
(* open exactly the descriptor it knows, none when it knows none: nothing  *)
(* leaks, and nothing of another thread is written to or closed.           *)
OneDescriptor ==
  /\ own = IF fd \in Fds THEN {fd} ELSE {}
  /\ own \cap others = {}

(* No Require of connect, write or disconnect fails, except with a stdout  *)
(* that is non-blocking (output_tcp.c:27, 84, output_file.c:51,            *)
(* output_tools.c:22): a message that ends in a newline ends nothing else. *)
NeverAborts ==
  /\ kind # "stdout" /\ ~cut => pc # "aborted"
  /\ pc = "write" => state \in {"ready", "sending"} /\ fd # -1

(* A descriptor of another thread is writable, the handler's is not. *)
WakeForOthers == \E ready \in SUBSET (watched \ {fd}) : Wake(ready)

(* A call returns, unless it hangs in write(), or for ever either its      *)
(* writes fail, or are put off, or it is woken for a descriptor that it    *)
(* has closed and another thread has opened: failed connects and timeouts  *)
(* alone always use up the retries.                                        *)
GivesUpUnlessWoken ==
  \/ []<>(pc \notin Called)
  \/ <>[](pc = "write")
  \/ []<><<WriteFails>>_vars
  \/ []<><<WriteAgain>>_vars
  \/ []<><<WakeForOthers>>_vars

(* README:28 "If delivery fails 3 times, it will write the entire buffer   *)
(* to file": a call that does not hang in write() returns.                 *)
GivesUp == []<>(pc \notin Called) \/ <>[](pc = "write")

(* README:4-5 "genbuf is a generic line buffering tool": what a connection *)
(* receives as a line is a line.                                           *)
EveryLineWhole == kind = "tcp" /\ lines > 0 => got = Whole
=============================================================================
