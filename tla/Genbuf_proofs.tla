---------------------------- MODULE Genbuf_proofs ----------------------------
(***************************************************************************)
(* Proofs about the whole process: the reader, the logger and main open    *)
(* and close descriptors of one table, and as long as at most one source   *)
(* of the command line closes descriptor 0 none of them closes another's;  *)
(* reader_cleanup leaves no connection and no udp socket open, and nothing *)
(* is pushed behind the end marker.                                        *)
(*                                                                         *)
(* While main waits for the reader the invariant is the reader's own; from *)
(* then on its parts Mine, ZeroOnce and Owned hold of the handlers that    *)
(* reader_cleanup has still to clean up.                                   *)
(***************************************************************************)
EXTENDS Genbuf, Reader_proofs

(* The steps of main, in their order. *)
Joined ==
  /\ main = "join_reader" => closing = 1 /\ RInv
  /\ main # "join_reader" => pc \in {"done", "dead"}
  /\ main \notin {"join_reader", "cleanup"} => closing = Len(handlers) + 1

(* The end marker is not pushed before the end of the cleanup. *)
Unmarked == main \in {"join_reader", "cleanup"} => \A k \in DOMAIN queue : queue[k] # "end"

(* The logger's descriptors. *)
HasOwn == \A s \in Streams : own[s] # Bad /\ ~Contested(own[s]) => At(own[s]) = Own(s)

Threads ==
  /\ main \in {"join_reader", "cleanup", "join_logger", "logger_cleanup", "exit"}
  /\ closing \in 1 .. Len(handlers) + 1
  /\ logger \in {"start", "first", "pop", "deliver", "done", "aborted"}
  /\ own \in [Streams -> Nat \cup {Bad}]

GInv ==
  /\ Typed /\ Threads
  /\ Mine(closing) /\ ZeroOnce(closing) /\ Owned(closing)
  /\ Nonstop /\ Joined /\ Unmarked /\ MarkerLast /\ HasOwn
-----------------------------------------------------------------------------
(* What the logger opens is no input, and nothing is nowhere. *)
LEMMA OwnIsNoInput ==
  ASSUME Typed, NEW s \in Streams
  PROVE  /\ Own(s) \notin DOMAIN inbox /\ Own(s) # Nowhere /\ Own(s) \notin {Stdin} \cup Conns
         /\ \A c \in Nat : Own(s) # <<"conn", c>>
         /\ \A l \in Listeners : Own(s) \notin Range(inbox[l])
         /\ Kind(Own(s)) \notin {"conn", "udp"}
<1>1. Kind(Own(s)) \in {"dest", "in", "out"}
  BY DEF Own, Kind, Streams
<1>2. /\ \A o \in DOMAIN inbox : Kind(o) \in {"stdin", "file", "unix", "udp", "tcp", "conn"}
      /\ \A o \in {Stdin} \cup Conns : Kind(o) \in {"stdin", "conn"}
  BY ObjectKinds DEF Typed, Boxed
<1>3. ASSUME NEW l \in Listeners PROVE Range(inbox[l]) \subseteq Conns
  <2>1. inbox[l] \in Seq(Conns)
    BY DEF Typed, Boxed, Listeners, Items
  <2> QED
    BY <2>1 DEF Range
<1>4. \A c \in Nat : Own(s) # <<"conn", c>>
  BY DEF Own, Streams
<1> QED
  BY <1>1, <1>2, <1>3, <1>4 DEF Own, Streams, Nowhere

(* No handler that is cleaned up has the logger's descriptor. *)
LEMMA ClosesNotOwn ==
  ASSUME Typed, NEW from \in Nat \ {0}, Mine(from), ZeroOnce(from),
         NEW j \in from .. Len(handlers),
         NEW s \in Streams, NEW n \in Nat, ~Contested(n), At(n) = Own(s)
  PROVE  Closed(handlers[j]) # n
<1>1. j \in DOMAIN handlers
  BY TableFacts
<1>2. CASE Kind(handlers[j].input) # "tcp"
  <2>1. Closed(handlers[j]) = handlers[j].fd
    BY <1>2 DEF Closed
  <2>2. CASE Contested(handlers[j].fd)
    BY <2>1, <2>2
  <2>3. CASE ~Contested(handlers[j].fd)
    <3>1. ReadsOwn(j)
      BY <2>3 DEF Mine
    <3>2. At(handlers[j].fd) \in DOMAIN inbox
      BY <1>1, <3>1, OwnInput
    <3> QED
      BY <2>1, <3>2, OwnIsNoInput
  <2> QED
    BY <2>2, <2>3
<1>3. CASE Kind(handlers[j].input) = "tcp"
  <2>1. Closed(handlers[j]) \in {Bad, 0} /\ Bad \notin Nat
    BY <1>3, TableFacts DEF Closed
  <2>2. ASSUME Closed(handlers[j]) = 0, n = 0 PROVE FALSE
    <3>1. Apart
      BY <2>2 DEF Contested
    <3>2. At(0) \in {Stdin} \cup Conns
      BY <2>2, <3>1 DEF ZeroOnce
    <3> QED
      BY <2>2, <3>2, OwnIsNoInput
  <2> QED
    BY <2>1, <2>2
<1> QED
  BY <1>2, <1>3

(* The logger opens a descriptor: nobody had it. *)
LEMMA OpensTable ==
  ASSUME Typed, NEW s \in Streams, Open(Lowest, Own(s)),
         UNCHANGED <<sources, leftover, handlers>>,
         NEW from \in Nat \ {0}, Mine(from), ZeroOnce(from), Owned(from)
  PROVE  /\ Mine(from)' /\ ZeroOnce(from)' /\ Owned(from)'
         /\ \A k \in DOMAIN handlers : ReadsOwn(k) => At(handlers[k].fd)' = At(handlers[k].fd)
<1>1. PICK f : f = Lowest
  OBVIOUS
<1>2. f \in Nat \ {1, 2} /\ f \notin DOMAIN files
  BY <1>1, LowestIsFree DEF Typed, Plain
<1>3. /\ DOMAIN files' = DOMAIN files \cup {f} /\ files'[f] = Own(s)
      /\ \A n \in DOMAIN files : files'[n] = files[n]
  BY <1>1, <1>2 DEF Open
<1>4. \A n : n # f => At(n)' = At(n)
  BY <1>3 DEF At
<1>5. Apart' = Apart
  BY DEF Apart, Claims
<1>6. \A k : Closed(handlers[k])' = Closed(handlers[k])
  BY DEF Closed
<1>7. ASSUME NEW k \in DOMAIN handlers, ReadsOwn(k)
      PROVE  At(handlers[k].fd)' = At(handlers[k].fd) /\ ReadsOwn(k)'
  <2>1. handlers[k].fd # f
    BY <1>2, <1>7, OwnInput
  <2>2. At(handlers[k].fd)' = At(handlers[k].fd)
    BY <1>4, <2>1
  <2> QED
    BY <1>7, <2>2 DEF ReadsOwn
<1>8. Mine(from)'
  <2> SUFFICES ASSUME NEW k \in from .. Len(handlers), ~Contested(handlers[k].fd)'
               PROVE  ReadsOwn(k)'
    BY DEF Mine
  <2>1. k \in DOMAIN handlers
    BY TableFacts
  <2>2. ReadsOwn(k)
    BY <1>5 DEF Mine, Contested
  <2> QED
    BY <1>7, <2>1, <2>2
<1>9. ZeroOnce(from)'
  <2>1. ASSUME NEW k \in from .. Len(handlers), Apart, Closed(handlers[k]) = 0
        PROVE  At(0)' = At(0)
    <3>1. At(0) \in {Stdin} \cup Conns
      BY <2>1 DEF ZeroOnce
    <3>2. Nowhere \notin {Stdin} \cup Conns
      BY ObjectKinds
    <3>3. f # 0
      BY <1>2, <3>1, <3>2 DEF At
    <3> QED
      BY <1>4, <3>3
  <2> QED
    BY <1>5, <1>6, <2>1 DEF ZeroOnce
<1>10. Owned(from)'
  <2>1. \A n \in DOMAIN files' : Kind(files'[n]) \in {"conn", "udp"} =>
          n \in DOMAIN files /\ files[n] = files'[n]
    BY <1>3, OwnIsNoInput
  <2> QED
    BY <1>5, <1>6, <2>1 DEF Owned
<1> QED
  BY <1>7, <1>8, <1>9, <1>10

(* The logger closes it: nobody else has it. *)
LEMMA ClosesTable ==
  ASSUME Typed, NEW s \in Streams, Close(own[s]), own[s] \in Nat \cup {Bad}, HasOwn,
         UNCHANGED <<sources, leftover, handlers>>,
         NEW from \in Nat \ {0}, Mine(from), ZeroOnce(from), Owned(from)
  PROVE  /\ Mine(from)' /\ ZeroOnce(from)' /\ Owned(from)'
         /\ \A k \in from .. Len(handlers) :
              ~Contested(handlers[k].fd) => At(handlers[k].fd)' = At(handlers[k].fd)
<1>1. PICK f : f = own[s]
  OBVIOUS
<1>2. /\ DOMAIN files' = DOMAIN files \ {f}
      /\ \A n \in DOMAIN files' : files'[n] = files[n]
  BY <1>1 DEF Close
<1>3. \A n : n # f => At(n)' = At(n)
  BY <1>2 DEF At
<1>4. Apart' = Apart
  BY DEF Apart, Claims
<1>5. \A k : Closed(handlers[k])' = Closed(handlers[k])
  BY DEF Closed
<1>6. ASSUME NEW k \in from .. Len(handlers), ~Contested(handlers[k].fd)
      PROVE  k \in DOMAIN handlers /\ ReadsOwn(k) /\ At(handlers[k].fd)' = At(handlers[k].fd)
  <2>1. k \in DOMAIN handlers
    BY TableFacts
  <2>2. ReadsOwn(k)
    BY <1>6 DEF Mine
  <2>3. At(handlers[k].fd) \in DOMAIN inbox /\ handlers[k].fd \in Nat
    BY <2>1, <2>2, OwnInput, TableFacts, HandlerShape
  <2>4. handlers[k].fd # f
    BY <1>1, <1>6, <2>3, TableFacts, OwnIsNoInput DEF HasOwn
  <2> QED
    BY <1>3, <2>1, <2>2, <2>4
<1>7. Mine(from)'
  <2> SUFFICES ASSUME NEW k \in from .. Len(handlers), ~Contested(handlers[k].fd)'
               PROVE  ReadsOwn(k)'
    BY DEF Mine
  <2>1. ~Contested(handlers[k].fd)
    BY <1>4 DEF Contested
  <2> QED
    BY <1>6, <2>1 DEF ReadsOwn
<1>8. ZeroOnce(from)'
  <2>1. ASSUME NEW k \in from .. Len(handlers), Apart, Closed(handlers[k]) = 0
        PROVE  At(0)' = At(0)
    <3>1. At(0) \in {Stdin} \cup Conns
      BY <2>1 DEF ZeroOnce
    <3>2. f # 0
      BY <1>1, <2>1, <3>1, TableFacts, OwnIsNoInput DEF HasOwn, Contested
    <3> QED
      BY <1>3, <3>2
  <2> QED
    BY <1>4, <1>5, <2>1 DEF ZeroOnce
<1>9. Owned(from)'
  BY <1>2, <1>4, <1>5 DEF Owned
<1> QED
  BY <1>6, <1>7, <1>8, <1>9

(* reader_cleanup closes the descriptor of a handler: those behind it keep *)
(* theirs.                                                                 *)
LEMMA CleansTable ==
  ASSUME Typed, NEW j \in 1 .. Len(handlers), Cleanup(handlers[j]),
         UNCHANGED <<sources, leftover, handlers>>,
         Mine(j), ZeroOnce(j), Owned(j)
  PROVE  Mine(j + 1)' /\ ZeroOnce(j + 1)' /\ Owned(j + 1)'
<1>1. PICK c : c = Closed(handlers[j])
  OBVIOUS
<1>2. /\ DOMAIN files' = DOMAIN files \ {c}
      /\ \A n \in DOMAIN files' : files'[n] = files[n]
  BY <1>1 DEF Cleanup, Close
<1>3. \A n : n # c => At(n)' = At(n)
  BY <1>2 DEF At
<1>4. Apart' = Apart
  BY DEF Apart, Claims
<1>5. \A k : Closed(handlers[k])' = Closed(handlers[k])
  BY DEF Closed
<1>6. /\ Len(handlers) \in Nat /\ j \in Nat \ {0} /\ j \in j .. Len(handlers)
      /\ \A k \in j + 1 .. Len(handlers) : k \in (j .. Len(handlers)) \ {j}
      /\ \A k \in (j .. Len(handlers)) \ {j} : k \in j + 1 .. Len(handlers)
  BY TableFacts
<1>7. Mine(j + 1)'
  <2> SUFFICES ASSUME NEW k \in j + 1 .. Len(handlers), ~Contested(handlers[k].fd)'
               PROVE  ReadsOwn(k)'
    BY DEF Mine
  <2>1. ~Contested(handlers[k].fd)
    BY <1>4 DEF Contested
  <2>2. ReadsOwn(k) /\ handlers[k].fd # c
    BY <1>1, <1>6, <2>1, ClosesOwn
  <2> QED
    BY <1>3, <2>2 DEF ReadsOwn
<1>8. ZeroOnce(j + 1)'
  <2>1. ASSUME NEW k \in j + 1 .. Len(handlers), Apart, Closed(handlers[k]) = 0
        PROVE  /\ At(0)' \in {Stdin} \cup Conns
               /\ \A l \in (j + 1 .. Len(handlers)) \ {k} : Closed(handlers[l]) # 0
    <3>1. /\ At(0) \in {Stdin} \cup Conns
          /\ \A l \in (j .. Len(handlers)) \ {k} : Closed(handlers[l]) # 0
      BY <1>6, <2>1 DEF ZeroOnce
    <3>2. c # 0
      BY <1>1, <1>6, <3>1
    <3> QED
      BY <1>3, <1>6, <3>1, <3>2
  <2> QED
    BY <1>4, <1>5, <2>1 DEF ZeroOnce
<1>9. Owned(j + 1)'
  <2> SUFFICES ASSUME Apart, NEW n \in DOMAIN files', Kind(files'[n]) \in {"conn", "udp"}
               PROVE  \E k \in j + 1 .. Len(handlers) : Closed(handlers[k])' = n
    BY <1>4 DEF Owned
  <2>1. PICK k \in j .. Len(handlers) : Closed(handlers[k]) = n
    BY <1>2 DEF Owned
  <2>2. k # j
    BY <1>1, <1>2, <2>1
  <2> QED
    BY <1>5, <1>6, <2>1, <2>2
<1> QED
  BY <1>7, <1>8, <1>9
-----------------------------------------------------------------------------
(* The invariant holds when main starts. *)
LEMMA InitGInv == GInit => GInv
<1> SUFFICES ASSUME GInit PROVE GInv
  OBVIOUS
<1>1. /\ RInv /\ queue = <<>> /\ closing = 1 /\ own = [s \in Streams |-> Bad]
      /\ main = "join_reader" /\ logger = "start"
  BY InitRInv DEF GInit, Init
<1>2. Typed /\ Mine(closing) /\ ZeroOnce(closing) /\ Owned(closing) /\ Nonstop
  BY <1>1 DEF RInv
<1>3. Threads
  <2>1. Len(handlers) \in Nat
    BY <1>2, TableFacts
  <2> QED
    BY <1>1, <2>1 DEF Threads
<1>4. Joined /\ Unmarked /\ MarkerLast /\ HasOwn
  BY <1>1 DEF Joined, Unmarked, MarkerLast, HasOwn
<1> QED
  BY <1>2, <1>3, <1>4 DEF GInv

(* The reader runs only while main waits for it. *)
LEMMA ReaderRuns ==
  ASSUME GInv, Next
  PROVE  main = "join_reader" /\ closing = 1 /\ RInv
<1>1. Typed
  BY DEF GInv
<1>2. pc \notin {"done", "dead"}
  <2>1. CASE Senders \/ Cancel
    BY <2>1 DEF Senders, Send, Finish, SendEmpty, Arrive, Connect, Cancel
  <2>2. CASE \E k \in DOMAIN handlers : Call(k)
    <3>1. \A k : Turn(k) => pc = "scan"
      BY DEF Turn
    <3> QED
      BY <2>2, <3>1 DEF Call, Read, ReadEof, Accept, AcceptAgain, AcceptFails
  <2>3. CASE Report \/ RemoveHandler \/ Rebuild \/ Select \/ SelectFails \/ Recover \/ Die
    BY <2>3 DEF Report, RemoveHandler, Rebuild, Select, SelectFails, Recover, Die
  <2> QED
    BY <2>1, <2>2, <2>3 DEF Next, Run
<1> QED
  BY <1>2 DEF GInv, Joined

(* It does not close what the logger has open. *)
LEMMA ReaderLeavesOwn ==
  ASSUME RInv, HasOwn, own \in [Streams -> Nat \cup {Bad}], Next, UNCHANGED own
  PROVE  HasOwn'
<1>1. Typed /\ Scanned /\ Mine(1) /\ ZeroOnce(1) /\ Apart' = Apart
  BY SameSet DEF RInv
<1> SUFFICES ASSUME NEW s \in Streams, own[s] # Bad, ~Contested(own[s]), At(own[s]) = Own(s)
             PROVE  At(own[s])' = Own(s)
  BY <1>1 DEF HasOwn, Contested
<1>2. own[s] \in DOMAIN files
  BY <1>1, OwnIsNoInput DEF At
<1>3. CASE RemoveHandler
  <2>1. /\ i \in 1 .. Len(handlers)
        /\ DOMAIN files' = DOMAIN files \ {Closed(handlers[i])}
        /\ \A n \in DOMAIN files' : files'[n] = files[n]
    BY <1>1, <1>3, RemovedIs
  <2>2. Closed(handlers[i]) # own[s]
    BY <1>1, <2>1, ClosesNotOwn
  <2> QED
    BY <1>2, <2>1, <2>2 DEF At
<1>4. CASE \E k \in DOMAIN handlers : Accept(k)
  <2>1. PICK o : AddSource(Connection(Lowest, o))
    BY <1>4 DEF Accept
  <2>2. Lowest \notin DOMAIN files
    BY <1>1, LowestIsFree DEF Typed, Plain
  <2> QED
    BY <1>2, <2>1, <2>2 DEF AddSource, Open, Connection, At
<1>5. CASE UNCHANGED files
  BY <1>5 DEF At
<1>6. RemoveHandler \/ (\E k \in DOMAIN handlers : Accept(k)) \/ UNCHANGED files
  BY DEF Next, Senders, Send, Finish, SendEmpty, Arrive, Connect, Cancel, Run, Call, Read, ReadEof,
         AcceptAgain, AcceptFails, Report, Rebuild, Select, SelectFails, Recover, Die
<1> QED
  BY <1>3, <1>4, <1>5, <1>6

(* The steps of the reader and its senders. *)
LEMMA ReaderStep ==
  ASSUME GInv, Next, UNCHANGED <<main, closing, logger, own>>
  PROVE  GInv'
<1>1. main = "join_reader" /\ closing = 1 /\ RInv
  BY ReaderRuns
<1>2. RInv'
  BY <1>1, StepRInv
<1>3. Typed' /\ Mine(closing)' /\ ZeroOnce(closing)' /\ Owned(closing)' /\ Nonstop'
  <2>1. closing' = 1
    BY <1>1
  <2> QED
    BY <1>2, <2>1 DEF RInv, Mine, ZeroOnce, Owned
<1>4. Threads'
  <2>1. Len(handlers') \in Nat
    BY <1>3 DEF Typed
  <2> QED
    BY <1>1, <2>1 DEF GInv, Threads
<1>5. Unmarked' /\ MarkerLast'
  <2>1. \A k \in DOMAIN queue : queue[k] # "end"
    BY <1>1 DEF GInv, Unmarked
  <2>2. queue' = queue \/ queue' = Append(queue, "line")
    BY DEF Next, Senders, Send, Finish, SendEmpty, Arrive, Connect, Cancel, Run, Call, Read, ReadEof, Accept,
           AcceptAgain, AcceptFails, Report, RemoveHandler, Rebuild, Select, SelectFails, Recover, Die
  <2>3. queue \in Seq({"line", "end"})
    BY DEF GInv, Typed, Plain
  <2>4. \A k \in DOMAIN queue' : queue'[k] # "end"
    BY <2>1, <2>2, <2>3
  <2> QED
    BY <2>4 DEF Unmarked, MarkerLast
<1>6. HasOwn'
  BY <1>1, ReaderLeavesOwn DEF GInv, Threads
<1>7. Joined'
  BY <1>1, <1>2 DEF Joined
<1> QED
  BY <1>3, <1>4, <1>5, <1>6, <1>7 DEF GInv

(* The steps that leave the descriptors alone. *)
LEMMA ThreadStep ==
  ASSUME GInv, Threads', Joined', Unmarked', MarkerLast',
         UNCHANGED <<sources, leftover, files, inbox, sent, connected, handlers, fds, i, count,
                     rescan, held, pc, cancelled, closing, own>>,
         queue' \in Seq({"line", "end"})
  PROVE  GInv'
<1>1. Apart' = Apart
  BY DEF Apart, Claims
<1>2. Typed' /\ Nonstop'
  BY <1>1, OthersTyped DEF GInv, Typed, Plain, Nonstop
<1>3. Mine(closing)' /\ ZeroOnce(closing)' /\ Owned(closing)'
  <2>1. PICK c : c = closing
    OBVIOUS
  <2>2. Mine(c)' /\ ZeroOnce(c)' /\ Owned(c)'
    BY <2>1, TableSame DEF GInv
  <2> QED
    BY <2>1, <2>2 DEF Mine, ZeroOnce, Owned
<1>4. HasOwn'
  BY <1>1 DEF GInv, HasOwn, Contested, At
<1> QED
  BY <1>2, <1>3, <1>4 DEF GInv

(* main joins the threads and pushes the marker; the logger goes on, or    *)
(* not.                                                                    *)
LEMMA MainStep ==
  ASSUME GInv,
         \/ JoinReader \/ PushEnd \/ JoinLogger \/ Deliver \/ Abort
         \/ Start /\ UNCHANGED own
         \/ ReadFirst /\ UNCHANGED own
  PROVE  GInv'
<1>1. /\ queue \in Seq({"line", "end"}) /\ Len(handlers) \in Nat
      /\ closing \in 1 .. Len(handlers) + 1
  BY TableFacts DEF GInv, Typed, Plain, Threads
<1>2. CASE \/ JoinReader \/ JoinLogger \/ Deliver \/ Abort
           \/ Start /\ UNCHANGED own
           \/ ReadFirst /\ UNCHANGED own
  <2>1. /\ UNCHANGED <<sources, leftover, files, inbox, sent, connected, handlers, fds, i, count,
                       rescan, held, pc, cancelled, queue, closing, own>>
        /\ \/ main' = main /\ logger' \in {"pop", "done", "deliver", "aborted"}
           \/ main = "join_reader" /\ pc \in {"done", "dead"} /\ main' = "cleanup" /\ logger' = logger
           \/ main = "join_logger" /\ main' = "logger_cleanup" /\ logger' = logger
    <3>1. ASSUME OpenOwn("in"), own' = own PROVE FALSE
      <4>1. Lowest \in Nat /\ Bad \notin Nat /\ own' = [own EXCEPT !["in"] = Lowest] /\ own["in"] = Bad
        BY <3>1, LowestIsFree, ReaderAssumption DEF OpenOwn, GInv, Typed, Plain
      <4> QED
        BY <3>1, <4>1 DEF GInv, Threads, Streams
    <3>2. ASSUME CloseOwn("in"), own' = own PROVE FALSE
      BY <3>2 DEF CloseOwn, GInv, Threads, Streams
    <3> QED
      BY <1>2, <3>1, <3>2 DEF JoinReader, JoinLogger, Deliver, Abort, Start, ReadFirst, others, vars,
                              set, world, scan
  <2>2. Threads'
    BY <2>1 DEF GInv, Threads
  <2>3. Unmarked' /\ MarkerLast'
    BY <2>1 DEF GInv, Unmarked, MarkerLast
  <2>4. Joined'
    <3>1. RInv => RInv'
      BY <1>1, <2>1, QueueApart
    <3> QED
      BY <2>1, <3>1 DEF GInv, Joined
  <2> QED
    BY <1>1, <2>1, <2>2, <2>3, <2>4, ThreadStep
<1>3. CASE PushEnd
  <2>1. /\ UNCHANGED <<sources, leftover, files, inbox, sent, connected, handlers, fds, i, count,
                       rescan, held, pc, cancelled, closing, logger, own>>
        /\ main = "cleanup" /\ main' = "join_logger" /\ closing > Len(handlers)
        /\ queue' = Append(queue, "end")
    BY <1>3 DEF PushEnd, set, world, scan
  <2>2. queue' \in Seq({"line", "end"})
    BY <1>1, <2>1
  <2>3. Threads'
    BY <2>1 DEF GInv, Threads
  <2>4. Unmarked' /\ MarkerLast'
    <3>1. \A k \in DOMAIN queue : queue[k] # "end"
      BY <2>1 DEF GInv, Unmarked
    <3>2. \A k \in DOMAIN queue' : queue'[k] = "end" => k = Len(queue')
      BY <1>1, <2>1, <3>1
    <3> QED
      BY <2>1, <3>2 DEF Unmarked, MarkerLast
  <2>5. Joined'
    <3>1. closing = Len(handlers) + 1
      BY <1>1, <2>1
    <3> QED
      BY <2>1, <3>1 DEF GInv, Joined
  <2> QED
    BY <2>1, <2>2, <2>3, <2>4, <2>5, ThreadStep
<1> QED
  BY <1>2, <1>3

(* The logger takes a message. *)
LEMMA TakeStep ==
  ASSUME GInv, Pop \/ Backlog
  PROVE  GInv'
<1>1. /\ UNCHANGED <<sources, leftover, files, inbox, sent, connected, handlers, fds, i, count,
                     rescan, held, pc, cancelled, main, closing, own>>
      /\ queue # <<>> /\ queue' = Tail(queue)
      /\ logger' \in {"pop", "deliver", "done", "aborted"}
  BY DEF Pop, Backlog, others, set, world, scan
<1>2. queue \in Seq({"line", "end"})
  BY DEF GInv, Typed, Plain
<1>3. /\ queue' \in Seq({"line", "end"}) /\ Len(queue') = Len(queue) - 1 /\ Len(queue) \in Nat
      /\ DOMAIN queue = 1 .. Len(queue) /\ DOMAIN queue' = 1 .. Len(queue')
      /\ \A k \in 1 .. Len(queue) - 1 : queue'[k] = queue[k + 1]
  BY <1>1, <1>2
<1>4. Threads'
  BY <1>1 DEF GInv, Threads
<1>5. Unmarked'
  <2>1. ASSUME \A k \in DOMAIN queue : queue[k] # "end", NEW k \in DOMAIN queue'
        PROVE  queue'[k] # "end"
    <3>1. k + 1 \in DOMAIN queue
      BY <1>3
    <3> QED
      BY <1>3, <2>1, <3>1
  <2> QED
    BY <1>1, <2>1 DEF GInv, Unmarked
<1>6. MarkerLast'
  <2> SUFFICES ASSUME NEW k \in DOMAIN queue', queue'[k] = "end" PROVE k = Len(queue')
    BY DEF MarkerLast
  <2>1. k + 1 \in DOMAIN queue /\ queue[k + 1] = "end" /\ k \in Nat
    BY <1>3
  <2>2. k + 1 = Len(queue)
    BY <2>1 DEF GInv, MarkerLast
  <2> QED
    BY <1>3, <2>1, <2>2
<1>7. Joined'
  <2>1. RInv => RInv'
    BY <1>1, <1>3, QueueApart
  <2> QED
    BY <1>1, <2>1 DEF GInv, Joined
<1> QED
  BY <1>1, <1>3, <1>4, <1>5, <1>6, <1>7, ThreadStep

(* The logger opens a descriptor. *)
LEMMA OpenStep ==
  ASSUME GInv, NEW s \in Streams, OpenOwn(s), UNCHANGED <<others, queue>>,
         logger' \in {"first", "deliver"}
  PROVE  GInv'
<1>1. /\ UNCHANGED <<sources, leftover, inbox, sent, connected, handlers, fds, i, count,
                     rescan, held, pc, cancelled, queue, main, closing>>
      /\ Open(Lowest, Own(s)) /\ own' = [own EXCEPT ![s] = Lowest]
  BY DEF OpenOwn, others, set, world, scan
<1>2. Typed /\ Apart' = Apart /\ closing \in Nat \ {0}
  <2>1. Typed /\ closing \in 1 .. Len(handlers) + 1 /\ Len(handlers) \in Nat
    BY TableFacts DEF GInv, Threads
  <2> QED
    BY <1>1, <2>1 DEF Apart, Claims
<1>3. PICK f, c : f = Lowest /\ c = closing
  OBVIOUS
<1>4. f \in Nat \ {1, 2} /\ f \notin DOMAIN files
  BY <1>2, <1>3, LowestIsFree DEF Typed, Plain
<1>5. /\ DOMAIN files' = DOMAIN files \cup {f} /\ files'[f] = Own(s)
      /\ \A n \in DOMAIN files : files'[n] = files[n]
  BY <1>1, <1>3, <1>4 DEF Open
<1>6. Typed'
  <2>1. DOMAIN files' \subseteq Nat \ {1, 2} /\ IsFiniteSet(DOMAIN files')
    BY <1>2, <1>4, <1>5, FS_AddElement DEF Typed, Plain
  <2>2. queue' \in Seq({"line", "end"})
    BY <1>1, <1>2 DEF Typed, Plain
  <2> QED
    BY <1>1, <1>2, <2>1, <2>2, OthersTyped
<1>7. Mine(closing)' /\ ZeroOnce(closing)' /\ Owned(closing)'
  <2>1. Mine(c)' /\ ZeroOnce(c)' /\ Owned(c)'
    BY <1>1, <1>2, <1>3, OpensTable DEF GInv
  <2> QED
    BY <1>1, <1>3, <2>1 DEF Mine, ZeroOnce, Owned
<1>8. RInv /\ closing = 1 => RInv'
  <2> SUFFICES ASSUME RInv, closing = 1 PROVE RInv'
    OBVIOUS
  <2>1. Mine(1)' /\ ZeroOnce(1)' /\ Owned(1)'
        /\ \A k \in DOMAIN handlers : ReadsOwn(k) => At(handlers[k].fd)' = At(handlers[k].fd)
    BY <1>1, <1>2, OpensTable DEF RInv
  <2>2. \A k \in DOMAIN handlers : Apart => At(handlers[k].fd)' = At(handlers[k].fd)
    BY <2>1, AllOpen
  <2>3. \A n \in DOMAIN files' : files'[n] = Own(s) \/ (n \in DOMAIN files /\ files'[n] = files[n])
    BY <1>5
  <2> QED
    BY <1>1, <1>2, <1>6, <2>1, <2>2, <2>3, OwnIsNoInput, OthersApart
<1>9. Joined'
  BY <1>1, <1>8 DEF GInv, Joined
<1>a. /\ own' \in [Streams -> Nat \cup {Bad}] /\ own'[s] = f
      /\ \A t \in Streams \ {s} : own'[t] = own[t]
  BY <1>1, <1>3, <1>4 DEF GInv, Threads
<1>10. HasOwn'
  <2> SUFFICES ASSUME NEW t \in Streams, own'[t] # Bad, ~Contested(own'[t])
               PROVE  At(own[t])' = Own(t)
    BY <1>2 DEF HasOwn, Contested
  <2>1. CASE t = s
    BY <1>5, <1>a, <2>1 DEF At
  <2>2. CASE t # s
    <3>1. At(own[t]) = Own(t) /\ own'[t] = own[t]
      BY <1>2, <1>a, <2>2 DEF GInv, HasOwn, Contested
    <3>2. own[t] \in DOMAIN files
      BY <1>2, <3>1, OwnIsNoInput DEF At
    <3> QED
      BY <1>5, <3>1, <3>2 DEF At
  <2> QED
    BY <2>1, <2>2
<1>11. Threads' /\ Nonstop' /\ Unmarked' /\ MarkerLast'
  BY <1>1, <1>2, <1>a DEF GInv, Threads, Nonstop, Unmarked, MarkerLast
<1> QED
  BY <1>6, <1>7, <1>9, <1>10, <1>11 DEF GInv

(* The logger, or main for it, closes one. *)
LEMMA CloseStep ==
  ASSUME GInv, NEW s \in Streams, CloseOwn(s),
         \/ UNCHANGED <<others, queue>> /\ logger' \in {"pop", "deliver"}
         \/ Finalize
  PROVE  GInv'
<1>1. /\ UNCHANGED <<sources, leftover, inbox, sent, connected, handlers, fds, i, count,
                     rescan, held, pc, cancelled, closing>>
      /\ Close(own[s]) /\ own[s] # Bad /\ own' = [own EXCEPT ![s] = Bad]
      /\ logger' \in {logger, "pop", "deliver"}
      /\ \/ queue' = queue /\ main' = main
         \/ queue' = <<>> /\ main = "logger_cleanup" /\ main' = "exit"
  BY DEF CloseOwn, Finalize, others, set, world, scan
<1>2. Typed /\ Apart' = Apart /\ closing \in Nat \ {0} /\ own[s] \in Nat \cup {Bad} /\ HasOwn
  <2>1. Typed /\ closing \in 1 .. Len(handlers) + 1 /\ Len(handlers) \in Nat
    BY TableFacts DEF GInv, Threads
  <2> QED
    BY <1>1, <2>1 DEF Apart, Claims, GInv, Threads
<1>3. PICK c : c = closing
  OBVIOUS
<1>4. /\ DOMAIN files' \subseteq DOMAIN files
      /\ \A n \in DOMAIN files' : files'[n] = files[n]
  BY <1>1 DEF Close
<1>5. Typed'
  <2>1. DOMAIN files' \subseteq Nat \ {1, 2} /\ IsFiniteSet(DOMAIN files')
    BY <1>2, <1>4, FS_Subset DEF Typed, Plain
  <2>2. queue' \in Seq({"line", "end"})
    <3>1. queue \in Seq({"line", "end"})
      BY <1>2 DEF Typed, Plain
    <3>2. queue' \in {queue, <<>>} /\ <<>> \in Seq({"line", "end"})
      BY <1>1
    <3> QED
      BY <3>1, <3>2
  <2> QED
    BY <1>1, <1>2, <2>1, <2>2, OthersTyped
<1>6. Mine(closing)' /\ ZeroOnce(closing)' /\ Owned(closing)'
  <2>1. Mine(c)' /\ ZeroOnce(c)' /\ Owned(c)'
    BY <1>1, <1>2, <1>3, ClosesTable DEF GInv
  <2> QED
    BY <1>1, <1>3, <2>1 DEF Mine, ZeroOnce, Owned
<1>7. RInv /\ closing = 1 => RInv'
  <2> SUFFICES ASSUME RInv, closing = 1 PROVE RInv'
    OBVIOUS
  <2>1. Mine(1)' /\ ZeroOnce(1)' /\ Owned(1)'
        /\ \A k \in 1 .. Len(handlers) :
              ~Contested(handlers[k].fd) => At(handlers[k].fd)' = At(handlers[k].fd)
    BY <1>1, <1>2, ClosesTable DEF RInv
  <2>2. \A k \in DOMAIN handlers : Apart => At(handlers[k].fd)' = At(handlers[k].fd)
    BY <1>2, <2>1, TableFacts DEF Contested
  <2>3. \A n \in DOMAIN files' : files'[n] = Own(s) \/ (n \in DOMAIN files /\ files'[n] = files[n])
    BY <1>4
  <2> QED
    BY <1>1, <1>2, <1>5, <2>1, <2>2, <2>3, OwnIsNoInput, OthersApart
<1>8. Joined'
  BY <1>1, <1>7 DEF GInv, Joined
<1>a. /\ own' \in [Streams -> Nat \cup {Bad}] /\ own'[s] = Bad
      /\ \A t \in Streams \ {s} : own'[t] = own[t]
  BY <1>1 DEF GInv, Threads
<1>9. HasOwn'
  <2> SUFFICES ASSUME NEW t \in Streams, own'[t] # Bad, ~Contested(own'[t])
               PROVE  At(own[t])' = Own(t)
    BY <1>2 DEF HasOwn, Contested
  <2>1. t # s /\ own'[t] = own[t]
    BY <1>a
  <2>2. At(own[t]) = Own(t) /\ ~Contested(own[t])
    BY <1>2, <2>1 DEF HasOwn, Contested
  <2>3. own[t] \in DOMAIN files
    BY <1>2, <2>2, OwnIsNoInput DEF At
  <2>4. own[t] # own[s]
    <3>1. CASE Contested(own[s])
      BY <2>2, <3>1 DEF Contested
    <3>2. CASE ~Contested(own[s])
      <4>1. At(own[s]) = Own(s)
        BY <1>1, <1>2, <3>2 DEF HasOwn
      <4> QED
        BY <2>1, <2>2, <4>1 DEF Own
    <3> QED
      BY <3>1, <3>2
  <2> QED
    BY <1>1, <2>1, <2>2, <2>3, <2>4 DEF Close, At
<1>10. Threads' /\ Nonstop' /\ Unmarked' /\ MarkerLast'
  BY <1>1, <1>2, <1>a DEF GInv, Threads, Nonstop, Unmarked, MarkerLast
<1> QED
  BY <1>5, <1>6, <1>8, <1>9, <1>10 DEF GInv

(* The end of main, with the destination connected or not. *)
LEMMA FinalizeStep ==
  ASSUME GInv, Finalize
  PROVE  GInv'
<1>1. CASE CloseOwn("dest")
  BY <1>1, CloseStep DEF Streams
<1>2. CASE UNCHANGED <<files, own>>
  <2>1. /\ UNCHANGED <<sources, leftover, files, inbox, sent, connected, handlers, fds, i, count,
                       rescan, held, pc, cancelled, closing, logger, own>>
        /\ queue' = <<>> /\ main = "logger_cleanup" /\ main' = "exit"
    BY <1>2 DEF Finalize, set, world, scan
  <2>2. queue' \in Seq({"line", "end"})
    BY <2>1
  <2>3. Threads' /\ Joined' /\ Unmarked' /\ MarkerLast'
    BY <2>1 DEF GInv, Threads, Joined, Unmarked, MarkerLast
  <2> QED
    BY <2>1, <2>2, <2>3, ThreadStep
<1> QED
  BY <1>1, <1>2 DEF Finalize

(* reader_cleanup goes on to the next handler. *)
LEMMA CleanupStep ==
  ASSUME GInv, CleanupHandler
  PROVE  GInv'
<1>1. PICK c : c = closing
  OBVIOUS
<1>2. /\ UNCHANGED <<sources, leftover, inbox, sent, connected, handlers, fds, i, count,
                     rescan, held, pc, cancelled, queue, main, logger, own>>
      /\ main = "cleanup" /\ closing <= Len(handlers)
      /\ Cleanup(handlers[c]) /\ closing' = c + 1
  BY <1>1 DEF CleanupHandler, set, world, scan
<1>3. /\ Typed /\ Apart' = Apart /\ c \in 1 .. Len(handlers) /\ c \in Nat \ {0}
      /\ Len(handlers) \in Nat
  <2>1. Typed /\ c \in 1 .. Len(handlers) + 1 /\ Len(handlers) \in Nat
    BY <1>1, TableFacts DEF GInv, Threads
  <2> QED
    BY <1>1, <1>2, <2>1 DEF Apart, Claims
<1>4. /\ DOMAIN files' = DOMAIN files \ {Closed(handlers[c])}
      /\ \A n \in DOMAIN files' : files'[n] = files[n]
  BY <1>2 DEF Cleanup, Close
<1>5. Typed'
  <2>1. DOMAIN files' \subseteq Nat \ {1, 2} /\ IsFiniteSet(DOMAIN files')
    BY <1>3, <1>4, FS_Subset DEF Typed, Plain
  <2>2. queue' \in Seq({"line", "end"})
    BY <1>2, <1>3 DEF Typed, Plain
  <2> QED
    BY <1>2, <1>3, <2>1, <2>2, OthersTyped
<1>6. Mine(closing)' /\ ZeroOnce(closing)' /\ Owned(closing)'
  <2>1. Mine(c + 1)' /\ ZeroOnce(c + 1)' /\ Owned(c + 1)'
    BY <1>1, <1>2, <1>3, CleansTable DEF GInv
  <2> QED
    BY <1>2, <2>1 DEF Mine, ZeroOnce, Owned
<1>7. HasOwn'
  <2> SUFFICES ASSUME NEW s \in Streams, own[s] # Bad, ~Contested(own[s]), At(own[s]) = Own(s)
               PROVE  At(own[s])' = Own(s)
    BY <1>2, <1>3 DEF GInv, HasOwn, Contested
  <2>1. own[s] \in Nat /\ own[s] \in DOMAIN files
    BY <1>3, OwnIsNoInput DEF GInv, Threads, At
  <2>2. c \in c .. Len(handlers) /\ Mine(c) /\ ZeroOnce(c)
    BY <1>1, <1>3 DEF GInv
  <2>3. Closed(handlers[c]) # own[s]
    BY <1>3, <2>1, <2>2, ClosesNotOwn
  <2> QED
    BY <1>2, <1>4, <2>1, <2>3 DEF At
<1>8. Threads'
  BY <1>1, <1>2, <1>3 DEF GInv, Threads
<1>9. Joined' /\ Nonstop' /\ Unmarked' /\ MarkerLast'
  BY <1>2, <1>3 DEF GInv, Joined, Nonstop, Unmarked, MarkerLast
<1> QED
  BY <1>5, <1>6, <1>7, <1>8, <1>9 DEF GInv

(* The invariant is inductive. *)
LEMMA StepGInv == GInv /\ [GNext]_allVars => GInv'
<1>1. ASSUME GInv, GNext PROVE GInv'
  <2>1. CASE \/ Alive /\ Senders /\ UNCHANGED <<main, closing, logger, own>>
             \/ Alive /\ Signal
             \/ ReaderRun
    BY <1>1, <2>1, ReaderStep DEF Signal, ReaderRun, Next
  <2>2. CASE Connects \/ OpensBacklog
    BY <1>1, <2>2, OpenStep DEF Connects, OpensBacklog, Streams
  <2>3. CASE Disconnects \/ ClosesBacklog
    BY <1>1, <2>3, CloseStep DEF Disconnects, ClosesBacklog, Streams
  <2>4. CASE MainRun
    BY <1>1, <2>4, MainStep, CleanupStep, FinalizeStep DEF MainRun
  <2>5. CASE Start
    BY <1>1, <2>5, MainStep, OpenStep DEF Start, Streams
  <2>6. CASE ReadFirst
    BY <1>1, <2>6, MainStep, CloseStep DEF ReadFirst, Streams
  <2>7. CASE Pop \/ Deliver \/ Backlog \/ Abort
    BY <1>1, <2>7, TakeStep, MainStep
  <2> QED
    BY <1>1, <2>1, <2>2, <2>3, <2>4, <2>5, <2>6, <2>7 DEF GNext, LoggerRun
<1>2. ASSUME GInv, UNCHANGED allVars PROVE GInv'
  <2>1. UNCHANGED <<sources, leftover, files, inbox, sent, connected, handlers, fds, i, count,
                    rescan, held, pc, cancelled, queue, main, closing, logger, own>>
    BY <1>2 DEF allVars, vars, set, world, scan
  <2>2. queue \in Seq({"line", "end"})
    BY <1>2 DEF GInv, Typed, Plain
  <2>3. Threads' /\ Unmarked' /\ MarkerLast'
    BY <1>2, <2>1 DEF GInv, Threads, Unmarked, MarkerLast
  <2>4. Joined'
    <3>1. RInv => RInv'
      BY <2>1, <2>2, QueueApart
    <3> QED
      BY <1>2, <2>1, <3>1 DEF GInv, Joined
  <2> QED
    BY <1>2, <2>1, <2>2, <2>3, <2>4, ThreadStep
<1> QED
  BY <1>1, <1>2

(* It holds in every behaviour of the process. *)
THEOREM GenbufInductive == GSpec => []GInv
BY InitGInv, StepGInv, PTL DEF GSpec

(* The types of the whole state: reader_cleanup stays within the table,    *)
(* and the steps of main and of the logger are those of the code.          *)
THEOREM GenbufTypes == GSpec => []GTypeOK
<1>1. GInv => GTypeOK
  BY TypedIsTypeOK DEF GInv, GTypeOK, Threads
<1> QED
  BY <1>1, GenbufInductive, PTL

(* main.c, reader.c, logger.c, output.c: with at most one source that      *)
(* closes descriptor 0, the logger's descriptors (the destination and the  *)
(* backlog's two streams) stay its own while it has them, and each handler *)
(* not yet cleaned up reads its own input, however the three threads take  *)
(* and give back numbers.                                                  *)
THEOREM ThreadsStayApart == GSpec => []ThreadsApart
<1>1. GInv => ThreadsApart
  BY DEF GInv, HasOwn, Mine, Contested, ThreadsApart
<1> QED
  BY <1>1, GenbufInductive, PTL

(* reader.c:192-195: after reader_cleanup no connection and no udp socket  *)
(* is open.                                                                *)
THEOREM NothingIsLeaked == GSpec => []NothingLeaks
<1>1. ASSUME GInv, Apart, main \in {"join_logger", "logger_cleanup", "exit"},
             NEW n \in DOMAIN files, Kind(files[n]) \in {"conn", "udp"}
      PROVE  FALSE
  <2>1. closing = Len(handlers) + 1 /\ Len(handlers) \in Nat
    BY <1>1, TableFacts DEF GInv, Joined
  <2>2. \E k \in closing .. Len(handlers) : Closed(handlers[k]) = n
    BY <1>1 DEF GInv, Owned
  <2> QED
    BY <2>1, <2>2
<1>2. GInv => NothingLeaks
  BY <1>1 DEF NothingLeaks
<1> QED
  BY <1>2, GenbufInductive, PTL

(* main.c:67-68: nothing is pushed behind the end marker.                  *)
THEOREM MarkerIsLast == GSpec => []MarkerLast
<1>1. GInv => MarkerLast
  BY DEF GInv
<1> QED
  BY <1>1, GenbufInductive, PTL

(* In the whole process, too, with the logger taking numbers and putting   *)
(* them back, the first handler removed after a select() is that of a      *)
(* stream at its end, of a udp source that was sent an empty datagram, or  *)
(* of a listener.                                                          *)
THEOREM ProcessRemovesAtEnd == GSpec => FirstScanGenuine
<1>1. ASSUME GInv, RemoveHandler PROVE RInv
  BY <1>1 DEF GInv, Joined, RemoveHandler
<1>2. GInv /\ [GNext]_allVars => [Apart /\ ~rescan => RemovesDue]_vars
  BY <1>1, GenuineRemoves DEF RemovesDue
<1> QED
  BY <1>2, GenbufInductive, PTL DEF GSpec, FirstScanGenuine

=============================================================================
