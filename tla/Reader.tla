------------------------------- MODULE Reader -------------------------------
(***************************************************************************)
(* The reader thread (reader.c): a table of input handlers, the select     *)
(* loop that calls the read method of those whose descriptors are ready,   *)
(* and the removal of handlers, after which the table is scanned again     *)
(* with the descriptor bits of the same select().  With it go the sources  *)
(* named on the command line, and the accept loop of a tcp listener, which *)
(* adds a handler for each connection.                                     *)
(*                                                                         *)
(* Descriptors are numbers, and the lowest free one is used again; what is *)
(* behind a number is an object, <<kind, n>>.  The ring of a handler is in *)
(* InputHandler: here a read takes whole lines.                            *)
(***************************************************************************)
EXTENDS Integers, Sequences, FiniteSets, SequencesExt, FiniteSetsExt

CONSTANTS
  CommandLines,  \* the source types to start with, in the order of the options
  Leftovers,     \* what an int in freed memory may read as: 0 or Bad
  Bad,           \* a number that is no descriptor
  MaxConns,      \* bound: tcp connections that clients open
  MaxLines       \* bound: lines that are sent to the inputs in all

Kinds == {"stdin", "file", "unix", "udp", "tcp"}

ASSUME ReaderAssumption ==
  /\ CommandLines \subseteq Seq(Kinds)
  /\ \A s \in CommandLines : Cardinality({k \in DOMAIN s : s[k] = "stdin"}) <= 1
  /\ Leftovers \subseteq {Bad, 0} /\ Bad \notin Nat
  /\ MaxConns \in Nat /\ MaxLines \in Nat

VARIABLES
  sources,    \* the command line
  leftover,   \* what freed memory reads as in this build
  files,      \* the descriptors of the process: number -> object
  inbox,      \* inbox[o]: what waits at o, "line", "eof" or "empty"; connections, at a listener
  sent,       \* lines sent so far
  connected,  \* connections opened so far
  handlers,   \* this->handlers: fd, and the input the handler was made for
  fds,        \* this->fds
  i, count,   \* the loop variables of the scan
  rescan,     \* a handler was removed since the last select() (a history variable)
  held,       \* lines read and not reported yet
  pc,         \* where the reader thread is
  cancelled,  \* pthread_cancel was called on it
  queue       \* the message buffer

set   == <<sources, leftover>>
world == <<inbox, sent, connected>>
scan  == <<i, count, rescan>>
vars  == <<set, files, world, handlers, fds, scan, held, pc, cancelled, queue>>

Nowhere == <<"none", 0>>
Stdin   == <<"stdin", 0>>
Conns   == {<<"conn", n>> : n \in 1 .. MaxConns}
Kind(o) == o[1]

(* All but "-" open a descriptor of their own, and 1 and 2 are taken: the  *)
(* k-th source gets this number.                                           *)
Number(s, k) == 2 + Cardinality({j \in 1 .. k : s[j] # "stdin"})
Opening(s)   == {k \in DOMAIN s : s[k] # "stdin"}

(* The descriptor in a new handler.  The number open() returned for a file *)
(* is not passed on, and connect() and bind() return 0, not a descriptor.  *)
FileFd         == 0
UnixFd         == 0
SocketFd(s, k) == Number(s, k)

Create(s, k) ==
  [fd    |-> CASE s[k] \in {"stdin", "file"} -> FileFd
               [] s[k] = "unix"              -> UnixFd
               [] s[k] \in {"udp", "tcp"}    -> SocketFd(s, k),
   input |-> IF s[k] = "stdin" THEN Stdin ELSE <<s[k], k>>]

(* The handlers of a command line, in the order of the options. *)
Sources(s) == [k \in DOMAIN s |-> Create(s, k)]

Init ==
  /\ sources \in CommandLines
  /\ leftover \in Leftovers
  /\ files = [n \in {0} \cup {Number(sources, k) : k \in Opening(sources)} |->
                IF n = 0 THEN Stdin
                ELSE LET k == CHOOSE k \in Opening(sources) : Number(sources, k) = n
                     IN  <<sources[k], k>>]
  /\ inbox = [o \in {files[n] : n \in DOMAIN files} \cup Conns |-> <<>>]
  /\ sent = 0 /\ connected = 0
  /\ handlers = Sources(sources)
  /\ fds = {} /\ i = 1 /\ count = Len(handlers) /\ rescan = FALSE
  /\ held = 0
  /\ pc = "scan"
  /\ cancelled = FALSE
  /\ queue = <<>>

Open(n, o) == files' = [m \in DOMAIN files \cup {n} |-> IF m = n THEN o ELSE files[m]]
Close(n)   == files' = [m \in DOMAIN files \ {n} |-> files[m]]
Lowest     == Min((0 .. 3 + Cardinality(DOMAIN files)) \ ({1, 2} \cup DOMAIN files))
At(n)      == IF n \in DOMAIN files THEN files[n] ELSE Nowhere

(* What the kernel finds behind descriptor n; nothing, if it is not an     *)
(* input of this process.                                                  *)
Waiting(n) == IF At(n) \in DOMAIN inbox THEN inbox[At(n)] ELSE <<>>
Ready(n)   == Waiting(n) # <<>> \/ At(n) \notin DOMAIN inbox

(* How many lines one read() may take: a datagram, or what is there. *)
Lines(n) ==
  LET w == Waiting(n)
      k == Cardinality({j \in DOMAIN w : \A l \in 1 .. j : w[l] = "line"})
  IN  IF Kind(At(n)) = "tcp" THEN 0
      ELSE IF Kind(At(n)) = "udp" /\ k > 0 THEN 1 ELSE k

(* Mutated: the test of the descriptor set is gone. *)
DueUnchecked == i .. count

(* The handlers the scan has still to call, and the first of them. *)
Due     == {k \in i .. count : handlers[k].fd \in fds}
Turn(k) == pc = "scan" /\ Due # {} /\ k = Min(Due)
-----------------------------------------------------------------------------
(* The senders.  "eof" is the end of a stream, its last item.  A udp       *)
(* socket has no end; "empty" is a datagram of length zero, after which    *)
(* others may come.  What is sent to an input that nobody reads, or after  *)
(* the end of the reader, is left out.                                     *)

Reachable(o) ==
  /\ Kind(o) \in {"stdin", "udp", "conn"}
  /\ \/ \E h \in Range(handlers) : At(h.fd) = o
     \/ Kind(o) = "conn" /\ \E l \in DOMAIN inbox : Kind(l) = "tcp" /\ o \in Range(inbox[l])

Arrive(o, what) ==
  /\ pc \notin {"done", "dead"}
  /\ Reachable(o)
  /\ inbox' = [inbox EXCEPT ![o] = Append(@, what)]
  /\ UNCHANGED <<set, files, connected, handlers, fds, scan, held, pc, cancelled, queue>>

Send(o) ==
  /\ sent < MaxLines
  /\ "eof" \notin Range(inbox[o])
  /\ sent' = sent + 1
  /\ Arrive(o, "line")

Finish(o) ==
  /\ Kind(o) # "udp" /\ "eof" \notin Range(inbox[o])
  /\ Arrive(o, "eof")
  /\ UNCHANGED sent

SendEmpty(o) ==
  /\ Kind(o) = "udp" /\ "empty" \notin Range(inbox[o])
  /\ Arrive(o, "empty")
  /\ UNCHANGED sent

Connect(l) ==
  /\ pc \notin {"done", "dead"}
  /\ Kind(l) = "tcp" /\ connected < MaxConns
  /\ connected' = connected + 1
  /\ inbox' = [inbox EXCEPT ![l] = Append(@, <<"conn", connected + 1>>)]
  /\ UNCHANGED <<set, files, sent, handlers, fds, scan, held, pc, cancelled, queue>>

(* The signal handler calls pthread_cancel. *)
Cancel ==
  /\ pc \notin {"done", "dead"}
  /\ cancelled' = TRUE
  /\ UNCHANGED <<set, files, world, handlers, fds, scan, held, pc, queue>>
-----------------------------------------------------------------------------
(* Mutated forms of the definitions below, for checking the properties.    *)

ClosedFreed(h) == leftover

RemoveKeepsCount ==
  /\ pc = "remove"
  /\ fds' = fds \ {handlers[i].fd}
  /\ handlers' = RemoveAt(handlers, i)
  /\ Close(handlers[i].fd)
  /\ i' = i + 1 /\ rescan' = TRUE
  /\ pc' = IF cancelled THEN "dead" ELSE "scan"
  /\ UNCHANGED <<set, world, count, held, cancelled, queue>>

RemoveNext ==
  /\ pc = "remove"
  /\ fds' = fds \ {handlers[i].fd}
  /\ handlers' = RemoveAt(handlers, Min({i + 1, Len(handlers)}))
  /\ Close(handlers[i].fd)
  /\ i' = 1 /\ count' = Len(handlers) - 1 /\ rescan' = TRUE
  /\ pc' = IF cancelled THEN "dead" ELSE "scan"
  /\ UNCHANGED <<set, world, held, cancelled, queue>>

(* The handler that does not fit into the table is cleaned up and added. *)
AddSourceCleaned(h) ==
  \/ handlers' = Append(handlers, h) /\ Open(h.fd, h.input)
  \/ handlers' = Append(handlers, h) /\ UNCHANGED files

RebuildCounted ==
  /\ pc = "scan" /\ Due = {}
  /\ fds' = {handlers[k].fd : k \in 1 .. count}
  /\ i' = 1 /\ count' = count /\ rescan' = FALSE
  /\ pc' = IF handlers = <<>> THEN "done" ELSE "select"
  /\ UNCHANGED <<set, files, world, handlers, held, cancelled, queue>>
-----------------------------------------------------------------------------
(* The loop of reader_run.  read(), accept() and select() are cancellation *)
(* points: once cancelled the thread does not get past them.               *)

Read(k) ==
  /\ Turn(k) /\ Kind(handlers[k].input) # "tcp" /\ ~cancelled
  /\ \E n \in 1 .. Lines(handlers[k].fd) :
       /\ held' = n
       /\ inbox' = [inbox EXCEPT ![At(handlers[k].fd)] = SubSeq(@, n + 1, Len(@))]
  /\ i' = k
  /\ pc' = "report"
  /\ UNCHANGED <<set, files, sent, connected, handlers, fds, count, rescan, cancelled, queue>>

(* report_data: a push, and pthread_testcancel at its end. *)
Report ==
  /\ pc = "report"
  /\ queue' = Append(queue, "line")
  /\ held' = held - 1
  /\ i' = IF held = 1 THEN i + 1 ELSE i
  /\ pc' = IF cancelled THEN "dead" ELSE IF held = 1 THEN "scan" ELSE "report"
  /\ UNCHANGED <<set, files, world, handlers, fds, count, rescan, cancelled>>

(* FIONREAD finds nothing, or fails: the handler returns -1.  It finds     *)
(* nothing at the end of a stream, when all has been read, and of an empty *)
(* datagram.                                                               *)
ReadEof(k) ==
  /\ Turn(k) /\ Kind(handlers[k].input) # "tcp"
  /\ Lines(handlers[k].fd) = 0
  /\ i' = k
  /\ pc' = "remove"
  /\ UNCHANGED <<set, files, world, handlers, fds, count, rescan, held, cancelled, queue>>

Connection(n, c) == [fd |-> n, input |-> c]

(* reader_add_source; if the table cannot grow, the handler is cleaned up  *)
(* at once.                                                                *)
AddSource(h) ==
  \/ handlers' = Append(handlers, h) /\ Open(h.fd, h.input)
  \/ UNCHANGED <<handlers, files>>

(* accept() until nobody waits. *)
Accept(k) ==
  /\ Turn(k) /\ Kind(handlers[k].input) = "tcp" /\ ~cancelled
  /\ Waiting(handlers[k].fd) # <<>>
  /\ AddSource(Connection(Lowest, Head(Waiting(handlers[k].fd))))
  /\ inbox' = [inbox EXCEPT ![At(handlers[k].fd)] = Tail(@)]
  /\ i' = k
  /\ UNCHANGED <<set, sent, connected, fds, count, rescan, held, pc, cancelled, queue>>

(* EAGAIN: the listener has nothing more for now. *)
AcceptAgain(k) ==
  /\ Turn(k) /\ Kind(handlers[k].input) = "tcp" /\ ~cancelled
  /\ Waiting(handlers[k].fd) = <<>>
  /\ i' = k + 1
  /\ UNCHANGED <<set, files, world, handlers, fds, count, rescan, held, pc, cancelled, queue>>

(* Any other error of accept(), an aborted connection or a process out of  *)
(* descriptors among them, is the end of the listener.                     *)
AcceptFails(k) ==
  /\ Turn(k) /\ Kind(handlers[k].input) = "tcp" /\ ~cancelled
  /\ i' = k
  /\ pc' = "remove"
  /\ UNCHANGED <<set, files, world, handlers, fds, count, rescan, held, cancelled, queue>>

(* handler->cleanup closes the descriptor; that of a tcp listener reads    *)
(* the number from memory it has freed.                                    *)
Closed(h)  == IF Kind(h.input) = "tcp" THEN leftover ELSE h.fd
Cleanup(h) == Close(Closed(h))

(* remove_handler and goto rerun, or the end of a cancelled thread. *)
RemoveHandler ==
  /\ pc = "remove"
  /\ fds' = fds \ {handlers[i].fd}
  /\ handlers' = RemoveAt(handlers, i)
  /\ Cleanup(handlers[i])
  /\ i' = 1 /\ count' = Len(handlers) - 1 /\ rescan' = TRUE
  /\ pc' = IF cancelled THEN "dead" ELSE "scan"
  /\ UNCHANGED <<set, world, held, cancelled, queue>>

(* The end of the scan: all descriptors are watched again, and the next    *)
(* scan will begin with the first handler.                                 *)
Rebuild ==
  /\ pc = "scan" /\ Due = {}
  /\ fds' = {h.fd : h \in Range(handlers)}
  /\ i' = 1 /\ count' = Len(handlers) /\ rescan' = FALSE
  /\ pc' = IF handlers = <<>> THEN "done" ELSE "select"
  /\ UNCHANGED <<set, files, world, handlers, held, cancelled, queue>>

(* select() returns the descriptors that are ready, or, with a bad one     *)
(* among them, EBADF and the set as it was.                                *)
Select ==
  /\ pc = "select" /\ ~cancelled
  /\ \/ /\ fds \subseteq DOMAIN files
        /\ \E n \in fds : Ready(n)
        /\ fds' = {n \in fds : Ready(n)}
        /\ pc' = "scan"
     \/ /\ ~(fds \subseteq DOMAIN files)
        /\ pc' = "recover"
        /\ UNCHANGED fds
  /\ UNCHANGED <<set, files, world, handlers, scan, held, cancelled, queue>>

(* After any other error (EINTR, ENOMEM) the reader returns, whatever      *)
(* handlers it has.                                                        *)
SelectFails ==
  /\ pc = "select" /\ ~cancelled
  /\ pc' = "done"
  /\ UNCHANGED <<set, files, world, handlers, fds, scan, held, cancelled, queue>>

(* After EBADF the first handler with a bad descriptor is removed.  If     *)
(* there is none any more the reader gives up.                             *)
Recover ==
  /\ pc = "recover"
  /\ LET bad == {k \in DOMAIN handlers : handlers[k].fd \notin DOMAIN files} IN
       \/ bad # {} /\ i' = Min(bad) /\ pc' = "remove"
       \/ bad = {} /\ pc' = "done" /\ UNCHANGED i
  /\ UNCHANGED <<set, files, world, handlers, fds, count, rescan, held, cancelled, queue>>

(* At another cancellation point: with -v each line of the log is one. *)
Die ==
  /\ cancelled /\ pc \notin {"done", "dead"}
  /\ pc' = "dead"
  /\ UNCHANGED <<set, files, world, handlers, fds, scan, held, cancelled, queue>>

Call(k) == Read(k) \/ ReadEof(k) \/ Accept(k) \/ AcceptAgain(k) \/ AcceptFails(k)

Run ==
  \/ \E k \in DOMAIN handlers : Call(k)
  \/ Report \/ RemoveHandler \/ Rebuild \/ Select \/ SelectFails \/ Recover \/ Die

Senders == \E o \in DOMAIN inbox : Send(o) \/ Finish(o) \/ SendEmpty(o) \/ Connect(o)

Next == Senders \/ Cancel \/ Run

(* The thread runs; a select() that waits need not fail. *)
Spec == Init /\ [][Next]_vars /\ WF_vars(Run /\ ~SelectFails)
-----------------------------------------------------------------------------
Objects == {Stdin} \cup Conns \cup {<<sources[k], k>> : k \in DOMAIN sources}

TypeOK ==
  /\ sources \in CommandLines /\ leftover \in Leftovers
  /\ DOMAIN files \subseteq Nat \ {1, 2}
  /\ DOMAIN inbox \subseteq Objects
  /\ \A o \in DOMAIN inbox :
       Range(inbox[o]) \subseteq CASE Kind(o) = "tcp" -> Conns
                                   [] Kind(o) = "udp" -> {"line", "empty"}
                                   [] OTHER           -> {"line", "eof"}
  /\ sent \in 0 .. MaxLines /\ connected \in 0 .. MaxConns
  /\ \A h \in Range(handlers) : h.fd \in Nat /\ h.input \in Objects
  /\ fds \subseteq Nat
  /\ i \in 1 .. count + 1 /\ count \in 0 .. Len(handlers) /\ rescan \in BOOLEAN
  /\ held \in 0 .. MaxLines
  /\ pc \in {"scan", "report", "remove", "select", "recover", "done", "dead"}
  /\ cancelled \in BOOLEAN
  /\ queue \in Seq({"line", "end"})

(* The sources whose cleanup closes descriptor 0. *)
Claims == {k \in DOMAIN sources : IF sources[k] = "tcp" THEN leftover = 0
                                  ELSE sources[k] # "udp"}
Apart  == Cardinality(Claims) <= 1

(* The k-th handler reads from the input it was made for, through a        *)
(* descriptor that is open and no other handler's.  (A file or unix source *)
(* reads stdin.)                                                           *)
ReadsOwn(k) ==
  LET h == handlers[k] IN
    /\ At(h.fd) = IF Kind(h.input) \in {"file", "unix"} THEN Stdin ELSE h.input
    /\ \A l \in DOMAIN handlers \ {k} : handlers[l].fd # h.fd

(* Every handler in the table reads its own input, however handlers come   *)
(* and go and descriptor numbers are used again, as long as at most one    *)
(* source claims descriptor 0.                                             *)
HandlersApart == Apart => \A k \in DOMAIN handlers : ReadsOwn(k)

(* With at most one claim no handler in the table has a descriptor that is *)
(* closed: select() never answers EBADF, after which idle handlers would   *)
(* be read, and removed for having nothing to read (reader.c:151-173).     *)
NoBadDescriptor == Apart => pc # "recover"

Waits(o, what) == inbox[o] # <<>> /\ Head(inbox[o]) = what

(* A removal is of a stream at its end, of a udp source that was sent an   *)
(* empty datagram, or of a listener.                                       *)
EndsStream(o)  == Kind(o) \in {"stdin", "conn"} => Waits(o, "eof")
EndsSocket(o)  == Kind(o) = "udp" => Waits(o, "empty")
RemovesDue     == RemoveHandler => EndsStream(handlers[i].input) /\ EndsSocket(handlers[i].input)

(* In the scan that follows a select(), until the first removal, the       *)
(* handlers called are those whose descriptors were ready, and nobody has  *)
(* emptied these or taken their numbers meanwhile: a stream is removed at  *)
(* its end only, and a udp source only for an empty datagram.              *)
FirstScanGenuine == [][Apart /\ ~rescan => RemovesDue]_vars

(* input.h:21 "read returns: -1 on EOF": the handler of a stream is        *)
(* removed only when the stream is at its end.                             *)
OnlyEnded == [][RemoveHandler => EndsStream(handlers[i].input)]_vars

(* Whoever has sent something to an input with a handler gets a turn,      *)
(* whichever others are ready before it and however often a removal starts *)
(* the scan again: its handler reads all there is, or is removed; a        *)
(* listener accepts all who wait, and their handlers are watched in turn.  *)
Served ==
  \A o \in Conns \cup {Stdin, <<"udp", 1>>, <<"tcp", 2>>} :
    (\E h \in Range(handlers) : h.input = o /\ inbox[o] # <<>>)
      ~> \/ \A h \in Range(handlers) : h.input # o
         \/ inbox[o] = <<>>
         \/ pc \in {"done", "dead"}
=============================================================================
