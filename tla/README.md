# A formal model of genbuf

genbuf reads lines from inputs, keeps them in a memory buffer, and delivers
them to one destination; while the destination is away the buffer goes to a
backlog file.  This directory has TLA+ modules of its parts, translated from
`src/src/*.c`, the TLC runs that check them and the proofs that hold for every
value of their constants.  `PROJECT.json` says which lines each definition
stands for, and lists every run, mutant, finding, hazard and theorem.

## The system

| component | state it keeps | operations | interacts through |
|---|---|---|---|
| message buffer (`buffer.c`) | linked list of 1000-slot chunks, two indices, a mutex, a semaphore | push, pop, unpop, size, cleanup | shared by the reader thread, the logger thread and main |
| input handler (`input_tools.c`, `input_buffer.c`) | a ring of bytes per descriptor, `is_ready / is_err / is_eof` | read, getline, purgeline, cleanup | called by the reader, reports lines to it |
| input sources (`input_tcp.c`, `input_udp.c`, `input_file.c`, `input_unix.c`) | a descriptor | init, accept loop | add handlers to the reader |
| reader (`reader.c`) | table of handlers, descriptor set | run (select loop), add_source, remove_handler, report_data, cleanup | pushes lines; its cleanup pushes the end marker; cancelled by a signal |
| output handler (`output.c`, `output_tools.c`, `output_tcp.c`, `output_udp.c`, `output_file.c`, `output_unix.c`) | `os_*` state, descriptor | deliver_message, connect, disconnect, write, cleanup | called by the logger |
| logger (`logger.c`) | message in hand, two streams on the backlog file | run, write_backlog, cleanup | pops, unpops; the file outlives the process |
| life cycle (`main.c`) | two threads, a signal handler | run | cancel, join, cleanup order |
| set-up, logging, network helpers | none that later steps depend on, but which handlers there are | | |

What is hard here: two threads (three at the end) on one buffer with deferred
cancellation; a semaphore posted outside the lock; byte arithmetic on a ring
with an "oversized line" mode; a retry loop around a connection that may break
anywhere; descriptors that other threads reuse; a file read and appended at
once, with the process killed in between.

What makes each part correct:

* message buffer: it is a queue, whatever the interleaving; nobody sleeps over
  a message; it never pops what is not there;
* input handler: the lines reported are the lines of the input, in order, whole,
  and an oversized line costs nothing else;
* output handler: a message is delivered whole or not counted as delivered, no
  descriptor leaks, and a call gives up when it should;
* logger: nothing is lost but what was only in memory when the process died,
  order is kept through the backlog, and the logger ends when the input does;
* reader: a descriptor is read only when it is ready, and a handler is removed
  only when its input is at its end;
* life cycle: after a shutdown everything read has been delivered or is in the
  backlog, and the process ends.

The code does not keep all of this; the runs that find a violation say where, and
the other properties say what does hold.

## The modules

**MsgQueue** is the promise of `struct buffer`: one queue, messages that have
one owner at a time (not read yet, in a thread's hands, in the queue), no lock
and no memory.

**MsgBuffer** is `buffer.c`.  Each thread has a `pc` and an action is what it
does between two synchronisation points: the call, `sem_wait` (`PopWait`),
`pthread_mutex_lock` (`Lock`), the store into the slot (`PushStore`), the chunk
allocation (`PushGrow`, `UnpopGrow`), the removal (`PopTake`, `PopDrop`),
`Unlock`, `sem_post` (`Post`), `pthread_testcancel` (`Return`, `Die`).  Other
threads may step between any two of them, so the mutual exclusion is the
mutex's and not the model's.  Chunks are named by the position of their first
slot; the list is followed along `next`, and a freed chunk leaves the domain of
`next` and `slot`.  `msg[t]` is the message a thread carries; `qsize` remembers
what the last `size()` said.  The end marker is a message like the others.
MCMsgBuffer gives it two producers, as main and the reader are.

**InputHandler** is the ring and `input_handler_common_read`.  The bytes that
`read()` returns are numbered as they come and the ring holds the numbers, so a
line that is reported can be compared with what was read; `newlines` says which
bytes end a line.  A read takes the smaller of `write` and what FIONREAD reports.
What it leaves of a stream comes with the next read; what it leaves of a datagram
the kernel drops, so on a udp source (`datagrams`) the model notes in `cuts` after
which bytes something is missing.
`border`, `current`, `available` and `write` are the code's fields, as offsets.
One call of read is `Read` (with `Store`, the `input_buffer_update`), then `PurgeAll` or `PurgeLine` in the oversized
mode, then `Report` for each line, then `ReadDone`; the thread may be cancelled
in the read and at each report.

**Delivery** is `deliver_message` with the handler methods.  `Prepare` is the
head of the loop with the connect, `Wake`, `Timeout` and `SelectError` the
outcomes of `select`, `WriteSome`, `WriteAgain` and `WriteFails` those of each
`write` in `output_handler_common_write`, `WriteCut` its Fatal, `Check` the tail of the loop with the
disconnect.  Descriptors are numbers and the lowest free one is taken, so that
the descriptor set `fds`, which keeps the bits of closed descriptors, meets
descriptors that another thread has opened.  Of what a receiver has, the model
keeps the unfinished line, the last line and whether it is the first one.  The
tcp and udp methods are the same code twice; one definition stands for both.
The unix output is a stub that stays disconnected: every call times out.
Only an inherited stdout can be non-blocking (`net_create_socket` and `open`
leave descriptors blocking), so `EAGAIN` is for stdout.  A message ends with
a newline, as the reader's lines do, unless the line has a NUL byte, at which
`strlen` stops: `cut` says so, and such a message is never written.  What a
receiver has is what `write` took: whether the other side ever reads it is not
in the program's hands.

**Logger** is `logger_run` and `logger_write_backlog` over the abstract queue,
with `deliver_message` as a choice between its two results.  `file` is the
backlog file, `in` the lines read from `backlog_in`, `out` whether
`backlog_out` is open.  `Delivered` takes a getline that fails for the end of the
file, as the code does, also with lines unread (fault `getline`); the `Truncate` after it
puts these into `dropped`, or, if it fails, leaves them `behind`.  `Restart` kills the process at any point, or follows
its end: memory is gone, the file stays.  Each library call named in `Faults`
may fail.  Where the code's behaviour is undefined or it aborts, the model
stops, with a `pc` that says why (without a destination the thread returns at
once, `no_dest`, and the reader goes on): `double_close`, `dangling` (a message freed
while the buffer holds it too), `garbage` (getline found no line, or failed, and left its
buffer unwritten), `segfault` (getline on NULL), `require`.

**Relay** is what the logger promises over all lives of the process: messages
are owed from when they are obtained until they are delivered, oldest first;
those that are safe survive a crash; a repetition needs a crash or a truncate
that failed.  A message that is owed may be lost in two ways, each
allowed by a parameter: on its way into the file if a failing flush goes unnoticed
(`Unnoticed`), and out of the file if it may be cut short (`CutShort`).  A third
parameter, `LeavesOld`, lets messages in the file be left for later ones (`Muddle`);
until the next crash the oldest need not come first then.  With all three FALSE
only a crash loses anything, and the order is strict.  Logger maps `owed` to what it
has still to deliver (the message in hand, the unread lines, the buffer, without
what was delivered before), `safe` to what of it is in the file, `lost` to
`dropped`, `doubt` to a second life or a failed truncate, `muddled` to `behind`, and
the parameters to the faults: `fflush`; `getline`; and `initial`, or `getline`
with `truncate`.

**Reader** is `reader_run` with the sources.  A handler is its descriptor and
the input it was made for, so that reading somebody else's input can be seen;
`files` is the descriptor table of the process, with the lowest free number
taken, `fds` the descriptor set, `i` and `count` the loop variables.
`Read`, `ReadEof`, `Accept`, `AcceptAgain` and `AcceptFails` are the outcomes of
`handler->read`, for the first handler the scan finds in the set (`Due`);
`RemoveHandler` is `remove_handler` with the cleanup it calls and the jump to
the start of the scan; `Rebuild` and `Select` are the end of the loop, `Recover`
the treatment of EBADF; after any other error of `select` (`SelectFails`) the reader
returns with the handlers it has.  What waits at an input are lines and, last, the end of a stream;
a udp socket has no end, but may be sent an empty datagram, which the code cannot
tell from one.  `rescan` is a history variable: a handler was removed
since the last select.  A read takes all lines that are there (one, of a
datagram); the bytes are InputHandler's.  A file source reads descriptor 0,
whatever its name, since `input_file.c:37` passes on the constant; a unix source
reads it too, since `bind` and `connect` return 0.  The cleanup of a listener
reads the descriptor from freed memory: `leftover` is what it finds, 0 or
a number that is no descriptor (`Bad`), chosen once for a build.  If a tcp
listener, stdin, a file or a unix source would close descriptor 0 twice
between them, handlers meet in it; `Apart` says that there is at most
one such source, and most properties assume it.

**Genbuf** adds main, the signal handler and the logger to Reader, over the same
descriptors.  The logger is what the others depend on: it takes messages until
the end marker, may take them to the backlog, may abort the process, and holds up
to three descriptors (`own`: the destination, `backlog_in`, `backlog_out`).  The old
backlog is opened before the first pop (`Start`, `ReadFirst`); the others come and go while a
message is being delivered (`Connects`, `Disconnects`, `OpensBacklog`,
`ClosesBacklog`), in any order, which is more than logger.c does.  Nothing makes
`Deliver` happen: a logger may keep its message for ever.  The steps of main are those of `run()`; `reader_cleanup` closes the
handlers one by one while the logger goes on.

The modules meet in the interfaces: MsgBuffer implements the queue that Logger
uses, the rule that a `size()` is a promise (`SizeIsPromise`) is why Logger's
`WriteBacklog` never waits, Delivery justifies the two outcomes, InputHandler
the lines Reader takes, and Logger the ends of the logger in Genbuf.

## The runs

| run | bounds | what it shows |
|---|---|---|
| `buffer` | 4 messages, chunks of 2 | a queue (`IsQueue`, refinement), safe pops, exact semaphore at rest, promises kept, no lost wakeup, cleanup frees only what is stored |
| `buffer_cleanup` (violation) | 3 messages | `CleanupFreesAll` fails with two chunks |
| `input` | ring of 3, FIONREAD of 1 to 3, 10 bytes, stream and datagrams | the ring is exact, a read fits, the lines reported are those of what was read, genuine and complete, the report loop ends |
| `input_full` (violation) | the same | `FullMeansNoLine` fails |
| `delivery` | 5 output types, messages of 3 units, 2 foreign descriptors | a success means that the newline was taken, in a file behind the whole message and on a connection behind an end of it; only the first line of a connection may be less than a message; one descriptor, no abort but for a non-blocking stdout and a NUL byte, a call gives up unless woken for ever |
| `delivery_gives_up` (violation) | tcp, 2 units | `GivesUp` fails: connect succeeds, write fails, for ever |
| `delivery_lines` (violation) | tcp, 2 units | `EveryLineWhole` fails: a tail on a new connection |
| `logger` | 4 messages, 2 lives, all seven faults | nothing lost but in the ways recorded, order kept until lines are left behind, no repeats within a life, safe at the end, the logger ends; over all lives it is a Relay (`IsRelay`, refinement) |
| `logger_stops` (violation) | 1 message, no faults | `StopsCleanly` fails: the stream is closed twice |
| `reader` | 4 command lines of two sources, 2 connections, 1 line | handlers keep their inputs, no handler has a closed descriptor, removals in the first scan are of ended streams, listeners, and udp sources for an empty datagram, who has sent something is served |
| `reader_rescan` (violation) | 1 connection, 1 line | `OnlyEnded` fails: stdin is read, the listener's accept fails, and the rescan removes stdin, which goes on |
| `genbuf` | 2 command lines, 1 connection, 1 line, a signal at any time | threads keep apart, no connection or udp socket is left open, the end marker is last, a shutdown ends unless the logger keeps a message for ever |

Why the bounds are enough.  With chunks of two slots, four messages put three
chunks in the list, and an unpop at the edge puts a chunk in front; both edges
of a chunk are met in every combination of push, pop and unpop.  A ring of
three cells has lines that end on its last cell, wrap, fill it and exceed it,
and ten bytes are three times round.  Three units per message
give a first part, a middle and a newline; with two foreign descriptors the
handler's own number can go up and down across a reconnect.  Four messages are
one delivered, one in hand, one in the file and one in the buffer, and two
lives are one that crashes and one that finds its file.  Two sources and two connections
are four handlers, so that one is removed before, behind and between others, a
number freed by one connection is taken by the next, and the scan meets handlers
it has read, has not read, and did not know of at its start; with one
connection Genbuf has the same beside the logger's three descriptors, which are
taken between them.  A line, an end and an empty datagram are what an input can
be ready for.  With one line in all `Served` says nothing of an input that is
starved by others who send for ever; what could starve it here are removals,
rescans and new connections.

The order of the messages has two exceptions, which are facts about the code: an
old backlog that the very first `fopen` cannot open stays unread behind newer
messages, and so do the unread lines of one where getline fails and the truncate
after it too.  `behind` is TRUE from then to the end of the life, and
`PendingInOrder` speaks of the states before; the run has both cases.

Of what the code does with its input and its files the models have, without a
property that says it should not: the rest of a datagram longer than the room in
the ring is dropped by the kernel, so that its first part is joined with the next
datagram (`input_tools.c:53`); an empty datagram removes its udp source
(`input_tools.c:47`); a message with a NUL byte ends the process (`output_tools.c:28`);
the test of `fopen` in `logger.c:190` is the wrong way round, so that a backlog that cannot be
reopened ends it too; a getline that fails is taken for the end of the backlog
(`logger.c:131`), which loses what was not read; and any error of `select` but EBADF
ends the reader with its inputs open (`reader.c:176`).

`LinesExact` is stated for inputs none of whose reads fills the ring at once
(`widest < Size`); the run `input_full` is what happens otherwise.  The ring
has a megabyte in the program, so this takes a burst.

## Fairness

* MsgBuffer: a thread inside `buffer.c` keeps running (weak fairness of its
  steps); nobody has to call it.  `PopWait` needs no more, since only one
  thread pops.
* InputHandler: the code between two reads runs to its end.
* Delivery: the steps of the loop are taken, `select` returns (it has a
  timeout), `connect`, `open` and `close` return.  No fairness for `write`: the
  descriptors are blocking and a receiver that does not read may hold it; the
  liveness properties name that case.  Opening a fifo nobody reads blocks too;
  the file output is taken to be a file.
* Reader and Genbuf: each thread runs, but a `select` that waits is not made to
  fail.  No client is assumed to send, and no signal
  to come.  The logger starts and pops, but nothing makes it get rid of a message:
  without a backlog it tries for ever (`logger.c:226-231`), and `deliver_message`
  may not return (`output.c:86`, a blocking write).  `ShutdownEnds` says that main
  comes to wait for the logger whatever that is at, and that the process ends then
  unless the logger stays with a message for ever.
* Logger: the thread runs and `deliver_message` returns, so `Terminates` is
  about loggers whose calls do (see `delivery_gives_up` for one that does not).
  Nothing forces a delivery to succeed.

## What is proved

`MsgBuffer_proofs` holds for every set of producers, every set of messages and
every chunk size.  The assumptions are those of `BufferAssumption`: a positive
chunk size, finitely many producers, the logger not among them, and distinct
Nil and Junk.

None of the properties is inductive.  `PopSafe`, say, holds because the
semaphore is positive only if a message is stored, which no step preserves
unless one also knows who is between storing and posting.  The invariant is
`IInv`: labels and the mutex agree (`Excluded`), who carries a message
(`Carried`), the chunks form a gapless chain (`Chained`), an index is at the
edge of its chunk only under the lock (`Edges`), all slots between the oldest
and the youngest message hold messages (`Stored`), and the balance

    messages stored = semaphore + threads about to post + 1 if a pop is granted

(`Balanced`), with `size()`'s promise under the semaphore (`Promised`).
`InitIInv` and `StepCorrect` show that it is inductive; `StepCorrect` shows in
the same case distinction that each step is a step of MsgQueue, or none.  From
it follow `TypeCorrect`, `PopIsSafe`, `RestIsBalanced`, `PromiseIsKept`,
`CleanupIsSafe` and `ImplementsQueue` (Spec => IsQueue, the refinement).  TLC
checked `IInv` as an invariant before it was proved.

`Delivery_proofs` holds for every set of output types, every set of descriptors
above 2, every number of them that other threads take, and every length of a
message (`DeliveryAssumption`).  Its `IInv` adds to the properties which states
of the handler have a descriptor (`Connected`: one that is to connect has none,
one that may write has one, and only stdout is left in `sending` outside the
write), the retries left at each place (`Counted`), and the beginning of the
message that the receiver has (`Progress`); TLC checked it first.
`StepTypes`, `StepConnected` and `StepProgress` go through the actions.  A last part, `Received`, says
what the receiver has of the message that is being written: on a good
connection nothing before the write and then what was written since the
connection was made, in a file everything from the first unit on.  It is what
makes a result "ok" mean a delivered message, since the code that returns 1
knows only counts: of a file that it is whole, of a connection that its line is
an end of this message (whole where `LaterLinesWhole` says so).  From it follow `TypeCorrect`, `OneDescriptorKept`,
`RequiresHold`, `LaterLinesWhole` and `OkMeansDelivered`.

`InputHandler_proofs` holds for every size of the ring, every size of a read and
every length of the input (`InputAssumption`).  `RingExact` alone is not
inductive: a step moves `border`, `current` and `available` together, and one
must know that they agree (`Placed`: the unread bytes lie between border and
current, once round at most, and `write` is what is free in one piece), where
the lines reported end (`Bounded`) and how many they are (`Counted`, against the
set of the lines that fit).  All of it is about the bytes that were read: `LinesAreGenuine`
adds that only a udp source can have a line that is not as it was sent.  One state does not fit the geometry, `Skewed`: when
a single read fills the whole ring and a line ends exactly there, `purgeline`
leaves border at end, and `input_buffer_find` sees nothing of a ring that is
filled again.  That is the reason for the condition `widest < Size` in
`LinesExact` and for the finding of the run `input_full`; `PurgesNoLine`
proves the other half of it, that the comment at `input_tools.c:133` is right as
long as no single read filled the ring.

`Logger_proofs` holds for any number of messages and lives and every set of
faults (`LoggerAssumption`).  Its `IInv` ties the message in hand and the streams
to the place in `logger_run` (`Placed`), has the order of the file, the message in
hand and the buffer (`Ordered`), what of these was delivered (`Remembered`), and
that a logger working from the buffer has delivered whatever lines the file
still has, if it left none `behind` (`Caught`), and that no message is missing, in
the states that stop the process as well (`Accounted`).  `TypeCorrect`,
`LosesNothing`, `NeverRepeats`, `KeepsOrder`, `EndsSafely` and `ImplementsRelay`
(Spec => IsRelay, the refinement) hold under every fault, with no further
hypothesis.  For the refinement each action is a step of Relay or none, and what it
does to the set `Owed` is found from the set of messages the logger holds
(`Unseen`, `OwedHere`) rather than from the sequence; the step that leaves lines
behind is `Muddle`.

`Reader_proofs` holds for every command line, any number of connections and
lines, and both readings of freed memory (`ReaderAssumption`).  That each handler
reads its own input is not inductive, since the next `accept` takes the lowest
free number: the invariant `RInv` adds that a handler's descriptor is its own
(`Mine`), that of all handlers one at most is to close descriptor 0 and that
stdin or a connection is behind it then (`ZeroOnce`), that each socket is some
handler's (`Owned`), and that an object has one descriptor and a connection waits at
one listener only (`Once`).  Without the assumption of one claim (`Apart`) the
first three speak of the other descriptors alone.  From this follow what
the loop relies on: `select` finds every descriptor open (`Nonstop`; it may fail for
another reason), and the
bits it has left are of descriptors with something to read until a handler is
removed (`Genuine`).  The theorems are `ReaderTypes`, `ReadersApart`, `SelectFindsOpen` and
`RemovesAtEnd`, the last one an action property.

`Genbuf_proofs` extends it to the process.  `Mine`, `ZeroOnce` and `Owned` take the
index of the first handler they are about: 1 while the reader runs, `closing` in
`reader_cleanup`, so that at its end nothing is left for a socket to belong to
(`NothingIsLeaked`).  While main waits for the reader the invariant `GInv` is `RInv`; the
logger's steps keep it since what they open is no input of the reader
(`OthersApart`), and the reader and main keep the logger's descriptors
(`HasOwn`, by `ClosesNotOwn`).  `GenbufTypes`, `ThreadsStayApart`, `NothingIsLeaked` and `MarkerIsLast`
follow, and `ProcessRemovesAtEnd`: what the reader knows of its first scan holds
although the logger takes and gives back numbers meanwhile.

TLC checked every one of these invariants before it was proved.  Proofs about a
least element (`Min`, the CHOOSE of `Find`) go through the well-foundedness of
the naturals.

With this every safety invariant and action property of the passing runs, and both
refinements, are theorems.  Only model-checked: the liveness properties
(`NoLostWakeup`, `ReadReturns`, `GivesUpUnlessWoken`, `Terminates`, `Served`,
`ShutdownEnds`), since the prover has neither fairness nor ENABLED; and the
runs that find a violation, which are counterexamples and need no proof.

## What is not modelled

Parsing of options and addresses, and the failures of opening a source, which
end the process before it has begun; socket options and diagnostics, which are I/O (with `-v` each message of the log is
a cancellation point for the reader, which Reader's `Die` allows; the calls that hold
the lock of stderr while they print, `CustomLog`, are made by the reader only
where it cannot be cancelled).  Within the modelled parts: a backlog line that
reaches the file only in part, or has a NUL byte (`fputs` writes it up to there, and
the next line is joined to it); a line that begins with one (`output_tools.c:28` looks
at the byte before the string then); `malloc` failures (they end the process), but for
the handler table; a power failure (the file is what the kernel has); descriptors
beyond the width of an `fd_set`, which `reader.c:139` does not guard; another
process that reads the same stdin, so that a read blocks after FIONREAD found
something; and a logger without a destination in Genbuf (Logger has it).
Genbuf keeps the threads of one life; crashes are Logger's.

## Plan

1. Done: MsgQueue, MsgBuffer, InputHandler, Delivery, Logger, Relay, Reader,
   Genbuf; the proofs of their safety properties and of the two refinements.
2. More proofs: steps the liveness properties rest on, as far as they are
   safety (where a thread of MsgBuffer can be stuck, that Delivery's retries
   decrease, that a scan of the reader comes to its end).
