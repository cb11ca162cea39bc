---------------------------- MODULE InputHandler ----------------------------
(***************************************************************************)
(* A common input handler: its ring buffer (input_buffer.c) and its read   *)
(* method (input_tools.c), run by the reader thread whenever select() says *)
(* its descriptor is readable.                                             *)
(*                                                                         *)
(* The bytes that read() returns are numbered 1, 2, ... as they come;      *)
(* newlines is the set of those that are '\n'.  The ring's cells hold the  *)
(* numbers, so what a line is made of can be compared with what was read.  *)
(* The input is a stream or a socket of datagrams: what a read() leaves of *)
(* a datagram the kernel drops, and cuts says after which bytes it did.    *)
(* Pointers are offsets from start: end is Size.                           *)
(***************************************************************************)
EXTENDS Integers, Sequences, FiniteSets

CONSTANTS
  Size,      \* GENCACHE_MAX_MSG_SIZE, the bytes of the ring
  MaxRead,   \* the most FIONREAD reports at a time
  MaxBytes   \* bound: bytes that are read in all

ASSUME InputAssumption ==
  /\ Size \in Nat \ {0}
  /\ MaxRead \in Nat \ {0}
  /\ MaxBytes \in Nat

VARIABLES
  mem,        \* the ring's cells; 0 is a byte never written
  border,     \* offset of the oldest unread byte
  current,    \* offset where the next byte goes
  available,  \* bytes unused in the ring, as the code counts them
  write,      \* bytes the next read may store at current
  state,      \* DATA->state
  pc,         \* where the reader thread is in input_handler_common_read
  datagrams,  \* the input is a udp socket
  pos,        \* bytes read from the descriptor so far
  newlines,   \* which of them are '\n'
  cuts,       \* bytes after which the rest of a datagram was dropped
  reported,   \* lines given to report_data, each as the bytes it is made of
  widest      \* most bytes ever read at once (a history variable)

ring == <<mem, border, current, available, write>>
seen == <<pos, newlines, cuts, widest>>
vars == <<ring, state, pc, datagrams, seen, reported>>

Min2(a, b) == IF a < b THEN a ELSE b

Init ==
  /\ mem = [i \in 0 .. Size - 1 |-> 0]
  /\ border = 0 /\ current = 0
  /\ available = Size /\ write = Size
  /\ state = "is_ready"
  /\ pc = "idle"
  /\ datagrams \in BOOLEAN
  /\ pos = 0 /\ newlines = {} /\ cuts = {} /\ widest = 0
  /\ reported = <<>>

(* The i-th byte from border on, counting from 0: tail, then head. *)
Byte(i) == IF border + i < Size THEN mem[border + i] ELSE mem[border + i - Size]

(* How many bytes input_buffer_find looks through. *)
Searched ==
  IF current > border      THEN current - border
  ELSE IF available = Size THEN 0
  ELSE Size - border + current

(* input_buffer_find(buffer, '\n'): the length of the first line, or -1. *)
Hits == {i \in 0 .. Searched - 1 : Byte(i) \in newlines}
Find == IF Hits = {} THEN -1 ELSE 1 + CHOOSE i \in Hits : \A j \in Hits : i <= j

(* buffer->write, once a line has been removed and border is b. *)
Writable(b) == IF current < b THEN b - current ELSE Size - current

(* read() stores k bytes at current, those of S being newlines, and        *)
(* input_buffer_update moves current past them.                            *)
Store(k, S) ==
  /\ pos + k <= MaxBytes
  /\ S \subseteq pos + 1 .. pos + k
  /\ mem' = [i \in 0 .. Size - 1 |-> IF i \in current .. current + k - 1
                                     THEN pos + 1 + i - current ELSE mem[i]]
  /\ current' = IF current + k = Size THEN 0 ELSE current + k
  /\ available' = available - k
  /\ write' = IF current' < border THEN border - current'
                                   ELSE Min2(Size - current', available')
  /\ pos' = pos + k
  /\ newlines' = newlines \cup S
  /\ widest' = IF k > widest THEN k ELSE widest
  /\ pc' = IF state = "is_err" THEN "purge" ELSE "report"
  /\ UNCHANGED <<border, state, datagrams, reported>>
-----------------------------------------------------------------------------
(* Mutated forms of the definitions below, for checking the properties.    *)

(* The same with no limit but the bytes unused. *)
ReadUnbounded(n, S) ==
  /\ pc = "idle" /\ state # "is_eof"
  /\ available > 0
  /\ Store(Min2(available, n), S)
  /\ cuts' = cuts

ReportNoWrap ==
  /\ pc = "report" /\ Find # -1
  /\ reported' = Append(reported, [i \in 1 .. Find |-> Byte(i - 1)])
  /\ border' = border + Find
  /\ write' = Writable(border')
  /\ available' = available + Find
  /\ UNCHANGED <<mem, current, state, pc, datagrams, seen>>

ReportKept ==
  /\ pc = "report" /\ Find # -1
  /\ reported' = reported
  /\ UNCHANGED <<ring, state, pc, datagrams, seen>>

PurgeForgets ==
  /\ pc = "purge" /\ Find = -1
  /\ border' = 0 /\ current' = 0
  /\ write' = Size /\ available' = Size
  /\ state' = "is_ready"
  /\ pc' = "idle"
  /\ UNCHANGED <<mem, datagrams, seen, reported>>

PurgeLineAndRest ==
  /\ pc = "purge" /\ Find # -1
  /\ border' = 0 /\ current' = 0
  /\ write' = Size /\ available' = Size
  /\ state' = "is_ready"
  /\ pc' = "report"
  /\ UNCHANGED <<mem, datagrams, seen, reported>>

ReadDoneNoPurge ==
  /\ pc = "report" /\ Find = -1
  /\ pc' = "idle"
  /\ UNCHANGED <<ring, state, datagrams, seen, reported>>
-----------------------------------------------------------------------------
(* FIONREAD reports n bytes, for a udp socket those of the next datagram;  *)
(* as many are read as may be written at current.  What is left of a       *)
(* stream is there for the next read, what is left of a datagram is gone.  *)
(* The two Require are that write and available are positive (ReadFits).   *)
Read(n, S) ==
  /\ pc = "idle" /\ state # "is_eof"
  /\ write > 0 /\ available > 0
  /\ Store(Min2(write, n), S)
  /\ cuts' = IF datagrams /\ n > write THEN cuts \cup {pos'} ELSE cuts

(* FIONREAD fails or finds nothing, read() fails or returns 0: the input   *)
(* is at its end, and the reader will remove the handler.  (EAGAIN and     *)
(* EINTR change nothing.)                                                  *)
ReadEof ==
  /\ pc = "idle" /\ state # "is_eof"
  /\ state' = "is_eof"
  /\ UNCHANGED <<ring, pc, datagrams, seen, reported>>

(* In the middle of an oversized line, no newline yet: all is dropped. *)
PurgeAll ==
  /\ pc = "purge" /\ Find = -1
  /\ border' = 0 /\ current' = 0
  /\ write' = Size /\ available' = Size
  /\ state' = "is_err"
  /\ pc' = "idle"
  /\ UNCHANGED <<mem, datagrams, seen, reported>>

(* The oversized line ends here.  border may become end: unlike getline,   *)
(* purgeline wraps it only beyond that, and then on the wrong side.        *)
PurgeLine ==
  /\ pc = "purge" /\ Find # -1
  /\ border' = IF border + Find > Size THEN Size - (border + Find) ELSE border + Find
  /\ write' = Writable(border')
  /\ available' = available + Find
  /\ state' = "is_ready"
  /\ pc' = "report"
  /\ UNCHANGED <<mem, current, datagrams, seen, reported>>

(* input_buffer_getline found a line; it is reported. *)
Report ==
  /\ pc = "report" /\ Find # -1
  /\ reported' = Append(reported, [i \in 1 .. Find |-> Byte(i - 1)])
  /\ border' = IF border + Find >= Size THEN border + Find - Size ELSE border + Find
  /\ write' = Writable(border')
  /\ available' = available + Find
  /\ UNCHANGED <<mem, current, state, pc, datagrams, seen>>

(* No line left.  If the ring is full the line in it is oversized: it is   *)
(* purged, and the rest of it will be.                                     *)
ReadDone ==
  /\ pc = "report" /\ Find = -1
  /\ pc' = "idle"
  /\ \/ /\ available # 0
        /\ UNCHANGED <<ring, state>>
     \/ /\ available = 0
        /\ border' = 0 /\ current' = 0
        /\ write' = Size /\ available' = Size
        /\ state' = "is_err"
        /\ UNCHANGED mem
  /\ UNCHANGED <<datagrams, seen, reported>>

(* The reader thread is cancelled: in select() or read(), or in the        *)
(* pthread_testcancel of the push that took a line.                        *)
Die ==
  /\ \/ pc = "idle"
     \/ pc = "report" /\ reported # <<>>
  /\ pc' = "dead"
  /\ UNCHANGED <<ring, state, datagrams, seen, reported>>

Next ==
  \/ \E n \in 1 .. MaxRead : \E S \in SUBSET (pos + 1 .. pos + n) : Read(n, S)
  \/ ReadEof
  \/ PurgeAll \/ PurgeLine
  \/ Report \/ ReadDone
  \/ Die

(* A read that has begun is carried through; nothing has to arrive. *)
Fairness == WF_vars(PurgeAll \/ PurgeLine \/ Report \/ ReadDone)

Spec == Init /\ [][Next]_vars /\ Fairness
-----------------------------------------------------------------------------
TypeOK ==
  /\ mem \in [0 .. Size - 1 -> 0 .. MaxBytes]
  /\ border \in 0 .. Size
  /\ current \in 0 .. Size - 1
  /\ available \in 0 .. Size
  /\ write \in 0 .. Size
  /\ state \in {"is_ready", "is_err", "is_eof"}
  /\ pc \in {"idle", "purge", "report", "dead"}
  /\ datagrams \in BOOLEAN
  /\ pos \in 0 .. MaxBytes
  /\ newlines \subseteq 1 .. pos /\ cuts \subseteq 1 .. pos
  /\ widest \in 0 .. MaxRead
  /\ reported \in Seq(Seq(1 .. MaxBytes))

Unread == Size - available

(* Nothing unread is lost or moved: the last Unread bytes that were read   *)
(* are in the ring, in order, from border on, whatever the reads, wraps    *)
(* and purges were.                                                        *)
RingExact ==
  Unread <= pos /\ \A i \in 0 .. Unread - 1 : Byte(i) = pos - Unread + 1 + i

(* Whenever read() is about to be called there is room for a byte at least *)
(* (the Require of input_tools.c:32-33), and what it is allowed to store   *)
(* neither passes the end of the ring nor reaches an unread byte.          *)
ReadFits ==
  pc = "idle" =>
    /\ write > 0 /\ available > 0
    /\ current + write <= Size
    /\ \A i \in 0 .. Unread - 1 :
         (IF border + i < Size THEN border + i ELSE border + i - Size)
           \notin current .. current + write - 1

(* The bytes a to b are a line of what was read. *)
IsLine(a, b) ==
  /\ b \in newlines
  /\ a = 1 \/ a - 1 \in newlines
  /\ \A c \in a .. b - 1 : c \notin newlines

(* A datagram was cut in the line of the bytes a to b, or just before it:  *)
(* what the input sent there is more than what was read.                   *)
IsCut(a, b) == cuts \cap (a - 1 .. b - 1) # {}

(* What is reported are whole lines of what was read, unchanged, none      *)
(* split or joined, none twice, in the order they came, and none is longer *)
(* than the ring.  They are lines as the input sent them but for those a   *)
(* datagram was cut in (IsCut), of which a stream has none: its parts are  *)
(* joined with what the next datagram begins with.                         *)
LinesGenuine ==
  \A n \in 1 .. Len(reported) :
    LET line == reported[n]
        last == line[Len(line)] IN
      /\ \A i \in 1 .. Len(line) : line[i] = line[1] + i - 1
      /\ IsLine(line[1], last)
      /\ IsCut(line[1], last) => datagrams
      /\ n < Len(reported) => last < reported[n + 1][1]

(* When a read has returned, every complete line of what was read that     *)
(* fits has been reported, and an oversized line cost no other line: as    *)
(* long as no single read() filled the whole ring, nothing but oversized   *)
(* lines is dropped of what was read.  What the kernel drops of a datagram *)
(* was never read: of the input itself this holds where nothing is cut.    *)
LinesExact ==
  pc = "idle" /\ widest < Size =>
    Len(reported) = Cardinality({b \in newlines : \E a \in b - Size + 1 .. b : IsLine(a, b)})

(* input_tools.c:133 "Buffer is full and no line is available": what is    *)
(* purged from a full ring never contains a complete line.                 *)
FullMeansNoLine ==
  pc = "report" /\ Find = -1 /\ available = 0 =>
    \A b \in pos - Unread + 1 .. pos : b \notin newlines

(* The report loop ends: every line taken makes room, until none is left.  *)
ReadReturns == pc \in {"purge", "report"} ~> pc \in {"idle", "dead"}
=============================================================================
