---------------------------- MODULE Logger_proofs ----------------------------
(***************************************************************************)
(* Proofs about the logger thread and its backlog file: nothing is lost,   *)
(* what is pending stays in order, nothing is repeated within a life, and  *)
(* over all lives the logger is the relay that the README promises.        *)
(*                                                                         *)
(* The inductive invariant says where each message is.  Placed ties the    *)
(* message in hand and the streams to the place in logger_run; Ordered is  *)
(* the order of the file, the buffer and the message in hand; Remembered   *)
(* says what of it was delivered before; Caught says that a logger working *)
(* from the buffer has delivered whatever lines the file still has, if it  *)
(* has left none behind.                                                   *)
(***************************************************************************)
EXTENDS Logger, SequenceTheorems, TLAPS

(* What logger_run holds at each place: the message in hand, the streams,  *)
(* the count of logger_write_backlog.                                      *)
Placed ==
  /\ pc \in {"deliver", "failed", "add", "require", "dangling"} => msg # None
  /\ pc \in {"start", "pop", "truncate", "create"} \cup Returned \cup {"segfault", "garbage"} =>
       msg = None
  /\ pc \in {"start", "pop", "segfault"} \cup Returned => in = Nil
  /\ pc = "truncate" => in # Nil /\ (in = Len(file) \/ "getline" \in Faults)
  /\ pc \in {"create", "dangling"} => in \in {0, Nil}
  /\ pc = "add" => in # Nil
  /\ pc \notin {"add", "create"} => left = 0
  /\ in # Nil /\ in # 0 /\ pc # "truncate" => msg = file[in]
  /\ ~backlog => file = <<>> /\ in = Nil
  /\ pc \in {"done", "double_close"} => ended /\ queue = <<>>
  /\ pc = "create" => backlog
  /\ pc = "start" => ~behind

(* The message in hand is not a line of the backlog file. *)
Solo == msg # None /\ in \in {0, Nil} /\ pc # "dangling"

(* The end marker is last. The file, the message in hand and the buffer    *)
(* are in the order the messages were obtained, and no message is in two   *)
(* of them.                                                                *)
Ordered ==
  /\ \A k \in DOMAIN queue : queue[k] = End => k = Len(queue) /\ ended
  /\ \A i, j \in DOMAIN file : i < j => file[i] < file[j]
  /\ \A i, j \in DOMAIN queue : i < j /\ queue[j] # End => queue[i] < queue[j]
  /\ \A n \in DOMAIN file, k \in DOMAIN queue : queue[k] # End => file[n] < queue[k]
  /\ Solo => \A k \in DOMAIN queue : queue[k] # End => msg < queue[k]
  /\ Solo => \A n \in DOMAIN file : file[n] # msg
  /\ Solo /\ in = Nil => \A n \in DOMAIN file : file[n] < msg

(* What is in the buffer was never delivered, nor was the message in hand  *)
(* unless it is a line of the file; the lines read are delivered. The      *)
(* lines to read were not delivered in this life, unless a truncate        *)
(* failed.                                                                 *)
Remembered ==
  /\ sent \subseteq Range(delivered)
  /\ life = 1 => Range(delivered) \subseteq sent
  /\ Solo \/ pc = "dangling" => msg \notin Range(delivered)
  /\ \A k \in DOMAIN queue : queue[k] \notin Range(delivered)
  /\ in # Nil => \A n \in 1 .. in - 1 : file[n] \in Range(delivered)
  /\ pc = "truncate" => \A n \in 1 .. in : file[n] \in Range(delivered)
  /\ ~kept => \A n \in DOMAIN file :
       in = Nil \/ in < n \/ (in = n /\ pc # "truncate") => file[n] \notin sent

(* A logger that takes messages from the buffer has delivered every line   *)
(* of the file, if it has left none behind. One that has just reopened the *)
(* file reads what it wrote last.                                          *)
Caught ==
  ~behind =>
    /\ in = Nil /\ pc \in {"pop", "deliver", "failed", "done"} =>
         Range(file) \subseteq Range(delivered)
    /\ in = 0 /\ pc \in {"deliver", "failed", "add"} =>
         \A n \in DOMAIN file : file[n] \in Range(delivered) \/ msg < file[n]

(* NothingLost, also where the thread or the process has broken off.       *)
Accounted ==
  \A m \in Messages :
    m \in Range(delivered) \cup Range(file) \cup Range(queue) \cup {msg}
            \cup forgotten \cup dropped

(* The inductive invariant. *)
IInv == TypeOK /\ Placed /\ Ordered /\ Remembered /\ Caught /\ Accounted

-----------------------------------------------------------------------------
(* Sequences: the elements, when one is added or taken at either end. *)
LEMMA RangeAppend ==
  ASSUME NEW S, NEW s \in Seq(S), NEW e \in S
  PROVE  Range(Append(s, e)) = Range(s) \cup {e}
<1> DEFINE t == Append(s, e)
<1>1. /\ DOMAIN s = 1 .. Len(s) /\ DOMAIN t = 1 .. Len(s) + 1 /\ Len(s) \in Nat
      /\ t[Len(s) + 1] = e /\ \A i \in 1 .. Len(s) : t[i] = s[i]
  OBVIOUS
<1> HIDE DEF t
<1>2. Range(t) \subseteq Range(s) \cup {e}
  BY <1>1 DEF Range
<1>3. Range(s) \cup {e} \subseteq Range(t)
  BY <1>1 DEF Range
<1> QED
  BY <1>2, <1>3 DEF t

(* The elements are the first and those of the tail. *)
LEMMA RangeTail ==
  ASSUME NEW S, NEW s \in Seq(S), s # <<>>
  PROVE  Range(s) = {Head(s)} \cup Range(Tail(s))
<1> DEFINE t == Tail(s)
<1>1. /\ Head(s) = s[1] /\ Len(s) \in Nat \ {0} /\ DOMAIN s = 1 .. Len(s)
      /\ DOMAIN t = 1 .. Len(s) - 1 /\ \A i \in 1 .. Len(s) - 1 : t[i] = s[i + 1]
  OBVIOUS
<1> HIDE DEF t
<1>2. \A i \in 2 .. Len(s) : i - 1 \in DOMAIN t /\ t[i - 1] = s[i]
  BY <1>1
<1>3. Range(s) \subseteq {s[1]} \cup Range(t)
  BY <1>1, <1>2 DEF Range
<1>4. {s[1]} \cup Range(t) \subseteq Range(s)
  BY <1>1 DEF Range
<1> QED
  BY <1>1, <1>3, <1>4 DEF t

(* One more element in front. *)
LEMMA RangeCons ==
  ASSUME NEW S, NEW s \in Seq(S), NEW e \in S
  PROVE  Range(<<e>> \o s) = Range(s) \cup {e}
<1> DEFINE t == <<e>> \o s
<1>1. /\ DOMAIN s = 1 .. Len(s) /\ DOMAIN t = 1 .. Len(s) + 1 /\ Len(s) \in Nat
      /\ t[1] = e /\ \A i \in 1 .. Len(s) : t[i + 1] = s[i]
  OBVIOUS
<1> HIDE DEF t
<1>2. \A i \in 2 .. Len(s) + 1 : i - 1 \in DOMAIN s /\ t[i] = s[i - 1]
  BY <1>1
<1>3. Range(t) \subseteq Range(s) \cup {e}
  BY <1>1, <1>2 DEF Range
<1>4. Range(s) \cup {e} \subseteq Range(t)
  <2>1. e \in Range(t)
    BY <1>1 DEF Range
  <2>2. ASSUME NEW i \in 1 .. Len(s) PROVE s[i] \in Range(t)
    <3>1. i + 1 \in DOMAIN t /\ t[i + 1] = s[i]
      BY <1>1
    <3> QED
      BY <3>1 DEF Range
  <2> QED
    BY <1>1, <2>1, <2>2 DEF Range
<1> QED
  BY <1>3, <1>4 DEF t

(* A message put back in front of the queue leaves it a queue, and the     *)
(* count in range.                                                         *)
LEMMA PutBack ==
  ASSUME NEW S, NEW q \in Seq(S), NEW n \in 0 .. Len(q), NEW e \in S
  PROVE  /\ <<e>> \o q \in Seq(S)
         /\ n \in 0 .. Len(<<e>> \o q)
         /\ Len(q) \in 0 .. Len(q)
OBVIOUS

(* A message taken leaves a queue, and the count in range. *)
LEMMA Taken ==
  ASSUME NEW S, NEW q \in Seq(S), q # <<>>, NEW n \in 1 .. Len(q)
  PROVE  /\ Tail(q) \in Seq(S)
         /\ n - 1 \in 0 .. Len(Tail(q))
         /\ 0 \in 0 .. Len(Tail(q))
         /\ 0 \in 0 .. Len(q)
OBVIOUS

(* What is unread of the file, line by line. *)
LEMMA RestIs ==
  ASSUME TypeOK, in # Nil
  PROVE  /\ Rest \in Seq(Messages)
         /\ \A i \in DOMAIN Rest : in + i \in DOMAIN file /\ Rest[i] = file[in + i]
         /\ \A n \in DOMAIN file : in < n => n - in \in DOMAIN Rest /\ Rest[n - in] = file[n]
         /\ Range(Rest) \subseteq Messages
<1> USE LoggerAssumption
<1>1. /\ in \in 0 .. Len(file) /\ Rest = SubSeq(file, in + 1, Len(file))
      /\ Len(file) \in Nat /\ DOMAIN file = 1 .. Len(file) /\ file \in Seq(Messages)
  BY DEF Rest, TypeOK
<1> DEFINE u == SubSeq(file, in + 1, Len(file))
<1> HIDE DEF Messages
<1>2. /\ u \in Seq(Messages) /\ DOMAIN u = 1 .. Len(file) - in
      /\ \A i \in 1 .. Len(file) - in : u[i] = file[in + i]
  BY <1>1
<1> HIDE DEF u
<1>3. \A i \in DOMAIN u : in + i \in DOMAIN file /\ u[i] = file[in + i]
  BY <1>1, <1>2
<1>4. \A n \in DOMAIN file : in < n => n - in \in DOMAIN u /\ u[n - in] = file[n]
  BY <1>1, <1>2
<1>5. Range(u) \subseteq Messages
  BY <1>2, RangeOfSeq
<1> QED
  BY <1>1, <1>2, <1>3, <1>4, <1>5 DEF u

(* Every step keeps the types: file offsets within the file, the count of  *)
(* logger_write_backlog within the buffer.                                 *)
LEMMA StepTypes ==
  ASSUME TypeOK, Placed, Next
  PROVE  TypeOK'
<1> USE LoggerAssumption DEF TypeOK, Messages, Stopped, Returned, Broken, stream, buffer, history
<1>1. CASE Push
  <2>1. /\ file' \in Seq(Messages') /\ delivered' \in Seq(Messages')
        /\ queue' \in Seq(Messages' \cup {End})
    BY <1>1, SeqMonotonic DEF Push
  <2>2. left' \in 0 .. Len(queue') /\ obtained' \in 0 .. MaxMsgs /\ Messages \subseteq Messages'
    BY <1>1 DEF Push
  <2>3. UNCHANGED <<file, backlog, ended, msg, in, out, pc, forgotten, dropped, sent, kept,
                    behind, life>>
    BY <1>1 DEF Push
  <2>4. UNCHANGED <<file, delivered>>
    BY <1>1 DEF Push
  <2>5. TypeOK
    OBVIOUS
  <2> HIDE DEF Messages, TypeOK, Stopped
  <2>6. /\ msg' \in Messages' \cup {None} /\ pc' = pc /\ forgotten' \subseteq Messages'
        /\ dropped' \subseteq Messages' /\ sent' \subseteq Messages'
    BY <2>2, <2>3, <2>5 DEF TypeOK
  <2>7. in' \in {Nil} \cup 0 .. Len(file')
    BY <2>3, <2>4, <2>5 DEF TypeOK
  <2> QED
    BY <2>1, <2>2, <2>3, <2>5, <2>6, <2>7 DEF TypeOK
<1>2. CASE PushEnd
  BY <1>2 DEF PushEnd
<1>3. CASE Restart
  <2>1. Range(queue) \subseteq Messages \cup {End}
    BY RangeOfSeq
  <2>2. forgotten' \subseteq Messages
    BY <1>3, <2>1 DEF Restart
  <2> QED
    <3>1. <<>> \in Seq(Messages \cup {End}) /\ Len(<<>>) = 0
      OBVIOUS
    <3>2. queue' \in Seq(Messages' \cup {End}) /\ left' \in 0 .. Len(queue')
      BY <1>3, <3>1 DEF Restart
    <3>3. life' \in 1 .. MaxLives /\ sent' \subseteq Messages'
      BY <1>3 DEF Restart
    <3> QED
      BY <1>3, <2>2, <3>2, <3>3 DEF Restart
<1>4. CASE Start
  <2>1. UNCHANGED <<file, backlog, queue, ended, out, left, dropped, obtained, delivered,
                    forgotten, sent, kept, life>>
    BY <1>4 DEF Start
  <2>2. behind' \in BOOLEAN
    BY <1>4, Zenon DEF Start, TypeOK
  <2>3. pc' \in {"no_dest", "deliver", "pop"}
    BY <1>4 DEF Start
  <2>4. msg' \in Messages \cup {None} /\ in' \in {Nil} \cup 0 .. Len(file)
    BY <1>4 DEF Start
  <2> QED
    BY <2>1, <2>2, <2>3, <2>4
<1>5. CASE Pop
  BY <1>5 DEF Pop, Placed
<1>6. CASE Delivered
  <2>1. msg \in Messages
    BY <1>6 DEF Delivered, Placed
  <2>2. delivered' \in Seq(Messages) /\ sent' \subseteq Messages
    BY <1>6, <2>1 DEF Delivered
  <2>3. msg' \in Messages \cup {None} /\ in' \in {Nil} \cup 0 .. Len(file)
    <3>1. CASE in # Nil /\ in < Len(file) /\ msg' = file[in + 1] /\ in' = in + 1
      <4>1. in + 1 \in 1 .. Len(file)
        BY <3>1
      <4> QED
        BY <3>1, <4>1
    <3>2. CASE msg' = None /\ in' = in
      BY <1>6, <3>2 DEF Delivered
    <3> QED
      BY <1>6, <3>1, <3>2 DEF Delivered
  <2> QED
    BY <1>6, <2>2, <2>3 DEF Delivered
<1>7. CASE Truncate
  <2>1. file' \in {file, <<>>} /\ in' = Nil
    BY <1>7 DEF Truncate
  <2>2. dropped' \subseteq Messages
    <3>1. in # Nil
      BY <1>7 DEF Truncate, Placed
    <3>2. Range(Rest) \subseteq Messages
      BY <3>1, RestIs
    <3> HIDE DEF Messages
    <3> QED
      BY <1>7, <3>2 DEF Truncate
  <2> QED
    BY <1>7, <2>1, <2>2, EmptySeq DEF Truncate
<1>8. CASE NotDelivered
  BY <1>8 DEF NotDelivered
<1>9. CASE FailedNoBacklog
  BY <1>9 DEF FailedNoBacklog
<1>10. CASE FailedReopen
  BY <1>10 DEF FailedReopen
<1>11. CASE FailedAgain
  BY <1>11 DEF FailedAgain
<1>12. CASE FailedFirst
  <2> DEFINE S == Messages \cup {End}
  <2>1. msg \in Messages /\ file \in Seq(Messages) /\ dropped \subseteq Messages
    BY <1>12 DEF FailedFirst, Placed
  <2>2. msg \in S /\ queue \in Seq(S) /\ left \in 0 .. Len(queue)
    BY <2>1
  <2>3. file' = file \/ file' = Append(file, msg)
    BY <1>12 DEF FailedFirst, Written
  <2>4. dropped' = dropped \/ dropped' = dropped \cup {msg}
    BY <1>12 DEF FailedFirst, Written
  <2>5. \/ queue' = queue /\ left' = left
        \/ queue' = queue /\ left' = Len(queue)
        \/ queue' = <<msg>> \o queue /\ left' = left
    BY <1>12 DEF FailedFirst
  <2>6. /\ in' \in {0, Nil} /\ msg' \in {msg, None}
        /\ out' \in {out, TRUE} /\ pc' \in {"deliver", "dangling", "create"}
        /\ UNCHANGED <<backlog, ended, history>>
    BY <1>12 DEF FailedFirst
  <2> HIDE DEF S, Messages, TypeOK
  <2>7. file' \in Seq(Messages) /\ dropped' \subseteq Messages
    BY <2>1, <2>3, <2>4
  <2>8. queue' \in Seq(S) /\ left' \in 0 .. Len(queue')
    <3>1. /\ <<msg>> \o queue \in Seq(S) /\ left \in 0 .. Len(<<msg>> \o queue)
          /\ Len(queue) \in 0 .. Len(queue)
      BY <2>2, PutBack
    <3> QED
      BY <2>2, <2>5, <3>1
  <2>9. 0 \in 0 .. Len(file')
    BY <2>7
  <2> QED
    BY <2>1, <2>6, <2>7, <2>8, <2>9 DEF S, Messages, TypeOK
<1>13. CASE WriteBacklog
  <2> DEFINE S == Messages \cup {End}
  <2>1. /\ file \in Seq(Messages) /\ dropped \subseteq Messages /\ in \in {Nil} \cup 0 .. Len(file)
        /\ Head(queue) # End => Head(queue) \in Messages
    BY <1>13 DEF WriteBacklog
  <2>2. queue # <<>> /\ queue \in Seq(S) /\ left \in 1 .. Len(queue)
    BY <1>13 DEF WriteBacklog
  <2>3. file' = file \/ (Head(queue) # End /\ file' = Append(file, Head(queue)))
    BY <1>13 DEF WriteBacklog, Written
  <2>4. dropped' = dropped \/ (Head(queue) # End /\ dropped' = dropped \cup {Head(queue)})
    BY <1>13 DEF WriteBacklog, Written
  <2>5. (queue' = Tail(queue) /\ left' \in {0, left - 1}) \/ (queue' = queue /\ left' = 0)
    BY <1>13 DEF WriteBacklog
  <2>6. /\ pc' \in {pc, "double_close"} /\ out' \in {out, FALSE}
        /\ UNCHANGED <<backlog, ended, msg, in, history>>
    BY <1>13 DEF WriteBacklog
  <2> HIDE DEF S, Messages, TypeOK
  <2>7. file' \in Seq(Messages) /\ dropped' \subseteq Messages /\ in' \in {Nil} \cup 0 .. Len(file')
    <3>1. file' = file \/ Len(file') = Len(file) + 1
      BY <2>1, <2>3
    <3>2. file' \in Seq(Messages)
      BY <2>1, <2>3
    <3>3. Len(file) \in Nat
      BY <2>1
    <3> QED BY <2>1, <2>4, <2>6, <3>1, <3>2, <3>3
  <2>8. queue' \in Seq(S) /\ left' \in 0 .. Len(queue')
    BY <2>2, <2>5, Taken
  <2>9. TypeOK /\ Messages' = Messages
    BY <2>6 DEF TypeOK, Messages
  <2>10. pc' = pc \/ pc' \in Stopped
    BY <2>6
  <2> HIDE DEF Stopped, Returned, Broken
  <2> QED
    BY <2>6, <2>7, <2>8, <2>9, <2>10 DEF S, TypeOK
<1>14. CASE BacklogWritten
  <2>1. UNCHANGED <<file, backlog, queue, ended, out, left, dropped, history>>
    BY <1>14 DEF BacklogWritten
  <2>2. pc' \in {"deliver"} \cup Stopped
    BY <1>14 DEF BacklogWritten
  <2>3. msg' \in Messages \cup {None} /\ in' \in {Nil} \cup 0 .. Len(file)
    <3>1. file # <<>> => file[1] \in Messages /\ 1 \in 0 .. Len(file)
      OBVIOUS
    <3> QED
      BY <1>14, <3>1 DEF BacklogWritten
  <2>4. TypeOK /\ Messages' = Messages
    BY <2>1 DEF TypeOK, Messages
  <2> HIDE DEF Messages, TypeOK, Stopped, Returned, Broken
  <2> QED
    BY <2>1, <2>2, <2>3, <2>4 DEF TypeOK
<1> QED
  BY <1>1, <1>2, <1>3, <1>4, <1>5, <1>6, <1>7, <1>8, <1>9, <1>10, <1>11, <1>12, <1>13, <1>14
     DEF Next, Run, Failed

(* What the types say of the elements. *)
LEMMA Shapes ==
  ASSUME TypeOK
  PROVE  /\ Len(file) \in Nat /\ DOMAIN file = 1 .. Len(file)
         /\ \A n \in 1 .. Len(file) : file[n] \in Messages
         /\ file = <<>> <=> Len(file) = 0
         /\ Len(queue) \in Nat /\ DOMAIN queue = 1 .. Len(queue)
         /\ \A k \in 1 .. Len(queue) : queue[k] \in Messages \cup {End}
         /\ queue = <<>> <=> Len(queue) = 0
         /\ queue # <<>> => Head(queue) = queue[1] /\ Len(queue) >= 1
         /\ \A m \in Messages : m \in Nat /\ m <= obtained /\ m # End /\ m # None
         /\ obtained \in Nat
<1> USE LoggerAssumption DEF TypeOK
<1>1. obtained \in Nat /\ \A m \in Messages : m \in Nat /\ m <= obtained /\ m # End /\ m # None
  BY DEF Messages
<1> QED
  BY <1>1

(* How the queue changes when a message is taken. *)
LEMMA TailShape ==
  ASSUME TypeOK, queue # <<>>, queue' = Tail(queue)
  PROVE  /\ Len(queue') = Len(queue) - 1 /\ DOMAIN queue' = 1 .. Len(queue) - 1
         /\ \A k \in 1 .. Len(queue) - 1 : queue'[k] = queue[k + 1]
BY DEF TypeOK

(* A sequence with an element added at the end, index by index. *)
LEMMA AppendShape ==
  ASSUME NEW S, NEW s \in Seq(S), NEW e
  PROVE  /\ Len(Append(s, e)) = Len(s) + 1 /\ DOMAIN Append(s, e) = 1 .. Len(s) + 1
         /\ \A k \in 1 .. Len(s) : Append(s, e)[k] = s[k]
         /\ Append(s, e)[Len(s) + 1] = e
OBVIOUS

(* A sequence with an element added in front, index by index. *)
LEMMA ConsShape ==
  ASSUME NEW S, NEW s \in Seq(S), NEW e
  PROVE  /\ Len(<<e>> \o s) = Len(s) + 1 /\ DOMAIN (<<e>> \o s) = 1 .. Len(s) + 1
         /\ \A k \in 1 .. Len(s) : (<<e>> \o s)[k + 1] = s[k]
         /\ (<<e>> \o s)[1] = e
OBVIOUS

(* How the file changes when a message is written to it. *)
LEMMA FileGrows ==
  ASSUME TypeOK, NEW e, file' = Append(file, e)
  PROVE  /\ DOMAIN file' = 1 .. Len(file) + 1
         /\ \A n \in DOMAIN file : file'[n] = file[n]
         /\ \A n \in DOMAIN file' : n \in DOMAIN file \/ n = Len(file) + 1
         /\ file'[Len(file) + 1] = e
<1>1. /\ DOMAIN file' = 1 .. Len(file) + 1
      /\ \A n \in 1 .. Len(file) : file'[n] = file[n]
      /\ file'[Len(file) + 1] = e
  <2>1. file \in Seq(Messages)
    BY DEF TypeOK
  <2> QED
    BY <2>1, AppendShape
<1>2. DOMAIN file = 1 .. Len(file) /\ Len(file) \in Nat
  BY Shapes
<1> QED
  BY <1>1, <1>2

(* Every step of logger_run keeps Placed. *)
LEMMA StepPlaced ==
  ASSUME TypeOK, Placed, Ordered, Next
  PROVE  Placed'
<1> USE LoggerAssumption DEF Placed, Stopped, Returned, Broken, stream, buffer, history
<1>1. CASE Push
  BY <1>1 DEF Push
<1>2. CASE PushEnd
  BY <1>2 DEF PushEnd
<1>3. CASE Restart
  BY <1>3 DEF Restart
<1>4. CASE Start
  <2>1. file # <<>> => file[1] # None
    BY Shapes
  <2> QED
    BY <1>4, <2>1 DEF Start
<1>5. CASE Pop
  <2>1. Head(queue) = End => ended /\ Tail(queue) = <<>>
    BY <1>5, Shapes DEF Pop, Ordered, TypeOK
  <2>2. Head(queue) # End => Head(queue) # None
    BY <1>5, Shapes DEF Pop
  <2> QED
    BY <1>5, <2>1, <2>2 DEF Pop
<1>6. CASE Delivered
  <2>1. UNCHANGED <<file, queue, backlog, ended, left>>
    BY <1>6 DEF Delivered
  <2>2. CASE in # Nil /\ in < Len(file) /\ msg' = file[in + 1] /\ pc' = pc /\ in' = in + 1
    <3>1. in + 1 \in 1 .. Len(file)
      <4>1. in \in 0 .. Len(file)
        BY <2>2 DEF TypeOK
      <4>2. Len(file) \in Nat
        BY Shapes
      <4> QED
        BY <2>2, <4>1, <4>2
    <3>2. file[in + 1] # None
      BY <3>1, Shapes
    <3>3. pc = "deliver" /\ pc' = "deliver" /\ in' = in + 1 /\ msg' = file[in + 1]
      BY <1>6, <2>2 DEF Delivered
    <3> QED
      BY <2>1, <2>2, <3>2, <3>3
  <2>3. CASE msg' = None
    <3>1. in # Nil /\ in < Len(file) => file[in + 1] # None
      <4>1. in # Nil /\ in < Len(file) => in + 1 \in 1 .. Len(file)
        BY Shapes DEF TypeOK
      <4> QED
        BY <4>1, Shapes
    <3>2. /\ pc = "deliver" /\ in' = in
          /\ \/ pc' = "pop" /\ in = Nil
             \/ pc' = "truncate" /\ in # Nil /\ (in = Len(file) \/ "getline" \in Faults)
      BY <1>6, <2>3, <3>1 DEF Delivered
    <3> QED
      BY <2>1, <2>3, <3>2
  <2> QED
    BY <1>6, <2>2, <2>3 DEF Delivered
<1>7. CASE Truncate
  BY <1>7 DEF Truncate
<1>8. CASE NotDelivered
  BY <1>8 DEF NotDelivered
<1>9. CASE FailedNoBacklog
  BY <1>9 DEF FailedNoBacklog
<1>10. CASE FailedReopen
  BY <1>10 DEF FailedReopen
<1>11. CASE FailedAgain
  BY <1>11 DEF FailedAgain
<1>12. CASE FailedFirst
  BY <1>12 DEF FailedFirst
<1>13. CASE WriteBacklog
  <2>1. Head(queue) = End => ended /\ Tail(queue) = <<>>
    BY <1>13, Shapes DEF WriteBacklog, Ordered, TypeOK
  <2>2. file' = file \/ file' = Append(file, Head(queue))
    BY <1>13 DEF WriteBacklog, Written
  <2>3. \A n \in 1 .. Len(file) : file'[n] = file[n]
    BY <2>2, FileGrows, Shapes
  <2>4. in # Nil /\ in # 0 => msg = file'[in]
    <3>1. pc # "truncate"
      BY <1>13 DEF WriteBacklog
    <3> QED
      BY <2>3, <3>1, Shapes DEF TypeOK
  <2>5. in' = in /\ msg' = msg /\ backlog' = backlog /\ ended' = ended
    BY <1>13 DEF WriteBacklog
  <2>6. \/ pc' = "double_close" /\ left' = 0 /\ queue' = Tail(queue) /\ Head(queue) = End
        \/ pc' = pc
    BY <1>13 DEF WriteBacklog
  <2>7. backlog /\ pc \in {"add", "create"}
    BY <1>13 DEF WriteBacklog
  <2> QED
    BY <2>1, <2>4, <2>5, <2>6, <2>7
<1>14. CASE BacklogWritten
  BY <1>14, Shapes DEF BacklogWritten, TypeOK
<1> QED
  BY <1>1, <1>2, <1>3, <1>4, <1>5, <1>6, <1>7, <1>8, <1>9, <1>10, <1>11, <1>12, <1>13, <1>14
     DEF Next, Run, Failed

(* Most actions leave the two sequences and what is in hand as they were. *)
LEMMA OrderUntouched ==
  ASSUME Ordered, UNCHANGED <<file, queue, ended>>,
         Solo' => Solo /\ msg' = msg /\ (in' = Nil => in = Nil)
  PROVE  Ordered'
BY DEF Ordered

(* What the order is of, when the oldest entry has left the queue. *)
LEMMA QueueShorter ==
  ASSUME TypeOK, Ordered, queue # <<>>, queue' = Tail(queue), ended' = ended
  PROVE  /\ \A k \in DOMAIN queue' : queue'[k] = End => k = Len(queue') /\ ended'
         /\ \A i, j \in DOMAIN queue' : i < j /\ queue'[j] # End => queue'[i] < queue'[j]
         /\ \A k \in DOMAIN queue' : queue'[k] # End => queue[1] < queue'[k]
         /\ \A n \in DOMAIN file, k \in DOMAIN queue' : queue'[k] # End => file[n] < queue'[k]
         /\ Solo => \A k \in DOMAIN queue' : queue'[k] # End => msg < queue'[k]
         /\ queue[1] # End => \A n \in DOMAIN file : file[n] < queue[1]
         /\ Solo /\ queue[1] # End => msg < queue[1]
<1>1. /\ Len(queue) \in Nat \ {0} /\ 1 \in DOMAIN queue
      /\ Len(queue') = Len(queue) - 1 /\ DOMAIN queue' = 1 .. Len(queue) - 1
      /\ \A k \in 1 .. Len(queue) - 1 : queue'[k] = queue[k + 1]
  BY TailShape, Shapes
<1>2. \A k \in DOMAIN queue' : k + 1 \in DOMAIN queue /\ 1 < k + 1 /\ queue'[k] = queue[k + 1]
  BY <1>1, Shapes
<1>3. \A i, j \in DOMAIN queue' : i < j <=> i + 1 < j + 1
  BY <1>1
<1>4. \A k \in DOMAIN queue' : k = Len(queue') <=> k + 1 = Len(queue)
  BY <1>1
<1> QED
  BY <1>1, <1>2, <1>3, <1>4 DEF Ordered

(* Every step keeps the order: what goes from the buffer to the file is    *)
(* newer than the file and older than the rest of the buffer.              *)
LEMMA StepOrdered ==
  ASSUME TypeOK, Placed, Ordered, Next
  PROVE  Ordered'
<1> USE LoggerAssumption DEF stream, buffer, history
<1>1. CASE Push
  <2>1. /\ Len(queue') = Len(queue) + 1 /\ DOMAIN queue' = 1 .. Len(queue) + 1
        /\ \A k \in 1 .. Len(queue) : queue'[k] = queue[k]
        /\ queue'[Len(queue) + 1] = obtained + 1
    BY <1>1, AppendShape DEF Push, TypeOK
  <2>2. \A k \in 1 .. Len(queue) : queue[k] # End
    BY <1>1, Shapes DEF Push, Ordered
  <2>3. ~ended /\ Solo' = Solo /\ UNCHANGED <<file, msg, in, ended>>
    BY <1>1 DEF Push, Solo
  <2>4. Solo => msg \in Messages
    BY DEF Solo, TypeOK
  <2>5. \A i, j \in DOMAIN queue' : i < j => queue'[i] < queue'[j]
    BY <2>1, <2>2, Shapes DEF Ordered
  <2>6. \A n \in DOMAIN file, k \in DOMAIN queue' : file[n] < queue'[k]
    <3>1. \A k \in DOMAIN queue' : k \in DOMAIN queue \/ k = Len(queue) + 1
      BY <2>1, Shapes
    <3>2. \A n \in DOMAIN file : file[n] < obtained + 1
      BY Shapes
    <3>3. \A n \in DOMAIN file, k \in DOMAIN queue : file[n] < queue[k]
      BY <2>2, Shapes DEF Ordered
    <3> QED
      BY <2>1, <3>1, <3>2, <3>3, Shapes
  <2>7. Solo => \A k \in DOMAIN queue' : msg < queue'[k]
    <3>1. Solo => \A k \in 1 .. Len(queue) : msg < queue'[k]
      BY <2>1, <2>2, Shapes DEF Ordered
    <3>2. Solo => msg < queue'[Len(queue) + 1]
      BY <2>1, <2>4, Shapes
    <3>3. \A k \in DOMAIN queue' : k \in 1 .. Len(queue) \/ k = Len(queue) + 1
      BY <2>1, Shapes
    <3> QED
      BY <3>1, <3>2, <3>3
  <2>8. \A k \in DOMAIN queue' : queue'[k] # End
    BY <2>1, <2>2, Shapes
  <2> QED
    BY <2>3, <2>5, <2>6, <2>7, <2>8 DEF Ordered
<1>2. CASE PushEnd
  <2>1. /\ Len(queue') = Len(queue) + 1 /\ DOMAIN queue' = 1 .. Len(queue) + 1
        /\ \A k \in 1 .. Len(queue) : queue'[k] = queue[k]
        /\ queue'[Len(queue) + 1] = End
    BY <1>2, AppendShape DEF PushEnd, TypeOK
  <2>2. \A k \in 1 .. Len(queue) : queue[k] # End
    BY <1>2, Shapes DEF PushEnd, Ordered
  <2>3. ended' /\ Solo' = Solo /\ UNCHANGED <<file, msg, in>>
    BY <1>2 DEF PushEnd, Solo
  <2>4. \A k \in DOMAIN queue' : queue'[k] = End <=> k = Len(queue')
    BY <2>1, <2>2, Shapes
  <2>5. \A k \in DOMAIN queue' : queue'[k] # End => k \in DOMAIN queue /\ queue'[k] = queue[k]
    BY <2>1, <2>2, Shapes
  <2>6. \A i, j \in DOMAIN queue' : i < j /\ queue'[j] # End => queue'[i] < queue'[j]
    BY <2>1, <2>5, Shapes DEF Ordered
  <2> QED
    BY <2>3, <2>4, <2>5, <2>6 DEF Ordered
<1>3. CASE Restart
  <2>1. queue' = <<>> /\ file' = file /\ ~Solo'
    BY <1>3 DEF Restart, Solo
  <2> QED
    BY <2>1 DEF Ordered
<1>4. CASE Start
  <2>1. UNCHANGED <<file, queue, ended>> /\ ~Solo'
    BY <1>4 DEF Start, Solo, Placed
  <2> QED
    BY <2>1, OrderUntouched
<1>5. CASE Pop
  <2>1. queue # <<>> /\ queue' = Tail(queue) /\ UNCHANGED <<file, ended, in>>
    BY <1>5 DEF Pop
  <2>2. Solo' => queue[1] # End /\ msg' = queue[1]
    BY <1>5, Shapes DEF Pop, Solo, Placed, Returned
  <2>3. queue[1] # End => queue[1] \in Nat /\ \A n \in DOMAIN file : file[n] \in Nat
    BY <2>1, Shapes
  <2> QED
    BY <2>1, <2>2, <2>3, QueueShorter DEF Ordered
<1>6. CASE Delivered
  <2>1. UNCHANGED <<file, queue, ended>> /\ ~Solo'
    BY <1>6 DEF Delivered, Solo, TypeOK
  <2> QED
    BY <2>1, OrderUntouched
<1>7. CASE Truncate
  <2>1. UNCHANGED <<queue, ended>> /\ ~Solo' /\ file' \in {file, <<>>}
    BY <1>7 DEF Truncate, Solo, Placed
  <2> QED
    BY <2>1 DEF Ordered
<1>8. CASE NotDelivered \/ FailedNoBacklog \/ FailedReopen \/ FailedAgain
  <2>1. UNCHANGED <<file, queue, ended, msg, in>> /\ (Solo' => Solo)
    BY <1>8 DEF NotDelivered, FailedNoBacklog, FailedReopen, FailedAgain, Solo
  <2> QED
    BY <2>1, OrderUntouched
<1>9. CASE FailedFirst
  <2>1. Solo /\ in = Nil /\ ended' = ended
    BY <1>9 DEF FailedFirst, Solo, Placed
  <2>2. CASE UNCHANGED <<file, queue>> /\ (Solo' => msg' = msg)
    BY <2>1, <2>2, OrderUntouched
  <2>3. CASE file' = file /\ queue' = <<msg>> \o queue /\ ~Solo'
    <3>1. /\ DOMAIN queue' = 1 .. Len(queue) + 1 /\ Len(queue') = Len(queue) + 1
          /\ \A k \in 1 .. Len(queue) : queue'[k + 1] = queue[k]
          /\ queue'[1] = msg
      BY <2>3, ConsShape DEF TypeOK
    <3>2. \A k \in DOMAIN queue' : \/ k = 1
                                   \/ k - 1 \in DOMAIN queue /\ queue'[k] = queue[k - 1]
      BY <3>1, Shapes
    <3>3. \A i, j \in DOMAIN queue' : i < j => j # 1 /\ (i # 1 => i - 1 < j - 1)
      BY <3>1
    <3>4. \A k \in DOMAIN queue' : k = Len(queue') <=> k - 1 = Len(queue)
      BY <3>1, Shapes
    <3>5. msg # End
      BY <2>1, Shapes DEF Solo, TypeOK
    <3> QED
      BY <2>1, <2>3, <3>1, <3>2, <3>3, <3>4, <3>5 DEF Ordered
  <2>4. CASE file' = Append(file, msg) /\ queue' = queue /\ ~Solo'
    <3>1. /\ DOMAIN file' = 1 .. Len(file) + 1
          /\ \A n \in 1 .. Len(file) : file'[n] = file[n]
          /\ file'[Len(file) + 1] = msg
      BY <2>4, AppendShape DEF TypeOK
    <3>2. \A n \in DOMAIN file' : \/ n = Len(file) + 1 /\ file'[n] = msg
                                  \/ n \in DOMAIN file /\ n < Len(file) + 1 /\ file'[n] = file[n]
      BY <3>1, Shapes
    <3>3. \A i, j \in DOMAIN file' : i < j => i # Len(file) + 1
      BY <3>1, Shapes
    <3> QED
      BY <2>1, <2>4, <3>2, <3>3 DEF Ordered
  <2> QED
    BY <1>9, <2>2, <2>3, <2>4 DEF FailedFirst, Written, Solo
<1>10. CASE WriteBacklog
  <2>1. queue # <<>> /\ Head(queue) = queue[1] /\ UNCHANGED <<ended, msg, in>>
    BY <1>10, Shapes DEF WriteBacklog
  <2>2. (Solo' => Solo) /\ (Solo => in # Nil)
    BY <1>10 DEF WriteBacklog, Solo, Placed
  <2>3. CASE UNCHANGED <<file, queue>>
    BY <2>1, <2>2, <2>3, OrderUntouched
  <2>4. CASE file' = file /\ queue' = Tail(queue)
    <3> QED
      BY <2>1, <2>2, <2>4, QueueShorter DEF Ordered
  <2>5. CASE queue[1] # End /\ file' = Append(file, queue[1]) /\ queue' = Tail(queue)
    <3>1. /\ DOMAIN file' = 1 .. Len(file) + 1
          /\ \A n \in 1 .. Len(file) : file'[n] = file[n]
          /\ file'[Len(file) + 1] = queue[1]
      BY <2>5, AppendShape DEF TypeOK
    <3>2. \A n \in DOMAIN file' : \/ n = Len(file) + 1 /\ file'[n] = queue[1]
                                  \/ n \in DOMAIN file /\ n < Len(file) + 1 /\ file'[n] = file[n]
      BY <3>1, Shapes
    <3>3. \A i, j \in DOMAIN file' : i < j => i # Len(file) + 1
      BY <3>1, Shapes
    <3>4. Solo => msg \in Nat /\ queue[1] \in Nat
      BY <2>1, <2>5, Shapes DEF Solo, TypeOK
    <3> QED
      BY <2>1, <2>2, <2>5, <3>2, <3>3, <3>4, QueueShorter DEF Ordered
  <2> QED
    BY <1>10, <2>1, <2>3, <2>4, <2>5 DEF WriteBacklog, Written
<1>11. CASE BacklogWritten
  <2>1. UNCHANGED <<file, queue, ended>>
    BY <1>11 DEF BacklogWritten
  <2>2. Solo' => Solo /\ msg' = msg /\ in' = in
    BY <1>11 DEF BacklogWritten, Solo, Placed
  <2> QED
    BY <2>1, <2>2, OrderUntouched
<1> QED
  BY <1>1, <1>2, <1>3, <1>4, <1>5, <1>6, <1>7, <1>8, <1>9, <1>10, <1>11 DEF Next, Run, Failed

(* A step that moves neither messages nor the streams. *)
LEMMA RememberedUntouched ==
  ASSUME Remembered, UNCHANGED <<file, queue, delivered, sent, kept, life, in>>,
         pc' # "truncate", pc # "truncate",
         Solo' \/ pc' = "dangling" => (Solo \/ pc = "dangling") /\ msg' = msg
  PROVE  Remembered'
BY DEF Remembered

(* Every step keeps Remembered: a delivery is of a message that is nowhere *)
(* else, or of a line that is then passed.                                 *)
LEMMA StepRemembered ==
  ASSUME TypeOK, Placed, Ordered, Remembered, Next
  PROVE  Remembered'
<1> USE LoggerAssumption DEF stream, buffer, history
<1>a. Range(delivered) \subseteq Messages
  BY RangeOfSeq DEF TypeOK
<1>1. CASE Push
  <2>1. /\ DOMAIN queue' = 1 .. Len(queue) + 1
        /\ \A k \in 1 .. Len(queue) : queue'[k] = queue[k]
        /\ queue'[Len(queue) + 1] = obtained + 1
    BY <1>1, AppendShape DEF Push, TypeOK
  <2>2. obtained + 1 \notin Range(delivered)
    BY <1>a, Shapes
  <2>3. \A k \in DOMAIN queue' : queue'[k] \notin Range(delivered)
    BY <2>1, <2>2, Shapes DEF Remembered
  <2>4. Solo' = Solo /\ UNCHANGED <<file, msg, in, pc, delivered, sent, kept, life>>
    BY <1>1 DEF Push, Solo
  <2> QED
    BY <2>3, <2>4 DEF Remembered
<1>2. CASE PushEnd
  <2>1. /\ DOMAIN queue' = 1 .. Len(queue) + 1
        /\ \A k \in 1 .. Len(queue) : queue'[k] = queue[k]
        /\ queue'[Len(queue) + 1] = End
    BY <1>2, AppendShape DEF PushEnd, TypeOK
  <2>2. End \notin Range(delivered)
    BY <1>a, Shapes
  <2>3. \A k \in DOMAIN queue' : queue'[k] \notin Range(delivered)
    BY <2>1, <2>2, Shapes DEF Remembered
  <2>4. Solo' = Solo /\ UNCHANGED <<file, msg, in, pc, delivered, sent, kept, life>>
    BY <1>2 DEF PushEnd, Solo
  <2> QED
    BY <2>3, <2>4 DEF Remembered
<1>3. CASE Restart
  <2>1. /\ queue' = <<>> /\ sent' = {} /\ ~Solo' /\ pc' = "start" /\ in' = Nil
        /\ UNCHANGED <<file, delivered>>
    BY <1>3 DEF Restart, Solo
  <2>2. life' # 1
    BY <1>3 DEF Restart, TypeOK
  <2> QED
    BY <2>1, <2>2 DEF Remembered
<1>4. CASE Start
  <2>1. UNCHANGED <<file, queue, delivered, sent, kept, life>>
    BY <1>4 DEF Start
  <2>2. ~Solo' /\ pc' \notin {"dangling", "truncate"} /\ pc # "truncate" /\ in' \in {Nil, 1} /\ in = Nil
    BY <1>4 DEF Start, Solo, Placed
  <2> QED
    BY <2>1, <2>2 DEF Remembered
<1>5. CASE Pop
  <2>1. UNCHANGED <<file, in, delivered, sent, kept, life>> /\ pc' \in {"done", "deliver"} /\ pc = "pop"
    BY <1>5 DEF Pop
  <2>2. queue # <<>> /\ queue' = Tail(queue)
    BY <1>5 DEF Pop
  <2>3. \A k \in DOMAIN queue' : queue'[k] \notin Range(delivered)
    BY <2>2, TailShape, Shapes DEF Remembered
  <2>4. Solo' => msg' = queue[1] /\ 1 \in DOMAIN queue
    BY <1>5, Shapes DEF Pop, Solo, Placed, Returned
  <2> QED
    BY <2>1, <2>3, <2>4 DEF Remembered
<1>6. CASE Delivered
  <2>1. /\ msg \in Messages /\ pc = "deliver"
        /\ UNCHANGED <<file, queue, kept, life>>
        /\ sent' = sent \cup {msg}
    BY <1>6 DEF Delivered, Placed, TypeOK
  <2>2. Range(delivered') = Range(delivered) \cup {msg}
    BY <1>6, <2>1, RangeAppend DEF Delivered, TypeOK
  <2>3. /\ ~Solo' /\ pc' # "dangling"
        /\ \/ in = Nil /\ in' = Nil /\ pc' = "pop"
           \/ in \in 0 .. Len(file) - 1 /\ in' = in + 1 /\ pc' = "deliver"
           \/ in \in 0 .. Len(file) /\ in' = in /\ pc' = "truncate"
    <3>1. /\ in = Nil \/ in \in 0 .. Len(file)
          /\ Len(file) \in Nat /\ Nil \notin Nat
      BY Shapes DEF TypeOK
    <3>2. \/ in = Nil /\ in' = Nil /\ pc' = "pop" /\ msg' = None
          \/ in # Nil /\ in < Len(file) /\ in' = in + 1 /\ pc' = "deliver"
          \/ in # Nil /\ in' = in /\ pc' = "truncate" /\ msg' = None
      BY <1>6 DEF Delivered
    <3> QED
      BY <3>1, <3>2 DEF Solo
  <2>4. Solo \/ (in \in DOMAIN file /\ msg = file[in])
    BY <1>6, Shapes DEF Delivered, Solo, Placed, TypeOK
  <2>5. \A k \in DOMAIN queue : queue[k] # msg
    BY <2>1, <2>4, Shapes DEF Ordered
  <2>6. \A n \in DOMAIN file : in = Nil \/ in < n => file[n] # msg
    <3>1. CASE Solo
      BY <3>1 DEF Ordered
    <3>2. CASE in \in DOMAIN file /\ msg = file[in]
      BY <3>2, Shapes DEF Ordered
    <3> QED
      BY <2>4, <3>1, <3>2
  <2>7. \A n \in DOMAIN file : in # Nil /\ n <= in => file[n] \in Range(delivered')
    BY <2>1, <2>2, <2>3, <2>4, Shapes DEF Remembered, Placed
  <2>8. in' # Nil => \A n \in 1 .. in' - 1 : file[n] \in Range(delivered')
    BY <2>3, <2>7, Shapes
  <2>9. pc' = "truncate" => \A n \in 1 .. in' : file[n] \in Range(delivered')
    BY <2>3, <2>7, Shapes
  <2>10. ~kept => \A n \in DOMAIN file :
           in' = Nil \/ in' < n \/ (in' = n /\ pc' # "truncate") => file[n] \notin sent'
    <3> SUFFICES ASSUME ~kept, NEW n \in DOMAIN file,
                        in' = Nil \/ in' < n \/ (in' = n /\ pc' # "truncate")
                 PROVE  file[n] \notin sent'
      OBVIOUS
    <3>1. n \in Nat
      BY Shapes
    <3>2. in = Nil \/ in < n
      BY <2>3, <3>1, Shapes
    <3> QED
      BY <2>1, <2>6, <3>2 DEF Remembered
  <2> QED
    BY <2>1, <2>2, <2>3, <2>5, <2>8, <2>9, <2>10 DEF Remembered
<1>7. CASE Truncate
  <2>1. /\ ~Solo' /\ pc' = "pop" /\ in' = Nil /\ UNCHANGED <<queue, delivered, sent, life>>
        /\ file' = <<>> \/ (file' = file /\ kept')
    BY <1>7 DEF Truncate, Solo, Placed
  <2> QED
    BY <2>1 DEF Remembered
<1>8. CASE NotDelivered \/ FailedNoBacklog \/ FailedReopen \/ FailedAgain
  <2>1. /\ UNCHANGED <<file, queue, delivered, sent, kept, life, in, msg>>
        /\ pc' \notin {"truncate", "dangling"} /\ pc # "truncate" /\ (Solo' => Solo)
    BY <1>8 DEF NotDelivered, FailedNoBacklog, FailedReopen, FailedAgain, Solo
  <2> QED
    BY <2>1, RememberedUntouched
<1>9. CASE FailedFirst
  <2>1. Solo /\ in = Nil /\ UNCHANGED <<delivered, sent, kept, life>> /\ in' \in {0, Nil}
        /\ pc = "failed" /\ pc' # "truncate"
    BY <1>9 DEF FailedFirst, Solo, Placed
  <2>2. msg \notin Range(delivered) /\ (Solo' \/ pc' = "dangling" => msg' = msg)
    BY <1>9, <2>1 DEF Remembered, FailedFirst, Solo
  <2>3. \A k \in DOMAIN queue' : queue'[k] \notin Range(delivered)
    <3>1. queue' = queue \/ queue' = <<msg>> \o queue
      BY <1>9 DEF FailedFirst
    <3>2. CASE queue' = queue
      BY <3>2 DEF Remembered
    <3>3. CASE queue' = <<msg>> \o queue
      <4>1. /\ DOMAIN queue' = 1 .. Len(queue) + 1
            /\ \A k \in 1 .. Len(queue) : queue'[k + 1] = queue[k]
            /\ queue'[1] = msg
        BY <3>3, ConsShape DEF TypeOK
      <4>2. \A k \in DOMAIN queue' : k = 1 \/ (k - 1 \in DOMAIN queue /\ queue'[k] = queue[k - 1])
        BY <4>1, Shapes
      <4> QED
        BY <2>2, <4>1, <4>2 DEF Remembered
    <3> QED
      BY <3>1, <3>2, <3>3
  <2>4. \A n \in DOMAIN file' : ~kept => file'[n] \notin sent
    <3>1. file' = file \/ file' = Append(file, msg)
      BY <1>9 DEF FailedFirst, Written
    <3>2. \A n \in DOMAIN file' : (n \in DOMAIN file /\ file'[n] = file[n]) \/ file'[n] = msg
      BY <3>1, FileGrows
    <3> QED
      BY <2>1, <2>2, <3>2 DEF Remembered
  <2>5. in' # Nil => 1 .. in' - 1 = {}
    <3>1. 1 .. 0 - 1 = {}
      OBVIOUS
    <3> QED
      BY <2>1, <3>1
  <2> QED
    BY <2>1, <2>2, <2>3, <2>4, <2>5 DEF Remembered
<1>10. CASE WriteBacklog
  <2>1. /\ queue # <<>> /\ UNCHANGED <<delivered, sent, kept, life, in, msg>>
        /\ pc' \notin {"truncate", "dangling"} /\ pc # "truncate" /\ (Solo' => Solo)
    BY <1>10 DEF WriteBacklog, Solo
  <2>2. queue[1] \notin Range(delivered) /\ Head(queue) = queue[1]
    BY <2>1, Shapes DEF Remembered
  <2>3. queue' = queue \/ queue' = Tail(queue)
    BY <1>10 DEF WriteBacklog
  <2>4. \A k \in DOMAIN queue' : queue'[k] \notin Range(delivered)
    <3>1. CASE queue' = queue
      BY <3>1 DEF Remembered
    <3>2. CASE queue' = Tail(queue)
      BY <2>1, <3>2, TailShape, Shapes DEF Remembered
    <3> QED
      BY <2>3, <3>1, <3>2
  <2>5. file' = file \/ file' = Append(file, queue[1])
    BY <1>10, <2>2 DEF WriteBacklog, Written
  <2>6. /\ \A n \in DOMAIN file' : n \in DOMAIN file \/ file'[n] = queue[1]
        /\ \A n \in DOMAIN file : file'[n] = file[n]
    BY <2>5, FileGrows
  <2>7. in # Nil => 1 .. in - 1 \subseteq DOMAIN file
    BY Shapes DEF TypeOK
  <2>8. in # Nil => \A n \in 1 .. in - 1 : file'[n] \in Range(delivered)
    BY <2>6, <2>7 DEF Remembered
  <2> QED
    BY <2>1, <2>2, <2>4, <2>6, <2>8 DEF Remembered
<1>11. CASE BacklogWritten
  <2>1. UNCHANGED <<file, queue, delivered, sent, kept, life>>
    BY <1>11 DEF BacklogWritten
  <2>2. pc' \notin {"truncate", "dangling"} /\ pc # "truncate" /\ (Solo' => Solo /\ msg' = msg)
    BY <1>11 DEF BacklogWritten, Solo, Placed
  <2>3. in' = in \/ (in' \in {1, Nil} /\ in \in {0, Nil})
    BY <1>11 DEF BacklogWritten, Placed
  <2>4. in = 0 => \A n \in DOMAIN file : in < n
    BY Shapes
  <2>5. in \in {0, Nil} /\ ~kept => \A n \in DOMAIN file : file[n] \notin sent
    BY <2>4 DEF Remembered
  <2>6. in' # Nil => \A n \in 1 .. in' - 1 : file[n] \in Range(delivered)
    BY <2>3 DEF Remembered
  <2>7. ~kept => \A n \in DOMAIN file :
          in' = Nil \/ in' < n \/ in' = n => file[n] \notin sent
    BY <2>2, <2>3, <2>5 DEF Remembered
  <2>8. \A k \in DOMAIN queue : queue[k] \notin Range(delivered)
    BY DEF Remembered
  <2>9. /\ sent \subseteq Range(delivered) /\ (life = 1 => Range(delivered) \subseteq sent)
        /\ Solo' \/ pc' = "dangling" => msg' \notin Range(delivered)
    BY <2>2 DEF Remembered
  <2> QED
    BY <2>1, <2>2, <2>6, <2>7, <2>8, <2>9 DEF Remembered
<1> QED
  BY <1>1, <1>2, <1>3, <1>4, <1>5, <1>6, <1>7, <1>8, <1>9, <1>10, <1>11 DEF Next, Run, Failed

(* What is cut off with the file was read and delivered, or is the rest.   *)
LEMMA TruncatedIs ==
  ASSUME TypeOK, Placed, Remembered, pc = "truncate"
  PROVE  /\ in # Nil
         /\ Range(Rest) \subseteq Range(file)
         /\ Range(file) \subseteq Range(delivered) \cup Range(Rest)
<1>1. in # Nil
  BY DEF Placed
<1>2. Range(Rest) \subseteq Range(file)
  BY <1>1, RestIs DEF Range
<1>3. ASSUME NEW n \in DOMAIN file
      PROVE  file[n] \in Range(delivered) \cup Range(Rest)
  <2>1. in \in 0 .. Len(file) /\ n \in 1 .. Len(file) /\ Len(file) \in Nat
    BY <1>1, Shapes DEF TypeOK
  <2>2. n \in 1 .. in \/ in < n
    BY <2>1
  <2>3. n \in 1 .. in => file[n] \in Range(delivered)
    BY DEF Remembered
  <2>4. in < n => file[n] \in Range(Rest)
    BY <1>1, RestIs DEF Range
  <2> QED
    BY <2>2, <2>3, <2>4
<1> QED
  BY <1>1, <1>2, <1>3 DEF Range

(* Every step keeps Caught: the logger goes back to the buffer only when   *)
(* the lines of the backlog are delivered.                                 *)
LEMMA StepCaught ==
  ASSUME TypeOK, Placed, Ordered, Remembered, Remembered', Caught, Next
  PROVE  Caught'
<1> USE LoggerAssumption DEF stream, buffer, history
<1> SUFFICES ASSUME ~behind'
             PROVE  /\ in' = Nil /\ pc' \in {"pop", "deliver", "failed", "done"} =>
                         Range(file') \subseteq Range(delivered')
                    /\ in' = 0 /\ pc' \in {"deliver", "failed", "add"} =>
                         \A n \in DOMAIN file' : file'[n] \in Range(delivered') \/ msg' < file'[n]
  BY DEF Caught
<1>1. CASE Push \/ PushEnd
  BY <1>1 DEF Push, PushEnd, Caught
<1>2. CASE Restart
  BY <1>2 DEF Restart
<1>3. CASE Start
  <2>1. CASE pc' = "pop"
    <3>1. file' = <<>> /\ in' = Nil
      BY <1>3, <2>1 DEF Start, Placed
    <3> QED
      BY <2>1, <3>1 DEF Range
  <2>2. CASE pc' = "deliver"
    BY <1>3, <2>2 DEF Start
  <2>3. CASE pc' = "no_dest"
    BY <2>3
  <2> QED
    BY <1>3, <2>1, <2>2, <2>3 DEF Start
<1>4. CASE Pop
  BY <1>4 DEF Pop, Caught, Placed
<1>5. CASE Delivered
  <2>1. CASE in = Nil
    <3>1. Range(file) \subseteq Range(delivered)
      BY <1>5, <2>1 DEF Delivered, Caught
    <3>2. msg \in Messages
      BY <1>5 DEF Delivered, Placed, TypeOK
    <3>3. Range(delivered') = Range(delivered) \cup {msg}
      BY <1>5, <3>2, RangeAppend DEF Delivered, TypeOK
    <3> QED
      BY <1>5, <2>1, <3>1, <3>3 DEF Delivered
  <2>2. CASE in # Nil /\ in < Len(file) /\ in' = in + 1
    <3>1. in' = in + 1 /\ in \in Nat
      BY <1>5, <2>2, Shapes DEF Delivered, TypeOK
    <3> QED
      BY <3>1
  <2>3. CASE pc' = "truncate"
    BY <2>3
  <2> QED
    BY <1>5, <2>1, <2>2, <2>3 DEF Delivered
<1>6. CASE Truncate
  <2>1. /\ pc' = "pop" /\ delivered' = delivered
        /\ file' = <<>> \/ (file' = file /\ Rest = <<>>)
    BY <1>6 DEF Truncate
  <2>2. Rest = <<>> => Range(file) \subseteq Range(delivered)
    BY <1>6, TruncatedIs DEF Truncate, Range
  <2> QED
    BY <2>1, <2>2 DEF Range
<1>7. CASE NotDelivered \/ FailedNoBacklog \/ FailedReopen \/ FailedAgain
  BY <1>7 DEF NotDelivered, FailedNoBacklog, FailedReopen, FailedAgain, Caught
<1>8. CASE FailedFirst
  <2>1. Range(file) \subseteq Range(delivered)
    BY <1>8 DEF FailedFirst, Caught
  <2>2. \/ pc' = "deliver" /\ UNCHANGED <<file, delivered>>
        \/ pc' \in {"dangling", "create"}
    BY <1>8 DEF FailedFirst
  <2> QED
    BY <2>1, <2>2 DEF Range
<1>9. CASE WriteBacklog
  <2>1. CASE pc = "add" /\ pc' = "add" /\ in = 0
    <3>1. in' = in /\ in' # Nil /\ msg' = msg /\ delivered' = delivered /\ queue # <<>>
      BY <1>9, <2>1 DEF WriteBacklog
    <3>2. file' = file \/ (queue[1] # End /\ file' = Append(file, queue[1]))
      BY <1>9, <2>1, Shapes DEF WriteBacklog, Written
    <3>3. queue[1] # End => msg < queue[1]
      BY <2>1, <3>1, Shapes DEF Ordered, Placed, Solo
    <3>4. \A n \in DOMAIN file' : file'[n] \in Range(delivered) \/ msg < file'[n]
      <4>1. \A n \in DOMAIN file : file[n] \in Range(delivered) \/ msg < file[n]
        BY <1>9, <2>1 DEF WriteBacklog, Caught
      <4> QED
        BY <3>2, <3>3, <4>1, FileGrows
    <3> QED
      BY <3>1, <3>4
  <2>2. CASE pc' \in {"create", "double_close"} \/ (pc' = "add" /\ in' # 0 /\ in' # Nil)
    BY <2>2
  <2> QED
    BY <1>9, <2>1, <2>2 DEF WriteBacklog, Placed
<1>10. CASE BacklogWritten
  BY <1>10 DEF BacklogWritten, Caught, Placed
<1> QED
  BY <1>1, <1>2, <1>3, <1>4, <1>5, <1>6, <1>7, <1>8, <1>9, <1>10 DEF Next, Run, Failed

(* Every step leaves each message delivered, in the file, in memory, or    *)
(* among those known to be lost.                                           *)
LEMMA StepAccounted ==
  ASSUME TypeOK, Placed, Ordered, Remembered, Accounted, Next
  PROVE  Accounted'
<1> USE LoggerAssumption DEF stream, buffer, history
<1> SUFFICES ASSUME NEW m \in Messages'
             PROVE  m \in Range(delivered') \cup Range(file') \cup Range(queue') \cup {msg'}
                             \cup forgotten' \cup dropped'
  BY DEF Accounted
<1>1. CASE Push
  <2>1. Range(queue') = Range(queue) \cup {obtained + 1}
    <3>1. obtained + 1 \in Nat \cup {End} /\ queue \in Seq(Nat \cup {End})
      BY Shapes, SeqMonotonic DEF TypeOK
    <3> QED
      BY <1>1, <3>1, RangeAppend DEF Push
  <2>2. m \in Messages \/ m = obtained + 1
    BY <1>1, Shapes DEF Push, Messages
  <2> QED
    BY <1>1, <2>1, <2>2 DEF Push, Accounted
<1> DEFINE Held == Range(delivered) \cup Range(file) \cup Range(queue) \cup {msg}
                     \cup forgotten \cup dropped
<1>2. m \in Messages /\ ~Push => m \in Held
  BY DEF Accounted
<1>3. ~Push => obtained' = obtained
  BY DEF Next, PushEnd, Restart, Run, Start, Pop, Delivered, Truncate, Failed, NotDelivered,
     FailedNoBacklog, FailedReopen, FailedAgain, FailedFirst, WriteBacklog, BacklogWritten
<1>4. ~Push => m \in Held /\ m # End /\ m # None
  BY <1>2, <1>3, Shapes DEF Messages
<1> SUFFICES ASSUME m \in Held, m # End, m # None
             PROVE  m \in Held' \/ Push
  BY <1>1, <1>4
<1>5. CASE PushEnd
  <2>1. Range(queue') = Range(queue) \cup {End}
    <3>1. queue \in Seq(Messages \cup {End}) /\ queue' = Append(queue, End)
      BY <1>5 DEF PushEnd, TypeOK
    <3> QED
      BY <3>1, RangeAppend
  <2> QED
    BY <1>5, <2>1 DEF PushEnd
<1>6. CASE Restart
  BY <1>6 DEF Restart
<1>7. CASE Start
  BY <1>7 DEF Start, Placed
<1>8. CASE Pop
  <2>1. Range(queue) = {Head(queue)} \cup Range(queue')
    BY <1>8, RangeTail DEF Pop, TypeOK
  <2> QED
    BY <1>8, <2>1 DEF Pop, Placed
<1>9. CASE Delivered
  <2>1. Range(delivered') = Range(delivered) \cup {msg}
    BY <1>9, RangeAppend DEF Delivered, Placed, TypeOK
  <2>2. UNCHANGED <<file, queue, forgotten, dropped>>
    BY <1>9 DEF Delivered
  <2> QED
    BY <2>1, <2>2
<1>10. CASE Truncate
  <2>1. Range(file) \subseteq Range(delivered) \cup Range(Rest)
    BY <1>10, TruncatedIs DEF Truncate
  <2> QED
    BY <1>10, <2>1 DEF Truncate
<1>11. CASE NotDelivered \/ FailedNoBacklog \/ FailedReopen \/ FailedAgain
  BY <1>11 DEF NotDelivered, FailedNoBacklog, FailedReopen, FailedAgain
<1>12. CASE FailedFirst
  <2>1. Range(queue) \subseteq Range(queue')
    <3>1. msg \in Messages \cup {End} /\ queue \in Seq(Messages \cup {End})
      BY <1>12 DEF FailedFirst, Placed, TypeOK
    <3>2. Range(<<msg>> \o queue) = Range(queue) \cup {msg}
      BY <3>1, RangeCons
    <3>3. queue' = queue \/ queue' = <<msg>> \o queue
      BY <1>12 DEF FailedFirst
    <3> QED
      BY <3>2, <3>3
  <2>2. Range(file') = Range(file) \/ Range(file') = Range(file) \cup {msg}
    <3>1. msg \in Messages /\ file \in Seq(Messages)
      BY <1>12 DEF FailedFirst, Placed, TypeOK
    <3>2. file' = file \/ file' = Append(file, msg)
      BY <1>12 DEF FailedFirst, Written
    <3>3. Range(Append(file, msg)) = Range(file) \cup {msg}
      BY <3>1, RangeAppend
    <3> QED
      BY <3>2, <3>3
  <2>3. msg' = msg \/ file' = Append(file, msg) \/ dropped' = dropped \cup {msg}
    BY <1>12 DEF FailedFirst, Written
  <2>4. file' = Append(file, msg) => msg \in Range(file')
    BY <1>12, RangeAppend DEF FailedFirst, Placed, TypeOK
  <2>5. dropped \subseteq dropped' /\ UNCHANGED <<delivered, forgotten>>
    BY <1>12 DEF FailedFirst, Written
  <2> QED
    BY <2>1, <2>2, <2>3, <2>4, <2>5
<1>13. CASE WriteBacklog
  <2>1. queue # <<>> /\ Range(queue) = {Head(queue)} \cup Range(Tail(queue))
    BY <1>13, RangeTail DEF WriteBacklog, TypeOK
  <2>2. queue' = queue \/ queue' = Tail(queue)
    BY <1>13 DEF WriteBacklog
  <2>3. Head(queue) # End =>
          Head(queue) \in Messages /\ Range(Append(file, Head(queue))) = Range(file) \cup {Head(queue)}
    BY <2>1, Shapes, RangeAppend DEF TypeOK
  <2>4. \/ UNCHANGED <<file, queue>>
        \/ Head(queue) = End /\ file' = file
        \/ Head(queue) # End /\ file' = Append(file, Head(queue))
        \/ Head(queue) \in dropped' /\ file' = file
    BY <1>13 DEF WriteBacklog, Written
  <2>5. dropped \subseteq dropped' /\ UNCHANGED <<msg, delivered, forgotten>>
    BY <1>13 DEF WriteBacklog, Written
  <2> QED
    BY <2>1, <2>2, <2>3, <2>4, <2>5
<1>14. CASE BacklogWritten
  BY <1>14 DEF BacklogWritten, Placed
<1> QED
  BY <1>5, <1>6, <1>7, <1>8, <1>9, <1>10, <1>11, <1>12, <1>13, <1>14 DEF Next, Run, Failed

(* The invariant holds when the process is first started. *)
LEMMA InitIInv ==
  ASSUME Init
  PROVE  IInv
<1> USE LoggerAssumption DEF Init
<1>1. TypeOK
  <2>1. <<>> \in Seq(Messages) /\ <<>> \in Seq(Messages \cup {End}) /\ Len(<<>>) = 0
    OBVIOUS
  <2>2. file \in Seq(Messages) /\ delivered \in Seq(Messages) /\ queue \in Seq(Messages \cup {End})
    BY <2>1
  <2>3. left \in 0 .. Len(queue)
    BY <2>1
  <2>4. obtained \in 0 .. MaxMsgs /\ life \in 1 .. MaxLives
    OBVIOUS
  <2>5. pc \in {"start", "pop", "deliver", "failed", "truncate", "add", "create"} \cup Stopped
    OBVIOUS
  <2> QED
    BY <2>2, <2>3, <2>4, <2>5 DEF TypeOK
<1>2. Range(<<>>) = {} /\ DOMAIN <<>> = {}
  BY DEF Range
<1>3. Placed
  BY DEF Placed, Returned
<1>4. Ordered /\ Remembered
  BY <1>2 DEF Ordered, Remembered, Solo
<1>5. Caught
  BY DEF Caught
<1>6. Accounted
  BY DEF Accounted, Messages
<1> QED
  BY <1>1, <1>3, <1>4, <1>5, <1>6 DEF IInv

(* The invariant is inductive. *)
LEMMA StepIInv ==
  ASSUME IInv, [Next]_vars
  PROVE  IInv'
<1>1. CASE Next
  <2> USE <1>1 DEF IInv
  <2>1. TypeOK' /\ Placed' /\ Ordered' /\ Remembered'
    BY StepTypes, StepPlaced, StepOrdered, StepRemembered
  <2> QED
    BY <2>1, StepCaught, StepAccounted
<1>2. CASE UNCHANGED vars
  <2> USE <1>2 DEF vars, stream, buffer, history, IInv
  <2>1. TypeOK'
    BY DEF TypeOK, Messages
  <2>2. Placed'
    BY DEF Placed
  <2>3. Solo' = Solo
    BY DEF Solo
  <2>4. Ordered' /\ Remembered'
    BY <2>3 DEF Ordered, Remembered
  <2>5. Caught' /\ Accounted'
    BY DEF Caught, Accounted, Messages
  <2> QED
    BY <2>1, <2>2, <2>4, <2>5
<1> QED
  BY <1>1, <1>2

(* The message in hand is alone, or a line of the file. *)
LEMMA InHandIs ==
  ASSUME TypeOK, Placed
  PROVE  \/ msg = None \/ pc = "dangling" \/ Solo
         \/ in \in DOMAIN file /\ msg = file[in]
<1>1. in \in {0, Nil} \/ in \in 1 .. Len(file)
  <2>1. Len(file) \in Nat
    BY Shapes
  <2>2. in = Nil \/ in \in 0 .. Len(file)
    BY DEF TypeOK
  <2> QED
    BY <2>1, <2>2
<1>2. CASE in \in {0, Nil}
  BY <1>2 DEF Solo
<1>3. CASE in \in 1 .. Len(file)
  <2>1. in # Nil /\ in # 0 /\ in \in DOMAIN file
    BY <1>3, Shapes, LoggerAssumption
  <2>2. pc = "truncate" => msg = None
    BY DEF Placed
  <2> QED
    BY <2>1, <2>2 DEF Placed
<1> QED
  BY <1>1, <1>2, <1>3

(* Pending, part by part. *)
LEMMA Parts ==
  ASSUME TypeOK, Placed, Ordered
  PROVE  /\ InHand \in Seq(Messages)
         /\ \A i \in DOMAIN InHand : InHand[i] = msg /\ i = 1 /\ msg # None /\ pc # "dangling"
         /\ msg # None /\ pc # "dangling" => 1 \in DOMAIN InHand
<1>1. msg # None => msg \in Messages
  BY DEF TypeOK
<1>2. CASE msg = None \/ pc = "dangling"
  BY <1>2, EmptySeq DEF InHand
<1>3. CASE msg # None /\ pc # "dangling"
  <2>1. InHand = <<msg>> /\ DOMAIN <<msg>> = {1} /\ <<msg>>[1] = msg
    BY <1>3 DEF InHand
  <2> QED
    BY <1>1, <1>3, <2>1
<1> QED
  BY <1>2, <1>3

(* What the logger has not read of the file, line by line. *)
LEMMA UnreadIs ==
  ASSUME TypeOK
  PROVE  /\ Unread \in Seq(Messages)
         /\ \A i \in DOMAIN Unread : \E n \in DOMAIN file :
              Unread[i] = file[n] /\ (in = Nil => n = i) /\ (in # Nil => n = in + i)
         /\ \A n \in DOMAIN file : in = Nil \/ in < n =>
              \E i \in DOMAIN Unread : Unread[i] = file[n]
<1>1. CASE in # Nil
  <2>1. Unread = Rest
    BY <1>1 DEF Unread
  <2> HIDE DEF Messages
  <2> QED
    BY <1>1, <2>1, RestIs
<1>2. CASE in = Nil
  BY <1>2 DEF Unread, TypeOK
<1> QED
  BY <1>1, <1>2

(* The queue without its end marker, entry by entry. *)
LEMMA QueuedIs ==
  ASSUME TypeOK, Ordered
  PROVE  /\ Queued \in Seq(Messages)
         /\ \A k \in DOMAIN Queued : k \in DOMAIN queue /\ Queued[k] = queue[k] /\ queue[k] # End
         /\ \A k \in DOMAIN queue : queue[k] # End => k \in DOMAIN Queued
<1>1. CASE End \notin Range(queue)
  <2>1. \A k \in 1 .. Len(queue) : queue[k] \in Messages
    BY <1>1, Shapes DEF Range
  <2>2. queue \in Seq(Messages)
    BY <2>1 DEF TypeOK
  <2> QED
    BY <1>1, <2>2 DEF Queued, Range
<1>2. CASE End \in Range(queue)
  <2>1. /\ Len(queue) \in Nat \ {0} /\ queue[Len(queue)] = End
        /\ \A k \in 1 .. Len(queue) - 1 : queue[k] \in Messages
    BY <1>2, Shapes DEF Range, Ordered
  <2>2. Queued = SubSeq(queue, 1, Len(queue) - 1)
    BY <1>2 DEF Queued, Front
  <2>3. /\ Queued \in Seq(Messages) /\ Len(Queued) = Len(queue) - 1
        /\ \A k \in 1 .. Len(queue) - 1 : Queued[k] = queue[k]
    <3> DEFINE N == Len(queue) - 1
    <3>1. N \in Nat /\ \A k \in 1 .. N : queue[k] \in Messages
      BY <2>1
    <3> HIDE DEF N
    <3>2. /\ SubSeq(queue, 1, N) \in Seq(Messages)
          /\ Len(SubSeq(queue, 1, N)) = N
          /\ \A k \in 1 .. N : SubSeq(queue, 1, N)[k] = queue[k]
      BY <3>1, SubSeqProperties
    <3> QED
      BY <2>2, <3>2 DEF N
  <2>4. DOMAIN Queued = 1 .. Len(queue) - 1
    BY <2>3
  <2>5. \A k \in DOMAIN queue : queue[k] # End => k \in 1 .. Len(queue) - 1
    BY <2>1, Shapes
  <2> QED
    BY <2>1, <2>3, <2>4, <2>5, Shapes
<1> QED
  BY <1>1, <1>2

(* Two sequences in order, the second after the first, are one in order. *)
LEMMA InOrder ==
  ASSUME NEW S, NEW s \in Seq(S), NEW t \in Seq(S), NEW O,
         \A i, j \in DOMAIN s : i < j /\ {s[i], s[j]} \subseteq O => s[i] < s[j],
         \A i, j \in DOMAIN t : i < j /\ {t[i], t[j]} \subseteq O => t[i] < t[j],
         \A i \in DOMAIN s, j \in DOMAIN t : {s[i], t[j]} \subseteq O => s[i] < t[j]
  PROVE  \A i, j \in DOMAIN (s \o t) :
           i < j /\ {(s \o t)[i], (s \o t)[j]} \subseteq O => (s \o t)[i] < (s \o t)[j]
<1> DEFINE u == s \o t
<1>1. /\ Len(s) \in Nat /\ Len(t) \in Nat /\ DOMAIN s = 1 .. Len(s) /\ DOMAIN t = 1 .. Len(t)
      /\ DOMAIN u = 1 .. Len(s) + Len(t)
      /\ \A i \in DOMAIN u : u[i] = IF i <= Len(s) THEN s[i] ELSE t[i - Len(s)]
  OBVIOUS
<1> HIDE DEF u
<1>2. \A i \in DOMAIN u : \/ i \in DOMAIN s /\ u[i] = s[i] /\ i <= Len(s)
                          \/ i - Len(s) \in DOMAIN t /\ u[i] = t[i - Len(s)] /\ i > Len(s)
  BY <1>1
<1> SUFFICES ASSUME NEW i \in DOMAIN u, NEW j \in DOMAIN u, i < j, {u[i], u[j]} \subseteq O
             PROVE  u[i] < u[j]
  BY DEF u
<1>3. i \in Nat /\ j \in Nat
  BY <1>1
<1>4. CASE i <= Len(s) /\ j <= Len(s)
  BY <1>1, <1>2, <1>3, <1>4
<1>5. CASE i <= Len(s) /\ j > Len(s)
  BY <1>1, <1>2, <1>3, <1>5
<1>6. CASE i > Len(s) /\ j > Len(s)
  <2>1. i - Len(s) \in DOMAIN t /\ j - Len(s) \in DOMAIN t /\ i - Len(s) < j - Len(s)
    BY <1>1, <1>2, <1>3, <1>6
  <2> QED
    BY <1>1, <1>2, <1>3, <1>6, <2>1
<1> QED
  BY <1>1, <1>3, <1>4, <1>5, <1>6

(* The messages pending are those of its three parts. *)
LEMMA PendingRange ==
  ASSUME TypeOK, Placed, Ordered
  PROVE  Range(Pending) = Range(InHand) \cup Range(Unread) \cup Range(Queued)
<1>1. InHand \in Seq(Messages) /\ Unread \in Seq(Messages) /\ Queued \in Seq(Messages)
  BY Parts, UnreadIs, QueuedIs
<1> HIDE DEF Messages
<1>2. InHand \o Unread \in Seq(Messages)
  BY <1>1, ConcatProperties
<1>3. Range(InHand \o Unread) = Range(InHand) \cup Range(Unread)
  BY <1>1, RangeConcatenation
<1>4. Range((InHand \o Unread) \o Queued) = Range(InHand \o Unread) \cup Range(Queued)
  <2>1. ASSUME NEW s \in Seq(Messages), NEW t \in Seq(Messages)
        PROVE  Range(s \o t) = Range(s) \cup Range(t)
    BY RangeConcatenation
  <2> QED
    BY <1>1, <1>2, <2>1
<1>5. Pending = (InHand \o Unread) \o Queued
  BY DEF Pending
<1> QED
  BY <1>3, <1>4, <1>5

(* The invariant puts what is pending in order. *)
LEMMA ImpliesPendingInOrder ==
  ASSUME IInv
  PROVE  PendingInOrder
<1> SUFFICES ASSUME pc \notin Stopped, ~behind
             PROVE  \A i, j \in DOMAIN Pending :
                      i < j /\ {Pending[i], Pending[j]} \subseteq Owed => Pending[i] < Pending[j]
  BY DEF PendingInOrder
<1> USE LoggerAssumption DEF IInv
<1>1. InHand \in Seq(Messages) /\ Unread \in Seq(Messages) /\ Queued \in Seq(Messages)
  BY Parts, UnreadIs, QueuedIs
<1>2. \A i, j \in DOMAIN InHand : ~(i < j)
  BY Parts
<1>3. \A i, j \in DOMAIN Unread : i < j => Unread[i] < Unread[j]
  <2>1. DOMAIN Unread \subseteq Nat
    BY <1>1
  <2> SUFFICES ASSUME NEW i \in DOMAIN Unread, NEW j \in DOMAIN Unread, i < j
               PROVE  Unread[i] < Unread[j]
    OBVIOUS
  <2>2. PICK n \in DOMAIN file :
          Unread[i] = file[n] /\ (in = Nil => n = i) /\ (in # Nil => n = in + i)
    BY UnreadIs
  <2>3. PICK o \in DOMAIN file :
          Unread[j] = file[o] /\ (in = Nil => o = j) /\ (in # Nil => o = in + j)
    BY UnreadIs
  <2>4. n < o
    BY <2>1, <2>2, <2>3 DEF TypeOK
  <2> QED
    BY <2>2, <2>3, <2>4 DEF Ordered
<1>4. \A i, j \in DOMAIN Queued : i < j => Queued[i] < Queued[j]
  BY QueuedIs DEF Ordered
<1>5. \A i \in DOMAIN Unread, j \in DOMAIN Queued : Unread[i] < Queued[j]
  BY UnreadIs, QueuedIs DEF Ordered
<1>6. \A i \in DOMAIN InHand, j \in DOMAIN Queued : InHand[i] < Queued[j]
  <2>1. \/ msg = None \/ pc = "dangling" \/ Solo
        \/ in \in DOMAIN file /\ msg = file[in]
    BY InHandIs
  <2> QED
    BY <2>1, Parts, QueuedIs DEF Ordered
<1>7. \A i \in DOMAIN InHand, j \in DOMAIN Unread :
        {InHand[i], Unread[j]} \subseteq Owed => InHand[i] < Unread[j]
  <2> SUFFICES ASSUME NEW i \in DOMAIN InHand, NEW j \in DOMAIN Unread, Unread[j] \in Owed
               PROVE  msg < Unread[j]
    BY Parts
  <2>1. Unread[j] \notin Range(delivered)
    BY DEF Owed
  <2>2. PICK n \in DOMAIN file : Unread[j] = file[n] /\ (in # Nil => n = in + j)
    BY UnreadIs
  <2>3. j \in Nat \ {0}
    BY <1>1
  <2>4. msg # None /\ pc \in {"deliver", "failed", "add"}
    BY Parts DEF Placed, Stopped, Returned, Broken, TypeOK
  <2>5. CASE in # Nil /\ in # 0
    <3>1. in \in DOMAIN file /\ msg = file[in]
      BY <2>4, <2>5, InHandIs DEF Solo
    <3>2. n = in + j /\ in \in Nat
      BY <2>2, <2>5 DEF TypeOK
    <3>3. in < n
      BY <2>3, <3>2
    <3> QED
      BY <2>2, <3>1, <3>3 DEF Ordered
  <2>6. CASE in = 0
    BY <2>1, <2>2, <2>4, <2>6 DEF Caught
  <2>7. CASE in = Nil
    BY <2>1, <2>2, <2>4, <2>7 DEF Caught, Placed, Range
  <2> QED
    BY <2>5, <2>6, <2>7
<1> HIDE DEF IInv
<1> DEFINE front == InHand \o Unread
<1>8. front \in Seq(Messages)
  BY <1>1
<1>9. \A i, j \in DOMAIN front : i < j /\ {front[i], front[j]} \subseteq Owed => front[i] < front[j]
  BY <1>1, <1>2, <1>3, <1>7, InOrder
<1>10. \A i \in DOMAIN front, j \in DOMAIN Queued : front[i] < Queued[j]
  <2>1. \A i \in DOMAIN front : \/ i \in DOMAIN InHand /\ front[i] = InHand[i]
                                \/ i - Len(InHand) \in DOMAIN Unread
                                   /\ front[i] = Unread[i - Len(InHand)]
    BY <1>1
  <2> QED
    BY <1>5, <1>6, <2>1
<1> HIDE DEF front
<1>11. \A i, j \in DOMAIN (front \o Queued) :
         i < j /\ {(front \o Queued)[i], (front \o Queued)[j]} \subseteq Owed
           => (front \o Queued)[i] < (front \o Queued)[j]
  BY <1>1, <1>4, <1>8, <1>9, <1>10, InOrder
<1>12. Pending = front \o Queued
  BY DEF Pending, front
<1> QED
  BY <1>11, <1>12

(* By the invariant what is pending was not delivered in this life. *)
LEMMA ImpliesNoRepeats ==
  ASSUME IInv
  PROVE  NoRepeats
<1> USE LoggerAssumption DEF IInv
<1> SUFFICES ASSUME pc \notin Stopped, ~kept
             PROVE  \A m \in Range(Pending) : m \notin sent
  BY DEF NoRepeats, Range
<1>1. \A m \in Range(InHand) : m \notin sent
  <2>1. \/ msg = None \/ pc = "dangling" \/ Solo
        \/ in \in DOMAIN file /\ msg = file[in]
    BY InHandIs
  <2>2. msg # None /\ pc # "dangling" => msg \notin sent
    BY <2>1, Shapes DEF Remembered, Placed, TypeOK
  <2> QED
    BY <2>2, Parts DEF Range
<1>2. \A m \in Range(Unread) : m \notin sent
  <2> SUFFICES ASSUME NEW i \in DOMAIN Unread
               PROVE  Unread[i] \notin sent
    BY DEF Range
  <2>1. i \in Nat \ {0}
    BY UnreadIs
  <2>2. PICK n \in DOMAIN file : Unread[i] = file[n] /\ (in # Nil => n = in + i)
    BY UnreadIs
  <2>3. in # Nil => in < n
    BY <2>1, <2>2 DEF TypeOK
  <2> QED
    BY <2>2, <2>3 DEF Remembered
<1>3. \A m \in Range(Queued) : m \notin sent
  BY QueuedIs DEF Range, Remembered
<1> QED
  BY <1>1, <1>2, <1>3, PendingRange

(* By the invariant everything is safe when the logger stops. *)
LEMMA ImpliesEndMeansSafe ==
  ASSUME IInv
  PROVE  EndMeansSafe
<1>1. pc \in {"done", "double_close"} => Range(queue) = {}
  BY DEF IInv, Placed, Range
<1>2. pc = "done" => msg = None /\ (behind \/ Range(file) \subseteq Range(delivered))
  BY DEF IInv, Placed, Returned, Caught
<1>3. \A m \in Messages : m # None
  BY Shapes DEF IInv
<1> QED
  BY <1>1, <1>2, <1>3 DEF IInv, Accounted, EndMeansSafe

(* The inductive invariant holds in every behaviour of the logger, over    *)
(* all lives of the process.                                               *)
THEOREM Inductive == Spec => []IInv
BY InitIInv, StepIInv, PTL DEF Spec

(* The variables of logger_run keep their types: the stream is read within *)
(* the file, logger_write_backlog takes no more than the buffer holds.     *)
THEOREM TypeCorrect == Spec => []TypeOK
<1>1. IInv => TypeOK
  BY DEF IInv
<1> QED
  BY <1>1, Inductive, PTL

(* logger_run and logger_write_backlog lose a message in three ways only,  *)
(* and each is recorded: it was in memory alone when the process died, an  *)
(* fflush failed unnoticed, or a getline that failed was taken for the end *)
(* of the backlog. Every other one is delivered, in the file, or in the    *)
(* memory of a logger that has not broken off.                             *)
THEOREM LosesNothing == Spec => []NothingLost
<1>1. IInv => NothingLost
  BY DEF IInv, Accounted, NothingLost
<1> QED
  BY <1>1, Inductive, PTL

(* Within a life no message still to be delivered was delivered before,    *)
(* whatever calls on the backlog fail, unless it is the truncate.          *)
THEOREM NeverRepeats == Spec => []NoRepeats
BY ImpliesNoRepeats, Inductive, PTL

(* The logger delivers what it has not delivered in the order the messages *)
(* were obtained, whatever calls on the backlog fail, until it leaves      *)
(* lines of the file for later: the old backlog was not opened, or one was *)
(* given up and could not be truncated.                                    *)
THEOREM KeepsOrder == Spec => []PendingInOrder
BY ImpliesPendingInOrder, Inductive, PTL

(* A logger that stops at the end marker has delivered everything that is  *)
(* not recorded as lost in one of the three ways, or has it in a file it   *)
(* left behind; one that stops in logger_write_backlog has it in the file. *)
THEOREM EndsSafely == Spec => []EndMeansSafe
BY ImpliesEndMeansSafe, Inductive, PTL
-----------------------------------------------------------------------------
(* The message in hand, and everything the logger holds. *)
Hand  == IF pc = "dangling" THEN {} ELSE {msg}
Holds == (Range(file) \cup Range(queue) \cup Hand) \ {End, None}

(* What is owed is what the logger holds and has not delivered: the lines  *)
(* of the file that were read are delivered, or in hand.                   *)
LEMMA OwedIs ==
  ASSUME TypeOK, Placed, Ordered, Remembered
  PROVE  /\ Owed = Holds \ Range(delivered)
         /\ Range(file) \cap Owed = Range(file) \ Range(delivered)
<1> USE LoggerAssumption
<1>1. Range(InHand) = Hand \ {None}
  <2>1. CASE msg = None \/ pc = "dangling"
    BY <2>1 DEF InHand, Hand, Range
  <2>2. CASE msg # None /\ pc # "dangling"
    <3>1. InHand = <<msg>> /\ DOMAIN <<msg>> = {1} /\ <<msg>>[1] = msg
      BY <2>2 DEF InHand
    <3>2. Range(InHand) = {msg}
      BY <3>1 DEF Range
    <3> QED
      BY <2>2, <3>2 DEF Hand
  <2> QED
    BY <2>1, <2>2
<1>2. Range(Queued) = Range(queue) \ {End}
  BY QueuedIs DEF Range
<1>3. Range(Unread) \subseteq Range(file)
  BY UnreadIs DEF Range
<1>4. ASSUME NEW n \in DOMAIN file
      PROVE  file[n] \in Range(Unread) \cup Range(delivered) \cup Range(InHand)
  <2>1. CASE in = Nil
    BY <2>1, UnreadIs DEF Range
  <2>2. CASE pc = "truncate"
    <3>1. Unread = Rest /\ file[n] \in Range(file)
      BY <2>2, TruncatedIs DEF Unread, Range
    <3> QED
      BY <2>2, <3>1, TruncatedIs
  <2>3. CASE in # Nil /\ in < n
    BY <2>3, UnreadIs DEF Range
  <2>4. CASE in # Nil /\ ~(in < n) /\ pc # "truncate"
    <3>1. in \in 0 .. Len(file) /\ n \in 1 .. Len(file) /\ Len(file) \in Nat
      BY <2>4, Shapes DEF TypeOK
    <3>2. n = in \/ n \in 1 .. in - 1
      BY <2>4, <3>1
    <3>3. n \in 1 .. in - 1 => file[n] \in Range(delivered)
      BY <2>4 DEF Remembered
    <3>4. n = in => msg = file[n] /\ pc # "dangling" /\ msg # None
      BY <2>4, <3>1, Shapes DEF Placed
    <3> QED
      BY <1>1, <3>2, <3>3, <3>4 DEF Hand
  <2> QED
    BY <2>1, <2>2, <2>3, <2>4
<1>5. Range(file) \subseteq Range(Unread) \cup Range(delivered) \cup Range(InHand)
  BY <1>4 DEF Range
<1>6. /\ Range(file) \subseteq Messages /\ Range(queue) \subseteq Messages \cup {End}
      /\ Hand \subseteq Messages \cup {None}
  BY RangeOfSeq DEF TypeOK, Hand
<1>7. End \notin Messages /\ None \notin Messages
  BY Shapes
<1>8. Owed = (Range(InHand) \cup Range(Unread) \cup Range(Queued)) \ Range(delivered)
  BY PendingRange DEF Owed
<1>9. Owed = Holds \ Range(delivered)
  BY <1>1, <1>2, <1>3, <1>5, <1>6, <1>7, <1>8 DEF Holds
<1> QED
  BY <1>6, <1>7, <1>9 DEF Holds

(* The same from the invariant. *)
LEMMA OwedHere ==
  IInv => /\ Owed = Holds \ Range(delivered)
          /\ Range(file) \cap Owed = Range(file) \ Range(delivered)
BY OwedIs DEF IInv

(* The same after the step. *)
LEMMA OwedThere ==
  (IInv => /\ Owed = Holds \ Range(delivered)
           /\ Range(file) \cap Owed = Range(file) \ Range(delivered))'
BY OwedHere, PTL

(* The two together. *)
LEMMA OwedAfter ==
  ASSUME IInv, IInv'
  PROVE  /\ Owed = Holds \ Range(delivered)
         /\ Range(file) \cap Owed = Range(file) \ Range(delivered)
         /\ Owed' = Holds' \ Range(delivered')
         /\ Range(file') \cap Owed' = Range(file') \ Range(delivered')
BY OwedHere, OwedThere

(* What is delivered is the oldest message that is owed, unless lines were *)
(* left behind.                                                            *)
LEMMA Oldest ==
  ASSUME IInv, ~behind, pc = "deliver", NEW o \in Owed
  PROVE  msg <= o
<1> USE DEF IInv
<1>1. /\ msg \in Nat /\ msg # None
  BY Shapes DEF Placed, TypeOK
<1>2. o \in Holds /\ o \notin Range(delivered)
  BY OwedIs
<1>3. CASE o = msg
  BY <1>1, <1>3
<1>4. Solo \/ (in \in DOMAIN file /\ msg = file[in])
  BY <1>1, InHandIs
<1>5. CASE o \in Range(queue)
  <2>1. PICK k \in DOMAIN queue : o = queue[k] /\ queue[k] # End
    BY <1>2, <1>5 DEF Range, Holds
  <2>2. o \in Nat
    BY <2>1, Shapes
  <2> QED
    BY <1>1, <1>4, <2>1, <2>2 DEF Ordered
<1>6. CASE o \in Range(file)
  <2>1. PICK n \in DOMAIN file : o = file[n]
    BY <1>6 DEF Range
  <2>2. o \in Nat /\ n \in 1 .. Len(file) /\ Len(file) \in Nat
    BY <2>1, Shapes
  <2>3. CASE in = Nil
    BY <1>2, <1>6, <2>3 DEF Caught
  <2>4. CASE in = 0
    BY <1>1, <1>2, <2>1, <2>2, <2>4 DEF Caught
  <2>5. CASE in # Nil /\ in # 0
    <3>1. in \in 1 .. Len(file) /\ msg = file[in]
      BY <2>2, <2>5 DEF TypeOK, Placed
    <3>2. n \notin 1 .. in - 1
      BY <1>2, <2>1, <2>5 DEF Remembered
    <3>3. n = in \/ in < n
      BY <2>2, <3>1, <3>2
    <3> QED
      BY <1>1, <2>1, <2>2, <3>1, <3>3, Shapes DEF Ordered
  <2> QED
    BY <2>3, <2>4, <2>5
<1> QED
  BY <1>2, <1>3, <1>5, <1>6 DEF Holds, Hand

(* A step the relay does not see. *)
LEMMA Unseen ==
  ASSUME IInv, IInv', UNCHANGED <<obtained, delivered, dropped, kept, behind, life>>,
         Range(file') \ Range(delivered) = Range(file) \ Range(delivered),
         Holds' \ Range(delivered) = Holds \ Range(delivered)
  PROVE  UNCHANGED Relay!relayVars
BY OwedAfter DEF Relay!relayVars

(* A message goes into the file. *)
LEMMA Saves ==
  ASSUME IInv, IInv', UNCHANGED <<obtained, delivered, dropped, kept, behind, life>>,
         NEW m \in Owed, m \notin Range(file),
         Range(file') = Range(file) \cup {m}, Holds' \ Range(delivered) = Owed
  PROVE  Relay!Save
BY OwedAfter DEF Relay!Save

(* A message taken from memory and not written. *)
LEMMA Loses ==
  ASSUME IInv, IInv', UNCHANGED <<obtained, delivered, kept, behind, life>>,
         NEW m \in Owed, m \notin Range(file),
         "fflush" \in Faults, dropped' = dropped \cup {m},
         file' = file, Holds' \ Range(delivered) = Owed \ {m}
  PROVE  Relay!Lose
<1>1. /\ Owed' = Owed \ {m}
      /\ (Range(file) \cap Owed)' = (Range(file) \cap Owed) \ {m}
      /\ {m} \in SUBSET Owed /\ {m} \cap (Range(file) \cap Owed) = {}
      /\ (life > 1 \/ kept)' = (life > 1 \/ kept)
  BY OwedAfter
<1> HIDE DEF IInv
<1> QED
  BY <1>1 DEF Relay!Lose

(* A delivery is of the oldest message owed, or repeats one after a crash  *)
(* or a truncate that failed.                                              *)
LEMMA RelayDelivered ==
  ASSUME IInv, IInv', Delivered
  PROVE  [Relay!Next]_(Relay!relayVars)
<1> USE LoggerAssumption DEF IInv
<1>1. /\ msg \in Messages /\ msg # None /\ msg # End /\ pc = "deliver"
      /\ UNCHANGED <<file, queue, obtained, dropped, kept, behind, life>>
      /\ delivered' = Append(delivered, msg)
  <2>1. pc = "deliver" /\ delivered' = Append(delivered, msg)
    BY DEF Delivered
  <2>2. UNCHANGED <<file, queue, obtained, dropped, kept, behind, life>>
    BY DEF Delivered, buffer
  <2>3. msg \in Messages
    BY <2>1 DEF Placed, TypeOK
  <2> QED
    BY <2>1, <2>2, <2>3, Shapes
<1>2. Range(delivered') = Range(delivered) \cup {msg}
  BY <1>1, RangeAppend DEF TypeOK
<1>3. Hand = {msg} /\ Hand' \subseteq {None} \cup Range(file)
  <2>1. Hand = {msg}
    BY <1>1 DEF Hand
  <2>2. msg' = None \/ (in \in 0 .. Len(file) /\ in < Len(file) /\ msg' = file[in + 1])
    BY <1>1 DEF Delivered, TypeOK
  <2>3. in \in 0 .. Len(file) /\ in < Len(file) => in + 1 \in DOMAIN file
    BY Shapes
  <2> QED
    BY <2>1, <2>2, <2>3 DEF Hand, Range
<1>4. Owed' = Owed \ {msg}
  BY <1>1, <1>2, <1>3, OwedAfter DEF Holds
<1>5. Range(file') \cap Owed' = (Range(file) \cap Owed) \ {msg}
  BY <1>1, <1>4
<1>6. CASE msg \notin Range(delivered)
  <2>1. msg \in Owed
    BY <1>1, <1>3, <1>6, OwedAfter DEF Holds
  <2>2. behind \/ \A o \in Owed : msg <= o
    BY <1>1, Oldest
  <2> QED
    BY <1>1, <1>4, <1>5, <2>1, <2>2 DEF Relay!Deliver, Relay!Next
<1>7. CASE msg \in Range(delivered)
  <2>1. life > 1 \/ kept
    <3> SUFFICES ASSUME life = 1, ~kept
                 PROVE  FALSE
      BY DEF TypeOK
    <3>1. Range(delivered) \subseteq sent
      BY DEF Remembered
    <3>2. msg \notin sent
      BY <1>1, Shapes, InHandIs DEF Remembered
    <3> QED
      BY <1>7, <3>1, <3>2
  <2>2. Owed' = Owed /\ (Range(file) \cap Owed)' = Range(file) \cap Owed
    BY <1>1, <1>4, <1>5, <1>7 DEF Owed
  <2> QED
    <3>1. (life > 1 \/ kept)' = (life > 1 \/ kept)
      BY <1>1
    <3>2. Relay!Repeat
      <4>1. \E m \in Range(delivered) : delivered' = Append(delivered, m)
        BY <1>1, <1>7
      <4>2. obtained' = obtained /\ dropped' = dropped /\ behind' = behind
        BY <1>1
      <4> HIDE DEF IInv
      <4> QED
        BY <2>1, <2>2, <3>1, <4>1, <4>2 DEF Relay!Repeat, Relay!Range, Range
    <3> QED
      BY <3>2 DEF Relay!Next
<1> QED
  BY <1>6, <1>7

(* The message that creates the backlog is saved, or lost unnoticed, or    *)
(* stays owed.                                                             *)
LEMMA RelayFailedFirst ==
  ASSUME IInv, IInv', FailedFirst
  PROVE  [Relay!Next]_(Relay!relayVars)
<1> USE LoggerAssumption DEF IInv
<1>1. /\ msg \in Messages /\ msg # None /\ msg # End /\ Solo /\ pc = "failed"
      /\ UNCHANGED <<obtained, delivered, kept, behind, life>>
  BY Shapes DEF FailedFirst, Placed, TypeOK, history, Solo
<1>2. msg \notin Range(delivered) /\ msg \notin Range(file) /\ Hand = {msg}
  BY <1>1 DEF Remembered, Ordered, Range, Hand
<1>3. msg \notin Range(queue)
  BY <1>1, Shapes DEF Ordered, Range
<1>4. msg \in Owed /\ Owed = Holds \ Range(delivered)
  BY <1>1, <1>2, OwedAfter DEF Holds
<1>5. CASE pc' = "deliver"
  <2>1. UNCHANGED <<file, queue, dropped>> /\ Hand' = Hand
    BY <1>2, <1>5 DEF FailedFirst, Hand
  <2> QED
    BY <1>1, <2>1, Unseen DEF Holds
<1>6. CASE pc' = "dangling"
  <2>1. UNCHANGED <<file, dropped>> /\ queue' = <<msg>> \o queue /\ Hand' = {}
    BY <1>6 DEF FailedFirst, Hand
  <2>2. Range(queue') = Range(queue) \cup {msg}
    <3>1. msg \in Messages \cup {End} /\ queue \in Seq(Messages \cup {End})
      BY <1>1 DEF TypeOK
    <3>2. Range(<<msg>> \o queue) = Range(queue) \cup {msg}
      BY <3>1, RangeCons
    <3> QED
      BY <2>1, <3>2
  <2>3. Holds' = Holds
    BY <1>2, <2>1, <2>2 DEF Holds
  <2> QED
    BY <1>1, <2>1, <2>3, Unseen
<1>7. CASE pc' = "create"
  <2>1. /\ queue' = queue /\ Hand' = {None}
        /\ \/ file' = Append(file, msg) /\ dropped' = dropped
           \/ "fflush" \in Faults /\ dropped' = dropped \cup {msg} /\ file' = file
    BY <1>7 DEF FailedFirst, Hand, Written
  <2>2. CASE file' = Append(file, msg) /\ dropped' = dropped
    <3>1. Range(file') = Range(file) \cup {msg}
      BY <1>1, <2>2, RangeAppend DEF TypeOK
    <3>2. Holds' = Holds
      BY <1>1, <1>2, <2>1, <3>1 DEF Holds
    <3> QED
      BY <1>1, <1>2, <1>4, <2>2, <3>1, <3>2, Saves DEF Relay!Next
  <2>3. CASE "fflush" \in Faults /\ dropped' = dropped \cup {msg} /\ file' = file
    <3>1. Holds' = Holds \ {msg}
      BY <1>2, <1>3, <2>1, <2>3 DEF Holds
    <3> QED
      BY <1>1, <1>2, <1>4, <2>3, <3>1, Loses DEF Relay!Next
  <2> QED
    BY <2>1, <2>2, <2>3
<1> QED
  BY <1>5, <1>6, <1>7 DEF FailedFirst

(* A message logger_write_backlog takes is saved, or lost unnoticed, or    *)
(* stays owed.                                                             *)
LEMMA RelayWriteBacklog ==
  ASSUME IInv, IInv', WriteBacklog
  PROVE  [Relay!Next]_(Relay!relayVars)
<1> USE LoggerAssumption DEF IInv
<1>1. /\ queue # <<>> /\ pc \in {"add", "create"} /\ pc' # "dangling"
      /\ UNCHANGED <<msg, obtained, delivered, kept, behind, life>>
  BY DEF WriteBacklog, history
<1> DEFINE h == Head(queue)
<1>2. Hand = {msg} /\ Hand' = {msg}
  BY <1>1 DEF Hand
<1>3. Range(queue) = {h} \cup Range(Tail(queue)) /\ h = queue[1] /\ 1 \in DOMAIN queue
  BY <1>1, RangeTail, Shapes DEF TypeOK
<1>4. CASE UNCHANGED <<file, queue, dropped>>
  BY <1>1, <1>2, <1>4, Unseen DEF Holds
<1>5. CASE h = End /\ UNCHANGED <<file, dropped>> /\ queue' = Tail(queue)
  <2>1. Holds' = Holds
    BY <1>2, <1>3, <1>5 DEF Holds
  <2> QED
    BY <1>1, <1>5, <2>1, Unseen
<1>6. CASE /\ h # End /\ queue' = Tail(queue)
           /\ \/ file' = Append(file, h) /\ dropped' = dropped
              \/ "fflush" \in Faults /\ dropped' = dropped \cup {h} /\ file' = file
  <2>1. h \in Messages /\ h # None /\ h \notin Range(delivered)
    BY <1>3, <1>6, Shapes DEF Remembered
  <2>2. h \notin Range(file)
    BY <1>3, <1>6, <2>1, Shapes DEF Ordered, Range
  <2>3. h # msg
    <3>1. Solo => msg < h /\ h \in Nat
      BY <1>3, <1>6, <2>1, Shapes DEF Ordered
    <3>2. Solo => msg \in Nat
      BY Shapes DEF Solo, TypeOK
    <3> QED
      BY <1>1, <2>1, <2>2, <3>1, <3>2, InHandIs DEF Range
  <2>4. h \notin Range(Tail(queue))
    <3>1. \A k \in DOMAIN queue' : queue'[k] # End => queue[1] < queue'[k]
      BY <1>1, <1>6, QueueShorter DEF WriteBacklog
    <3>2. queue[1] \in Nat
      BY <1>3, <2>1, Shapes
    <3>3. \A k \in DOMAIN queue' : queue'[k] # queue[1]
      BY <1>3, <1>6, <3>1, <3>2
    <3> QED
      BY <1>3, <1>6, <3>3 DEF Range
  <2>5. h \in Owed /\ Owed = Holds \ Range(delivered)
    BY <1>3, <1>6, <2>1, OwedAfter DEF Holds
  <2>6. CASE file' = Append(file, h) /\ dropped' = dropped
    <3>1. Range(file') = Range(file) \cup {h}
      BY <2>1, <2>6, RangeAppend DEF TypeOK
    <3>2. Holds' = Holds
      BY <1>2, <1>3, <1>6, <3>1 DEF Holds
    <3> QED
      BY <1>1, <2>2, <2>5, <2>6, <3>1, <3>2, Saves DEF Relay!Next
  <2>7. CASE "fflush" \in Faults /\ dropped' = dropped \cup {h} /\ file' = file
    <3>1. Holds' = Holds \ {h}
      BY <1>2, <1>3, <1>6, <2>2, <2>3, <2>4, <2>7 DEF Holds
    <3> QED
      BY <1>1, <2>2, <2>5, <2>7, <3>1, Loses DEF Relay!Next
  <2> QED
    BY <1>6, <2>6, <2>7
<1> QED
  BY <1>4, <1>5, <1>6 DEF WriteBacklog, Written

(* The backlog is over: all of it is delivered, or what is left of it is   *)
(* lost.                                                                   *)
LEMMA RelayTruncate ==
  ASSUME IInv, IInv', Truncate
  PROVE  [Relay!Next]_(Relay!relayVars)
<1> USE LoggerAssumption DEF IInv
<1> DEFINE gone == Range(Rest) \ Range(delivered)
<1>1. /\ UNCHANGED <<queue, obtained, delivered, life>> /\ Hand = {None} /\ Hand' = {None}
      /\ pc = "truncate"
  BY DEF Truncate, Placed, Hand, buffer
<1>2. gone = Range(file) \ Range(delivered)
  BY <1>1, TruncatedIs
<1>3. gone \subseteq Range(file) \cap Owed
  BY <1>2, OwedAfter
<1>4. Rest # <<>> => "getline" \in Faults
  <2>1. in = Len(file) => DOMAIN Rest = {}
    <3>1. in # Nil
      BY <1>1 DEF Placed
    <3>2. Len(file) \in Nat /\ DOMAIN file = 1 .. Len(file)
      BY Shapes
    <3>3. Rest \in Seq(Messages) /\ \A i \in DOMAIN Rest : in + i \in DOMAIN file
      BY <3>1, RestIs
    <3>4. DOMAIN Rest \subseteq Nat \ {0}
      BY <3>3
    <3> QED
      BY <3>2, <3>3, <3>4
  <2>2. DOMAIN Rest = {} => Rest = <<>>
    <3>1. Rest \in Seq(Messages)
      BY <1>1, RestIs DEF Placed
    <3> HIDE DEF Messages
    <3> QED
      BY <3>1
  <2> QED
    BY <1>1, <2>1, <2>2 DEF Placed
<1> HIDE DEF gone
<1>5. CASE file' = <<>> /\ kept' = kept /\ behind' = behind /\ dropped' = dropped \cup gone
  <2>1. Range(file') = {}
    BY <1>5 DEF Range
  <2>2. \A m \in Range(queue) : m # End => m \notin Range(file)
    BY Shapes DEF Ordered, Range
  <2>3. Owed' = Owed \ gone
    <3>1. Owed' = (Range(queue) \ {End, None}) \ Range(delivered)
      BY <1>1, <2>1, OwedAfter DEF Holds
    <3>2. Owed = ((Range(file) \cup Range(queue)) \ {End, None}) \ Range(delivered)
      BY <1>1, OwedAfter DEF Holds
    <3> QED
      BY <1>2, <2>2, <3>1, <3>2
  <2>4. (Range(file) \cap Owed)' = (Range(file) \cap Owed) \ gone
    BY <1>2, <2>1, OwedAfter
  <2>5. (life > 1 \/ kept)' = (life > 1 \/ kept) /\ UNCHANGED <<obtained, delivered, behind>>
    BY <1>1, <1>5
  <2>6. CASE gone = {}
    BY <1>5, <2>3, <2>4, <2>5, <2>6 DEF Relay!relayVars
  <2>7. CASE gone # {}
    <3>1. gone \in SUBSET Owed /\ "getline" \in Faults
      BY <1>3, <1>4, <2>7, RestIs DEF gone, Range
    <3> HIDE DEF IInv
    <3>2. Relay!Lose
      BY <1>3, <1>5, <2>3, <2>4, <2>5, <3>1 DEF Relay!Lose
    <3> QED
      BY <3>2 DEF Relay!Next
  <2> QED
    BY <2>6, <2>7
<1>6. CASE /\ file' = file /\ kept' /\ dropped' = dropped /\ "truncate" \in Faults
           /\ behind' = (behind \/ Rest # <<>>)
  <2>1. Owed' = Owed /\ (Range(file) \cap Owed)' = Range(file) \cap Owed
    BY <1>1, <1>6, OwedAfter DEF Holds
  <2>2. (life > 1 \/ kept)' = TRUE
    BY <1>6
  <2>3. CASE Rest = <<>>
    <3>1. behind' = behind
      BY <1>6, <2>3 DEF TypeOK
    <3> QED
      BY <1>1, <1>6, <2>1, <2>2, <3>1 DEF Relay!Doubt, Relay!Next
  <2>4. CASE Rest # <<>>
    <3>1. behind' = TRUE /\ {"getline", "truncate"} \subseteq Faults
      BY <1>4, <1>6, <2>4
    <3> QED
      BY <1>1, <1>6, <2>1, <2>2, <3>1 DEF Relay!Muddle, Relay!Next
  <2> QED
    BY <2>3, <2>4
<1> QED
  BY <1>5, <1>6 DEF Truncate, gone

(* Every step of the logger is a step of the relay, or one it does not     *)
(* see.                                                                    *)
LEMMA RelayStep ==
  ASSUME IInv, IInv', Next
  PROVE  [Relay!Next]_(Relay!relayVars)
<1> USE LoggerAssumption DEF IInv
<1>1. CASE Push
  <2>1. /\ obtained' = obtained + 1 /\ UNCHANGED <<file, delivered, dropped, kept, behind, life>> /\ Hand' = Hand
        /\ queue' = Append(queue, obtained + 1)
    BY <1>1 DEF Push, Hand
  <2>2. Range(queue') = Range(queue) \cup {obtained + 1}
    <3>1. obtained + 1 \in Nat \cup {End} /\ queue \in Seq(Nat \cup {End})
      BY Shapes, SeqMonotonic DEF TypeOK
    <3> QED
      BY <2>1, <3>1, RangeAppend
  <2>3. obtained + 1 \notin Range(delivered) /\ obtained + 1 \notin {End, None}
    <3>1. Range(delivered) \subseteq Messages /\ obtained + 1 \notin Messages
      BY RangeOfSeq, Shapes DEF TypeOK
    <3>2. obtained + 1 \in Nat
      BY Shapes
    <3> QED
      BY <3>1, <3>2
  <2>4. Owed' = Owed \cup {obtained + 1}
    BY <2>1, <2>2, <2>3, OwedAfter DEF Holds
  <2>5. (Range(file) \cap Owed)' = Range(file) \cap Owed
    BY <2>1, OwedAfter
  <2>6. (life > 1 \/ kept)' = (life > 1 \/ kept)
    BY <2>1
  <2> HIDE DEF IInv
  <2>7. Relay!Obtain
    BY <2>1, <2>4, <2>5, <2>6 DEF Relay!Obtain
  <2> QED
    BY <2>7 DEF Relay!Next
<1>2. CASE PushEnd
  <2>1. /\ UNCHANGED <<file, obtained, delivered, dropped, kept, behind, life>> /\ Hand' = Hand
        /\ queue' = Append(queue, End)
    BY <1>2 DEF PushEnd, Hand, history
  <2>2. Range(queue') = Range(queue) \cup {End}
    <3>1. queue \in Seq(Messages \cup {End})
      BY DEF TypeOK
    <3> HIDE DEF IInv
    <3> QED
      BY <2>1, <3>1, RangeAppend
  <2>3. Holds' = Holds
    BY <2>1, <2>2 DEF Holds
  <2> QED
    BY <2>1, <2>3, Unseen
<1>3. CASE Restart
  <2>1. /\ UNCHANGED <<file, obtained, delivered, dropped>> /\ Hand' = {None}
        /\ Range(queue') = {}
        /\ life' > 1
    BY <1>3 DEF Restart, Hand, Range, TypeOK
  <2>2. Owed' = Range(file) \ Range(delivered)
    <3>1. None \notin Range(file) /\ End \notin Range(file)
      BY Shapes DEF Range
    <3> QED
      BY <2>1, <3>1, OwedAfter DEF Holds
  <2>3. (Range(file) \cap Owed)' = Range(file) \cap Owed
    BY <2>1, OwedAfter
  <2>4. Owed' = Range(file) \cap Owed
    BY <2>2, OwedAfter
  <2>5. behind' = FALSE
    BY <1>3 DEF Restart
  <2> QED
    BY <2>1, <2>3, <2>4, <2>5 DEF Relay!Crash, Relay!Next
<1>4. CASE Start
  <2>1. UNCHANGED <<file, queue, obtained, delivered, dropped, kept, life>>
    BY <1>4 DEF Start, buffer, history
  <2>2. Hand = {None} /\ (Hand' = {None} \/ Hand' \subseteq Range(file))
    BY <1>4, Shapes DEF Start, Hand, Placed, Range
  <2>3. Holds' = Holds
    BY <2>1, <2>2 DEF Holds
  <2>4. CASE behind' = behind
    BY <2>1, <2>3, <2>4, Unseen
  <2>5. CASE behind' # behind
    <3>1. ~behind /\ behind' = TRUE /\ "initial" \in Faults
      BY <1>4, <2>5 DEF Start, Placed, TypeOK
    <3>2. Owed' = Owed /\ (Range(file) \cap Owed)' = Range(file) \cap Owed
      BY <2>1, <2>3, OwedAfter
    <3>3. (life > 1 \/ kept)' = (life > 1 \/ kept)
      BY <2>1
    <3> HIDE DEF IInv
    <3> QED
      BY <2>1, <3>1, <3>2, <3>3 DEF Relay!Muddle, Relay!Next
  <2> QED
    BY <2>4, <2>5
<1>5. CASE Pop
  <2>1. /\ UNCHANGED <<file, obtained, delivered, dropped, kept, behind, life>> /\ queue # <<>>
        /\ queue' = Tail(queue)
    BY <1>5 DEF Pop, history
  <2>2. Hand = {None} /\ (Hand' = {Head(queue)} \/ (Hand' = {None} /\ Head(queue) = End))
    BY <1>5 DEF Pop, Hand, Placed
  <2>3. Range(queue) = {Head(queue)} \cup Range(queue')
    BY <2>1, RangeTail DEF TypeOK
  <2>4. Holds' = Holds
    BY <2>1, <2>2, <2>3 DEF Holds
  <2> QED
    BY <2>1, <2>4, Unseen
<1>6. CASE Delivered
  BY <1>6, RelayDelivered
<1>7. CASE Truncate
  BY <1>7, RelayTruncate
<1>8. CASE NotDelivered \/ FailedNoBacklog \/ FailedReopen \/ FailedAgain
  <2>1. UNCHANGED <<file, queue, obtained, delivered, dropped, kept, behind, life>> /\ Hand' = Hand
    BY <1>8 DEF NotDelivered, FailedNoBacklog, FailedReopen, FailedAgain, Hand, buffer, history
  <2> QED
    BY <2>1, Unseen DEF Holds
<1>9. CASE FailedFirst
  BY <1>9, RelayFailedFirst
<1>10. CASE WriteBacklog
  BY <1>10, RelayWriteBacklog
<1>11. CASE BacklogWritten
  <2>1. UNCHANGED <<file, queue, obtained, delivered, dropped, kept, behind, life>>
    BY <1>11 DEF BacklogWritten, buffer, history
  <2>2. \/ Hand' = Hand
        \/ Hand = {None} /\ Hand' \subseteq Range(file)
    <3>1. CASE msg' = msg
      <4>1. pc # "dangling" /\ pc' # "dangling"
        BY <1>11 DEF BacklogWritten
      <4> QED
        BY <3>1, <4>1 DEF Hand
    <3>2. CASE pc = "create" /\ file # <<>> /\ msg' = file[1]
      <4>1. Hand = {None} /\ 1 \in DOMAIN file
        BY <3>2, Shapes DEF Hand, Placed
      <4> QED
        BY <3>2, <4>1 DEF Hand, Range
    <3> QED
      BY <1>11, <3>1, <3>2 DEF BacklogWritten
  <2>3. Holds' = Holds
    BY <2>1, <2>2 DEF Holds
  <2> QED
    BY <2>1, <2>3, Unseen
<1> QED
  BY <1>1, <1>2, <1>3, <1>4, <1>5, <1>6, <1>7, <1>8, <1>9, <1>10, <1>11 DEF Next, Run, Failed

(* The logger with its file, killed and started again any number of times, *)
(* is the relay of the README: it delivers the oldest message first, until *)
(* it has left lines behind, repeats one only after a crash or a truncate  *)
(* that failed, a crash costs only what was not in the file, a message is  *)
(* lost on its way into the file only where fflush may fail, one that is   *)
(* in the file only where getline may fail, and lines are left behind only *)
(* where the first fopen may fail, or both getline and the truncate.       *)
THEOREM ImplementsRelay == Spec => IsRelay
<1>1. Init => Relay!Init
  <2> SUFFICES ASSUME Init
               PROVE  Relay!Init
    OBVIOUS
  <2>1. IInv /\ Range(<<>>) = {}
    BY InitIInv DEF Range
  <2>2. Owed = {} /\ Range(file) \cap Owed = {}
    BY <2>1, OwedHere DEF Init, Holds, Hand
  <2> QED
    BY <2>2 DEF Init, Relay!Init
<1>2. IInv /\ IInv' /\ [Next]_vars => [Relay!Next]_(Relay!relayVars)
  <2>1. CASE Next
    BY <2>1, RelayStep
  <2>2. ASSUME IInv, IInv', UNCHANGED vars
        PROVE  UNCHANGED Relay!relayVars
    <3>1. /\ UNCHANGED <<file, queue, obtained, delivered, dropped, kept, behind, life>>
          /\ Hand' = Hand
      BY <2>2 DEF vars, buffer, history, Hand
    <3> QED
      BY <2>2, <3>1, Unseen DEF Holds
  <2> QED
    BY <2>1, <2>2
<1> QED
  BY <1>1, <1>2, Inductive, PTL DEF Spec, IsRelay, Relay!Spec
=============================================================================
