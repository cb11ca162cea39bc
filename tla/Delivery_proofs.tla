--------------------------- MODULE Delivery_proofs ---------------------------
(***************************************************************************)
(* What Delivery keeps for every set of output types, descriptors and      *)
(* bounds and every length of a message: the types, the one descriptor of  *)
(* the handler, its Requires, and the lines of a connection.               *)
(*                                                                         *)
(* The invariant IInv adds to these which states of the handler go with a  *)
(* descriptor and with which place in deliver_message (Connected), how     *)
(* many retries are left where (Counted), and how much of a line and of    *)
(* the message the receiver has (Progress, Received).  Each part has a     *)
(* lemma that goes through the actions; the methods of the handler have    *)
(* lemmas of their own, since two actions call disconnect.                 *)
(***************************************************************************)
EXTENDS Delivery, SequenceTheorems, TLAPS

(* The retries that are left wherever deliver_message is. *)
Counted ==
  /\ pc \in {"select", "write"} => retry >= 1
  /\ pc = "check" => retry >= 0

(* How state, descriptor and place in the code go together: only stdout    *)
(* can be left in "sending", a handler that is to connect has nothing      *)
(* open, and one that is to write has.                                     *)
Connected ==
  /\ kind = "unix" => state = "disconnected" /\ fd = -1
  /\ kind = "stdout" => fd = Stdout
  /\ kind # "stdout" => /\ fd # Stdout
                        /\ state = "disconnected" => fd = -1
                        /\ state = "sending" => pc = "write" /\ ~cut
                        /\ ~cut => pc # "aborted"
  /\ Sendable /\ pc # "cleaned" => fd # -1
  /\ pc = "write" => Sendable

(* A connection that has completed a line and is still good has nothing of *)
(* the next one, but in the loop of the write, where it has as much of the *)
(* message as has been written.                                            *)
Progress ==
  /\ kind \in Net /\ lines # 0 /\ Sendable =>
       /\ pc = "write" => line = SubSeq(Whole, 1, MsgLen - todo)
       /\ pc # "write" \/ cut => line = <<>>
       /\ pc \in Called \ {"write"} => todo = MsgLen
  /\ LinesWhole

(* What the receiver has of the message that is being written.  On a       *)
(* connection that is good that is nothing, until the write starts, and    *)
(* then what was written since the connection was made; a file has it from *)
(* the first unit on, after what an earlier call may have left.  A result  *)
(* "ok" does not outlive the call it is of.                                *)
Received ==
  /\ kind \in Net /\ Sendable =>
       /\ pc # "write" \/ cut => line = <<>>
       /\ pc = "write" =>
            \E s \in 0 .. MsgLen - todo : line = SubSeq(Whole, s + 1, MsgLen - todo)
  /\ kind \notin Net /\ pc \in Called =>
       \E q \in {<<>>, <<0>>} : line = q \o SubSeq(Whole, 1, MsgLen - todo)
  /\ result = "ok" => pc \in {"idle"} \cup Ended
  /\ DeliveredEnds

IInv == TypeOK /\ Counted /\ Connected /\ OneDescriptor /\ Progress /\ Received
-----------------------------------------------------------------------------
(* A part of a message is a sequence of its units. *)
LEMMA PartOfWhole ==
  ASSUME NEW a \in 1 .. MsgLen + 1, NEW b \in a - 1 .. MsgLen
  PROVE  SubSeq(Whole, a, b) \in Seq(0 .. MsgLen)
<1>1. MsgLen \in Nat \ {0}
  BY DeliveryAssumption
<1>2. Whole \in Seq(0 .. MsgLen) /\ Len(Whole) = MsgLen
  BY <1>1 DEF Whole
<1> QED
  BY <1>1, <1>2

(* A part and the next one are a part. *)
LEMMA PartsJoin ==
  ASSUME NEW n \in 0 .. MsgLen, NEW s \in 0 .. n, NEW k \in 1 .. MsgLen, n + k <= MsgLen
  PROVE  SubSeq(Whole, s + 1, n) \o SubSeq(Whole, n + 1, n + k) = SubSeq(Whole, s + 1, n + k)
<1>1. MsgLen \in Nat \ {0}
  BY DeliveryAssumption
<1>2. Whole \in Seq(0 .. MsgLen) /\ Len(Whole) = MsgLen
  BY <1>1 DEF Whole
<1>3. /\ s + 1 \in 1 .. Len(Whole) + 1
      /\ n \in (s + 1) - 1 .. Len(Whole)
      /\ n + k \in n .. Len(Whole)
  BY <1>1, <1>2
<1> QED
  BY <1>2, <1>3, ConcatAdjacentSubSeq

(* All of the message is the message. *)
LEMMA AllOfWhole == SubSeq(Whole, 1, MsgLen) = Whole
<1>1. MsgLen \in Nat \ {0}
  BY DeliveryAssumption
<1>2. Whole \in Seq(0 .. MsgLen) /\ Len(Whole) = MsgLen
  BY <1>1 DEF Whole
<1> QED
  BY <1>1, <1>2

(* The second of two sequences is a suffix of the two. *)
LEMMA SecondIsSuffix ==
  ASSUME NEW S, NEW p \in Seq(S), NEW q \in Seq(S)
  PROVE  IsSuffix(q, p \o q)
<1> DEFINE all == p \o q
           m   == Len(p)
           n   == Len(q)
           rq  == [i \in 1 .. n |-> q[(n - i) + 1]]
           ra  == [i \in 1 .. m + n |-> all[(m + n - i) + 1]]
<1>1. m \in Nat /\ n \in Nat /\ all \in Seq(S) /\ Len(all) = m + n
  OBVIOUS
<1>2. \A i \in 1 .. n : all[m + i] = q[i]
  OBVIOUS
<1>3. Reverse(q) = rq /\ Reverse(all) = ra
  BY <1>1 DEF Reverse
<1>4. rq \in Seq(S) /\ Len(rq) = n
  BY <1>1
<1>5. ra \in Seq(S) /\ Len(ra) = m + n
  BY <1>1
<1>6. \A i \in 1 .. n : rq[i] = ra[i]
  <2> SUFFICES ASSUME NEW i \in 1 .. n PROVE rq[i] = ra[i]
    OBVIOUS
  <2>1. (n - i) + 1 \in 1 .. n /\ (m + n - i) + 1 = m + ((n - i) + 1) /\ i \in 1 .. m + n
    BY <1>1
  <2> QED
    BY <1>2, <2>1
<1> HIDE DEF rq, ra, all, m, n
<1>7. SubSeq(rq, 1, n) = SubSeq(ra, 1, n)
  BY <1>1, <1>4, <1>5, <1>6
<1>8. n <= m + n
  BY <1>1
<1> QED
  BY <1>3, <1>4, <1>5, <1>7, <1>8 DEF IsSuffix, IsPrefix, all
-----------------------------------------------------------------------------
(* The first state satisfies the invariant. *)
LEMMA InitIInv == Init => IInv
<1> SUFFICES ASSUME Init PROVE IInv
  OBVIOUS
<1>1. TypeOK
  <2>1. cut \in BOOLEAN
    BY ZenonT(20) DEF Init
  <2> QED
    BY <2>1, DeliveryAssumption DEF Init, TypeOK, Called, Ended, Stdout, Retries
<1>2. Counted
  BY DEF Init, Counted
<1>3. Connected /\ OneDescriptor
  BY DeliveryAssumption DEF Init, Connected, OneDescriptor, Sendable, Stdout
<1>4. Progress
  BY DEF Init, Progress, LinesWhole
<1>5. Received
  BY DEF Init, Received, DeliveredEnds, Sendable, Called
<1> QED
  BY <1>1, <1>2, <1>3, <1>4, <1>5 DEF IInv

(* A method of the handler leaves it well typed, and what it does to fd    *)
(* and own is right whatever the others have open.                         *)
LEMMA ConnectKeeps ==
  ASSUME IInv, kind' = kind, others' = others, state = "disconnected",
         NetConnect \/ FileConnect \/ UnixConnect
  PROVE  /\ state' \in {"disconnected", "connecting", "ready", "error"}
         /\ fd' \in Fds \cup {-1, Stdout}
         /\ own' \subseteq Fds
         /\ OneDescriptor'
         /\ kind = "unix" => state' = "disconnected" /\ fd' = -1
         /\ kind = "stdout" <=> fd' = Stdout
         /\ kind # "stdout" /\ state' = "disconnected" => fd' = -1
         /\ state' = "ready" => fd' # -1
<1> USE DeliveryAssumption
<1> USE DEF IInv, TypeOK, Connected, OneDescriptor, Stdout
<1>1. CASE NetConnect
  BY <1>1 DEF NetConnect, Net, IsLowestFree, Opened
<1>2. CASE FileConnect
  BY <1>2 DEF FileConnect, IsLowestFree, Opened
<1>3. CASE UnixConnect
  BY <1>3 DEF UnixConnect, handler
<1> QED
  BY <1>1, <1>2, <1>3

LEMMA DisconnectKeeps ==
  ASSUME IInv, kind' = kind, others' = others, state # "disconnected",
         NEW next \in {"top", "cleaned"}, state # "sending" \/ kind = "stdout", Disconnect(next)
  PROVE  /\ state' \in {"disconnected", state}
         /\ fd' \in Fds \cup {-1, Stdout}
         /\ own' \subseteq Fds
         /\ OneDescriptor'
         /\ kind # "unix"
         /\ kind = "stdout" <=> fd' = Stdout
         /\ kind # "stdout" => fd' = -1 /\ pc' = next
         /\ kind \in Net => state' = "disconnected"
         /\ pc' \in {next, "exited", "aborted"}
<1> USE DeliveryAssumption
<1> USE DEF IInv, TypeOK, Connected, OneDescriptor, Stdout
<1>1. CASE NetDisconnect /\ pc' = next
  BY <1>1 DEF NetDisconnect, Net
<1>2. CASE FileDisconnect /\ pc' = next
  BY <1>2 DEF FileDisconnect, Net
<1>3. CASE kind = "stdout" /\ UNCHANGED handler /\ pc' \in {"exited", "aborted"}
  BY <1>3 DEF handler, Net
<1> QED
  BY <1>1, <1>2, <1>3 DEF Disconnect

(* What k units more do to the line of the receiver. *)
LEMMA TakenKeeps ==
  ASSUME TypeOK, NEW k, Taken(k)
  PROVE  /\ todo' \in 0 .. MsgLen
         /\ line' \in Seq(0 .. MsgLen)
         /\ lines' \in 0 .. 2
         /\ got' \in Seq(0 .. MsgLen)
<1>1. MsgLen \in Nat \ {0} /\ todo \in 0 .. MsgLen /\ k \in 1 .. todo /\ todo' = todo - k
  BY DeliveryAssumption DEF TypeOK, Taken
<1>2. PICK part \in Seq(0 .. MsgLen) :
         \/ line' = <<>> /\ got' = line \o part /\ lines' \in {1, 2}
         \/ line' = line \o part /\ got' = got /\ lines' = lines
  <2> DEFINE a == MsgLen - todo + 1
             b == MsgLen - todo + k
  <2>1. a \in 1 .. MsgLen + 1 /\ b \in a - 1 .. MsgLen
    BY <1>1
  <2>2. SubSeq(Whole, a, b) \in Seq(0 .. MsgLen)
    BY <2>1, PartOfWhole
  <2> QED
    BY <2>2 DEF Taken
<1>3. line \o part \in Seq(0 .. MsgLen) /\ <<>> \in Seq(0 .. MsgLen)
  BY DEF TypeOK
<1>4. todo' \in 0 .. MsgLen
  BY <1>1
<1>5. lines' \in 0 .. 2
  BY <1>2 DEF TypeOK
<1> QED
  BY <1>2, <1>3, <1>4, <1>5 DEF TypeOK

(* Every step keeps the types and the count of the retries. *)
LEMMA StepTypes ==
  ASSUME IInv, Next
  PROVE  TypeOK' /\ Counted'
<1> USE DeliveryAssumption
<1> USE DEF IInv, TypeOK, Counted, Called, Ended, Retries, Stdout
<1>1. CASE Deliver
  <2>1. <<>> \in Seq(0 .. MsgLen) /\ <<0>> \in Seq(0 .. MsgLen)
    OBVIOUS
  <2>2. line' \in Seq(0 .. MsgLen)
    <3> HIDE DEF IInv, TypeOK, Counted
    <3>1. line' = <<>> \/ line' = <<0>>
      BY <1>1 DEF Deliver
    <3> QED
      BY <2>1, <3>1
  <2> QED
    BY <1>1, <2>2 DEF Deliver, handler
<1>2. CASE GiveUp
  BY <1>2 DEF GiveUp, Return, handler, receiver
<1>3. CASE Prepare
  <2>1. CASE state # "disconnected"
    <3>1. UNCHANGED <<handler, receiver>> /\ pc' = "select"
      BY <1>3, <2>1 DEF Prepare
    <3> QED
      BY <1>3, <3>1 DEF Prepare, handler, receiver
  <2>2. CASE state = "disconnected" /\ kind \in Net /\ fd # -1
    BY <1>3, <2>2 DEF Prepare, handler, receiver
  <2>3. CASE state = "disconnected" /\ ~(kind \in Net /\ fd # -1)
    <3>1. NetConnect \/ FileConnect \/ UnixConnect
      BY <1>3, <2>3 DEF Prepare
    <3>2. /\ state' \in {"disconnected", "connecting", "ready", "error"}
          /\ fd' \in Fds \cup {-1, Stdout}
          /\ own' \subseteq Fds
      BY <1>3, <2>3, <3>1, ConnectKeeps DEF Prepare
    <3>3. line' \in Seq(0 .. MsgLen) /\ lines' \in 0 .. 2 /\ got' \in Seq(0 .. MsgLen)
      <4>1. NewReceiver \/ UNCHANGED receiver
        BY <3>1 DEF NetConnect, FileConnect, UnixConnect
      <4>2. <<>> \in Seq(0 .. MsgLen)
        OBVIOUS
      <4>3. CASE NewReceiver
        BY <4>2, <4>3 DEF NewReceiver
      <4>4. CASE UNCHANGED receiver
        BY <4>4 DEF receiver
      <4> QED
        BY <4>1, <4>3, <4>4
    <3> QED
      BY <1>3, <2>3, <3>2, <3>3 DEF Prepare
  <2> QED
    BY <2>1, <2>2, <2>3
<1>4. CASE \E ready \in SUBSET watched : Wake(ready)
  BY <1>4 DEF Wake, handler, receiver
<1>5. CASE Timeout
  <2>1. retry' \in 0 .. 3
    BY <1>5 DEF Timeout
  <2>2. watched' \subseteq watched
    BY <1>5 DEF Timeout
  <2>3. UNCHANGED <<kind, state, fd, own, others, todo, cut, result, line, lines, got>> /\ pc' = "check"
    BY <1>5 DEF Timeout, handler, receiver
  <2> QED
    BY <2>1, <2>2, <2>3
<1>6. CASE SelectError
  BY <1>6 DEF SelectError, Return, handler, receiver
<1>7. ASSUME NEW k \in 1 .. MsgLen, WriteSome(k) PROVE TypeOK' /\ Counted'
  <2>1. Taken(k)
    BY <1>7 DEF WriteSome
  <2>2. /\ todo' \in 0 .. MsgLen /\ line' \in Seq(0 .. MsgLen)
        /\ lines' \in 0 .. 2 /\ got' \in Seq(0 .. MsgLen)
    BY <2>1, TakenKeeps
  <2> QED
    BY <1>7, <2>2 DEF WriteSome, Return
<1>8. CASE WriteAgain
  BY <1>8 DEF WriteAgain, receiver
<1>9. CASE WriteFails \/ WriteCut
  <2>1. CASE WriteFails
    BY <2>1 DEF WriteFails, receiver
  <2>2. CASE WriteCut
    BY <2>2 DEF WriteCut, handler, receiver
  <2> QED
    BY <1>9, <2>1, <2>2
<1>10. CASE Check
  <2>1. CASE state # "error"
    BY <1>10, <2>1 DEF Check, handler, receiver
  <2>2. CASE state = "error"
    <3>1. Disconnect("top") /\ kind' = kind /\ others' = others
      BY <1>10, <2>2 DEF Check
    <3>2. /\ state' \in {"disconnected", state}
          /\ fd' \in Fds \cup {-1, Stdout}
          /\ own' \subseteq Fds
          /\ pc' \in {"top", "exited", "aborted"}
      BY <2>2, <3>1, DisconnectKeeps
    <3> QED
      BY <1>10, <2>2, <3>2 DEF Check, receiver
  <2> QED
    BY <2>1, <2>2
<1>11. CASE Cleanup
  <2>1. CASE state = "disconnected"
    BY <1>11, <2>1 DEF Cleanup, handler, receiver
  <2>2. CASE state # "disconnected"
    <3>1. Disconnect("cleaned") /\ kind' = kind /\ others' = others
          /\ (state # "sending" \/ kind = "stdout")
      BY <1>11, <2>2 DEF Cleanup, Connected
    <3>2. /\ state' \in {"disconnected", state}
          /\ fd' \in Fds \cup {-1, Stdout}
          /\ own' \subseteq Fds
          /\ pc' \in {"cleaned", "exited", "aborted"}
      BY <2>2, <3>1, DisconnectKeeps
    <3> QED
      BY <1>11, <2>2, <3>2 DEF Cleanup, receiver
  <2> QED
    BY <2>1, <2>2
<1>12. ASSUME NEW f \in Fds, OthersOpen(f) \/ OthersClose(f) PROVE TypeOK' /\ Counted'
  <2>1. UNCHANGED <<kind, state, fd, own, watched, retry, todo, cut, pc, result, line, lines, got>>
    BY <1>12 DEF OthersOpen, OthersClose, handler, receiver
  <2>2. others' \subseteq Fds
    BY <1>12 DEF OthersOpen, OthersClose
  <2> QED
    BY <2>1, <2>2
<1> HIDE DEF IInv, TypeOK, Counted, Called, Ended, Retries, Stdout
<1> QED
  BY <1>1, <1>2, <1>3, <1>4, <1>5, <1>6, <1>7, <1>8, <1>9, <1>10, <1>11, <1>12 DEF Next, Loop

(* Every step keeps state, descriptor and place together, and the handler  *)
(* to its one descriptor.                                                  *)
LEMMA StepConnected ==
  ASSUME IInv, Next
  PROVE  Connected' /\ OneDescriptor'
<1> USE DEF IInv, Connected, OneDescriptor, Sendable, Stdout
<1>1. CASE Deliver
  BY <1>1 DEF Deliver, handler
<1>2. CASE GiveUp
  BY <1>2 DEF GiveUp, Return, handler
<1>3. CASE Prepare
  <2>1. CASE state # "disconnected"
    BY <1>3, <2>1 DEF Prepare, handler
  <2>2. CASE state = "disconnected"
    <3>1. ~(kind \in Net /\ fd # -1)
      BY <2>2 DEF Net
    <3>2. (NetConnect \/ FileConnect \/ UnixConnect) /\ kind' = kind /\ others' = others
          /\ pc' = "select"
      BY <1>3, <2>2, <3>1 DEF Prepare
    <3>3. /\ state' \in {"disconnected", "connecting", "ready", "error"}
          /\ OneDescriptor'
          /\ kind = "unix" => state' = "disconnected" /\ fd' = -1
          /\ kind = "stdout" <=> fd' = Stdout
          /\ kind # "stdout" /\ state' = "disconnected" => fd' = -1
          /\ state' = "ready" => fd' # -1
      BY <2>2, <3>2, ConnectKeeps
    <3> QED
      BY <3>2, <3>3
  <2> QED
    BY <2>1, <2>2
<1>4. CASE \E ready \in SUBSET watched : Wake(ready)
  BY <1>4 DEF Wake, handler
<1>5. CASE Timeout
  BY <1>5 DEF Timeout, handler
<1>6. CASE SelectError
  BY <1>6 DEF SelectError, Return, handler
<1>7. CASE \E k \in 1 .. MsgLen : WriteSome(k)
  BY <1>7 DEF WriteSome, Return
<1>8. CASE WriteAgain
  BY <1>8 DEF WriteAgain
<1>9. CASE WriteFails \/ WriteCut
  BY <1>9 DEF WriteFails, WriteCut, handler
<1>10. CASE Check
  <2>1. CASE state # "error"
    BY <1>10, <2>1 DEF Check, handler
  <2>2. CASE state = "error"
    <3>1. Disconnect("top") /\ kind' = kind /\ others' = others
      BY <1>10, <2>2 DEF Check
    <3>2. /\ state' \in {"disconnected", state}
          /\ OneDescriptor'
          /\ kind # "unix"
          /\ kind = "stdout" <=> fd' = Stdout
          /\ kind # "stdout" => fd' = -1 /\ pc' = "top"
          /\ pc' \in {"top", "exited", "aborted"}
      BY <2>2, <3>1, DisconnectKeeps
    <3> QED
      BY <2>2, <3>1, <3>2
  <2> QED
    BY <2>1, <2>2
<1>11. CASE Cleanup
  <2>1. CASE state = "disconnected"
    BY <1>11, <2>1 DEF Cleanup, handler
  <2>2. CASE state # "disconnected"
    <3>1. Disconnect("cleaned") /\ kind' = kind /\ others' = others
          /\ (state # "sending" \/ kind = "stdout")
      BY <1>11, <2>2 DEF Cleanup
    <3>2. /\ state' \in {"disconnected", state}
          /\ OneDescriptor'
          /\ kind # "unix"
          /\ kind = "stdout" <=> fd' = Stdout
          /\ kind # "stdout" => fd' = -1 /\ pc' = "cleaned"
          /\ pc' \in {"cleaned", "exited", "aborted"}
      BY <2>2, <3>1, DisconnectKeeps
    <3> QED
      BY <2>2, <3>1, <3>2
  <2> QED
    BY <2>1, <2>2
<1>12. CASE \E f \in Fds : OthersOpen(f)
  BY <1>12, DeliveryAssumption DEF OthersOpen, handler, IsLowestFree, Opened
<1>13. CASE \E f \in Fds : OthersClose(f)
  BY <1>13 DEF OthersClose, handler
<1> QED
  BY <1>1, <1>2, <1>3, <1>4, <1>5, <1>6, <1>7, <1>8, <1>9, <1>10, <1>11, <1>12, <1>13
  DEF Next, Loop

(* k more units of the message, on a connection that has completed a line. *)
LEMMA TakenProgress ==
  ASSUME IInv, NEW k, Taken(k), kind \in Net, lines # 0, Sendable, pc = "write"
  PROVE  IF k = todo THEN line' = <<>> /\ got' = Whole
                     ELSE line' = SubSeq(Whole, 1, MsgLen - todo') /\ got' = got /\ lines' = lines
<1>1. /\ MsgLen \in Nat \ {0} /\ todo \in 0 .. MsgLen /\ k \in 1 .. todo /\ todo' = todo - k
      /\ line = SubSeq(Whole, 1, MsgLen - todo)
  BY DeliveryAssumption DEF IInv, TypeOK, Progress, Taken
<1>2. PICK all : /\ all = line \o SubSeq(Whole, MsgLen - todo + 1, MsgLen - todo + k)
                 /\ k = todo => line' = <<>> /\ got' = all
                 /\ k # todo => line' = all /\ got' = got /\ lines' = lines
  BY DEF Taken
<1> DEFINE n == MsgLen - todo
           m == MsgLen - todo + k
<1>3. n \in 0 .. MsgLen /\ k \in 1 .. MsgLen /\ n + k <= MsgLen
  BY <1>1
<1>4. all = SubSeq(Whole, 1, m)
  <2>1. 0 \in 0 .. n /\ 0 + 1 = 1
    BY <1>1
  <2>2. SubSeq(Whole, 0 + 1, n) \o SubSeq(Whole, n + 1, n + k) = SubSeq(Whole, 0 + 1, n + k)
    BY <1>3, <2>1, PartsJoin
  <2> QED
    BY <1>1, <1>2, <2>2
<1>5. CASE k = todo
  <2>1. m = MsgLen
    BY <1>1, <1>5
  <2> QED
    BY <1>2, <1>4, <1>5, <2>1, AllOfWhole
<1>6. CASE k # todo
  <2>1. m = MsgLen - todo'
    BY <1>1
  <2> QED
    BY <1>2, <1>4, <1>6, <2>1
<1> QED
  BY <1>5, <1>6

(* Every step keeps the lines of a connection whole, but for the first.    *)
LEMMA StepProgress ==
  ASSUME IInv, Next, TypeOK'
  PROVE  Progress'
<1> USE DEF Progress, LinesWhole, Net, Sendable, Called
<1>0. /\ Progress /\ TypeOK
      /\ kind # "stdout" /\ state = "sending" => pc = "write" /\ ~cut
      /\ pc = "write" => Sendable
      /\ MsgLen \in Nat \ {0}
  BY DeliveryAssumption DEF IInv, Connected
<1>1. CASE Deliver
  BY <1>0, <1>1 DEF Deliver, handler
<1>2. CASE GiveUp
  BY <1>0, <1>2 DEF GiveUp, Return, handler, receiver
<1>3. CASE Prepare
  <2>1. CASE state # "disconnected"
    BY <1>0, <1>3, <2>1 DEF Prepare, handler, receiver
  <2>2. CASE state = "disconnected" /\ kind \in Net /\ fd # -1
    BY <1>0, <1>3, <2>2 DEF Prepare, handler, receiver
  <2>3. CASE NetConnect /\ kind' = kind
    BY <1>0, <2>3 DEF NetConnect, NewReceiver, receiver
  <2>4. CASE (FileConnect \/ UnixConnect) /\ kind' = kind
    BY <1>0, <2>4 DEF FileConnect, UnixConnect
  <2> QED
    BY <1>3, <2>1, <2>2, <2>3, <2>4 DEF Prepare
<1>4. CASE \E ready \in SUBSET watched : Wake(ready)
  <2>1. SubSeq(Whole, 1, 0) = <<>>
    OBVIOUS
  <2>2. todo = MsgLen => MsgLen - todo = 0
    BY <1>0
  <2>3. /\ UNCHANGED <<kind, state, lines, got, line, todo>>
        /\ pc = "select" /\ pc' \in {"write", "check"}
    BY <1>4 DEF Wake, handler, receiver
  <2> QED
    BY <1>0, <2>1, <2>2, <2>3
<1>5. CASE Timeout
  BY <1>0, <1>5 DEF Timeout, handler, receiver
<1>6. CASE SelectError
  BY <1>0, <1>6 DEF SelectError, Return, handler, receiver
<1>7. ASSUME NEW k \in 1 .. MsgLen, WriteSome(k) PROVE Progress'
  <2>0. k \in 1 .. todo /\ todo \in 0 .. MsgLen
    BY <1>7 DEF WriteSome, Taken, IInv, TypeOK
  <2>1. /\ Taken(k) /\ kind' = kind /\ ~cut' /\ pc = "write" /\ Sendable
        /\ k = todo => pc' = "idle"
        /\ k # todo => pc' = "write"
    BY <1>0, <1>7, <2>0 DEF WriteSome, Return
  <2>2. CASE kind \in Net /\ lines # 0
    <3>1. IF k = todo THEN line' = <<>> /\ got' = Whole
                      ELSE line' = SubSeq(Whole, 1, MsgLen - todo') /\ got' = got /\ lines' = lines
      BY <2>1, <2>2, TakenProgress
    <3>2. CASE k = todo
      BY <2>1, <3>1, <3>2
    <3>3. CASE k # todo
      BY <1>0, <2>1, <3>1, <3>3
    <3> QED
      BY <3>2, <3>3
  <2>3. CASE kind \in Net /\ lines = 0
    BY <2>1, <2>3 DEF Taken
  <2> QED
    BY <2>1, <2>2, <2>3
<1>8. CASE WriteAgain
  BY <1>8 DEF WriteAgain
<1>9. CASE WriteFails \/ WriteCut
  BY <1>0, <1>9 DEF WriteFails, WriteCut, handler, receiver
<1>10. CASE Check \/ Cleanup
  <2>1. CASE UNCHANGED <<kind, handler, receiver, todo>> /\ pc = "check" /\ pc' = "top"
    BY <1>0, <2>1 DEF handler, receiver
  <2>2. CASE UNCHANGED <<kind, handler, receiver, todo>> /\ pc' \in Ended /\ pc # "write"
    BY <1>0, <2>2 DEF handler, receiver, Ended
  <2>3. CASE (NetDisconnect \/ FileDisconnect) /\ kind' = kind /\ UNCHANGED receiver
    BY <1>0, <2>3 DEF NetDisconnect, FileDisconnect, receiver
  <2> QED
    BY <1>10, <2>1, <2>2, <2>3 DEF Check, Cleanup, Disconnect, Ended
<1>11. CASE \E f \in Fds : OthersOpen(f) \/ OthersClose(f)
  BY <1>0, <1>11 DEF OthersOpen, OthersClose, handler, receiver
<1> QED
  BY <1>1, <1>2, <1>3, <1>4, <1>5, <1>6, <1>7, <1>8, <1>9, <1>10, <1>11 DEF Next, Loop
(* Sequences are joined in either order. *)
LEMMA AppendedTwice ==
  ASSUME NEW a \in Seq(0 .. MsgLen), NEW b \in Seq(0 .. MsgLen), NEW c \in Seq(0 .. MsgLen)
  PROVE  (a \o b) \o c = a \o (b \o c)
BY ConcatAssociative

(* k more units of the message, joined to what the receiver has of it: the *)
(* whole of it ends in the message, or the message ends in it.             *)
LEMMA TakenReceived ==
  ASSUME IInv, NEW k, Taken(k), pc = "write"
  PROVE  /\ k = todo => /\ line' = <<>>
                        /\ kind \in Net => IsSuffix(got', Whole)
                        /\ kind \notin Net => IsSuffix(Whole, got')
         /\ k # todo => /\ got' = got
                        /\ kind \in Net => \E s \in 0 .. MsgLen - todo' :
                                            line' = SubSeq(Whole, s + 1, MsgLen - todo')
                        /\ kind \notin Net => \E q \in {<<>>, <<0>>} :
                                               line' = q \o SubSeq(Whole, 1, MsgLen - todo')
<1> DEFINE n == MsgLen - todo
           m == MsgLen - todo + k
           part == SubSeq(Whole, n + 1, m)
           all == line \o part
<1>1. /\ MsgLen \in Nat \ {0} /\ todo \in 0 .. MsgLen /\ k \in 1 .. todo
      /\ todo' = todo - k
  BY DeliveryAssumption DEF IInv, TypeOK, Taken
<1>2. /\ k = todo => line' = <<>> /\ got' = all
      /\ k # todo => line' = all /\ got' = got
  BY DEF Taken
<1>3. n \in 0 .. MsgLen /\ k \in 1 .. MsgLen /\ n + k <= MsgLen /\ m = n + k
  BY <1>1
<1>4. /\ k = todo => m = MsgLen
      /\ m = MsgLen - todo'
  BY <1>1
<1>5. CASE kind \in Net
  <2>1. PICK s \in 0 .. n : line = SubSeq(Whole, s + 1, n)
    BY <1>5 DEF IInv, Received, Connected
  <2>2. all = SubSeq(Whole, s + 1, m)
    BY <1>3, <2>1, PartsJoin
  <2>3. s \in 0 .. m
    BY <1>3
  <2>4. CASE k = todo
    <3>1. s \in 0 .. MsgLen /\ MsgLen - s \in 1 .. MsgLen /\ s + (MsgLen - s) = MsgLen
      BY <1>1, <1>3, <1>4, <2>4
    <3>2. SubSeq(Whole, 0 + 1, s) \o SubSeq(Whole, s + 1, s + (MsgLen - s))
            = SubSeq(Whole, 0 + 1, s + (MsgLen - s))
      <4> DEFINE r == MsgLen - s
      <4>1. r \in 1 .. MsgLen /\ s + r <= MsgLen /\ s \in 0 .. MsgLen /\ 0 \in 0 .. s
        BY <3>1, <1>1
      <4> HIDE DEF r
      <4>2. SubSeq(Whole, 0 + 1, s) \o SubSeq(Whole, s + 1, s + r) = SubSeq(Whole, 0 + 1, s + r)
        BY <4>1, PartsJoin
      <4> QED
        BY <4>2 DEF r
    <3>3. SubSeq(Whole, 1, s) \o SubSeq(Whole, s + 1, MsgLen) = Whole
      <4>1. 0 + 1 = 1
        OBVIOUS
      <4> QED
        BY <3>1, <3>2, <4>1, AllOfWhole
    <3>4. /\ SubSeq(Whole, 1, s) \in Seq(0 .. MsgLen)
          /\ SubSeq(Whole, s + 1, MsgLen) \in Seq(0 .. MsgLen)
      <4>1. /\ 1 \in 1 .. MsgLen + 1 /\ s \in 1 - 1 .. MsgLen
            /\ s + 1 \in 1 .. MsgLen + 1 /\ MsgLen \in (s + 1) - 1 .. MsgLen
        BY <1>1, <3>1
      <4> QED
        BY <4>1, PartOfWhole
    <3>5. IsSuffix(SubSeq(Whole, s + 1, MsgLen), Whole)
      BY <3>3, <3>4, SecondIsSuffix
    <3>6. got' = SubSeq(Whole, s + 1, MsgLen)
      BY <1>2, <1>4, <2>2, <2>4
    <3> QED
      BY <1>2, <1>5, <2>4, <3>5, <3>6
  <2>5. CASE k # todo
    BY <1>2, <1>4, <1>5, <2>2, <2>3, <2>5
  <2> QED
    BY <2>4, <2>5
<1>6. CASE kind \notin Net
  <2>1. PICK q \in {<<>>, <<0>>} : line = q \o SubSeq(Whole, 1, n)
    BY <1>6 DEF IInv, Received, Called
  <2>2. q \in Seq(0 .. MsgLen)
    <3>1. <<>> \in Seq(0 .. MsgLen) /\ 0 \in 0 .. MsgLen
      BY <1>1
    <3>2. <<0>> \in Seq(0 .. MsgLen)
      BY <3>1
    <3> QED
      BY <3>1, <3>2
  <2>3. SubSeq(Whole, 1, n) \in Seq(0 .. MsgLen) /\ part \in Seq(0 .. MsgLen)
    <3>1. /\ 1 \in 1 .. MsgLen + 1 /\ n \in 1 - 1 .. MsgLen
          /\ n + 1 \in 1 .. MsgLen + 1 /\ m \in (n + 1) - 1 .. MsgLen
      BY <1>1, <1>3
    <3> QED
      BY <3>1, PartOfWhole
  <2>4. SubSeq(Whole, 1, n) \o part = SubSeq(Whole, 1, m)
    <3>1. 0 \in 0 .. n /\ 0 + 1 = 1
      BY <1>3
    <3>2. SubSeq(Whole, 0 + 1, n) \o SubSeq(Whole, n + 1, n + k) = SubSeq(Whole, 0 + 1, n + k)
      BY <1>3, <3>1, PartsJoin
    <3> QED
      BY <1>3, <3>1, <3>2
  <2>5. all = q \o SubSeq(Whole, 1, m)
    <3> DEFINE p == SubSeq(Whole, 1, n)
    <3> HIDE DEF p, part, n
    <3>1. (q \o p) \o part = q \o (p \o part)
      <4>1. q \in Seq(0 .. MsgLen) /\ p \in Seq(0 .. MsgLen) /\ part \in Seq(0 .. MsgLen)
        BY <2>2, <2>3 DEF p
      <4> HIDE DEF p
      <4> QED
        BY <4>1, AppendedTwice
    <3> QED
      BY <2>1, <2>4, <3>1 DEF p
  <2>6. CASE k = todo
    <3>1. Whole \in Seq(0 .. MsgLen)
      BY <1>1 DEF Whole
    <3>2. got' = q \o Whole
      BY <1>2, <1>4, <2>5, <2>6, AllOfWhole
    <3>3. IsSuffix(Whole, got')
      BY <2>2, <3>1, <3>2, SecondIsSuffix
    <3> QED
      BY <1>2, <1>6, <2>6, <3>3
  <2>7. CASE k # todo
    BY <1>2, <1>4, <1>6, <2>5, <2>7
  <2> QED
    BY <2>6, <2>7
<1> QED
  BY <1>5, <1>6

(* Every step keeps what the receiver has to what was written of the       *)
(* message.                                                                *)
LEMMA StepReceived ==
  ASSUME IInv, Next
  PROVE  Received'
<1> USE DEF Received, DeliveredEnds, Net, Sendable, Called, Ended
<1>0. /\ Received /\ TypeOK
      /\ kind # "stdout" /\ state = "sending" => pc = "write" /\ ~cut
      /\ pc = "write" => Sendable
      /\ MsgLen \in Nat \ {0}
  BY DeliveryAssumption DEF IInv, Connected
<1>1. CASE Deliver
  <2>1. SubSeq(Whole, 1, 0) = <<>> /\ <<>> \o <<>> = <<>> /\ <<0>> \o <<>> = <<0>>
    OBVIOUS
  <2>2. MsgLen - MsgLen = 0
    BY <1>0
  <2>3. /\ UNCHANGED <<kind, state>> /\ todo' = MsgLen /\ pc = "idle" /\ pc' = "top"
        /\ result' = "none"
        /\ line = <<>> => line' = <<>>
        /\ line' \in {<<>>, <<0>>}
    BY <1>1 DEF Deliver, handler
  <2>4. \E q \in {<<>>, <<0>>} : line' = q \o SubSeq(Whole, 1, MsgLen - todo')
    BY <2>1, <2>2, <2>3
  <2> QED
    BY <1>0, <2>3, <2>4
<1>2. CASE GiveUp
  BY <1>0, <1>2 DEF GiveUp, Return, handler, receiver
<1>3. CASE Prepare
  <2>0. UNCHANGED <<kind, todo, result>> /\ pc = "top" /\ pc' \in {"select", "aborted"}
    BY <1>3 DEF Prepare
  <2>1. CASE UNCHANGED <<handler, receiver>>
    BY <1>0, <2>0, <2>1 DEF handler, receiver
  <2>2. CASE NetConnect
    BY <1>0, <2>0, <2>2 DEF NetConnect, NewReceiver, receiver
  <2>3. CASE FileConnect \/ UnixConnect
    BY <1>0, <2>0, <2>3 DEF FileConnect, UnixConnect, receiver
  <2> QED
    BY <1>3, <2>1, <2>2, <2>3 DEF Prepare
<1>4. CASE \E ready \in SUBSET watched : Wake(ready)
  <2>1. /\ UNCHANGED <<kind, state, lines, got, line, todo, result>>
        /\ pc = "select" /\ pc' \in {"write", "check"}
    BY <1>4 DEF Wake, handler, receiver
  <2>2. CASE kind \in Net /\ Sendable /\ pc' = "write"
    <3> DEFINE n == MsgLen - todo
    <3>1. n \in 0 .. MsgLen
      BY <1>0 DEF TypeOK
    <3>2. line = <<>>
      BY <1>0, <2>1, <2>2
    <3>3. SubSeq(Whole, n + 1, n) = <<>>
      BY <3>1
    <3>4. \E s \in 0 .. n : line = SubSeq(Whole, s + 1, n)
      BY <3>1, <3>2, <3>3
    <3> QED
      BY <1>0, <2>1, <2>2, <3>4
  <2>3. CASE ~(kind \in Net /\ Sendable /\ pc' = "write")
    BY <1>0, <2>1, <2>3
  <2> QED
    BY <2>2, <2>3
<1>5. CASE Timeout
  BY <1>0, <1>5 DEF Timeout, handler, receiver
<1>6. CASE SelectError
  BY <1>0, <1>6 DEF SelectError, Return, handler, receiver
<1>7. ASSUME NEW k \in 1 .. MsgLen, WriteSome(k) PROVE Received'
  <2>0. k \in 1 .. todo /\ todo \in 0 .. MsgLen
    BY <1>0, <1>7 DEF WriteSome, Taken, TypeOK
  <2>1. /\ Taken(k) /\ kind' = kind /\ ~cut' /\ pc = "write"
        /\ k = todo => pc' = "idle" /\ result' = "ok"
        /\ k # todo => pc' = "write" /\ result' = result
    BY <2>0, <1>7 DEF WriteSome, Return
  <2>2. /\ k = todo => /\ line' = <<>>
                       /\ kind \in Net => IsSuffix(got', Whole)
                       /\ kind \notin Net => IsSuffix(Whole, got')
        /\ k # todo => /\ got' = got
                       /\ kind \in Net => \E s \in 0 .. MsgLen - todo' :
                                           line' = SubSeq(Whole, s + 1, MsgLen - todo')
                       /\ kind \notin Net => \E q \in {<<>>, <<0>>} :
                                              line' = q \o SubSeq(Whole, 1, MsgLen - todo')
    BY <2>1, TakenReceived
  <2>3. CASE k = todo
    BY <2>1, <2>2, <2>3
  <2>4. CASE k # todo
    BY <1>0, <2>1, <2>2, <2>4
  <2> QED
    BY <2>3, <2>4
<1>8. CASE WriteAgain
  BY <1>0, <1>8 DEF WriteAgain, receiver
<1>9. CASE WriteFails \/ WriteCut
  BY <1>0, <1>9 DEF WriteFails, WriteCut, handler, receiver
<1>10. CASE Check \/ Cleanup
  <2>0. UNCHANGED <<kind, todo, result, line, lines, got>> /\ pc \in {"check", "idle"}
    BY <1>10 DEF Check, Cleanup, receiver
  <2>1. CASE UNCHANGED handler /\ pc' \in {"top"} \cup Ended /\ (pc' = "top" => pc = "check")
    BY <1>0, <2>0, <2>1 DEF handler
  <2>2. CASE /\ NetDisconnect \/ FileDisconnect
             /\ pc' \in {"top", "cleaned"} /\ (pc' = "top" => pc = "check")
    BY <1>0, <2>0, <2>2 DEF NetDisconnect, FileDisconnect
  <2> QED
    BY <1>10, <2>1, <2>2 DEF Check, Cleanup, Disconnect
<1>11. CASE \E f \in Fds : OthersOpen(f) \/ OthersClose(f)
  <2>1. UNCHANGED <<kind, state, todo, cut, pc, result, line, lines, got>>
    BY <1>11 DEF OthersOpen, OthersClose, handler, receiver
  <2> QED
    BY <1>0, <2>1
<1> QED
  BY <1>1, <1>2, <1>3, <1>4, <1>5, <1>6, <1>7, <1>8, <1>9, <1>10, <1>11 DEF Next, Loop
-----------------------------------------------------------------------------
(* IInv is an invariant. *)
LEMMA SpecIInv == Spec => []IInv
<1>1. Init => IInv
  BY InitIInv
<1>2. IInv /\ [Next]_vars => IInv'
  <2>1. ASSUME IInv, Next PROVE IInv'
    BY <2>1, StepTypes, StepConnected, StepProgress, StepReceived DEF IInv
  <2>2. ASSUME IInv, UNCHANGED vars PROVE IInv'
    <3>1. (TypeOK /\ Counted /\ Connected /\ OneDescriptor /\ Progress)'
      BY <2>2 DEF IInv, TypeOK, Counted, Connected, OneDescriptor, Progress, LinesWhole,
                  Sendable, vars, handler, receiver
    <3>2. Received'
      BY <2>2 DEF IInv, Received, DeliveredEnds, Sendable, vars, handler, receiver
    <3> QED
      BY <3>1, <3>2 DEF IInv
  <2> QED
    BY <2>1, <2>2
<1> QED
  BY <1>1, <1>2, PTL DEF Spec

(* The variables of deliver_message and of its handler keep their types:   *)
(* the retries do not run below -1 nor the rest of the message below 0.    *)
THEOREM TypeCorrect == Spec => []TypeOK
<1>1. IInv => TypeOK
  BY DEF IInv
<1> QED
  BY <1>1, SpecIInv, PTL

(* Whatever calls fail and whatever descriptors other threads open and     *)
(* close, the handler has open the descriptor it knows and no other one:   *)
(* output_*_connect and output_*_disconnect leak nothing and close nothing *)
(* of another thread.                                                      *)
THEOREM OneDescriptorKept == Spec => []OneDescriptor
<1>1. IInv => OneDescriptor
  BY DEF IInv
<1> QED
  BY <1>1, SpecIInv, PTL

(* The Requires of the connect, write and disconnect methods hold, but     *)
(* with a stdout that is non-blocking.                                     *)
THEOREM RequiresHold == Spec => []NeverAborts
<1>1. IInv => NeverAborts
  BY DEF IInv, Connected, NeverAborts, Sendable
<1> QED
  BY <1>1, SpecIInv, PTL

(* After the first line of a connection every line on it is one message,   *)
(* for messages of any length and any sequence of partial writes, broken   *)
(* connections and failed calls.                                           *)
THEOREM LaterLinesWhole == Spec => []LinesWhole
<1>1. IInv => LinesWhole
  BY DEF IInv, Progress
<1> QED
  BY <1>1, SpecIInv, PTL

(* When deliver_message returns 1, write() has taken the newline of the    *)
(* message and nothing after it: a file has the whole of it as one line,   *)
(* after what an earlier call may have left; what a connection has as its  *)
(* line is an end of the message and of nothing else, whole only if the    *)
(* connection did not break in the middle of this message (that later      *)
(* lines are whole is LaterLinesWhole).                                    *)
THEOREM OkMeansDelivered == Spec => []DeliveredEnds
<1>1. IInv => DeliveredEnds
  BY DEF IInv, Received
<1> QED
  BY <1>1, SpecIInv, PTL
=============================================================================
