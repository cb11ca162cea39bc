---------------------------- MODULE Reader_proofs ----------------------------
(***************************************************************************)
(* Proofs about the reader: as long as at most one source of the command   *)
(* line closes descriptor 0, each handler reads its own input, select()    *)
(* finds all descriptors open, and the first handler removed after it is   *)
(* of a stream at its end, of a udp source that was sent an empty          *)
(* datagram, or of a listener, for any number of sources, connections and  *)
(* lines.                                                                  *)
(*                                                                         *)
(* The inductive invariant says who has a descriptor: a handler its own    *)
(* (Mine), of descriptor 0 only one source disposes (ZeroOnce), every      *)
(* socket is some handler's (Owned), no object has two descriptors (Once). *)
(* From that follow what the loop knows of the set that select() left      *)
(* (Nonstop, Genuine).  Mine, ZeroOnce and Owned are about the handlers    *)
(* from some index on: while the reader runs that is 1, in reader_cleanup  *)
(* the next handler to clean up (see Genbuf_proofs).                       *)
(***************************************************************************)
EXTENDS Reader, FiniteSetTheorems, SequenceTheorems, WellFoundedInduction, TLAPS

(* What may wait at an object, and which item ends a read() of it. *)
Final(o) == IF Kind(o) = "udp" THEN "empty" ELSE "eof"
Items(o) == IF Kind(o) = "tcp" THEN Conns ELSE {"line", Final(o)}

(* The inputs named on the command line, of some kinds, and the handlers   *)
(* there can be for them and for the connections.                          *)
Made(kinds) == {<<sources[k], k>> : k \in {j \in DOMAIN sources : sources[j] \in kinds}}

Handlers ==
       [fd : {0},             input : {Stdin} \cup Made({"file", "unix"})]
  \cup [fd : Nat \ {0, 1, 2}, input : Made({"udp", "tcp"})]
  \cup [fd : Nat \ {1, 2},    input : Conns]

(* What waits: at an input other than a listener not more than has been    *)
(* sent, and one end or empty datagram.                                    *)
Boxed ==
  /\ DOMAIN inbox = {Stdin} \cup Conns \cup Made({"file", "unix", "udp", "tcp"})
  /\ inbox = [o \in DOMAIN inbox |-> inbox[o]]
  /\ \A o \in DOMAIN inbox :
       /\ inbox[o] \in Seq(Items(o))
       /\ Kind(o) # "tcp" =>
            Len(inbox[o]) <= sent + (IF Final(o) \in Range(inbox[o]) THEN 1 ELSE 0)

(* The types of the other variables. *)
Plain ==
  /\ sources \in CommandLines /\ leftover \in Leftovers
  /\ DOMAIN files \subseteq Nat \ {1, 2} /\ IsFiniteSet(DOMAIN files)
  /\ sent \in 0 .. MaxLines /\ connected \in 0 .. MaxConns
  /\ fds \subseteq Nat
  /\ i \in 1 .. count + 1 /\ count \in 0 .. Len(handlers) /\ rescan \in BOOLEAN
  /\ held \in 0 .. MaxLines
  /\ pc \in {"scan", "report", "remove", "select", "recover", "done", "dead"}
  /\ cancelled \in BOOLEAN
  /\ queue \in Seq({"line", "end"})

Typed == Plain /\ Boxed /\ handlers \in Seq(Handlers)

(* How the loop variables go with the place in the loop. *)
Scanned ==
  /\ pc \in {"report", "remove"} => i <= count
  /\ pc \in {"select", "recover"} => count = Len(handlers)
  /\ pc = "report" => held >= 1
  /\ pc = "select" => fds = {h.fd : h \in Range(handlers)}

(* A descriptor that several sources may close. *)
Contested(n) == n = 0 /\ ~Apart

(* The handlers from some index on read their own inputs, but through a    *)
(* contested descriptor.                                                   *)
Mine(from) ==
  \A k \in from .. Len(handlers) : ~Contested(handlers[k].fd) => ReadsOwn(k)

(* Of the handlers from some index on at most one is to close descriptor   *)
(* 0, and none of the logger's is behind it.                               *)
ZeroOnce(from) ==
  Apart => \A k \in from .. Len(handlers) : Closed(handlers[k]) = 0 =>
             /\ At(0) \in {Stdin} \cup Conns
             /\ \A l \in (from .. Len(handlers)) \ {k} : Closed(handlers[l]) # 0

(* Every connection and every udp socket is of one of these handlers. *)
Owned(from) ==
  Apart => \A n \in DOMAIN files : Kind(files[n]) \in {"conn", "udp"} =>
             \E k \in from .. Len(handlers) : Closed(handlers[k]) = n

(* select() finds no descriptor closed. *)
Nonstop == Apart => pc # "recover"

(* An input has one descriptor, and a connection waits at one listener     *)
(* before it has one.                                                      *)
Listeners == {o \in DOMAIN inbox : Kind(o) = "tcp"}

Once ==
  /\ \A n \in DOMAIN files : \A m \in DOMAIN files \ {n} :
        files[n] \in DOMAIN inbox => files[m] # files[n]
  /\ \A l \in Listeners : \A p \in DOMAIN inbox[l] :
       /\ \A n \in DOMAIN files : files[n] # inbox[l][p]
       /\ \A o \in Listeners : \A q \in DOMAIN inbox[o] :
            <<o, q>> # <<l, p>> => inbox[o][q] # inbox[l][p]
  /\ \A c \in connected + 1 .. MaxConns :
       /\ \A n \in DOMAIN files : files[n] # <<"conn", c>>
       /\ \A l \in Listeners : <<"conn", c>> \notin Range(inbox[l])

(* Until a handler is removed, those still to be called have something to  *)
(* read, and the one that is to be removed is at its end, or at an empty   *)
(* datagram.                                                               *)
Genuine ==
  Apart /\ ~rescan =>
    /\ pc \in {"scan", "report"} =>
         \A k \in (IF pc = "scan" THEN i ELSE i + 1) .. count :
           handlers[k].fd \in fds /\ Kind(handlers[k].input) # "tcp" =>
             Waiting(handlers[k].fd) # <<>>
    /\ pc = "remove" /\ Kind(handlers[i].input) \in {"stdin", "udp", "conn"} =>
         Waits(handlers[i].input, Final(handlers[i].input))

RInv ==
  /\ Typed /\ Scanned
  /\ Mine(1) /\ ZeroOnce(1) /\ Owned(1)
  /\ Nonstop /\ Once /\ Genuine
-----------------------------------------------------------------------------
(* A set of naturals has a least element, and Min is it. *)
LEMMA MinIsLeast ==
  ASSUME NEW S, S \subseteq Nat, S # {}
  PROVE  Min(S) \in S /\ \A n \in S : Min(S) <= n
<1> DEFINE R == OpToRel(<, Nat)
<1>1. IsWellFoundedOn(R, Nat)
  BY NatLessThanWellFounded
<1>2. PICK m \in S : \A n \in S : <<n, m>> \notin R
  <2> HIDE DEF R
  <2> QED
    BY <1>1, WFMin
<1>3. \A n \in S : ~(n < m)
  BY <1>2 DEF OpToRel
<1>4. \E x \in S : \A y \in S : x <= y
  BY <1>3
<1> QED
  BY <1>4 DEF Min

(* RemoveAt takes one element out. *)
LEMMA Removed ==
  ASSUME NEW S, NEW s \in Seq(S), NEW j \in 1 .. Len(s)
  PROVE  /\ RemoveAt(s, j) \in Seq(S)
         /\ Len(RemoveAt(s, j)) = Len(s) - 1
         /\ \A k \in 1 .. Len(s) - 1 :
              RemoveAt(s, j)[k] = IF k < j THEN s[k] ELSE s[k + 1]
<1> DEFINE p == SubSeq(s, 1, j - 1)
           q == SubSeq(s, j + 1, Len(s))
<1>1. Len(s) \in Nat
  OBVIOUS
<1>2. p \in Seq(S) /\ Len(p) = j - 1 /\ \A k \in 1 .. j - 1 : p[k] = s[k]
  BY <1>1
<1>3. q \in Seq(S) /\ Len(q) = Len(s) - j /\ \A k \in 1 .. Len(s) - j : q[k] = s[j + k]
  BY <1>1
<1> HIDE DEF p, q
<1>4. /\ p \o q \in Seq(S)
      /\ Len(p \o q) = Len(s) - 1
      /\ \A k \in 1 .. Len(s) - 1 : (p \o q)[k] = IF k <= j - 1 THEN p[k] ELSE q[k - (j - 1)]
  <2>1. /\ p \o q \in Seq(S)
        /\ Len(p \o q) = Len(p) + Len(q)
        /\ \A k \in 1 .. Len(p) + Len(q) :
             (p \o q)[k] = IF k <= Len(p) THEN p[k] ELSE q[k - Len(p)]
    BY <1>2, <1>3, ConcatProperties
  <2>2. Len(p) + Len(q) = Len(s) - 1 /\ Len(p) = j - 1
    BY <1>1, <1>2, <1>3
  <2> QED
    BY <2>1, <2>2
<1>5. \A k \in 1 .. Len(s) - 1 : (p \o q)[k] = IF k < j THEN s[k] ELSE s[k + 1]
  <2> SUFFICES ASSUME NEW k \in 1 .. Len(s) - 1
               PROVE  (p \o q)[k] = IF k < j THEN s[k] ELSE s[k + 1]
    OBVIOUS
  <2>1. CASE k < j
    BY <1>1, <1>2, <1>4, <2>1
  <2>2. CASE ~(k < j)
    <3>1. k - (j - 1) \in 1 .. Len(s) - j /\ j + (k - (j - 1)) = k + 1 /\ ~(k <= j - 1)
      BY <1>1, <2>2
    <3> QED
      BY <1>3, <1>4, <2>2, <3>1
  <2> QED
    BY <2>1, <2>2
<1> QED
  BY <1>4, <1>5 DEF RemoveAt, p, q

(* A descriptor that is free, and what a new one is. *)
LEMMA LowestIsFree ==
  ASSUME IsFiniteSet(DOMAIN files), DOMAIN files \subseteq Nat
  PROVE  Lowest \in Nat \ {1, 2} /\ Lowest \notin DOMAIN files
<1> DEFINE D == DOMAIN files
           c == Cardinality(D)
           U == {1, 2} \cup D
           C == (0 .. 3 + c) \ U
<1>1. c \in Nat
  BY FS_CardinalityType
<1>2. IsFiniteSet({1, 2}) /\ Cardinality({1, 2}) <= 2
  <2>1. {1, 2} = 1 .. 2
    OBVIOUS
  <2>2. IsFiniteSet(1 .. 2) /\ Cardinality(1 .. 2) = 2
    <3>1. 1 \in Int /\ 2 \in Int
      OBVIOUS
    <3>2. /\ IsFiniteSet(1 .. 2)
          /\ Cardinality(1 .. 2) = IF 1 > 2 THEN 0 ELSE 2 - 1 + 1
      BY <3>1, FS_Interval
    <3> QED
      BY <3>2
  <2> QED
    BY <2>1, <2>2
<1>3. IsFiniteSet(U) /\ Cardinality(U) <= c + 2
  <2>1. /\ IsFiniteSet({1, 2} \cup D)
        /\ Cardinality({1, 2} \cup D) = Cardinality({1, 2}) + c - Cardinality({1, 2} \cap D)
    BY <1>2, FS_Union
  <2>2. Cardinality({1, 2} \cap D) \in Nat /\ Cardinality({1, 2}) \in Nat
    BY <1>2, FS_Intersection, FS_CardinalityType
  <2> QED
    BY <1>1, <1>2, <2>1, <2>2
<1>4. Cardinality(0 .. 3 + c) = c + 4
  BY <1>1, FS_Interval
<1>5. C # {}
  <2> SUFFICES ASSUME C = {} PROVE FALSE
    OBVIOUS
  <2>1. (0 .. 3 + c) \in SUBSET U
    OBVIOUS
  <2>2. Cardinality(0 .. 3 + c) <= Cardinality(U)
    BY <1>3, <2>1, FS_Subset
  <2>3. Cardinality(U) \in Nat
    BY <1>3, FS_CardinalityType
  <2> QED
    BY <1>1, <1>3, <1>4, <2>2, <2>3
<1>6. C \subseteq Nat
  BY <1>1
<1>7. Lowest = Min(C)
  BY DEF Lowest
<1>8. Min(C) \in C
  BY <1>5, <1>6, MinIsLeast
<1> QED
  BY <1>6, <1>7, <1>8

(* The numbers of the sources: each that opens one has its own, from 3 on. *)
LEMMA NumberGrows ==
  ASSUME NEW s \in Seq(Kinds), NEW k \in DOMAIN s
  PROVE  /\ Number(s, k) \in Nat /\ Number(s, k) <= 2 + Len(s)
         /\ s[k] # "stdin" => /\ Number(s, k) >= 3
                              /\ \A j \in DOMAIN s : j < k => Number(s, j) < Number(s, k)
<1> DEFINE N(j) == {l \in 1 .. j : s[l] # "stdin"}
<1>1. Len(s) \in Nat /\ DOMAIN s = 1 .. Len(s)
  OBVIOUS
<1>2. ASSUME NEW j \in 0 .. Len(s)
      PROVE  IsFiniteSet(N(j)) /\ Cardinality(N(j)) \in Nat /\ Cardinality(N(j)) <= j
  <2>1. IsFiniteSet(1 .. j) /\ Cardinality(1 .. j) = IF 1 > j THEN 0 ELSE j - 1 + 1
    BY FS_Interval
  <2>2. N(j) \in SUBSET (1 .. j)
    OBVIOUS
  <2>3. IsFiniteSet(N(j)) /\ Cardinality(N(j)) <= Cardinality(1 .. j)
    BY <2>1, <2>2, FS_Subset
  <2>4. Cardinality(N(j)) \in Nat
    BY <2>3, FS_CardinalityType
  <2>5. Cardinality(1 .. j) = j
    BY <2>1
  <2> QED
    BY <2>3, <2>4, <2>5
<1>3. ASSUME s[k] # "stdin", NEW j \in 0 .. Len(s), j < k
      PROVE  Cardinality(N(j)) < Cardinality(N(k))
  <2>1. N(j) \in SUBSET N(k) /\ k \in N(k) /\ k \notin N(j)
    BY <1>1, <1>3
  <2>2. k \in 0 .. Len(s)
    BY <1>1
  <2>3. Cardinality(N(j)) <= Cardinality(N(k)) /\ Cardinality(N(k)) # Cardinality(N(j))
    BY <1>2, <2>1, <2>2, FS_Subset
  <2> QED
    BY <1>2, <2>2, <2>3
<1>4. /\ \A j \in DOMAIN s : Number(s, j) = 2 + Cardinality(N(j))
      /\ k \in 0 .. Len(s) /\ 0 \in 0 .. Len(s)
      /\ \A j \in DOMAIN s : j \in 0 .. Len(s)
  BY <1>1 DEF Number
<1>5. Number(s, k) \in Nat /\ Number(s, k) <= 2 + Len(s)
  <2>1. Cardinality(N(k)) \in Nat /\ Cardinality(N(k)) <= k
    BY <1>2, <1>4
  <2> QED
    BY <1>1, <1>4, <2>1
<1>6. ASSUME s[k] # "stdin" PROVE Number(s, k) >= 3
  <2>1. Cardinality(N(0)) < Cardinality(N(k))
    BY <1>1, <1>3, <1>4, <1>6
  <2>2. Cardinality(N(0)) \in Nat /\ Cardinality(N(k)) \in Nat
    BY <1>2, <1>4
  <2> QED
    BY <1>4, <2>1, <2>2
<1>7. ASSUME s[k] # "stdin", NEW j \in DOMAIN s, j < k PROVE Number(s, j) < Number(s, k)
  <2>1. Cardinality(N(j)) < Cardinality(N(k))
    BY <1>3, <1>4, <1>7
  <2>2. Cardinality(N(j)) \in Nat /\ Cardinality(N(k)) \in Nat
    BY <1>2, <1>4
  <2> QED
    BY <1>4, <2>1, <2>2
<1> QED
  BY <1>5, <1>6, <1>7

-----------------------------------------------------------------------------
(* What the first state has open: stdin, and the sources that open one,    *)
(* each at its number.                                                     *)
LEMMA InitFiles ==
  ASSUME Init
  PROVE  /\ sources \in Seq(Kinds)
         /\ DOMAIN files \subseteq Nat \ {1, 2} /\ IsFiniteSet(DOMAIN files)
         /\ 0 \in DOMAIN files /\ files[0] = Stdin
         /\ \A k \in Opening(sources) : /\ Number(sources, k) \in DOMAIN files \ {0}
                                        /\ files[Number(sources, k)] = <<sources[k], k>>
         /\ \A n \in DOMAIN files : n = 0 \/ \E k \in Opening(sources) : n = Number(sources, k)
<1>1. sources \in Seq(Kinds)
  BY ReaderAssumption DEF Init
<1>2. Len(sources) \in Nat /\ DOMAIN sources = 1 .. Len(sources) /\ Opening(sources) \subseteq DOMAIN sources
  BY <1>1 DEF Opening
<1>3. \A k \in Opening(sources) :
        /\ Number(sources, k) \in Nat /\ Number(sources, k) <= 2 + Len(sources)
        /\ Number(sources, k) >= 3
        /\ \A j \in Opening(sources) : j < k => Number(sources, j) < Number(sources, k)
  BY <1>1, <1>2, NumberGrows DEF Opening
<1>4. \A j, k \in Opening(sources) : Number(sources, j) = Number(sources, k) => j = k
  <2> SUFFICES ASSUME NEW j \in Opening(sources), NEW k \in Opening(sources), j # k
               PROVE  Number(sources, j) # Number(sources, k)
    OBVIOUS
  <2>1. j < k \/ k < j
    BY <1>2
  <2> QED
    BY <1>3, <2>1
<1> DEFINE D == {0} \cup {Number(sources, k) : k \in Opening(sources)}
           src(n) == CHOOSE k \in Opening(sources) : Number(sources, k) = n
<1>5. files = [n \in D |-> IF n = 0 THEN Stdin ELSE <<sources[src(n)], src(n)>>]
  BY DEF Init
<1>6. \A k \in Opening(sources) : src(Number(sources, k)) = k
  BY <1>4
<1>7. D \subseteq 0 .. 2 + Len(sources)
  BY <1>2, <1>3
<1>8. IsFiniteSet(D)
  <2>1. IsFiniteSet(0 .. 2 + Len(sources))
    BY <1>2, FS_Interval
  <2> QED
    BY <1>7, <2>1, FS_Subset
<1>9. D \subseteq Nat \ {1, 2}
  BY <1>2, <1>3
<1>10. ASSUME NEW k \in Opening(sources)
       PROVE  /\ Number(sources, k) \in D \ {0}
              /\ files[Number(sources, k)] = <<sources[k], k>>
  <2>1. Number(sources, k) \in D \ {0}
    BY <1>3
  <2> HIDE DEF D, src
  <2>2. files[Number(sources, k)] = <<sources[src(Number(sources, k))], src(Number(sources, k))>>
    BY <1>5, <2>1
  <2> QED
    BY <1>6, <2>1, <2>2
<1>11. DOMAIN files = D /\ files[0] = Stdin /\ 0 \in D
  <2>1. 0 \in D
    OBVIOUS
  <2> HIDE DEF D, src
  <2> QED
    BY <1>5, <2>1
<1> QED
  BY <1>1, <1>8, <1>9, <1>10, <1>11

(* ... and the handlers it has, one for each source, in order. *)
LEMMA InitHandlers ==
  ASSUME Init
  PROVE  /\ handlers \in Seq(Handlers) /\ Len(handlers) = Len(sources)
         /\ \A k \in 1 .. Len(sources) :
              /\ sources[k] \in {"stdin", "file", "unix"} => handlers[k].fd = 0
              /\ sources[k] \in {"udp", "tcp"} =>
                   k \in Opening(sources) /\ handlers[k].fd = Number(sources, k)
              /\ handlers[k].input = IF sources[k] = "stdin" THEN Stdin ELSE <<sources[k], k>>
<1>1. sources \in Seq(Kinds) /\ handlers = Sources(sources)
  BY ReaderAssumption DEF Init
<1>2. Len(sources) \in Nat /\ DOMAIN sources = 1 .. Len(sources)
      /\ \A k \in 1 .. Len(sources) : sources[k] \in Kinds
  BY <1>1
<1>3. handlers = [k \in 1 .. Len(sources) |-> Create(sources, k)]
  BY <1>1, <1>2 DEF Sources
<1>4. ASSUME NEW k \in 1 .. Len(sources)
      PROVE  /\ Create(sources, k) \in Handlers
             /\ sources[k] \in {"stdin", "file", "unix"} => Create(sources, k).fd = 0
             /\ sources[k] \in {"udp", "tcp"} =>
                  k \in Opening(sources) /\ Create(sources, k).fd = Number(sources, k)
             /\ Create(sources, k).input = IF sources[k] = "stdin" THEN Stdin
                                           ELSE <<sources[k], k>>
  <2>1. CASE sources[k] = "stdin"
    BY <1>2, <2>1 DEF Create, Handlers, FileFd
  <2>2. CASE sources[k] \in {"file", "unix"}
    <3>1. Create(sources, k) = [fd |-> 0, input |-> <<sources[k], k>>]
      BY <2>2 DEF Create, FileFd, UnixFd
    <3>2. <<sources[k], k>> \in Made({"file", "unix"})
      BY <1>2, <2>2 DEF Made
    <3> QED
      BY <2>2, <3>1, <3>2 DEF Handlers
  <2>3. CASE sources[k] \in {"udp", "tcp"}
    <3>1. Create(sources, k) = [fd |-> Number(sources, k), input |-> <<sources[k], k>>]
      BY <2>3 DEF Create, SocketFd
    <3>2. <<sources[k], k>> \in Made({"udp", "tcp"})
      BY <1>2, <2>3 DEF Made
    <3>3. Number(sources, k) \in Nat \ {0, 1, 2}
      BY <1>1, <1>2, <2>3, NumberGrows
    <3>4. k \in Opening(sources)
      BY <1>2, <2>3 DEF Opening
    <3> QED
      BY <2>3, <3>1, <3>2, <3>3, <3>4 DEF Handlers
  <2> QED
    BY <1>2, <2>1, <2>2, <2>3 DEF Kinds
<1>5. handlers \in Seq(Handlers) /\ Len(handlers) = Len(sources)
  <2>1. \A k \in 1 .. Len(sources) : Create(sources, k) \in Handlers
    BY <1>4
  <2> QED
    BY <1>2, <1>3, <2>1
<1> QED
  BY <1>3, <1>4, <1>5

(* The objects there are, by kind. *)
LEMMA ObjectKinds ==
  /\ Kind(Stdin) = "stdin" /\ Kind(Nowhere) = "none"
  /\ \A o \in Conns : Kind(o) = "conn"
  /\ \A kinds : \A o \in Made(kinds) : Kind(o) \in kinds /\ o \in Objects
  /\ \A kinds, others : kinds \subseteq others => Made(kinds) \subseteq Made(others)
<1>1. Kind(Stdin) = "stdin" /\ Kind(Nowhere) = "none"
  BY DEF Kind, Stdin, Nowhere
<1>2. \A o \in Conns : Kind(o) = "conn"
  BY DEF Conns, Kind
<1>3. \A kinds : \A o \in Made(kinds) : Kind(o) \in kinds /\ o \in Objects
  BY DEF Made, Kind, Objects
<1>4. \A kinds, others : kinds \subseteq others => Made(kinds) \subseteq Made(others)
  BY DEF Made
<1> QED
  BY <1>1, <1>2, <1>3, <1>4

(* What can be in the table. *)
LEMMA HandlerShape ==
  ASSUME NEW h \in Handlers
  PROVE  /\ h.fd \in Nat \ {1, 2}
         /\ h.input \in Objects
         /\ h.input \in {Stdin} \cup Conns \cup Made({"file", "unix", "udp", "tcp"})
         /\ Kind(h.input) \in {"stdin", "file", "unix", "udp", "tcp", "conn"}
         /\ Kind(h.input) = "stdin" => h.input = Stdin
         /\ Kind(h.input) \in {"stdin", "file", "unix"} => h.fd = 0
         /\ Kind(h.input) \in {"udp", "tcp"} => h.fd # 0
         /\ Kind(h.input) = "conn" => h.input \in Conns
         /\ Kind(h.input) # "tcp" => Closed(h) = h.fd
         /\ Kind(h.input) = "tcp" => Closed(h) = leftover
<1>1. /\ \A o \in Made({"file", "unix"}) : Kind(o) \in {"file", "unix"} /\ o \in Objects
      /\ \A o \in Made({"udp", "tcp"}) : Kind(o) \in {"udp", "tcp"} /\ o \in Objects
      /\ Made({"file", "unix"}) \subseteq Made({"file", "unix", "udp", "tcp"})
      /\ Made({"udp", "tcp"}) \subseteq Made({"file", "unix", "udp", "tcp"})
  BY ObjectKinds
<1>2. Stdin \in Objects /\ Conns \subseteq Objects
  BY DEF Objects
<1>3. /\ Kind(h.input) # "tcp" => Closed(h) = h.fd
      /\ Kind(h.input) = "tcp" => Closed(h) = leftover
  BY DEF Closed
<1>4. CASE h \in [fd : {0}, input : {Stdin} \cup Made({"file", "unix"})]
  BY <1>1, <1>2, <1>3, <1>4, ObjectKinds
<1>5. CASE h \in [fd : Nat \ {0, 1, 2}, input : Made({"udp", "tcp"})]
  BY <1>1, <1>2, <1>3, <1>5
<1>6. CASE h \in [fd : Nat \ {1, 2}, input : Conns]
  BY <1>2, <1>3, <1>6, ObjectKinds
<1> QED
  BY <1>4, <1>5, <1>6 DEF Handlers

(* With at most one claim no two sources claim descriptor 0. *)
LEMMA OneClaim ==
  ASSUME Apart, sources \in Seq(Kinds), NEW k \in Claims, NEW l \in Claims
  PROVE  k = l
<1> SUFFICES ASSUME k # l PROVE FALSE
  OBVIOUS
<1>1. Len(sources) \in Nat /\ Claims \in SUBSET (1 .. Len(sources))
  BY DEF Claims
<1>2. IsFiniteSet(1 .. Len(sources))
  BY <1>1, FS_Interval
<1>3. IsFiniteSet(Claims)
  BY <1>1, <1>2, FS_Subset
<1>4. IsFiniteSet({k}) /\ Cardinality({k}) = 1
  BY FS_Singleton
<1>5. Cardinality({k} \cup {l}) = 2
  <2> DEFINE K == {k}
  <2>1. l \notin K /\ IsFiniteSet(K) /\ Cardinality(K) = 1
    BY <1>4
  <2> HIDE DEF K
  <2>2. Cardinality(K \cup {l}) = Cardinality(K) + 1
    BY <2>1, FS_AddElement
  <2>3. Cardinality(K \cup {l}) = 2
    BY <2>1, <2>2
  <2> QED
    BY <2>3, Zenon DEF K
<1>6. Cardinality({k} \cup {l}) <= Cardinality(Claims)
  <2>1. ({k} \cup {l}) \in SUBSET Claims
    OBVIOUS
  <2> QED
    BY <1>3, <2>1, FS_Subset
<1>7. Cardinality(Claims) \in Nat
  BY <1>3, FS_CardinalityType
<1>8. 2 <= Cardinality(Claims)
  BY <1>5, <1>6
<1>9. Cardinality(Claims) <= 1
  BY DEF Apart
<1> HIDE DEF Claims
<1> QED
  BY <1>7, <1>8, <1>9

(* The types of the invariant are those of the run. *)
LEMMA TypedIsTypeOK == Typed => TypeOK
<1> SUFFICES ASSUME Typed PROVE TypeOK
  OBVIOUS
<1>1. DOMAIN inbox \subseteq Objects
  BY ObjectKinds DEF Typed, Boxed, Objects
<1>2. \A o \in DOMAIN inbox :
        Range(inbox[o]) \subseteq CASE Kind(o) = "tcp" -> Conns
                                    [] Kind(o) = "udp" -> {"line", "empty"}
                                    [] OTHER           -> {"line", "eof"}
  <2> SUFFICES ASSUME NEW o \in DOMAIN inbox PROVE Range(inbox[o]) \subseteq Items(o)
    BY DEF Items, Final
  <2>1. inbox[o] \in Seq(Items(o))
    BY DEF Typed, Boxed
  <2> QED
    BY <2>1 DEF Range
<1>3. \A h \in Range(handlers) : h.fd \in Nat /\ h.input \in Objects
  <2>1. \A h \in Range(handlers) : h \in Handlers
    BY DEF Typed, Range
  <2> QED
    BY <2>1, HandlerShape
<1> QED
  BY <1>1, <1>2, <1>3 DEF Typed, Plain, TypeOK

(* The first state satisfies the invariant. *)
LEMMA InitRInv == Init => RInv
<1> SUFFICES ASSUME Init PROVE RInv
  OBVIOUS
<1> DEFINE n(k) == Number(sources, k)
           all == Made({"file", "unix", "udp", "tcp"})
<1>1. /\ sources \in Seq(Kinds) /\ Len(sources) \in Nat /\ DOMAIN sources = 1 .. Len(sources)
      /\ \A k \in 1 .. Len(sources) : sources[k] \in Kinds
      /\ handlers \in Seq(Handlers) /\ Len(handlers) = Len(sources)
      /\ \A k \in 1 .. Len(sources) : handlers[k] \in Handlers
      /\ DOMAIN handlers = 1 .. Len(sources)
      /\ leftover \in {Bad, 0} /\ Bad \notin Nat
  <2>1. /\ sources \in Seq(Kinds) /\ handlers \in Seq(Handlers)
        /\ Len(handlers) = Len(sources)
    BY InitFiles, InitHandlers
  <2>2. leftover \in {Bad, 0} /\ Bad \notin Nat
    BY ReaderAssumption DEF Init
  <2> QED
    BY <2>1, <2>2
<1>2. \A k \in Opening(sources) : <<sources[k], k>> \in all
  BY <1>1 DEF Opening, Made, Kinds
<1>3. \A o \in all : \E k \in Opening(sources) : o = <<sources[k], k>>
  BY DEF Made, Opening
<1>4. DOMAIN inbox = {Stdin} \cup Conns \cup all
  <2> HIDE DEF all
  <2>1. DOMAIN inbox = {files[m] : m \in DOMAIN files} \cup Conns
    BY DEF Init
  <2>2. {files[m] : m \in DOMAIN files} = {Stdin} \cup all
    <3>1. \A m \in DOMAIN files : files[m] \in {Stdin} \cup all
      BY InitFiles, <1>2
    <3>2. ASSUME NEW o \in all PROVE \E m \in DOMAIN files : files[m] = o
      <4>1. PICK k \in Opening(sources) : o = <<sources[k], k>>
        BY <1>3
      <4> QED
        BY <4>1, InitFiles
    <3> QED
      BY <3>1, <3>2, InitFiles
  <2> QED
    BY <2>1, <2>2
<1>5. inbox = [o \in DOMAIN inbox |-> <<>>]
  BY DEF Init
<1> HIDE DEF all
<1>7. Typed
  <2>1. Plain
    <3>3. queue \in Seq({"line", "end"})
      BY DEF Init
    <3>4. /\ sources \in CommandLines /\ leftover \in Leftovers /\ sent = 0 /\ connected = 0
          /\ fds = {} /\ i = 1 /\ count = Len(handlers) /\ rescan = FALSE /\ held = 0
          /\ pc = "scan" /\ cancelled = FALSE
      BY DEF Init
    <3>5. DOMAIN files \subseteq Nat \ {1, 2} /\ IsFiniteSet(DOMAIN files)
      BY InitFiles
    <3>6. Len(handlers) \in Nat /\ MaxLines \in Nat /\ MaxConns \in Nat
      BY <1>1, ReaderAssumption
    <3>7. /\ sent \in 0 .. MaxLines /\ connected \in 0 .. MaxConns /\ held \in 0 .. MaxLines
          /\ i \in 1 .. count + 1 /\ count \in 0 .. Len(handlers)
      BY <3>4, <3>6
    <3>8. fds \subseteq Nat /\ rescan \in BOOLEAN /\ cancelled \in BOOLEAN
      BY <3>4
    <3> QED
      BY <3>3, <3>4, <3>5, <3>7, <3>8 DEF Plain
  <2>2. inbox = [o \in DOMAIN inbox |-> inbox[o]]
    BY <1>5
  <2>3. ASSUME NEW o \in DOMAIN inbox
        PROVE  /\ inbox[o] \in Seq(Items(o))
               /\ Kind(o) # "tcp" =>
                    Len(inbox[o]) <= sent + (IF Final(o) \in Range(inbox[o]) THEN 1 ELSE 0)
    <3>1. inbox[o] = <<>> /\ sent = 0 /\ Len(inbox[o]) = 0
      BY <1>5 DEF Init
    <3> QED
      BY <3>1
  <2> QED
    BY <1>1, <1>4, <2>1, <2>2, <2>3 DEF Typed, Boxed, all
<1>8. Scanned /\ Nonstop /\ Genuine
  BY DEF Init, Scanned, Nonstop, Genuine
<1>9. ASSUME NEW k \in 1 .. Len(sources), ~Contested(handlers[k].fd)
      PROVE  ReadsOwn(k)
  <2>1. CASE sources[k] \in {"udp", "tcp"}
    <3>1. /\ k \in Opening(sources) /\ handlers[k].fd = n(k)
          /\ handlers[k].input = <<sources[k], k>>
      BY <2>1, InitHandlers
    <3>2. /\ n(k) \in DOMAIN files \ {0} /\ files[n(k)] = <<sources[k], k>>
          /\ Kind(handlers[k].input) = sources[k]
      BY <3>1, InitFiles DEF Kind
    <3>3. ASSUME NEW l \in (1 .. Len(sources)) \ {k} PROVE handlers[l].fd # n(k)
      <4>1. CASE sources[l] \in {"stdin", "file", "unix"}
        BY <3>2, <4>1, InitHandlers
      <4>2. CASE sources[l] \in {"udp", "tcp"}
        <5>1. l \in Opening(sources) /\ handlers[l].fd = n(l)
          BY <4>2, InitHandlers
        <5>2. files[n(l)] = <<sources[l], l>>
          BY <5>1, InitFiles
        <5> QED
          BY <3>2, <5>1, <5>2
      <4> QED
        BY <1>1, <4>1, <4>2 DEF Kinds
    <3> QED
      BY <1>1, <2>1, <3>1, <3>2, <3>3 DEF ReadsOwn, At
  <2>2. CASE sources[k] \in {"stdin", "file", "unix"}
    <3>1. /\ handlers[k].fd = 0 /\ Apart
          /\ handlers[k].input = IF sources[k] = "stdin" THEN Stdin ELSE <<sources[k], k>>
      BY <1>9, <2>2, InitHandlers DEF Contested
    <3>2. At(0) = Stdin
      BY InitFiles DEF At
    <3>3. Kind(handlers[k].input) \in {"file", "unix"} \/ handlers[k].input = Stdin
      BY <2>2, <3>1 DEF Kind
    <3>4. k \in Claims
      BY <1>1, <2>2 DEF Claims
    <3>5. ASSUME NEW l \in (1 .. Len(sources)) \ {k} PROVE handlers[l].fd # 0
      <4>1. CASE sources[l] \in {"stdin", "file", "unix"}
        <5>1. l \in Claims
          BY <1>1, <4>1 DEF Claims
        <5> QED
          BY <1>1, <3>1, <3>4, <5>1, OneClaim
      <4>2. CASE sources[l] \in {"udp", "tcp"}
        BY <4>2, InitHandlers, InitFiles
      <4> QED
        BY <1>1, <4>1, <4>2 DEF Kinds
    <3> QED
      BY <1>1, <3>1, <3>2, <3>3, <3>5 DEF ReadsOwn
  <2> QED
    BY <1>1, <2>1, <2>2 DEF Kinds
<1>10. ASSUME Apart, NEW k \in 1 .. Len(sources), Closed(handlers[k]) = 0
       PROVE  k \in Claims
  <2>1. CASE sources[k] = "udp"
    <3>1. /\ handlers[k].input = <<"udp", k>> /\ handlers[k].fd = n(k)
          /\ k \in Opening(sources)
      BY <2>1, InitHandlers
    <3>2. Closed(handlers[k]) = n(k)
      BY <3>1 DEF Closed, Kind
    <3> QED
      BY <1>10, <3>1, <3>2, InitFiles
  <2>2. CASE sources[k] = "tcp"
    <3>1. handlers[k].input = <<"tcp", k>>
      BY <2>2, InitHandlers
    <3>2. Closed(handlers[k]) = leftover
      BY <3>1 DEF Closed, Kind
    <3> QED
      BY <1>1, <1>10, <2>2, <3>2 DEF Claims
  <2>3. CASE sources[k] \in {"stdin", "file", "unix"}
    BY <1>1, <2>3 DEF Claims
  <2> QED
    BY <1>1, <2>1, <2>2, <2>3 DEF Kinds
<1>11. ZeroOnce(1)
  <2>1. At(0) = Stdin
    BY InitFiles DEF At
  <2> QED
    BY <1>1, <1>10, <2>1, OneClaim DEF ZeroOnce
<1>12. Owned(1)
  <2> SUFFICES ASSUME NEW m \in DOMAIN files, Kind(files[m]) \in {"conn", "udp"}
               PROVE  \E k \in 1 .. Len(handlers) : Closed(handlers[k]) = m
    BY DEF Owned
  <2>1. PICK k \in Opening(sources) : m = n(k)
    BY InitFiles, ObjectKinds
  <2>2. k \in 1 .. Len(sources) /\ sources[k] = "udp"
    <3>1. files[m] = <<sources[k], k>> /\ k \in 1 .. Len(sources)
      BY <1>1, <2>1, InitFiles DEF Opening
    <3> QED
      BY <1>1, <3>1 DEF Kind, Kinds
  <2>3. handlers[k].fd = m /\ handlers[k].input = <<"udp", k>>
    BY <2>1, <2>2, InitHandlers
  <2>4. Closed(handlers[k]) = m
    BY <2>3 DEF Closed, Kind
  <2> QED
    BY <1>1, <2>2, <2>4
<1>13. Once
  <2>1. ASSUME NEW a \in DOMAIN files, NEW b \in DOMAIN files \ {a} PROVE files[b] # files[a]
    <3>1. \A k \in Opening(sources) : files[n(k)] = <<sources[k], k>> /\ k \in 1 .. Len(sources)
      BY <1>1, InitFiles DEF Opening
    <3>2. \A k \in Opening(sources) : files[n(k)] # Stdin
      BY <1>1, <3>1 DEF Stdin
    <3>3. CASE a = 0
      BY <3>2, <3>3, InitFiles
    <3>4. CASE b = 0
      BY <3>2, <3>4, InitFiles
    <3>5. CASE a # 0 /\ b # 0
      <4>1. PICK k \in Opening(sources) : a = n(k)
        BY <3>5, InitFiles
      <4>2. PICK l \in Opening(sources) : b = n(l)
        BY <3>5, InitFiles
      <4> QED
        BY <3>1, <4>1, <4>2
    <3> QED
      BY <3>3, <3>4, <3>5
  <2>2. \A o \in DOMAIN inbox : DOMAIN inbox[o] = {} /\ Range(inbox[o]) = {}
    BY <1>5 DEF Range
  <2>3. \A m \in DOMAIN files : \A c : files[m] # <<"conn", c>>
    <3> SUFFICES ASSUME NEW m \in DOMAIN files, NEW c, files[m] = <<"conn", c>> PROVE FALSE
      OBVIOUS
    <3>1. CASE m = 0
      BY <3>1, InitFiles DEF Stdin
    <3>2. CASE m # 0
      <4>1. PICK k \in Opening(sources) : m = n(k)
        BY <3>2, InitFiles
      <4>2. files[m] = <<sources[k], k>> /\ sources[k] \in Kinds
        BY <1>1, <4>1, InitFiles DEF Opening
      <4> QED
        BY <4>2 DEF Kinds
    <3> QED
      BY <3>1, <3>2
  <2> QED
    BY <2>1, <2>2, <2>3 DEF Once, Listeners
<1>14. Mine(1)
  BY <1>1, <1>9 DEF Mine
<1> QED
  BY <1>7, <1>8, <1>11, <1>12, <1>13, <1>14 DEF RInv

-----------------------------------------------------------------------------
(* The table, element by element. *)
LEMMA TableFacts ==
  ASSUME Typed
  PROVE  /\ sources \in Seq(Kinds) /\ leftover \in {Bad, 0} /\ Bad \notin Nat
         /\ Len(handlers) \in Nat /\ DOMAIN handlers = 1 .. Len(handlers)
         /\ \A k \in DOMAIN handlers : handlers[k] \in Handlers
<1>1. handlers \in Seq(Handlers)
  BY DEF Typed
<1> QED
  BY <1>1, ReaderAssumption DEF Typed, Plain

(* What is behind the descriptor of a handler that reads its own input. *)
LEMMA OwnInput ==
  ASSUME Typed, NEW k \in DOMAIN handlers, ReadsOwn(k)
  PROVE  /\ handlers[k].fd \in DOMAIN files
         /\ At(handlers[k].fd) = files[handlers[k].fd]
         /\ At(handlers[k].fd) \in DOMAIN inbox
         /\ At(handlers[k].fd) = IF Kind(handlers[k].input) \in {"file", "unix"} THEN Stdin
                                 ELSE handlers[k].input
         /\ Kind(handlers[k].input) # "tcp" => Kind(At(handlers[k].fd)) # "tcp"
<1> DEFINE n == handlers[k].fd
           o == handlers[k].input
<1>1. /\ o \in {Stdin} \cup Conns \cup Made({"file", "unix", "udp", "tcp"})
      /\ Kind(o) \in {"stdin", "file", "unix", "udp", "tcp", "conn"}
  BY TableFacts, HandlerShape
<1>2. At(n) = IF Kind(o) \in {"file", "unix"} THEN Stdin ELSE o
  BY DEF ReadsOwn
<1>3. At(n) \in DOMAIN inbox
  BY <1>1, <1>2 DEF Typed, Boxed
<1>4. Kind(At(n)) # "none"
  BY <1>1, <1>2, ObjectKinds
<1>5. n \in DOMAIN files /\ At(n) = files[n]
  BY <1>4, ObjectKinds DEF At
<1>6. Kind(o) # "tcp" => Kind(At(n)) # "tcp"
  BY <1>2, ObjectKinds
<1> QED
  BY <1>2, <1>3, <1>5, <1>6

(* How many lines a read may take: not more than are there, nor than have  *)
(* been sent; and none only at the end of what waits.                      *)
LEMMA LinesBound ==
  ASSUME Typed, NEW n
  PROVE  /\ Lines(n) \in 0 .. sent
         /\ Waiting(n) # <<>> /\ Kind(At(n)) # "tcp" /\ Lines(n) = 0 => Head(Waiting(n)) = Final(At(n))
<1> DEFINE w == Waiting(n)
           P == {j \in DOMAIN w : \A l \in 1 .. j : w[l] = "line"}
           c == Cardinality(P)
           e == Final(At(n))
<1>0. sent \in Nat
  BY ReaderAssumption DEF Typed, Plain
<1>e. e # "line"
  BY DEF Final
<1> HIDE DEF e
<1>1. Lines(n) = IF Kind(At(n)) = "tcp" THEN 0
                 ELSE IF Kind(At(n)) = "udp" /\ c > 0 THEN 1 ELSE c
  BY DEF Lines
<1>2. CASE At(n) \notin DOMAIN inbox
  <2>1. w = <<>>
    BY <1>2 DEF Waiting
  <2>2. P = {}
    BY <2>1
  <2>3. c = 0
    BY <2>2, FS_EmptySet
  <2> QED
    BY <1>0, <1>1, <2>1, <2>3
<1>3. CASE Kind(At(n)) = "tcp"
  BY <1>0, <1>1, <1>3
<1>4. CASE At(n) \in DOMAIN inbox /\ Kind(At(n)) # "tcp"
  <2>1. /\ w \in Seq({"line", e}) /\ Len(w) \in Nat /\ DOMAIN w = 1 .. Len(w)
        /\ Len(w) <= sent + (IF e \in Range(w) THEN 1 ELSE 0)
    <3>1. w = inbox[At(n)]
      BY <1>4 DEF Waiting
    <3>2. /\ w \in Seq({"line", e})
          /\ Len(w) <= sent + (IF e \in Range(w) THEN 1 ELSE 0)
      BY <1>4, <3>1 DEF Typed, Boxed, Items, e
    <3> QED
      BY <3>2
  <2> HIDE DEF w
  <2>2. ASSUME NEW m \in Nat, P \subseteq 1 .. m
        PROVE  IsFiniteSet(P) /\ c \in 0 .. m
    <3>1. IsFiniteSet(1 .. m) /\ Cardinality(1 .. m) = IF 1 > m THEN 0 ELSE m - 1 + 1
      BY FS_Interval
    <3>2. IsFiniteSet(P) /\ c <= Cardinality(1 .. m)
      BY <2>2, <3>1, FS_Subset
    <3>3. c \in Nat
      BY <3>2, FS_CardinalityType
    <3> QED
      BY <3>1, <3>2, <3>3
  <2>3. IsFiniteSet(P) /\ c \in Nat
    <3>1. P \subseteq 1 .. Len(w)
      BY <2>1
    <3> QED
      BY <2>1, <2>2, <3>1
  <2>4. c <= sent
    <3>1. CASE e \notin Range(w)
      <4>0. sent + (IF e \in Range(w) THEN 1 ELSE 0) = sent
        BY <1>0, <3>1
      <4>1. P \subseteq 1 .. Len(w) /\ Len(w) <= sent
        BY <2>1, <4>0
      <4>2. c \in 0 .. Len(w)
        BY <2>1, <2>2, <4>1
      <4> QED
        BY <1>0, <2>1, <4>1, <4>2
    <3>2. CASE e \in Range(w)
      <4>1. PICK p \in 1 .. Len(w) : w[p] = e
        BY <2>1, <3>2 DEF Range
      <4>2. P \subseteq 1 .. p - 1
        BY <1>e, <2>1, <4>1
      <4>3. p - 1 \in Nat /\ p - 1 <= sent
        BY <1>0, <2>1, <3>2
      <4>4. c \in 0 .. p - 1
        BY <2>2, <4>2, <4>3
      <4> QED
        BY <1>0, <4>3, <4>4
    <3> QED
      BY <3>1, <3>2
  <2>5. Lines(n) \in 0 .. sent
    BY <1>0, <1>1, <2>3, <2>4
  <2>6. ASSUME w # <<>>, Lines(n) = 0 PROVE Head(w) = e
    <3>1. c = 0
      BY <1>1, <1>4, <2>3, <2>6
    <3>2. P = {}
      BY <2>3, <3>1, FS_EmptySet
    <3>3. 1 \in DOMAIN w /\ 1 \notin P
      BY <2>1, <2>6, <3>2
    <3>4. w[1] # "line"
      BY <3>3
    <3>5. w[1] \in {"line", e} /\ Head(w) = w[1]
      BY <2>1, <2>6, <3>3
    <3> QED
      BY <3>4, <3>5
  <2> QED
    BY <2>5, <2>6 DEF w, e
<1> QED
  BY <1>2, <1>3, <1>4 DEF e

(* A step that changes what waits at one object at most. *)
LEMMA BoxStep ==
  ASSUME Boxed, sources' = sources, sent \in Nat, sent' \in Nat, sent <= sent',
         NEW o, NEW s, inbox' = [inbox EXCEPT ![o] = s],
         o \in DOMAIN inbox =>
           /\ s \in Seq(Items(o))
           /\ Kind(o) # "tcp" => Len(s) <= sent' + (IF Final(o) \in Range(s) THEN 1 ELSE 0)
  PROVE  /\ Boxed'
         /\ DOMAIN inbox' = DOMAIN inbox
         /\ \A x \in DOMAIN inbox : inbox'[x] = IF x = o THEN s ELSE inbox[x]
<1>1. /\ DOMAIN inbox' = DOMAIN inbox
      /\ inbox' = [x \in DOMAIN inbox |-> IF x = o THEN s ELSE inbox[x]]
  BY DEF Boxed
<1>2. Made({"file", "unix", "udp", "tcp"})' = Made({"file", "unix", "udp", "tcp"})
  BY DEF Made
<1>3. DOMAIN inbox' = ({Stdin} \cup Conns \cup Made({"file", "unix", "udp", "tcp"}))'
  BY <1>1, <1>2 DEF Boxed, Stdin, Conns
<1>4. inbox' = [x \in DOMAIN inbox' |-> inbox'[x]]
  BY <1>1
<1>5. ASSUME NEW x \in DOMAIN inbox'
      PROVE  /\ inbox'[x] \in Seq(Items(x))
             /\ Kind(x) # "tcp" =>
                  Len(inbox'[x]) <= sent' + (IF Final(x) \in Range(inbox'[x]) THEN 1 ELSE 0)
  <2>1. CASE x = o
    BY <1>1, <2>1
  <2>2. CASE x # o
    <3>1. inbox'[x] = inbox[x] /\ x \in DOMAIN inbox
      BY <1>1, <2>2
    <3>2. /\ inbox[x] \in Seq(Items(x))
          /\ Kind(x) # "tcp" =>
               Len(inbox[x]) <= sent + (IF Final(x) \in Range(inbox[x]) THEN 1 ELSE 0)
      BY <3>1 DEF Boxed
    <3>3. Len(inbox[x]) \in Nat
      BY <3>2
    <3> QED
      BY <3>1, <3>2, <3>3
  <2> QED
    BY <2>1, <2>2
<1> QED
  BY <1>1, <1>3, <1>4, <1>5 DEF Boxed

(* A step that changes nothing that waits. *)
LEMMA BoxSame ==
  ASSUME Boxed, UNCHANGED <<sources, sent, inbox>>
  PROVE  Boxed'
BY DEF Boxed, Made

(* The handler whose turn it is. *)
LEMMA TurnIs ==
  ASSUME Typed, NEW k, Turn(k)
  PROVE  /\ pc = "scan" /\ k \in i .. count /\ k \in DOMAIN handlers /\ k \in Nat
         /\ handlers[k].fd \in fds
         /\ Due # {}
<1>1. i \in Nat /\ i >= 1 /\ count \in Nat /\ count <= Len(handlers) /\ Len(handlers) \in Nat
  BY TableFacts DEF Typed, Plain
<1>2. Due \subseteq Nat /\ Due # {} /\ k = Min(Due)
  BY <1>1 DEF Due, Turn
<1>3. k \in Due
  BY <1>2, MinIsLeast
<1> QED
  BY <1>1, <1>2, <1>3, TableFacts DEF Due, Turn

(* The types, action by action. *)
LEMMA SenderTyped ==
  ASSUME Typed, Senders
  PROVE  Typed'
<1>0. MaxLines \in Nat /\ MaxConns \in Nat /\ sent \in 0 .. MaxLines /\ connected \in 0 .. MaxConns
  BY ReaderAssumption DEF Typed, Plain
<1>1. ASSUME NEW o \in DOMAIN inbox, NEW what \in {"line", Final(o)}, Arrive(o, what),
             sent' \in 0 .. MaxLines,
             \/ what = "line" /\ sent' = sent + 1
             \/ what = Final(o) /\ sent' = sent /\ Final(o) \notin Range(inbox[o])
      PROVE  Typed'
  <2> DEFINE s == Append(inbox[o], what)
  <2>1. Kind(o) # "tcp" /\ inbox' = [inbox EXCEPT ![o] = s]
    BY <1>1 DEF Arrive, Reachable
  <2>2. /\ inbox[o] \in Seq({"line", Final(o)}) /\ Items(o) = {"line", Final(o)}
        /\ Len(inbox[o]) <= sent + (IF Final(o) \in Range(inbox[o]) THEN 1 ELSE 0)
    BY <2>1 DEF Typed, Boxed, Items
  <2>3. s \in Seq(Items(o)) /\ Len(s) = Len(inbox[o]) + 1 /\ Len(inbox[o]) \in Nat
    BY <2>2
  <2>4. Final(o) \in Range(inbox[o]) \/ what = Final(o) => Final(o) \in Range(s)
    <3>1. /\ \A k \in DOMAIN inbox[o] : k \in DOMAIN s /\ s[k] = inbox[o][k]
          /\ Len(s) \in DOMAIN s /\ s[Len(s)] = what
      BY <2>2, <2>3
    <3> HIDE DEF s
    <3> QED
      BY <3>1 DEF Range
  <2>5. Len(s) <= sent' + (IF Final(o) \in Range(s) THEN 1 ELSE 0)
    <3> HIDE DEF s
    <3>1. CASE what = "line" /\ sent' = sent + 1
      <4>1. CASE Final(o) \in Range(inbox[o])
        BY <1>0, <2>2, <2>3, <2>4, <3>1, <4>1
      <4>2. CASE Final(o) \notin Range(inbox[o])
        <5>1. Len(inbox[o]) <= sent
          BY <1>0, <2>2, <2>3, <4>2
        <5> QED
          BY <1>0, <2>3, <3>1, <5>1
      <4> QED
        BY <4>1, <4>2
    <3>2. CASE what = Final(o) /\ sent' = sent /\ Final(o) \notin Range(inbox[o])
      <4>1. Len(inbox[o]) <= sent
        BY <1>0, <2>2, <2>3, <3>2
      <4> QED
        BY <1>0, <2>3, <2>4, <3>2, <4>1
    <3> QED
      BY <1>1, <3>1, <3>2
  <2>6. sources' = sources /\ sent \in Nat /\ sent' \in Nat /\ sent <= sent'
    BY <1>0, <1>1 DEF Arrive, set
  <2> HIDE DEF s
  <2>7. Boxed'
    BY <2>1, <2>3, <2>5, <2>6, BoxStep DEF Typed
  <2>8. /\ UNCHANGED <<sources, leftover, files, connected, handlers, fds, i, count, rescan, held>>
        /\ UNCHANGED <<pc, cancelled, queue>>
    BY <1>1 DEF Arrive, set, scan
  <2>9. Handlers' = Handlers
    BY <2>8 DEF Handlers, Made
  <2> QED
    BY <1>1, <2>7, <2>8, <2>9 DEF Typed, Plain
<1>2. ASSUME NEW o \in DOMAIN inbox, Send(o) PROVE Typed'
  BY <1>0, <1>1, <1>2 DEF Send
<1>3. ASSUME NEW o \in DOMAIN inbox, Finish(o) \/ SendEmpty(o) PROVE Typed'
  BY <1>0, <1>1, <1>3 DEF Finish, SendEmpty, Final
<1>4. ASSUME NEW o \in DOMAIN inbox, Connect(o) PROVE Typed'
  <2> DEFINE s == Append(inbox[o], <<"conn", connected + 1>>)
  <2>1. Kind(o) = "tcp" /\ inbox' = [inbox EXCEPT ![o] = s] /\ connected < MaxConns
        /\ connected' = connected + 1
    BY <1>4 DEF Connect
  <2>2. inbox[o] \in Seq(Conns) /\ Items(o) = Conns
    BY <2>1 DEF Typed, Boxed, Items
  <2>3. <<"conn", connected + 1>> \in Conns /\ connected' \in 0 .. MaxConns
    BY <1>0, <2>1 DEF Conns
  <2>4. s \in Seq(Items(o))
    BY <2>2, <2>3
  <2>5. /\ UNCHANGED <<sources, leftover, files, sent, handlers, fds, i, count, rescan, held>>
        /\ UNCHANGED <<pc, cancelled, queue>>
    BY <1>4 DEF Connect, set, scan
  <2>6. sources' = sources /\ sent \in Nat /\ sent' \in Nat /\ sent <= sent'
    BY <1>0, <2>5
  <2> HIDE DEF s
  <2>7. Boxed'
    <3>1. Boxed /\ inbox' = [inbox EXCEPT ![o] = s]
      BY <2>1 DEF Typed
    <3>2. o \in DOMAIN inbox =>
            /\ s \in Seq(Items(o))
            /\ Kind(o) # "tcp" => Len(s) <= sent' + (IF Final(o) \in Range(s) THEN 1 ELSE 0)
      BY <2>1, <2>4
    <3> QED
      BY <2>6, <3>1, <3>2, BoxStep
  <2>8. Handlers' = Handlers
    BY <2>5 DEF Handlers, Made
  <2> QED
    BY <2>3, <2>5, <2>7, <2>8 DEF Typed, Plain
<1> QED
  BY <1>2, <1>3, <1>4 DEF Senders

(* The calls of the read methods keep the types. *)
LEMMA CallTyped ==
  ASSUME RInv, NEW k, Call(k)
  PROVE  Typed'
<1>0. /\ Typed /\ Plain /\ Boxed /\ handlers \in Seq(Handlers)
      /\ MaxLines \in Nat /\ sent \in 0 .. MaxLines
      /\ Len(handlers) \in Nat /\ count \in 0 .. Len(handlers) /\ i \in 1 .. count + 1
  BY ReaderAssumption, TableFacts DEF RInv, Typed, Plain
<1>1. Turn(k) /\ UNCHANGED <<sources, leftover, sent, connected, fds, count, rescan, cancelled, queue>>
  BY DEF Call, Read, ReadEof, Accept, AcceptAgain, AcceptFails, set, world
<1>2. k \in i .. count /\ k \in DOMAIN handlers /\ k \in 1 .. count
  <2>1. k \in i .. count /\ k \in DOMAIN handlers
    BY <1>0, <1>1, TurnIs
  <2> QED
    BY <1>0, <2>1
<1>3. Handlers' = Handlers
  BY <1>1 DEF Handlers, Made
<1> DEFINE n == handlers[k].fd
           o == At(n)
<1>4. CASE Read(k)
  <2>1. PICK m \in 1 .. Lines(n) : /\ held' = m
                                   /\ inbox' = [inbox EXCEPT ![o] = SubSeq(@, m + 1, Len(@))]
    BY <1>4 DEF Read
  <2>2. m \in 1 .. sent
    BY <1>0, <2>1, LinesBound
  <2> DEFINE s == SubSeq(inbox[o], m + 1, Len(inbox[o]))
  <2>3. ASSUME o \in DOMAIN inbox
        PROVE  /\ s \in Seq(Items(o))
               /\ Kind(o) # "tcp" => Len(s) <= sent + (IF Final(o) \in Range(s) THEN 1 ELSE 0)
    <3>1. /\ inbox[o] \in Seq(Items(o)) /\ Len(inbox[o]) \in Nat
          /\ Kind(o) # "tcp" => Len(inbox[o]) <= sent + 1
      <4>1. /\ inbox[o] \in Seq(Items(o))
            /\ Kind(o) # "tcp" =>
                 Len(inbox[o]) <= sent + (IF Final(o) \in Range(inbox[o]) THEN 1 ELSE 0)
        BY <1>0, <2>3 DEF Boxed
      <4> QED
        BY <1>0, <4>1
    <3>2. /\ s \in Seq(Items(o))
          /\ Len(s) = IF m + 1 <= Len(inbox[o]) THEN Len(inbox[o]) - m ELSE 0
      BY <2>2, <3>1
    <3>3. Kind(o) # "tcp" => Len(s) <= sent
      BY <1>0, <2>2, <3>1, <3>2
    <3> HIDE DEF s
    <3> QED
      BY <1>0, <3>2, <3>3
  <2>4. inbox' = [inbox EXCEPT ![o] = s]
    BY <2>1
  <2> HIDE DEF s
  <2>5. Boxed'
    <3>1. sources' = sources /\ sent \in Nat /\ sent' \in Nat /\ sent <= sent' /\ sent' = sent
      BY <1>0, <1>1
    <3> QED
      BY <1>0, <2>3, <2>4, <3>1, BoxStep
  <2>6. UNCHANGED <<files, handlers>> /\ i' = k /\ pc' = "report" /\ held' \in 0 .. MaxLines
    BY <1>0, <1>4, <2>1, <2>2 DEF Read
  <2> QED
    BY <1>0, <1>1, <1>2, <1>3, <2>5, <2>6 DEF Typed, Plain
<1>5. CASE ReadEof(k) \/ AcceptFails(k)
  <2>1. UNCHANGED <<files, inbox, handlers, held>> /\ i' = k /\ pc' = "remove"
    BY <1>5 DEF ReadEof, AcceptFails, world
  <2>2. Boxed'
    BY <1>0, <1>1, <2>1, BoxSame
  <2> QED
    BY <1>0, <1>1, <1>2, <1>3, <2>1, <2>2 DEF Typed, Plain
<1>6. CASE AcceptAgain(k)
  <2>1. UNCHANGED <<files, inbox, handlers, held, pc>> /\ i' = k + 1
    BY <1>6 DEF AcceptAgain, world
  <2>2. Boxed'
    BY <1>0, <1>1, <2>1, BoxSame
  <2>3. i' \in 1 .. count + 1
    BY <1>2, <2>1, <1>0
  <2> QED
    BY <1>0, <1>1, <1>3, <2>1, <2>2, <2>3 DEF Typed, Plain
<1>7. CASE Accept(k)
  <2>1. Kind(handlers[k].input) = "tcp" /\ Waiting(n) # <<>>
    BY <1>7 DEF Accept
  <2>2. ReadsOwn(k)
    <3>1. n # 0
      BY <1>0, <1>2, <2>1, TableFacts, HandlerShape
    <3> QED
      BY <1>0, <1>2, <3>1, TableFacts DEF RInv, Mine, Contested
  <2>3. o = handlers[k].input /\ o \in DOMAIN inbox /\ Kind(o) = "tcp"
    BY <1>0, <1>2, <2>1, <2>2, OwnInput
  <2>4. inbox[o] \in Seq(Conns) /\ inbox[o] # <<>> /\ Waiting(n) = inbox[o] /\ Items(o) = Conns
    BY <1>0, <2>1, <2>3 DEF Waiting, Boxed, Items
  <2>5. Head(inbox[o]) \in Conns /\ Tail(inbox[o]) \in Seq(Conns)
    BY <2>4
  <2>6. inbox' = [inbox EXCEPT ![o] = Tail(inbox[o])]
    BY <1>7 DEF Accept
  <2>7. Boxed'
    <3>1. sources' = sources /\ sent \in Nat /\ sent' \in Nat /\ sent <= sent'
      BY <1>0, <1>1
    <3> QED
      BY <1>0, <2>3, <2>4, <2>5, <2>6, <3>1, BoxStep
  <2> DEFINE h == Connection(Lowest, Head(inbox[o]))
  <2>8. AddSource(h) /\ i' = k /\ UNCHANGED <<held, pc>>
    BY <1>7, <2>4 DEF Accept
  <2>9. Lowest \in Nat \ {1, 2}
    BY <1>0, LowestIsFree DEF Plain
  <2>10. h \in Handlers /\ h.fd = Lowest
    BY <2>5, <2>9 DEF Connection, Handlers
  <2>11. /\ handlers' \in Seq(Handlers) /\ Len(handlers') >= Len(handlers) /\ Len(handlers') \in Nat
         /\ DOMAIN files' \subseteq Nat \ {1, 2} /\ IsFiniteSet(DOMAIN files')
    <3> HIDE DEF h
    <3>1. CASE handlers' = Append(handlers, h) /\ Open(h.fd, h.input)
      <4>1. handlers' \in Seq(Handlers) /\ Len(handlers') = Len(handlers) + 1
        BY <1>0, <2>10, <3>1
      <4>2. DOMAIN files' = DOMAIN files \cup {Lowest}
        BY <2>10, <3>1 DEF Open
      <4>3. IsFiniteSet(DOMAIN files')
        BY <1>0, <4>2, FS_AddElement DEF Plain
      <4> QED
        BY <1>0, <2>9, <4>1, <4>2, <4>3 DEF Plain
    <3>2. CASE UNCHANGED <<handlers, files>>
      BY <1>0, <3>2 DEF Plain
    <3> QED
      BY <2>8, <3>1, <3>2 DEF AddSource
  <2>12. count \in 0 .. Len(handlers')
    BY <1>0, <2>11
  <2> QED
    BY <1>0, <1>1, <1>2, <1>3, <2>7, <2>8, <2>11, <2>12 DEF Typed, Plain
<1> QED
  BY <1>4, <1>5, <1>6, <1>7 DEF Call

(* What remove_handler leaves. *)
LEMMA RemovedIs ==
  ASSUME Typed, Scanned, RemoveHandler
  PROVE  /\ i \in 1 .. Len(handlers) /\ pc = "remove"
         /\ handlers' \in Seq(Handlers) /\ Len(handlers') = Len(handlers) - 1
         /\ \A k \in 1 .. Len(handlers) - 1 :
              handlers'[k] = handlers[IF k < i THEN k ELSE k + 1]
         /\ DOMAIN files' = DOMAIN files \ {Closed(handlers[i])}
         /\ \A n \in DOMAIN files' : files'[n] = files[n]
         /\ UNCHANGED <<sources, leftover, inbox, sent, connected, held, cancelled, queue>>
         /\ i' = 1 /\ count' = Len(handlers) - 1 /\ rescan' = TRUE
         /\ fds' \subseteq fds
         /\ pc' \in {"dead", "scan"}
<1>1. i \in 1 .. Len(handlers) /\ pc = "remove"
  BY TableFacts DEF Scanned, Typed, Plain, RemoveHandler
<1>2. handlers \in Seq(Handlers) /\ handlers' = RemoveAt(handlers, i)
  BY DEF Typed, RemoveHandler
<1>3. /\ handlers' \in Seq(Handlers) /\ Len(handlers') = Len(handlers) - 1
      /\ \A k \in 1 .. Len(handlers) - 1 :
           handlers'[k] = IF k < i THEN handlers[k] ELSE handlers[k + 1]
  BY <1>1, <1>2, Removed
<1>4. files' = [m \in DOMAIN files \ {Closed(handlers[i])} |-> files[m]]
  BY DEF RemoveHandler, Cleanup, Close
<1>5. /\ UNCHANGED <<sources, leftover, inbox, sent, connected, held, cancelled, queue>>
      /\ i' = 1 /\ count' = Len(handlers) - 1 /\ rescan' = TRUE
      /\ fds' \subseteq fds
      /\ pc' \in {"dead", "scan"}
  BY DEF RemoveHandler, set, world
<1> QED
  BY <1>1, <1>3, <1>4, <1>5

(* So do the other steps of the loop. *)
LEMMA LoopTyped ==
  ASSUME RInv, Cancel \/ Report \/ RemoveHandler \/ Rebuild \/ Select \/ SelectFails \/ Recover \/ Die
  PROVE  Typed'
<1>0. /\ Typed /\ Plain /\ Boxed /\ handlers \in Seq(Handlers) /\ Scanned
      /\ MaxLines \in Nat /\ sent \in 0 .. MaxLines
      /\ Len(handlers) \in Nat /\ count \in 0 .. Len(handlers) /\ i \in 1 .. count + 1
  BY ReaderAssumption, TableFacts DEF RInv, Typed, Plain
<1>1. UNCHANGED <<sources, leftover, inbox, sent, connected>>
  BY DEF Cancel, Report, RemoveHandler, Rebuild, Select, SelectFails, Recover, Die, set, world
<1>2. Boxed' /\ Handlers' = Handlers
  BY <1>0, <1>1, BoxSame DEF Handlers, Made
<1>3. CASE Cancel \/ SelectFails \/ Die
  <2>1. /\ UNCHANGED <<files, handlers, fds, i, count, rescan, held, queue>>
        /\ cancelled' \in BOOLEAN /\ pc' \in {pc, "done", "dead"}
    BY <1>0, <1>3 DEF Cancel, SelectFails, Die, scan, Plain
  <2> QED
    BY <1>0, <1>1, <1>2, <2>1 DEF Typed, Plain
<1>4. CASE Report
  <2>1. /\ UNCHANGED <<files, handlers, fds, count, rescan, cancelled>>
        /\ queue' = Append(queue, "line") /\ held' = held - 1 /\ i' \in {i, i + 1}
        /\ pc = "report" /\ pc' \in {"dead", "scan", "report"}
    BY <1>4 DEF Report
  <2>2. queue' \in Seq({"line", "end"})
    <3>1. queue \in Seq({"line", "end"}) /\ "line" \in {"line", "end"}
      BY <1>0 DEF Plain
    <3> QED
      BY <2>1, <3>1
  <2>3. held >= 1 /\ i <= count /\ held \in 0 .. MaxLines
    BY <1>0, <2>1 DEF Scanned, Plain
  <2>4. held' \in 0 .. MaxLines /\ i' \in 1 .. count + 1
    BY <1>0, <2>1, <2>3
  <2> QED
    BY <1>0, <1>1, <1>2, <2>1, <2>2, <2>4 DEF Typed, Plain
<1>5. CASE RemoveHandler
  <2>1. /\ i \in 1 .. Len(handlers)
        /\ handlers' \in Seq(Handlers) /\ Len(handlers') = Len(handlers) - 1
        /\ DOMAIN files' = DOMAIN files \ {Closed(handlers[i])}
        /\ UNCHANGED <<held, cancelled, queue>>
        /\ i' = 1 /\ count' = Len(handlers) - 1 /\ rescan' = TRUE
        /\ fds' \subseteq fds
        /\ pc' \in {"dead", "scan"}
    BY <1>0, <1>5, RemovedIs
  <2>2. DOMAIN files' \subseteq Nat \ {1, 2} /\ IsFiniteSet(DOMAIN files')
    <3> DEFINE D == DOMAIN files
               c == Closed(handlers[i])
    <3>1. D \subseteq Nat \ {1, 2} /\ IsFiniteSet(D) /\ DOMAIN files' = D \ {c}
      BY <1>0, <2>1 DEF Plain
    <3> HIDE DEF D, c
    <3>2. IsFiniteSet(D \ {c})
      BY <3>1, FS_RemoveElement
    <3> QED
      BY <3>1, <3>2
  <2>3. i' \in 1 .. count' + 1 /\ count' \in 0 .. Len(handlers')
    BY <1>0, <2>1
  <2>4. fds' \subseteq Nat
    BY <1>0, <2>1 DEF Plain
  <2> QED
    BY <1>0, <1>1, <1>2, <2>1, <2>2, <2>3, <2>4 DEF Typed, Plain
<1>6. CASE Rebuild
  <2>1. /\ UNCHANGED <<files, handlers, held, cancelled, queue>>
        /\ fds' = {h.fd : h \in Range(handlers)}
        /\ i' = 1 /\ count' = Len(handlers) /\ rescan' = FALSE
        /\ pc' \in {"done", "select"}
    BY <1>6 DEF Rebuild
  <2>2. fds' \subseteq Nat
    <3>1. \A h \in Range(handlers) : h \in Handlers
      BY <1>0 DEF Range
    <3> QED
      BY <2>1, <3>1, HandlerShape
  <2>3. i' \in 1 .. count' + 1 /\ count' \in 0 .. Len(handlers')
    BY <1>0, <2>1
  <2> QED
    BY <1>0, <1>1, <1>2, <2>1, <2>2, <2>3 DEF Typed, Plain
<1>7. CASE Select
  <2>1. /\ UNCHANGED <<files, handlers, i, count, rescan, held, cancelled, queue>>
        /\ fds' \subseteq fds /\ pc' \in {"scan", "recover"}
    BY <1>7 DEF Select, scan
  <2> QED
    BY <1>0, <1>1, <1>2, <2>1 DEF Typed, Plain
<1>8. CASE Recover
  <2> DEFINE bad == {k \in DOMAIN handlers : handlers[k].fd \notin DOMAIN files}
  <2>1. /\ UNCHANGED <<files, handlers, fds, count, rescan, held, cancelled, queue>>
        /\ \/ bad # {} /\ i' = Min(bad) /\ pc' = "remove"
           \/ bad = {} /\ pc' = "done" /\ i' = i
        /\ pc = "recover"
    BY <1>8 DEF Recover
  <2>2. count = Len(handlers)
    BY <1>0, <2>1 DEF Scanned
  <2>3. bad \subseteq 1 .. Len(handlers) /\ bad \subseteq Nat
    BY <1>0
  <2>4. i' \in 1 .. count + 1
    <3>1. CASE bad # {} /\ i' = Min(bad)
      <4>1. Min(bad) \in bad
        BY <2>3, <3>1, MinIsLeast
      <4> QED
        BY <1>0, <2>2, <2>3, <3>1, <4>1
    <3> QED
      BY <1>0, <2>1, <3>1
  <2> QED
    BY <1>0, <1>1, <1>2, <2>1, <2>4 DEF Typed, Plain
<1> QED
  BY <1>3, <1>4, <1>5, <1>6, <1>7, <1>8

(* Every step keeps the types. *)
LEMMA StepTyped ==
  ASSUME RInv, Next
  PROVE  Typed'
<1>1. CASE Senders
  BY <1>1, SenderTyped DEF RInv
<1>2. CASE \E k \in DOMAIN handlers : Call(k)
  BY <1>2, CallTyped
<1> QED
  BY <1>1, <1>2, LoopTyped DEF Next, Run

-----------------------------------------------------------------------------
(* The sources and what freed memory reads as never change. *)
LEMMA SameSet ==
  ASSUME Next
  PROVE  UNCHANGED <<sources, leftover>> /\ Apart' = Apart
<1>1. UNCHANGED set
  BY DEF Next, Senders, Send, Finish, SendEmpty, Arrive, Connect, Cancel, Run, Call, Read, ReadEof, Accept,
         AcceptAgain, AcceptFails, Report, RemoveHandler, Rebuild, Select, SelectFails, Recover, Die
<1>2. UNCHANGED <<sources, leftover>>
  BY <1>1 DEF set
<1> QED
  BY <1>2 DEF Apart, Claims

(* With at most one claim every descriptor of the table is open. *)
LEMMA AllOpen ==
  ASSUME RInv, Apart, NEW k \in DOMAIN handlers
  PROVE  ReadsOwn(k) /\ handlers[k].fd \in DOMAIN files
<1>1. ReadsOwn(k)
  BY TableFacts DEF RInv, Mine, Contested
<1> QED
  BY <1>1, OwnInput DEF RInv

(* Every step keeps the loop variables with the place in the loop, and the *)
(* descriptors that select() is given open.                                *)
LEMMA StepScanned ==
  ASSUME RInv, Next
  PROVE  Scanned' /\ Nonstop'
<1> USE DEF Scanned, Nonstop
<1>0. /\ Typed /\ Scanned /\ Nonstop /\ Apart' = Apart
      /\ Len(handlers) \in Nat /\ count \in 0 .. Len(handlers) /\ i \in 1 .. count + 1
      /\ DOMAIN handlers = 1 .. Len(handlers)
      /\ handlers = <<>> <=> Len(handlers) = 0
  BY TableFacts, SameSet DEF RInv, Typed, Plain
<1>c. count \in Nat
  <2>1. Len(handlers) \in Nat /\ count \in 0 .. Len(handlers)
    BY TableFacts DEF RInv, Typed, Plain
  <2> QED
    BY <2>1
<1>1. CASE Senders \/ Cancel \/ SelectFails \/ Die
  <2>1. UNCHANGED <<handlers, fds, i, count, held>> /\ pc' \in {pc, "done", "dead"}
    BY <1>1 DEF Senders, Send, Finish, SendEmpty, Arrive, Connect, Cancel, SelectFails, Die, scan
  <2> QED
    BY <1>0, <2>1
<1>2. ASSUME NEW k \in DOMAIN handlers, Call(k) PROVE Scanned' /\ Nonstop'
  <2>1. k \in i .. count /\ pc = "scan"
    <3>1. Turn(k)
      BY <1>2 DEF Call, Read, ReadEof, Accept, AcceptAgain, AcceptFails
    <3> QED
      BY <1>0, <3>1, TurnIs
  <2>2. CASE Read(k)
    <3>1. i' = k /\ count' = count /\ pc' = "report" /\ held' \in 1 .. Lines(handlers[k].fd)
      BY <2>2 DEF Read
    <3>2. Lines(handlers[k].fd) \in Nat
      <4>1. Lines(handlers[k].fd) \in 0 .. sent /\ sent \in 0 .. MaxLines
        BY <1>0, LinesBound DEF Typed, Plain
      <4> QED
        BY <4>1, ReaderAssumption
    <3> QED
      BY <1>0, <2>1, <3>1, <3>2
  <2>3. CASE ReadEof(k) \/ AcceptFails(k)
    <3>1. i' = k /\ count' = count /\ pc' = "remove"
      BY <2>3 DEF ReadEof, AcceptFails
    <3> QED
      BY <1>0, <2>1, <3>1
  <2>4. CASE Accept(k) \/ AcceptAgain(k)
    BY <2>1, <2>4 DEF Accept, AcceptAgain
  <2> QED
    BY <1>2, <2>2, <2>3, <2>4 DEF Call
<1>3. CASE Report
  <2>1. /\ UNCHANGED <<handlers, fds, count>> /\ held' = held - 1 /\ pc = "report"
        /\ pc' \in {"dead", "scan", "report"}
        /\ pc' = "report" => i' = i /\ held # 1
    BY <1>3 DEF Report
  <2>2. held \in Nat
    <3>1. held \in 0 .. MaxLines /\ MaxLines \in Nat
      BY <1>0, ReaderAssumption DEF Typed, Plain
    <3> QED
      BY <3>1
  <2>3. held >= 1
    BY <1>0, <2>1
  <2>4. pc' = "report" => held' >= 1 /\ i' <= count'
    BY <1>0, <2>1, <2>2, <2>3
  <2> QED
    BY <2>1, <2>4
<1>4. CASE RemoveHandler
  BY <1>0, <1>4, RemovedIs
<1>5. CASE Rebuild
  BY <1>5 DEF Rebuild
<1>6. CASE Select
  <2>1. /\ pc = "select" /\ UNCHANGED <<handlers, count, i, held>>
        /\ \/ pc' = "scan"
           \/ pc' = "recover" /\ ~(fds \subseteq DOMAIN files)
    BY <1>6 DEF Select, scan
  <2>2. Apart => fds \subseteq DOMAIN files
    <3>1. fds = {h.fd : h \in Range(handlers)}
      BY <1>0, <2>1
    <3>2. Apart => \A k \in DOMAIN handlers : handlers[k].fd \in DOMAIN files
      BY AllOpen
    <3> QED
      BY <3>1, <3>2 DEF Range
  <2> QED
    BY <1>0, <2>1, <2>2
<1>7. CASE Recover
  <2> DEFINE bad == {k \in DOMAIN handlers : handlers[k].fd \notin DOMAIN files}
  <2>1. /\ UNCHANGED <<handlers, count>> /\ pc = "recover"
        /\ \/ bad # {} /\ i' = Min(bad) /\ pc' = "remove"
           \/ pc' = "done"
    BY <1>7 DEF Recover
  <2>2. ~Apart /\ count = Len(handlers)
    BY <1>0, <2>1
  <2>3. bad \subseteq 1 .. count
    BY <1>0, <2>2
  <2> HIDE DEF bad
  <2>4. ASSUME bad # {} PROVE Min(bad) <= count
    <3>1. count \in Nat
      BY <1>c
    <3>2. bad \subseteq Nat
      BY <2>3, <3>1
    <3>3. Min(bad) \in bad
      BY <2>4, <3>2, MinIsLeast
    <3>4. Min(bad) \in 1 .. count
      BY <2>3, <3>3
    <3> QED
      BY <3>1, <3>4
  <2>5. pc' = "remove" => i' <= count'
    BY <2>1, <2>4
  <2>6. pc' \in {"remove", "done"} /\ Apart' = Apart
    BY <1>0, <2>1
  <2> QED
    BY <2>2, <2>5, <2>6
<1> QED
  BY <1>1, <1>2, <1>3, <1>4, <1>5, <1>6, <1>7 DEF Next, Run

-----------------------------------------------------------------------------
(* Nothing is opened or closed, and the table stays. *)
LEMMA TableSame ==
  ASSUME UNCHANGED <<sources, leftover, files, handlers>>,
         NEW from, Mine(from), ZeroOnce(from), Owned(from)
  PROVE  Mine(from)' /\ ZeroOnce(from)' /\ Owned(from)'
<1>1. Apart' = Apart
  BY DEF Apart, Claims
<1>2. \A k : Closed(handlers[k])' = Closed(handlers[k])
  BY DEF Closed
<1>3. \A n : At(n)' = At(n)
  BY DEF At
<1>4. Mine(from)'
  BY <1>1, <1>3 DEF Mine, Contested, ReadsOwn
<1>5. ZeroOnce(from)'
  BY <1>1, <1>2, <1>3 DEF ZeroOnce
<1>6. Owned(from)'
  BY <1>1, <1>2 DEF Owned
<1> QED
  BY <1>4, <1>5, <1>6

(* What one handler's cleanup closes is not what another one reads from. *)
LEMMA ClosesOwn ==
  ASSUME Typed, NEW from \in Nat \ {0}, Mine(from), ZeroOnce(from),
         NEW j \in from .. Len(handlers), NEW k \in (from .. Len(handlers)) \ {j},
         ~Contested(handlers[k].fd)
  PROVE  ReadsOwn(k) /\ handlers[k].fd # Closed(handlers[j])
<1>1. j \in DOMAIN handlers /\ k \in DOMAIN handlers
  BY TableFacts
<1>2. ReadsOwn(k)
  BY DEF Mine
<1>3. CASE Kind(handlers[j].input) # "tcp"
  BY <1>1, <1>2, <1>3, TableFacts, HandlerShape DEF ReadsOwn
<1>4. CASE Kind(handlers[j].input) = "tcp"
  <2>1. Closed(handlers[j]) = leftover /\ leftover \in {Bad, 0} /\ Bad \notin Nat
        /\ handlers[k].fd \in Nat
    BY <1>1, <1>4, TableFacts, HandlerShape
  <2>2. ASSUME handlers[k].fd = 0, leftover = 0 PROVE FALSE
    <3>1. Apart
      BY <2>2 DEF Contested
    <3>2. Closed(handlers[k]) = 0
      BY <1>1, <2>2, TableFacts, HandlerShape
    <3> QED
      BY <2>1, <2>2, <3>1, <3>2 DEF ZeroOnce
  <2> QED
    BY <1>2, <2>1, <2>2
<1> QED
  BY <1>3, <1>4

(* When a handler is removed the others keep their descriptors. *)
LEMMA RemoveTable ==
  ASSUME RInv, RemoveHandler
  PROVE  Mine(1)' /\ ZeroOnce(1)' /\ Owned(1)'
<1> DEFINE L == Len(handlers)
           c == Closed(handlers[i])
           id(k) == IF k < i THEN k ELSE k + 1
<1>1. /\ L \in Nat /\ i \in 1 .. L
      /\ Len(handlers') = L - 1 /\ DOMAIN handlers' = 1 .. L - 1
      /\ DOMAIN handlers = 1 .. L
      /\ \A k \in 1 .. L - 1 : handlers'[k] = handlers[id(k)]
      /\ DOMAIN files' = DOMAIN files \ {c}
      /\ \A n \in DOMAIN files' : files'[n] = files[n]
      /\ UNCHANGED <<sources, leftover>>
  <2>1. Typed /\ Scanned
    BY DEF RInv
  <2>2. L \in Nat /\ DOMAIN handlers = 1 .. L
    BY <2>1, TableFacts
  <2>3. /\ i \in 1 .. L
        /\ handlers' \in Seq(Handlers) /\ Len(handlers') = L - 1
        /\ \A k \in 1 .. L - 1 : handlers'[k] = handlers[id(k)]
        /\ DOMAIN files' = DOMAIN files \ {c}
        /\ \A n \in DOMAIN files' : files'[n] = files[n]
        /\ UNCHANGED <<sources, leftover>>
    BY <2>1, RemovedIs
  <2>4. DOMAIN handlers' = 1 .. Len(handlers')
    BY <2>3
  <2> QED
    BY <2>2, <2>3, <2>4
<1>2. /\ \A k \in 1 .. L - 1 : id(k) \in (1 .. L) \ {i}
      /\ \A k, l \in 1 .. L - 1 : k # l => id(k) # id(l)
      /\ \A m \in (1 .. L) \ {i} : \E k \in 1 .. L - 1 : m = id(k)
  <2>1. \A m \in (1 .. L) \ {i} : m = id(IF m < i THEN m ELSE m - 1)
    BY <1>1
  <2>2. \A m \in (1 .. L) \ {i} : (IF m < i THEN m ELSE m - 1) \in 1 .. L - 1
    BY <1>1
  <2>3. \A m \in (1 .. L) \ {i} : \E k \in 1 .. L - 1 : m = id(k)
    <3> HIDE DEF id
    <3> QED
      BY <2>1, <2>2
  <2> QED
    BY <1>1, <2>3
<1>3. Apart' = Apart
  BY <1>1 DEF Apart, Claims
<1>4. \A n : n # c => At(n)' = At(n)
  BY <1>1 DEF At
<1>5. \A k \in 1 .. L - 1 : Closed(handlers[k])' = Closed(handlers[id(k)])
  BY <1>1 DEF Closed
<1>6. \A k \in (1 .. L) \ {i} : ~Contested(handlers[k].fd) =>
        ReadsOwn(k) /\ handlers[k].fd # c
  BY <1>1, ClosesOwn DEF RInv
<1> HIDE DEF id, c
<1>7. Mine(1)'
  <2> SUFFICES ASSUME NEW k \in 1 .. L - 1, ~Contested(handlers[k].fd)' PROVE ReadsOwn(k)'
    BY <1>1 DEF Mine
  <2>1. id(k) \in (1 .. L) \ {i} /\ handlers'[k] = handlers[id(k)]
    BY <1>1, <1>2
  <2>2. ~Contested(handlers[id(k)].fd)
    BY <1>3, <2>1 DEF Contested
  <2>3. ReadsOwn(id(k)) /\ handlers[id(k)].fd # c
    BY <1>6, <2>1, <2>2
  <2>4. At(handlers[k].fd)' = At(handlers[id(k)].fd)
    BY <1>4, <2>1, <2>3
  <2>5. \A l \in (1 .. L - 1) \ {k} : handlers'[l].fd # handlers'[k].fd
    <3> SUFFICES ASSUME NEW l \in (1 .. L - 1) \ {k} PROVE handlers'[l].fd # handlers'[k].fd
      OBVIOUS
    <3>1. id(l) \in (1 .. L) \ {id(k)} /\ handlers'[l] = handlers[id(l)]
      BY <1>1, <1>2
    <3> QED
      BY <1>1, <2>1, <2>3, <3>1 DEF ReadsOwn
  <2> QED
    BY <1>1, <2>1, <2>3, <2>4, <2>5 DEF ReadsOwn
<1>8. ZeroOnce(1)'
  <2> SUFFICES ASSUME Apart, NEW k \in 1 .. L - 1, Closed(handlers[k])' = 0
               PROVE  /\ At(0)' \in {Stdin} \cup Conns
                      /\ \A l \in (1 .. L - 1) \ {k} : Closed(handlers[l])' # 0
    BY <1>1, <1>3 DEF ZeroOnce
  <2>1. id(k) \in (1 .. L) \ {i} /\ Closed(handlers[id(k)]) = 0
    BY <1>2, <1>5
  <2>2. /\ At(0) \in {Stdin} \cup Conns
        /\ \A l \in (1 .. L) \ {id(k)} : Closed(handlers[l]) # 0
    BY <2>1 DEF RInv, ZeroOnce
  <2>3. c # 0
    <3>1. i \in (1 .. L) \ {id(k)}
      BY <1>1, <2>1
    <3> QED
      BY <2>2, <3>1 DEF c
  <2>4. At(0)' = At(0)
    BY <1>4, <2>3
  <2>5. ASSUME NEW l \in (1 .. L - 1) \ {k} PROVE Closed(handlers[l])' # 0
    <3>1. id(l) \in (1 .. L) \ {id(k)}
      BY <1>2
    <3>2. Closed(handlers[l])' = Closed(handlers[id(l)])
      BY <1>5
    <3> QED
      BY <2>2, <3>1, <3>2
  <2> QED
    BY <2>2, <2>4, <2>5
<1>9. Owned(1)'
  <2> SUFFICES ASSUME Apart, NEW n \in DOMAIN files', Kind(files'[n]) \in {"conn", "udp"}
               PROVE  \E k \in 1 .. L - 1 : Closed(handlers[k])' = n
    BY <1>1, <1>3 DEF Owned
  <2>1. n \in DOMAIN files /\ n # c /\ files[n] = files'[n]
    BY <1>1
  <2>2. PICK m \in 1 .. L : Closed(handlers[m]) = n
    BY <2>1 DEF RInv, Owned
  <2>3. m # i
    BY <2>1, <2>2 DEF c
  <2>4. PICK k \in 1 .. L - 1 : m = id(k)
    BY <1>2, <2>3
  <2> QED
    BY <1>5, <2>2, <2>4
<1> QED
  BY <1>7, <1>8, <1>9

(* A connection gets a descriptor that nobody has. *)
LEMMA AcceptTable ==
  ASSUME RInv, NEW k \in DOMAIN handlers, Accept(k)
  PROVE  Mine(1)' /\ ZeroOnce(1)' /\ Owned(1)'
<1> DEFINE o == Head(Waiting(handlers[k].fd))
           h == Connection(Lowest, o)
<1>1. /\ UNCHANGED <<sources, leftover>> /\ AddSource(h) /\ Waiting(handlers[k].fd) # <<>>
      /\ Kind(handlers[k].input) = "tcp"
  BY DEF Accept, set
<1>2. Typed /\ Mine(1) /\ ZeroOnce(1) /\ Owned(1)
  BY DEF RInv
<1>3. CASE UNCHANGED <<handlers, files>>
  BY <1>1, <1>2, <1>3, TableSame
<1>4. CASE handlers' = Append(handlers, h) /\ Open(h.fd, h.input)
  <2>0. PICK f, L : f = Lowest /\ L = Len(handlers)
    OBVIOUS
  <2>1. f \in Nat \ {1, 2} /\ f \notin DOMAIN files
    BY <1>2, <2>0, LowestIsFree DEF Typed, Plain
  <2>2. o \in Conns
    <3>1. handlers[k].fd # 0
      BY <1>1, <1>2, TableFacts, HandlerShape
    <3>2. ReadsOwn(k)
      BY <1>2, <3>1, TableFacts DEF Mine, Contested
    <3>3. At(handlers[k].fd) = handlers[k].input /\ handlers[k].input \in DOMAIN inbox
      BY <1>1, <1>2, <3>2, OwnInput
    <3>4. Waiting(handlers[k].fd) \in Seq(Conns)
      BY <1>1, <1>2, <3>3 DEF Waiting, Typed, Boxed, Items
    <3> QED
      BY <1>1, <3>4
  <2>3. h.fd = f /\ h.input = o /\ Kind(o) = "conn" /\ Kind(o) \notin {"file", "unix", "tcp"}
    BY <2>0, <2>2, ObjectKinds DEF Connection
  <2> HIDE DEF o, h
  <2>4. /\ L \in Nat /\ Len(handlers') = L + 1 /\ DOMAIN handlers' = 1 .. L + 1
        /\ DOMAIN handlers = 1 .. L
        /\ \A l \in 1 .. L : handlers'[l] = handlers[l]
        /\ handlers'[L + 1] = h
    <3>1. handlers \in Seq(Handlers) /\ DOMAIN handlers = 1 .. L
      BY <1>2, <2>0 DEF Typed
    <3> QED
      BY <1>4, <2>0, <3>1
  <2>5. /\ DOMAIN files' = DOMAIN files \cup {f} /\ files'[f] = o
        /\ \A n \in DOMAIN files : files'[n] = files[n]
    BY <1>4, <2>1, <2>3 DEF Open
  <2>6. Apart' = Apart
    BY <1>1 DEF Apart, Claims
  <2>7. At(f)' = o /\ \A n : n # f => At(n)' = At(n)
    BY <2>1, <2>5 DEF At
  <2>8. /\ \A l \in 1 .. L : Closed(handlers[l])' = Closed(handlers[l])
        /\ Closed(handlers[L + 1])' = f
    BY <1>1, <2>3, <2>4 DEF Closed
  <2>9. \A l \in 1 .. L : ~Contested(handlers[l].fd) => ReadsOwn(l) /\ handlers[l].fd # f
    <3> SUFFICES ASSUME NEW l \in 1 .. L, ~Contested(handlers[l].fd)
                 PROVE  ReadsOwn(l) /\ handlers[l].fd # f
      OBVIOUS
    <3>1. ReadsOwn(l)
      BY <1>2, <2>0 DEF Mine
    <3> QED
      BY <1>2, <2>1, <2>4, <3>1, OwnInput
  <2>10. ASSUME ~Contested(f), NEW l \in 1 .. L PROVE handlers[l].fd # f
    <3>1. CASE ~Contested(handlers[l].fd)
      BY <2>9, <3>1
    <3>2. CASE Contested(handlers[l].fd)
      BY <2>10, <3>2 DEF Contested
    <3> QED
      BY <3>1, <3>2
  <2>11. Mine(1)'
    <3> SUFFICES ASSUME NEW l \in 1 .. L + 1, ~Contested(handlers[l].fd)' PROVE ReadsOwn(l)'
      BY <2>4 DEF Mine
    <3>1. CASE l \in 1 .. L
      <4>1. ~Contested(handlers[l].fd) /\ handlers'[l] = handlers[l]
        BY <2>4, <2>6, <3>1 DEF Contested
      <4>2. ReadsOwn(l) /\ handlers[l].fd # f
        BY <2>9, <3>1, <4>1
      <4>3. At(handlers[l].fd)' = At(handlers[l].fd)
        BY <2>7, <4>1, <4>2
      <4>4. \A m \in (1 .. L + 1) \ {l} : handlers'[m].fd # handlers'[l].fd
        <5> SUFFICES ASSUME NEW m \in (1 .. L + 1) \ {l} PROVE handlers'[m].fd # handlers'[l].fd
          OBVIOUS
        <5>1. CASE m \in 1 .. L
          BY <2>4, <4>1, <4>2, <5>1 DEF ReadsOwn
        <5>2. CASE m = L + 1
          BY <2>3, <2>4, <4>1, <4>2, <5>2
        <5> QED
          BY <2>4, <5>1, <5>2
      <4> QED
        BY <2>4, <4>1, <4>2, <4>3, <4>4 DEF ReadsOwn
    <3>2. CASE l = L + 1
      <4>1. handlers'[l].fd = f /\ handlers'[l].input = o /\ ~Contested(f)
        BY <2>3, <2>4, <2>6, <3>2 DEF Contested
      <4>2. \A m \in (1 .. L + 1) \ {l} : handlers'[m].fd # f
        BY <2>4, <2>10, <3>2, <4>1
      <4> QED
        BY <2>3, <2>4, <2>7, <4>1, <4>2 DEF ReadsOwn
    <3> QED
      BY <2>4, <3>1, <3>2
  <2>12. ZeroOnce(1)'
    <3> SUFFICES ASSUME Apart, NEW l \in 1 .. L + 1, Closed(handlers[l])' = 0
                 PROVE  /\ At(0)' \in {Stdin} \cup Conns
                        /\ \A m \in (1 .. L + 1) \ {l} : Closed(handlers[m])' # 0
      BY <2>4, <2>6 DEF ZeroOnce
    <3>1. ASSUME NEW m \in 1 .. L, Closed(handlers[m]) = 0
          PROVE  /\ f # 0 /\ At(0) \in {Stdin} \cup Conns
                 /\ \A j \in (1 .. L) \ {m} : Closed(handlers[j]) # 0
      <4>1. /\ At(0) \in {Stdin} \cup Conns
            /\ \A j \in (1 .. L) \ {m} : Closed(handlers[j]) # 0
        BY <1>2, <2>0, <3>1 DEF ZeroOnce
      <4>2. Nowhere \notin {Stdin} \cup Conns
        BY ObjectKinds
      <4> QED
        BY <2>1, <4>1, <4>2 DEF At
    <3>2. CASE l \in 1 .. L
      <4>1. Closed(handlers[l]) = 0
        BY <2>8, <3>2
      <4>2. /\ f # 0 /\ At(0) \in {Stdin} \cup Conns
            /\ \A j \in (1 .. L) \ {l} : Closed(handlers[j]) # 0
        BY <3>1, <3>2, <4>1
      <4>3. \A m \in (1 .. L + 1) \ {l} : Closed(handlers[m])' # 0
        BY <2>4, <2>8, <4>2
      <4> QED
        BY <2>7, <4>2, <4>3
    <3>3. CASE l = L + 1
      <4>1. f = 0
        BY <2>8, <3>3
      <4>2. \A m \in 1 .. L : Closed(handlers[m])' # 0
        BY <2>8, <3>1, <4>1
      <4> QED
        BY <2>2, <2>4, <2>7, <3>3, <4>1, <4>2
    <3> QED
      BY <2>4, <3>2, <3>3
  <2>13. Owned(1)'
    <3> SUFFICES ASSUME Apart, NEW n \in DOMAIN files', Kind(files'[n]) \in {"conn", "udp"}
                 PROVE  \E l \in 1 .. L + 1 : Closed(handlers[l])' = n
      BY <2>4, <2>6 DEF Owned
    <3>1. CASE n = f
      BY <2>4, <2>8, <3>1
    <3>2. CASE n # f
      <4>1. n \in DOMAIN files /\ files[n] = files'[n]
        BY <2>5, <3>2
      <4>2. PICK l \in 1 .. L : Closed(handlers[l]) = n
        BY <1>2, <2>0, <4>1 DEF Owned
      <4> QED
        BY <2>4, <2>8, <4>2
    <3> QED
      BY <3>1, <3>2
  <2> QED
    BY <2>11, <2>12, <2>13
<1> QED
  BY <1>1, <1>3, <1>4 DEF AddSource

(* Every step keeps the handlers apart. *)
LEMMA StepTable ==
  ASSUME RInv, Next
  PROVE  Mine(1)' /\ ZeroOnce(1)' /\ Owned(1)'
<1>1. CASE RemoveHandler
  BY <1>1, RemoveTable
<1>2. CASE \E k \in DOMAIN handlers : Accept(k)
  BY <1>2, AcceptTable
<1>3. CASE UNCHANGED <<files, handlers>>
  BY <1>3, SameSet, TableSame DEF RInv
<1>4. RemoveHandler \/ (\E k \in DOMAIN handlers : Accept(k)) \/ UNCHANGED <<files, handlers>>
  BY DEF Next, Senders, Send, Finish, SendEmpty, Arrive, Connect, Cancel, Run, Call, Read, ReadEof,
         AcceptAgain, AcceptFails, Report, Rebuild, Select, SelectFails, Recover, Die
<1> QED
  BY <1>1, <1>2, <1>3, <1>4

-----------------------------------------------------------------------------
(* Nothing new is opened, and the listeners have what they had. *)
LEMMA OnceSame ==
  ASSUME Once, connected' = connected,
         DOMAIN files' \subseteq DOMAIN files, \A n \in DOMAIN files' : files'[n] = files[n],
         DOMAIN inbox' = DOMAIN inbox, \A l \in Listeners : inbox'[l] = inbox[l]
  PROVE  Once'
<1>1. Listeners' = Listeners
  BY DEF Listeners
<1>2. \A n \in DOMAIN files' : \A m \in DOMAIN files' \ {n} :
         files'[n] \in DOMAIN inbox' => files'[m] # files'[n]
  BY DEF Once
<1>3. \A l \in Listeners : \A p \in DOMAIN inbox'[l] :
        /\ \A n \in DOMAIN files' : files'[n] # inbox'[l][p]
        /\ \A o \in Listeners : \A q \in DOMAIN inbox'[o] :
             <<o, q>> # <<l, p>> => inbox'[o][q] # inbox'[l][p]
  BY DEF Once
<1>4. \A c \in connected + 1 .. MaxConns :
        /\ \A n \in DOMAIN files' : files'[n] # <<"conn", c>>
        /\ \A l \in Listeners : <<"conn", c>> \notin Range(inbox'[l])
  BY DEF Once
<1> QED
  BY <1>1, <1>2, <1>3, <1>4 DEF Once

(* A connection waits at one listener, and has no descriptor yet. *)
LEMMA ConnectOnce ==
  ASSUME RInv, NEW l \in DOMAIN inbox, Connect(l)
  PROVE  Once'
<1> DEFINE w == inbox[l]
<1>0. PICK c : c = <<"conn", connected + 1>>
  OBVIOUS
<1>1. /\ Kind(l) = "tcp" /\ connected < MaxConns /\ connected' = connected + 1 /\ files' = files
      /\ inbox' = [inbox EXCEPT ![l] = Append(w, c)]
  BY <1>0 DEF Connect
<1>2. /\ DOMAIN inbox' = DOMAIN inbox /\ inbox'[l] = Append(w, c)
      /\ \A o \in DOMAIN inbox \ {l} : inbox'[o] = inbox[o]
  BY <1>1 DEF RInv, Typed, Boxed
<1>3. connected \in Nat /\ MaxConns \in Nat
  BY ReaderAssumption DEF RInv, Typed, Plain
<1>4. /\ w \in Seq(Conns) /\ Len(w) \in Nat /\ DOMAIN w = 1 .. Len(w)
      /\ DOMAIN inbox'[l] = 1 .. Len(w) + 1
      /\ \A p \in DOMAIN w : inbox'[l][p] = w[p]
      /\ inbox'[l][Len(w) + 1] = c
  <2>1. w \in Seq(Conns)
    BY <1>1 DEF RInv, Typed, Boxed, Items
  <2>2. c \in Conns
    BY <1>0, <1>1, <1>3 DEF Conns
  <2> QED
    BY <1>2, <2>1, <2>2
<1>5. Listeners' = Listeners /\ l \in Listeners
  BY <1>1, <1>2 DEF Listeners
<1>6. /\ \A n \in DOMAIN files : files[n] # c
      /\ \A o \in Listeners : \A q \in DOMAIN inbox[o] : inbox[o][q] # c
  <2>1. connected + 1 \in connected + 1 .. MaxConns
    BY <1>1, <1>3
  <2> QED
    BY <1>0, <2>1 DEF RInv, Once, Range
<1> HIDE DEF w
<1>7. \A o \in Listeners : \A q \in DOMAIN inbox'[o] :
        IF o = l /\ q = Len(w) + 1 THEN inbox'[o][q] = c
                                   ELSE q \in DOMAIN inbox[o] /\ inbox'[o][q] = inbox[o][q]
  <2> SUFFICES ASSUME NEW o \in Listeners, NEW q \in DOMAIN inbox'[o]
               PROVE  IF o = l /\ q = Len(w) + 1 THEN inbox'[o][q] = c
                      ELSE q \in DOMAIN inbox[o] /\ inbox'[o][q] = inbox[o][q]
    OBVIOUS
  <2>1. CASE o = l
    BY <1>4, <2>1 DEF w
  <2>2. CASE o # l
    BY <1>2, <2>2 DEF Listeners
  <2> QED
    BY <2>1, <2>2
<1>8. ASSUME NEW o \in Listeners, NEW q \in DOMAIN inbox'[o]
      PROVE  /\ \A n \in DOMAIN files : files[n] # inbox'[o][q]
             /\ \A u \in Listeners : \A p \in DOMAIN inbox'[u] :
                  <<u, p>> # <<o, q>> => inbox'[u][p] # inbox'[o][q]
  <2>1. \A n \in DOMAIN files : files[n] # inbox'[o][q]
    BY <1>6, <1>7 DEF RInv, Once
  <2>2. ASSUME NEW u \in Listeners, NEW p \in DOMAIN inbox'[u], <<u, p>> # <<o, q>>
        PROVE  inbox'[u][p] # inbox'[o][q]
    <3>1. CASE o = l /\ q = Len(w) + 1
      BY <1>6, <1>7, <2>2, <3>1
    <3>2. CASE u = l /\ p = Len(w) + 1
      BY <1>6, <1>7, <2>2, <3>2
    <3>3. CASE ~(o = l /\ q = Len(w) + 1) /\ ~(u = l /\ p = Len(w) + 1)
      <4>1. /\ q \in DOMAIN inbox[o] /\ inbox'[o][q] = inbox[o][q]
            /\ p \in DOMAIN inbox[u] /\ inbox'[u][p] = inbox[u][p]
        BY <1>7, <3>3
      <4> QED
        BY <2>2, <4>1 DEF RInv, Once
    <3> QED
      BY <3>1, <3>2, <3>3
  <2> QED
    BY <2>1, <2>2
<1>9. ASSUME NEW d \in connected + 2 .. MaxConns
      PROVE  /\ \A n \in DOMAIN files : files[n] # <<"conn", d>>
             /\ \A o \in Listeners : <<"conn", d>> \notin Range(inbox'[o])
  <2>1. d \in connected + 1 .. MaxConns /\ <<"conn", d>> # c
    BY <1>0, <1>3
  <2>2. /\ \A n \in DOMAIN files : files[n] # <<"conn", d>>
        /\ \A o \in Listeners : \A q \in DOMAIN inbox[o] : inbox[o][q] # <<"conn", d>>
    BY <2>1 DEF RInv, Once, Range
  <2> QED
    BY <1>7, <2>1, <2>2 DEF Range
<1>10. \A n \in DOMAIN files : \A m \in DOMAIN files \ {n} :
         files[n] \in DOMAIN inbox => files[m] # files[n]
  BY DEF RInv, Once
<1>11. connected' + 1 = connected + 2
  BY <1>1, <1>3
<1> QED
  BY <1>1, <1>2, <1>5, <1>8, <1>9, <1>10, <1>11 DEF Once

(* accept() takes it from there, and gives it the one it will have. *)
LEMMA AcceptOnce ==
  ASSUME RInv, NEW k \in DOMAIN handlers, Accept(k)
  PROVE  Once'
<1>1. PICK o : o = At(handlers[k].fd)
  OBVIOUS
<1>2. o \in Listeners /\ inbox[o] \in Seq(Conns) /\ inbox[o] # <<>> /\ Waiting(handlers[k].fd) = inbox[o]
  <2>1. Kind(handlers[k].input) = "tcp" /\ Waiting(handlers[k].fd) # <<>>
    BY DEF Accept
  <2>2. handlers[k].fd # 0 /\ Typed
    BY <2>1, TableFacts, HandlerShape DEF RInv
  <2>3. ReadsOwn(k)
    BY <2>2, TableFacts DEF RInv, Mine, Contested
  <2>4. o = handlers[k].input /\ o \in DOMAIN inbox
    BY <1>1, <2>1, <2>2, <2>3, OwnInput
  <2>5. inbox[o] \in Seq(Conns) /\ Waiting(handlers[k].fd) = inbox[o]
    BY <1>1, <2>1, <2>2, <2>4 DEF Waiting, Typed, Boxed, Items
  <2> QED
    BY <2>1, <2>4, <2>5 DEF Listeners
<1>3. PICK c, w, f : c = Head(inbox[o]) /\ w = Tail(inbox[o]) /\ f = Lowest
  OBVIOUS
<1>4. /\ connected' = connected
      /\ inbox' = [inbox EXCEPT ![o] = w]
      /\ \/ UNCHANGED files
         \/ files' = [m \in DOMAIN files \cup {f} |-> IF m = f THEN c ELSE files[m]]
  BY <1>1, <1>2, <1>3 DEF Accept, AddSource, Open, Connection
<1>5. /\ DOMAIN inbox' = DOMAIN inbox /\ inbox'[o] = w
      /\ \A l \in DOMAIN inbox \ {o} : inbox'[l] = inbox[l]
  BY <1>2, <1>4 DEF RInv, Typed, Boxed, Listeners
<1>6. Listeners' = Listeners
  BY <1>5 DEF Listeners
<1>7. /\ 1 \in DOMAIN inbox[o] /\ inbox[o][1] = c
      /\ \A p \in DOMAIN w : p + 1 \in DOMAIN inbox[o] /\ inbox[o][p + 1] = w[p] /\ p \in Nat
                             /\ p + 1 # 1
  BY <1>2, <1>3
<1>8. \A l \in Listeners : \A p \in DOMAIN inbox'[l] :
        LET q == IF l = o THEN p + 1 ELSE p IN
          q \in DOMAIN inbox[l] /\ inbox'[l][p] = inbox[l][q] /\ <<l, q>> # <<o, 1>>
  BY <1>5, <1>7 DEF Listeners
<1>9. /\ \A n \in DOMAIN files : files[n] # c
      /\ \A l \in Listeners : \A p \in DOMAIN inbox'[l] : inbox'[l][p] # c
  <2>1. \A n \in DOMAIN files : files[n] # c
    BY <1>2, <1>7 DEF RInv, Once
  <2>2. \A l \in Listeners : \A q \in DOMAIN inbox[l] : <<l, q>> # <<o, 1>> => inbox[l][q] # c
    BY <1>2, <1>7 DEF RInv, Once
  <2> QED
    BY <1>8, <2>1, <2>2
<1>10. \A n \in DOMAIN files' : \/ n \in DOMAIN files /\ files'[n] = files[n]
                                \/ n = f /\ files'[n] = c
  BY <1>4
<1>11. ASSUME NEW n \in DOMAIN files', NEW m \in DOMAIN files' \ {n}, files'[n] \in DOMAIN inbox
       PROVE  files'[m] # files'[n]
  <2>1. CASE n \in DOMAIN files /\ files'[n] = files[n] /\ m \in DOMAIN files /\ files'[m] = files[m]
    BY <1>11, <2>1 DEF RInv, Once
  <2>2. CASE n \in DOMAIN files /\ files'[n] = files[n] /\ m = f /\ files'[m] = c
    BY <1>9, <2>2
  <2>3. CASE n = f /\ files'[n] = c /\ m \in DOMAIN files /\ files'[m] = files[m]
    BY <1>9, <2>3
  <2> QED
    BY <1>10, <2>1, <2>2, <2>3
<1>12. ASSUME NEW l \in Listeners, NEW p \in DOMAIN inbox'[l]
       PROVE  /\ \A n \in DOMAIN files' : files'[n] # inbox'[l][p]
              /\ \A u \in Listeners : \A q \in DOMAIN inbox'[u] :
                   <<u, q>> # <<l, p>> => inbox'[u][q] # inbox'[l][p]
  <2>1. PICK p1 \in DOMAIN inbox[l] : inbox'[l][p] = inbox[l][p1] /\ p1 = IF l = o THEN p + 1 ELSE p
    BY <1>8
  <2>2. \A n \in DOMAIN files' : files'[n] # inbox'[l][p]
    <3>1. \A n \in DOMAIN files : files[n] # inbox[l][p1]
      BY <2>1 DEF RInv, Once
    <3> QED
      BY <1>9, <1>10, <2>1, <3>1
  <2>3. ASSUME NEW u \in Listeners, NEW q \in DOMAIN inbox'[u], <<u, q>> # <<l, p>>
        PROVE  inbox'[u][q] # inbox'[l][p]
    <3>1. PICK q1 \in DOMAIN inbox[u] : inbox'[u][q] = inbox[u][q1] /\ q1 = IF u = o THEN q + 1 ELSE q
      BY <1>8
    <3>2. <<u, q1>> # <<l, p1>>
      <4>1. CASE u = l /\ u = o
        <5>1. p \in Nat /\ q \in Nat /\ p # q
          BY <1>5, <1>7, <2>3, <4>1
        <5> QED
          BY <2>1, <3>1, <4>1, <5>1
      <4>2. CASE u = l /\ u # o
        BY <2>1, <2>3, <3>1, <4>2
      <4>3. CASE u # l
        BY <4>3
      <4> QED
        BY <4>1, <4>2, <4>3
    <3> QED
      BY <2>1, <3>1, <3>2 DEF RInv, Once
  <2> QED
    BY <2>2, <2>3
<1>13. ASSUME NEW d \in connected + 1 .. MaxConns
       PROVE  /\ \A n \in DOMAIN files' : files'[n] # <<"conn", d>>
              /\ \A l \in Listeners : <<"conn", d>> \notin Range(inbox'[l])
  <2>1. /\ \A n \in DOMAIN files : files[n] # <<"conn", d>>
        /\ \A l \in Listeners : \A q \in DOMAIN inbox[l] : inbox[l][q] # <<"conn", d>>
    BY DEF RInv, Once, Range
  <2>2. c # <<"conn", d>>
    BY <1>2, <1>7, <2>1
  <2>3. \A n \in DOMAIN files' : files'[n] # <<"conn", d>>
    BY <1>10, <2>1, <2>2
  <2>4. \A l \in Listeners : \A p \in DOMAIN inbox'[l] : inbox'[l][p] # <<"conn", d>>
    BY <1>8, <2>1
  <2> QED
    BY <2>3, <2>4 DEF Range
<1> QED
  BY <1>4, <1>5, <1>6, <1>11, <1>12, <1>13 DEF Once

(* Every step keeps an input to one descriptor, and a connection to one    *)
(* place.                                                                  *)
LEMMA StepOnce ==
  ASSUME RInv, Next
  PROVE  Once'
<1>0. Typed /\ Scanned /\ Once /\ inbox = [o \in DOMAIN inbox |-> inbox[o]]
  BY DEF RInv, Typed, Boxed
<1>1. CASE \E o \in DOMAIN inbox : Send(o) \/ Finish(o) \/ SendEmpty(o)
  <2>1. PICK o \in DOMAIN inbox : Send(o) \/ Finish(o) \/ SendEmpty(o)
    BY <1>1
  <2>2. PICK what : Arrive(o, what)
    BY <2>1 DEF Send, Finish, SendEmpty
  <2>3. /\ UNCHANGED <<files, connected>> /\ o \notin Listeners
        /\ inbox' = [inbox EXCEPT ![o] = Append(@, what)]
    BY <2>2 DEF Arrive, Reachable, Listeners
  <2>4. DOMAIN inbox' = DOMAIN inbox /\ \A l \in Listeners : inbox'[l] = inbox[l]
    BY <1>0, <2>3 DEF Listeners
  <2> QED
    BY <1>0, <2>3, <2>4, OnceSame
<1>2. CASE \E o \in DOMAIN inbox : Connect(o)
  BY <1>2, ConnectOnce
<1>3. CASE \E k \in DOMAIN handlers : Accept(k)
  BY <1>3, AcceptOnce
<1>4. CASE \E k \in DOMAIN handlers : Read(k)
  <2>1. PICK k \in DOMAIN handlers : Read(k)
    BY <1>4
  <2> DEFINE n == handlers[k].fd
  <2>2. PICK m \in 1 .. Lines(n) : inbox' = [inbox EXCEPT ![At(n)] = SubSeq(@, m + 1, Len(@))]
    BY <2>1 DEF Read
  <2>3. Kind(At(n)) # "tcp"
    <3>1. Lines(n) # 0
      BY <2>2
    <3> QED
      BY <3>1 DEF Lines
  <2>4. DOMAIN inbox' = DOMAIN inbox /\ \A l \in Listeners : inbox'[l] = inbox[l]
    BY <1>0, <2>2, <2>3 DEF Listeners
  <2>5. UNCHANGED <<files, connected>>
    BY <2>1 DEF Read
  <2> QED
    BY <1>0, <2>4, <2>5, OnceSame
<1>5. CASE RemoveHandler
  <2>1. /\ DOMAIN files' \subseteq DOMAIN files
        /\ \A n \in DOMAIN files' : files'[n] = files[n]
        /\ UNCHANGED <<inbox, connected>>
    BY <1>0, <1>5, RemovedIs
  <2> QED
    BY <1>0, <2>1, OnceSame
<1>6. CASE UNCHANGED <<files, inbox, connected>>
  BY <1>0, <1>6, OnceSame
<1>7. \/ \E o \in DOMAIN inbox : Send(o) \/ Finish(o) \/ SendEmpty(o)
      \/ \E o \in DOMAIN inbox : Connect(o)
      \/ \E k \in DOMAIN handlers : Accept(k)
      \/ \E k \in DOMAIN handlers : Read(k)
      \/ RemoveHandler
      \/ UNCHANGED <<files, inbox, connected>>
  BY DEF Next, Senders, Cancel, Run, Call, ReadEof, AcceptAgain, AcceptFails, Report, Rebuild,
         Select, SelectFails, Recover, Die, world
<1> QED
  BY <1>1, <1>2, <1>3, <1>4, <1>5, <1>6, <1>7

-----------------------------------------------------------------------------
(* With at most one claim no two handlers read from the same object. *)
LEMMA OwnObjects ==
  ASSUME RInv, Apart, NEW k \in DOMAIN handlers, NEW l \in DOMAIN handlers \ {k}
  PROVE  At(handlers[k].fd) # At(handlers[l].fd)
<1>1. /\ handlers[k].fd \in DOMAIN files /\ At(handlers[k].fd) = files[handlers[k].fd]
      /\ At(handlers[k].fd) \in DOMAIN inbox
      /\ handlers[l].fd \in DOMAIN files /\ At(handlers[l].fd) = files[handlers[l].fd]
      /\ ReadsOwn(k)
  BY AllOpen, OwnInput DEF RInv
<1>2. handlers[l].fd # handlers[k].fd
  BY <1>1 DEF ReadsOwn
<1> QED
  BY <1>1, <1>2 DEF RInv, Once

(* What waits only grows at its end. *)
LEMMA GrowsGenuine ==
  ASSUME RInv, Next, UNCHANGED <<sources, leftover, files, handlers, fds, i, count, rescan, pc>>,
         NEW o \in DOMAIN inbox, NEW x, NEW S, inbox[o] \in Seq(S), x \in S,
         inbox' = [inbox EXCEPT ![o] = Append(@, x)]
  PROVE  Genuine'
<1>1. /\ DOMAIN inbox' = DOMAIN inbox /\ inbox'[o] = Append(inbox[o], x)
      /\ \A q \in DOMAIN inbox \ {o} : inbox'[q] = inbox[q]
  BY DEF RInv, Typed, Boxed
<1>2. /\ inbox'[o] # <<>>
      /\ inbox[o] # <<>> => Head(inbox'[o]) = Head(inbox[o])
  BY <1>1
<1>3. \A n : Waiting(n) # <<>> => Waiting(n)' # <<>>
  BY <1>1, <1>2 DEF Waiting, At
<1>4. ASSUME Apart, ~rescan, pc = "remove", Kind(handlers[i].input) \in {"stdin", "udp", "conn"}
      PROVE  Waits(handlers[i].input, Final(handlers[i].input))'
  <2>1. Waits(handlers[i].input, Final(handlers[i].input))
    BY <1>4 DEF RInv, Genuine
  <2>2. handlers[i].input \in DOMAIN inbox
    <3>1. i \in DOMAIN handlers
      BY <1>4, TableFacts DEF RInv, Scanned, Typed, Plain
    <3>2. Typed
      BY DEF RInv
    <3> QED
      BY <3>1, <3>2, TableFacts, HandlerShape DEF Typed, Boxed
  <2> QED
    BY <1>1, <1>2, <2>1, <2>2 DEF Waits
<1> QED
  BY <1>3, <1>4, SameSet DEF RInv, Genuine

(* A call leaves alone what waits for the handlers still to be called. *)
LEMMA CallGenuine ==
  ASSUME RInv, NEW k \in DOMAIN handlers, Call(k), Apart, ~rescan
  PROVE  /\ pc' \in {"scan", "report"} =>
              \A l \in (IF pc' = "scan" THEN i' ELSE i' + 1) .. count :
                handlers[l].fd \in fds /\ Kind(handlers[l].input) # "tcp" =>
                  Waiting(handlers[l].fd)' # <<>>
         /\ pc' = "remove" /\ Kind(handlers[i].input)' \in {"stdin", "udp", "conn"} =>
              Waits(handlers[i].input, Final(handlers[i].input))'
<1> DEFINE n == handlers[k].fd
<1>0. /\ Typed /\ Scanned
      /\ Len(handlers) \in Nat /\ count \in 0 .. Len(handlers) /\ i \in 1 .. count + 1
      /\ DOMAIN handlers = 1 .. Len(handlers)
  BY TableFacts DEF RInv, Typed, Plain
<1>1. pc = "scan" /\ k \in i .. count /\ n \in fds
  <2>1. Turn(k)
    BY DEF Call, Read, ReadEof, Accept, AcceptAgain, AcceptFails
  <2> QED
    BY <1>0, <2>1, TurnIs
<1>2. \A l \in i .. count : /\ l \in DOMAIN handlers
                            /\ handlers[l].fd \in fds /\ Kind(handlers[l].input) # "tcp" =>
                                 Waiting(handlers[l].fd) # <<>>
  BY <1>0, <1>1 DEF RInv, Genuine
<1>3. /\ \A l \in DOMAIN handlers : ReadsOwn(l) /\ handlers[l].fd \in DOMAIN files
      /\ \A l \in DOMAIN handlers : At(handlers[l].fd) \in DOMAIN inbox
      /\ \A l \in DOMAIN handlers : Kind(handlers[l].input) # "tcp" => Kind(At(handlers[l].fd)) # "tcp"
      /\ \A l \in DOMAIN handlers \ {k} : At(handlers[l].fd) # At(n)
  BY <1>0, AllOpen, OwnInput, OwnObjects
<1>4. CASE Read(k)
  <2>1. /\ i' = k /\ pc' = "report" /\ files' = files
        /\ \E m \in 1 .. Lines(n) : inbox' = [inbox EXCEPT ![At(n)] = SubSeq(@, m + 1, Len(@))]
    BY <1>4 DEF Read
  <2>2. DOMAIN inbox' = DOMAIN inbox /\ \A q \in DOMAIN inbox \ {At(n)} : inbox'[q] = inbox[q]
    BY <1>0, <2>1 DEF Typed, Boxed
  <2>3. \A l \in k + 1 .. count : l \in i .. count /\ l # k
    BY <1>0, <1>1
  <2>4. \A l \in DOMAIN handlers \ {k} : Waiting(handlers[l].fd) # <<>> => inbox[At(handlers[l].fd)] # <<>>
    BY <1>3 DEF Waiting
  <2>5. \A l \in DOMAIN handlers \ {k} : inbox[At(handlers[l].fd)] # <<>> =>
          inbox'[At(handlers[l].fd)] # <<>> /\ At(handlers[l].fd) \in DOMAIN inbox'
    BY <1>3, <2>2
  <2>6. \A l \in k + 1 .. count :
          handlers[l].fd \in fds /\ Kind(handlers[l].input) # "tcp" =>
            Waiting(handlers[l].fd)' # <<>>
    <3> SUFFICES ASSUME NEW l \in k + 1 .. count, handlers[l].fd \in fds,
                        Kind(handlers[l].input) # "tcp"
                 PROVE  Waiting(handlers[l].fd)' # <<>>
      OBVIOUS
    <3>1. l \in DOMAIN handlers \ {k} /\ Waiting(handlers[l].fd) # <<>>
      BY <1>2, <2>3
    <3>2. handlers' = handlers
      BY <1>4 DEF Read
    <3>3. At(handlers[l].fd)' = At(handlers[l].fd)
      BY <2>1, <3>2 DEF At
    <3> QED
      BY <2>4, <2>5, <3>1, <3>2, <3>3 DEF Waiting
  <2> QED
    BY <2>1, <2>6
<1>5. CASE ReadEof(k)
  <2>1. /\ UNCHANGED <<inbox, handlers>> /\ i' = k /\ pc' = "remove" /\ Lines(n) = 0
        /\ Kind(handlers[k].input) # "tcp"
    BY <1>5 DEF ReadEof, world
  <2>2. Waiting(n) # <<>> /\ Waiting(n) = inbox[At(n)] /\ Kind(At(n)) # "tcp"
    BY <1>0, <1>1, <1>2, <1>3, <2>1 DEF Waiting
  <2>3. Waits(At(n), Final(At(n)))
    BY <1>0, <2>1, <2>2, LinesBound DEF Waits
  <2>4. Kind(handlers[k].input) \in {"stdin", "udp", "conn"} => At(n) = handlers[k].input
    BY <1>0, <1>3, OwnInput
  <2> QED
    BY <2>1, <2>3, <2>4 DEF Waits, Final
<1>6. CASE AcceptFails(k)
  BY <1>6 DEF AcceptFails
<1>7. CASE AcceptAgain(k)
  <2>1. UNCHANGED <<inbox, files, handlers, pc>> /\ i' = k + 1
    BY <1>7 DEF AcceptAgain, world
  <2>2. \A l \in k + 1 .. count : l \in i .. count
    BY <1>0, <1>1
  <2>3. \A l : Waiting(handlers[l].fd)' = Waiting(handlers[l].fd)
    BY <2>1 DEF Waiting, At
  <2> QED
    BY <1>1, <1>2, <2>1, <2>2, <2>3
<1>8. CASE Accept(k)
  <2>1. /\ Kind(handlers[k].input) = "tcp" /\ i' = k /\ pc' = pc
        /\ inbox' = [inbox EXCEPT ![At(n)] = Tail(@)]
        /\ \E o : AddSource(Connection(Lowest, o))
    BY <1>8 DEF Accept
  <2>2. DOMAIN inbox' = DOMAIN inbox /\ \A q \in DOMAIN inbox \ {At(n)} : inbox'[q] = inbox[q]
    BY <1>0, <2>1 DEF Typed, Boxed
  <2>3. Lowest \notin DOMAIN files
    BY <1>0, LowestIsFree DEF Typed, Plain
  <2>4. /\ DOMAIN files \subseteq DOMAIN files'
        /\ \A m \in DOMAIN files : files'[m] = files[m]
    BY <2>1, <2>3 DEF AddSource, Open, Connection
  <2>5. \A l \in DOMAIN handlers : handlers'[l] = handlers[l]
    BY <1>0, <2>1 DEF AddSource, Typed
  <2>6. \A l \in k .. count :
          handlers[l].fd \in fds /\ Kind(handlers[l].input) # "tcp" =>
            Waiting(handlers[l].fd)' # <<>>
    <3> SUFFICES ASSUME NEW l \in k .. count, handlers[l].fd \in fds,
                        Kind(handlers[l].input) # "tcp"
                 PROVE  Waiting(handlers[l].fd)' # <<>>
      OBVIOUS
    <3>1. l \in i .. count /\ l # k
      BY <1>0, <1>1, <2>1
    <3>2. l \in DOMAIN handlers \ {k} /\ Waiting(handlers[l].fd) # <<>>
      BY <1>2, <3>1
    <3>3. At(handlers[l].fd)' = At(handlers[l].fd)
      BY <1>3, <2>4, <2>5, <3>2 DEF At
    <3>4. At(handlers[l].fd) \in DOMAIN inbox \ {At(n)} /\ inbox[At(handlers[l].fd)] # <<>>
      BY <1>3, <3>2 DEF Waiting
    <3> QED
      BY <2>2, <3>3, <3>4 DEF Waiting
  <2> QED
    BY <1>1, <2>1, <2>6
<1> QED
  BY <1>4, <1>5, <1>6, <1>7, <1>8 DEF Call

(* Every step keeps what the first scan after a select() knows. *)
LEMMA StepGenuine ==
  ASSUME RInv, Next, Typed'
  PROVE  Genuine'
<1>0. /\ Typed /\ Scanned /\ Apart' = Apart /\ UNCHANGED <<sources, leftover>>
      /\ Len(handlers) \in Nat /\ count \in 0 .. Len(handlers) /\ i \in 1 .. count + 1
      /\ DOMAIN handlers = 1 .. Len(handlers)
  BY TableFacts, SameSet DEF RInv, Typed, Plain
<1>1. ASSUME NEW o \in DOMAIN inbox, Send(o) \/ Finish(o) \/ SendEmpty(o) PROVE Genuine'
  <2>1. PICK what \in {"line", Final(o)} : Arrive(o, what)
    BY <1>1 DEF Send, Finish, SendEmpty, Final
  <2>2. /\ UNCHANGED <<files, handlers, fds, i, count, rescan, pc>> /\ Kind(o) # "tcp"
        /\ inbox' = [inbox EXCEPT ![o] = Append(@, what)]
    BY <2>1 DEF Arrive, Reachable, scan
  <2>3. inbox[o] \in Seq({"line", Final(o)})
    BY <1>0, <2>2 DEF Typed, Boxed, Items
  <2> QED
    BY <1>0, <2>2, <2>3, GrowsGenuine
<1>2. ASSUME NEW o \in DOMAIN inbox, Connect(o) PROVE Genuine'
  <2>1. /\ UNCHANGED <<files, handlers, fds, i, count, rescan, pc>> /\ Kind(o) = "tcp"
        /\ inbox' = [inbox EXCEPT ![o] = Append(@, <<"conn", connected + 1>>)]
        /\ connected < MaxConns
    BY <1>2 DEF Connect, scan
  <2>2. inbox[o] \in Seq(Conns)
    BY <1>0, <2>1 DEF Typed, Boxed, Items
  <2>3. <<"conn", connected + 1>> \in Conns
    <3>1. connected + 1 \in 1 .. MaxConns
      <4>1. connected \in 0 .. MaxConns
        BY <1>0 DEF Typed, Plain
      <4> QED
        BY <2>1, <4>1, ReaderAssumption
    <3> QED
      BY <3>1 DEF Conns
  <2> QED
    BY <1>0, <2>1, <2>2, <2>3, GrowsGenuine
<1>3. CASE Cancel
  <2>1. UNCHANGED <<files, inbox, handlers, fds, i, count, rescan, pc>>
    BY <1>3 DEF Cancel, world, scan
  <2> QED
    BY <1>0, <2>1 DEF RInv, Genuine, Waiting, At, Waits
<1>4. ASSUME NEW k \in DOMAIN handlers, Call(k) PROVE Genuine'
  <2> SUFFICES ASSUME Apart, ~rescan'
               PROVE  /\ pc' \in {"scan", "report"} =>
                           \A l \in (IF pc' = "scan" THEN i' ELSE i' + 1) .. count' :
                             handlers'[l].fd \in fds' /\ Kind(handlers'[l].input) # "tcp" =>
                               Waiting(handlers[l].fd)' # <<>>
                      /\ pc' = "remove" /\ Kind(handlers[i].input)' \in {"stdin", "udp", "conn"} =>
                           Waits(handlers[i].input, Final(handlers[i].input))'
    BY <1>0 DEF Genuine, Kind
  <2>1. UNCHANGED <<fds, count, rescan>>
    BY <1>4 DEF Call, Read, ReadEof, Accept, AcceptAgain, AcceptFails
  <2>2. /\ pc' \in {"scan", "report"} =>
             \A l \in (IF pc' = "scan" THEN i' ELSE i' + 1) .. count :
               handlers[l].fd \in fds /\ Kind(handlers[l].input) # "tcp" =>
                 Waiting(handlers[l].fd)' # <<>>
        /\ pc' = "remove" /\ Kind(handlers[i].input)' \in {"stdin", "udp", "conn"} =>
             Waits(handlers[i].input, Final(handlers[i].input))'
    BY <1>4, <2>1, CallGenuine
  <2>3. i' \in 1 .. count' + 1
    BY DEF Typed, Plain
  <2>4. \A l \in 1 .. count : handlers'[l] = handlers[l]
    <3>1. CASE Accept(k)
      BY <1>0, <3>1 DEF Accept, AddSource, Typed
    <3>2. CASE ~Accept(k)
      BY <1>4, <3>2 DEF Call, Read, ReadEof, AcceptAgain, AcceptFails
    <3> QED
      BY <3>1, <3>2
  <2> QED
    BY <1>0, <2>1, <2>2, <2>3, <2>4
<1>5. CASE Report
  <2>1. /\ UNCHANGED <<files, inbox, handlers, fds, count, rescan>> /\ pc = "report"
        /\ pc' \in {"dead", "scan", "report"}
        /\ pc' = "report" => i' = i
        /\ pc' = "scan" => i' = i + 1
    BY <1>5 DEF Report, world
  <2>2. \A n : Waiting(n)' = Waiting(n)
    BY <2>1 DEF Waiting, At
  <2> QED
    BY <1>0, <2>1, <2>2 DEF RInv, Genuine
<1>6. CASE RemoveHandler \/ Rebuild \/ SelectFails \/ Die
  BY <1>6 DEF RemoveHandler, Rebuild, SelectFails, Die, Genuine
<1>7. CASE Select
  <2>1. /\ UNCHANGED <<files, inbox, handlers, i, count, rescan>>
        /\ \/ pc' = "scan" /\ fds' = {n \in fds : Ready(n)}
           \/ pc' = "recover"
    BY <1>7 DEF Select, world, scan
  <2>2. ASSUME Apart, NEW l \in DOMAIN handlers, Ready(handlers[l].fd)
        PROVE  Waiting(handlers[l].fd) # <<>>
    BY <1>0, <2>2, AllOpen, OwnInput DEF Ready
  <2>3. \A n : Waiting(n)' = Waiting(n)
    BY <2>1 DEF Waiting, At
  <2>4. \A l \in i .. count : l \in DOMAIN handlers
    BY <1>0
  <2> QED
    BY <1>0, <2>1, <2>2, <2>3, <2>4 DEF Genuine
<1>8. CASE Recover
  BY <1>0, <1>8 DEF Recover, RInv, Nonstop, Genuine
<1> QED
  BY <1>1, <1>2, <1>3, <1>4, <1>5, <1>6, <1>7, <1>8 DEF Next, Senders, Run

(* Other threads may take numbers and put them back, and use the queue. *)
LEMMA OthersTyped ==
  ASSUME Typed,
         UNCHANGED <<sources, leftover, inbox, sent, connected, handlers, fds, i, count, rescan,
                     held, pc, cancelled>>,
         DOMAIN files' \subseteq Nat \ {1, 2}, IsFiniteSet(DOMAIN files'),
         queue' \in Seq({"line", "end"})
  PROVE  Typed'
<1>1. Plain'
  BY DEF Typed, Plain
<1>2. Boxed'
  BY BoxSame DEF Typed
<1>3. Handlers' = Handlers
  BY DEF Handlers, Made
<1> QED
  BY <1>1, <1>2, <1>3 DEF Typed

(* As long as what a handler reads from stays behind its descriptor, and   *)
(* what is opened is no input of the reader, the invariant is kept.        *)
LEMMA OthersApart ==
  ASSUME RInv,
         UNCHANGED <<sources, leftover, inbox, sent, connected, handlers, fds, i, count, rescan,
                     held, pc, cancelled>>,
         Typed', Mine(1)', ZeroOnce(1)', Owned(1)',
         NEW x, x \notin DOMAIN inbox, \A c \in Nat : x # <<"conn", c>>,
         \A l \in Listeners : x \notin Range(inbox[l]),
         \A n \in DOMAIN files' : files'[n] = x \/ (n \in DOMAIN files /\ files'[n] = files[n]),
         \A k \in DOMAIN handlers : Apart => At(handlers[k].fd)' = At(handlers[k].fd)
  PROVE  RInv'
<1>1. Apart' = Apart
  BY DEF Apart, Claims
<1>2. Scanned' /\ Nonstop'
  BY <1>1 DEF RInv, Scanned, Nonstop
<1>3. Once'
  <2>1. Listeners' = Listeners /\ Once
    BY DEF Listeners, RInv
  <2>2. \A n \in DOMAIN files' : \A m \in DOMAIN files' \ {n} :
          files'[n] \in DOMAIN inbox' => files'[m] # files'[n]
    BY <2>1 DEF Once
  <2>3. ASSUME NEW l \in Listeners, NEW q \in DOMAIN inbox[l], NEW n \in DOMAIN files'
        PROVE  files'[n] # inbox[l][q]
    BY <2>1, <2>3 DEF Once, Range
  <2>4. ASSUME NEW c \in connected + 1 .. MaxConns, NEW n \in DOMAIN files'
        PROVE  files'[n] # <<"conn", c>>
    <3>1. c \in Nat
      BY ReaderAssumption DEF RInv, Typed, Plain
    <3> QED
      BY <2>1, <3>1 DEF Once
  <2>5. \A l \in Listeners : \A p \in DOMAIN inbox[l] :
          \A o \in Listeners : \A q \in DOMAIN inbox[o] :
            <<o, q>> # <<l, p>> => inbox[o][q] # inbox[l][p]
    BY <2>1 DEF Once
  <2>6. \A c \in connected + 1 .. MaxConns : \A l \in Listeners : <<"conn", c>> \notin Range(inbox[l])
    BY <2>1 DEF Once
  <2> QED
    BY <2>1, <2>2, <2>3, <2>4, <2>5, <2>6 DEF Once
<1>4. Genuine'
  <2>0. Typed /\ Scanned /\ Genuine
    BY DEF RInv
  <2>1. Apart => \A k \in DOMAIN handlers : Waiting(handlers[k].fd)' = Waiting(handlers[k].fd)
    BY DEF Waiting
  <2>2. /\ i \in Nat /\ i >= 1 /\ count \in Nat
        /\ \A k \in i .. count : k \in DOMAIN handlers /\ k \in Nat
    <3>1. i \in 1 .. count + 1 /\ count \in 0 .. Len(handlers) /\ Len(handlers) \in Nat
          /\ DOMAIN handlers = 1 .. Len(handlers)
      BY <2>0, TableFacts DEF Typed, Plain
    <3> QED
      BY <3>1
  <2>3. \A k \in (IF pc = "scan" THEN i ELSE i + 1) .. count : k \in i .. count
    BY <2>2
  <2>4. \A o, w : Waits(o, w)' = Waits(o, w)
    BY DEF Waits
  <2> QED
    BY <1>1, <2>0, <2>1, <2>2, <2>3, <2>4 DEF Genuine
<1> QED
  BY <1>2, <1>3, <1>4 DEF RInv

(* A step that leaves descriptors alone keeps it whatever it pops, or what *)
(* it pushes.                                                              *)
LEMMA QueueApart ==
  ASSUME RInv,
         UNCHANGED <<sources, leftover, files, inbox, sent, connected, handlers, fds, i, count,
                     rescan, held, pc, cancelled>>,
         queue' \in Seq({"line", "end"})
  PROVE  RInv'
<1>1. Apart' = Apart
  BY DEF Apart, Claims
<1>2. Typed'
  BY OthersTyped DEF RInv, Typed, Plain
<1>3. Scanned' /\ Nonstop'
  BY <1>1 DEF RInv, Scanned, Nonstop
<1>4. Mine(1)' /\ ZeroOnce(1)' /\ Owned(1)'
  BY TableSame DEF RInv
<1>5. Once'
  BY DEF RInv, Once, Listeners
<1>6. Genuine'
  BY <1>1 DEF RInv, Genuine, Waiting, At, Waits
<1> QED
  BY <1>2, <1>3, <1>4, <1>5, <1>6 DEF RInv

(* The invariant is inductive. *)
LEMMA StepRInv == RInv /\ [Next]_vars => RInv'
<1>1. ASSUME RInv, Next PROVE RInv'
  <2>1. Typed'
    BY <1>1, StepTyped
  <2> QED
    BY <1>1, <2>1, StepScanned, StepTable, StepOnce, StepGenuine DEF RInv
<1>2. ASSUME RInv, UNCHANGED vars PROVE RInv'
  BY <1>2, QueueApart DEF RInv, Typed, Plain, vars, set, world, scan
<1> QED
  BY <1>1, <1>2

(* It holds in every behaviour of the reader. *)
THEOREM ReaderInductive == Spec => []RInv
BY InitRInv, StepRInv, PTL DEF Spec

(* The types: descriptors 1 and 2 are nobody's, a handler has a descriptor *)
(* number and an input of the process, and the loop variables stay within  *)
(* the table.                                                              *)
THEOREM ReaderTypes == Spec => []TypeOK
<1>1. RInv => TypeOK
  BY TypedIsTypeOK DEF RInv
<1> QED
  BY <1>1, ReaderInductive, PTL

(* reader.c, input_tcp.c: for every command line in which at most one      *)
(* source closes descriptor 0, and any number of connections, each handler *)
(* in the table reads its own input, through a descriptor no other handler *)
(* has.                                                                    *)
THEOREM ReadersApart == Spec => []HandlersApart
<1>1. RInv => HandlersApart
  BY AllOpen DEF HandlersApart
<1> QED
  BY <1>1, ReaderInductive, PTL

(* reader.c:151: then no handler's descriptor is closed while it is in the *)
(* table, and select() never answers EBADF.                                *)
THEOREM SelectFindsOpen == Spec => []NoBadDescriptor
<1>1. RInv => NoBadDescriptor
  BY DEF RInv, Nonstop, NoBadDescriptor
<1> QED
  BY <1>1, ReaderInductive, PTL

(* What Genuine says of a removal is what the property says. *)
LEMMA GenuineRemoves ==
  ASSUME RInv, Apart, ~rescan
  PROVE  RemovesDue
<1>1. pc = "remove" /\ Kind(handlers[i].input) \in {"stdin", "udp", "conn"} =>
        Waits(handlers[i].input, Final(handlers[i].input))
  BY DEF RInv, Genuine
<1> QED
  BY <1>1 DEF RemovesDue, RemoveHandler, EndsStream, EndsSocket, Final

(* reader.c, input.h:21: and the first handler that is removed after a     *)
(* select() is that of a stream at its end, or of a udp source that was    *)
(* sent an empty datagram, or of a listener.                               *)
THEOREM RemovesAtEnd == Spec => FirstScanGenuine
<1>1. RInv /\ [Next]_vars => [Apart /\ ~rescan => RemovesDue]_vars
  BY GenuineRemoves
<1> QED
  BY <1>1, ReaderInductive, PTL DEF Spec, FirstScanGenuine

=============================================================================
