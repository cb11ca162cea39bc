-------------------------------- MODULE Relay --------------------------------
(***************************************************************************)
(* What genbuf promises with a backlog file (README:4-31): messages are    *)
(* delivered in the order they were obtained; those that are safe survive  *)
(* a crash, and none is delivered twice as long as nothing goes wrong.     *)
(* Which failures may lose a message are its parameters.                   *)
(***************************************************************************)
EXTENDS Integers, Sequences, Functions

CONSTANTS
  Unnoticed,  \* a message may be lost on its way into the file
  CutShort,   \* the file may be emptied with messages in it that are owed
  LeavesOld   \* messages in the file may be left for later ones

VARIABLES
  obtained,   \* messages obtained so far; they are numbered in this order
  owed,       \* messages to deliver
  safe,       \* those of them that outlive the process
  lost,       \* messages that will not be delivered
  delivered,  \* deliveries so far
  doubt,      \* it may be forgotten what was delivered
  muddled     \* messages have been left for later ones since the last crash

relayVars == <<obtained, owed, safe, lost, delivered, doubt, muddled>>

Init ==
  /\ obtained = 0
  /\ owed = {} /\ safe = {} /\ lost = {}
  /\ delivered = <<>>
  /\ doubt = FALSE
  /\ muddled = FALSE

Obtain ==
  /\ obtained' = obtained + 1
  /\ owed' = owed \cup {obtained'}
  /\ UNCHANGED <<safe, lost, delivered, doubt, muddled>>

(* The oldest message that is owed is delivered; a muddled relay does not  *)
(* know which one that is.                                                 *)
Deliver ==
  /\ \E m \in owed :
       /\ muddled \/ \A o \in owed : m <= o
       /\ delivered' = Append(delivered, m)
       /\ owed' = owed \ {m}
       /\ safe' = safe \ {m}
  /\ UNCHANGED <<obtained, lost, doubt, muddled>>

Repeat ==
  /\ doubt
  /\ \E m \in Range(delivered) : delivered' = Append(delivered, m)
  /\ UNCHANGED <<obtained, owed, safe, lost, doubt, muddled>>

Save ==
  /\ \E m \in owed \ safe : safe' = safe \cup {m}
  /\ UNCHANGED <<obtained, owed, lost, delivered, doubt, muddled>>

(* Messages that are owed are lost: one on its way into the file, and      *)
(* nobody notices, or the file with those in it.                           *)
Lose ==
  /\ \E gone \in SUBSET owed :
       /\ \/ Unnoticed /\ gone \cap safe = {}
          \/ CutShort /\ gone \subseteq safe
       /\ owed' = owed \ gone
       /\ safe' = safe \ gone
       /\ lost' = lost \cup gone
  /\ UNCHANGED <<obtained, delivered, doubt, muddled>>

(* What was delivered cannot be crossed out. *)
Doubt ==
  /\ doubt' = TRUE
  /\ UNCHANGED <<obtained, owed, safe, lost, delivered, muddled>>

(* Messages in the file are left there, and later ones come first; it may  *)
(* be forgotten at the same time that others of the file were delivered.   *)
Muddle ==
  /\ LeavesOld
  /\ muddled' = TRUE
  /\ doubt' \in {doubt, TRUE}
  /\ UNCHANGED <<obtained, owed, safe, lost, delivered>>

Crash ==
  /\ owed' = safe
  /\ doubt' = TRUE
  /\ muddled' = FALSE
  /\ UNCHANGED <<obtained, safe, lost, delivered>>

Next == Obtain \/ Deliver \/ Repeat \/ Save \/ Lose \/ Doubt \/ Muddle \/ Crash

Spec == Init /\ [][Next]_relayVars
=============================================================================
