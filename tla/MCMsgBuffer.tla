----------------------------- MODULE MCMsgBuffer -----------------------------
(***************************************************************************)
(* MsgBuffer with the threads genbuf has: main and the reader push, the    *)
(* reader may be cancelled, the logger pops.  With chunks of two slots the *)
(* messages below span three chunks, and an unpop at a chunk boundary puts *)
(* a chunk in front of the list.                                           *)
(***************************************************************************)
EXTENDS MsgBuffer

CONSTANTS main, reader

MCProducers   == {main, reader}
MCCancellable == {reader}
=============================================================================
