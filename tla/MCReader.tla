------------------------------ MODULE MCReader ------------------------------
(***************************************************************************)
(* Reader with the sources of four command lines: a stream and a listener, *)
(* a datagram socket and a listener, a source that reads stdin under       *)
(* another name, and two sources that share descriptor 0.  And, for the    *)
(* counterexamples, one of them alone.                                     *)
(***************************************************************************)
EXTENDS Reader

MCLines == {<<"stdin", "tcp">>, <<"udp", "tcp">>, <<"udp", "file">>, <<"stdin", "unix">>}
MCStream == {<<"stdin", "tcp">>}
=============================================================================
