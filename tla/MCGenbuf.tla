------------------------------ MODULE MCGenbuf ------------------------------
(***************************************************************************)
(* Genbuf with two command lines: a tcp listener alone, whose cleanup may  *)
(* close descriptor 0, and a udp socket beside a source that reads stdin   *)
(* under another name.                                                     *)
(***************************************************************************)
EXTENDS Genbuf

MCLines == {<<"tcp">>, <<"udp", "file">>}
=============================================================================
