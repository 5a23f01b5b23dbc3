--------------------------- MODULE MCPrivateMatch ---------------------------
(***************************************************************************)
(* The private-matching run with two interruptions anywhere, three sessions*)
(* and a clock that can outlast an intent.                                 *)
(***************************************************************************)
EXTENDS PrivateMatch

MCSessions == 1..3
MCResults == 1..4
=============================================================================
