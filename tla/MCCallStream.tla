---------------------------- MODULE MCCallStream ----------------------------
(* Model values and small bounds for CallStream.                           *)
EXTENDS CallStream
=============================================================================
