----------------------------- MODULE MCOpStream ------------------------------
(* Small bounds for OpStream.                                              *)
EXTENDS OpStream
=============================================================================
