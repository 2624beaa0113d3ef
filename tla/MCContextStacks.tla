--------------------------- MODULE MCContextStacks ---------------------------
(* Two sessions to check: of two threads with a driver that does as it is  *)
(* asked; and of one slot, for two threads in turn, with a driver that may *)
(* refuse any switch of context or mode.                                   *)
EXTENDS ContextStacks

Setting(threads, refuse) == [max_client_threads |-> threads, may_refuse |-> refuse]
BothSettings == {Setting(2, FALSE), Setting(1, TRUE)}
=============================================================================
