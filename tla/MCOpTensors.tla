---------------------------- MODULE MCOpTensors -----------------------------
(* Small bounds for OpTensors: any three operations, and more of the few   *)
(* that meet in a failure, a lost session, a graph, views of a tensor, or  *)
(* a write in place from a tensor that was lost.                           *)
EXTENDS OpTensors

Program(ops, most, tensors) == [ops |-> ops, most |-> most, tensors |-> tensors, fail |-> TRUE, lost |-> FALSE]
Losing(p)    == [p EXCEPT !.lost = TRUE]
Faultless(p) == [p EXCEPT !.fail = FALSE]
Each == {
  Losing(Program(AllOps, 3, 2)),
  Program({"make", "run", "size", "sync"}, 4, 3),
  Faultless(Losing(Program({"make", "size", "sync"}, 6, 4))),
  Program({"make", "run", "compile", "call", "download"}, 4, 3),
  Program({"make", "view", "write", "upload", "download"}, 5, 3),
  Faultless(Losing(Program({"make", "write", "download"}, 5, 2)))}
=============================================================================
