--------------------------- MODULE ClientRuntime ----------------------------
(***************************************************************************)
(* The library the application is linked with: the driver shim and its     *)
(* generated stubs, the runtime, and the maths libraries, over one driver. *)
(* Which of them the application calls is its program.                     *)
(***************************************************************************)
EXTENDS CudnnBackend, GeneratedStubs

vars == <<runtimeVars, mathsVars, backendVars, stubVars>>

Init == LibrariesInit /\ StubInit
Next ==
  \/ program.calls # {"stubs"} /\ LibrariesNext /\ UNCHANGED stubVars
  \/ program.calls = {"stubs"} /\ StubNext /\ UNCHANGED <<runtimeVars, mathsVars, backendVars>>

Spec == Init /\ [][Next]_vars
=============================================================================
