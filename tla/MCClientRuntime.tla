-------------------------- MODULE MCClientRuntime --------------------------
(* Small bounds for the driver shim and the runtime: twelve programs of two *)
(* threads, each checked through all its interleavings.                    *)
EXTENDS ClientRuntime, TLC

One == {CHOOSE d \in Devices : TRUE}

Calls(c)       == [calls |-> c, on |-> One, others |-> {FALSE}]
ContextProgram == [Calls({"retain", "release", "ctx reset", "set flags", "state"}) EXCEPT !.others = BOOLEAN]
DeviceProgram  == [calls |-> {"use", "set device", "reset"}, on |-> Devices, others |-> BOOLEAN]
MixedProgram   == Calls({"use", "retain", "release", "reset"})
MemoryProgram  == Calls({"malloc", "malloc async", "free"})
AsyncProgram   == Calls({"malloc", "free", "free async"})
KernelProgram  == Calls({"launch"})
BlasProgram    == Calls({"blas"})
DnnProgram     == Calls({"dnn"})
LtProgram      == Calls({"lt"})
TensorProgram  == Calls({"tensor"})
BackendProgram == Calls({"backend"})
StubsProgram   == Calls({"stubs"})

EachProgram == {ContextProgram, DeviceProgram, MixedProgram, MemoryProgram, AsyncProgram, KernelProgram,
               BlasProgram, DnnProgram, LtProgram, TensorProgram, BackendProgram, StubsProgram}
\* Programs that only allocate and free.
Allocating == {MemoryProgram}

Alike == Permutations(Threads) \union Permutations(Kernels)
=============================================================================
