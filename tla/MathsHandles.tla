---------------------------- MODULE MathsHandles ----------------------------
(***************************************************************************)
(* cuBLAS, cuBLASLt and cuDNN run on the server (server/cublas_server.cpp, *)
(* cublaslt_server.cpp, cudnn_server.cpp).  The client keeps of each       *)
(* handle and descriptor what it needs to send a call: the stream it       *)
(* computes on, whether alpha and beta are host values or device pointers, *)
(* and their width.  The libraries differ in when they record: after the   *)
(* answer (cuBLAS), before the call (cuDNN's streams, cuBLASLt's           *)
(* attributes), or after a call that is not answered (cuDNN's tensors,     *)
(* under handles the client mints).                                        *)
(*                                                                         *)
(* Requests reach the server in the order they are made, so a call acts    *)
(* when it is sent.  A handle is used by one thread at a time.             *)
(***************************************************************************)
EXTENDS KernelRegistry

CONSTANTS
  Values,    \* what the libraries give out, and give out again
  MaxMint    \* bound: handles minted

(* What each library's client and server keep, in tables of their own, is  *)
(* kept here in the same ones: a program uses one of them.                 *)
OneOf == {"blas", "dnn", "lt", "tensor", "backend"}
ASSUME MathsAssumption ==
  /\ MaxMint \in Nat /\ None \notin Values
  /\ \A p \in Programs : \A b, c \in p.calls \cap OneOf : b = c

Attrs   == {"stream", "mode", "scale"}
Default == [a \in Attrs |-> 0]     \* default stream, host pointers, float
Nothing == [a \in Attrs |-> 2]     \* not an object
Minted  == 1..MaxMint

VARIABLES
  lib,         \* the libraries: each object's attributes, or Nothing
  noted,       \* g_streams, g_modes, g_descs, by attribute; 0 when not there
  maths,       \* where each thread is inside a call
  mine,        \* the application: the objects it holds
  next_handle, \* g_next_handle
  t_handles,   \* the server: the descriptor of a minted handle, or None
  types,       \* g_tensor_type, by minted handle
  descs,       \* the application: the minted handles it holds
  unsure       \* history: objects a failure, or a late erasure, leaves unlike
               \* their record
tensorVars == <<next_handle, t_handles, types, descs>>
mathsVars  == <<lib, noted, maths, mine, tensorVars, unsure>>

-----------------------------------------------------------------------------
NoMaths == [stage |-> None, x |-> None, m |-> 0, a |-> None, to |-> 0, r |-> "ok", got |-> Default]

MathsInit ==
  /\ lib = [v \in Values |-> Nothing]
  /\ noted = [a \in Attrs |-> [v \in Values |-> 0]]
  /\ maths = [t \in Threads |-> NoMaths]
  /\ mine = {} /\ descs = {} /\ unsure = {}
  /\ next_handle = 1
  /\ t_handles = [m \in Minted |-> None]
  /\ types = [m \in Minted |-> 0]

\* The handle is gone, and given out again perhaps, and its record remains.
Erasing(t)  == maths[t].stage \in {"erase", "erase desc"}

Quiet(t)    == AtRest(t) /\ maths[t] = NoMaths
Uses(t, v)  == Quiet(t) /\ v \in mine /\ \A u \in Threads : maths[u].x = v => Erasing(u)
UsesDesc(t, m) == Quiet(t) /\ m \in descs /\ \A u \in Threads : maths[u].m # m
At(t, stage)   == maths[t].stage = stage
Then(t, stage) == maths' = [maths EXCEPT ![t].stage = stage]
Done(t)        == maths' = [maths EXCEPT ![t] = NoMaths]
Enters(t, stage, v, a, to, r) ==
  maths' = [maths EXCEPT ![t] = [NoMaths EXCEPT !.stage = stage, !.x = v, !.a = a, !.to = to, !.r = r]]

(* A call that is not answered returns before it runs; a failure of it is  *)
(* told to a later call.                                                   *)
AsyncOutcomes == Outcomes \cup (IF MayFail THEN [ran : {FALSE}, r : {"ok"}] ELSE {})

-----------------------------------------------------------------------------
(* What the server does for a call that runs.                              *)
Made(v)      == lib' = [lib EXCEPT ![v] = Default]
Kept(v, a, to, ran) == lib' = IF ran /\ lib[v] # Nothing THEN [lib EXCEPT ![v][a] = to] ELSE lib
Freed(v, ran) == lib' = IF ran THEN [lib EXCEPT ![v] = Nothing] ELSE lib

(* cublasCreate_v2 and cudnnCreate: nothing is recorded.  The value may be *)
(* one whose record is still to be erased.                                 *)
StaleRecord(v) == \E u \in Threads, a \in Attrs : Erasing(u) /\ maths[u].x = v /\ noted[a][v] # 0
CreateHandle(t) ==
  /\ Quiet(t) /\ (Makes("blas") \/ Makes("dnn"))
  /\ \E v \in Values, o \in Outcomes :
       /\ lib[v] = Nothing /\ o.ran
       /\ Made(v)
       /\ mine' = IF o.r = "ok" THEN mine \cup {v} ELSE mine
       /\ unsure' = IF StaleRecord(v) THEN unsure \cup {v} ELSE unsure \ {v}
  /\ UNCHANGED <<noted, maths, tensorVars>>

-----------------------------------------------------------------------------
(* cuBLAS.  cublasSetStream_v2 and cublasSetPointerMode_v2: the call, then *)
(* the record, of what succeeded.                                          *)
BlasSet(t, v, a, to) ==
  /\ Uses(t, v) /\ Makes("blas")
  /\ \E o \in Outcomes :
       /\ Kept(v, a, to, o.ran)
       /\ Enters(t, "note", v, a, to, o.r)
       /\ unsure' = IF o.ran /\ o.r # "ok" THEN unsure \cup {v} ELSE unsure
  /\ UNCHANGED <<noted, mine, tensorVars>>

BlasNotes(t) ==
  noted' = IF maths[t].r = "ok" THEN [noted EXCEPT ![maths[t].a][maths[t].x] = maths[t].to] ELSE noted
BlasNote(t) ==
  /\ At(t, "note")
  /\ BlasNotes(t) /\ Done(t)
  /\ UNCHANGED <<lib, mine, tensorVars, unsure>>

(* cublasDestroy_v2: the call, then the records, each under its lock.      *)
BlasDestroy(t, v) ==
  /\ Uses(t, v) /\ Makes("blas")
  /\ mine' = mine \ {v}
  /\ \E o \in Outcomes : Freed(v, o.ran)
  /\ Enters(t, "erase", v, "stream", 0, "ok")
  /\ UNCHANGED <<noted, tensorVars, unsure>>

\* Mutant of Erased: what a later handle of this value starts with is kept.
NotErased(a, v) == UNCHANGED noted

Erased(a, v) == noted' = [noted EXCEPT ![a][v] = 0]
Erase(t) ==
  /\ At(t, "erase")
  /\ Erased(maths[t].a, maths[t].x)
  /\ unsure' = IF maths[t].x \in mine /\ noted[maths[t].a][maths[t].x] # 0
               THEN unsure \cup {maths[t].x} ELSE unsure
  /\ IF maths[t].a = "stream" THEN maths' = [maths EXCEPT ![t].a = "mode"] ELSE Done(t)
  /\ UNCHANGED <<lib, mine, tensorVars>>

(* The matrix multiplies: the pointer mode is looked up for alpha and      *)
(* again for beta, then the stream, which is marked as having work.        *)
Gemm(t, v) ==
  /\ Uses(t, v) /\ Makes("blas")
  /\ Enters(t, "alpha", v, "mode", 0, "ok")
  /\ UNCHANGED <<lib, noted, mine, tensorVars, unsure>>
GemmScalar(t) ==
  /\ At(t, "alpha") \/ At(t, "beta")
  /\ LET mode == noted["mode"][maths[t].x]
     IN  maths' = IF At(t, "alpha")
                  THEN [maths EXCEPT ![t].stage = "beta", ![t].got.mode = mode]
                  ELSE [maths EXCEPT ![t].stage = "computes", ![t].to = mode]
  /\ UNCHANGED <<lib, noted, mine, tensorVars, unsure>>
(* computes, of cuBLAS.                                                    *)
Computes(t) ==
  /\ At(t, "computes")
  /\ maths' = [maths EXCEPT ![t].stage = "multiply", ![t].got.stream = noted["stream"][maths[t].x]]
  /\ UNCHANGED <<lib, noted, mine, tensorVars, unsure>>
GemmSent(t) ==
  /\ At(t, "multiply")
  /\ Done(t)
  /\ UNCHANGED <<lib, noted, mine, tensorVars, unsure>>

-----------------------------------------------------------------------------
(* cuDNN's handles: the record, then the call.  cudnnSetStream and         *)
(* cudnnBackendExecute are not answered.                                   *)
DnnSetStream(t, v, to) ==
  /\ Uses(t, v) /\ Makes("dnn")
  /\ noted' = [noted EXCEPT !["stream"][v] = to]
  /\ Enters(t, "set stream", v, "stream", to, "ok")
  /\ UNCHANGED <<lib, mine, tensorVars, unsure>>
DnnStreamSet(t) ==
  /\ At(t, "set stream")
  /\ \E o \in AsyncOutcomes :
       /\ Kept(maths[t].x, "stream", maths[t].to, o.ran)
       /\ unsure' = IF o.ran THEN unsure ELSE unsure \cup {maths[t].x}
  /\ Done(t)
  /\ UNCHANGED <<noted, mine, tensorVars>>
DnnDestroy(t, v) ==
  /\ Uses(t, v) /\ Makes("dnn")
  /\ mine' = mine \ {v}
  /\ Erased("stream", v)
  /\ Enters(t, "destroy", v, "stream", 0, "ok")
  /\ UNCHANGED <<lib, tensorVars, unsure>>
DnnDestroyed(t) ==
  /\ At(t, "destroy")
  /\ \E o \in Outcomes : Freed(maths[t].x, o.ran)
  /\ Done(t)
  /\ UNCHANGED <<noted, mine, tensorVars, unsure>>
\* computes, of cuDNN.
DnnExecute(t, v) ==
  /\ Uses(t, v) /\ Makes("dnn")
  /\ maths' = [maths EXCEPT ![t] = [NoMaths EXCEPT !.stage = "execute", !.x = v, !.got.stream = noted["stream"][v]]]
  /\ UNCHANGED <<lib, noted, mine, tensorVars, unsure>>
DnnExecuted(t) ==
  /\ At(t, "execute")
  /\ Done(t)
  /\ UNCHANGED <<lib, noted, mine, tensorVars, unsure>>

-----------------------------------------------------------------------------
(* cuBLASLt's matmul descriptors.  Creating one: the call, then the        *)
(* record, which starts with the scale type.                               *)
LtCreate(t, to) ==
  /\ Quiet(t) /\ Makes("lt")
  /\ \E v \in Values, o \in Outcomes :
       /\ lib[v] = Nothing /\ o.ran
       /\ lib' = [lib EXCEPT ![v] = [Default EXCEPT !.scale = to]]
       /\ unsure' = unsure \ {v}
       /\ IF o.r = "ok" THEN Enters(t, "created", v, "scale", to, "ok") ELSE UNCHANGED maths
  /\ UNCHANGED <<noted, mine, tensorVars>>
DescNoted(v, mode, scale) == noted' = [noted EXCEPT !["mode"][v] = mode, !["scale"][v] = scale]
LtCreated(t) ==
  /\ At(t, "created")
  /\ DescNoted(maths[t].x, 0, maths[t].to)
  /\ mine' = mine \cup {maths[t].x}
  /\ Done(t)
  /\ UNCHANGED <<lib, tensorVars, unsure>>

(* cublasLtMatmulDescSetAttribute: the record, and then the call.          *)
LtSet(t, v, a, to) ==
  /\ Uses(t, v) /\ Makes("lt")
  /\ noted' = [noted EXCEPT ![a][v] = to]
  /\ Enters(t, "set", v, a, to, "ok")
  /\ UNCHANGED <<lib, mine, tensorVars, unsure>>
LtIsSet(t) ==
  /\ At(t, "set")
  /\ \E o \in Outcomes :
       /\ Kept(maths[t].x, maths[t].a, maths[t].to, o.ran)
       /\ unsure' = IF o.ran THEN unsure ELSE unsure \cup {maths[t].x}
  /\ Done(t)
  /\ UNCHANGED <<noted, mine, tensorVars>>
LtDestroy(t, v) ==
  /\ Uses(t, v) /\ Makes("lt")
  /\ mine' = mine \ {v}
  /\ \E o \in Outcomes : Freed(v, o.ran)
  /\ Enters(t, "erase desc", v, "scale", 0, "ok")
  /\ UNCHANGED <<noted, tensorVars, unsure>>
LtErase(t) ==
  /\ At(t, "erase desc")
  /\ DescNoted(maths[t].x, 0, 0)
  /\ unsure' = IF maths[t].x \in mine /\ (noted["mode"][maths[t].x] # 0 \/ noted["scale"][maths[t].x] # 0)
               THEN unsure \cup {maths[t].x} ELSE unsure
  /\ Done(t)
  /\ UNCHANGED <<lib, mine, tensorVars>>

(* cublasLtMatmul: the record, read at once, says how the scalars travel.  *)
LtMatmul(t, v) ==
  /\ Uses(t, v) /\ Makes("lt")
  /\ maths' = [maths EXCEPT ![t] = [NoMaths EXCEPT !.stage = "matmul", !.x = v,
                                       !.got.mode = noted["mode"][v], !.got.scale = noted["scale"][v]]]
  /\ UNCHANGED <<lib, noted, mine, tensorVars, unsure>>
LtMatmulSent(t) ==
  /\ At(t, "matmul")
  /\ Done(t)
  /\ UNCHANGED <<lib, noted, mine, tensorVars, unsure>>

-----------------------------------------------------------------------------
(* cuDNN's descriptors, under handles the client mints.                    *)
Resolves(m) == t_handles[m] # None

Mints(o) ==
  /\ next_handle <= MaxMint
  /\ next_handle' = next_handle + 1
  /\ IF o.ran
     THEN \E v \in Values :
            /\ lib[v] = Nothing
            /\ Made(v)
            /\ t_handles' = [t_handles EXCEPT ![next_handle] = v]
     ELSE UNCHANGED <<lib, t_handles>>
  /\ descs' = IF o.r = "ok" THEN descs \cup {next_handle} ELSE descs
MintDescriptor(t) ==
  /\ Quiet(t) /\ Makes("tensor")
  /\ \E o \in AsyncOutcomes : Mints(o)
  /\ UNCHANGED <<noted, maths, mine, types, unsure>>
SetTensor(t, m, to) ==
  /\ UsesDesc(t, m) /\ Makes("tensor")
  /\ \E o \in AsyncOutcomes :
       /\ IF Resolves(m) THEN Kept(t_handles[m], "scale", to, o.ran) ELSE UNCHANGED lib
       /\ unsure' = IF o.ran = (o.r = "ok") THEN unsure ELSE unsure \cup {m}
       /\ maths' = [maths EXCEPT ![t] = [NoMaths EXCEPT !.stage = "remember", !.m = m, !.to = to, !.r = o.r]]
  /\ UNCHANGED <<noted, mine, tensorVars>>

\* Mutant of remember_type: the width of a double is forgotten.
RememberFloat(m, to) == UNCHANGED types

remember_type(m, to) == types' = [types EXCEPT ![m] = to]
Remember(t) ==
  /\ At(t, "remember")
  /\ IF maths[t].r = "ok" THEN remember_type(maths[t].m, maths[t].to) ELSE UNCHANGED types
  /\ Done(t)
  /\ UNCHANGED <<lib, noted, mine, next_handle, t_handles, descs, unsure>>

\* The entry goes whatever the library said.
Unmapped(m) == t_handles' = [t_handles EXCEPT ![m] = None]
Unmints(m, ran, destroyed) ==
  /\ descs' = descs \ {m}
  /\ IF ran /\ Resolves(m) THEN Freed(t_handles[m], destroyed) /\ Unmapped(m)
                           ELSE UNCHANGED <<lib, t_handles>>
DestroyTensor(t, m) ==
  /\ UsesDesc(t, m) /\ Makes("tensor")
  /\ \E o \in AsyncOutcomes, destroyed \in {TRUE, ~MayFail} : Unmints(m, o.ran, destroyed)
  /\ maths' = [maths EXCEPT ![t] = [NoMaths EXCEPT !.stage = "forget", !.m = m]]
  /\ UNCHANGED <<noted, mine, next_handle, types, unsure>>
Forget(t) ==
  /\ At(t, "forget")
  /\ types' = [types EXCEPT ![maths[t].m] = 0]
  /\ Done(t)
  /\ UNCHANGED <<lib, noted, mine, next_handle, t_handles, descs, unsure>>

(* Batch normalisation: the width follows from y's type.                   *)
scalar_width(m) == types[m]
BatchNorm(t, m) ==
  /\ UsesDesc(t, m) /\ Makes("tensor")
  /\ maths' = [maths EXCEPT ![t] = [NoMaths EXCEPT !.stage = "normalize", !.m = m, !.got.scale = scalar_width(m)]]
  /\ UNCHANGED <<lib, noted, mine, tensorVars, unsure>>
BatchNormSent(t) ==
  /\ At(t, "normalize")
  /\ Done(t)
  /\ UNCHANGED <<lib, noted, mine, tensorVars, unsure>>

-----------------------------------------------------------------------------
MathsNext(t) ==
  \/ CreateHandle(t) \/ BlasNote(t) \/ Erase(t) \/ GemmScalar(t) \/ Computes(t) \/ GemmSent(t)
  \/ DnnStreamSet(t) \/ DnnDestroyed(t) \/ DnnExecuted(t)
  \/ LtCreated(t) \/ LtIsSet(t) \/ LtErase(t) \/ LtMatmulSent(t)
  \/ MintDescriptor(t) \/ Remember(t) \/ Forget(t) \/ BatchNormSent(t)
  \/ \E to \in {0, 1} :
       \/ LtCreate(t, to)
       \/ \E v \in Values :
            \/ DnnSetStream(t, v, to)
            \/ \E a \in {"stream", "mode"} : BlasSet(t, v, a, to)
            \/ \E a \in {"mode", "scale"} : LtSet(t, v, a, to)
       \/ \E m \in Minted : SetTensor(t, m, to)
  \/ \E v \in Values :
       BlasDestroy(t, v) \/ Gemm(t, v) \/ DnnDestroy(t, v) \/ DnnExecute(t, v) \/ LtDestroy(t, v) \/ LtMatmul(t, v)
  \/ \E m \in Minted : DestroyTensor(t, m) \/ BatchNorm(t, m)

-----------------------------------------------------------------------------
(* Work is marked on the stream the library runs it on: otherwise a stream *)
(* synchronize could return with the work still running.  Unless a failed  *)
(* call changed the handle on one side only; or the handle's value is an   *)
(* earlier handle's, whose cublasDestroy_v2 erased its record late.        *)
MarksItsStream ==
  \A t \in Threads :
    maths[t].stage \in {"multiply", "execute"} /\ maths[t].x \notin unsure
      => maths[t].got.stream = lib[maths[t].x].stream

(* Alpha and beta travel as the library will read them: as pointers or     *)
(* values, and of the width it takes them to have.  With the exceptions    *)
(* above, for the descriptors too.                                         *)
ScalarsAsRead ==
  \A t \in Threads :
    LET c == maths[t]
    IN  /\ c.stage = "multiply" /\ c.x \notin unsure
             => c.got.mode = lib[c.x].mode /\ c.to = lib[c.x].mode
        /\ c.stage = "matmul" /\ c.x \notin unsure
             => c.got.mode = lib[c.x].mode /\ c.got.scale = lib[c.x].scale
        /\ c.stage = "normalize" /\ c.m \notin unsure /\ Resolves(c.m)
             => c.got.scale = lib[t_handles[c.m]].scale
=============================================================================
