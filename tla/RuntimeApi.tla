----------------------------- MODULE RuntimeApi -----------------------------
(***************************************************************************)
(* The CUDA runtime (client/cudart_impl.cpp) over the driver shim: the     *)
(* primary context it selects for each thread, with the generation that    *)
(* says whether the selection still holds; and its own record of device    *)
(* memory, which tells cudaMemcpyDefault a device pointer from a host one. *)
(***************************************************************************)
EXTENDS DriverShim

CONSTANT Programs   \* the programs checked: the calls each makes, on which devices, and
                    \* whether with other sessions on the server

ASSUME RuntimeAssumption == \A p \in Programs : p.on \subseteq Devices

VARIABLES
  program,   \* the program that runs
  rt,        \* where each thread is inside a call of the runtime
  device,    \* t_device
  selected,  \* t_ctx_gen
  current,   \* the server: the context current for each thread
  gen,       \* g_ctx_gen
  retained,  \* g_primary of the runtime: the devices whose context it holds
  ctx_mu,    \* the thread that holds g_ctx_mu across a call, or None
  dev_allocs,\* g_device_allocs
  handed,    \* the application: the device memory it holds
  robbed     \* history: memory forgotten by the free of an earlier owner
ctxVars == <<device, selected, current, gen, retained, ctx_mu>>
memVars == <<dev_allocs, handed, robbed>>
rtVars  == <<program, rt, ctxVars, memVars>>

-----------------------------------------------------------------------------
(* A call of the runtime: its stage, the generation ensure_context read,   *)
(* the pointer it was given, the function found for it and its layout, the *)
(* contexts it has left to release, and, history, whether a reset          *)
(* overlapped it.                                                          *)
NoFrame == [op |-> None, stage |-> None, gen |-> 0, x |-> None, fn |-> None, slots |-> None,
            todo |-> {}, reset |-> FALSE]

RtInit ==
  /\ program \in Programs
  /\ others \in program.others
  /\ rt = [t \in Threads |-> NoFrame]
  /\ device \in [Threads -> program.on]
  /\ selected = [t \in Threads |-> 0]
  /\ current = [t \in Threads |-> NoCtx]
  /\ gen = 1 /\ retained = {} /\ ctx_mu = None
  /\ dev_allocs = {} /\ handed = {} /\ robbed = {}

Makes(op)       == op \in program.calls
AtRest(t)       == rt[t].op = None /\ call[t].op = None
Stage(t, stage) == rt' = [rt EXCEPT ![t].stage = stage]
Returns(t)      == rt' = [rt EXCEPT ![t] = NoFrame]

(* Any call that begins with ensure_context.                               *)
Starts(t, op, x) ==
  rt' = [rt EXCEPT ![t] = [NoFrame EXCEPT !.op = op, !.stage = "ensure", !.x = x,
                                          !.reset = \E u \in Threads : rt[u].op = "reset"]]

-----------------------------------------------------------------------------
(* ensure_context.                                                         *)

SelectionHolds(t) == selected[t] = gen

EnsureFast(t) ==
  /\ rt[t].stage = "ensure" /\ SelectionHolds(t)
  /\ Stage(t, "run")
  /\ UNCHANGED <<baseVars, program, ctxVars, memVars>>

(* Under g_ctx_mu: the generation, and the context if it is held already.  *)
EnsureFinds(t) ==
  /\ rt[t].stage = "ensure" /\ ~SelectionHolds(t) /\ ctx_mu = None
  /\ device[t] \in retained
  /\ rt' = [rt EXCEPT ![t].stage = "select", ![t].gen = gen]
  /\ UNCHANGED <<baseVars, program, ctxVars, memVars>>
EnsureRetains(t) ==
  /\ rt[t].stage = "ensure" /\ ~SelectionHolds(t) /\ ctx_mu = None
  /\ device[t] \notin retained
  /\ ctx_mu' = t
  /\ rt' = [rt EXCEPT ![t].stage = "retain", ![t].gen = gen]
  /\ AskRetain(t, device[t])
  /\ UNCHANGED <<program, device, selected, current, gen, retained, memVars, owned, doubted>>
EnsureRetained(t) ==
  /\ rt[t].stage = "retain"
  /\ RecordRetain(t)
  /\ IF call[t].r = "ok"
     THEN Stage(t, "select") /\ retained' = retained \cup {device[t]}
     ELSE Returns(t) /\ UNCHANGED retained
  /\ ctx_mu' = None
  /\ UNCHANGED <<owned, program, device, selected, current, gen, memVars>>

\* Mutant of Selects: the generation as it is when the selection returns.
SelectsNow(t) == selected' = [selected EXCEPT ![t] = gen]

Selects(t) == selected' = [selected EXCEPT ![t] = rt[t].gen]

(* cuCtxSetCurrent, with the lock let go: the handle, whatever it names by *)
(* now.  The server takes a destroyed one.                                 *)
EnsureSelects(t) ==
  /\ rt[t].stage = "select"
  /\ \E o \in Outcomes :
       /\ current' = IF o.ran THEN [current EXCEPT ![t] = Life(device[t])] ELSE current
       /\ IF o.r = "ok" THEN Selects(t) /\ Stage(t, "run")
                        ELSE Returns(t) /\ UNCHANGED selected
  /\ UNCHANGED <<baseVars, program, device, gen, retained, ctx_mu, memVars>>

-----------------------------------------------------------------------------
(* A call that needs the context and keeps nothing: streams, events,       *)
(* copies, memsets, graphs.                                                *)
Use(t) ==
  /\ AtRest(t) /\ Makes("use")
  /\ Starts(t, "use", None)
  /\ UNCHANGED <<baseVars, program, ctxVars, memVars>>
RunUse(t) ==
  /\ rt[t].op = "use" /\ rt[t].stage = "run"
  /\ Returns(t)
  /\ UNCHANGED <<baseVars, program, ctxVars, memVars>>

Reselect(t, d) == selected' = IF d # device[t] THEN [selected EXCEPT ![t] = 0] ELSE selected
(* cudaSetDevice.                                                          *)
SetDevice(t, d) ==
  /\ AtRest(t) /\ Makes("set device")
  /\ device' = [device EXCEPT ![t] = d]
  /\ Reselect(t, d)
  /\ Starts(t, "use", None)
  /\ UNCHANGED <<baseVars, program, current, gen, retained, ctx_mu, memVars>>

(* cudaDeviceReset: under g_ctx_mu, every context is released, and then    *)
(* the generation moves on.                                                *)
BeginDeviceReset(t) ==
  /\ AtRest(t) /\ Makes("reset") /\ ctx_mu = None /\ gen < MaxLife
  /\ ctx_mu' = t
  /\ rt' = [u \in Threads |-> IF u = t THEN [NoFrame EXCEPT !.op = "reset", !.stage = "release", !.todo = retained]
                              ELSE [rt[u] EXCEPT !.reset = rt[u].op # None]]
  /\ UNCHANGED <<baseVars, program, device, selected, current, gen, retained, memVars>>
ResetReleases(t, d) ==
  /\ rt[t].op = "reset" /\ rt[t].stage = "release" /\ d \in rt[t].todo
  /\ AskRelease(t, d)
  /\ rt' = [rt EXCEPT ![t].stage = "record", ![t].todo = @ \ {d}]
  /\ UNCHANGED <<owned, doubted, program, ctxVars, memVars>>
ResetRecords(t) ==
  /\ rt[t].op = "reset" /\ rt[t].stage = "record"
  /\ RecordRelease(t)
  /\ Stage(t, "release")
  /\ UNCHANGED <<owned, program, ctxVars, memVars>>
EndDeviceReset(t) ==
  /\ rt[t].op = "reset" /\ rt[t].stage = "release" /\ rt[t].todo = {}
  /\ retained' = {} /\ gen' = gen + 1 /\ ctx_mu' = None
  /\ Returns(t)
  /\ UNCHANGED <<baseVars, program, device, selected, current, memVars>>

-----------------------------------------------------------------------------
(* Memory.  The application frees memory it holds, from one thread.        *)

(* cudaMalloc, through cuMemAlloc_v2, and cudaMallocAsync: the call; the   *)
(* shim's record for the first; note_alloc.                                *)
Malloc(t, op) ==
  /\ AtRest(t) /\ Makes(op)
  /\ Starts(t, op, None)
  /\ UNCHANGED <<baseVars, program, ctxVars, memVars>>
RunMalloc(t) ==
  /\ rt[t].op \in {"malloc", "malloc async"} /\ rt[t].stage = "run"
  /\ AskAlloc(t, IF rt[t].op = "malloc" THEN "alloc" ELSE "allocated", current[t])
  /\ Stage(t, "note")
  /\ UNCHANGED <<owned, program, ctxVars, memVars>>
ShimNotes(t) ==
  /\ RecordAlloc(t)
  /\ UNCHANGED <<owned, rtVars>>
NoteAlloc(t) ==
  /\ rt[t].stage = "note" /\ call[t].op = "allocated"
  /\ IF call[t].r = "ok"
     THEN dev_allocs' = dev_allocs \cup {call[t].x} /\ handed' = handed \cup {call[t].x}
     ELSE UNCHANGED <<dev_allocs, handed>>
  /\ robbed' = robbed \ {call[t].x}
  /\ Recorded(t) /\ Returns(t)
  /\ UNCHANGED <<driverVars, primary, allocs, appVars, program, ctxVars>>

(* cudaFree, through cuMemFree_v2, and cudaFreeAsync, which needs no       *)
(* context: the shim's record for the first; the call; forget_alloc.       *)
Free(t, a) ==
  /\ AtRest(t) /\ Makes("free") /\ a \in handed
  /\ handed' = handed \ {a}
  /\ Starts(t, "free", a)
  /\ UNCHANGED <<baseVars, program, ctxVars, dev_allocs, robbed>>
ShimForgets(t) ==
  /\ rt[t].op = "free" /\ rt[t].stage = "run"
  /\ RecordFree(t, rt[t].x)
  /\ Stage(t, "forget")
  /\ UNCHANGED <<owned, program, ctxVars, memVars>>
FreeAsync(t, a) ==
  /\ AtRest(t) /\ Makes("free async") /\ a \in handed
  /\ handed' = handed \ {a}
  /\ rt' = [rt EXCEPT ![t] = [NoFrame EXCEPT !.op = "free", !.stage = "forget", !.x = a]]
  /\ call' = [call EXCEPT ![t] = [NoCall EXCEPT !.op = "free async", !.x = a]]
  /\ UNCHANGED <<driverVars, primary, allocs, appVars, program, ctxVars, dev_allocs, robbed>>
RunFree(t) ==
  /\ AskFree(t)
  /\ UNCHANGED <<owned, rtVars>>

\* Mutant of Forgets: also when the free failed.
ForgetsAlways(r) == TRUE

Forgets(r) == r = "ok"
ForgetAlloc(t) ==
  /\ rt[t].stage = "forget" /\ call[t].op = "freed"
  /\ IF Forgets(call[t].r)
     THEN /\ dev_allocs' = dev_allocs \ {rt[t].x}
          /\ robbed' = IF call[t].got = 1 /\ mem[rt[t].x] # NoCtx THEN robbed \cup {rt[t].x} ELSE robbed
     ELSE UNCHANGED <<dev_allocs, robbed>>
  /\ handed' = IF call[t].got = 1 THEN handed ELSE handed \cup {rt[t].x}
  /\ Recorded(t) /\ Returns(t)
  /\ UNCHANGED <<driverVars, primary, allocs, appVars, program, ctxVars>>

(* Where cudaMemcpyDefault, and cudaPointerGetAttributes, take a pointer   *)
(* to point: no call, and no context, is needed for that.                  *)
is_device_ptr(a) == a \in dev_allocs
resolve_kind(dst, src) ==
  [to   |-> IF is_device_ptr(dst) THEN "device" ELSE "host",
   from |-> IF is_device_ptr(src) THEN "device" ELSE "host"]

-----------------------------------------------------------------------------
(* The application's own calls of the shim about a primary context.        *)
Own(t, op) == AtRest(t) /\ Makes(op)

AppRetain(t, d) ==
  /\ Own(t, "retain")
  /\ AskRetain(t, d)
  /\ UNCHANGED <<appVars, rtVars>>
AppRetained(t) ==
  /\ rt[t].op = None
  /\ owned' = IF call[t].op = "retain" /\ call[t].r = "ok" THEN [owned EXCEPT ![call[t].x] = @ + 1] ELSE owned
  /\ RecordRetain(t)
  /\ UNCHANGED rtVars
AppRelease(t, d) ==
  /\ Own(t, "release") /\ owned[d] > 0
  /\ owned' = [owned EXCEPT ![d] = @ - 1]
  /\ AskRelease(t, d)
  /\ UNCHANGED <<doubted, rtVars>>
AppReset(t, d) ==
  /\ Own(t, "ctx reset")
  /\ AskReset(t, d)
  /\ UNCHANGED <<appVars, rtVars>>
AppSetFlags(t, d, f) ==
  /\ Own(t, "set flags")
  /\ AskSetFlags(t, d, f)
  /\ UNCHANGED <<appVars, rtVars>>
AppState(t, d) ==
  /\ Own(t, "state")
  /\ AskState(t, d)
  /\ UNCHANGED <<appVars, rtVars>>
AppRecords(t) ==
  /\ rt[t].op = None
  /\ RecordRelease(t) \/ RecordReset(t) \/ RecordSetFlags(t) \/ RecordState(t)
  /\ UNCHANGED <<owned, rtVars>>

-----------------------------------------------------------------------------
RtNext(t) ==
  \/ EnsureFast(t) \/ EnsureFinds(t) \/ EnsureRetains(t) \/ EnsureRetained(t) \/ EnsureSelects(t)
  \/ Use(t) \/ RunUse(t)
  \/ BeginDeviceReset(t) \/ ResetRecords(t) \/ EndDeviceReset(t)
  \/ \E op \in {"malloc", "malloc async"} : Malloc(t, op)
  \/ RunMalloc(t) \/ ShimNotes(t) \/ NoteAlloc(t)
  \/ \E a \in Addrs : Free(t, a) \/ FreeAsync(t, a)
  \/ ShimForgets(t) \/ RunFree(t) \/ ForgetAlloc(t)
  \/ \E d \in program.on :
       \/ SetDevice(t, d) \/ ResetReleases(t, d)
       \/ AppRetain(t, d) \/ AppRelease(t, d) \/ AppReset(t, d) \/ AppState(t, d)
       \/ \E f \in Flags : AppSetFlags(t, d, f)
  \/ AppRetained(t) \/ AppRecords(t)

-----------------------------------------------------------------------------
(* What the shim answers of a primary context by itself is what the driver *)
(* would answer.  The licence of shim.cpp 445-453: while the record counts *)
(* a retain, the process holds one - whichever call ran and failed, or     *)
(* failed and did not run, whatever the threads do in between, and through *)
(* resets, which the driver's count survives and the record's does not.    *)
(* The flags are the driver's, unless they were recorded by one of two     *)
(* overlapping calls (the later record need not be of the later call), or  *)
(* after a reset that passed for refused.                                  *)
LicenceIsHeld(d)   == primary[d].retained <= driver[d].retains
AnswersTheFlags(d) == CanAnswer(d) /\ ~doubted[d] => primary[d].flags = driver[d].flags
AnswersAsTheDriver ==
  \A d \in Devices :
    (\A t \in Threads : call[t].x # d) => LicenceIsHeld(d) /\ AnswersTheFlags(d)

(* A runtime call runs in the living primary context of its thread's       *)
(* device, though most calls do not select it: unless a cudaDeviceReset of *)
(* another thread overlapped the call, or the application resets contexts  *)
(* by itself, of which the runtime is not told.                            *)
RunsOnItsDevice ==
  ~Makes("ctx reset") =>
    \A t \in Threads :
      (rt[t].stage = "run" /\ ~rt[t].reset) => current[t] = Life(device[t]) /\ Active(device[t])

(* cudaMemcpyDefault takes for device memory all that the application was  *)
(* given and has not freed, unless a free of its earlier owner, still      *)
(* under way when the driver gave the address out again, forgot it; and    *)
(* unless it went with its context, which is not recorded.                 *)
EndsNoContext == program.calls \cap {"reset", "ctx reset", "release"} = {}
HandedOutIsKnown ==
  EndsNoContext =>
    \A a, b \in handed \ robbed : resolve_kind(a, b) = [to |-> "device", from |-> "device"]

(* What cudart_impl.cpp 936 says of the record without the exception: it is*)
(* authoritative.  The forget of a free races the note of the next owner,  *)
(* whose copies are then taken for copies to the host.                     *)
HandedOutIsAlwaysKnown == \A a \in handed : is_device_ptr(a)

(* What the shim takes for its own allocation (and answers for without     *)
(* asking) is one: cuMemFree_v2 forgets before it frees, so the address    *)
(* cannot come back in between.  Of what cudaFreeAsync frees, and of what  *)
(* ends with its context, the shim is not told.                            *)
OursIsLive ==
  EndsNoContext /\ ~Makes("free async") => \A a \in allocs : mem[a] # NoCtx
=============================================================================
