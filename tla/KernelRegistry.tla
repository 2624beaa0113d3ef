--------------------------- MODULE KernelRegistry ---------------------------
(***************************************************************************)
(* How a host function pointer comes to stand for a kernel: registration,  *)
(* the load of a module at its first launch (client/cudart_impl.cpp        *)
(* 218-298), and the packing of arguments by the layout the shim has on    *)
(* record for the function (client/shim.cpp 34-92).  One kernel for each   *)
(* module; and no context ends under a module loaded in it, which nothing  *)
(* here would notice.                                                      *)
(***************************************************************************)
EXTENDS RuntimeApi

CONSTANTS
  Kernels,
  Fns,          \* handles of functions, given out again
  MaxRegs       \* bound: registrations

ASSUME KernelRegistryAssumption == None \notin Kernels \union Fns

VARIABLES
  reg,       \* g_modules and g_kernels, by kernel
             \* (history: how often it was registered)
  reg_mu,    \* the thread that holds g_reg_mu across a call, or None
  layouts,   \* g_layouts: whose layout is on record for a function
  fns,       \* the server: what each function handle names
  shipped,   \* history: how often each registered module was sent
  renamed    \* history: functions that came back with a layout on record
kernelVars  == <<reg, reg_mu, layouts, fns, shipped, renamed>>
runtimeVars == <<baseVars, rtVars, kernelVars>>

-----------------------------------------------------------------------------
NoFn   == "none"
NoCode == "none"
NotRegistered == [on |-> FALSE, tried |-> FALSE, loaded |-> NoFn, fn |-> NoFn, n |-> 0]

RuntimeInit ==
  /\ BaseInit /\ RtInit
  /\ reg = [k \in Kernels |-> NotRegistered] /\ reg_mu = None
  /\ layouts = [f \in Fns |-> None]
  /\ fns = [f \in Fns |-> NoCode]
  /\ shipped = [k \in Kernels |-> 0]
  /\ renamed = {}

(* The kernel of the launch a thread is in, and its function once resolved.*)
KernelOf(t)  == rt[t].x
Resolving(t) == rt[t].op = "launch"

-----------------------------------------------------------------------------
\* Mutant of Registered: an entry that is there keeps its function.
RegisteredOver(k) == [reg[k] EXCEPT !.on = TRUE, !.tried = FALSE, !.loaded = NoFn, !.n = @ + 1]

Registered(k) == [NotRegistered EXCEPT !.on = TRUE, !.n = reg[k].n + 1]
(* __cudaRegisterFatBinary and __cudaRegisterFunction.                     *)
Register(t, k) ==
  /\ AtRest(t) /\ Makes("launch") /\ reg_mu = None
  /\ ~reg[k].on /\ reg[k].n < MaxRegs
  /\ reg' = [reg EXCEPT ![k] = Registered(k)]
  /\ shipped' = [shipped EXCEPT ![k] = 0]
  /\ UNCHANGED <<baseVars, rtVars, reg_mu, layouts, fns, renamed>>

(* __cudaUnregisterFatBinary: a library that is unloaded is not launching. *)
Unregister(t, k) ==
  /\ AtRest(t) /\ reg_mu = None /\ reg[k].on
  /\ \A u \in Threads : Resolving(u) => KernelOf(u) # k
  /\ reg' = [reg EXCEPT ![k].on = FALSE]
  /\ \E o \in Outcomes :
       fns' = IF o.ran /\ reg[k].loaded # NoFn THEN [fns EXCEPT ![reg[k].loaded] = NoCode] ELSE fns
  /\ UNCHANGED <<baseVars, rtVars, reg_mu, layouts, shipped, renamed>>

(* cudaLaunchKernel: ensure_context, then resolve_kernel under g_reg_mu.   *)
Launch(t, k) ==
  /\ AtRest(t) /\ Makes("launch") /\ reg[k].on
  /\ Starts(t, "launch", k)
  /\ UNCHANGED <<baseVars, program, ctxVars, memVars, kernelVars>>

Resolved(t, f) == rt' = [rt EXCEPT ![t].stage = "pack", ![t].fn = f]

ResolveKnown(t) ==
  /\ Resolving(t) /\ rt[t].stage = "run" /\ reg_mu = None
  /\ reg[KernelOf(t)].fn # NoFn
  /\ Resolved(t, reg[KernelOf(t)].fn)
  /\ UNCHANGED <<baseVars, program, ctxVars, memVars, kernelVars>>

\* Mutant of MayShip: a module that failed to load is sent again.
MayShipAgain(k) == reg[k].loaded = NoFn

MayShip(k) == reg[k].loaded = NoFn /\ ~reg[k].tried
ResolveRefused(t) ==
  /\ Resolving(t) /\ rt[t].stage = "run" /\ reg_mu = None
  /\ LET k == KernelOf(t) IN reg[k].fn = NoFn /\ reg[k].loaded = NoFn /\ ~MayShip(k)
  /\ Returns(t)
  /\ UNCHANGED <<baseVars, program, ctxVars, memVars, kernelVars>>

(* ensure_module, and cuModuleGetFunction of a module that is loaded: the  *)
(* lock is held while the server is asked.                                 *)
ResolveShips(t) ==
  /\ Resolving(t) /\ rt[t].stage = "run" /\ reg_mu = None
  /\ reg[KernelOf(t)].fn = NoFn /\ MayShip(KernelOf(t))
  /\ shipped' = [shipped EXCEPT ![KernelOf(t)] = @ + 1]
  /\ \/ \E f \in Fns, o \in Outcomes :
          /\ o.ran /\ fns[f] = NoCode
          /\ fns' = [fns EXCEPT ![f] = KernelOf(t)]
          /\ renamed' = IF layouts[f] = None THEN renamed ELSE renamed \cup {f}
          /\ reg' = [reg EXCEPT ![KernelOf(t)].tried = TRUE,
                                ![KernelOf(t)].loaded = IF o.r = "ok" THEN f ELSE NoFn]
          /\ IF o.r = "ok" THEN reg_mu' = t /\ Stage(t, "get function")
                           ELSE UNCHANGED reg_mu /\ Returns(t)
     \/ /\ MayFail
        /\ reg' = [reg EXCEPT ![KernelOf(t)].tried = TRUE]
        /\ Returns(t)
        /\ UNCHANGED <<reg_mu, fns, renamed>>
  /\ UNCHANGED <<baseVars, program, ctxVars, memVars, layouts>>
ResolveLoaded(t) ==
  /\ Resolving(t) /\ rt[t].stage = "run" /\ reg_mu = None
  /\ reg[KernelOf(t)].fn = NoFn /\ reg[KernelOf(t)].loaded # NoFn
  /\ reg_mu' = t
  /\ Stage(t, "get function")
  /\ UNCHANGED <<baseVars, program, ctxVars, memVars, reg, layouts, fns, shipped, renamed>>
GetFunction(t) ==
  /\ rt[t].stage = "get function"
  /\ \E o \in Outcomes :
       IF o.r = "ok"
       THEN /\ reg' = [reg EXCEPT ![KernelOf(t)].fn = reg[KernelOf(t)].loaded]
            /\ Resolved(t, reg[KernelOf(t)].loaded)
       ELSE UNCHANGED reg /\ Returns(t)
  /\ reg_mu' = None
  /\ UNCHANGED <<baseVars, program, ctxVars, memVars, layouts, fns, shipped, renamed>>

(* pack_args and fetch_layout: the record; or the server's answer, which   *)
(* is recorded later, under a lock of the record's own.                    *)
FnOf(t)         == rt[t].fn
Packs(t, slots) == rt' = [rt EXCEPT ![t].stage = "launch", ![t].slots = slots]
PackKnown(t) ==
  /\ rt[t].stage = "pack" /\ layouts[FnOf(t)] # None
  /\ Packs(t, layouts[FnOf(t)])
  /\ UNCHANGED <<baseVars, program, ctxVars, memVars, kernelVars>>
PackAsks(t) ==
  /\ rt[t].stage = "pack" /\ layouts[FnOf(t)] = None
  /\ \/ /\ fns[FnOf(t)] # NoCode
        /\ rt' = [rt EXCEPT ![t].stage = "layout", ![t].slots = fns[FnOf(t)]]
     \/ MayFail /\ Returns(t)
  /\ UNCHANGED <<baseVars, program, ctxVars, memVars, kernelVars>>
RecordLayout(t) ==
  /\ rt[t].stage = "layout"
  /\ layouts' = [layouts EXCEPT ![FnOf(t)] = rt[t].slots]
  /\ Packs(t, rt[t].slots)
  /\ UNCHANGED <<baseVars, program, ctxVars, memVars, reg, reg_mu, fns, shipped, renamed>>
(* cudaFuncGetAttributes and cudaFuncSetAttribute need only the function.  *)
AskOfFunction(t) ==
  /\ rt[t].stage = "pack"
  /\ Returns(t)
  /\ UNCHANGED <<baseVars, program, ctxVars, memVars, kernelVars>>
RunLaunch(t) ==
  /\ rt[t].stage = "launch"
  /\ Returns(t)
  /\ UNCHANGED <<baseVars, program, ctxVars, memVars, kernelVars>>

KernelNext(t) ==
  \/ \E k \in Kernels : Register(t, k) \/ Unregister(t, k) \/ Launch(t, k)
  \/ ResolveKnown(t) \/ ResolveRefused(t) \/ ResolveShips(t) \/ ResolveLoaded(t) \/ GetFunction(t)
  \/ PackKnown(t) \/ PackAsks(t) \/ RecordLayout(t) \/ AskOfFunction(t) \/ RunLaunch(t)

RuntimeNext(t) == (RtNext(t) /\ UNCHANGED kernelVars) \/ KernelNext(t)

-----------------------------------------------------------------------------
(* A module's image, which may be hundreds of megabytes, crosses the       *)
(* network once for each registration, whatever the threads launch at once *)
(* and whatever fails.                                                     *)
ShippedOnce == \A k \in Kernels : shipped[k] <= 1

(* The function a launch names is the kernel that was asked for, packed by *)
(* its own layout: through unregistering and registering again, failures,  *)
(* and handles that come back - but for the layout of a function whose     *)
(* handle the server had given out before, which nothing forgets.          *)
LaunchesItsKernel ==
  \A t \in Threads : rt[t].stage = "launch" =>
    /\ fns[FnOf(t)] = KernelOf(t)
    /\ rt[t].slots = KernelOf(t) \/ FnOf(t) \in renamed
=============================================================================
