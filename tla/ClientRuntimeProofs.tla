------------------------- MODULE ClientRuntimeProofs -------------------------
(***************************************************************************)
(* The client's library, for any number of threads, devices, addresses,    *)
(* kernels and handles, and for any program: what the shim and the runtime *)
(* remember of the server's driver is so where they answer from it.        *)
(***************************************************************************)
EXTENDS ClientRuntime, FiniteSetTheorems, TLAPS

-----------------------------------------------------------------------------
(* Types.                                                                  *)

CtxOps  == {"retain", "release", "reset", "set flags", "state"}
MemOps  == {"alloc", "allocated", "free", "free async", "freed"}
Results == {"ok", "error", "refused"}
CallRec == [op : CtxOps \union MemOps \union {None}, x : Devices \union Addrs \union {None},
            r : Results, got : {0, 1}, alone : BOOLEAN]
Ctx       == [d : Devices \union {None}, life : Nat]
DriverRec == [retains : Nat, flags : Flags, life : Nat \ {0}]
RecordRec == [retained : Nat, flags : Flags, flags_known : BOOLEAN]

(* A call is about a context, or about an address if it got one.           *)
ShimTyped ==
  /\ driver \in [Devices -> DriverRec] /\ mem \in [Addrs -> Ctx]
  /\ primary \in [Devices -> RecordRec] /\ allocs \in SUBSET Addrs
  /\ call \in [Threads -> CallRec]
  /\ owned \in [Devices -> Nat] /\ doubted \in [Devices -> BOOLEAN]
  /\ \A t \in Threads :
       /\ call[t].op \in CtxOps => call[t].x \in Devices
       /\ call[t].op \in {"alloc", "allocated"} /\ call[t].r = "ok" => call[t].x \in Addrs
       /\ call[t].op \in {"free", "free async", "freed"} => call[t].x \in Addrs

Frame == [op : {None, "use", "reset", "malloc", "malloc async", "free", "launch"},
          stage : {None, "ensure", "select", "retain", "run", "release", "record", "note", "forget",
                   "get function", "pack", "layout", "launch"},
          gen : Nat, x : Addrs \union Kernels \union {None}, fn : Fns \union {None},
          slots : Kernels \union {None}, todo : SUBSET Devices, reset : BOOLEAN]

RtTyped ==
  /\ program \in Programs
  /\ rt \in [Threads -> Frame]
  /\ device \in [Threads -> Devices] /\ selected \in [Threads -> Nat] /\ current \in [Threads -> Ctx]
  /\ gen \in Nat \ {0} /\ retained \in SUBSET Devices /\ ctx_mu \in Threads \union {None}
  /\ dev_allocs \in SUBSET Addrs /\ handed \in SUBSET Addrs /\ robbed \in SUBSET Addrs
  /\ \A t \in Threads : /\ rt[t].op = "free" => rt[t].x \in Addrs
                        /\ rt[t].stage = "forget" => rt[t].op = "free"
                        /\ rt[t].op = "launch" => rt[t].x \in Kernels

RegRec == [on : BOOLEAN, tried : BOOLEAN, loaded : Fns \union {NoFn}, fn : Fns \union {NoFn}, n : Nat]
KernelTyped ==
  /\ reg \in [Kernels -> RegRec] /\ reg_mu \in Threads \union {None}
  /\ layouts \in [Fns -> Kernels \union {None}] /\ fns \in [Fns -> Kernels \union {NoCode}]
  /\ shipped \in [Kernels -> Nat] /\ renamed \in SUBSET Fns

(* A launch is of a registered kernel, which is not unregistered under it; *)
(* and what it asks about is the function it found.                        *)
LaunchInv ==
  \A t \in Threads :
    /\ Resolving(t) => reg[KernelOf(t)].on
    /\ rt[t].stage = "get function" => Resolving(t) /\ reg_mu = t /\ reg[KernelOf(t)].loaded # NoFn
    /\ rt[t].stage \in {"pack", "layout", "launch"} => Resolving(t) /\ FnOf(t) \in Fns

TypeInv == ShimTyped /\ RtTyped /\ KernelTyped /\ LaunchInv

(* The records that stand for nothing yet.                                 *)
LEMMA Nothings ==
  /\ NoCall \in CallRec /\ NoFrame \in Frame /\ NoCtx \in Ctx /\ NoRecord \in RecordRec
  /\ NotRegistered \in RegRec
  BY DEF NoCall, CallRec, NoFrame, Frame, NoCtx, Ctx, NoRecord, RecordRec, Results, Flags, NotRegistered, RegRec,
         NoFn, None

(* The library begins typed.                                               *)
LEMMA RuntimeInitTyped == Init => TypeInv
<1> SUFFICES ASSUME Init PROVE TypeInv
  OBVIOUS
<1>1. BaseInit /\ RtInit /\ RuntimeInit /\ program.on \subseteq Devices
  BY RuntimeAssumption DEF Init, LibrariesInit, RuntimeInit, RtInit
<1>2. ShimTyped
  <2>1. [retains |-> 0, flags |-> 0, life |-> 1] \in DriverRec
    BY DEF DriverRec, Flags
  <2>2. driver \in [Devices -> DriverRec] /\ mem \in [Addrs -> Ctx] /\ primary \in [Devices -> RecordRec]
    BY <1>1, <2>1, Nothings DEF BaseInit
  <2>3. allocs \in SUBSET Addrs /\ owned \in [Devices -> Nat] /\ doubted \in [Devices -> BOOLEAN]
    BY <1>1 DEF BaseInit
  <2>4. call \in [Threads -> CallRec] /\ \A t \in Threads : call[t] = NoCall
    BY <1>1, Nothings DEF BaseInit
  <2>5. NoCall.op \notin CtxOps \union MemOps
    BY DEF NoCall, CtxOps, MemOps, None
  <2>6. QED
    BY <2>2, <2>3, <2>4, <2>5 DEF ShimTyped, MemOps
<1>3. RtTyped
  BY <1>1, Nothings DEF RtInit, RtTyped, NoFrame, None
<1>4. KernelTyped
  BY <1>1, Nothings DEF RuntimeInit, KernelTyped, NoCode, None
<1>5. LaunchInv
  BY <1>1 DEF RtInit, LaunchInv, Resolving, NoFrame, None
<1>6. QED
  BY <1>2, <1>3, <1>4, <1>5 DEF TypeInv

(* What a step of the runtime is: one thread's, in the runtime or for a    *)
(* kernel.                                                                 *)
LEMMA RuntimeStep ==
  ASSUME [Next]_vars
  PROVE  \/ \E t \in Threads : RtNext(t) /\ UNCHANGED kernelVars
         \/ \E t \in Threads : KernelNext(t)
         \/ UNCHANGED runtimeVars
<1>1. CASE \E t \in Threads : RuntimeNext(t)
  BY <1>1 DEF RuntimeNext
<1>2. CASE UNCHANGED runtimeVars
  BY <1>2
<1>3. QED
  BY <1>1, <1>2 DEF Next, LibrariesNext, vars

-----------------------------------------------------------------------------
(* What the calls of the shim do to what is typed.                         *)

(* The answers a call may get.                                             *)
LEMMA OutcomesAre ==
  ASSUME NEW o \in Outcomes PROVE o.ran \in BOOLEAN /\ o.r \in {"ok", "error"} /\ (o.r = "ok" => o.ran)
<1>1. MayFail \in BOOLEAN
  BY DriverShimAssumption
<1>2. CASE o = Succeeds
  BY <1>2 DEF Succeeds
<1>3. CASE o \in [ran : BOOLEAN, r : {"error"}]
  BY <1>3
<1>4. QED
  BY <1>1, <1>2, <1>3 DEF Outcomes

(* A call about a context: it is in the thread's hands, and calls about    *)
(* the same context are no longer alone.                                   *)
Asked(t, op, d, r, got) ==
  /\ call'[t].op = op /\ call'[t].x = d /\ call'[t].r = r /\ call'[t].got = got
  /\ call'[t].alone <=> \A u \in Threads \ {t} : ~(call[u].op # None /\ call[u].x = d)
  /\ \A u \in Threads \ {t} :
       /\ call'[u].op = call[u].op /\ call'[u].x = call[u].x /\ call'[u].r = call[u].r /\ call'[u].got = call[u].got
       /\ call'[u].alone <=> call[u].alone /\ ~(call[u].op # None /\ call[u].x = d)

(* What a call about a context leaves in the threads' hands.               *)
LEMMA AskEffect ==
  ASSUME ShimTyped, NEW t \in Threads, NEW op \in CtxOps, NEW d \in Devices, NEW r \in Results, NEW got \in {0, 1},
         Ask(t, op, d, r, got)
  PROVE  /\ call' \in [Threads -> CallRec]
         /\ Asked(t, op, d, r, got)
<1> DEFINE met(u) == call[u].op # None /\ call[u].x = d
           it == [op |-> op, x |-> d, r |-> r, got |-> got, alone |-> Overlaps(t, d) = {}]
           then(u) == IF u = t THEN it ELSE IF u \in Overlaps(t, d) THEN [call[u] EXCEPT !.alone = FALSE] ELSE call[u]
<1>1. call' = [u \in Threads |-> then(u)]
  <2> DEFINE asked(u) == CASE u = t -> it
                           [] u \in Overlaps(t, d) -> [call[u] EXCEPT !.alone = FALSE]
                           [] OTHER -> call[u]
  <2>1. call' = [u \in Threads |-> asked(u)]
    BY DEF Ask
  <2>2. t \notin Overlaps(t, d)
    BY DEF Overlaps
  <2>3. ASSUME NEW u \in Threads PROVE asked(u) = then(u)
    <3>1. CASE u = t
      BY <2>2, <3>1
    <3>2. CASE u \in Overlaps(t, d)
      BY <2>2, <3>2
    <3>3. CASE u # t /\ u \notin Overlaps(t, d)
      BY <3>3
    <3>4. QED
      BY <3>1, <3>2, <3>3
  <2> HIDE DEF asked, then
  <2>4. QED
    BY <2>1, <2>3
<1>2. \A u \in Threads : u \in Overlaps(t, d) <=> u # t /\ met(u)
  BY DEF Overlaps
<1>3. Overlaps(t, d) = {} <=> \A u \in Threads \ {t} : ~met(u)
  BY DEF Overlaps
<1>4. it \in CallRec /\ it.op = op /\ it.x = d /\ it.r = r /\ it.got = got /\ (it.alone <=> Overlaps(t, d) = {})
  BY DEF CallRec
<1>5. ASSUME NEW u \in Threads
      PROVE  /\ call[u] \in CallRec
             /\ [call[u] EXCEPT !.alone = FALSE] \in CallRec
             /\ [call[u] EXCEPT !.alone = FALSE].op = call[u].op /\ [call[u] EXCEPT !.alone = FALSE].x = call[u].x
             /\ [call[u] EXCEPT !.alone = FALSE].r = call[u].r /\ [call[u] EXCEPT !.alone = FALSE].got = call[u].got
             /\ ~[call[u] EXCEPT !.alone = FALSE].alone
  BY DEF ShimTyped, CallRec
<1> HIDE DEF it, met
<1>6. \A u \in Threads : then(u) \in CallRec
  BY <1>4, <1>5
<1>7. call' \in [Threads -> CallRec]
  BY <1>1, <1>6
<1>8. \A u \in Threads : call'[u] = then(u)
  BY <1>1
<1>9. call'[t] = it /\ \A u \in Threads \ {t} :
        call'[u] = IF met(u) THEN [call[u] EXCEPT !.alone = FALSE] ELSE call[u]
  BY <1>2, <1>8
<1>10. \A u \in Threads \ {t} :
       /\ call'[u].op = call[u].op /\ call'[u].x = call[u].x /\ call'[u].r = call[u].r /\ call'[u].got = call[u].got
       /\ call'[u].alone <=> call[u].alone /\ ~met(u)
  BY <1>5, <1>9
<1>11. QED
  BY <1>3, <1>4, <1>7, <1>9, <1>10 DEF Asked, met

(* What is known of calls' arguments, when one thread's changes.           *)
Argued(c) ==
  /\ c.op \in CtxOps => c.x \in Devices
  /\ c.op \in {"alloc", "allocated"} /\ c.r = "ok" => c.x \in Addrs
  /\ c.op \in {"free", "free async", "freed"} => c.x \in Addrs

(* The shim's types, a conjunct for each variable and one for each call's  *)
(* argument.                                                               *)
LEMMA ShimParts ==
  ShimTyped <=> /\ driver \in [Devices -> DriverRec] /\ mem \in [Addrs -> Ctx]
                /\ primary \in [Devices -> RecordRec] /\ allocs \in SUBSET Addrs
                /\ call \in [Threads -> CallRec]
                /\ owned \in [Devices -> Nat] /\ doubted \in [Devices -> BOOLEAN]
                /\ \A t \in Threads : Argued(call[t])
  BY DEF ShimTyped, Argued

(* A call that is recorded is over; one about memory is the thread's own.  *)
LEMMA CallSet ==
  ASSUME call \in [Threads -> CallRec], \A u \in Threads : Argued(call[u]),
         NEW t \in Threads, NEW c \in CallRec, Argued(c), call' = [call EXCEPT ![t] = c]
  PROVE  /\ call' \in [Threads -> CallRec] /\ \A u \in Threads : Argued(call'[u])
         /\ call'[t] = c /\ \A u \in Threads \ {t} : call'[u] = call[u]
<1>1. call' \in [Threads -> CallRec] /\ call'[t] = c /\ \A u \in Threads \ {t} : call'[u] = call[u]
  OBVIOUS
<1>2. QED
  BY <1>1

(* No call has nothing to say of its argument.                             *)
LEMMA OverArgued == Argued(NoCall)
  BY DEF Argued, NoCall, None, CtxOps

(* A call about a context is about one.                                    *)
LEMMA AskArgued ==
  ASSUME ShimTyped, NEW t \in Threads, NEW op \in CtxOps, NEW d \in Devices, NEW r \in Results, NEW got \in {0, 1},
         Ask(t, op, d, r, got)
  PROVE  call' \in [Threads -> CallRec] /\ \A u \in Threads : Argued(call'[u])
<1>1. call' \in [Threads -> CallRec] /\ Asked(t, op, d, r, got)
  BY AskEffect
<1>2. Argued(call'[t])
  BY <1>1 DEF Asked, Argued, CtxOps
<1>3. ASSUME NEW u \in Threads \ {t} PROVE Argued(call'[u])
  BY <1>1 DEF Asked, Argued, ShimTyped
<1>4. QED
  BY <1>1, <1>2, <1>3

(* The driver's record of a context, and the memory in it.                 *)
LEMMA EndedTyped ==
  ASSUME ShimTyped, NEW d \in Devices, NEW n \in Nat, Ended(d, n)
  PROVE  driver' \in [Devices -> DriverRec] /\ mem' \in [Addrs -> Ctx]
<1>1. PICK f \in {0, driver[d].flags} :
        driver' = [driver EXCEPT ![d] = [retains |-> n, flags |-> f, life |-> driver[d].life + 1]]
  BY DEF Ended
<1>2. driver[d] \in DriverRec
  BY DEF ShimTyped
<1>3. [retains |-> n, flags |-> f, life |-> driver[d].life + 1] \in DriverRec
  BY <1>2 DEF DriverRec, Flags
<1>4. driver' \in [Devices -> DriverRec]
  BY <1>1, <1>3 DEF ShimTyped
<1>5. mem' \in [Addrs -> Ctx]
  BY Nothings DEF Ended, ShimTyped
<1>6. QED
  BY <1>4, <1>5

(* What of the shim is typed but what only some steps change.              *)
ShimMost ==
  /\ driver \in [Devices -> DriverRec] /\ mem \in [Addrs -> Ctx]
  /\ primary \in [Devices -> RecordRec] /\ allocs \in SUBSET Addrs
  /\ call \in [Threads -> CallRec]
  /\ \A t \in Threads : Argued(call[t])

(* One context's state in the driver that changes, field by field.         *)
LEMMA DriverFields ==
  ASSUME ShimTyped, NEW d \in Devices
  PROVE  /\ driver[d] \in DriverRec
         /\ \A n \in Nat : [driver EXCEPT ![d].retains = n] \in [Devices -> DriverRec]
         /\ \A f \in Flags : [driver EXCEPT ![d].flags = f] \in [Devices -> DriverRec]
<1>1. driver \in [Devices -> DriverRec] /\ driver[d] \in DriverRec
  BY DEF ShimTyped
<1>2. ASSUME NEW n \in Nat PROVE [driver[d] EXCEPT !.retains = n] \in DriverRec
  BY <1>1 DEF DriverRec
<1>3. ASSUME NEW f \in Flags PROVE [driver[d] EXCEPT !.flags = f] \in DriverRec
  BY <1>1 DEF DriverRec
<1>4. ASSUME NEW p \in DriverRec PROVE [driver EXCEPT ![d] = p] \in [Devices -> DriverRec]
  BY <1>1
<1>5. ASSUME NEW n \in Nat PROVE [driver EXCEPT ![d].retains = n] \in [Devices -> DriverRec]
  BY <1>2, <1>4
<1>6. ASSUME NEW f \in Flags PROVE [driver EXCEPT ![d].flags = f] \in [Devices -> DriverRec]
  BY <1>3, <1>4
<1>7. QED
  BY <1>1, <1>5, <1>6

(* A call of the driver keeps the types, whatever came of it.              *)
LEMMA AskTypes ==
  ASSUME ShimTyped, NEW t \in Threads, NEW d \in Devices,
         \/ AskRetain(t, d) \/ AskRelease(t, d) \/ AskReset(t, d) \/ AskState(t, d)
         \/ \E f \in Flags : AskSetFlags(t, d, f)
  PROVE  ShimMost'
<1>0. /\ driver \in [Devices -> DriverRec] /\ mem \in [Addrs -> Ctx]
      /\ primary \in [Devices -> RecordRec] /\ allocs \in SUBSET Addrs
      /\ driver[d].retains \in Nat /\ driver[d].retains + 1 \in Nat /\ driver[d].flags \in Flags
  <2>1. driver \in [Devices -> DriverRec] /\ mem \in [Addrs -> Ctx] /\ primary \in [Devices -> RecordRec]
        /\ allocs \in SUBSET Addrs
    BY DEF ShimTyped
  <2>2. driver[d] \in DriverRec
    BY <2>1
  <2>3. driver[d].retains \in Nat /\ driver[d].flags \in Flags
    BY <2>2 DEF DriverRec
  <2>4. QED
    BY <2>1, <2>3
<1>1. ASSUME driver' \in [Devices -> DriverRec], mem' \in [Addrs -> Ctx], UNCHANGED <<primary, allocs>>,
             NEW op \in CtxOps, NEW r \in Results, NEW got \in {0, 1}, Ask(t, op, d, r, got)
      PROVE  ShimMost'
  <2>1. call' \in [Threads -> CallRec] /\ \A u \in Threads : Argued(call'[u])
    BY <1>1, AskArgued
  <2>2. QED
    BY <1>0, <1>1, <2>1 DEF ShimMost, Argued
<1>2. CASE AskRetain(t, d)
  <2>1. PICK o \in Outcomes : driver' = [driver EXCEPT ![d].retains = IF o.ran THEN @ + 1 ELSE @]
                              /\ Ask(t, "retain", d, o.r, 0)
    BY <1>2 DEF AskRetain
  <2>2. driver' \in [Devices -> DriverRec]
    BY <1>0, <2>1, OutcomesAre, DriverFields
  <2>3. QED
    BY <1>0, <1>1, <1>2, <2>1, <2>2, OutcomesAre DEF AskRetain, CtxOps, Results
<1>3. CASE AskRelease(t, d)
  <2>1. PICK o \in Outcomes :
          /\ IF ~o.ran \/ ~Active(d) THEN UNCHANGED <<driver, mem>>
             ELSE IF driver[d].retains = 1 /\ ~others THEN Ended(d, 0)
             ELSE driver' = [driver EXCEPT ![d].retains = @ - 1] /\ UNCHANGED mem
          /\ Ask(t, "release", d, o.r, 0) /\ UNCHANGED <<primary, allocs>>
    BY <1>3 DEF AskRelease
  <2>2. driver' \in [Devices -> DriverRec] /\ mem' \in [Addrs -> Ctx]
    <3>1. CASE ~o.ran \/ ~Active(d)
      BY <1>0, <2>1, <3>1
    <3>2. CASE o.ran /\ Active(d) /\ driver[d].retains = 1 /\ ~others
      BY <2>1, <3>2, EndedTyped
    <3>3. CASE o.ran /\ Active(d) /\ ~(driver[d].retains = 1 /\ ~others)
      <4>1. driver' = [driver EXCEPT ![d].retains = driver[d].retains - 1] /\ UNCHANGED mem
        BY <2>1, <3>3
      <4>2. driver[d].retains - 1 \in Nat
        BY <1>0, <3>3 DEF Active
      <4>3. QED
        BY <1>0, <4>1, <4>2, DriverFields
    <3>4. QED
      BY <3>1, <3>2, <3>3, OutcomesAre
  <2>3. QED
    BY <1>1, <2>1, <2>2, OutcomesAre DEF CtxOps, Results
<1>4. CASE AskReset(t, d)
  <2>1. driver' \in [Devices -> DriverRec] /\ mem' \in [Addrs -> Ctx] /\ UNCHANGED <<primary, allocs>>
    BY <1>0, <1>4, EndedTyped DEF AskReset
  <2>2. \E r \in Results, got \in {0, 1} : Ask(t, "reset", d, r, got)
    BY <1>4, OutcomesAre DEF AskReset, Results
  <2>3. QED
    BY <1>1, <2>1, <2>2 DEF CtxOps
<1>5. CASE AskState(t, d)
  BY <1>0, <1>1, <1>5, OutcomesAre DEF AskState, driverVars, CtxOps, Results, Flags
<1>6. ASSUME NEW f \in Flags, AskSetFlags(t, d, f) PROVE ShimMost'
  <2>1. PICK o \in Outcomes : driver' = [driver EXCEPT ![d].flags = IF o.ran THEN f ELSE @]
                              /\ Ask(t, "set flags", d, o.r, f) /\ UNCHANGED <<mem, primary, allocs>>
    BY <1>6 DEF AskSetFlags
  <2>2. driver' \in [Devices -> DriverRec]
    BY <1>0, <2>1, OutcomesAre, DriverFields
  <2>3. QED
    BY <1>0, <1>1, <2>1, <2>2, OutcomesAre DEF CtxOps, Results, Flags
<1>7. QED
  BY <1>2, <1>3, <1>4, <1>5, <1>6

(* The record of a context stays one.                                      *)
LEMMA RecordFields ==
  ASSUME NEW p \in RecordRec
  PROVE  /\ [p EXCEPT !.retained = @ + 1] \in RecordRec
         /\ \A r \in Results : ReleaseIn(p, r) \in RecordRec
         /\ \A r \in Results, f \in Flags : FlagsSet(p, r, f) \in RecordRec
<1>1. p.retained \in Nat /\ p.flags \in Flags /\ p.flags_known \in BOOLEAN
  BY DEF RecordRec
<1>2. [p EXCEPT !.retained = @ + 1] \in RecordRec
  BY <1>1 DEF RecordRec
<1>3. ASSUME NEW r \in Results PROVE ReleaseIn(p, r) \in RecordRec
  <2> DEFINE left == IF p.retained > 0 THEN p.retained - 1 ELSE 0
             known == p.flags_known /\ left > 0
  <2>1. left \in Nat
    BY <1>1
  <2>2. known \in BOOLEAN
    OBVIOUS
  <2>3. ReleaseIn(p, r) = [p EXCEPT !.retained = left, !.flags_known = known]
    BY DEF ReleaseIn
  <2> HIDE DEF left, known
  <2>4. QED
    BY <2>1, <2>2, <2>3 DEF RecordRec
<1>4. ASSUME NEW r \in Results, NEW f \in Flags PROVE FlagsSet(p, r, f) \in RecordRec
  BY <1>1 DEF FlagsSet, RecordRec
<1>5. QED
  BY <1>2, <1>3, <1>4

(* The record of an answer keeps the types.                                *)
LEMMA RecordTypes ==
  ASSUME ShimTyped, NEW t \in Threads,
         RecordRetain(t) \/ RecordRelease(t) \/ RecordReset(t) \/ RecordSetFlags(t) \/ RecordState(t)
  PROVE  ShimMost' /\ doubted' \in [Devices -> BOOLEAN]
<1>0. /\ driver \in [Devices -> DriverRec] /\ mem \in [Addrs -> Ctx]
      /\ primary \in [Devices -> RecordRec] /\ allocs \in SUBSET Addrs /\ doubted \in [Devices -> BOOLEAN]
      /\ call \in [Threads -> CallRec] /\ \A u \in Threads : Argued(call[u])
  BY ShimParts
<1> DEFINE d == call[t].x
<1>1. d \in Devices /\ call[t].r \in Results /\ call[t].got \in Flags /\ call[t].alone \in BOOLEAN
  <2>1. call[t].op \in CtxOps
    BY DEF RecordRetain, RecordRelease, RecordReset, RecordSetFlags, RecordState, CtxOps
  <2>2. QED
    BY <1>0, <2>1 DEF Argued, CallRec, Flags
<1> HIDE DEF d
<1>2. Recorded(t) /\ UNCHANGED <<driver, mem, allocs>>
  BY DEF RecordRetain, RecordRelease, RecordReset, RecordSetFlags, RecordState, driverVars
<1>3. call' \in [Threads -> CallRec] /\ \A u \in Threads : Argued(call'[u])
  BY <1>0, <1>2, CallSet, OverArgued, Nothings DEF Recorded
<1>4. primary[d] \in RecordRec
  BY <1>0, <1>1
<1>5. ASSUME NEW p \in RecordRec PROVE [primary EXCEPT ![d] = p] \in [Devices -> RecordRec]
  BY <1>0, <1>5
<1>6. primary' \in [Devices -> RecordRec]
  <2>1. CASE RecordRetain(t)
    <3>1. primary' = primary \/ primary' = [primary EXCEPT ![d] = [primary[d] EXCEPT !.retained = @ + 1]]
      BY <1>0, <1>1, <2>1 DEF RecordRetain, d
    <3>2. QED
      BY <1>0, <1>4, <1>5, <3>1, RecordFields
  <2>2. CASE RecordRelease(t)
    <3>1. primary' = [primary EXCEPT ![d] = ReleaseIn(primary[d], call[t].r)]
      BY <2>2 DEF RecordRelease, d
    <3>2. QED
      BY <1>1, <1>4, <1>5, <3>1, RecordFields
  <2>3. CASE RecordReset(t)
    BY <1>0, <1>5, <2>3, Nothings DEF RecordReset, d
  <2>4. CASE RecordSetFlags(t) \/ RecordState(t)
    <3>1. primary' = primary \/ \E r \in Results : primary' = [primary EXCEPT ![d] = FlagsSet(primary[d], r, call[t].got)]
      BY <1>1, <2>4 DEF RecordSetFlags, RecordState, d, Results
    <3>2. QED
      BY <1>0, <1>1, <1>4, <1>5, <3>1, RecordFields
  <2>5. QED
    BY <2>1, <2>2, <2>3, <2>4
<1>7. doubted' \in [Devices -> BOOLEAN]
  <2>1. doubted' = doubted \/ \E b \in BOOLEAN : doubted' = [doubted EXCEPT ![d] = b]
    BY <1>0, <1>1 DEF RecordRetain, RecordRelease, RecordReset, RecordSetFlags, RecordState, d
  <2>2. QED
    BY <1>0, <2>1
<1>8. QED
  BY <1>0, <1>2, <1>3, <1>6, <1>7 DEF ShimMost, Argued

(* The calls about memory keep the types.                                  *)
LEMMA MemoryTypes ==
  ASSUME ShimTyped, NEW t \in Threads,
         \/ \E op \in {"alloc", "allocated"}, life \in Ctx : AskAlloc(t, op, life)
         \/ \E a \in Addrs : RecordFree(t, a)
         \/ RecordAlloc(t) \/ AskFree(t)
  PROVE  ShimMost' /\ doubted' = doubted
<1>0. /\ driver \in [Devices -> DriverRec] /\ mem \in [Addrs -> Ctx]
      /\ primary \in [Devices -> RecordRec] /\ allocs \in SUBSET Addrs
      /\ call \in [Threads -> CallRec] /\ \A u \in Threads : Argued(call[u])
  BY ShimParts
<1>1. UNCHANGED <<driver, primary, doubted>>
  BY DEF AskAlloc, RecordFree, RecordAlloc, AskFree, driverVars
<1>2. ASSUME mem' \in [Addrs -> Ctx], allocs' \in SUBSET Addrs,
             NEW c \in CallRec, Argued(c), call' = [call EXCEPT ![t] = c]
      PROVE  ShimMost'
  <2>1. call' \in [Threads -> CallRec] /\ \A u \in Threads : Argued(call'[u])
    BY <1>0, <1>2, CallSet
  <2>2. QED
    BY <1>0, <1>1, <1>2, <2>1 DEF ShimMost, Argued
<1>3. ASSUME NEW op \in {"alloc", "allocated"}, NEW life \in Ctx, AskAlloc(t, op, life) PROVE ShimMost'
  <2>1. mem' \in [Addrs -> Ctx] /\ allocs' = allocs
    BY <1>0, <1>3 DEF AskAlloc
  <2>2. ASSUME NEW x \in Addrs, NEW o \in Outcomes,
               call' = [call EXCEPT ![t] = [NoCall EXCEPT !.op = op, !.x = x, !.r = o.r]]
        PROVE  ShimMost'
    <3> DEFINE c == [NoCall EXCEPT !.op = op, !.x = x, !.r = o.r]
    <3>1. c \in CallRec /\ c.op = op /\ c.x = x
      BY <2>2, OutcomesAre DEF NoCall, CallRec, MemOps, Results
    <3>2. Argued(c)
      BY <2>2, <3>1 DEF Argued, CtxOps
    <3> HIDE DEF c
    <3>3. QED
      BY <1>0, <1>2, <2>1, <2>2, <3>1, <3>2 DEF c
  <2>3. ASSUME call' = [call EXCEPT ![t] = [NoCall EXCEPT !.op = op, !.r = "error"]]
        PROVE  ShimMost'
    <3> DEFINE c == [NoCall EXCEPT !.op = op, !.r = "error"]
    <3>1. c \in CallRec /\ c.op = op /\ c.r = "error"
      BY <2>3 DEF NoCall, CallRec, MemOps, Results
    <3>2. Argued(c)
      BY <2>3, <3>1 DEF Argued, CtxOps
    <3> HIDE DEF c
    <3>3. QED
      BY <1>0, <1>2, <2>1, <2>3, <3>1, <3>2 DEF c
  <2>5. QED
    BY <1>3, <2>2, <2>3 DEF AskAlloc
<1>4. ASSUME NEW a \in Addrs, RecordFree(t, a) PROVE ShimMost'
  <2> DEFINE c == [NoCall EXCEPT !.op = "free", !.x = a]
  <2>1. c \in CallRec /\ c.op = "free" /\ c.x = a
    BY DEF NoCall, CallRec, MemOps, Results
  <2>2. Argued(c)
    BY <2>1 DEF Argued, CtxOps
  <2>3. call' = [call EXCEPT ![t] = c] /\ allocs' \in SUBSET Addrs /\ mem' = mem
    BY <1>0, <1>4 DEF RecordFree, driverVars
  <2> HIDE DEF c
  <2>4. QED
    BY <1>0, <1>2, <2>1, <2>2, <2>3
<1>5. CASE RecordAlloc(t)
  <2>0. call[t] \in CallRec /\ Argued(call[t])
    BY <1>0
  <2> DEFINE c == [call[t] EXCEPT !.op = "allocated"]
  <2>1. c \in CallRec /\ c.op = "allocated" /\ c.x = call[t].x /\ c.r = call[t].r
    BY <2>0 DEF CallRec, MemOps
  <2>2. Argued(c)
    BY <1>5, <2>0, <2>1 DEF Argued, CtxOps, RecordAlloc
  <2>3. call' = [call EXCEPT ![t] = c] /\ mem' = mem
    BY <1>5 DEF RecordAlloc, driverVars
  <2>4. allocs' \in SUBSET Addrs
    BY <1>0, <1>5, <2>0 DEF RecordAlloc, Argued
  <2> HIDE DEF c
  <2>5. QED
    BY <1>0, <1>1, <1>2, <2>1, <2>2, <2>3, <2>4
<1>6. CASE AskFree(t)
  <2>0. call[t] \in CallRec /\ Argued(call[t])
    BY <1>0
  <2>1. PICK o \in Outcomes :
          /\ mem' = IF o.ran THEN [mem EXCEPT ![call[t].x] = NoCtx] ELSE mem
          /\ call' = [call EXCEPT ![t].op = "freed", ![t].r = o.r, ![t].got = IF o.ran THEN 1 ELSE 0]
    BY <1>6 DEF AskFree
  <2> DEFINE c == [call[t] EXCEPT !.op = "freed", !.r = o.r, !.got = IF o.ran THEN 1 ELSE 0]
  <2>2. c \in CallRec /\ c.op = "freed" /\ c.x = call[t].x
    BY <2>0, OutcomesAre DEF CallRec, MemOps, Results
  <2>3. Argued(c)
    BY <1>6, <2>0, <2>2 DEF Argued, CtxOps, AskFree
  <2>4. call' = [call EXCEPT ![t] = c]
    BY <1>0, <2>1
  <2>5. mem' \in [Addrs -> Ctx] /\ allocs' = allocs
    BY <1>0, <1>6, <2>1, Nothings DEF AskFree
  <2> HIDE DEF c
  <2>6. QED
    BY <1>0, <1>1, <1>2, <2>2, <2>3, <2>4, <2>5
<1>7. QED
  BY <1>1, <1>3, <1>4, <1>5, <1>6

-----------------------------------------------------------------------------
(* The runtime's frames.                                                   *)

(* What RtTyped says of a frame.                                           *)
FrameOk(f) ==
  /\ f \in Frame
  /\ f.op = "free" => f.x \in Addrs
  /\ f.stage = "forget" => f.op = "free"
  /\ f.op = "launch" => f.x \in Kernels

(* The runtime's types, a conjunct for each variable and one for each      *)
(* frame.                                                                  *)
LEMMA RtParts ==
  RtTyped <=> /\ program \in Programs
              /\ rt \in [Threads -> Frame] /\ \A t \in Threads : FrameOk(rt[t])
              /\ device \in [Threads -> Devices] /\ selected \in [Threads -> Nat] /\ current \in [Threads -> Ctx]
              /\ gen \in Nat \ {0} /\ retained \in SUBSET Devices /\ ctx_mu \in Threads \union {None}
              /\ dev_allocs \in SUBSET Addrs /\ handed \in SUBSET Addrs /\ robbed \in SUBSET Addrs
  BY DEF RtTyped, FrameOk

(* The frames a step leaves behind.                                        *)
FramesOk == rt \in [Threads -> Frame] /\ \A t \in Threads : FrameOk(rt[t])

(* One thread's frame is replaced by another that is typed.                *)
LEMMA FrameSet ==
  ASSUME FramesOk, NEW t \in Threads, NEW f, FrameOk(f), rt' = [rt EXCEPT ![t] = f]
  PROVE  FramesOk' /\ rt'[t] = f /\ \A u \in Threads \ {t} : rt'[u] = rt[u]
  BY DEF FramesOk, FrameOk

(* A frame that goes on to a stage.                                        *)
Stages == {None, "ensure", "select", "retain", "run", "release", "record", "note", "forget",
           "get function", "pack", "layout", "launch"}

(* A frame that moves on stays typed, whatever its step fills in.          *)
LEMMA FrameStage ==
  ASSUME NEW f, FrameOk(f), NEW s \in Stages, s = "forget" => f.op = "free"
  PROVE  /\ FrameOk([f EXCEPT !.stage = s])
         /\ \A n \in Nat : FrameOk([f EXCEPT !.stage = s, !.gen = n])
         /\ \A g \in Fns : FrameOk([f EXCEPT !.stage = s, !.fn = g])
         /\ \A k \in Kernels : FrameOk([f EXCEPT !.stage = s, !.slots = k])
         /\ \A T \in SUBSET Devices : FrameOk([f EXCEPT !.stage = s, !.todo = T])
         /\ \A b \in BOOLEAN : FrameOk([f EXCEPT !.reset = b])
<1>1. FrameOk([f EXCEPT !.stage = s])
  <2>1. [f EXCEPT !.stage = s] \in Frame
    BY DEF FrameOk, Frame, Stages
  <2>2. [f EXCEPT !.stage = s].op = f.op /\ [f EXCEPT !.stage = s].x = f.x /\ [f EXCEPT !.stage = s].stage = s
    BY DEF FrameOk, Frame
  <2>3. QED
    BY <2>1, <2>2 DEF FrameOk
<1>2. \A n \in Nat : FrameOk([f EXCEPT !.stage = s, !.gen = n])
  BY DEF FrameOk, Frame, Stages
<1>3. \A g \in Fns : FrameOk([f EXCEPT !.stage = s, !.fn = g])
  BY DEF FrameOk, Frame, Stages
<1>4. \A k \in Kernels : FrameOk([f EXCEPT !.stage = s, !.slots = k])
  BY DEF FrameOk, Frame, Stages
<1>5. \A T \in SUBSET Devices : FrameOk([f EXCEPT !.stage = s, !.todo = T])
  BY DEF FrameOk, Frame, Stages
<1>6. \A b \in BOOLEAN : FrameOk([f EXCEPT !.reset = b])
  BY DEF FrameOk, Frame
<1>7. QED
  BY <1>1, <1>2, <1>3, <1>4, <1>5, <1>6

(* A thread at rest has no frame.                                          *)
LEMMA NoFrameOk == FrameOk(NoFrame)
  BY Nothings DEF FrameOk, NoFrame, None

(* A frame that moves on is typed.                                         *)
LEMMA StageFrames ==
  ASSUME FramesOk, NEW t \in Threads, NEW s \in Stages, s = "forget" => rt[t].op = "free", Stage(t, s)
  PROVE  FramesOk'
<1>1. rt' = [rt EXCEPT ![t] = [rt[t] EXCEPT !.stage = s]]
  BY DEF Stage
<1>2. QED
  BY <1>1, FrameSet, FrameStage DEF FramesOk

(* The frame of a call that returns is typed.                              *)
LEMMA ReturnFrames ==
  ASSUME FramesOk, NEW t \in Threads, Returns(t)
  PROVE  FramesOk'
  BY FrameSet, NoFrameOk DEF Returns

(* The frame of a call that begins is typed: what it is given is of its    *)
(* kind.                                                                   *)
LEMMA StartFrames ==
  ASSUME FramesOk, NEW t \in Threads, NEW op \in {"use", "malloc", "malloc async", "free", "launch"}, NEW x,
         op \in {"use", "malloc", "malloc async"} => x = None,
         op = "free" => x \in Addrs, op = "launch" => x \in Kernels,
         Starts(t, op, x)
  PROVE  FramesOk'
<1> DEFINE b == \E u \in Threads : rt[u].op = "reset"
           f == [NoFrame EXCEPT !.op = op, !.stage = "ensure", !.x = x, !.reset = b]
<1>1. rt' = [rt EXCEPT ![t] = f]
  BY DEF Starts
<1>2. b \in BOOLEAN
  OBVIOUS
<1> HIDE DEF b
<1>3. FrameOk(f)
  BY <1>2, Nothings DEF FrameOk, Frame, NoFrame
<1>4. QED
  BY <1>1, <1>3, FrameSet

-----------------------------------------------------------------------------
(* Every step keeps the types of the shim and of the runtime.              *)
RtKept == UNCHANGED <<program, device, selected, current, gen, retained, ctx_mu, dev_allocs, handed, robbed>>

(* A step that leaves the shim alone leaves it typed.                      *)
LEMMA ShimSame == ASSUME ShimTyped, UNCHANGED baseVars PROVE ShimTyped'
  BY DEF ShimTyped, baseVars, driverVars, shimVars, appVars

(* The shim is typed if all but the application's own and the history is.  *)
LEMMA ShimMostly ==
  ASSUME ShimMost', owned' \in [Devices -> Nat], doubted' \in [Devices -> BOOLEAN] PROVE ShimTyped'
  BY DEF ShimMost, ShimTyped, Argued

(* The runtime is typed if its frames are and the rest stays.              *)
LEMMA RtMostly ==
  ASSUME RtTyped, FramesOk', RtKept PROVE RtTyped'
  BY DEF RtTyped, FramesOk, FrameOk, RtKept

(* A step that leaves the runtime alone leaves it typed.                   *)
LEMMA RtSame == ASSUME RtTyped, UNCHANGED rtVars PROVE RtTyped'
  BY DEF RtTyped, rtVars, ctxVars, memVars

(* What the types say of each thread.                                      *)
LEMMA Typedness ==
  ASSUME ShimTyped, RtTyped
  PROVE  /\ owned \in [Devices -> Nat] /\ doubted \in [Devices -> BOOLEAN] /\ mem \in [Addrs -> Ctx]
         /\ allocs \in SUBSET Addrs /\ FramesOk
         /\ \A t \in Threads : rt[t] \in Frame /\ FrameOk(rt[t]) /\ call[t] \in CallRec /\ Argued(call[t])
         /\ \A t \in Threads : device[t] \in Devices /\ current[t] \in Ctx /\ selected[t] \in Nat
         /\ gen \in Nat
  BY ShimParts, RtParts DEF FramesOk, FrameOk

(* A life of a device's context, whatever the driver says.                 *)
LEMMA LifeIsCtx == ASSUME ShimTyped, NEW d \in Devices PROVE Life(d) \in Ctx
<1>1. driver[d] \in DriverRec
  BY DEF ShimTyped
<1>2. driver[d].life \in Nat
  BY <1>1 DEF DriverRec
<1>3. QED
  BY <1>2 DEF Life, Ctx

(* ensure_context.                                                         *)
LEMMA EnsureTypes ==
  ASSUME ShimTyped, RtTyped, NEW t \in Threads,
         EnsureFast(t) \/ EnsureFinds(t) \/ EnsureRetains(t) \/ EnsureRetained(t) \/ EnsureSelects(t)
  PROVE  ShimTyped' /\ RtTyped'
<1>1. /\ rt[t] \in Frame /\ FrameOk(rt[t]) /\ device[t] \in Devices /\ gen \in Nat /\ FramesOk
      /\ owned \in [Devices -> Nat] /\ doubted \in [Devices -> BOOLEAN]
  BY Typedness
<1>2. ASSUME UNCHANGED <<program, ctxVars, memVars>>, FramesOk' PROVE RtTyped'
  BY <1>2, RtMostly DEF RtKept, ctxVars, memVars
<1>3. CASE EnsureFast(t)
  BY <1>1, <1>2, <1>3, ShimSame, StageFrames DEF EnsureFast, Stages
<1>4. /\ FrameOk([rt[t] EXCEPT !.stage = "select", !.gen = gen])
      /\ FrameOk([rt[t] EXCEPT !.stage = "retain", !.gen = gen])
  BY <1>1, FrameStage DEF Stages
<1>5. CASE EnsureFinds(t)
  <2>1. rt' = [rt EXCEPT ![t] = [rt[t] EXCEPT !.stage = "select", !.gen = gen]]
    BY <1>1, <1>5 DEF EnsureFinds, FramesOk
  <2>2. QED
    BY <1>1, <1>2, <1>4, <1>5, <2>1, FrameSet, ShimSame DEF EnsureFinds
<1>6. CASE EnsureRetains(t)
  <2>1. rt' = [rt EXCEPT ![t] = [rt[t] EXCEPT !.stage = "retain", !.gen = gen]]
    BY <1>1, <1>6 DEF EnsureRetains, FramesOk
  <2>2. FramesOk' /\ ctx_mu' = t
    BY <1>1, <1>4, <1>6, <2>1, FrameSet DEF EnsureRetains
  <2>3. RtTyped'
    BY <1>6, <2>2 DEF EnsureRetains, RtTyped, FramesOk, FrameOk, memVars
  <2>4. ShimTyped'
    BY <1>1, <1>6, AskTypes, ShimMostly DEF EnsureRetains
  <2>5. QED
    BY <2>3, <2>4
<1>7. CASE EnsureRetained(t)
  <2>1. FramesOk'
    BY <1>1, <1>7, StageFrames, ReturnFrames DEF EnsureRetained, Stages
  <2>2. RtTyped'
    <3>1. retained' \in SUBSET Devices /\ ctx_mu' = None
      BY <1>1, <1>7 DEF EnsureRetained, RtTyped
    <3>2. QED
      BY <1>7, <2>1, <3>1 DEF EnsureRetained, RtTyped, FramesOk, FrameOk, memVars
  <2>3. ShimTyped'
    BY <1>1, <1>7, RecordTypes, ShimMostly DEF EnsureRetained
  <2>4. QED
    BY <2>2, <2>3
<1>8. CASE EnsureSelects(t)
  <2>1. PICK o \in Outcomes :
          /\ current' = IF o.ran THEN [current EXCEPT ![t] = Life(device[t])] ELSE current
          /\ IF o.r = "ok" THEN Selects(t) /\ Stage(t, "run") ELSE Returns(t) /\ UNCHANGED selected
    BY <1>8 DEF EnsureSelects
  <2>2. FramesOk'
    BY <1>1, <2>1, StageFrames, ReturnFrames DEF Stages
  <2>3. current' \in [Threads -> Ctx]
    BY <1>1, <2>1, LifeIsCtx DEF RtTyped
  <2>4. rt[t].gen \in Nat
    BY <1>1 DEF Frame
  <2>5. selected' \in [Threads -> Nat]
    BY <2>1, <2>4 DEF RtTyped, Selects
  <2>6. RtTyped'
    BY <1>8, <2>2, <2>3, <2>5 DEF EnsureSelects, RtTyped, FramesOk, FrameOk, memVars
  <2>7. QED
    BY <1>8, <2>6, ShimSame DEF EnsureSelects
<1>9. QED
  BY <1>3, <1>5, <1>6, <1>7, <1>8

(* A call that keeps nothing, and cudaSetDevice.                           *)
LEMMA UseTypes ==
  ASSUME ShimTyped, RtTyped, NEW t \in Threads, Use(t) \/ RunUse(t) \/ \E d \in Devices : SetDevice(t, d)
  PROVE  ShimTyped' /\ RtTyped'
<1>1. FramesOk /\ UNCHANGED baseVars
  BY Typedness DEF Use, RunUse, SetDevice
<1>2. FramesOk'
  BY <1>1, StartFrames, ReturnFrames DEF Use, RunUse, SetDevice
<1>3. CASE Use(t) \/ RunUse(t)
  BY <1>1, <1>2, <1>3, ShimSame, RtMostly DEF Use, RunUse, RtKept, ctxVars, memVars
<1>4. ASSUME NEW d \in Devices, SetDevice(t, d) PROVE RtTyped'
  <2>1. device' \in [Threads -> Devices] /\ selected' \in [Threads -> Nat]
    BY <1>4 DEF SetDevice, Reselect, RtTyped
  <2>2. QED
    BY <1>2, <1>4, <2>1 DEF SetDevice, RtTyped, FramesOk, FrameOk, memVars
<1>5. QED
  BY <1>1, <1>3, <1>4, ShimSame

(* cudaDeviceReset.                                                        *)
LEMMA ResetTypes ==
  ASSUME ShimTyped, RtTyped, NEW t \in Threads,
         BeginDeviceReset(t) \/ (\E d \in Devices : ResetReleases(t, d)) \/ ResetRecords(t) \/ EndDeviceReset(t)
  PROVE  ShimTyped' /\ RtTyped'
<1>1. /\ rt[t] \in Frame /\ FrameOk(rt[t]) /\ gen \in Nat /\ FramesOk
      /\ owned \in [Devices -> Nat] /\ doubted \in [Devices -> BOOLEAN]
  BY Typedness
<1>2. ASSUME UNCHANGED <<program, ctxVars, memVars>>, FramesOk' PROVE RtTyped'
  BY <1>2, RtMostly DEF RtKept, ctxVars, memVars
<1>3. CASE BeginDeviceReset(t)
  <2> DEFINE f == [NoFrame EXCEPT !.op = "reset", !.stage = "release", !.todo = retained]
             then(u) == IF u = t THEN f ELSE [rt[u] EXCEPT !.reset = rt[u].op # None]
  <2>1. FrameOk(f)
    BY Nothings DEF FrameOk, Frame, NoFrame, RtTyped
  <2>2. ASSUME NEW u \in Threads PROVE FrameOk([rt[u] EXCEPT !.reset = rt[u].op # None])
    <3>1. FrameOk(rt[u]) /\ (rt[u].op # None) \in BOOLEAN
      BY Typedness
    <3>2. QED
      BY <3>1, FrameStage DEF Stages
  <2>3. rt' = [u \in Threads |-> then(u)]
    BY <1>3 DEF BeginDeviceReset
  <2> HIDE DEF f
  <2>4. \A u \in Threads : FrameOk(then(u))
    BY <2>1, <2>2
  <2> HIDE DEF then
  <2>5. FramesOk'
    BY <2>3, <2>4 DEF FramesOk, FrameOk
  <2>6. ctx_mu' = t /\ RtTyped'
    BY <1>3, <2>5 DEF BeginDeviceReset, RtTyped, FramesOk, FrameOk, memVars
  <2>7. QED
    BY <1>3, <2>6, ShimSame DEF BeginDeviceReset
<1>4. ASSUME NEW d \in Devices, ResetReleases(t, d) PROVE ShimTyped' /\ RtTyped'
  <2>1. rt' = [rt EXCEPT ![t] = [rt[t] EXCEPT !.stage = "record", !.todo = rt[t].todo \ {d}]]
    BY <1>1, <1>4 DEF ResetReleases, FramesOk
  <2>2. rt[t].todo \ {d} \in SUBSET Devices
    BY <1>1 DEF Frame
  <2>3. FrameOk([rt[t] EXCEPT !.stage = "record", !.todo = rt[t].todo \ {d}])
    BY <1>1, <2>2, FrameStage DEF Stages
  <2>4. FramesOk'
    BY <1>1, <2>1, <2>3, FrameSet
  <2>5. QED
    BY <1>1, <1>2, <1>4, <2>4, AskTypes, ShimMostly DEF ResetReleases
<1>5. CASE ResetRecords(t)
  BY <1>1, <1>2, <1>5, StageFrames, RecordTypes, ShimMostly DEF ResetRecords, Stages
<1>6. CASE EndDeviceReset(t)
  <2>1. FramesOk'
    BY <1>1, <1>6, ReturnFrames DEF EndDeviceReset
  <2>2. gen' \in Nat \ {0}
    BY <1>1, <1>6 DEF EndDeviceReset
  <2>3. RtTyped'
    BY <1>6, <2>1, <2>2 DEF EndDeviceReset, RtTyped, FramesOk, FrameOk, memVars
  <2>4. QED
    BY <1>6, <2>3, ShimSame DEF EndDeviceReset
<1>7. QED
  BY <1>3, <1>4, <1>5, <1>6

(* Memory.                                                                 *)
LEMMA MallocTypes ==
  ASSUME ShimTyped, RtTyped, NEW t \in Threads,
         (\E op \in {"malloc", "malloc async"} : Malloc(t, op)) \/ RunMalloc(t) \/ ShimNotes(t) \/ NoteAlloc(t)
  PROVE  ShimTyped' /\ RtTyped'
<1>1. /\ rt[t] \in Frame /\ FrameOk(rt[t]) /\ current[t] \in Ctx /\ FramesOk
      /\ owned \in [Devices -> Nat] /\ doubted \in [Devices -> BOOLEAN]
      /\ call[t] \in CallRec /\ Argued(call[t])
  BY Typedness
<1>2. ASSUME UNCHANGED <<program, ctxVars, memVars>>, FramesOk' PROVE RtTyped'
  BY <1>2, RtMostly DEF RtKept, ctxVars, memVars
<1>3. ASSUME NEW op \in {"malloc", "malloc async"}, Malloc(t, op) PROVE ShimTyped' /\ RtTyped'
  BY <1>1, <1>2, <1>3, ShimSame, StartFrames DEF Malloc
<1>4. CASE RunMalloc(t)
  <2>1. \E op \in {"alloc", "allocated"} : AskAlloc(t, op, current[t])
    BY <1>4 DEF RunMalloc
  <2>2. QED
    BY <1>1, <1>2, <1>4, <2>1, MemoryTypes, StageFrames, ShimMostly DEF RunMalloc, Stages
<1>5. CASE ShimNotes(t)
  BY <1>1, <1>5, MemoryTypes, ShimMostly, RtSame DEF ShimNotes
<1>6. CASE NoteAlloc(t)
  <2>1. FramesOk'
    BY <1>1, <1>6, ReturnFrames DEF NoteAlloc
  <2>2. dev_allocs' \in SUBSET Addrs /\ handed' \in SUBSET Addrs /\ robbed' \in SUBSET Addrs
    BY <1>1, <1>6 DEF NoteAlloc, RtTyped, Argued
  <2>3. RtTyped'
    BY <1>6, <2>1, <2>2 DEF NoteAlloc, RtTyped, FramesOk, FrameOk, ctxVars
  <2>4. call' \in [Threads -> CallRec] /\ \A u \in Threads : Argued(call'[u])
    BY <1>6, ShimParts, CallSet, OverArgued, Nothings DEF NoteAlloc, Recorded
  <2>5. ShimTyped'
    BY <1>6, <2>4 DEF NoteAlloc, ShimTyped, Argued, driverVars, appVars
  <2>6. QED
    BY <2>3, <2>5
<1>7. QED
  BY <1>3, <1>4, <1>5, <1>6

(* The steps of a free keep the types.                                     *)
LEMMA FreeTypes ==
  ASSUME ShimTyped, RtTyped, NEW t \in Threads,
         (\E a \in Addrs : Free(t, a) \/ FreeAsync(t, a)) \/ ShimForgets(t) \/ RunFree(t) \/ ForgetAlloc(t)
  PROVE  ShimTyped' /\ RtTyped'
<1>1. /\ rt[t] \in Frame /\ FrameOk(rt[t]) /\ current[t] \in Ctx /\ FramesOk
      /\ owned \in [Devices -> Nat] /\ doubted \in [Devices -> BOOLEAN]
      /\ call[t] \in CallRec /\ Argued(call[t])
  BY Typedness
<1>2. ASSUME UNCHANGED <<program, ctxVars, memVars>>, FramesOk' PROVE RtTyped'
  BY <1>2, RtMostly DEF RtKept, ctxVars, memVars
<1>3. ASSUME UNCHANGED <<program, ctxVars, dev_allocs, robbed>>, handed' \in SUBSET Addrs, FramesOk' PROVE RtTyped'
  BY <1>3 DEF RtTyped, FramesOk, FrameOk, ctxVars
<1>4. ASSUME NEW c \in CallRec, Argued(c), call' = [call EXCEPT ![t] = c], UNCHANGED <<driverVars, primary, allocs, appVars>>
      PROVE  ShimTyped'
  <2>1. call' \in [Threads -> CallRec] /\ \A u \in Threads : Argued(call'[u])
    BY <1>4, ShimParts, CallSet
  <2>2. QED
    BY <1>4, <2>1 DEF ShimTyped, Argued, driverVars, appVars
<1>5. ASSUME NEW a \in Addrs, Free(t, a) PROVE ShimTyped' /\ RtTyped'
  <2>1. handed' \in SUBSET Addrs /\ FramesOk'
    BY <1>1, <1>5, StartFrames DEF Free, RtTyped
  <2>2. QED
    BY <1>3, <1>5, <2>1, ShimSame DEF Free
<1>6. ASSUME NEW a \in Addrs, FreeAsync(t, a) PROVE ShimTyped' /\ RtTyped'
  <2> DEFINE f == [NoFrame EXCEPT !.op = "free", !.stage = "forget", !.x = a]
             c == [NoCall EXCEPT !.op = "free async", !.x = a]
  <2>1. FrameOk(f)
    BY DEF FrameOk, Frame, NoFrame
  <2>2. rt' = [rt EXCEPT ![t] = f] /\ call' = [call EXCEPT ![t] = c] /\ handed' \in SUBSET Addrs
    BY <1>6 DEF FreeAsync, RtTyped
  <2>3. c \in CallRec /\ c.op = "free async" /\ c.x = a
    BY DEF NoCall, CallRec, MemOps, Results
  <2>4. Argued(c)
    BY <2>3 DEF Argued, CtxOps
  <2> HIDE DEF f, c
  <2>5. FramesOk'
    BY <1>1, <2>1, <2>2, FrameSet
  <2>6. RtTyped'
    BY <1>3, <1>6, <2>2, <2>5 DEF FreeAsync
  <2>7. ShimTyped'
    BY <1>4, <1>6, <2>2, <2>3, <2>4 DEF FreeAsync
  <2>8. QED
    BY <2>6, <2>7
<1>7. CASE ShimForgets(t)
  <2>1. rt[t].x \in Addrs
    BY <1>1, <1>7 DEF ShimForgets, FrameOk
  <2>2. ShimMost' /\ doubted' = doubted
    BY <1>7, <2>1, MemoryTypes DEF ShimForgets
  <2>3. QED
    BY <1>1, <1>2, <1>7, <2>2, StageFrames, ShimMostly DEF ShimForgets, Stages
<1>8. CASE RunFree(t)
  BY <1>1, <1>8, MemoryTypes, ShimMostly, RtSame DEF RunFree
<1>9. CASE ForgetAlloc(t)
  <2>1. rt[t].x \in Addrs
    <3>1. call[t].op = "freed" /\ rt[t].stage = "forget"
      BY <1>9 DEF ForgetAlloc
    <3>2. QED
      BY <1>1, <3>1 DEF FrameOk
  <2>2. FramesOk'
    BY <1>1, <1>9, ReturnFrames DEF ForgetAlloc
  <2>3. dev_allocs' \in SUBSET Addrs /\ handed' \in SUBSET Addrs /\ robbed' \in SUBSET Addrs
    BY <1>9, <2>1 DEF ForgetAlloc, RtTyped
  <2>4. RtTyped'
    BY <1>9, <2>2, <2>3 DEF ForgetAlloc, RtTyped, FramesOk, FrameOk, ctxVars
  <2>5. ShimTyped'
    BY <1>4, <1>9, OverArgued, Nothings DEF ForgetAlloc, Recorded
  <2>6. QED
    BY <2>4, <2>5
<1>10. QED
  BY <1>5, <1>6, <1>7, <1>8, <1>9

(* The application's own calls.                                            *)
LEMMA AppTypes ==
  ASSUME ShimTyped, RtTyped, NEW t \in Threads,
         \/ \E d \in Devices : \/ AppRetain(t, d) \/ AppRelease(t, d) \/ AppReset(t, d) \/ AppState(t, d)
                               \/ \E f \in Flags : AppSetFlags(t, d, f)
         \/ AppRetained(t) \/ AppRecords(t)
  PROVE  ShimTyped' /\ RtTyped'
<1>1. owned \in [Devices -> Nat] /\ doubted \in [Devices -> BOOLEAN] /\ call[t] \in CallRec /\ Argued(call[t])
  BY Typedness
<1>2. UNCHANGED rtVars
  BY DEF AppRetain, AppRelease, AppReset, AppState, AppSetFlags, AppRetained, AppRecords
<1>3. ASSUME NEW d \in Devices, AppRetain(t, d) \/ AppReset(t, d) \/ AppState(t, d) \/ \E f \in Flags : AppSetFlags(t, d, f)
      PROVE  ShimTyped'
  <2>1. ShimMost'
    BY <1>3, AskTypes DEF AppRetain, AppReset, AppState, AppSetFlags
  <2>2. UNCHANGED appVars
    BY <1>3 DEF AppRetain, AppReset, AppState, AppSetFlags
  <2>3. QED
    BY <1>1, <2>1, <2>2, ShimMostly DEF appVars
<1>4. ASSUME NEW d \in Devices, AppRelease(t, d) PROVE ShimTyped'
  <2>1. ShimMost'
    BY <1>4, AskTypes DEF AppRelease
  <2>2. owned[d] - 1 \in Nat
    BY <1>1, <1>4 DEF AppRelease
  <2>3. owned' \in [Devices -> Nat] /\ doubted' = doubted
    BY <1>1, <1>4, <2>2 DEF AppRelease
  <2>4. QED
    BY <1>1, <2>1, <2>3, ShimMostly
<1>5. CASE AppRetained(t)
  <2>1. ShimMost' /\ doubted' \in [Devices -> BOOLEAN]
    BY <1>5, RecordTypes DEF AppRetained
  <2>2. owned' \in [Devices -> Nat]
    <3>1. owned' = owned \/ (call[t].x \in Devices /\ owned' = [owned EXCEPT ![call[t].x] = owned[call[t].x] + 1])
      BY <1>1, <1>5 DEF AppRetained, Argued, CtxOps
    <3>2. \A d \in Devices : owned[d] + 1 \in Nat
      BY <1>1
    <3>3. QED
      BY <1>1, <3>1, <3>2
  <2>3. QED
    BY <1>2, <2>1, <2>2, ShimMostly, RtSame
<1>6. CASE AppRecords(t)
  <2>1. ShimMost' /\ doubted' \in [Devices -> BOOLEAN]
    BY <1>6, RecordTypes DEF AppRecords
  <2>2. QED
    BY <1>1, <1>2, <1>6, <2>1, ShimMostly, RtSame DEF AppRecords
<1>7. QED
  BY <1>2, <1>3, <1>4, <1>5, <1>6, RtSame

-----------------------------------------------------------------------------
(* The steps about kernels keep the types.                                 *)

(* A kernel's record that changes.                                         *)
LEMMA RegFields ==
  ASSUME NEW r \in RegRec, NEW f \in Fns \union {NoFn}
  PROVE  /\ r.loaded \in Fns \union {NoFn} /\ r.fn \in Fns \union {NoFn} /\ r.n \in Nat /\ r.on \in BOOLEAN
         /\ [r EXCEPT !.on = FALSE] \in RegRec
         /\ [r EXCEPT !.tried = TRUE] \in RegRec
         /\ [r EXCEPT !.tried = TRUE, !.loaded = f] \in RegRec
         /\ [r EXCEPT !.fn = f] \in RegRec
         /\ [NotRegistered EXCEPT !.on = TRUE, !.n = r.n + 1] \in RegRec
<1>1. r.loaded \in Fns \union {NoFn} /\ r.fn \in Fns \union {NoFn} /\ r.n \in Nat /\ r.on \in BOOLEAN
      /\ r.tried \in BOOLEAN
  BY DEF RegRec
<1>2. [r EXCEPT !.on = FALSE] \in RegRec /\ [r EXCEPT !.tried = TRUE] \in RegRec
  BY DEF RegRec
<1>3. [r EXCEPT !.tried = TRUE, !.loaded = f] \in RegRec
  BY DEF RegRec
<1>4. [r EXCEPT !.fn = f] \in RegRec
  BY DEF RegRec
<1>5. [NotRegistered EXCEPT !.on = TRUE, !.n = r.n + 1] \in RegRec
  <2>1. r.n + 1 \in Nat
    BY <1>1
  <2>2. QED
    BY <2>1 DEF RegRec, NotRegistered
<1>6. QED
  BY <1>1, <1>2, <1>3, <1>4, <1>5

(* The frame of a launch that found its function, or its layout.           *)
LEMMA LaunchFrames ==
  ASSUME FramesOk, NEW t \in Threads
  PROVE  /\ \A f \in Fns : Resolved(t, f) => FramesOk'
         /\ \A k \in Kernels : Packs(t, k) => FramesOk'
         /\ \A k \in Kernels : rt' = [rt EXCEPT ![t].stage = "layout", ![t].slots = k] => FramesOk'
<1>1. rt \in [Threads -> Frame] /\ FrameOk(rt[t])
  BY DEF FramesOk
<1>2. ASSUME NEW f \in Fns, Resolved(t, f) PROVE FramesOk'
  <2>1. rt' = [rt EXCEPT ![t] = [rt[t] EXCEPT !.stage = "pack", !.fn = f]]
    BY <1>1, <1>2 DEF Resolved
  <2>2. FrameOk([rt[t] EXCEPT !.stage = "pack", !.fn = f])
    BY <1>1, FrameStage DEF Stages
  <2>3. QED
    BY <2>1, <2>2, FrameSet
<1>3. ASSUME NEW k \in Kernels, NEW s \in {"launch", "layout"}, rt' = [rt EXCEPT ![t].stage = s, ![t].slots = k]
      PROVE  FramesOk'
  <2>1. rt' = [rt EXCEPT ![t] = [rt[t] EXCEPT !.stage = s, !.slots = k]]
    BY <1>1, <1>3
  <2>2. FrameOk([rt[t] EXCEPT !.stage = s, !.slots = k])
    BY <1>1, FrameStage DEF Stages
  <2>3. QED
    BY <2>1, <2>2, FrameSet
<1>4. QED
  BY <1>2, <1>3 DEF Packs

(* What a kernel step leaves.                                              *)
KernelRest == UNCHANGED <<baseVars, program, ctxVars, memVars>>

(* What is typed where a launch is.                                        *)
LEMMA LaunchTyped ==
  ASSUME RtTyped, KernelTyped, LaunchInv, NEW t \in Threads
  PROVE  /\ FrameOk(rt[t]) /\ rt[t] \in Frame /\ FramesOk
         /\ Resolving(t) => KernelOf(t) \in Kernels /\ reg[KernelOf(t)] \in RegRec
         /\ rt[t].stage \in {"pack", "layout", "launch"} => FnOf(t) \in Fns /\ layouts[FnOf(t)] \in Kernels \union {None}
                                                         /\ fns[FnOf(t)] \in Kernels \union {NoCode}
<1>1. FramesOk /\ FrameOk(rt[t]) /\ rt[t] \in Frame
  BY RtParts DEF FramesOk, FrameOk
<1>2. Resolving(t) => KernelOf(t) \in Kernels
  BY <1>1 DEF FrameOk, Resolving, KernelOf
<1>3. QED
  BY <1>1, <1>2 DEF KernelTyped, LaunchInv

(* The steps of a launch, and of a registration, keep the types.           *)
LEMMA KernelTypes ==
  ASSUME TypeInv, NEW t \in Threads, KernelNext(t)
  PROVE  ShimTyped' /\ RtTyped' /\ KernelTyped'
<1>0. ShimTyped /\ RtTyped /\ KernelTyped /\ LaunchInv
  BY DEF TypeInv
<1> DEFINE k == KernelOf(t)
<1>1. /\ FramesOk /\ FrameOk(rt[t]) /\ rt[t] \in Frame
      /\ Resolving(t) => k \in Kernels /\ reg[k] \in RegRec
      /\ rt[t].stage \in {"pack", "layout", "launch"} => FnOf(t) \in Fns /\ layouts[FnOf(t)] \in Kernels \union {None}
                                                      /\ fns[FnOf(t)] \in Kernels \union {NoCode}
      /\ rt[t].stage = "get function" => Resolving(t) /\ reg[k].loaded # NoFn
  BY <1>0, LaunchTyped DEF LaunchInv
<1>2. /\ reg \in [Kernels -> RegRec] /\ reg_mu \in Threads \union {None}
      /\ layouts \in [Fns -> Kernels \union {None}] /\ fns \in [Fns -> Kernels \union {NoCode}]
      /\ shipped \in [Kernels -> Nat] /\ renamed \in SUBSET Fns
  BY <1>0 DEF KernelTyped
<1>3. UNCHANGED <<baseVars, program, ctxVars, memVars>>
  BY DEF KernelNext, Register, Unregister, Launch, ResolveKnown, ResolveRefused, ResolveShips, ResolveLoaded,
         GetFunction, PackKnown, PackAsks, RecordLayout, AskOfFunction, RunLaunch, rtVars
<1>4. ShimTyped'
  BY <1>0, <1>3, ShimSame
<1>5. ASSUME FramesOk' PROVE RtTyped'
  BY <1>0, <1>3, <1>5, RtMostly DEF RtKept, ctxVars, memVars
<1>6. ASSUME UNCHANGED rt PROVE FramesOk'
  BY <1>1, <1>6 DEF FramesOk, FrameOk
<1>7. ASSUME UNCHANGED kernelVars PROVE KernelTyped'
  BY <1>2, <1>7 DEF kernelVars, KernelTyped
<1> HIDE DEF k
<1>8. ASSUME NEW x \in Kernels, Register(t, x) PROVE FramesOk' /\ KernelTyped'
  <2>1. Registered(x) \in RegRec
    BY <1>2, RegFields DEF Registered
  <2>2. reg' \in [Kernels -> RegRec] /\ shipped' \in [Kernels -> Nat]
    BY <1>2, <1>8, <2>1 DEF Register
  <2>3. QED
    BY <1>2, <1>6, <1>8, <2>2 DEF Register, KernelTyped, rtVars
<1>9. ASSUME NEW x \in Kernels, Unregister(t, x) PROVE FramesOk' /\ KernelTyped'
  <2>1. [reg[x] EXCEPT !.on = FALSE] \in RegRec /\ reg[x].loaded \in Fns \union {NoFn}
    BY <1>2, RegFields
  <2>2. reg' \in [Kernels -> RegRec] /\ fns' \in [Fns -> Kernels \union {NoCode}]
    BY <1>2, <1>9, <2>1 DEF Unregister
  <2>3. QED
    BY <1>2, <1>6, <1>9, <2>2 DEF Unregister, KernelTyped, rtVars
<1>10. ASSUME NEW x \in Kernels, Launch(t, x) PROVE FramesOk' /\ KernelTyped'
  BY <1>1, <1>7, <1>10, StartFrames DEF Launch
<1>11. ASSUME Returns(t), UNCHANGED kernelVars PROVE FramesOk' /\ KernelTyped'
  BY <1>1, <1>7, <1>11, ReturnFrames
<1>12. CASE ResolveKnown(t)
  <2>1. reg[k].fn \in Fns
    BY <1>1, <1>12, RegFields DEF ResolveKnown, k
  <2>2. QED
    BY <1>1, <1>4, <1>5, <1>7, <1>12, <2>1, LaunchFrames DEF ResolveKnown, k
<1>13. CASE ResolveShips(t)
  <2>1. k \in Kernels /\ reg[k] \in RegRec /\ shipped[k] + 1 \in Nat
    <3>1. k \in Kernels /\ reg[k] \in RegRec
      BY <1>1, <1>13 DEF ResolveShips
    <3>2. QED
      BY <1>2, <3>1
  <2>2. shipped' \in [Kernels -> Nat] /\ layouts' = layouts
    BY <1>2, <1>13, <2>1 DEF ResolveShips, k
  <2>3. ASSUME NEW f \in Fns, NEW o \in Outcomes,
               fns' = [fns EXCEPT ![f] = k],
               renamed' = IF layouts[f] = None THEN renamed ELSE renamed \cup {f},
               reg' = [reg EXCEPT ![k].tried = TRUE, ![k].loaded = IF o.r = "ok" THEN f ELSE NoFn],
               IF o.r = "ok" THEN reg_mu' = t /\ Stage(t, "get function") ELSE UNCHANGED reg_mu /\ Returns(t)
        PROVE  FramesOk' /\ KernelTyped'
    <3>1. FramesOk'
      BY <1>1, <2>3, StageFrames, ReturnFrames DEF Stages
    <3>2. reg' = [reg EXCEPT ![k] = [reg[k] EXCEPT !.tried = TRUE, !.loaded = IF o.r = "ok" THEN f ELSE NoFn]]
      BY <1>2, <2>1, <2>3
    <3>3. reg' \in [Kernels -> RegRec]
      BY <1>2, <2>1, <3>2, RegFields
    <3>4. fns' \in [Fns -> Kernels \union {NoCode}] /\ renamed' \in SUBSET Fns /\ reg_mu' \in Threads \union {None}
      BY <1>2, <2>1, <2>3
    <3>5. QED
      BY <1>2, <2>2, <3>1, <3>3, <3>4 DEF KernelTyped
  <2>4. ASSUME reg' = [reg EXCEPT ![k].tried = TRUE], Returns(t), UNCHANGED <<reg_mu, fns, renamed>>
        PROVE  FramesOk' /\ KernelTyped'
    <3>1. reg' = [reg EXCEPT ![k] = [reg[k] EXCEPT !.tried = TRUE]]
      BY <1>2, <2>1, <2>4
    <3>2. reg' \in [Kernels -> RegRec]
      BY <1>2, <2>1, <3>1, RegFields
    <3>3. QED
      BY <1>1, <1>2, <2>2, <2>4, <3>2, ReturnFrames DEF KernelTyped
  <2>5. QED
    BY <1>4, <1>5, <1>13, <2>3, <2>4 DEF ResolveShips, k
<1>14. CASE ResolveLoaded(t)
  <2>1. FramesOk'
    BY <1>1, <1>14, StageFrames DEF ResolveLoaded, Stages
  <2>2. KernelTyped'
    BY <1>2, <1>14 DEF ResolveLoaded, KernelTyped
  <2>3. QED
    BY <1>4, <1>5, <2>1, <2>2
<1>15. CASE GetFunction(t)
  <2>1. k \in Kernels /\ reg[k] \in RegRec /\ reg[k].loaded \in Fns
    BY <1>1, <1>15, RegFields DEF GetFunction
  <2>2. FramesOk'
    BY <1>1, <1>15, <2>1, LaunchFrames, ReturnFrames DEF GetFunction, k
  <2>3. reg' \in [Kernels -> RegRec]
    <3>1. reg' = reg \/ reg' = [reg EXCEPT ![k] = [reg[k] EXCEPT !.fn = reg[k].loaded]]
      BY <1>2, <1>15, <2>1 DEF GetFunction, k
    <3>2. [reg[k] EXCEPT !.fn = reg[k].loaded] \in RegRec
      BY <2>1, RegFields
    <3>3. QED
      BY <1>2, <2>1, <3>1, <3>2
  <2>4. KernelTyped'
    BY <1>2, <1>15, <2>3 DEF GetFunction, KernelTyped
  <2>5. QED
    BY <1>4, <1>5, <2>2, <2>4
<1>16. CASE PackKnown(t)
  <2>1. layouts[FnOf(t)] \in Kernels
    BY <1>1, <1>16 DEF PackKnown
  <2>2. QED
    BY <1>1, <1>4, <1>5, <1>7, <1>16, <2>1, LaunchFrames DEF PackKnown
<1>17. CASE PackAsks(t)
  <2>1. fns[FnOf(t)] # NoCode => fns[FnOf(t)] \in Kernels
    BY <1>1, <1>17 DEF PackAsks
  <2>2. FramesOk'
    BY <1>1, <1>17, <2>1, LaunchFrames, ReturnFrames DEF PackAsks
  <2>3. QED
    BY <1>4, <1>5, <1>7, <1>17, <2>2 DEF PackAsks
<1>18. CASE RecordLayout(t)
  <2>1. rt[t].slots \in Kernels \union {None} /\ FnOf(t) \in Fns
    BY <1>1, <1>18 DEF RecordLayout, Frame
  <2>2. KernelTyped'
    BY <1>2, <1>18, <2>1 DEF RecordLayout, KernelTyped
  <2>3. [rt[t] EXCEPT !.stage = "launch", !.slots = rt[t].slots] = [rt[t] EXCEPT !.stage = "launch"]
    BY <1>1 DEF Frame
  <2>4. rt' = [rt EXCEPT ![t] = [rt[t] EXCEPT !.stage = "launch", !.slots = rt[t].slots]]
    BY <1>1, <1>18 DEF RecordLayout, Packs, FramesOk
  <2>5. FramesOk'
    BY <1>1, <2>3, <2>4, FrameSet, FrameStage DEF Stages
  <2>6. QED
    BY <1>4, <1>5, <2>2, <2>5
<1>19. QED
  BY <1>4, <1>5, <1>8, <1>9, <1>10, <1>11, <1>12, <1>13, <1>14, <1>15, <1>16, <1>17, <1>18
     DEF KernelNext, ResolveRefused, AskOfFunction, RunLaunch

-----------------------------------------------------------------------------
(* What the runtime's steps leave of launches.                             *)
LaunchStages == {"get function", "pack", "layout", "launch"}
KeepsLaunch(f, g) ==
  /\ g.op = "launch" => f.op = "launch" /\ g.x = f.x
  /\ g.stage \in LaunchStages =>
       g.stage = f.stage /\ g.op = f.op /\ g.x = f.x /\ g.fn = f.fn /\ g.slots = f.slots

(* One thread's frame is replaced by another that launches nothing new; the*)
(* rest stay.                                                              *)
LEMMA LaunchKeptSet ==
  ASSUME FramesOk, NEW t \in Threads, NEW f, rt' = [rt EXCEPT ![t] = f], KeepsLaunch(rt[t], f)
  PROVE  \A u \in Threads : KeepsLaunch(rt[u], rt'[u])
<1>1. \A u \in Threads : rt'[u] = IF u = t THEN f ELSE rt[u]
  BY DEF FramesOk
<1>2. ASSUME NEW u \in Threads PROVE KeepsLaunch(rt[u], rt[u])
  BY DEF KeepsLaunch
<1>3. QED
  BY <1>1, <1>2

(* A frame that moves on outside a launch launches nothing new.            *)
LEMMA LaunchKeptStage ==
  ASSUME FramesOk, NEW t \in Threads, NEW s \in Stages \ LaunchStages, Stage(t, s)
  PROVE  \A u \in Threads : KeepsLaunch(rt[u], rt'[u])
<1>1. rt[t] \in Frame
  BY DEF FramesOk
<1>2. KeepsLaunch(rt[t], [rt[t] EXCEPT !.stage = s])
  BY <1>1 DEF KeepsLaunch, Frame, LaunchStages
<1>3. QED
  BY <1>2, LaunchKeptSet DEF Stage

(* A call that returns launches nothing.                                   *)
LEMMA LaunchKeptReturn ==
  ASSUME FramesOk, NEW t \in Threads, Returns(t)
  PROVE  \A u \in Threads : KeepsLaunch(rt[u], rt'[u])
<1>1. KeepsLaunch(rt[t], NoFrame)
  BY DEF KeepsLaunch, NoFrame, LaunchStages, None
<1>2. QED
  BY <1>1, LaunchKeptSet DEF Returns

(* A call of another kind that begins launches nothing.                    *)
LEMMA LaunchKeptStart ==
  ASSUME FramesOk, NEW t \in Threads, NEW op, op # "launch", NEW x, Starts(t, op, x)
  PROVE  \A u \in Threads : KeepsLaunch(rt[u], rt'[u])
<1> DEFINE f == [NoFrame EXCEPT !.op = op, !.stage = "ensure", !.x = x, !.reset = \E u \in Threads : rt[u].op = "reset"]
<1>1. KeepsLaunch(rt[t], f)
  BY DEF KeepsLaunch, NoFrame, LaunchStages
<1> HIDE DEF f
<1>2. QED
  BY <1>1, LaunchKeptSet DEF Starts, f

(* No step of the runtime proper touches a launch.                         *)
LEMMA LaunchKeptStep ==
  ASSUME ShimTyped, RtTyped, NEW t \in Threads, RtNext(t)
  PROVE  \A u \in Threads : KeepsLaunch(rt[u], rt'[u])
<1>0. FramesOk /\ rt[t] \in Frame
  BY Typedness
<1>1. ASSUME UNCHANGED rt PROVE \A u \in Threads : KeepsLaunch(rt[u], rt'[u])
  BY <1>1 DEF KeepsLaunch
<1>2. CASE EnsureFast(t) \/ EnsureRetained(t) \/ EnsureSelects(t)
  BY <1>0, <1>2, LaunchKeptStage, LaunchKeptReturn DEF EnsureFast, EnsureRetained, EnsureSelects, Stages, LaunchStages
<1>3. ASSUME NEW s \in {"select", "retain"}, rt' = [rt EXCEPT ![t].stage = s, ![t].gen = gen]
      PROVE  \A u \in Threads : KeepsLaunch(rt[u], rt'[u])
  <2>1. rt' = [rt EXCEPT ![t] = [rt[t] EXCEPT !.stage = s, !.gen = gen]]
    BY <1>0, <1>3 DEF FramesOk
  <2>2. KeepsLaunch(rt[t], [rt[t] EXCEPT !.stage = s, !.gen = gen])
    BY <1>0 DEF KeepsLaunch, Frame, LaunchStages
  <2>3. QED
    BY <1>0, <2>1, <2>2, LaunchKeptSet
<1>4. CASE EnsureFinds(t) \/ EnsureRetains(t)
  BY <1>3, <1>4 DEF EnsureFinds, EnsureRetains
<1>5. CASE Use(t) \/ RunUse(t) \/ (\E d \in program.on : SetDevice(t, d))
  BY <1>0, <1>5, LaunchKeptStart, LaunchKeptReturn DEF Use, RunUse, SetDevice
<1>6. CASE BeginDeviceReset(t)
  <2> DEFINE f == [NoFrame EXCEPT !.op = "reset", !.stage = "release", !.todo = retained]
  <2>1. \A u \in Threads : rt'[u] = IF u = t THEN f ELSE [rt[u] EXCEPT !.reset = rt[u].op # None]
    BY <1>6 DEF BeginDeviceReset
  <2>2. KeepsLaunch(rt[t], f)
    BY DEF KeepsLaunch, NoFrame, LaunchStages
  <2>3. ASSUME NEW u \in Threads PROVE KeepsLaunch(rt[u], [rt[u] EXCEPT !.reset = rt[u].op # None])
    <3>1. rt[u] \in Frame
      BY Typedness
    <3>2. QED
      BY <3>1 DEF KeepsLaunch, Frame
  <2> HIDE DEF f
  <2>4. QED
    BY <2>1, <2>2, <2>3
<1>7. ASSUME NEW d \in program.on, ResetReleases(t, d) PROVE \A u \in Threads : KeepsLaunch(rt[u], rt'[u])
  <2>1. rt' = [rt EXCEPT ![t] = [rt[t] EXCEPT !.stage = "record", !.todo = rt[t].todo \ {d}]]
    BY <1>0, <1>7 DEF ResetReleases, FramesOk
  <2>2. KeepsLaunch(rt[t], [rt[t] EXCEPT !.stage = "record", !.todo = rt[t].todo \ {d}])
    BY <1>0 DEF KeepsLaunch, Frame, LaunchStages
  <2>3. QED
    BY <1>0, <2>1, <2>2, LaunchKeptSet
<1>8. CASE ResetRecords(t) \/ EndDeviceReset(t)
  BY <1>0, <1>8, LaunchKeptStage, LaunchKeptReturn DEF ResetRecords, EndDeviceReset, Stages, LaunchStages
<1>9. CASE (\E op \in {"malloc", "malloc async"} : Malloc(t, op)) \/ RunMalloc(t) \/ ShimNotes(t) \/ NoteAlloc(t)
  BY <1>0, <1>1, <1>9, LaunchKeptStart, LaunchKeptStage, LaunchKeptReturn
     DEF Malloc, RunMalloc, ShimNotes, NoteAlloc, Stages, LaunchStages, rtVars
<1>10. ASSUME NEW a \in Addrs, FreeAsync(t, a) PROVE \A u \in Threads : KeepsLaunch(rt[u], rt'[u])
  <2>1. KeepsLaunch(rt[t], [NoFrame EXCEPT !.op = "free", !.stage = "forget", !.x = a])
    BY DEF KeepsLaunch, NoFrame, LaunchStages
  <2>2. QED
    BY <1>0, <1>10, <2>1, LaunchKeptSet DEF FreeAsync
<1>11. CASE (\E a \in Addrs : Free(t, a)) \/ ShimForgets(t) \/ RunFree(t) \/ ForgetAlloc(t)
  BY <1>0, <1>1, <1>11, LaunchKeptStart, LaunchKeptStage, LaunchKeptReturn
     DEF Free, ShimForgets, RunFree, ForgetAlloc, Stages, LaunchStages, rtVars
<1>12. CASE \/ \E d \in program.on : \/ AppRetain(t, d) \/ AppRelease(t, d) \/ AppReset(t, d) \/ AppState(t, d)
                                     \/ \E f \in Flags : AppSetFlags(t, d, f)
            \/ AppRetained(t) \/ AppRecords(t)
  BY <1>1, <1>12 DEF AppRetain, AppRelease, AppReset, AppState, AppSetFlags, AppRetained, AppRecords, rtVars
<1>13. QED
  BY <1>2, <1>4, <1>5, <1>6, <1>7, <1>8, <1>9, <1>10, <1>11, <1>12 DEF RtNext

(* Every step of the runtime keeps its types.                              *)
LEMMA RuntimeTypes ==
  ASSUME ShimTyped, RtTyped, NEW t \in Threads, RtNext(t)
  PROVE  ShimTyped' /\ RtTyped'
<1>1. program.on \subseteq Devices
  BY RuntimeAssumption DEF RtTyped
<1>2. CASE EnsureFast(t) \/ EnsureFinds(t) \/ EnsureRetains(t) \/ EnsureRetained(t) \/ EnsureSelects(t)
  BY <1>2, EnsureTypes
<1>3. CASE Use(t) \/ RunUse(t) \/ \E d \in program.on : SetDevice(t, d)
  BY <1>1, <1>3, UseTypes
<1>4. CASE BeginDeviceReset(t) \/ (\E d \in program.on : ResetReleases(t, d)) \/ ResetRecords(t) \/ EndDeviceReset(t)
  BY <1>1, <1>4, ResetTypes
<1>5. CASE (\E op \in {"malloc", "malloc async"} : Malloc(t, op)) \/ RunMalloc(t) \/ ShimNotes(t) \/ NoteAlloc(t)
  BY <1>5, MallocTypes
<1>6. CASE (\E a \in Addrs : Free(t, a) \/ FreeAsync(t, a)) \/ ShimForgets(t) \/ RunFree(t) \/ ForgetAlloc(t)
  BY <1>6, FreeTypes
<1>7. CASE \/ \E d \in program.on : \/ AppRetain(t, d) \/ AppRelease(t, d) \/ AppReset(t, d) \/ AppState(t, d)
                                    \/ \E f \in Flags : AppSetFlags(t, d, f)
           \/ AppRetained(t) \/ AppRecords(t)
  BY <1>1, <1>7, AppTypes
<1>8. QED
  BY <1>2, <1>3, <1>4, <1>5, <1>6, <1>7 DEF RtNext

-----------------------------------------------------------------------------
(* Kernels.  A module is sent only when it was not tried; the function it  *)
(* was loaded as is its kernel's while it is registered; a layout on       *)
(* record is of the kernel whose function it is, unless the handle was     *)
(* given out before; and a launch has the function of its kernel.          *)
ShipInv == \A k \in Kernels : shipped[k] <= 1 /\ (~reg[k].tried => shipped[k] = 0)

LoadedTrue(R, F)     == \A k \in Kernels : R[k].on /\ R[k].loaded # NoFn => F[R[k].loaded] = k
FoundTrue(R)         == \A k \in Kernels : R[k].fn # NoFn => R[k].fn = R[k].loaded
LayoutsTrue(L, F, N) == \A f \in Fns : L[f] # None /\ F[f] # NoCode /\ f \notin N => L[f] = F[f]
FrameFits(f, R, N) ==
  /\ f.stage \in {"pack", "layout", "launch"} => f.fn = R[f.x].loaded
  /\ f.stage = "layout" => f.slots = f.x
  /\ f.stage = "launch" => f.slots = f.x \/ f.fn \in N
FnInv ==
  /\ LoadedTrue(reg, fns) /\ FoundTrue(reg) /\ LayoutsTrue(layouts, fns, renamed)
  /\ \A t \in Threads : FrameFits(rt[t], reg, renamed)
KernelInv == LaunchInv /\ ShipInv /\ FnInv

(* LaunchInv, of one frame.                                                *)
LaunchFits(t, f, R, mu) ==
  /\ f.op = "launch" => R[f.x].on
  /\ f.stage = "get function" => f.op = "launch" /\ mu = t /\ R[f.x].loaded # NoFn
  /\ f.stage \in {"pack", "layout", "launch"} => f.op = "launch" /\ f.fn \in Fns

(* The launches, thread by thread, in a state and in the next.             *)
LEMMA LaunchParts ==
  /\ LaunchInv <=> \A t \in Threads : LaunchFits(t, rt[t], reg, reg_mu)
  /\ LaunchInv' <=> \A t \in Threads : LaunchFits(t, rt'[t], reg', reg_mu')
  BY DEF LaunchInv, LaunchFits, Resolving, KernelOf, FnOf

(* What is known of the functions, part by part, in the next state.        *)
LEMMA FnParts ==
  FnInv' <=> /\ LoadedTrue(reg', fns') /\ FoundTrue(reg') /\ LayoutsTrue(layouts', fns', renamed')
             /\ \A t \in Threads : FrameFits(rt'[t], reg', renamed')
  BY DEF FnInv, LoadedTrue, FoundTrue, LayoutsTrue, FrameFits

(* The runtime's own steps leave launches where they are.                  *)
LEMMA KernelLeft ==
  ASSUME TypeInv, FnInv, ShipInv, NEW t \in Threads, RtNext(t), UNCHANGED kernelVars
  PROVE  KernelInv'
<1>1. \A u \in Threads : KeepsLaunch(rt[u], rt'[u])
  BY LaunchKeptStep DEF TypeInv
<1>2. ShipInv'
  BY DEF kernelVars, ShipInv
<1>3. ASSUME NEW u \in Threads PROVE LaunchFits(u, rt'[u], reg, reg_mu) /\ FrameFits(rt'[u], reg, renamed)
  <2>1. LaunchFits(u, rt[u], reg, reg_mu) /\ FrameFits(rt[u], reg, renamed) /\ KeepsLaunch(rt[u], rt'[u])
    BY <1>1, LaunchParts DEF TypeInv, FnInv
  <2>2. QED
    BY <2>1 DEF LaunchFits, FrameFits, KeepsLaunch, LaunchStages
<1>4. UNCHANGED <<reg, reg_mu, layouts, fns, renamed>>
  BY DEF kernelVars
<1>5. QED
  BY <1>2, <1>3, <1>4, LaunchParts, FnParts DEF KernelInv, FnInv

(* A step that changes one thread's frame, and of kernels nothing.         *)
LEMMA KernelFrame ==
  ASSUME TypeInv, FnInv, ShipInv, NEW t \in Threads, NEW f, rt' = [rt EXCEPT ![t] = f], UNCHANGED kernelVars,
         LaunchFits(t, f, reg, reg_mu), FrameFits(f, reg, renamed)
  PROVE  KernelInv'
<1>1. \A u \in Threads : rt'[u] = IF u = t THEN f ELSE rt[u]
  BY DEF TypeInv, RtTyped
<1>2. ShipInv'
  BY DEF kernelVars, ShipInv
<1>3. \A u \in Threads : LaunchFits(u, rt'[u], reg, reg_mu) /\ FrameFits(rt'[u], reg, renamed)
  BY <1>1, LaunchParts DEF TypeInv, FnInv
<1>4. UNCHANGED <<reg, reg_mu, layouts, fns, renamed>>
  BY DEF kernelVars
<1>5. QED
  BY <1>2, <1>3, <1>4, LaunchParts, FnParts DEF KernelInv, FnInv

(* Registration: of a kernel that is not registered, so that no thread     *)
(* launches it.                                                            *)
LEMMA RegisterKeeps ==
  ASSUME TypeInv, FnInv, ShipInv, NEW t \in Threads, NEW k \in Kernels, Register(t, k)
  PROVE  KernelInv'
<1>1. /\ ~reg[k].on /\ UNCHANGED <<rt, reg_mu, layouts, fns, renamed>>
      /\ reg' = [reg EXCEPT ![k] = Registered(k)] /\ shipped' = [shipped EXCEPT ![k] = 0]
  BY DEF Register, rtVars
<1>2. /\ Registered(k).on /\ ~Registered(k).tried /\ Registered(k).loaded = NoFn /\ Registered(k).fn = NoFn
  BY DEF Registered, NotRegistered
<1>3. \A j \in Kernels : reg'[j] = IF j = k THEN Registered(k) ELSE reg[j]
  BY <1>1 DEF TypeInv, KernelTyped
<1>4. ShipInv'
  BY <1>1, <1>2, <1>3 DEF ShipInv, TypeInv, KernelTyped
<1>5. ASSUME NEW u \in Threads, rt[u].op = "launch" PROVE reg'[rt[u].x] = reg[rt[u].x]
  BY <1>1, <1>3, <1>5 DEF TypeInv, RtTyped, LaunchInv, Resolving, KernelOf
<1>6. \A u \in Threads : LaunchFits(u, rt[u], reg, reg_mu) /\ FrameFits(rt[u], reg, renamed)
  BY LaunchParts DEF TypeInv, FnInv
<1>7. \A u \in Threads : LaunchFits(u, rt[u], reg', reg_mu) /\ FrameFits(rt[u], reg', renamed)
  BY <1>5, <1>6 DEF LaunchFits, FrameFits
<1>8. LoadedTrue(reg', fns) /\ FoundTrue(reg')
  BY <1>2, <1>3 DEF FnInv, LoadedTrue, FoundTrue
<1>9. QED
  BY <1>1, <1>4, <1>7, <1>8, LaunchParts, FnParts DEF KernelInv, FnInv

(* A library that is unloaded: no launch is of its kernels, and a handle   *)
(* that is given back was only theirs.                                     *)
LEMMA UnregisterKeeps ==
  ASSUME TypeInv, FnInv, ShipInv, NEW t \in Threads, NEW k \in Kernels, Unregister(t, k)
  PROVE  KernelInv'
<1>1. /\ reg[k].on /\ UNCHANGED <<rt, reg_mu, layouts, shipped, renamed>>
      /\ \A u \in Threads : Resolving(u) => KernelOf(u) # k
      /\ reg' = [reg EXCEPT ![k].on = FALSE]
      /\ fns' = fns \/ (reg[k].loaded # NoFn /\ fns' = [fns EXCEPT ![reg[k].loaded] = NoCode])
  BY DEF Unregister, rtVars
<1>2. \A j \in Kernels : reg[j] \in RegRec /\ reg[j].loaded \in Fns \union {NoFn}
  BY RegFields DEF TypeInv, KernelTyped
<1>3. \A j \in Kernels : /\ reg'[j].on <=> reg[j].on /\ j # k
                         /\ reg'[j].tried = reg[j].tried /\ reg'[j].loaded = reg[j].loaded /\ reg'[j].fn = reg[j].fn
  BY <1>1, <1>2 DEF TypeInv, KernelTyped, RegRec
<1>4. ShipInv'
  BY <1>1, <1>3 DEF ShipInv
<1>5. ASSUME NEW u \in Threads, rt[u].op = "launch"
      PROVE  (reg'[rt[u].x].on <=> reg[rt[u].x].on) /\ reg'[rt[u].x].loaded = reg[rt[u].x].loaded
  BY <1>1, <1>3, <1>5 DEF TypeInv, RtTyped, Resolving, KernelOf
<1>6. \A u \in Threads : LaunchFits(u, rt[u], reg, reg_mu) /\ FrameFits(rt[u], reg, renamed)
  BY LaunchParts DEF TypeInv, FnInv
<1>7. \A u \in Threads : LaunchFits(u, rt[u], reg', reg_mu) /\ FrameFits(rt[u], reg', renamed)
  BY <1>5, <1>6 DEF LaunchFits, FrameFits
<1>8. \A f \in Fns : fns'[f] = fns[f] \/ (f = reg[k].loaded /\ fns'[f] = NoCode)
  BY <1>1, <1>2 DEF TypeInv, KernelTyped
<1>9. LoadedTrue(reg', fns')
  <2> SUFFICES ASSUME NEW j \in Kernels, reg'[j].on, reg'[j].loaded # NoFn PROVE fns'[reg'[j].loaded] = j
    BY DEF LoadedTrue
  <2>1. j # k /\ reg[j].on /\ reg'[j].loaded = reg[j].loaded /\ reg[j].loaded # NoFn
    BY <1>3
  <2>2. reg[j].loaded \in Fns /\ fns[reg[j].loaded] = j
    BY <1>2, <2>1 DEF FnInv, LoadedTrue
  <2>3. reg[j].loaded # reg[k].loaded
    BY <1>1, <2>1, <2>2 DEF FnInv, LoadedTrue
  <2>4. QED
    BY <1>8, <2>1, <2>2, <2>3
<1>10. FoundTrue(reg')
  BY <1>3 DEF FnInv, FoundTrue
<1>11. LayoutsTrue(layouts, fns', renamed)
  BY <1>8 DEF FnInv, LayoutsTrue
<1>12. QED
  BY <1>1, <1>4, <1>7, <1>9, <1>10, <1>11, LaunchParts, FnParts DEF KernelInv

(* The first launch of a kernel sends its module, under the lock of the    *)
(* registry; the handle it comes back with is free.                        *)
LEMMA ShipsKeeps ==
  ASSUME TypeInv, FnInv, ShipInv, NEW t \in Threads, ResolveShips(t)
  PROVE  KernelInv'
<1> DEFINE k == KernelOf(t)
<1>0. None \notin Threads /\ NoCode \notin Kernels /\ NoFn \notin Fns
  BY DriverShimAssumption, KernelRegistryAssumption DEF NoCode, NoFn, None
<1>1. /\ rt[t].op = "launch" /\ rt[t].stage = "run" /\ reg_mu = None /\ k \in Kernels /\ rt[t] \in Frame
      /\ reg[k].loaded = NoFn /\ ~reg[k].tried /\ reg[k] \in RegRec /\ reg[k].fn = NoFn /\ reg[k].on
  <2>1. rt[t].op = "launch" /\ rt[t].stage = "run" /\ reg_mu = None /\ k \in Kernels /\ rt[t] \in Frame
    BY DEF ResolveShips, TypeInv, RtTyped, Resolving, KernelOf
  <2>2. reg[k].on
    BY <2>1 DEF TypeInv, LaunchInv, Resolving
  <2>3. QED
    BY <2>1, <2>2 DEF ResolveShips, MayShip, TypeInv, KernelTyped
<1>2. shipped' = [shipped EXCEPT ![k] = shipped[k] + 1] /\ layouts' = layouts
  BY DEF ResolveShips
<1> HIDE DEF k
<1>3. \A u \in Threads : LaunchFits(u, rt[u], reg, None) /\ FrameFits(rt[u], reg, renamed)
  BY <1>1, LaunchParts DEF TypeInv, FnInv
<1>4. ASSUME NEW u \in Threads, rt[u].op = "launch" PROVE rt[u].x \in Kernels
  BY <1>4 DEF TypeInv, RtTyped
<1>5. ASSUME NEW r \in RegRec, reg' = [reg EXCEPT ![k] = r], r.tried PROVE ShipInv'
  <2>1. \A j \in Kernels : reg'[j] = IF j = k THEN r ELSE reg[j]
    BY <1>1, <1>5 DEF TypeInv, KernelTyped
  <2>2. \A j \in Kernels : shipped'[j] = IF j = k THEN shipped[k] + 1 ELSE shipped[j]
    BY <1>1, <1>2 DEF TypeInv, KernelTyped
  <2>3. shipped[k] = 0
    BY <1>1 DEF ShipInv
  <2>4. QED
    BY <1>1, <1>5, <2>1, <2>2, <2>3 DEF ShipInv
<1>6. ASSUME NEW r \in RegRec, reg' = [reg EXCEPT ![k] = r], r.on, r.fn = NoFn,
             NEW f, NEW mu, rt' = [rt EXCEPT ![t] = f], reg_mu' = mu, mu \in {None, t},
             renamed \subseteq renamed',
             LaunchFits(t, f, reg', mu), FrameFits(f, reg', renamed'),
             LoadedTrue(reg', fns'), LayoutsTrue(layouts, fns', renamed'), r.tried
      PROVE  KernelInv'
  <2>1. \A j \in Kernels : reg'[j] = IF j = k THEN r ELSE reg[j]
    BY <1>1, <1>6 DEF TypeInv, KernelTyped
  <2>2. \A u \in Threads : rt'[u] = IF u = t THEN f ELSE rt[u]
    BY <1>6 DEF TypeInv, RtTyped
  <2>3. FoundTrue(reg')
    BY <1>1, <1>6, <2>1 DEF FnInv, FoundTrue
  <2>4. ASSUME NEW u \in Threads, u # t PROVE LaunchFits(u, rt[u], reg', mu) /\ FrameFits(rt[u], reg', renamed')
    <3>1. LaunchFits(u, rt[u], reg, None) /\ FrameFits(rt[u], reg, renamed)
      BY <1>3
    <3>2. rt[u].stage # "get function"
      BY <1>0, <3>1 DEF LaunchFits
    <3>3. rt[u].op = "launch" => rt[u].x \in Kernels /\ reg'[rt[u].x].on
      BY <1>4, <1>6, <2>1, <3>1 DEF LaunchFits
    <3>4. rt[u].stage \in {"pack", "layout", "launch"} => reg'[rt[u].x].loaded = reg[rt[u].x].loaded
      <4>1. CASE rt[u].stage \in {"pack", "layout", "launch"} /\ rt[u].x = k
        BY <1>0, <1>1, <3>1, <4>1 DEF LaunchFits, FrameFits
      <4>2. CASE rt[u].stage \in {"pack", "layout", "launch"} /\ rt[u].x # k
        BY <1>4, <2>1, <3>1, <4>2 DEF LaunchFits
      <4>3. QED
        BY <4>1, <4>2
    <3>5. QED
      BY <1>6, <3>1, <3>2, <3>3, <3>4 DEF LaunchFits, FrameFits
  <2>5. QED
    BY <1>2, <1>5, <1>6, <2>2, <2>3, <2>4, LaunchParts, FnParts DEF KernelInv
<1>7. reg \in [Kernels -> RegRec] /\ rt \in [Threads -> Frame] /\ fns \in [Fns -> Kernels \union {NoCode}]
  BY DEF TypeInv, KernelTyped, RtTyped
<1>8. ASSUME NEW f \in Fns, NEW o \in Outcomes, o.ran, fns[f] = NoCode,
             fns' = [fns EXCEPT ![f] = k],
             renamed' = IF layouts[f] = None THEN renamed ELSE renamed \cup {f},
             reg' = [reg EXCEPT ![k].tried = TRUE, ![k].loaded = IF o.r = "ok" THEN f ELSE NoFn],
             IF o.r = "ok" THEN reg_mu' = t /\ Stage(t, "get function") ELSE UNCHANGED reg_mu /\ Returns(t)
      PROVE  KernelInv'
  <2> DEFINE r == [reg[k] EXCEPT !.tried = TRUE, !.loaded = IF o.r = "ok" THEN f ELSE NoFn]
             g == IF o.r = "ok" THEN [rt[t] EXCEPT !.stage = "get function"] ELSE NoFrame
             mu == IF o.r = "ok" THEN t ELSE None
  <2>1. reg' = [reg EXCEPT ![k] = r]
    BY <1>1, <1>7, <1>8
  <2>2. r \in RegRec
    BY <1>1, RegFields
  <2>3. r.on /\ r.tried /\ r.fn = NoFn /\ r.loaded = IF o.r = "ok" THEN f ELSE NoFn
    BY <1>1 DEF RegRec
  <2>4. rt' = [rt EXCEPT ![t] = g] /\ reg_mu' = mu
    BY <1>1, <1>8 DEF Stage, Returns
  <2>5. /\ o.r = "ok" => g.op = "launch" /\ g.x = k /\ g.stage = "get function"
        /\ o.r # "ok" => g.op = None /\ g.stage = None
    BY <1>1 DEF Frame, NoFrame, k, KernelOf
  <2> HIDE DEF r, g
  <2>6. reg'[k] = r /\ \A j \in Kernels \ {k} : reg'[j] = reg[j]
    BY <1>1, <1>7, <2>1
  <2>7. LaunchFits(t, g, reg', mu) /\ FrameFits(g, reg', renamed')
    BY <1>0, <2>3, <2>5, <2>6 DEF LaunchFits, FrameFits, None
  <2>8. LoadedTrue(reg', fns')
    <3> SUFFICES ASSUME NEW j \in Kernels, reg'[j].on, reg'[j].loaded # NoFn PROVE fns'[reg'[j].loaded] = j
      BY DEF LoadedTrue
    <3>1. CASE j = k
      BY <1>7, <1>8, <2>3, <2>6, <3>1
    <3>2. CASE j # k
      <4>1. reg[j] \in RegRec /\ reg[j].loaded # NoFn /\ fns[reg[j].loaded] = j
        BY <1>7, <2>6, <3>2 DEF FnInv, LoadedTrue
      <4>2. reg[j].loaded \in Fns /\ reg[j].loaded # f
        BY <1>0, <1>8, <4>1, RegFields
      <4>3. QED
        BY <1>7, <1>8, <2>6, <3>2, <4>1, <4>2
    <3>3. QED
      BY <3>1, <3>2
  <2>9. LayoutsTrue(layouts, fns', renamed')
    BY <1>7, <1>8 DEF FnInv, LayoutsTrue
  <2>10. renamed \subseteq renamed' /\ mu \in {None, t}
    BY <1>8
  <2> HIDE DEF mu
  <2>11. QED
    BY <1>6, <2>1, <2>2, <2>3, <2>4, <2>7, <2>8, <2>9, <2>10
<1>9. ASSUME reg' = [reg EXCEPT ![k].tried = TRUE], Returns(t), UNCHANGED <<reg_mu, fns, renamed>>
      PROVE  KernelInv'
  <2> DEFINE r == [reg[k] EXCEPT !.tried = TRUE]
  <2>1. reg' = [reg EXCEPT ![k] = r]
    BY <1>1, <1>7, <1>9
  <2>2. r \in RegRec
    BY <1>1, RegFields
  <2>3. r.on /\ r.tried /\ r.fn = NoFn /\ r.loaded = NoFn
    BY <1>1 DEF RegRec
  <2> HIDE DEF r
  <2>4. reg'[k] = r /\ \A j \in Kernels \ {k} : reg'[j] = reg[j]
    BY <1>1, <1>7, <2>1
  <2>5. LaunchFits(t, NoFrame, reg', None) /\ FrameFits(NoFrame, reg', renamed')
    BY DEF LaunchFits, FrameFits, NoFrame, None
  <2>6. LoadedTrue(reg', fns') /\ LayoutsTrue(layouts, fns', renamed')
    BY <1>9, <2>3, <2>4 DEF FnInv, LoadedTrue, LayoutsTrue
  <2>7. rt' = [rt EXCEPT ![t] = NoFrame] /\ reg_mu' = None
    BY <1>1, <1>9 DEF Returns
  <2>8. QED
    BY <1>6, <1>9, <2>1, <2>2, <2>3, <2>5, <2>6, <2>7
<1>10. QED
  BY <1>8, <1>9 DEF ResolveShips, k

(* cuModuleGetFunction: the function is the module's.                      *)
LEMMA GetsKeeps ==
  ASSUME TypeInv, FnInv, ShipInv, NEW t \in Threads, GetFunction(t)
  PROVE  KernelInv'
<1> DEFINE k == KernelOf(t)
<1>0. None \notin Threads
  BY DriverShimAssumption
<1>1. /\ rt[t].op = "launch" /\ reg_mu = t /\ k \in Kernels /\ rt[t] \in Frame /\ k = rt[t].x
      /\ reg[k].loaded # NoFn /\ reg[k] \in RegRec /\ reg[k].on /\ reg[k].loaded \in Fns
  <2>1. rt[t].op = "launch" /\ reg_mu = t /\ k \in Kernels /\ rt[t] \in Frame /\ reg[k].loaded # NoFn /\ k = rt[t].x
    BY DEF GetFunction, TypeInv, LaunchInv, RtTyped, Resolving, KernelOf
  <2>2. reg[k].on /\ reg[k] \in RegRec
    BY <2>1 DEF TypeInv, LaunchInv, Resolving, KernelTyped
  <2>3. QED
    BY <2>1, <2>2, RegFields
<1>2. UNCHANGED <<layouts, fns, shipped, renamed>> /\ reg_mu' = None
  BY DEF GetFunction
<1>3. PICK f : /\ rt' = [rt EXCEPT ![t] = f]
               /\ f = NoFrame \/ (f.op = "launch" /\ f.stage = "pack" /\ f.x = k /\ f.fn = reg[k].loaded)
  <2>1. Returns(t) \/ rt' = [rt EXCEPT ![t] = [rt[t] EXCEPT !.stage = "pack", !.fn = reg[k].loaded]]
    BY DEF GetFunction, Resolved, TypeInv, RtTyped
  <2> DEFINE g == [rt[t] EXCEPT !.stage = "pack", !.fn = reg[k].loaded]
  <2>2. g.op = "launch" /\ g.stage = "pack" /\ g.x = k /\ g.fn = reg[k].loaded
    BY <1>1 DEF Frame
  <2> HIDE DEF g, k
  <2>3. CASE Returns(t)
    BY <2>3 DEF Returns
  <2>4. CASE rt' = [rt EXCEPT ![t] = g]
    BY <2>2, <2>4
  <2>5. QED
    BY <2>1, <2>3, <2>4 DEF g
<1>4. reg' = reg \/ reg' = [reg EXCEPT ![k].fn = reg[k].loaded]
  BY DEF GetFunction
<1> HIDE DEF k
<1>5. /\ \A j \in Kernels : /\ (reg'[j].on <=> reg[j].on) /\ (reg'[j].tried <=> reg[j].tried)
                            /\ reg'[j].loaded = reg[j].loaded
                            /\ reg'[j].fn = reg[j].fn \/ (j = k /\ reg'[j].fn = reg[j].loaded)
  <2>1. reg \in [Kernels -> RegRec]
    BY DEF TypeInv, KernelTyped
  <2>2. QED
    BY <1>1, <1>4, <2>1 DEF RegRec
<1>6. ShipInv'
  BY <1>2, <1>5 DEF ShipInv
<1>7. \A u \in Threads : rt'[u] = IF u = t THEN f ELSE rt[u]
  BY <1>3 DEF TypeInv, RtTyped
<1>8. ASSUME NEW u \in Threads, u # t PROVE LaunchFits(u, rt[u], reg', None) /\ FrameFits(rt[u], reg', renamed)
  <2>1. LaunchFits(u, rt[u], reg, t) /\ FrameFits(rt[u], reg, renamed)
    BY <1>1, LaunchParts DEF TypeInv, FnInv
  <2>2. rt[u].op = "launch" => rt[u].x \in Kernels
    BY DEF TypeInv, RtTyped
  <2>3. QED
    BY <1>5, <1>8, <2>1, <2>2 DEF LaunchFits, FrameFits
<1>9. LaunchFits(t, f, reg', None) /\ FrameFits(f, reg', renamed)
  <2>1. CASE f = NoFrame
    BY <2>1 DEF LaunchFits, FrameFits, NoFrame, None
  <2>2. CASE f # NoFrame
    BY <1>1, <1>3, <1>5, <2>2 DEF LaunchFits, FrameFits
  <2>3. QED
    BY <2>1, <2>2
<1>10. LoadedTrue(reg', fns) /\ FoundTrue(reg') /\ LayoutsTrue(layouts, fns, renamed)
  BY <1>5 DEF FnInv, LoadedTrue, FoundTrue, LayoutsTrue
<1>11. QED
  BY <1>2, <1>6, <1>7, <1>8, <1>9, <1>10, LaunchParts, FnParts DEF KernelInv

(* Every other step about kernels: a launch moves on, or its layout is     *)
(* recorded.                                                               *)
LEMMA ResolvedKeeps ==
  ASSUME TypeInv, FnInv, ShipInv, NEW t \in Threads, ResolveKnown(t) \/ ResolveLoaded(t)
  PROVE  KernelInv'
<1> DEFINE k == KernelOf(t)
<1>0. None \notin Threads
  BY DriverShimAssumption
<1>1. /\ rt[t].op = "launch" /\ reg_mu = None /\ k \in Kernels /\ rt[t] \in Frame /\ k = rt[t].x /\ reg[k].on
      /\ reg[k] \in RegRec
  <2>1. rt[t].op = "launch" /\ reg_mu = None /\ k \in Kernels /\ rt[t] \in Frame /\ k = rt[t].x
    BY DEF ResolveKnown, ResolveLoaded, TypeInv, RtTyped, Resolving, KernelOf
  <2>2. QED
    BY <2>1 DEF TypeInv, LaunchInv, Resolving, KernelTyped
<1>2. CASE ResolveKnown(t)
  <2> DEFINE g == [rt[t] EXCEPT !.stage = "pack", !.fn = reg[k].fn]
  <2>1. rt' = [rt EXCEPT ![t] = g] /\ UNCHANGED kernelVars
    BY <1>2 DEF ResolveKnown, Resolved, TypeInv, RtTyped
  <2>2. g.op = "launch" /\ g.stage = "pack" /\ g.x = k /\ g.fn = reg[k].fn
    BY <1>1 DEF Frame
  <2>3. reg[k].fn \in Fns /\ reg[k].fn = reg[k].loaded
    BY <1>1, <1>2, RegFields DEF ResolveKnown, FnInv, FoundTrue, k
  <2> HIDE DEF g, k
  <2>4. LaunchFits(t, g, reg, reg_mu) /\ FrameFits(g, reg, renamed)
    BY <1>1, <2>2, <2>3 DEF LaunchFits, FrameFits
  <2>5. QED
    BY <2>1, <2>4, KernelFrame
<1>3. CASE ResolveLoaded(t)
  <2> DEFINE g == [rt[t] EXCEPT !.stage = "get function"]
  <2>1. rt' = [rt EXCEPT ![t] = g] /\ reg_mu' = t /\ UNCHANGED <<reg, layouts, fns, shipped, renamed>>
    BY <1>3 DEF ResolveLoaded, Stage
  <2>2. g.op = "launch" /\ g.stage = "get function" /\ g.x = k
    BY <1>1 DEF Frame
  <2>3. reg[k].loaded # NoFn
    BY <1>3 DEF ResolveLoaded, k
  <2> HIDE DEF g, k
  <2>4. LaunchFits(t, g, reg, t) /\ FrameFits(g, reg, renamed)
    BY <1>1, <2>2, <2>3 DEF LaunchFits, FrameFits
  <2>5. \A u \in Threads : rt'[u] = IF u = t THEN g ELSE rt[u]
    BY <2>1 DEF TypeInv, RtTyped
  <2>6. ASSUME NEW u \in Threads, u # t PROVE LaunchFits(u, rt[u], reg, t) /\ FrameFits(rt[u], reg, renamed)
    <3>1. LaunchFits(u, rt[u], reg, None) /\ FrameFits(rt[u], reg, renamed)
      BY <1>1, LaunchParts DEF TypeInv, FnInv
    <3>2. QED
      BY <1>0, <3>1 DEF LaunchFits
  <2>7. ShipInv'
    BY <2>1 DEF ShipInv
  <2>8. QED
    BY <2>1, <2>4, <2>5, <2>6, <2>7, LaunchParts, FnParts DEF KernelInv, FnInv
<1>4. QED
  BY <1>2, <1>3

(* Packing keeps what is known: a layout is put on record for the function *)
(* it was fetched of.                                                      *)
LEMMA PacksKeep ==
  ASSUME TypeInv, FnInv, ShipInv, NEW t \in Threads, PackKnown(t) \/ PackAsks(t) \/ RecordLayout(t)
  PROVE  KernelInv'
<1> DEFINE k == KernelOf(t)
           f == FnOf(t)
<1>1. /\ rt[t].op = "launch" /\ k \in Kernels /\ rt[t] \in Frame /\ k = rt[t].x /\ reg[k].on /\ f = rt[t].fn
      /\ f \in Fns /\ f = reg[k].loaded /\ fns[f] = k /\ f # NoFn
  <2>1. rt[t].stage \in {"pack", "layout"} /\ f = rt[t].fn /\ k = rt[t].x
    BY DEF PackKnown, PackAsks, RecordLayout, FnOf, KernelOf
  <2>2. LaunchFits(t, rt[t], reg, reg_mu) /\ FrameFits(rt[t], reg, renamed) /\ rt[t] \in Frame
    BY LaunchParts DEF TypeInv, FnInv, RtTyped
  <2>3. rt[t].op = "launch" /\ reg[k].on /\ f \in Fns /\ f = reg[k].loaded
    BY <2>1, <2>2 DEF LaunchFits, FrameFits
  <2>4. k \in Kernels
    BY <2>1, <2>3 DEF TypeInv, RtTyped
  <2>5. f # NoFn
    BY <2>3, KernelRegistryAssumption DEF NoFn, None
  <2>6. QED
    BY <2>1, <2>2, <2>3, <2>4, <2>5 DEF FnInv, LoadedTrue
<1>2. k # NoCode /\ k # None
  BY <1>1, KernelRegistryAssumption DEF NoCode, None
<1>3. ASSUME NEW s \in {"layout", "launch"}, NEW j, rt' = [rt EXCEPT ![t].stage = s, ![t].slots = j],
             j = k \/ (s = "launch" /\ f \in renamed)
      PROVE  \E g : rt' = [rt EXCEPT ![t] = g] /\ LaunchFits(t, g, reg, reg_mu) /\ FrameFits(g, reg, renamed)
  <2> DEFINE g == [rt[t] EXCEPT !.stage = s, !.slots = j]
  <2>1. rt' = [rt EXCEPT ![t] = g]
    BY <1>3 DEF TypeInv, RtTyped
  <2>2. g.op = "launch" /\ g.stage = s /\ g.x = k /\ g.fn = f /\ g.slots = j
    BY <1>1 DEF Frame
  <2> HIDE DEF g, k, f
  <2>3. LaunchFits(t, g, reg, reg_mu) /\ FrameFits(g, reg, renamed)
    BY <1>1, <1>3, <2>2 DEF LaunchFits, FrameFits
  <2>4. QED
    BY <2>1, <2>3
<1> HIDE DEF k, f
<1>4. CASE PackKnown(t)
  <2>1. layouts[f] = k \/ f \in renamed
    BY <1>1, <1>2, <1>4 DEF PackKnown, FnInv, LayoutsTrue, f
  <2>2. UNCHANGED kernelVars /\ rt' = [rt EXCEPT ![t].stage = "launch", ![t].slots = layouts[f]]
    BY <1>4 DEF PackKnown, Packs, f
  <2>3. QED
    BY <1>3, <2>1, <2>2, KernelFrame
<1>5. CASE PackAsks(t)
  <2>1. CASE rt' = [rt EXCEPT ![t].stage = "layout", ![t].slots = fns[f]]
    <3>1. UNCHANGED kernelVars
      BY <1>5 DEF PackAsks
    <3>2. QED
      BY <1>1, <1>3, <2>1, <3>1, KernelFrame
  <2>2. CASE Returns(t)
    <3>1. LaunchFits(t, NoFrame, reg, reg_mu) /\ FrameFits(NoFrame, reg, renamed)
      BY DEF LaunchFits, FrameFits, NoFrame, None
    <3>2. QED
      BY <1>5, <2>2, <3>1, KernelFrame DEF PackAsks, Returns
  <2>3. QED
    BY <1>5, <2>1, <2>2 DEF PackAsks, f
<1>6. CASE RecordLayout(t)
  <2>1. rt[t].slots = k
    BY <1>6 DEF RecordLayout, FnInv, FrameFits, k, KernelOf
  <2>2. PICK g : rt' = [rt EXCEPT ![t] = g] /\ LaunchFits(t, g, reg, reg_mu) /\ FrameFits(g, reg, renamed)
    BY <1>3, <1>6, <2>1 DEF RecordLayout, Packs
  <2>3. layouts' = [layouts EXCEPT ![f] = k] /\ UNCHANGED <<reg, reg_mu, fns, shipped, renamed>>
    BY <1>6, <2>1 DEF RecordLayout, f
  <2>4. LayoutsTrue(layouts', fns, renamed)
    BY <1>1, <2>3 DEF LayoutsTrue, FnInv, TypeInv, KernelTyped
  <2>5. \A u \in Threads : rt'[u] = IF u = t THEN g ELSE rt[u]
    BY <2>2 DEF TypeInv, RtTyped
  <2>6. \A u \in Threads : LaunchFits(u, rt'[u], reg, reg_mu) /\ FrameFits(rt'[u], reg, renamed)
    BY <2>2, <2>5, LaunchParts DEF TypeInv, FnInv
  <2>7. ShipInv'
    BY <2>3 DEF ShipInv
  <2>8. QED
    BY <2>3, <2>4, <2>6, <2>7, LaunchParts, FnParts DEF KernelInv, FnInv
<1>7. QED
  BY <1>4, <1>5, <1>6

(* Every step of a launch, and of a registration, keeps what is known of   *)
(* the kernels.                                                            *)
LEMMA KernelKeeps ==
  ASSUME TypeInv, FnInv, ShipInv, NEW t \in Threads, KernelNext(t)
  PROVE  KernelInv'
<1>1. ASSUME Returns(t), UNCHANGED kernelVars PROVE KernelInv'
  <2>1. LaunchFits(t, NoFrame, reg, reg_mu) /\ FrameFits(NoFrame, reg, renamed)
    BY DEF LaunchFits, FrameFits, NoFrame, None
  <2>2. QED
    BY <1>1, <2>1, KernelFrame DEF Returns
<1>2. ASSUME NEW k \in Kernels, Launch(t, k) PROVE KernelInv'
  <2> DEFINE b == \E u \in Threads : rt[u].op = "reset"
             g == [NoFrame EXCEPT !.op = "launch", !.stage = "ensure", !.x = k, !.reset = b]
  <2>1. rt' = [rt EXCEPT ![t] = g] /\ UNCHANGED kernelVars /\ reg[k].on
    BY <1>2 DEF Launch, Starts
  <2>2. g.op = "launch" /\ g.stage = "ensure" /\ g.x = k
    BY DEF NoFrame
  <2> HIDE DEF g
  <2>3. LaunchFits(t, g, reg, reg_mu) /\ FrameFits(g, reg, renamed)
    BY <2>1, <2>2 DEF LaunchFits, FrameFits
  <2>4. QED
    BY <2>1, <2>3, KernelFrame
<1>3. QED
  BY <1>1, <1>2, RegisterKeeps, UnregisterKeeps, ShipsKeeps, GetsKeeps, ResolvedKeeps, PacksKeep
     DEF KernelNext, ResolveRefused, AskOfFunction, RunLaunch

(* Every step of the library.                                              *)
RuntimeInv == TypeInv /\ ShipInv /\ FnInv

(* Every step of the library keeps the types, the shipments and the        *)
(* functions.                                                              *)
LEMMA RuntimeKeeps == RuntimeInv /\ [Next]_vars => RuntimeInv'
<1> SUFFICES ASSUME RuntimeInv, [Next]_vars PROVE RuntimeInv'
  OBVIOUS
<1> USE DEF RuntimeInv, TypeInv
<1>1. ASSUME NEW t \in Threads, RtNext(t), UNCHANGED kernelVars PROVE RuntimeInv'
  <2>1. ShimTyped' /\ RtTyped'
    BY <1>1, RuntimeTypes
  <2>2. KernelTyped'
    BY <1>1 DEF kernelVars, KernelTyped
  <2>3. QED
    BY <1>1, <2>1, <2>2, KernelLeft DEF KernelInv
<1>2. ASSUME NEW t \in Threads, KernelNext(t) PROVE RuntimeInv'
  BY <1>2, KernelTypes, KernelKeeps DEF KernelInv
<1>3. CASE UNCHANGED runtimeVars
  <2>1. ShimTyped' /\ RtTyped' /\ UNCHANGED <<rt, kernelVars>>
    BY <1>3, ShimSame, RtSame DEF runtimeVars, rtVars
  <2>2. KernelTyped' /\ ShipInv' /\ FnInv' /\ LaunchInv'
    BY <2>1, LaunchParts, FnParts DEF kernelVars, KernelTyped, ShipInv, FnInv
  <2>3. QED
    BY <2>1, <2>2
<1>4. QED
  BY <1>1, <1>2, <1>3, RuntimeStep

(* The library begins with no kernel registered and no function known.     *)
LEMMA RuntimeInit0 == Init => RuntimeInv
<1> SUFFICES ASSUME Init PROVE RuntimeInv
  OBVIOUS
<1>1. TypeInv /\ RtInit /\ RuntimeInit
  BY RuntimeInitTyped DEF Init, LibrariesInit, RuntimeInit
<1>2. ShipInv /\ LoadedTrue(reg, fns) /\ FoundTrue(reg) /\ LayoutsTrue(layouts, fns, renamed)
  BY <1>1 DEF RuntimeInit, ShipInv, LoadedTrue, FoundTrue, LayoutsTrue, NotRegistered
<1>3. \A t \in Threads : FrameFits(rt[t], reg, renamed)
  BY <1>1 DEF RtInit, FrameFits, NoFrame, None
<1>4. QED
  BY <1>1, <1>2, <1>3 DEF RuntimeInv, FnInv

(* The types of the library's state hold, and kernels are what they are    *)
(* taken for.                                                              *)
THEOREM RuntimeHolds == Spec => []RuntimeInv
  BY RuntimeInit0, RuntimeKeeps, PTL DEF Spec

(* A module's image crosses the network once for each registration,        *)
(* whatever fails and whichever threads launch.  (ensure_module.)          *)
THEOREM AlwaysShippedOnce == Spec => []ShippedOnce
<1>1. RuntimeInv => ShippedOnce
  BY DEF RuntimeInv, ShipInv, ShippedOnce
<1>2. QED
  BY <1>1, RuntimeHolds, PTL

(* A launch names the function of its own kernel, packed by its own        *)
(* layout, unless its handle had been given out before.  (resolve_kernel,  *)
(* pack_args.)                                                             *)
THEOREM AlwaysLaunchesItsKernel == Spec => []LaunchesItsKernel
<1>1. RuntimeInv => LaunchesItsKernel
  <2> SUFFICES ASSUME RuntimeInv, NEW t \in Threads, rt[t].stage = "launch"
               PROVE  fns[FnOf(t)] = KernelOf(t) /\ (rt[t].slots = KernelOf(t) \/ FnOf(t) \in renamed)
    BY DEF LaunchesItsKernel
  <2>1. LaunchFits(t, rt[t], reg, reg_mu) /\ FrameFits(rt[t], reg, renamed)
    BY LaunchParts DEF RuntimeInv, TypeInv, FnInv
  <2>2. rt[t].op = "launch" => rt[t].x \in Kernels
    BY DEF RuntimeInv, TypeInv, RtTyped
  <2>3. FnOf(t) = reg[KernelOf(t)].loaded /\ FnOf(t) \in Fns /\ reg[KernelOf(t)].on /\ KernelOf(t) \in Kernels
    BY <2>1, <2>2 DEF LaunchFits, FrameFits, FnOf, KernelOf
  <2>4. FnOf(t) # NoFn
    BY <2>3, KernelRegistryAssumption DEF NoFn, None
  <2>5. fns[FnOf(t)] = KernelOf(t)
    BY <2>3, <2>4 DEF RuntimeInv, FnInv, LoadedTrue
  <2>6. QED
    BY <2>1, <2>5 DEF FrameFits, FnOf, KernelOf
<1>2. QED
  BY <1>1, RuntimeHolds, PTL

-----------------------------------------------------------------------------
(* Where each thread is: its frame in the runtime, and its call in the     *)
(* shim.                                                                   *)

CallFits(f, c) ==
  /\ f.op = None <=> f.stage = None
  /\ c.op \in CtxOps => f.op = None \/ f.stage \in {"retain", "record"}
  /\ f.stage = "retain" => c.op = "retain"
  /\ f.stage = "record" => c.op = "release"
  /\ f.stage \in {"release", "record"} <=> f.op = "reset"
  /\ f.stage = "note" <=> c.op \in {"alloc", "allocated"}
  /\ f.stage = "note" => f.op \in {"malloc", "malloc async"}
  /\ f.stage = "forget" <=> c.op \in {"free", "free async", "freed"}
  /\ f.stage = "forget" => f.op = "free" /\ c.x = f.x

(* g_ctx_mu is held by the thread that retains a context, which is not     *)
(* held, or that resets those that are.                                    *)
HoldFits(t, f, c, mu, R, d) ==
  /\ f.stage = "retain" => mu = t /\ c.x = d /\ d \notin R
  /\ f.op = "reset" => mu = t /\ f.todo \subseteq R

PlaceInv ==
  \A t \in Threads : CallFits(rt[t], call[t]) /\ HoldFits(t, rt[t], call[t], ctx_mu, retained, device[t])

(* The threads' places in the next state.                                  *)
LEMMA PlaceParts ==
  PlaceInv' <=> \A t \in Threads :
                  CallFits(rt'[t], call'[t]) /\ HoldFits(t, rt'[t], call'[t], ctx_mu', retained', device'[t])
  BY DEF PlaceInv, CallFits, HoldFits

(* A frame that moves to a stage; that is over; that begins.               *)
Moved(f, g, s) ==
  g.op = f.op /\ g.stage = s /\ g.gen = f.gen /\ g.x = f.x /\ g.todo = f.todo /\ g.reset = f.reset

(* A frame that moves to a stage keeps the rest of it.                     *)
LEMMA StageMoves ==
  ASSUME FramesOk, NEW t \in Threads, NEW s, Stage(t, s)
  PROVE  Moved(rt[t], rt'[t], s) /\ \A u \in Threads \ {t} : rt'[u] = rt[u]
<1>1. rt' = [rt EXCEPT ![t] = [rt[t] EXCEPT !.stage = s]] /\ rt \in [Threads -> Frame]
  BY DEF Stage, FramesOk
<1>2. Moved(rt[t], [rt[t] EXCEPT !.stage = s], s)
  BY <1>1 DEF Moved, Frame
<1>3. QED
  BY <1>1, <1>2

(* A call that returns leaves no frame.                                    *)
LEMMA ReturnMoves ==
  ASSUME FramesOk, NEW t \in Threads, Returns(t)
  PROVE  /\ rt'[t] = NoFrame /\ rt'[t].op = None /\ rt'[t].stage = None /\ rt'[t].todo = {}
         /\ \A u \in Threads \ {t} : rt'[u] = rt[u]
  BY DEF FramesOk, Returns, NoFrame

(* A call that begins is at ensure_context, and notes whether a reset is   *)
(* under way.                                                              *)
LEMMA StartMoves ==
  ASSUME FramesOk, NEW t \in Threads, NEW op, NEW x, Starts(t, op, x)
  PROVE  /\ rt'[t].op = op /\ rt'[t].stage = "ensure" /\ rt'[t].x = x /\ rt'[t].gen = 0 /\ rt'[t].todo = {}
         /\ rt'[t].reset <=> \E u \in Threads : rt[u].op = "reset"
         /\ \A u \in Threads \ {t} : rt'[u] = rt[u]
<1> DEFINE b == \E u \in Threads : rt[u].op = "reset"
           f == [NoFrame EXCEPT !.op = op, !.stage = "ensure", !.x = x, !.reset = b]
<1>1. rt' = [rt EXCEPT ![t] = f] /\ rt \in [Threads -> Frame]
  BY DEF Starts, FramesOk
<1>2. f.op = op /\ f.stage = "ensure" /\ f.x = x /\ f.gen = 0 /\ f.todo = {} /\ f.reset = b
  BY DEF NoFrame
<1> HIDE DEF f
<1>3. QED
  BY <1>1, <1>2

(* ensure_context notes the generation, and moves on.                      *)
LEMMA GenMoves ==
  ASSUME FramesOk, NEW t \in Threads, NEW s, NEW n, rt' = [rt EXCEPT ![t].stage = s, ![t].gen = n]
  PROVE  /\ rt'[t].op = rt[t].op /\ rt'[t].stage = s /\ rt'[t].gen = n /\ rt'[t].x = rt[t].x
         /\ rt'[t].todo = rt[t].todo /\ rt'[t].reset = rt[t].reset
         /\ \A u \in Threads \ {t} : rt'[u] = rt[u]
<1> DEFINE f == [rt[t] EXCEPT !.stage = s, !.gen = n]
<1>1. rt' = [rt EXCEPT ![t] = f] /\ rt \in [Threads -> Frame] /\ rt[t] \in Frame
  BY DEF FramesOk
<1>2. /\ f.op = rt[t].op /\ f.stage = s /\ f.gen = n /\ f.x = rt[t].x /\ f.todo = rt[t].todo
      /\ f.reset = rt[t].reset
  BY <1>1 DEF Frame
<1> HIDE DEF f
<1>3. QED
  BY <1>1, <1>2

(* The calls: made, recorded, about memory.                                *)
SameCall(c, e) == e.op = c.op /\ e.x = c.x /\ e.r = c.r /\ e.got = c.got

(* A call about a context is in its thread's hands; the others' are as they*)
(* were.                                                                   *)
LEMMA AskPlaces ==
  ASSUME ShimTyped, NEW t \in Threads, NEW d \in Devices,
         \/ AskRetain(t, d) \/ AskRelease(t, d) \/ AskReset(t, d) \/ AskState(t, d)
         \/ \E f \in Flags : AskSetFlags(t, d, f)
  PROVE  /\ call'[t].op \in CtxOps /\ call'[t].x = d
         /\ AskRetain(t, d) => call'[t].op = "retain"
         /\ AskRelease(t, d) => call'[t].op = "release"
         /\ \A u \in Threads \ {t} : SameCall(call[u], call'[u])
<1>1. ASSUME NEW op \in CtxOps, NEW r \in Results, NEW got \in {0, 1}, Ask(t, op, d, r, got)
      PROVE  /\ call'[t].op = op /\ call'[t].x = d
             /\ \A u \in Threads \ {t} : SameCall(call[u], call'[u])
  BY <1>1, AskEffect DEF Asked, SameCall
<1>2. ASSUME AskRetain(t, d)
      PROVE  /\ call'[t].op = "retain" /\ call'[t].x = d
             /\ \A u \in Threads \ {t} : SameCall(call[u], call'[u])
  BY <1>1, <1>2, OutcomesAre DEF AskRetain, CtxOps, Results
<1>3. ASSUME AskRelease(t, d)
      PROVE  /\ call'[t].op = "release" /\ call'[t].x = d
             /\ \A u \in Threads \ {t} : SameCall(call[u], call'[u])
  BY <1>1, <1>3, OutcomesAre DEF AskRelease, CtxOps, Results
<1>4. ASSUME AskReset(t, d)
      PROVE  /\ call'[t].op = "reset" /\ call'[t].x = d
             /\ \A u \in Threads \ {t} : SameCall(call[u], call'[u])
  BY <1>1, <1>4, OutcomesAre DEF AskReset, CtxOps, Results
<1>5. ASSUME AskState(t, d)
      PROVE  /\ call'[t].op = "state" /\ call'[t].x = d
             /\ \A u \in Threads \ {t} : SameCall(call[u], call'[u])
  <2>1. driver[d].flags \in {0, 1}
    BY DriverFields DEF DriverRec, Flags
  <2>2. QED
    BY <1>1, <1>5, <2>1, OutcomesAre DEF AskState, CtxOps, Results
<1>6. ASSUME NEW f \in Flags, AskSetFlags(t, d, f)
      PROVE  /\ call'[t].op = "set flags" /\ call'[t].x = d
             /\ \A u \in Threads \ {t} : SameCall(call[u], call'[u])
  BY <1>1, <1>6, OutcomesAre DEF AskSetFlags, CtxOps, Results, Flags
<1>7. \A u \in Threads \ {t} : SameCall(call[u], call'[u])
  BY <1>2, <1>3, <1>4, <1>5, <1>6
<1>8. QED
  BY <1>2, <1>3, <1>4, <1>5, <1>6, <1>7 DEF CtxOps

(* A call that is recorded is over.                                        *)
LEMMA OverPlaces ==
  ASSUME ShimTyped, NEW t \in Threads, Recorded(t)
  PROVE  /\ call'[t] = NoCall /\ call'[t].op = None /\ call'[t].x = None
         /\ \A u \in Threads \ {t} : call'[u] = call[u]
  BY DEF ShimTyped, Recorded, NoCall

(* A record ends a call about a context.                                   *)
LEMMA RecordPlaces ==
  ASSUME ShimTyped, NEW t \in Threads,
         RecordRetain(t) \/ RecordRelease(t) \/ RecordReset(t) \/ RecordSetFlags(t) \/ RecordState(t)
  PROVE  /\ call[t].op \in CtxOps /\ call[t].x \in Devices
         /\ RecordRelease(t) => call[t].op = "release"
         /\ RecordRetain(t) => call[t].op = "retain"
         /\ call'[t] = NoCall /\ call'[t].op = None /\ call'[t].x = None
         /\ \A u \in Threads \ {t} : call'[u] = call[u]
<1>1. Recorded(t) /\ call[t].op \in CtxOps
  BY DEF RecordRetain, RecordRelease, RecordReset, RecordSetFlags, RecordState, CtxOps
<1>2. call[t].x \in Devices
  BY <1>1 DEF ShimTyped
<1>3. QED
  BY <1>1, <1>2, OverPlaces DEF RecordRelease, RecordRetain

(* What the calls about memory leave in their thread's hands.              *)
LEMMA MemoryPlaces ==
  ASSUME ShimTyped, NEW t \in Threads
  PROVE  /\ \A op \in {"alloc", "allocated"}, life \in Ctx : AskAlloc(t, op, life) =>
              call'[t].op = op /\ \A u \in Threads \ {t} : call'[u] = call[u]
         /\ RecordAlloc(t) =>
              /\ call[t].op = "alloc" /\ call'[t].op = "allocated" /\ call'[t].x = call[t].x /\ call'[t].r = call[t].r
              /\ \A u \in Threads \ {t} : call'[u] = call[u]
         /\ \A a \in Addrs : RecordFree(t, a) =>
              call'[t].op = "free" /\ call'[t].x = a /\ \A u \in Threads \ {t} : call'[u] = call[u]
         /\ AskFree(t) =>
              /\ call[t].op \in {"free", "free async"} /\ call'[t].op = "freed" /\ call'[t].x = call[t].x
              /\ \A u \in Threads \ {t} : call'[u] = call[u]
<1>0. call \in [Threads -> CallRec] /\ call[t] \in CallRec
  BY DEF ShimTyped
<1>1. ASSUME NEW op \in {"alloc", "allocated"}, NEW life \in Ctx, AskAlloc(t, op, life)
      PROVE  call'[t].op = op /\ \A u \in Threads \ {t} : call'[u] = call[u]
  <2>1. ASSUME NEW a, NEW o, call' = [call EXCEPT ![t] = [NoCall EXCEPT !.op = op, !.x = a, !.r = o.r]]
        PROVE  call'[t].op = op /\ \A u \in Threads \ {t} : call'[u] = call[u]
    <3>1. [NoCall EXCEPT !.op = op, !.x = a, !.r = o.r].op = op
      BY DEF NoCall
    <3>2. QED
      BY <1>0, <2>1, <3>1
  <2>2. ASSUME call' = [call EXCEPT ![t] = [NoCall EXCEPT !.op = op, !.r = "error"]]
        PROVE  call'[t].op = op /\ \A u \in Threads \ {t} : call'[u] = call[u]
    <3>1. [NoCall EXCEPT !.op = op, !.r = "error"].op = op
      BY DEF NoCall
    <3>2. QED
      BY <1>0, <2>2, <3>1
  <2>3. QED
    BY <1>1, <2>1, <2>2 DEF AskAlloc
<1>2. ASSUME RecordAlloc(t)
      PROVE  /\ call[t].op = "alloc" /\ call'[t].op = "allocated" /\ call'[t].x = call[t].x /\ call'[t].r = call[t].r
             /\ \A u \in Threads \ {t} : call'[u] = call[u]
  <2>1. /\ [call[t] EXCEPT !.op = "allocated"].op = "allocated" /\ [call[t] EXCEPT !.op = "allocated"].x = call[t].x
        /\ [call[t] EXCEPT !.op = "allocated"].r = call[t].r
    BY <1>0 DEF CallRec
  <2>2. QED
    BY <1>0, <1>2, <2>1 DEF RecordAlloc
<1>3. ASSUME NEW a \in Addrs, RecordFree(t, a)
      PROVE  call'[t].op = "free" /\ call'[t].x = a /\ \A u \in Threads \ {t} : call'[u] = call[u]
  <2>1. [NoCall EXCEPT !.op = "free", !.x = a].op = "free" /\ [NoCall EXCEPT !.op = "free", !.x = a].x = a
    BY DEF NoCall
  <2>2. QED
    BY <1>0, <1>3, <2>1 DEF RecordFree
<1>4. ASSUME AskFree(t)
      PROVE  /\ call[t].op \in {"free", "free async"} /\ call'[t].op = "freed" /\ call'[t].x = call[t].x
             /\ \A u \in Threads \ {t} : call'[u] = call[u]
  <2>1. PICK o \in Outcomes :
          call' = [call EXCEPT ![t].op = "freed", ![t].r = o.r, ![t].got = IF o.ran THEN 1 ELSE 0]
    BY <1>4 DEF AskFree
  <2> DEFINE c == [call[t] EXCEPT !.op = "freed", !.r = o.r, !.got = IF o.ran THEN 1 ELSE 0]
  <2>2. c.op = "freed" /\ c.x = call[t].x
    BY <1>0 DEF CallRec
  <2>3. call' = [call EXCEPT ![t] = c]
    BY <1>0, <2>1
  <2> HIDE DEF c
  <2>4. QED
    BY <1>0, <1>4, <2>2, <2>3 DEF AskFree
<1>5. QED
  BY <1>1, <1>2, <1>3, <1>4

-----------------------------------------------------------------------------
(* Every step keeps the threads' places.                                   *)

(* A step of one thread that leaves g_ctx_mu and what it guards.           *)
OthersStay(t) ==
  \A u \in Threads \ {t} : rt'[u] = rt[u] /\ call'[u].op = call[u].op /\ call'[u].x = call[u].x /\ device'[u] = device[u]

(* A step of one thread keeps the places if it keeps its own.              *)
LEMMA PlaceSet ==
  ASSUME PlaceInv, NEW t \in Threads, OthersStay(t), UNCHANGED <<ctx_mu, retained>>, CallFits(rt'[t], call'[t]),
         HoldFits(t, rt'[t], call'[t], ctx_mu, retained, device'[t])
  PROVE  PlaceInv'
<1>1. ASSUME NEW u \in Threads \ {t}
      PROVE  CallFits(rt'[u], call'[u]) /\ HoldFits(u, rt'[u], call'[u], ctx_mu', retained', device'[u])
  <2>1. CallFits(rt[u], call[u]) /\ HoldFits(u, rt[u], call[u], ctx_mu, retained, device[u])
    BY DEF PlaceInv
  <2>2. QED
    BY <2>1 DEF OthersStay, CallFits, HoldFits
<1>2. QED
  BY <1>1, PlaceParts

(* A thread at work, and at rest, is in no call of the shim.               *)
LEMMA AtWork ==
  ASSUME ShimTyped, RtTyped, PlaceInv, NEW t \in Threads
  PROVE  /\ CallFits(rt[t], call[t]) /\ HoldFits(t, rt[t], call[t], ctx_mu, retained, device[t])
         /\ rt[t].stage \in Stages /\ call[t].op \in CtxOps \union MemOps \union {None}
         /\ rt[t].stage \in {"ensure", "select", "run", "release"} \union LaunchStages =>
              rt[t].op # None /\ call[t].op = None
         /\ AtRest(t) => rt[t].stage = None
<1>1. CallFits(rt[t], call[t]) /\ HoldFits(t, rt[t], call[t], ctx_mu, retained, device[t])
  BY DEF PlaceInv
<1>2. rt[t].stage \in Stages /\ call[t].op \in CtxOps \union MemOps \union {None}
  BY DEF RtTyped, ShimTyped, Frame, CallRec, Stages
<1>3. QED
  BY <1>1, <1>2 DEF CallFits, MemOps, None, AtRest, LaunchStages

(* A frame that moves within what needs no call of the shim.               *)
LEMMA PlaceQuiet ==
  ASSUME ShimTyped, RtTyped, PlaceInv, NEW t \in Threads, call[t].op = None, UNCHANGED <<call, device, ctx_mu, retained>>,
         \A u \in Threads \ {t} : rt'[u] = rt[u],
         \/ rt'[t].op = None /\ rt'[t].stage = None
         \/ rt'[t].op \notin {None, "reset"} /\ rt'[t].stage \in {"ensure", "select", "run"} \union LaunchStages
  PROVE  PlaceInv'
<1>1. OthersStay(t)
  BY DEF OthersStay
<1>2. CallFits(rt'[t], call'[t]) /\ HoldFits(t, rt'[t], call'[t], ctx_mu, retained, device'[t])
  BY DEF CallFits, HoldFits, LaunchStages, None, CtxOps
<1>3. QED
  BY <1>1, <1>2, PlaceSet

(* ensure_context keeps the places: it takes g_ctx_mu to retain, for a     *)
(* device whose context is not held.                                       *)
LEMMA EnsurePlaces ==
  ASSUME ShimTyped, RtTyped, PlaceInv, NEW t \in Threads,
         EnsureFast(t) \/ EnsureFinds(t) \/ EnsureRetains(t) \/ EnsureRetained(t) \/ EnsureSelects(t)
  PROVE  PlaceInv'
<1>0. FramesOk /\ None \notin Threads /\ device[t] \in Devices
  BY Typedness, DriverShimAssumption
<1>1. /\ CallFits(rt[t], call[t]) /\ HoldFits(t, rt[t], call[t], ctx_mu, retained, device[t])
      /\ rt[t].stage \in {"ensure", "select"} => rt[t].op \notin {None, "reset"} /\ call[t].op = None
  BY AtWork DEF CallFits
<1>2. CASE EnsureFast(t)
  <2>1. UNCHANGED <<call, device, ctx_mu, retained>> /\ rt[t].stage = "ensure"
    BY <1>2 DEF EnsureFast, baseVars, shimVars, ctxVars
  <2>2. Moved(rt[t], rt'[t], "run") /\ \A u \in Threads \ {t} : rt'[u] = rt[u]
    BY <1>0, <1>2, StageMoves DEF EnsureFast
  <2>3. QED
    BY <1>1, <2>1, <2>2, PlaceQuiet DEF Moved
<1>3. CASE EnsureFinds(t)
  <2>1. UNCHANGED <<call, device, ctx_mu, retained>> /\ rt[t].stage = "ensure"
    BY <1>3 DEF EnsureFinds, baseVars, shimVars, ctxVars
  <2>2. rt'[t].op = rt[t].op /\ rt'[t].stage = "select" /\ \A u \in Threads \ {t} : rt'[u] = rt[u]
    BY <1>0, <1>3, GenMoves DEF EnsureFinds
  <2>3. QED
    BY <1>1, <2>1, <2>2, PlaceQuiet
<1>4. CASE EnsureSelects(t)
  <2>1. UNCHANGED <<call, device, ctx_mu, retained>> /\ rt[t].stage = "select"
    BY <1>4 DEF EnsureSelects, baseVars, shimVars
  <2>2. Stage(t, "run") \/ Returns(t)
    BY <1>4 DEF EnsureSelects
  <2>3. /\ \A u \in Threads \ {t} : rt'[u] = rt[u]
        /\ (rt'[t].op = rt[t].op /\ rt'[t].stage = "run") \/ (rt'[t].op = None /\ rt'[t].stage = None)
    BY <1>0, <2>2, StageMoves, ReturnMoves DEF Moved
  <2>4. QED
    BY <1>1, <2>1, <2>3, PlaceQuiet
<1>5. CASE EnsureRetains(t)
  <2>1. /\ rt[t].stage = "ensure" /\ ctx_mu = None /\ ctx_mu' = t /\ device[t] \notin retained
        /\ UNCHANGED <<device, retained>> /\ AskRetain(t, device[t])
    BY <1>5 DEF EnsureRetains
  <2>2. rt'[t].op = rt[t].op /\ rt'[t].stage = "retain" /\ \A u \in Threads \ {t} : rt'[u] = rt[u]
    BY <1>0, <1>5, GenMoves DEF EnsureRetains
  <2>3. /\ call'[t].op = "retain" /\ call'[t].x = device[t]
        /\ \A u \in Threads \ {t} : call'[u].op = call[u].op /\ call'[u].x = call[u].x
    BY <1>0, <2>1, AskPlaces DEF SameCall
  <2>4. CallFits(rt'[t], call'[t])
    BY <1>1, <2>1, <2>2, <2>3 DEF CallFits, None
  <2>5. HoldFits(t, rt'[t], call'[t], ctx_mu', retained', device'[t])
    BY <1>1, <2>1, <2>2, <2>3 DEF HoldFits
  <2>6. ASSUME NEW u \in Threads \ {t}
        PROVE  CallFits(rt'[u], call'[u]) /\ HoldFits(u, rt'[u], call'[u], ctx_mu', retained', device'[u])
    <3>1. CallFits(rt[u], call[u]) /\ HoldFits(u, rt[u], call[u], None, retained, device[u]) /\ u # None
      BY <1>0, <2>1 DEF PlaceInv
    <3>2. QED
      BY <2>1, <2>2, <2>3, <3>1 DEF CallFits, HoldFits
  <2>7. QED
    BY <2>4, <2>5, <2>6, PlaceParts
<1>6. CASE EnsureRetained(t)
  <2>1. /\ rt[t].stage = "retain" /\ RecordRetain(t) /\ ctx_mu' = None /\ device' = device
        /\ (Stage(t, "select") /\ retained' = retained \union {device[t]}) \/ (Returns(t) /\ retained' = retained)
    BY <1>6 DEF EnsureRetained
  <2>2. /\ \A u \in Threads \ {t} : rt'[u] = rt[u]
        /\ (rt'[t].op = rt[t].op /\ rt'[t].stage = "select") \/ (rt'[t].op = None /\ rt'[t].stage = None)
    BY <1>0, <2>1, StageMoves, ReturnMoves DEF Moved
  <2>3. call'[t].op = None /\ \A u \in Threads \ {t} : call'[u] = call[u]
    BY <2>1, RecordPlaces
  <2>4. rt[t].op \notin {None, "reset"} /\ ctx_mu = t
    BY <1>1, <2>1 DEF CallFits, HoldFits, None
  <2>5. CallFits(rt'[t], call'[t]) /\ HoldFits(t, rt'[t], call'[t], ctx_mu', retained', device'[t])
    BY <2>2, <2>3, <2>4 DEF CallFits, HoldFits, None, CtxOps
  <2>6. ASSUME NEW u \in Threads \ {t}
        PROVE  CallFits(rt'[u], call'[u]) /\ HoldFits(u, rt'[u], call'[u], ctx_mu', retained', device'[u])
    <3>1. CallFits(rt[u], call[u]) /\ HoldFits(u, rt[u], call[u], t, retained, device[u]) /\ u # t
      BY <2>4 DEF PlaceInv
    <3>2. QED
      BY <2>2, <2>3, <3>1 DEF CallFits, HoldFits
  <2>7. QED
    BY <2>5, <2>6, PlaceParts
<1>7. QED
  BY <1>2, <1>3, <1>4, <1>5, <1>6

(* A call that keeps nothing, and cudaSetDevice, keep the places.          *)
LEMMA UsePlaces ==
  ASSUME ShimTyped, RtTyped, PlaceInv, NEW t \in Threads, Use(t) \/ RunUse(t) \/ \E d \in Devices : SetDevice(t, d)
  PROVE  PlaceInv'
<1>0. FramesOk /\ UNCHANGED <<call, ctx_mu, retained>>
  BY Typedness DEF Use, RunUse, SetDevice, baseVars, shimVars, ctxVars
<1>1. call[t].op = None
  BY AtWork DEF Use, RunUse, SetDevice, AtRest
<1>2. CASE RunUse(t)
  <2>1. /\ UNCHANGED device /\ rt'[t].op = None /\ rt'[t].stage = None
        /\ \A u \in Threads \ {t} : rt'[u] = rt[u]
    BY <1>0, <1>2, ReturnMoves DEF RunUse, ctxVars
  <2>2. QED
    BY <1>0, <1>1, <2>1, PlaceQuiet
<1>3. CASE Use(t) \/ \E d \in Devices : SetDevice(t, d)
  <2>1. rt'[t].op = "use" /\ rt'[t].stage = "ensure" /\ \A u \in Threads \ {t} : rt'[u] = rt[u]
    BY <1>0, <1>3, StartMoves DEF Use, SetDevice
  <2>2. \A u \in Threads \ {t} : device'[u] = device[u]
    BY <1>3 DEF Use, SetDevice, ctxVars, RtTyped
  <2>3. OthersStay(t)
    BY <1>0, <2>1, <2>2 DEF OthersStay
  <2>4. CallFits(rt'[t], call'[t]) /\ HoldFits(t, rt'[t], call'[t], ctx_mu, retained, device'[t])
    BY <1>0, <1>1, <2>1 DEF CallFits, HoldFits, None, CtxOps
  <2>5. QED
    BY <1>0, <2>3, <2>4, PlaceSet
<1>4. QED
  BY <1>2, <1>3

(* cudaDeviceReset keeps the places: it holds g_ctx_mu, and has left to    *)
(* release what is still held.                                             *)
LEMMA ResetPlaces ==
  ASSUME ShimTyped, RtTyped, PlaceInv, NEW t \in Threads,
         BeginDeviceReset(t) \/ (\E d \in Devices : ResetReleases(t, d)) \/ ResetRecords(t) \/ EndDeviceReset(t)
  PROVE  PlaceInv'
<1>0. FramesOk /\ None \notin Threads /\ rt[t] \in Frame
  BY Typedness, DriverShimAssumption
<1>1. /\ CallFits(rt[t], call[t]) /\ HoldFits(t, rt[t], call[t], ctx_mu, retained, device[t])
      /\ rt[t].stage = "release" => call[t].op = None
  BY AtWork
<1>2. CASE BeginDeviceReset(t)
  <2> DEFINE f == [NoFrame EXCEPT !.op = "reset", !.stage = "release", !.todo = retained]
  <2>1. /\ AtRest(t) /\ ctx_mu = None /\ ctx_mu' = t /\ UNCHANGED <<call, device, retained>>
        /\ \A u \in Threads : rt'[u] = IF u = t THEN f ELSE [rt[u] EXCEPT !.reset = rt[u].op # None]
    BY <1>2 DEF BeginDeviceReset, baseVars, shimVars
  <2>2. f.op = "reset" /\ f.stage = "release" /\ f.todo = retained
    BY DEF NoFrame
  <2> HIDE DEF f
  <2>3. CallFits(rt'[t], call'[t]) /\ HoldFits(t, rt'[t], call'[t], ctx_mu', retained', device'[t])
    BY <2>1, <2>2 DEF CallFits, HoldFits, None, CtxOps, AtRest
  <2>4. ASSUME NEW u \in Threads \ {t}
        PROVE  CallFits(rt'[u], call'[u]) /\ HoldFits(u, rt'[u], call'[u], ctx_mu', retained', device'[u])
    <3>1. CallFits(rt[u], call[u]) /\ HoldFits(u, rt[u], call[u], None, retained, device[u]) /\ u # None
          /\ rt[u] \in Frame
      BY <1>0, <2>1, Typedness DEF PlaceInv
    <3>2. /\ rt'[u].op = rt[u].op /\ rt'[u].stage = rt[u].stage /\ rt'[u].x = rt[u].x /\ rt'[u].todo = rt[u].todo
      BY <2>1, <3>1 DEF Frame
    <3>3. QED
      BY <2>1, <3>1, <3>2 DEF CallFits, HoldFits
  <2>5. QED
    BY <2>3, <2>4, PlaceParts
<1>3. ASSUME NEW d \in Devices, ResetReleases(t, d) PROVE PlaceInv'
  <2> DEFINE f == [rt[t] EXCEPT !.stage = "record", !.todo = rt[t].todo \ {d}]
  <2>1. /\ rt[t].op = "reset" /\ rt[t].stage = "release" /\ AskRelease(t, d) /\ UNCHANGED <<device, ctx_mu, retained>>
        /\ rt' = [rt EXCEPT ![t] = f]
    BY <1>3, <1>0 DEF ResetReleases, ctxVars, FramesOk
  <2>2. f.op = "reset" /\ f.stage = "record" /\ f.todo = rt[t].todo \ {d}
    BY <1>0, <2>1 DEF Frame
  <2> HIDE DEF f
  <2>3. rt'[t] = f /\ \A u \in Threads \ {t} : rt'[u] = rt[u]
    BY <1>0, <2>1 DEF FramesOk
  <2>4. call'[t].op = "release" /\ \A u \in Threads \ {t} : call'[u].op = call[u].op /\ call'[u].x = call[u].x
    BY <2>1, AskPlaces DEF SameCall
  <2>5. OthersStay(t)
    BY <2>1, <2>3, <2>4 DEF OthersStay
  <2>6. CallFits(rt'[t], call'[t]) /\ HoldFits(t, rt'[t], call'[t], ctx_mu, retained, device'[t])
    BY <1>1, <2>1, <2>2, <2>3, <2>4 DEF CallFits, HoldFits, None, CtxOps
  <2>7. QED
    BY <2>1, <2>5, <2>6, PlaceSet
<1>4. CASE ResetRecords(t)
  <2>1. /\ rt[t].op = "reset" /\ UNCHANGED <<device, ctx_mu, retained>>
        /\ Moved(rt[t], rt'[t], "release") /\ \A u \in Threads \ {t} : rt'[u] = rt[u]
    BY <1>0, <1>4, StageMoves DEF ResetRecords, ctxVars
  <2>2. call'[t].op = None /\ \A u \in Threads \ {t} : call'[u] = call[u]
    BY <1>4, RecordPlaces DEF ResetRecords
  <2>3. OthersStay(t)
    BY <2>1, <2>2 DEF OthersStay
  <2>4. CallFits(rt'[t], call'[t]) /\ HoldFits(t, rt'[t], call'[t], ctx_mu, retained, device'[t])
    BY <1>1, <2>1, <2>2 DEF CallFits, HoldFits, Moved, None, CtxOps
  <2>5. QED
    BY <2>1, <2>3, <2>4, PlaceSet
<1>5. CASE EndDeviceReset(t)
  <2>1. /\ rt[t].op = "reset" /\ rt[t].stage = "release" /\ ctx_mu' = None /\ UNCHANGED <<call, device>>
        /\ rt'[t].op = None /\ rt'[t].stage = None /\ \A u \in Threads \ {t} : rt'[u] = rt[u]
    BY <1>0, <1>5, ReturnMoves DEF EndDeviceReset, baseVars, shimVars
  <2>2. ctx_mu = t /\ call[t].op = None
    BY <1>1, <2>1 DEF HoldFits
  <2>3. CallFits(rt'[t], call'[t]) /\ HoldFits(t, rt'[t], call'[t], ctx_mu', retained', device'[t])
    BY <2>1, <2>2 DEF CallFits, HoldFits, None, CtxOps
  <2>4. ASSUME NEW u \in Threads \ {t}
        PROVE  CallFits(rt'[u], call'[u]) /\ HoldFits(u, rt'[u], call'[u], ctx_mu', retained', device'[u])
    <3>1. CallFits(rt[u], call[u]) /\ HoldFits(u, rt[u], call[u], t, retained, device[u]) /\ u # t
      BY <2>2 DEF PlaceInv
    <3>2. QED
      BY <2>1, <3>1 DEF CallFits, HoldFits
  <2>5. QED
    BY <2>3, <2>4, PlaceParts
<1>6. QED
  BY <1>2, <1>3, <1>4, <1>5

(* The steps of an allocation keep the places.                             *)
LEMMA MallocPlaces ==
  ASSUME ShimTyped, RtTyped, PlaceInv, NEW t \in Threads,
         (\E op \in {"malloc", "malloc async"} : Malloc(t, op)) \/ RunMalloc(t) \/ ShimNotes(t) \/ NoteAlloc(t)
  PROVE  PlaceInv'
<1>0. FramesOk /\ UNCHANGED <<device, ctx_mu, retained>> /\ current[t] \in Ctx
  BY Typedness DEF Malloc, RunMalloc, ShimNotes, NoteAlloc, rtVars, ctxVars
<1>1. /\ CallFits(rt[t], call[t]) /\ HoldFits(t, rt[t], call[t], ctx_mu, retained, device[t])
      /\ rt[t].stage = "run" => call[t].op = None
  BY AtWork
<1>2. ASSUME NEW op \in {"malloc", "malloc async"}, Malloc(t, op) PROVE PlaceInv'
  <2>1. UNCHANGED call /\ call[t].op = None
    BY <1>2 DEF Malloc, baseVars, shimVars, AtRest
  <2>2. rt'[t].op = op /\ rt'[t].stage = "ensure" /\ \A u \in Threads \ {t} : rt'[u] = rt[u]
    BY <1>0, <1>2, StartMoves DEF Malloc
  <2>3. QED
    BY <1>0, <2>1, <2>2, PlaceQuiet DEF None
<1>3. CASE RunMalloc(t)
  <2>1. /\ rt[t].op \in {"malloc", "malloc async"} /\ rt[t].stage = "run" /\ Moved(rt[t], rt'[t], "note")
        /\ \A u \in Threads \ {t} : rt'[u] = rt[u]
    BY <1>0, <1>3, StageMoves DEF RunMalloc
  <2>2. PICK op \in {"alloc", "allocated"} : AskAlloc(t, op, current[t])
    BY <1>3 DEF RunMalloc
  <2>3. call'[t].op = op /\ \A u \in Threads \ {t} : call'[u] = call[u]
    BY <1>0, <2>2, MemoryPlaces
  <2>4. CallFits(rt'[t], call'[t]) /\ HoldFits(t, rt'[t], call'[t], ctx_mu, retained, device'[t])
    BY <1>1, <2>1, <2>3 DEF CallFits, HoldFits, Moved, None, CtxOps
  <2>5. QED
    BY <1>0, <2>1, <2>3, <2>4, PlaceSet DEF OthersStay
<1>4. CASE ShimNotes(t)
  <2>1. /\ UNCHANGED rt /\ call[t].op = "alloc" /\ call'[t].op = "allocated" /\ call'[t].x = call[t].x
        /\ \A u \in Threads \ {t} : call'[u] = call[u]
    BY <1>4, MemoryPlaces DEF ShimNotes, rtVars
  <2>2. CallFits(rt'[t], call'[t]) /\ HoldFits(t, rt'[t], call'[t], ctx_mu, retained, device'[t])
    BY <1>0, <1>1, <2>1 DEF CallFits, HoldFits, CtxOps
  <2>3. QED
    BY <1>0, <2>1, <2>2, PlaceSet DEF OthersStay
<1>5. CASE NoteAlloc(t)
  <2>1. /\ rt'[t].op = None /\ rt'[t].stage = None /\ \A u \in Threads \ {t} : rt'[u] = rt[u]
        /\ call'[t].op = None /\ \A u \in Threads \ {t} : call'[u] = call[u]
    BY <1>0, <1>5, ReturnMoves, OverPlaces DEF NoteAlloc
  <2>2. CallFits(rt'[t], call'[t]) /\ HoldFits(t, rt'[t], call'[t], ctx_mu, retained, device'[t])
    BY <2>1 DEF CallFits, HoldFits, None, CtxOps
  <2>3. QED
    BY <1>0, <2>1, <2>2, PlaceSet DEF OthersStay
<1>6. QED
  BY <1>2, <1>3, <1>4, <1>5

(* The steps of a free keep the places: the address it forgets is the one  *)
(* it frees.                                                               *)
LEMMA FreePlaces ==
  ASSUME ShimTyped, RtTyped, PlaceInv, NEW t \in Threads,
         (\E a \in Addrs : Free(t, a) \/ FreeAsync(t, a)) \/ ShimForgets(t) \/ RunFree(t) \/ ForgetAlloc(t)
  PROVE  PlaceInv'
<1>0. FramesOk /\ UNCHANGED <<device, ctx_mu, retained>> /\ FrameOk(rt[t])
  BY Typedness DEF Free, FreeAsync, ShimForgets, RunFree, ForgetAlloc, rtVars, ctxVars
<1>1. /\ CallFits(rt[t], call[t]) /\ HoldFits(t, rt[t], call[t], ctx_mu, retained, device[t])
      /\ rt[t].stage = "run" => call[t].op = None
  BY AtWork
<1>2. ASSUME NEW a \in Addrs, Free(t, a) PROVE PlaceInv'
  <2>1. UNCHANGED call /\ call[t].op = None
    BY <1>2 DEF Free, baseVars, shimVars, AtRest
  <2>2. rt'[t].op = "free" /\ rt'[t].stage = "ensure" /\ \A u \in Threads \ {t} : rt'[u] = rt[u]
    BY <1>0, <1>2, StartMoves DEF Free
  <2>3. QED
    BY <1>0, <2>1, <2>2, PlaceQuiet DEF None
<1>3. ASSUME NEW a \in Addrs, FreeAsync(t, a) PROVE PlaceInv'
  <2> DEFINE f == [NoFrame EXCEPT !.op = "free", !.stage = "forget", !.x = a]
             c == [NoCall EXCEPT !.op = "free async", !.x = a]
  <2>1. f.op = "free" /\ f.stage = "forget" /\ f.x = a /\ c.op = "free async" /\ c.x = a
    BY DEF NoFrame, NoCall
  <2>2. rt' = [rt EXCEPT ![t] = f] /\ call' = [call EXCEPT ![t] = c]
    BY <1>3 DEF FreeAsync
  <2> HIDE DEF f, c
  <2>3. rt'[t] = f /\ call'[t] = c /\ \A u \in Threads \ {t} : rt'[u] = rt[u] /\ call'[u] = call[u]
    BY <1>0, <2>2 DEF FramesOk, ShimTyped
  <2>4. CallFits(rt'[t], call'[t]) /\ HoldFits(t, rt'[t], call'[t], ctx_mu, retained, device'[t])
    BY <2>1, <2>3 DEF CallFits, HoldFits, None, CtxOps
  <2>5. QED
    BY <1>0, <2>3, <2>4, PlaceSet DEF OthersStay
<1>4. CASE ShimForgets(t)
  <2>1. /\ rt[t].op = "free" /\ rt[t].stage = "run" /\ Moved(rt[t], rt'[t], "forget")
        /\ \A u \in Threads \ {t} : rt'[u] = rt[u]
    BY <1>0, <1>4, StageMoves DEF ShimForgets
  <2>2. call'[t].op = "free" /\ call'[t].x = rt[t].x /\ \A u \in Threads \ {t} : call'[u] = call[u]
    BY <1>0, <1>4, <2>1, MemoryPlaces DEF ShimForgets, FrameOk
  <2>3. CallFits(rt'[t], call'[t]) /\ HoldFits(t, rt'[t], call'[t], ctx_mu, retained, device'[t])
    BY <1>1, <2>1, <2>2 DEF CallFits, HoldFits, Moved, None, CtxOps
  <2>4. QED
    BY <1>0, <2>1, <2>2, <2>3, PlaceSet DEF OthersStay
<1>5. CASE RunFree(t)
  <2>1. /\ UNCHANGED rt /\ call[t].op \in {"free", "free async"} /\ call'[t].op = "freed" /\ call'[t].x = call[t].x
        /\ \A u \in Threads \ {t} : call'[u] = call[u]
    BY <1>5, MemoryPlaces DEF RunFree, rtVars
  <2>2. CallFits(rt'[t], call'[t]) /\ HoldFits(t, rt'[t], call'[t], ctx_mu, retained, device'[t])
    BY <1>0, <1>1, <2>1 DEF CallFits, HoldFits, CtxOps
  <2>3. QED
    BY <1>0, <2>1, <2>2, PlaceSet DEF OthersStay
<1>6. CASE ForgetAlloc(t)
  <2>1. /\ rt'[t].op = None /\ rt'[t].stage = None /\ \A u \in Threads \ {t} : rt'[u] = rt[u]
        /\ call'[t].op = None /\ \A u \in Threads \ {t} : call'[u] = call[u]
    BY <1>0, <1>6, ReturnMoves, OverPlaces DEF ForgetAlloc
  <2>2. CallFits(rt'[t], call'[t]) /\ HoldFits(t, rt'[t], call'[t], ctx_mu, retained, device'[t])
    BY <2>1 DEF CallFits, HoldFits, None, CtxOps
  <2>3. QED
    BY <1>0, <2>1, <2>2, PlaceSet DEF OthersStay
<1>7. QED
  BY <1>2, <1>3, <1>4, <1>5, <1>6

(* The application's own calls are made, and recorded, outside the         *)
(* runtime's.                                                              *)
LEMMA AppPlaces ==
  ASSUME ShimTyped, RtTyped, PlaceInv, NEW t \in Threads,
         \/ \E d \in Devices : \/ AppRetain(t, d) \/ AppRelease(t, d) \/ AppReset(t, d) \/ AppState(t, d)
                               \/ \E f \in Flags : AppSetFlags(t, d, f)
         \/ AppRetained(t) \/ AppRecords(t)
  PROVE  PlaceInv'
<1>1. UNCHANGED <<rt, device, ctx_mu, retained>> /\ rt[t].op = None
  BY DEF AppRetain, AppRelease, AppReset, AppState, AppSetFlags, AppRetained, AppRecords, Own, AtRest, rtVars, ctxVars
<1>2. /\ CallFits(rt[t], call[t]) /\ HoldFits(t, rt[t], call[t], ctx_mu, retained, device[t])
  BY AtWork
<1>3. /\ call'[t].op \in CtxOps \union {None}
      /\ \A u \in Threads \ {t} : call'[u].op = call[u].op /\ call'[u].x = call[u].x
  <2>1. ASSUME NEW d \in Devices, \/ AskRetain(t, d) \/ AskRelease(t, d) \/ AskReset(t, d) \/ AskState(t, d)
                                  \/ \E f \in Flags : AskSetFlags(t, d, f)
        PROVE  /\ call'[t].op \in CtxOps \union {None}
               /\ \A u \in Threads \ {t} : call'[u].op = call[u].op /\ call'[u].x = call[u].x
    BY <2>1, AskPlaces DEF SameCall
  <2>2. ASSUME RecordRetain(t) \/ RecordRelease(t) \/ RecordReset(t) \/ RecordSetFlags(t) \/ RecordState(t)
        PROVE  /\ call'[t].op \in CtxOps \union {None}
               /\ \A u \in Threads \ {t} : call'[u].op = call[u].op /\ call'[u].x = call[u].x
    BY <2>2, RecordPlaces
  <2>3. QED
    BY <2>1, <2>2 DEF AppRetain, AppRelease, AppReset, AppState, AppSetFlags, AppRetained, AppRecords
<1>4. CallFits(rt'[t], call'[t]) /\ HoldFits(t, rt'[t], call'[t], ctx_mu, retained, device'[t])
  BY <1>1, <1>2, <1>3 DEF CallFits, HoldFits, None, CtxOps
<1>5. QED
  BY <1>1, <1>3, <1>4, PlaceSet DEF OthersStay

(* Of kernels, no step is in a call of the shim.                           *)
LEMMA KernelPlaces ==
  ASSUME ShimTyped, RtTyped, LaunchInv, PlaceInv, NEW t \in Threads, KernelNext(t)
  PROVE  /\ PlaceInv' /\ call[t].op = None
         /\ \A u \in Threads \ {t} : rt'[u] = rt[u]
         /\ \/ rt'[t] = rt[t]
            \/ rt'[t] = NoFrame
            \/ /\ rt'[t].op = "launch" /\ rt'[t].stage \in LaunchStages /\ rt'[t].gen = rt[t].gen
            \/ /\ rt'[t].op = "launch" /\ rt'[t].stage = "ensure" /\ rt'[t].gen = 0
               /\ (rt'[t].reset <=> \E u \in Threads : rt[u].op = "reset") /\ rt[t].op = None
<1>0. /\ FramesOk /\ UNCHANGED <<call, device, ctx_mu, retained>>
  BY Typedness DEF KernelNext, Register, Unregister, Launch, ResolveKnown, ResolveRefused, ResolveShips, ResolveLoaded,
         GetFunction, PackKnown, PackAsks, RecordLayout, AskOfFunction, RunLaunch, rtVars, ctxVars, baseVars, shimVars
<1>1. /\ CallFits(rt[t], call[t]) /\ LaunchFits(t, rt[t], reg, reg_mu)
      /\ rt[t].stage \in {"ensure", "select", "run", "release"} \union LaunchStages => rt[t].op # None /\ call[t].op = None
  BY AtWork, LaunchParts
<1>2. call[t].op = None
  BY <1>1 DEF KernelNext, Register, Unregister, Launch, ResolveKnown, ResolveRefused, ResolveShips, ResolveLoaded,
         GetFunction, PackKnown, PackAsks, RecordLayout, AskOfFunction, RunLaunch, AtRest, LaunchStages
<1>3. ASSUME UNCHANGED rt PROVE PlaceInv'
  BY <1>0, <1>3 DEF PlaceInv, CallFits, HoldFits
<1>4. ASSUME Returns(t) PROVE PlaceInv' /\ rt'[t] = NoFrame /\ \A u \in Threads \ {t} : rt'[u] = rt[u]
  BY <1>0, <1>2, <1>4, ReturnMoves, PlaceQuiet
<1>5. ASSUME rt[t].op = "launch", NEW f, rt' = [rt EXCEPT ![t] = f], f.op = "launch", f.stage \in LaunchStages, f.gen = rt[t].gen
      PROVE  /\ PlaceInv' /\ \A u \in Threads \ {t} : rt'[u] = rt[u]
             /\ rt'[t].op = "launch" /\ rt'[t].stage \in LaunchStages /\ rt'[t].gen = rt[t].gen
  <2>1. rt'[t] = f /\ \A u \in Threads \ {t} : rt'[u] = rt[u]
    BY <1>0, <1>5 DEF FramesOk
  <2>2. f.op \notin {None, "reset"}
    BY <1>5 DEF None
  <2>3. QED
    BY <1>0, <1>2, <1>5, <2>1, <2>2, PlaceQuiet
<1>6. ASSUME NEW k \in Kernels, Launch(t, k)
      PROVE  /\ PlaceInv' /\ \A u \in Threads \ {t} : rt'[u] = rt[u]
             /\ rt'[t].op = "launch" /\ rt'[t].stage = "ensure" /\ rt'[t].gen = 0
             /\ (rt'[t].reset <=> \E u \in Threads : rt[u].op = "reset") /\ rt[t].op = None
  <2>1. Starts(t, "launch", k) /\ rt[t].op = None
    BY <1>6 DEF Launch, AtRest
  <2>2. /\ rt'[t].op = "launch" /\ rt'[t].stage = "ensure" /\ rt'[t].gen = 0
        /\ (rt'[t].reset <=> \E u \in Threads : rt[u].op = "reset")
        /\ \A u \in Threads \ {t} : rt'[u] = rt[u]
    BY <1>0, <2>1, StartMoves
  <2>3. rt'[t].op \notin {None, "reset"}
    BY <2>2 DEF None
  <2>4. QED
    BY <1>0, <1>2, <2>1, <2>2, <2>3, PlaceQuiet
<1>7. ASSUME rt[t].op = "launch", NEW s \in LaunchStages, NEW g,
             \/ Stage(t, s) \/ rt' = [rt EXCEPT ![t].stage = s, ![t].fn = g] \/ rt' = [rt EXCEPT ![t].stage = s, ![t].slots = g]
      PROVE  /\ PlaceInv' /\ \A u \in Threads \ {t} : rt'[u] = rt[u]
             /\ rt'[t].op = "launch" /\ rt'[t].stage \in LaunchStages /\ rt'[t].gen = rt[t].gen
  <2>1. rt \in [Threads -> Frame] /\ rt[t] \in Frame
    BY <1>0 DEF FramesOk
  <2>2. CASE Stage(t, s)
    <3> DEFINE f == [rt[t] EXCEPT !.stage = s]
    <3>1. f.op = "launch" /\ f.stage = s /\ f.gen = rt[t].gen
      BY <1>7, <2>1 DEF Frame
    <3>2. rt' = [rt EXCEPT ![t] = f]
      BY <2>2 DEF Stage
    <3> HIDE DEF f
    <3>3. QED
      BY <1>5, <1>7, <3>1, <3>2
  <2>3. CASE rt' = [rt EXCEPT ![t].stage = s, ![t].fn = g]
    <3> DEFINE f == [rt[t] EXCEPT !.stage = s, !.fn = g]
    <3>1. f.op = "launch" /\ f.stage = s /\ f.gen = rt[t].gen
      BY <1>7, <2>1 DEF Frame
    <3>2. rt' = [rt EXCEPT ![t] = f]
      BY <2>1, <2>3
    <3> HIDE DEF f
    <3>3. QED
      BY <1>5, <1>7, <3>1, <3>2
  <2>4. CASE rt' = [rt EXCEPT ![t].stage = s, ![t].slots = g]
    <3> DEFINE f == [rt[t] EXCEPT !.stage = s, !.slots = g]
    <3>1. f.op = "launch" /\ f.stage = s /\ f.gen = rt[t].gen
      BY <1>7, <2>1 DEF Frame
    <3>2. rt' = [rt EXCEPT ![t] = f]
      BY <2>1, <2>4
    <3> HIDE DEF f
    <3>3. QED
      BY <1>5, <1>7, <3>1, <3>2
  <2>5. QED
    BY <1>7, <2>2, <2>3, <2>4
<1>8. CASE \E k \in Kernels : Register(t, k) \/ Unregister(t, k)
  BY <1>0, <1>2, <1>3, <1>8 DEF Register, Unregister, rtVars
<1>9. CASE \E k \in Kernels : Launch(t, k)
  BY <1>2, <1>6, <1>9
<1>10. CASE ResolveRefused(t) \/ AskOfFunction(t) \/ RunLaunch(t)
  BY <1>2, <1>4, <1>10 DEF ResolveRefused, AskOfFunction, RunLaunch
<1>11. CASE ResolveKnown(t) \/ ResolveLoaded(t)
  BY <1>2, <1>7, <1>11 DEF ResolveKnown, ResolveLoaded, Resolving, Resolved, LaunchStages
<1>12. CASE ResolveShips(t)
  <2>1. rt[t].op = "launch" /\ (Stage(t, "get function") \/ Returns(t))
    BY <1>12 DEF ResolveShips, Resolving
  <2>2. "get function" \in LaunchStages
    BY DEF LaunchStages
  <2>3. QED
    BY <1>2, <1>4, <1>7, <2>1, <2>2
<1>13. CASE GetFunction(t) \/ PackKnown(t) \/ PackAsks(t) \/ RecordLayout(t)
  <2>1. rt[t].op = "launch"
    BY <1>1, <1>13 DEF GetFunction, PackKnown, PackAsks, RecordLayout, LaunchFits
  <2>2. \/ Returns(t)
        \/ \E s \in LaunchStages : \E g : rt' = [rt EXCEPT ![t].stage = s, ![t].fn = g] \/ rt' = [rt EXCEPT ![t].stage = s, ![t].slots = g]
    BY <1>13 DEF GetFunction, PackKnown, PackAsks, RecordLayout, Resolved, Packs, LaunchStages
  <2>3. QED
    BY <1>2, <1>4, <1>7, <2>1, <2>2
<1>14. QED
  BY <1>8, <1>9, <1>10, <1>11, <1>12, <1>13 DEF KernelNext

(* Every step of the runtime keeps the threads' places.                    *)
LEMMA RtPlaces ==
  ASSUME ShimTyped, RtTyped, PlaceInv, NEW t \in Threads, RtNext(t)
  PROVE  PlaceInv'
<1>1. program.on \subseteq Devices
  BY RuntimeAssumption DEF RtTyped
<1>2. CASE EnsureFast(t) \/ EnsureFinds(t) \/ EnsureRetains(t) \/ EnsureRetained(t) \/ EnsureSelects(t)
  BY <1>2, EnsurePlaces
<1>3. CASE Use(t) \/ RunUse(t) \/ \E d \in program.on : SetDevice(t, d)
  BY <1>1, <1>3, UsePlaces
<1>4. CASE BeginDeviceReset(t) \/ (\E d \in program.on : ResetReleases(t, d)) \/ ResetRecords(t) \/ EndDeviceReset(t)
  BY <1>1, <1>4, ResetPlaces
<1>5. CASE (\E op \in {"malloc", "malloc async"} : Malloc(t, op)) \/ RunMalloc(t) \/ ShimNotes(t) \/ NoteAlloc(t)
  BY <1>5, MallocPlaces
<1>6. CASE (\E a \in Addrs : Free(t, a) \/ FreeAsync(t, a)) \/ ShimForgets(t) \/ RunFree(t) \/ ForgetAlloc(t)
  BY <1>6, FreePlaces
<1>7. CASE \/ \E d \in program.on : \/ AppRetain(t, d) \/ AppRelease(t, d) \/ AppReset(t, d) \/ AppState(t, d)
                                    \/ \E f \in Flags : AppSetFlags(t, d, f)
           \/ AppRetained(t) \/ AppRecords(t)
  BY <1>1, <1>7, AppPlaces
<1>8. QED
  BY <1>2, <1>3, <1>4, <1>5, <1>6, <1>7 DEF RtNext

(* The threads begin at rest.                                              *)
LEMMA PlaceInit == Init => PlaceInv
<1> SUFFICES ASSUME Init PROVE PlaceInv
  OBVIOUS
<1>1. \A t \in Threads : rt[t] = NoFrame /\ call[t] = NoCall
  BY DEF Init, LibrariesInit, RuntimeInit, RtInit, BaseInit
<1>2. NoFrame.op = None /\ NoFrame.stage = None /\ NoCall.op = None
  BY DEF NoFrame, NoCall
<1>3. QED
  BY <1>1, <1>2 DEF PlaceInv, CallFits, HoldFits, None, CtxOps

-----------------------------------------------------------------------------
(* The record of a primary context.                                        *)

About(c, d)     == c.op \in CtxOps /\ c.x = d
IsRetain(c, d)  == About(c, d) /\ c.op = "retain" /\ c.r = "ok"
IsRelease(c, d) == About(c, d) /\ c.op = "release"
RetainsOf(C, d)  == {t \in Threads : IsRetain(C[t], d)}
ReleasesOf(C, d) == {t \in Threads : IsRelease(C[t], d)}
\* A call whose record will say other flags than the driver has, or none.
Changing(c) == c.op \in {"set flags", "release"} \/ (c.op = "reset" /\ (c.r # "refused" \/ c.got = 1))

(* The retains the process knows of: the application's, and the runtime's, *)
(* unless a reset is past its release.                                     *)
HeldIn(n, R, F, d) == n + IF d \in R /\ \A t \in Threads : F[t].op = "reset" => d \in F[t].todo THEN 1 ELSE 0
Held(d) == HeldIn(owned[d], retained, rt, d)

(* Between a call and its record, the driver counts no less than is known, *)
(* and the record no more; what a record says of the flags is so, or a     *)
(* call is pending that will correct it; and no call overlaps one that     *)
(* believes itself alone.                                                  *)
DevOk(d, v, p, b, h, C) ==
  /\ v.retains >= h + Cardinality(RetainsOf(C, d))
  /\ p.retained <= h + Cardinality(ReleasesOf(C, d))
  /\ p.flags_known /\ ~b /\ p.flags # v.flags => \E t \in Threads : About(C[t], d) /\ Changing(C[t])
  /\ \A t \in Threads : About(C[t], d) /\ C[t].alone =>
       /\ \A u \in Threads \ {t} : ~About(C[u], d)
       /\ C[t].op \in {"set flags", "state"} /\ C[t].r = "ok" => C[t].got = v.flags
       /\ C[t].op = "release" /\ p.retained >= 2 /\ p.flags_known /\ ~b => p.flags = v.flags
DevInv == \A d \in Devices : DevOk(d, driver[d], primary[d], doubted[d], Held(d), call)

(* What is remembered of each context, in the next state.                  *)
LEMMA DevParts ==
  DevInv' <=> \A d \in Devices : DevOk(d, driver'[d], primary'[d], doubted'[d], HeldIn(owned'[d], retained', rt', d), call')
  BY DEF DevInv, Held, DevOk, HeldIn, RetainsOf, ReleasesOf, IsRetain, IsRelease

(* Calls counted, when one thread's changes.                               *)
LEMMA OneMore ==
  ASSUME NEW S, S \subseteq Threads, NEW T, T \subseteq Threads, NEW t \in Threads, t \notin S, T = S \union {t}
  PROVE  Cardinality(S) \in Nat /\ Cardinality(T) = Cardinality(S) + 1
<1>1. IsFiniteSet(Threads)
  BY DriverShimAssumption
<1>2. IsFiniteSet(S)
  BY <1>1, FS_Subset
<1>3. QED
  BY <1>2, FS_AddElement, FS_CardinalityType

(* How a count of threads changes when one of them comes or goes.          *)
LEMMA CountOf ==
  ASSUME NEW S, S \subseteq Threads, NEW T, T \subseteq Threads, NEW t \in Threads, \A u \in Threads \ {t} : u \in S <=> u \in T,
         NEW x \in {0, 1}, x = 1 <=> t \in S, NEW y \in {0, 1}, y = 1 <=> t \in T
  PROVE  /\ Cardinality(S) \in Nat /\ Cardinality(T) \in Nat
         /\ Cardinality(T) + x = Cardinality(S) + y
         /\ x = 1 => Cardinality(S) >= 1
<1>1. IsFiniteSet(S) /\ IsFiniteSet(T)
  BY FS_Subset, DriverShimAssumption
<1>2. Cardinality(S) \in Nat /\ Cardinality(T) \in Nat
  BY <1>1, FS_CardinalityType
<1>3. ASSUME x = y PROVE Cardinality(T) + x = Cardinality(S) + y
  <2>1. S = T
    BY <1>3
  <2>2. QED
    BY <1>2, <1>3, <2>1
<1>4. ASSUME x = 1, y = 0 PROVE Cardinality(T) + x = Cardinality(S) + y
  <2>1. S = T \union {t} /\ t \notin T
    BY <1>4
  <2>2. Cardinality(S) = Cardinality(T) + 1
    BY <2>1, OneMore
  <2>3. QED
    BY <1>2, <1>4, <2>2
<1>5. ASSUME x = 0, y = 1 PROVE Cardinality(T) + x = Cardinality(S) + y
  <2>1. T = S \union {t} /\ t \notin S
    BY <1>5
  <2>2. Cardinality(T) = Cardinality(S) + 1
    BY <2>1, OneMore
  <2>3. QED
    BY <1>2, <1>5, <2>2
<1>6. ASSUME x = 1 PROVE Cardinality(S) >= 1
  <2>1. S \ {t} \subseteq Threads /\ t \notin S \ {t} /\ S = (S \ {t}) \union {t}
    BY <1>6
  <2>2. Cardinality(S \ {t}) \in Nat /\ Cardinality(S) = Cardinality(S \ {t}) + 1
    BY <2>1, OneMore
  <2>3. QED
    BY <2>2
<1>7. QED
  BY <1>2, <1>3, <1>4, <1>5, <1>6

(* How many calls retain a context and release it, when one thread's call  *)
(* changes.                                                                *)
LEMMA CallsCounted ==
  ASSUME NEW C, NEW E, NEW t \in Threads, NEW d, \A u \in Threads \ {t} : SameCall(C[u], E[u]),
         NEW x \in {0, 1}, x = 1 <=> IsRetain(C[t], d), NEW y \in {0, 1}, y = 1 <=> IsRetain(E[t], d),
         NEW z \in {0, 1}, z = 1 <=> IsRelease(C[t], d), NEW w \in {0, 1}, w = 1 <=> IsRelease(E[t], d)
  PROVE  /\ Cardinality(RetainsOf(C, d)) \in Nat /\ Cardinality(RetainsOf(E, d)) \in Nat
         /\ Cardinality(ReleasesOf(C, d)) \in Nat /\ Cardinality(ReleasesOf(E, d)) \in Nat
         /\ Cardinality(RetainsOf(E, d)) + x = Cardinality(RetainsOf(C, d)) + y
         /\ Cardinality(ReleasesOf(E, d)) + z = Cardinality(ReleasesOf(C, d)) + w
<1>1. /\ \A u \in Threads \ {t} : u \in RetainsOf(C, d) <=> u \in RetainsOf(E, d)
      /\ \A u \in Threads \ {t} : u \in ReleasesOf(C, d) <=> u \in ReleasesOf(E, d)
  BY DEF RetainsOf, ReleasesOf, IsRetain, IsRelease, About, SameCall
<1>2. /\ RetainsOf(C, d) \subseteq Threads /\ RetainsOf(E, d) \subseteq Threads
      /\ ReleasesOf(C, d) \subseteq Threads /\ ReleasesOf(E, d) \subseteq Threads
      /\ x = 1 <=> t \in RetainsOf(C, d)
      /\ y = 1 <=> t \in RetainsOf(E, d)
      /\ z = 1 <=> t \in ReleasesOf(C, d)
      /\ w = 1 <=> t \in ReleasesOf(E, d)
  BY DEF RetainsOf, ReleasesOf
<1>3. /\ Cardinality(RetainsOf(C, d)) \in Nat /\ Cardinality(RetainsOf(E, d)) \in Nat
      /\ Cardinality(RetainsOf(E, d)) + x = Cardinality(RetainsOf(C, d)) + y
  BY <1>1, <1>2, CountOf
<1>4. /\ Cardinality(ReleasesOf(C, d)) \in Nat /\ Cardinality(ReleasesOf(E, d)) \in Nat
      /\ Cardinality(ReleasesOf(E, d)) + z = Cardinality(ReleasesOf(C, d)) + w
  BY <1>1, <1>2, CountOf
<1>5. QED
  BY <1>3, <1>4

(* A context about which nothing happens.                                  *)
LEMMA DevSame ==
  ASSUME NEW d, NEW v, NEW p, NEW b, NEW h, NEW C, NEW E, DevOk(d, v, p, b, h, C),
         \A u \in Threads : /\ About(E[u], d) <=> About(C[u], d)
                            /\ About(C[u], d) => SameCall(C[u], E[u]) /\ (E[u].alone <=> C[u].alone)
  PROVE  DevOk(d, v, p, b, h, E)
<1>1. RetainsOf(E, d) = RetainsOf(C, d) /\ ReleasesOf(E, d) = ReleasesOf(C, d)
  BY DEF RetainsOf, ReleasesOf, IsRetain, IsRelease, SameCall
<1>2. \A u \in Threads : About(C[u], d) => (Changing(E[u]) <=> Changing(C[u]))
  BY DEF Changing, SameCall
<1>3. p.flags_known /\ ~b /\ p.flags # v.flags => \E t \in Threads : About(E[t], d) /\ Changing(E[t])
  BY <1>2 DEF DevOk
<1>4. \A t \in Threads : About(E[t], d) /\ E[t].alone =>
       /\ \A u \in Threads \ {t} : ~About(E[u], d)
       /\ E[t].op \in {"set flags", "state"} /\ E[t].r = "ok" => E[t].got = v.flags
       /\ E[t].op = "release" /\ p.retained >= 2 /\ p.flags_known /\ ~b => p.flags = v.flags
  <2> SUFFICES ASSUME NEW t \in Threads, About(E[t], d), E[t].alone
               PROVE  /\ \A u \in Threads \ {t} : ~About(E[u], d)
                      /\ E[t].op \in {"set flags", "state"} /\ E[t].r = "ok" => E[t].got = v.flags
                      /\ E[t].op = "release" /\ p.retained >= 2 /\ p.flags_known /\ ~b => p.flags = v.flags
    OBVIOUS
  <2>1. About(C[t], d) /\ C[t].alone /\ SameCall(C[t], E[t])
    OBVIOUS
  <2>2. /\ \A u \in Threads \ {t} : ~About(C[u], d)
        /\ C[t].op \in {"set flags", "state"} /\ C[t].r = "ok" => C[t].got = v.flags
        /\ C[t].op = "release" /\ p.retained >= 2 /\ p.flags_known /\ ~b => p.flags = v.flags
    BY <2>1 DEF DevOk
  <2>3. QED
    BY <2>1, <2>2 DEF SameCall
<1>5. QED
  BY <1>1, <1>3, <1>4 DEF DevOk

(* A call that is made counts from then on.                                *)
LEMMA CallsMade ==
  ASSUME NEW t \in Threads, NEW d \in Devices, NEW op \in CtxOps, NEW r \in Results, NEW got \in {0, 1},
         Asked(t, op, d, r, got), call[t].op = None,
         NEW x \in {0, 1}, x = 1 <=> op = "retain" /\ r = "ok", NEW y \in {0, 1}, y = 1 <=> op = "release"
  PROVE  /\ Cardinality(RetainsOf(call, d)) \in Nat /\ Cardinality(RetainsOf(call', d)) \in Nat
         /\ Cardinality(ReleasesOf(call, d)) \in Nat /\ Cardinality(ReleasesOf(call', d)) \in Nat
         /\ Cardinality(RetainsOf(call', d)) = Cardinality(RetainsOf(call, d)) + x
         /\ Cardinality(ReleasesOf(call', d)) = Cardinality(ReleasesOf(call, d)) + y
<1>1. /\ \A u \in Threads \ {t} : SameCall(call[u], call'[u])
      /\ ~About(call[t], d) /\ About(call'[t], d)
  BY DEF Asked, SameCall, About, CtxOps, None
<1>2. /\ 0 = 1 <=> IsRetain(call[t], d)
      /\ 0 = 1 <=> IsRelease(call[t], d)
      /\ x = 1 <=> IsRetain(call'[t], d)
      /\ y = 1 <=> IsRelease(call'[t], d)
  BY <1>1 DEF Asked, IsRetain, IsRelease
<1>3. /\ Cardinality(RetainsOf(call, d)) \in Nat /\ Cardinality(RetainsOf(call', d)) \in Nat
      /\ Cardinality(ReleasesOf(call, d)) \in Nat /\ Cardinality(ReleasesOf(call', d)) \in Nat
      /\ Cardinality(RetainsOf(call', d)) + 0 = Cardinality(RetainsOf(call, d)) + x
      /\ Cardinality(ReleasesOf(call', d)) + 0 = Cardinality(ReleasesOf(call, d)) + y
  BY <1>1, <1>2, CallsCounted
<1>4. QED
  BY <1>3

(* The sums by which a call that is made keeps the counts: a retain that   *)
(* succeeded, and a release, count until they are recorded.                *)
LEMMA AddUp ==
  ASSUME NEW h \in Nat, NEW i \in Nat, NEW v \in Nat, NEW w \in Nat, NEW p \in Nat, NEW k \in Nat, NEW m \in Nat,
         NEW K \in Nat, NEW M \in Nat, NEW x \in {0, 1}, NEW y \in {0, 1},
         w + h >= v + i + x, h <= i + y, K = k + x, M = m + y, v >= h + k, p <= h + m
  PROVE  w >= i + K /\ p <= i + M
  OBVIOUS

(* A call about a context, made: what it may change of it.                 *)
FlagsGo(op, r, got, v, w) ==
  /\ w.flags = v.flags \/ op \in {"set flags", "release"} \/ (op = "reset" /\ (r # "refused" \/ got = 1))
  /\ op \in {"set flags", "state"} /\ r = "ok" => got = w.flags
  /\ op = "release" /\ w.flags # v.flags => v.retains <= 1

(* A call about a context, made, keeps what is remembered of it.           *)
LEMMA DevAsked ==
  ASSUME ShimTyped, NEW t \in Threads, NEW d \in Devices, NEW op \in CtxOps, NEW r \in Results, NEW got \in {0, 1},
         Asked(t, op, d, r, got), call[t].op = None,
         NEW v \in DriverRec, NEW w \in DriverRec, NEW p \in RecordRec, NEW b \in BOOLEAN,
         NEW h \in Nat, NEW i \in Nat, DevOk(d, v, p, b, h, call),
         NEW x \in {0, 1}, x = 1 <=> op = "retain" /\ r = "ok", NEW y \in {0, 1}, y = 1 <=> op = "release",
         w.retains + h >= v.retains + i + x, h <= i + y,
         FlagsGo(op, r, got, v, w)
  PROVE  DevOk(d, w, p, b, i, call')
<1>0. /\ v.retains \in Nat /\ w.retains \in Nat /\ p.retained \in Nat
      /\ \A u \in Threads \ {t} : SameCall(call[u], call'[u])
      /\ ~About(call[t], d) /\ About(call'[t], d)
  BY DEF DriverRec, RecordRec, Asked, SameCall, About, CtxOps, None
<1>1. /\ Cardinality(RetainsOf(call, d)) \in Nat /\ Cardinality(RetainsOf(call', d)) \in Nat
      /\ Cardinality(ReleasesOf(call, d)) \in Nat /\ Cardinality(ReleasesOf(call', d)) \in Nat
      /\ Cardinality(RetainsOf(call', d)) = Cardinality(RetainsOf(call, d)) + x
      /\ Cardinality(ReleasesOf(call', d)) = Cardinality(ReleasesOf(call, d)) + y
  BY CallsMade
<1>2. w.retains >= i + Cardinality(RetainsOf(call', d)) /\ p.retained <= i + Cardinality(ReleasesOf(call', d))
  <2>1. v.retains >= h + Cardinality(RetainsOf(call, d)) /\ p.retained <= h + Cardinality(ReleasesOf(call, d))
    BY DEF DevOk
  <2>2. QED
    BY <1>0, <1>1, <2>1, AddUp
<1>3. ASSUME p.flags_known, ~b, p.flags # w.flags PROVE \E u \in Threads : About(call'[u], d) /\ Changing(call'[u])
  <2>1. CASE w.flags = v.flags
    <3>1. PICK u \in Threads : About(call[u], d) /\ Changing(call[u])
      BY <1>3, <2>1 DEF DevOk
    <3>2. u # t /\ SameCall(call[u], call'[u])
      BY <1>0, <3>1
    <3>3. QED
      BY <3>1, <3>2 DEF SameCall, About, Changing
  <2>2. CASE w.flags # v.flags
    <3>1. Changing(call'[t])
      BY <2>2 DEF Asked, Changing, FlagsGo
    <3>2. QED
      BY <1>0, <3>1
  <2>3. QED
    BY <2>1, <2>2
<1>4. ASSUME NEW u \in Threads, About(call'[u], d), call'[u].alone
      PROVE  /\ \A s \in Threads \ {u} : ~About(call'[s], d)
             /\ call'[u].op \in {"set flags", "state"} /\ call'[u].r = "ok" => call'[u].got = w.flags
             /\ call'[u].op = "release" /\ p.retained >= 2 /\ p.flags_known /\ ~b => p.flags = w.flags
  <2>1. u = t
    <3>1. SUFFICES ASSUME u # t PROVE FALSE
      OBVIOUS
    <3>2. call'[u].op = call[u].op /\ call'[u].x = call[u].x /\ ~(call[u].op # None /\ call[u].x = d)
      BY <1>4, <3>1 DEF Asked
    <3>3. QED
      BY <1>4, <3>2 DEF About, CtxOps, None
  <2>2. \A s \in Threads \ {t} : ~About(call[s], d)
    BY <1>4, <2>1 DEF Asked, About, CtxOps, None
  <2>3. \A s \in Threads \ {u} : ~About(call'[s], d)
    BY <1>0, <2>1, <2>2 DEF SameCall, About
  <2>4. call'[u].op = op /\ call'[u].r = r /\ call'[u].got = got
    BY <2>1 DEF Asked
  <2>5. ASSUME op = "release", p.retained >= 2, p.flags_known, ~b PROVE p.flags = w.flags
    <3>1. \A s \in Threads : ~About(call[s], d)
      BY <1>0, <2>2
    <3>2. ReleasesOf(call, d) = {}
      BY <3>1 DEF ReleasesOf, IsRelease
    <3>3. p.flags = v.flags
      BY <2>5, <3>1 DEF DevOk
    <3>4. Cardinality(ReleasesOf(call, d)) = 0
      BY <3>2, FS_EmptySet
    <3>5. p.retained <= h + Cardinality(ReleasesOf(call, d)) /\ v.retains >= h + Cardinality(RetainsOf(call, d))
      BY DEF DevOk
    <3>6. v.retains >= 2
      BY <1>0, <1>1, <2>5, <3>4, <3>5
    <3>7. QED
      BY <1>0, <2>5, <3>3, <3>6 DEF FlagsGo
  <2>6. QED
    BY <2>3, <2>4, <2>5 DEF FlagsGo
<1>5. QED
  BY <1>2, <1>3, <1>4 DEF DevOk

(* A call about a context, recorded: what the record may become.           *)
LEMMA DevRecorded ==
  ASSUME ShimTyped, NEW t \in Threads, NEW d \in Devices, About(call[t], d), ~About(call'[t], d),
         \A u \in Threads \ {t} : call'[u] = call[u],
         NEW v \in DriverRec, NEW p \in RecordRec, NEW q \in RecordRec, NEW b \in BOOLEAN, NEW a \in BOOLEAN,
         NEW h \in Nat, NEW i \in Nat, DevOk(d, v, p, b, h, call),
         NEW x \in {0, 1}, x = 1 <=> IsRetain(call[t], d), NEW y \in {0, 1}, y = 1 <=> IsRelease(call[t], d),
         i <= h + x, q.retained = 0 \/ q.retained + h + y <= p.retained + i,
         q.flags_known /\ ~a /\ q.flags # v.flags => p.flags_known /\ ~b /\ p.flags # v.flags /\ ~Changing(call[t])
  PROVE  DevOk(d, v, q, a, i, call')
<1>0. /\ v.retains \in Nat /\ p.retained \in Nat /\ q.retained \in Nat
      /\ \A u \in Threads \ {t} : SameCall(call[u], call'[u])
  BY DEF DriverRec, RecordRec, SameCall
<1>1. /\ Cardinality(RetainsOf(call, d)) \in Nat /\ Cardinality(RetainsOf(call', d)) \in Nat
      /\ Cardinality(ReleasesOf(call, d)) \in Nat /\ Cardinality(ReleasesOf(call', d)) \in Nat
      /\ Cardinality(RetainsOf(call', d)) + x = Cardinality(RetainsOf(call, d))
      /\ Cardinality(ReleasesOf(call', d)) + y = Cardinality(ReleasesOf(call, d))
  <2>1. /\ 0 = 1 <=> IsRetain(call'[t], d)
        /\ 0 = 1 <=> IsRelease(call'[t], d)
    BY DEF IsRetain, IsRelease
  <2>2. /\ Cardinality(RetainsOf(call, d)) \in Nat /\ Cardinality(RetainsOf(call', d)) \in Nat
        /\ Cardinality(ReleasesOf(call, d)) \in Nat /\ Cardinality(ReleasesOf(call', d)) \in Nat
        /\ Cardinality(RetainsOf(call', d)) + x = Cardinality(RetainsOf(call, d)) + 0
        /\ Cardinality(ReleasesOf(call', d)) + y = Cardinality(ReleasesOf(call, d)) + 0
    BY <1>0, <2>1, CallsCounted
  <2>3. QED
    BY <2>2
<1>2. /\ v.retains >= i + Cardinality(RetainsOf(call', d))
      /\ q.retained <= i + Cardinality(ReleasesOf(call', d))
  <2>1. v.retains >= h + Cardinality(RetainsOf(call, d)) /\ p.retained <= h + Cardinality(ReleasesOf(call, d))
    BY DEF DevOk
  <2>2. QED
    BY <1>0, <1>1, <2>1
<1>3. ASSUME q.flags_known, ~a, q.flags # v.flags PROVE \E u \in Threads : About(call'[u], d) /\ Changing(call'[u])
  <2>1. p.flags_known /\ ~b /\ p.flags # v.flags /\ ~Changing(call[t])
    BY <1>3
  <2>2. PICK u \in Threads : About(call[u], d) /\ Changing(call[u])
    BY <2>1 DEF DevOk
  <2>3. u # t /\ call'[u] = call[u]
    BY <2>1, <2>2
  <2>4. QED
    BY <2>2, <2>3
<1>4. \A u \in Threads : About(call'[u], d) => ~call'[u].alone
  <2> SUFFICES ASSUME NEW u \in Threads, About(call'[u], d), call'[u].alone PROVE FALSE
    OBVIOUS
  <2>1. u # t /\ call'[u] = call[u]
    OBVIOUS
  <2>2. ~About(call[t], d)
    BY <2>1 DEF DevOk
  <2>3. QED
    BY <2>2
<1>5. QED
  BY <1>2, <1>3, <1>4 DEF DevOk

(* The same, for every context: of the others nothing changes.             *)
HeldNext(d) == HeldIn(owned'[d], retained', rt', d)

(* What the process holds of a context is a count.                         *)
LEMMA HeldNat ==
  ASSUME ShimTyped, NEW d \in Devices PROVE Held(d) \in Nat
<1>1. owned[d] \in Nat
  BY DEF ShimTyped
<1>2. owned[d] + 0 \in Nat /\ owned[d] + 1 \in Nat
  BY <1>1
<1>3. QED
  BY <1>2 DEF Held, HeldIn

(* What is remembered of each context, by what is held of it next.         *)
LEMMA DevNext ==
  ASSUME \A d \in Devices : DevOk(d, driver'[d], primary'[d], doubted'[d], HeldNext(d), call')
  PROVE  DevInv'
  BY DevParts DEF HeldNext

(* A call that is made.                                                    *)
LEMMA AskedOthers ==
  ASSUME NEW t \in Threads, NEW d \in Devices, NEW op \in CtxOps, NEW r \in Results, NEW got \in {0, 1},
         Asked(t, op, d, r, got), call[t].op = None, NEW e \in Devices, e # d,
         NEW v, NEW p, NEW b, NEW h, DevOk(e, v, p, b, h, call)
  PROVE  DevOk(e, v, p, b, h, call')
<1>1. ASSUME NEW u \in Threads
      PROVE  /\ About(call'[u], e) <=> About(call[u], e)
             /\ About(call[u], e) => SameCall(call[u], call'[u]) /\ (call'[u].alone <=> call[u].alone)
  <2>1. CASE u = t
    BY <2>1 DEF About, Asked, CtxOps, None
  <2>2. CASE u # t
    <3>1. SameCall(call[u], call'[u])
      BY <2>2 DEF Asked, SameCall
    <3>2. ASSUME About(call[u], e) PROVE call'[u].alone <=> call[u].alone
      BY <2>2, <3>2 DEF Asked, About
    <3>3. QED
      BY <3>1, <3>2 DEF SameCall, About
  <2>3. QED
    BY <2>1, <2>2
<1>2. QED
  BY <1>1, DevSame

AskMakes(t, op, d, r, got) == op \in CtxOps /\ r \in Results /\ got \in {0, 1} /\ Asked(t, op, d, r, got)

(* A call about one context keeps what is remembered of them all.          *)
LEMMA AskKeeps ==
  ASSUME ShimTyped, DevInv, NEW t \in Threads, NEW d \in Devices, NEW op, NEW r, NEW got, AskMakes(t, op, d, r, got),
         call[t].op = None, UNCHANGED <<primary, doubted>>, driver'[d] \in DriverRec,
         \A e \in Devices \ {d} : driver'[e] = driver[e] /\ HeldNext(e) = Held(e),
         HeldNext(d) \in Nat, NEW x \in {0, 1}, x = 1 <=> op = "retain" /\ r = "ok", NEW y \in {0, 1}, y = 1 <=> op = "release",
         driver'[d].retains + Held(d) >= driver[d].retains + HeldNext(d) + x, Held(d) <= HeldNext(d) + y,
         FlagsGo(op, r, got, driver[d], driver'[d])
  PROVE  DevInv'
<1>1. /\ driver[d] \in DriverRec /\ primary[d] \in RecordRec /\ doubted[d] \in BOOLEAN
  BY DEF ShimTyped
<1>2. DevOk(d, driver[d], primary[d], doubted[d], Held(d), call) /\ Held(d) \in Nat
  BY HeldNat DEF DevInv
<1>3. DevOk(d, driver'[d], primary[d], doubted[d], HeldNext(d), call')
  BY <1>1, <1>2, DevAsked DEF AskMakes
<1>4. ASSUME NEW e \in Devices \ {d} PROVE DevOk(e, driver[e], primary[e], doubted[e], Held(e), call')
  <2>1. DevOk(e, driver[e], primary[e], doubted[e], Held(e), call)
    BY DEF DevInv
  <2>2. QED
    BY <2>1, AskedOthers DEF AskMakes
<1>5. \A e \in Devices : DevOk(e, driver'[e], primary'[e], doubted'[e], HeldNext(e), call')
  BY <1>3, <1>4
<1>6. QED
  BY <1>5, DevNext

(* The calls.                                                              *)
LEMMA AskRetainKeeps ==
  ASSUME ShimTyped, DevInv, NEW t \in Threads, NEW d \in Devices, AskRetain(t, d), call[t].op = None, UNCHANGED doubted,
         \A e \in Devices : HeldNext(e) = Held(e)
  PROVE  DevInv'
<1>1. PICK o \in Outcomes : /\ driver' = [driver EXCEPT ![d].retains = IF o.ran THEN driver[d].retains + 1 ELSE driver[d].retains]
                            /\ Ask(t, "retain", d, o.r, 0)
  BY DEF AskRetain
<1>2. o.ran \in BOOLEAN /\ o.r \in {"ok", "error"} /\ (o.r = "ok" => o.ran) /\ o.r \in Results
  BY OutcomesAre DEF Results
<1>3. AskMakes(t, "retain", d, o.r, 0)
  BY <1>1, <1>2, AskEffect DEF AskMakes, CtxOps
<1>4. driver \in [Devices -> DriverRec] /\ driver[d] \in DriverRec /\ driver[d].retains \in Nat
  <2>1. driver \in [Devices -> DriverRec] /\ driver[d] \in DriverRec
    BY DEF ShimTyped
  <2>2. QED
    BY <2>1 DEF DriverRec
<1> DEFINE n == IF o.ran THEN driver[d].retains + 1 ELSE driver[d].retains
           x == IF o.r = "ok" THEN 1 ELSE 0
<1>5. n \in Nat /\ x \in {0, 1} /\ n >= driver[d].retains + x
  BY <1>2, <1>4
<1>6. driver' = [driver EXCEPT ![d] = [driver[d] EXCEPT !.retains = n]]
  BY <1>1, <1>4
<1>7. x = 1 <=> "retain" = "retain" /\ o.r = "ok"
  OBVIOUS
<1> HIDE DEF n, x
<1>8. /\ [driver[d] EXCEPT !.retains = n].retains = n /\ [driver[d] EXCEPT !.retains = n].flags = driver[d].flags
      /\ [driver[d] EXCEPT !.retains = n] \in DriverRec
  BY <1>4, <1>5 DEF DriverRec
<1>9. /\ driver'[d].retains = n /\ driver'[d].flags = driver[d].flags /\ driver'[d] \in DriverRec
      /\ \A e \in Devices \ {d} : driver'[e] = driver[e]
  BY <1>4, <1>6, <1>8
<1>10. Held(d) \in Nat /\ HeldNext(d) = Held(d) /\ driver'[d].retains + Held(d) >= driver[d].retains + HeldNext(d) + x
       /\ Held(d) <= HeldNext(d) + 0
  BY <1>4, <1>5, <1>9, HeldNat
<1>11. FlagsGo("retain", o.r, 0, driver[d], driver'[d])
  BY <1>9 DEF FlagsGo
<1>12. 0 = 1 <=> "retain" = "release"
  OBVIOUS
<1>13. UNCHANGED <<primary, doubted>>
  BY DEF AskRetain
<1>14. QED
  BY <1>3, <1>5, <1>7, <1>9, <1>10, <1>11, <1>12, <1>13, AskKeeps

(* A release is made after its holder let go of it: the driver counts one  *)
(* less at most, and the record still counts it.                           *)
LEMMA AskReleaseKeeps ==
  ASSUME ShimTyped, DevInv, NEW t \in Threads, NEW d \in Devices, AskRelease(t, d), call[t].op = None, UNCHANGED doubted,
         HeldNext(d) \in Nat, Held(d) = HeldNext(d) + 1, \A e \in Devices \ {d} : HeldNext(e) = Held(e)
  PROVE  DevInv'
<1>1. PICK o \in Outcomes :
        /\ IF ~o.ran \/ ~Active(d) THEN UNCHANGED <<driver, mem>>
           ELSE IF driver[d].retains = 1 /\ ~others THEN Ended(d, 0)
           ELSE driver' = [driver EXCEPT ![d].retains = driver[d].retains - 1] /\ UNCHANGED mem
        /\ Ask(t, "release", d, o.r, 0) /\ UNCHANGED <<others, primary, allocs>>
  BY DEF AskRelease
<1>2. o.r \in Results
  BY OutcomesAre DEF Results
<1>3. AskMakes(t, "release", d, o.r, 0)
  BY <1>1, <1>2, AskEffect DEF AskMakes, CtxOps
<1>4. driver \in [Devices -> DriverRec] /\ driver[d] \in DriverRec /\ driver[d].retains \in Nat
  <2>1. driver \in [Devices -> DriverRec] /\ driver[d] \in DriverRec
    BY DEF ShimTyped
  <2>2. QED
    BY <2>1 DEF DriverRec
<1>5. driver' \in [Devices -> DriverRec]
  BY AskTypes DEF ShimMost
<1>6. /\ driver'[d].retains + 1 >= driver[d].retains
      /\ driver'[d].flags # driver[d].flags => driver[d].retains <= 1
      /\ \A e \in Devices \ {d} : driver'[e] = driver[e]
  <2>1. CASE UNCHANGED driver
    BY <1>4, <2>1
  <2>2. CASE driver[d].retains = 1 /\ Ended(d, 0)
    <3>1. PICK f \in {0, driver[d].flags} :
            driver' = [driver EXCEPT ![d] = [retains |-> 0, flags |-> f, life |-> driver[d].life + 1]]
      BY <2>2 DEF Ended
    <3>2. driver'[d].retains = 0 /\ \A e \in Devices \ {d} : driver'[e] = driver[e]
      BY <1>4, <3>1
    <3>3. QED
      BY <2>2, <3>2
  <2>3. CASE driver' = [driver EXCEPT ![d].retains = driver[d].retains - 1]
    <3>1. driver' = [driver EXCEPT ![d] = [driver[d] EXCEPT !.retains = driver[d].retains - 1]]
      BY <1>4, <2>3
    <3>2. /\ [driver[d] EXCEPT !.retains = driver[d].retains - 1].retains = driver[d].retains - 1
          /\ [driver[d] EXCEPT !.retains = driver[d].retains - 1].flags = driver[d].flags
      BY <1>4 DEF DriverRec
    <3>3. driver'[d].retains = driver[d].retains - 1 /\ driver'[d].flags = driver[d].flags
          /\ \A e \in Devices \ {d} : driver'[e] = driver[e]
      BY <1>4, <3>1, <3>2
    <3>4. QED
      BY <1>4, <3>3
  <2>4. QED
    BY <1>1, <2>1, <2>2, <2>3
<1>7. driver'[d] \in DriverRec /\ driver'[d].retains \in Nat
  BY <1>5 DEF DriverRec
<1>8. driver'[d].retains + Held(d) >= driver[d].retains + HeldNext(d) + 0 /\ Held(d) <= HeldNext(d) + 1
  BY <1>4, <1>6, <1>7
<1>9. FlagsGo("release", o.r, 0, driver[d], driver'[d])
  BY <1>6 DEF FlagsGo
<1>10. (0 = 1 <=> "release" = "retain" /\ o.r = "ok") /\ (1 = 1 <=> "release" = "release")
  OBVIOUS
<1>11. UNCHANGED <<primary, doubted>>
  BY <1>1
<1>12. QED
  BY <1>3, <1>6, <1>7, <1>8, <1>9, <1>10, <1>11, AskKeeps

(* A call that retains nothing and releases nothing.                       *)
LEMMA AskElseKeeps ==
  ASSUME ShimTyped, DevInv, NEW t \in Threads, NEW d \in Devices, NEW op \in CtxOps \ {"retain", "release"}, NEW r, NEW got,
         AskMakes(t, op, d, r, got), call[t].op = None, UNCHANGED <<primary, doubted>>, driver' \in [Devices -> DriverRec],
         \A e \in Devices \ {d} : driver'[e] = driver[e], driver'[d].retains = driver[d].retains,
         \A e \in Devices : HeldNext(e) = Held(e), FlagsGo(op, r, got, driver[d], driver'[d])
  PROVE  DevInv'
<1>1. driver[d] \in DriverRec /\ driver'[d] \in DriverRec
  BY DEF ShimTyped
<1>2. driver[d].retains \in Nat /\ Held(d) \in Nat /\ HeldNext(d) = Held(d)
  BY <1>1, HeldNat DEF DriverRec
<1>3. driver'[d].retains + Held(d) >= driver[d].retains + HeldNext(d) + 0 /\ Held(d) <= HeldNext(d) + 0 /\ HeldNext(d) \in Nat
  BY <1>2
<1>4. (0 = 1 <=> op = "retain" /\ r = "ok") /\ (0 = 1 <=> op = "release")
  OBVIOUS
<1>5. \A e \in Devices \ {d} : driver'[e] = driver[e] /\ HeldNext(e) = Held(e)
  OBVIOUS
<1>6. QED
  BY <1>1, <1>3, <1>4, <1>5, AskKeeps

(* A reset, a query, and a change of the flags, made: the counts stay, and *)
(* a change of the flags is in a call's hands.                             *)
LEMMA AskOthersKeep ==
  ASSUME ShimTyped, DevInv, NEW t \in Threads, NEW d \in Devices, call[t].op = None, UNCHANGED doubted,
         AskReset(t, d) \/ AskState(t, d) \/ (\E f \in Flags : AskSetFlags(t, d, f)), \A e \in Devices : HeldNext(e) = Held(e)
  PROVE  DevInv'
<1>1. driver' \in [Devices -> DriverRec]
  BY AskTypes DEF ShimMost
<1>2. driver \in [Devices -> DriverRec] /\ driver[d] \in DriverRec /\ driver[d].flags \in Flags
  <2>1. driver \in [Devices -> DriverRec] /\ driver[d] \in DriverRec
    BY DEF ShimTyped
  <2>2. QED
    BY <2>1 DEF DriverRec
<1>3. UNCHANGED primary
  BY DEF AskReset, AskState, AskSetFlags
<1>4. ASSUME NEW op \in {"reset", "set flags", "state"}, NEW r \in Results, NEW got \in {0, 1}, Ask(t, op, d, r, got),
             \A e \in Devices \ {d} : driver'[e] = driver[e], driver'[d].retains = driver[d].retains,
             FlagsGo(op, r, got, driver[d], driver'[d])
      PROVE  DevInv'
  <2>1. op \in CtxOps \ {"retain", "release"}
    BY <1>4 DEF CtxOps
  <2>2. AskMakes(t, op, d, r, got)
    BY <1>4, <2>1, AskEffect DEF AskMakes
  <2>3. QED
    BY <1>1, <1>3, <1>4, <2>1, <2>2, AskElseKeeps
<1>5. CASE AskReset(t, d)
  <2>1. CASE Ask(t, "reset", d, "refused", 0) /\ UNCHANGED driver
    <3>1. FlagsGo("reset", "refused", 0, driver[d], driver'[d])
      BY <2>1 DEF FlagsGo
    <3>2. QED
      BY <1>4, <2>1, <3>1 DEF Results
  <2>2. ASSUME NEW o \in Outcomes, NEW r \in {o.r} \cup (IF o.r = "error" THEN {"refused"} ELSE {}),
               IF o.ran /\ Active(d) THEN Ended(d, driver[d].retains) ELSE UNCHANGED <<driver, mem>>,
               Ask(t, "reset", d, r, IF o.ran /\ r = "refused" THEN 1 ELSE 0)
        PROVE  DevInv'
    <3>1. o.ran \in BOOLEAN /\ r \in Results /\ (IF o.ran /\ r = "refused" THEN 1 ELSE 0) \in {0, 1}
      BY OutcomesAre DEF Results
    <3>2. /\ \A e \in Devices \ {d} : driver'[e] = driver[e]
          /\ driver'[d].retains = driver[d].retains /\ (driver'[d].flags = driver[d].flags \/ o.ran)
      <4>1. CASE UNCHANGED driver
        BY <4>1
      <4>2. CASE o.ran /\ Ended(d, driver[d].retains)
        <5>1. PICK f \in {0, driver[d].flags} :
                driver' = [driver EXCEPT ![d] = [retains |-> driver[d].retains, flags |-> f, life |-> driver[d].life + 1]]
          BY <4>2 DEF Ended
        <5>2. driver'[d].retains = driver[d].retains /\ \A e \in Devices \ {d} : driver'[e] = driver[e]
          BY <1>2, <5>1
        <5>3. QED
          BY <4>2, <5>2
      <4>3. QED
        BY <2>2, <4>1, <4>2
    <3>3. FlagsGo("reset", r, IF o.ran /\ r = "refused" THEN 1 ELSE 0, driver[d], driver'[d])
      BY <3>2 DEF FlagsGo
    <3> DEFINE g == IF o.ran /\ r = "refused" THEN 1 ELSE 0
    <3> HIDE DEF g
    <3>4. Ask(t, "reset", d, r, g) /\ FlagsGo("reset", r, g, driver[d], driver'[d]) /\ g \in {0, 1}
      BY <2>2, <3>1, <3>3 DEF g
    <3>5. QED
      BY <1>4, <3>1, <3>2, <3>4
  <2>3. QED
    BY <1>5, <2>1, <2>2 DEF AskReset
<1>6. CASE AskState(t, d)
  <2>1. PICK o \in Outcomes : Ask(t, "state", d, o.r, driver[d].flags)
    BY <1>6 DEF AskState
  <2>2. UNCHANGED driver /\ o.r \in Results
    BY <1>6, OutcomesAre DEF AskState, driverVars, Results
  <2>3. FlagsGo("state", o.r, driver[d].flags, driver[d], driver'[d])
    BY <2>2 DEF FlagsGo
  <2>4. QED
    BY <1>2, <1>4, <2>1, <2>2, <2>3 DEF Flags
<1>7. ASSUME NEW f \in Flags, AskSetFlags(t, d, f) PROVE DevInv'
  <2>1. PICK o \in Outcomes : driver' = [driver EXCEPT ![d].flags = IF o.ran THEN f ELSE driver[d].flags]
                              /\ Ask(t, "set flags", d, o.r, f)
    BY <1>7 DEF AskSetFlags
  <2>2. (o.r = "ok" => o.ran) /\ o.r \in Results
    BY OutcomesAre DEF Results
  <2> DEFINE g == IF o.ran THEN f ELSE driver[d].flags
  <2>3. driver' = [driver EXCEPT ![d] = [driver[d] EXCEPT !.flags = g]]
    BY <1>2, <2>1
  <2>4. o.r = "ok" => f = g
    BY <2>2
  <2> HIDE DEF g
  <2>5. [driver[d] EXCEPT !.flags = g].flags = g /\ [driver[d] EXCEPT !.flags = g].retains = driver[d].retains
    BY <1>2 DEF DriverRec
  <2>6. /\ \A e \in Devices \ {d} : driver'[e] = driver[e]
        /\ driver'[d].retains = driver[d].retains /\ driver'[d].flags = g
    BY <1>2, <2>3, <2>5
  <2>7. FlagsGo("set flags", o.r, f, driver[d], driver'[d])
    BY <2>4, <2>6 DEF FlagsGo
  <2>8. QED
    BY <1>4, <2>1, <2>2, <2>6, <2>7 DEF Flags
<1>8. QED
  BY <1>5, <1>6, <1>7

(* An answer that is recorded.                                             *)
LEMMA RecordKeeps ==
  ASSUME ShimTyped, DevInv, NEW t \in Threads, NEW d \in Devices, About(call[t], d), Recorded(t), UNCHANGED driver,
         \A e \in Devices \ {d} : primary'[e] = primary[e] /\ doubted'[e] = doubted[e] /\ HeldNext(e) = Held(e),
         primary'[d] \in RecordRec, doubted'[d] \in BOOLEAN, HeldNext(d) \in Nat,
         NEW x \in {0, 1}, x = 1 <=> IsRetain(call[t], d), NEW y \in {0, 1}, y = 1 <=> IsRelease(call[t], d),
         HeldNext(d) <= Held(d) + x, primary'[d].retained = 0 \/ primary'[d].retained + Held(d) + y <= primary[d].retained + HeldNext(d),
         primary'[d].flags_known /\ ~doubted'[d] /\ primary'[d].flags # driver[d].flags
           => primary[d].flags_known /\ ~doubted[d] /\ primary[d].flags # driver[d].flags /\ ~Changing(call[t])
  PROVE  DevInv'
<1>1. /\ driver[d] \in DriverRec /\ primary[d] \in RecordRec /\ doubted[d] \in BOOLEAN
  BY DEF ShimTyped
<1>2. DevOk(d, driver[d], primary[d], doubted[d], Held(d), call) /\ Held(d) \in Nat
  BY HeldNat DEF DevInv
<1>3. call'[t].op = None /\ \A u \in Threads \ {t} : call'[u] = call[u]
  BY OverPlaces
<1>4. \A e \in Devices : ~About(call'[t], e)
  BY <1>3 DEF About, CtxOps, None
<1>5. DevOk(d, driver[d], primary'[d], doubted'[d], HeldNext(d), call')
  BY <1>1, <1>2, <1>3, <1>4, DevRecorded
<1>6. ASSUME NEW e \in Devices \ {d} PROVE DevOk(e, driver[e], primary[e], doubted[e], Held(e), call')
  <2>1. DevOk(e, driver[e], primary[e], doubted[e], Held(e), call)
    BY DEF DevInv
  <2>2. ASSUME NEW u \in Threads
        PROVE  /\ About(call'[u], e) <=> About(call[u], e)
               /\ About(call[u], e) => SameCall(call[u], call'[u]) /\ (call'[u].alone <=> call[u].alone)
    BY <1>3, <1>4 DEF About, SameCall
  <2>3. QED
    BY <2>1, <2>2, DevSame
<1>7. \A e \in Devices : DevOk(e, driver'[e], primary'[e], doubted'[e], HeldNext(e), call')
  BY <1>5, <1>6
<1>8. QED
  BY <1>7, DevNext

(* A retain is recorded when its holder takes it, if it succeeded.         *)
LEMMA RecordRetainKeeps ==
  ASSUME ShimTyped, DevInv, NEW t \in Threads, RecordRetain(t), UNCHANGED doubted,
         HeldNext(call[t].x) = Held(call[t].x) + (IF call[t].r = "ok" THEN 1 ELSE 0),
         \A e \in Devices \ {call[t].x} : HeldNext(e) = Held(e)
  PROVE  DevInv'
<1> DEFINE d == call[t].x
           x == IF call[t].r = "ok" THEN 1 ELSE 0
<1>1. d \in Devices /\ call[t].op = "retain" /\ About(call[t], d) /\ Recorded(t) /\ UNCHANGED driver
  BY RecordPlaces DEF About, RecordRetain, driverVars
<1>2. /\ x \in {0, 1}
      /\ x = 1 <=> IsRetain(call[t], d)
      /\ 0 = 1 <=> IsRelease(call[t], d)
  BY <1>1 DEF IsRetain, IsRelease
<1>3. primary' = [primary EXCEPT ![d] = [primary[d] EXCEPT !.retained = primary[d].retained + 1]] \/ (x = 0 /\ primary' = primary)
  BY DEF RecordRetain
<1>4. ~Changing(call[t])
  BY <1>1 DEF Changing
<1>5. HeldNext(d) = Held(d) + x /\ \A e \in Devices \ {d} : HeldNext(e) = Held(e)
  OBVIOUS
<1>6. primary \in [Devices -> RecordRec] /\ doubted \in [Devices -> BOOLEAN]
  BY DEF ShimTyped
<1>13. call[t].r # "ok" => primary' = primary
  BY DEF RecordRetain
<1>14. call[t].r = "ok" => primary' = [primary EXCEPT ![d] = [primary[d] EXCEPT !.retained = primary[d].retained + 1]]
  BY DEF RecordRetain
<1>15. (call[t].r = "ok" <=> x = 1) /\ (call[t].r # "ok" <=> x = 0)
  OBVIOUS
<1> HIDE DEF d, x
<1>7. Held(d) \in Nat /\ HeldNext(d) \in Nat
  BY <1>1, <1>2, <1>5, HeldNat
<1>8. primary[d] \in RecordRec /\ primary[d].retained \in Nat
  BY <1>1, <1>6 DEF RecordRec
<1>9. /\ [primary[d] EXCEPT !.retained = primary[d].retained + 1].retained = primary[d].retained + 1
      /\ [primary[d] EXCEPT !.retained = primary[d].retained + 1].flags = primary[d].flags
      /\ [primary[d] EXCEPT !.retained = primary[d].retained + 1].flags_known = primary[d].flags_known
      /\ [primary[d] EXCEPT !.retained = primary[d].retained + 1] \in RecordRec
  BY <1>8 DEF RecordRec
<1>10. /\ primary'[d].retained = primary[d].retained + x /\ primary'[d].flags = primary[d].flags
       /\ primary'[d].flags_known = primary[d].flags_known /\ primary'[d] \in RecordRec
       /\ \A e \in Devices \ {d} : primary'[e] = primary[e]
  <2>1. CASE x = 1
    BY <1>1, <1>6, <1>9, <1>14, <1>15, <2>1
  <2>2. CASE x = 0
    BY <1>8, <1>13, <1>15, <2>2
  <2>3. QED
    BY <1>2, <2>1, <2>2
<1>11. /\ HeldNext(d) <= Held(d) + x /\ primary'[d].retained + Held(d) + 0 <= primary[d].retained + HeldNext(d)
  BY <1>2, <1>5, <1>7, <1>8, <1>10
<1>12. QED
  BY <1>1, <1>2, <1>4, <1>5, <1>6, <1>7, <1>10, <1>11, RecordKeeps

(* The other answers, recorded.                                            *)
LEMMA RecordReleaseKeeps ==
  ASSUME ShimTyped, DevInv, NEW t \in Threads, RecordRelease(t), \A e \in Devices : HeldNext(e) = Held(e)
  PROVE  DevInv'
<1> DEFINE d == call[t].x
           left == IF primary[d].retained > 0 THEN primary[d].retained - 1 ELSE 0
           q == ReleaseIn(primary[d], call[t].r)
<1>1. d \in Devices /\ call[t].op = "release" /\ About(call[t], d) /\ Recorded(t) /\ UNCHANGED driver
  BY RecordPlaces DEF About, RecordRelease, driverVars
<1>2. primary \in [Devices -> RecordRec] /\ doubted \in [Devices -> BOOLEAN] /\ primary[d] \in RecordRec
  BY <1>1 DEF ShimTyped
<1>3. primary[d].retained \in Nat /\ primary[d].flags_known \in BOOLEAN
  BY <1>2 DEF RecordRec
<1>4. primary' = [primary EXCEPT ![d] = q] /\ doubted' = [doubted EXCEPT ![d] = doubted[d] \/ ~call[t].alone]
  BY <1>1, <1>2 DEF RecordRelease
<1>5. q = [primary[d] EXCEPT !.retained = left, !.flags_known = primary[d].flags_known /\ left > 0]
  BY DEF ReleaseIn
<1>6. /\ q \in RecordRec /\ q.retained = left /\ q.flags = primary[d].flags
      /\ q.flags_known <=> primary[d].flags_known /\ left > 0
  <2> DEFINE b == primary[d].flags_known /\ left > 0
             p == primary[d]
  <2>2. left \in Nat /\ b \in BOOLEAN /\ p \in RecordRec /\ q = [p EXCEPT !.retained = left, !.flags_known = b]
    BY <1>2, <1>3, <1>5
  <2>3. (b <=> primary[d].flags_known /\ left > 0) /\ p = primary[d]
    OBVIOUS
  <2> HIDE DEF left, b, q, p
  <2>4. q \in RecordRec /\ q.retained = left /\ q.flags = p.flags /\ q.flags_known = b
    <3>1. [p EXCEPT !.retained = left, !.flags_known = b] \in RecordRec
      BY <2>2 DEF RecordRec
    <3>2. /\ [p EXCEPT !.retained = left, !.flags_known = b].retained = left
          /\ [p EXCEPT !.retained = left, !.flags_known = b].flags = p.flags
          /\ [p EXCEPT !.retained = left, !.flags_known = b].flags_known = b
      BY <2>2 DEF RecordRec
    <3>3. QED
      BY <2>2, <3>1, <3>2
  <2>5. QED
    BY <2>3, <2>4
<1>7. left = 0 \/ left + 1 = primary[d].retained
  BY <1>3
<1>8. Held(d) \in Nat /\ HeldNext(d) = Held(d)
  BY <1>1, HeldNat
<1>9. /\ 0 = 1 <=> IsRetain(call[t], d)
      /\ 1 = 1 <=> IsRelease(call[t], d)
  BY <1>1 DEF IsRetain, IsRelease
<1>10. DevOk(d, driver[d], primary[d], doubted[d], Held(d), call)
  BY <1>1 DEF DevInv
<1>11. call[t].alone /\ primary[d].retained >= 2 /\ primary[d].flags_known /\ ~doubted[d] => primary[d].flags = driver[d].flags
  BY <1>1, <1>10 DEF DevOk
<1>12. left \in Nat
  BY <1>3
<1> HIDE DEF d, q, left
<1>13. /\ primary'[d] = q /\ (doubted'[d] <=> doubted[d] \/ ~call[t].alone) /\ doubted'[d] \in BOOLEAN
       /\ \A e \in Devices \ {d} : primary'[e] = primary[e] /\ doubted'[e] = doubted[e]
  BY <1>1, <1>2, <1>4
<1>14. left > 0 => primary[d].retained >= 2
  BY <1>3, <1>7, <1>12
<1>15. primary'[d].flags_known /\ ~doubted'[d] => primary'[d].flags = driver[d].flags
  BY <1>6, <1>11, <1>13, <1>14
<1>16. /\ HeldNext(d) <= Held(d) + 0
       /\ primary'[d].retained = 0 \/ primary'[d].retained + Held(d) + 1 <= primary[d].retained + HeldNext(d)
  BY <1>3, <1>6, <1>7, <1>8, <1>12, <1>13
<1>17. QED
  BY <1>1, <1>6, <1>8, <1>9, <1>13, <1>15, <1>16, RecordKeeps

(* An answer recorded that counts nothing, or forgets everything.          *)
LEMMA RecordElseKeeps ==
  ASSUME ShimTyped, DevInv, NEW t \in Threads, NEW d \in Devices, call[t].op \in CtxOps \ {"retain", "release"}, call[t].x = d,
         Recorded(t), UNCHANGED driver, \A e \in Devices \ {d} : primary'[e] = primary[e] /\ doubted'[e] = doubted[e],
         primary'[d] \in RecordRec, doubted'[d] \in BOOLEAN, primary'[d].retained \in {0, primary[d].retained},
         \A e \in Devices : HeldNext(e) = Held(e),
         primary'[d].flags_known /\ ~doubted'[d] /\ primary'[d].flags # driver[d].flags
           => primary[d].flags_known /\ ~doubted[d] /\ primary[d].flags # driver[d].flags /\ ~Changing(call[t])
  PROVE  DevInv'
<1>1. About(call[t], d)
  BY DEF About
<1>2. (0 = 1 <=> IsRetain(call[t], d)) /\ (0 = 1 <=> IsRelease(call[t], d))
  BY DEF IsRetain, IsRelease
<1>3. Held(d) \in Nat /\ HeldNext(d) = Held(d)
  BY HeldNat
<1>4. primary[d].retained \in Nat /\ primary'[d].retained \in Nat
  BY DEF ShimTyped, RecordRec
<1>5. primary'[d].retained = 0 \/ primary'[d].retained + Held(d) + 0 <= primary[d].retained + HeldNext(d)
  BY <1>3, <1>4
<1>6. HeldNext(d) <= Held(d) + 0 /\ HeldNext(d) \in Nat
  BY <1>3
<1>7. QED
  BY <1>1, <1>2, <1>5, <1>6, RecordKeeps

(* The answers of a reset, a query and a change of the flags, recorded.    *)
LEMMA RecordOthersKeep ==
  ASSUME ShimTyped, DevInv, NEW t \in Threads, RecordReset(t) \/ RecordSetFlags(t) \/ RecordState(t),
         \A e \in Devices : HeldNext(e) = Held(e)
  PROVE  DevInv'
<1> DEFINE d == call[t].x
<1>1. /\ d \in Devices /\ Recorded(t) /\ UNCHANGED driver
      /\ call[t].op \in CtxOps \ {"retain", "release"} /\ About(call[t], d)
  BY RecordPlaces DEF About, RecordReset, RecordSetFlags, RecordState, driverVars
<1>2. primary \in [Devices -> RecordRec] /\ doubted \in [Devices -> BOOLEAN] /\ primary[d] \in RecordRec /\ doubted[d] \in BOOLEAN
  BY <1>1 DEF ShimTyped
<1>3. call[t].got \in Flags /\ call[t].alone \in BOOLEAN
  BY DEF ShimTyped, CallRec, Flags
<1>4. DevOk(d, driver[d], primary[d], doubted[d], Held(d), call)
  BY <1>1 DEF DevInv
<1>5. call[t].alone /\ call[t].op \in {"set flags", "state"} /\ call[t].r = "ok" => call[t].got = driver[d].flags
  BY <1>1, <1>4 DEF DevOk
<1>6. ASSUME NEW q \in RecordRec, NEW b \in BOOLEAN, primary' = [primary EXCEPT ![d] = q], doubted' = [doubted EXCEPT ![d] = b],
             q.retained \in {0, primary[d].retained},
             q.flags_known /\ ~b /\ q.flags # driver[d].flags
               => primary[d].flags_known /\ ~doubted[d] /\ primary[d].flags # driver[d].flags /\ ~Changing(call[t])
      PROVE  DevInv'
  <2> HIDE DEF d
  <2>1. /\ primary'[d] = q /\ doubted'[d] = b
        /\ \A e \in Devices \ {d} : primary'[e] = primary[e] /\ doubted'[e] = doubted[e]
    BY <1>1, <1>2, <1>6
  <2>2. call[t].x = d
    BY DEF d
  <2>3. QED
    BY <1>1, <1>6, <2>1, <2>2, RecordElseKeeps
<1>7. ASSUME NEW r, NEW f \in Flags, NEW q, q = FlagsSet(primary[d], r, f)
      PROVE  /\ q \in RecordRec /\ q.retained = primary[d].retained
             /\ r = "ok" => q.flags = f
             /\ r # "ok" => ~q.flags_known
  BY <1>2, <1>7 DEF FlagsSet, RecordRec
<1>8. CASE RecordReset(t)
  <2> DEFINE b == (doubted[d] /\ call[t].r = "refused") \/ call[t].got = 1
  <2>1. doubted' = [doubted EXCEPT ![d] = b] /\ b \in BOOLEAN
    BY <1>1, <1>2, <1>8 DEF RecordReset
  <2>2. CASE call[t].r # "refused"
    <3>1. primary' = [primary EXCEPT ![d] = NoRecord]
      BY <1>8, <2>2 DEF RecordReset, MayHaveReset
    <3>2. NoRecord \in RecordRec /\ NoRecord.retained = 0 /\ ~NoRecord.flags_known
      BY Nothings DEF NoRecord
    <3>3. QED
      BY <1>6, <2>1, <3>1, <3>2
  <2>3. CASE call[t].r = "refused"
    <3>1. primary' = [primary EXCEPT ![d] = primary[d]]
      BY <1>1, <1>2, <1>8, <2>3 DEF RecordReset, MayHaveReset
    <3>2. ~b => ~doubted[d] /\ ~Changing(call[t])
      BY <1>8, <2>3 DEF Changing, RecordReset
    <3>3. QED
      BY <1>2, <1>6, <2>1, <3>1, <3>2
  <2>4. QED
    BY <2>2, <2>3
<1>9. CASE RecordSetFlags(t)
  <2> DEFINE q == FlagsSet(primary[d], call[t].r, call[t].got)
  <2>1. primary' = [primary EXCEPT ![d] = q] /\ doubted' = [doubted EXCEPT ![d] = ~call[t].alone]
    BY <1>9 DEF RecordSetFlags
  <2>2. call[t].op = "set flags"
    BY <1>9 DEF RecordSetFlags
  <2>3. /\ q \in RecordRec /\ q.retained = primary[d].retained
        /\ call[t].r = "ok" => q.flags = call[t].got
        /\ call[t].r # "ok" => ~q.flags_known
    BY <1>3, <1>7
  <2> HIDE DEF q
  <2>4. q.flags_known /\ call[t].alone => q.flags = driver[d].flags
    BY <1>5, <2>2, <2>3
  <2>5. QED
    BY <1>3, <1>6, <2>1, <2>3, <2>4
<1>10. CASE RecordState(t)
  <2>1. CASE call[t].r = "ok"
    <3> DEFINE q == FlagsSet(primary[d], "ok", call[t].got)
    <3>1. primary' = [primary EXCEPT ![d] = q] /\ doubted' = [doubted EXCEPT ![d] = ~call[t].alone]
      BY <1>10, <2>1 DEF RecordState
    <3>2. call[t].op = "state"
      BY <1>10 DEF RecordState
    <3>3. q \in RecordRec /\ q.retained = primary[d].retained /\ q.flags = call[t].got
      BY <1>3, <1>7
    <3> HIDE DEF q
    <3>4. call[t].alone => q.flags = driver[d].flags
      BY <1>5, <2>1, <3>2, <3>3
    <3>5. QED
      BY <1>3, <1>6, <3>1, <3>3, <3>4
  <2>2. CASE call[t].r # "ok"
    <3>1. primary' = [primary EXCEPT ![d] = primary[d]] /\ doubted' = [doubted EXCEPT ![d] = doubted[d]]
      BY <1>1, <1>2, <1>10, <2>2 DEF RecordState
    <3>2. ~Changing(call[t])
      BY <1>10 DEF RecordState, Changing
    <3>3. QED
      BY <1>2, <1>6, <3>1, <3>2
  <2>3. QED
    BY <2>1, <2>2
<1>11. QED
  BY <1>8, <1>9, <1>10

-----------------------------------------------------------------------------
(* Every step keeps the records.                                           *)

(* The runtime's retains are the same unless a reset begins, moves or ends.*)
ResetSame(f, g) == (g.op = "reset" <=> f.op = "reset") /\ (f.op = "reset" => g.todo = f.todo)

(* What the process holds stays, if no owner takes or lets go and no reset *)
(* moves on.                                                               *)
LEMMA HeldStays ==
  ASSUME UNCHANGED <<owned, retained>>, \A u \in Threads : ResetSame(rt[u], rt'[u])
  PROVE  \A e \in Devices : HeldNext(e) = Held(e)
<1> SUFFICES ASSUME NEW e \in Devices PROVE HeldNext(e) = Held(e)
  OBVIOUS
<1>1. (\A u \in Threads : rt'[u].op = "reset" => e \in rt'[u].todo) <=> (\A u \in Threads : rt[u].op = "reset" => e \in rt[u].todo)
  BY DEF ResetSame
<1>2. QED
  BY <1>1 DEF HeldNext, Held, HeldIn

(* A step that is about no context.                                        *)
LEMMA DevQuiet ==
  ASSUME DevInv, NEW t \in Threads, UNCHANGED <<driver, primary, doubted, owned, retained>>,
         \A u \in Threads \ {t} : rt'[u] = rt[u] /\ call'[u] = call[u],
         ResetSame(rt[t], rt'[t]),
         call'[t] = call[t] \/ (call[t].op \notin CtxOps /\ call'[t].op \notin CtxOps)
  PROVE  DevInv'
<1>1. \A u \in Threads : ResetSame(rt[u], rt'[u])
  BY DEF ResetSame
<1>2. \A e \in Devices : HeldNext(e) = Held(e)
  BY <1>1, HeldStays
<1>3. ASSUME NEW e \in Devices PROVE DevOk(e, driver'[e], primary'[e], doubted'[e], HeldNext(e), call')
  <2>1. DevOk(e, driver[e], primary[e], doubted[e], Held(e), call)
    BY DEF DevInv
  <2>2. \A u \in Threads : /\ About(call'[u], e) <=> About(call[u], e)
                           /\ About(call[u], e) => SameCall(call[u], call'[u]) /\ (call'[u].alone <=> call[u].alone)
    BY DEF About, SameCall
  <2>3. DevOk(e, driver[e], primary[e], doubted[e], Held(e), call')
    BY <2>1, <2>2, DevSame
  <2>4. QED
    BY <1>2, <2>3
<1>4. QED
  BY <1>3, DevNext

(* ensure_context: its retain is recorded when the runtime takes it.       *)
LEMMA EnsureKeepsDev ==
  ASSUME ShimTyped, RtTyped, PlaceInv, DevInv, NEW t \in Threads,
         EnsureFast(t) \/ EnsureFinds(t) \/ EnsureRetains(t) \/ EnsureRetained(t) \/ EnsureSelects(t)
  PROVE  DevInv'
<1>0. FramesOk /\ device[t] \in Devices /\ retained \subseteq Devices
  BY Typedness DEF RtTyped
<1>1. /\ CallFits(rt[t], call[t]) /\ HoldFits(t, rt[t], call[t], ctx_mu, retained, device[t])
      /\ rt[t].stage \in {"ensure", "select"} => rt[t].op \notin {None, "reset"} /\ call[t].op = None
  BY AtWork DEF CallFits
<1>2. CASE EnsureFast(t) \/ EnsureFinds(t) \/ EnsureSelects(t)
  <2>1. UNCHANGED <<driver, primary, doubted, owned, retained, call>> /\ rt[t].stage \in {"ensure", "select"}
    BY <1>2 DEF EnsureFast, EnsureFinds, EnsureSelects, baseVars, driverVars, shimVars, appVars, ctxVars
  <2>2. \A u \in Threads \ {t} : rt'[u] = rt[u]
    BY <1>0, <1>2, StageMoves, GenMoves, ReturnMoves DEF EnsureFast, EnsureFinds, EnsureSelects
  <2>3. rt'[t].op \in {rt[t].op, None}
    BY <1>0, <1>2, StageMoves, GenMoves, ReturnMoves DEF EnsureFast, EnsureFinds, EnsureSelects, Moved
  <2>4. ResetSame(rt[t], rt'[t])
    BY <1>1, <2>1, <2>3 DEF ResetSame, None
  <2>5. QED
    BY <2>1, <2>2, <2>4, DevQuiet
<1>3. CASE EnsureRetains(t)
  <2>1. /\ rt[t].stage = "ensure" /\ AskRetain(t, device[t]) /\ UNCHANGED <<retained, owned, doubted>>
    BY <1>3 DEF EnsureRetains
  <2>2. rt'[t].op = rt[t].op /\ \A u \in Threads \ {t} : rt'[u] = rt[u]
    BY <1>0, <1>3, GenMoves DEF EnsureRetains
  <2>3. \A u \in Threads : ResetSame(rt[u], rt'[u])
    BY <1>1, <2>1, <2>2 DEF ResetSame
  <2>4. \A e \in Devices : HeldNext(e) = Held(e)
    BY <2>1, <2>3, HeldStays
  <2>5. QED
    BY <1>0, <1>1, <2>1, <2>4, AskRetainKeeps
<1>4. CASE EnsureRetained(t)
  <2>1. /\ rt[t].stage = "retain" /\ RecordRetain(t) /\ UNCHANGED <<owned, doubted>>
        /\ call[t].r = "ok" => retained' = retained \union {device[t]}
        /\ call[t].r # "ok" => retained' = retained
        /\ Stage(t, "select") \/ Returns(t)
    BY <1>4 DEF EnsureRetained, RecordRetain
  <2>2. \A u \in Threads \ {t} : rt'[u] = rt[u]
    BY <1>0, <2>1, StageMoves, ReturnMoves
  <2>3. rt'[t].op \in {rt[t].op, None}
    BY <1>0, <2>1, StageMoves, ReturnMoves DEF Moved
  <2>4. ctx_mu = t /\ call[t].x = device[t] /\ device[t] \notin retained
    BY <1>1, <2>1 DEF HoldFits
  <2>5. \A u \in Threads : rt[u].op # "reset"
    <3>1. ASSUME NEW u \in Threads, u # t PROVE rt[u].op # "reset"
      BY <2>4, <3>1 DEF PlaceInv, HoldFits
    <3>2. rt[t].op # "reset"
      BY <1>1, <2>1 DEF CallFits
    <3>3. QED
      BY <3>1, <3>2
  <2>6. \A u \in Threads : rt'[u].op # "reset"
    BY <2>2, <2>3, <2>5 DEF None
  <2>7. ASSUME NEW e \in Devices
        PROVE  /\ Held(e) = owned[e] + IF e \in retained THEN 1 ELSE 0
               /\ HeldNext(e) = owned[e] + IF e \in retained' THEN 1 ELSE 0
    BY <2>1, <2>5, <2>6 DEF Held, HeldNext, HeldIn
  <2>8. owned[device[t]] \in Nat
    BY <1>0 DEF ShimTyped
  <2>9. HeldNext(call[t].x) = Held(call[t].x) + (IF call[t].r = "ok" THEN 1 ELSE 0)
    <3>1. Held(device[t]) = owned[device[t]]
      BY <1>0, <2>4, <2>7, <2>8
    <3>2. HeldNext(device[t]) = owned[device[t]] + IF call[t].r = "ok" THEN 1 ELSE 0
      <4>1. CASE call[t].r = "ok"
        BY <1>0, <2>1, <2>7, <4>1
      <4>2. CASE call[t].r # "ok"
        BY <1>0, <2>1, <2>4, <2>7, <4>2
      <4>3. QED
        BY <4>1, <4>2
    <3>3. QED
      BY <2>4, <3>1, <3>2
  <2>10. \A e \in Devices \ {call[t].x} : HeldNext(e) = Held(e)
    <3>1. \A e \in Devices \ {call[t].x} : e \in retained' <=> e \in retained
      BY <2>1, <2>4
    <3>2. QED
      BY <2>7, <3>1
  <2>11. QED
    BY <2>1, <2>9, <2>10, RecordRetainKeeps
<1>5. QED
  BY <1>2, <1>3, <1>4

(* A call that keeps nothing has to do with no retain.                     *)
LEMMA UseKeepsDev ==
  ASSUME ShimTyped, RtTyped, PlaceInv, DevInv, NEW t \in Threads, Use(t) \/ RunUse(t) \/ \E d \in Devices : SetDevice(t, d)
  PROVE  DevInv'
<1>0. FramesOk /\ UNCHANGED <<driver, primary, doubted, owned, retained, call>> /\ rt[t].op \in {None, "use"}
  BY Typedness DEF Use, RunUse, SetDevice, baseVars, driverVars, shimVars, appVars, ctxVars, AtRest
<1>1. \A u \in Threads \ {t} : rt'[u] = rt[u]
  BY <1>0, ReturnMoves, StartMoves DEF Use, RunUse, SetDevice
<1>2. rt'[t].op \in {None, "use"}
  BY <1>0, ReturnMoves, StartMoves DEF Use, RunUse, SetDevice
<1>3. ResetSame(rt[t], rt'[t])
  BY <1>0, <1>2 DEF ResetSame, None
<1>4. QED
  BY <1>0, <1>1, <1>3, DevQuiet

(* cudaDeviceReset lets go of a context when it asks for its release.      *)
LEMMA ResetKeepsDev ==
  ASSUME ShimTyped, RtTyped, PlaceInv, DevInv, NEW t \in Threads,
         BeginDeviceReset(t) \/ (\E d \in Devices : ResetReleases(t, d)) \/ ResetRecords(t) \/ EndDeviceReset(t)
  PROVE  DevInv'
<1>0. FramesOk /\ None \notin Threads /\ rt[t] \in Frame /\ retained \subseteq Devices
  BY Typedness, DriverShimAssumption DEF RtTyped
<1>1. /\ CallFits(rt[t], call[t]) /\ HoldFits(t, rt[t], call[t], ctx_mu, retained, device[t])
      /\ rt[t].stage = "release" => call[t].op = None
  BY AtWork
\* One thread resets at a time.
<1>2. ASSUME rt[t].op = "reset" PROVE \A u \in Threads \ {t} : rt[u].op # "reset"
  BY <1>1, <1>2 DEF PlaceInv, HoldFits
<1>3. CASE BeginDeviceReset(t)
  <2> DEFINE f == [NoFrame EXCEPT !.op = "reset", !.stage = "release", !.todo = retained]
  <2>1. /\ ctx_mu = None /\ UNCHANGED <<driver, primary, doubted, owned, retained, call>>
        /\ \A u \in Threads : rt'[u] = IF u = t THEN f ELSE [rt[u] EXCEPT !.reset = rt[u].op # None]
    BY <1>3 DEF BeginDeviceReset, baseVars, driverVars, shimVars, appVars
  <2>2. f.op = "reset" /\ f.todo = retained
    BY DEF NoFrame
  <2> HIDE DEF f
  <2>3. \A u \in Threads : rt[u].op # "reset"
    BY <1>0, <2>1 DEF PlaceInv, HoldFits
  <2>4. ASSUME NEW u \in Threads \ {t} PROVE rt'[u].op = rt[u].op
    <3>1. rt[u] \in Frame
      BY <1>0 DEF FramesOk
    <3>2. QED
      BY <2>1, <3>1 DEF Frame
  <2>5. rt'[t].op = "reset" /\ rt'[t].todo = retained
    BY <2>1, <2>2
  <2>6. ASSUME NEW e \in Devices
        PROVE  (\A u \in Threads : rt'[u].op = "reset" => e \in rt'[u].todo) <=> e \in retained
    BY <2>3, <2>4, <2>5
  <2>7. \A e \in Devices : HeldNext(e) = Held(e)
    BY <2>1, <2>3, <2>6 DEF Held, HeldNext, HeldIn
  <2>8. ASSUME NEW e \in Devices PROVE DevOk(e, driver'[e], primary'[e], doubted'[e], HeldNext(e), call')
    BY <2>1, <2>7 DEF DevInv
  <2>9. QED
    BY <2>8, DevNext
<1>4. ASSUME NEW d \in Devices, ResetReleases(t, d) PROVE DevInv'
  <2> DEFINE f == [rt[t] EXCEPT !.stage = "record", !.todo = rt[t].todo \ {d}]
  <2>1. /\ rt[t].op = "reset" /\ rt[t].stage = "release" /\ d \in rt[t].todo /\ AskRelease(t, d)
        /\ UNCHANGED <<owned, doubted, retained>> /\ rt' = [rt EXCEPT ![t] = f]
    BY <1>4, <1>0 DEF ResetReleases, ctxVars, FramesOk
  <2>2. f.op = "reset" /\ f.todo = rt[t].todo \ {d}
    BY <1>0, <2>1 DEF Frame
  <2> HIDE DEF f
  <2>3. rt'[t] = f /\ \A u \in Threads \ {t} : rt'[u] = rt[u]
    BY <1>0, <2>1 DEF FramesOk
  <2>4. d \in retained
    BY <1>1, <2>1 DEF HoldFits
  <2>5. ASSUME NEW e \in Devices
        PROVE  /\ (\A u \in Threads : rt[u].op = "reset" => e \in rt[u].todo) <=> e \in rt[t].todo
               /\ (\A u \in Threads : rt'[u].op = "reset" => e \in rt'[u].todo) <=> e \in rt[t].todo \ {d}
    BY <1>2, <2>1, <2>2, <2>3
  <2>6. ASSUME NEW e \in Devices
        PROVE  /\ Held(e) = owned[e] + IF e \in retained /\ e \in rt[t].todo THEN 1 ELSE 0
               /\ HeldNext(e) = owned[e] + IF e \in retained /\ e \in rt[t].todo \ {d} THEN 1 ELSE 0
    BY <2>1, <2>5 DEF Held, HeldNext, HeldIn
  <2>7. owned[d] \in Nat
    BY DEF ShimTyped
  <2>8. Held(d) = owned[d] + 1 /\ HeldNext(d) = owned[d]
    BY <2>1, <2>4, <2>6, <2>7
  <2>9. \A e \in Devices \ {d} : HeldNext(e) = Held(e)
    BY <2>6
  <2>10. HeldNext(d) \in Nat /\ Held(d) = HeldNext(d) + 1
    BY <2>7, <2>8
  <2>11. QED
    BY <1>1, <2>1, <2>9, <2>10, AskReleaseKeeps
<1>5. CASE ResetRecords(t)
  <2>1. /\ RecordRelease(t) /\ UNCHANGED <<owned, retained>>
        /\ Moved(rt[t], rt'[t], "release") /\ \A u \in Threads \ {t} : rt'[u] = rt[u]
    BY <1>0, <1>5, StageMoves DEF ResetRecords, ctxVars
  <2>2. \A u \in Threads : ResetSame(rt[u], rt'[u])
    BY <2>1 DEF ResetSame, Moved
  <2>3. \A e \in Devices : HeldNext(e) = Held(e)
    BY <2>1, <2>2, HeldStays
  <2>4. QED
    BY <2>1, <2>3, RecordReleaseKeeps
<1>6. CASE EndDeviceReset(t)
  <2>1. /\ rt[t].op = "reset" /\ rt[t].todo = {} /\ retained' = {}
        /\ UNCHANGED <<driver, primary, doubted, owned, call>>
    BY <1>6 DEF EndDeviceReset, baseVars, driverVars, shimVars, appVars
  <2>2. ASSUME NEW e \in Devices PROVE HeldNext(e) = Held(e)
    BY <2>1 DEF Held, HeldNext, HeldIn
  <2>3. ASSUME NEW e \in Devices PROVE DevOk(e, driver'[e], primary'[e], doubted'[e], HeldNext(e), call')
    BY <2>1, <2>2 DEF DevInv
  <2>4. QED
    BY <2>3, DevNext
<1>7. QED
  BY <1>3, <1>4, <1>5, <1>6

(* Memory has to do with no retain.                                        *)
LEMMA MemoryKeepsDev ==
  ASSUME ShimTyped, RtTyped, PlaceInv, DevInv, NEW t \in Threads,
         \/ (\E op \in {"malloc", "malloc async"} : Malloc(t, op)) \/ RunMalloc(t) \/ ShimNotes(t) \/ NoteAlloc(t)
         \/ (\E a \in Addrs : Free(t, a) \/ FreeAsync(t, a)) \/ ShimForgets(t) \/ RunFree(t) \/ ForgetAlloc(t)
  PROVE  DevInv'
<1>0. FramesOk /\ current[t] \in Ctx /\ FrameOk(rt[t])
  BY Typedness
<1>1. /\ CallFits(rt[t], call[t])
      /\ rt[t].stage = "run" => call[t].op = None
      /\ call[t].op \in CtxOps \union MemOps \union {None}
  BY AtWork
<1>2. UNCHANGED <<driver, primary, doubted, owned, retained>>
  BY DEF Malloc, RunMalloc, ShimNotes, NoteAlloc, Free, FreeAsync, ShimForgets, RunFree, ForgetAlloc, AskAlloc, RecordAlloc,
         RecordFree, AskFree, baseVars, driverVars, shimVars, appVars, rtVars, ctxVars
<1>3. ASSUME NEW f, NEW c, rt'[t] = f, call'[t] = c, \A u \in Threads \ {t} : rt'[u] = rt[u] /\ call'[u] = call[u],
             rt[t].op # "reset", f.op # "reset", c = call[t] \/ (call[t].op \notin CtxOps /\ c.op \notin CtxOps)
      PROVE  DevInv'
  <2>1. ResetSame(rt[t], rt'[t])
    BY <1>3 DEF ResetSame
  <2>2. QED
    BY <1>2, <1>3, <2>1, DevQuiet
<1>4. CASE (\E op \in {"malloc", "malloc async"} : Malloc(t, op)) \/ (\E a \in Addrs : Free(t, a))
  <2>1. PICK op \in {"malloc", "malloc async", "free"}, x \in Addrs \union {None} : Starts(t, op, x) /\ UNCHANGED call /\ rt[t].op = None
    BY <1>4 DEF Malloc, Free, baseVars, shimVars, AtRest
  <2>2. rt'[t].op = op /\ \A u \in Threads \ {t} : rt'[u] = rt[u]
    BY <1>0, <2>1, StartMoves
  <2>3. QED
    BY <1>3, <2>1, <2>2 DEF None
<1>5. CASE RunMalloc(t)
  <2>1. /\ rt[t].op \in {"malloc", "malloc async"} /\ rt[t].stage = "run" /\ Moved(rt[t], rt'[t], "note")
        /\ \A u \in Threads \ {t} : rt'[u] = rt[u]
    BY <1>0, <1>5, StageMoves DEF RunMalloc
  <2>2. PICK op \in {"alloc", "allocated"} : AskAlloc(t, op, current[t])
    BY <1>5 DEF RunMalloc
  <2>3. call'[t].op = op /\ \A u \in Threads \ {t} : call'[u] = call[u]
    BY <1>0, <2>2, MemoryPlaces
  <2>4. QED
    BY <1>1, <1>3, <2>1, <2>3 DEF Moved, None, CtxOps
<1>6. CASE ShimNotes(t) \/ RunFree(t)
  <2>1. /\ UNCHANGED rt /\ call[t].op \in {"alloc", "free", "free async"} /\ call'[t].op \in {"allocated", "freed"}
        /\ \A u \in Threads \ {t} : call'[u] = call[u]
    BY <1>6, MemoryPlaces DEF ShimNotes, RunFree, rtVars
  <2>2. rt[t].op # "reset"
    BY <1>1, <2>1 DEF CallFits
  <2>3. QED
    BY <1>3, <2>1, <2>2 DEF CtxOps
<1>7. CASE NoteAlloc(t) \/ ForgetAlloc(t)
  <2>1. /\ rt'[t].op = None /\ \A u \in Threads \ {t} : rt'[u] = rt[u]
        /\ call'[t].op = None /\ \A u \in Threads \ {t} : call'[u] = call[u]
    BY <1>0, <1>7, ReturnMoves, OverPlaces DEF NoteAlloc, ForgetAlloc
  <2>2. rt[t].stage \in {"note", "forget"} /\ call[t].op \in {"allocated", "freed"}
    BY <1>7 DEF NoteAlloc, ForgetAlloc
  <2>3. rt[t].op # "reset"
    BY <1>1, <2>2 DEF CallFits
  <2>4. QED
    BY <1>3, <2>1, <2>2, <2>3 DEF None, CtxOps
<1>8. ASSUME NEW a \in Addrs, FreeAsync(t, a) PROVE DevInv'
  <2> DEFINE f == [NoFrame EXCEPT !.op = "free", !.stage = "forget", !.x = a]
             c == [NoCall EXCEPT !.op = "free async", !.x = a]
  <2>1. f.op = "free" /\ c.op = "free async"
    BY DEF NoFrame, NoCall
  <2>2. rt' = [rt EXCEPT ![t] = f] /\ call' = [call EXCEPT ![t] = c] /\ rt[t].op = None /\ call[t].op = None
    BY <1>8 DEF FreeAsync, AtRest
  <2> HIDE DEF f, c
  <2>3. rt'[t] = f /\ call'[t] = c /\ \A u \in Threads \ {t} : rt'[u] = rt[u] /\ call'[u] = call[u]
    BY <1>0, <2>2 DEF FramesOk, ShimTyped
  <2>4. rt[t].op # "reset" /\ f.op # "reset" /\ call[t].op \notin CtxOps /\ c.op \notin CtxOps
    BY <2>1, <2>2 DEF None, CtxOps
  <2>5. QED
    BY <1>3, <2>3, <2>4
<1>9. CASE ShimForgets(t)
  <2>1. /\ rt[t].op = "free" /\ rt[t].stage = "run" /\ Moved(rt[t], rt'[t], "forget")
        /\ \A u \in Threads \ {t} : rt'[u] = rt[u]
    BY <1>0, <1>9, StageMoves DEF ShimForgets
  <2>2. call'[t].op = "free" /\ \A u \in Threads \ {t} : call'[u] = call[u]
    BY <1>0, <1>9, <2>1, MemoryPlaces DEF ShimForgets, FrameOk
  <2>3. QED
    BY <1>1, <1>3, <2>1, <2>2 DEF Moved, None, CtxOps
<1>10. QED
  BY <1>4, <1>5, <1>6, <1>7, <1>8, <1>9

(* The application's own calls: its retains are its own when they are      *)
(* recorded, and no longer when it releases.                               *)
LEMMA AppKeepsDev ==
  ASSUME ShimTyped, RtTyped, PlaceInv, DevInv, NEW t \in Threads,
         \/ \E d \in Devices : \/ AppRetain(t, d) \/ AppRelease(t, d) \/ AppReset(t, d) \/ AppState(t, d)
                               \/ \E f \in Flags : AppSetFlags(t, d, f)
         \/ AppRetained(t) \/ AppRecords(t)
  PROVE  DevInv'
<1>1. UNCHANGED <<rt, retained>>
  BY DEF AppRetain, AppRelease, AppReset, AppState, AppSetFlags, AppRetained, AppRecords, rtVars, ctxVars
<1>2. ASSUME UNCHANGED owned PROVE \A e \in Devices : HeldNext(e) = Held(e)
  BY <1>1, <1>2, HeldStays DEF ResetSame
<1>3. ASSUME NEW d \in Devices,
             AppRetain(t, d) \/ AppReset(t, d) \/ AppState(t, d) \/ \E f \in Flags : AppSetFlags(t, d, f)
      PROVE  DevInv'
  <2>1. UNCHANGED <<owned, doubted>> /\ call[t].op = None
    BY <1>3 DEF AppRetain, AppReset, AppState, AppSetFlags, Own, AtRest, appVars
  <2>2. AskRetain(t, d) \/ AskReset(t, d) \/ AskState(t, d) \/ \E f \in Flags : AskSetFlags(t, d, f)
    BY <1>3 DEF AppRetain, AppReset, AppState, AppSetFlags
  <2>3. QED
    BY <1>2, <2>1, <2>2, AskRetainKeeps, AskOthersKeep
<1>4. ASSUME NEW d \in Devices, AppRelease(t, d) PROVE DevInv'
  <2>1. /\ owned[d] > 0 /\ owned' = [owned EXCEPT ![d] = owned[d] - 1] /\ AskRelease(t, d)
        /\ UNCHANGED doubted /\ call[t].op = None
    BY <1>4 DEF AppRelease, Own, AtRest
  <2>2. owned \in [Devices -> Nat] /\ owned[d] \in Nat
    BY DEF ShimTyped
  <2>3. /\ owned'[d] \in Nat /\ owned[d] = owned'[d] + 1
        /\ \A e \in Devices \ {d} : owned'[e] = owned[e]
    BY <2>1, <2>2
  <2> DEFINE b == d \in retained /\ \A u \in Threads : rt[u].op = "reset" => d \in rt[u].todo
             n == IF b THEN 1 ELSE 0
  <2>4. Held(d) = owned[d] + n /\ HeldNext(d) = owned'[d] + n /\ n \in {0, 1}
    BY <1>1 DEF Held, HeldNext, HeldIn
  <2> HIDE DEF b, n
  <2>5. HeldNext(d) \in Nat /\ Held(d) = HeldNext(d) + 1
    BY <2>3, <2>4
  <2>6. \A e \in Devices \ {d} : HeldNext(e) = Held(e)
    BY <1>1, <2>3 DEF Held, HeldNext, HeldIn
  <2>7. QED
    BY <2>1, <2>5, <2>6, AskReleaseKeeps
<1>5. CASE AppRetained(t)
  <2> DEFINE d == call[t].x
             x == IF call[t].r = "ok" THEN 1 ELSE 0
  <2>1. RecordRetain(t) /\ UNCHANGED doubted /\ d \in Devices
    BY <1>5, RecordPlaces DEF AppRetained, RecordRetain
  <2>2. owned \in [Devices -> Nat] /\ owned[d] \in Nat
    BY <2>1 DEF ShimTyped
  <2>3. owned' = IF call[t].r = "ok" THEN [owned EXCEPT ![d] = owned[d] + 1] ELSE owned
    BY <1>5, <2>1 DEF AppRetained, RecordRetain
  <2>4. x \in {0, 1} /\ owned'[d] = owned[d] + x /\ \A e \in Devices \ {d} : owned'[e] = owned[e]
    BY <2>1, <2>2, <2>3
  <2> DEFINE b == d \in retained /\ \A u \in Threads : rt[u].op = "reset" => d \in rt[u].todo
             n == IF b THEN 1 ELSE 0
  <2>5. Held(d) = owned[d] + n /\ HeldNext(d) = owned'[d] + n /\ n \in {0, 1}
    BY <1>1 DEF Held, HeldNext, HeldIn
  <2> HIDE DEF b, n, x
  <2>6. HeldNext(d) = Held(d) + x
    BY <2>2, <2>4, <2>5
  <2>7. \A e \in Devices \ {d} : HeldNext(e) = Held(e)
    BY <1>1, <2>4 DEF Held, HeldNext, HeldIn
  <2>8. HeldNext(call[t].x) = Held(call[t].x) + (IF call[t].r = "ok" THEN 1 ELSE 0)
    BY <2>6 DEF x
  <2>9. QED
    BY <2>1, <2>7, <2>8, RecordRetainKeeps
<1>6. CASE AppRecords(t)
  <2>1. UNCHANGED owned /\ (RecordRelease(t) \/ RecordReset(t) \/ RecordSetFlags(t) \/ RecordState(t))
    BY <1>6 DEF AppRecords
  <2>2. QED
    BY <1>2, <2>1, RecordReleaseKeeps, RecordOthersKeep
<1>7. QED
  BY <1>3, <1>4, <1>5, <1>6

(* A launch has to do with no retain.                                      *)
LEMMA KernelKeepsDev ==
  ASSUME ShimTyped, RtTyped, LaunchInv, PlaceInv, DevInv, NEW t \in Threads, KernelNext(t)
  PROVE  DevInv'
<1>1. UNCHANGED <<driver, primary, doubted, owned, retained, call>>
  BY DEF KernelNext, Register, Unregister, Launch, ResolveKnown, ResolveRefused, ResolveShips, ResolveLoaded,
         GetFunction, PackKnown, PackAsks, RecordLayout, AskOfFunction, RunLaunch, rtVars, ctxVars, baseVars, shimVars,
         driverVars, appVars
<1>2. /\ \A u \in Threads \ {t} : rt'[u] = rt[u]
      /\ rt'[t] = rt[t] \/ rt'[t] = NoFrame \/ rt'[t].op = "launch"
  BY KernelPlaces
<1>3. LaunchFits(t, rt[t], reg, reg_mu)
  BY LaunchParts
<1>4. UNCHANGED rt \/ rt[t].op \in {None, "launch"}
  BY <1>3 DEF KernelNext, Register, Unregister, Launch, ResolveKnown, ResolveRefused, ResolveShips, ResolveLoaded,
         GetFunction, PackKnown, PackAsks, RecordLayout, AskOfFunction, RunLaunch, rtVars, AtRest, Resolving, LaunchFits
<1>5. NoFrame.op = None
  BY DEF NoFrame
<1>6. ResetSame(rt[t], rt'[t])
  BY <1>2, <1>4, <1>5 DEF ResetSame, None
<1>7. QED
  BY <1>1, <1>2, <1>6, DevQuiet

(* What is remembered of the contexts holds of every step of the library.  *)
ContextInv == RuntimeInv /\ PlaceInv /\ DevInv

(* The library begins with no context retained and nothing on record.      *)
LEMMA ContextInit == Init => ContextInv
<1> SUFFICES ASSUME Init PROVE ContextInv
  OBVIOUS
<1>1. RuntimeInv /\ PlaceInv
  BY RuntimeInit0, PlaceInit
<1>2. BaseInit /\ RtInit
  BY DEF Init, LibrariesInit, RuntimeInit
<1>3. ASSUME NEW d \in Devices PROVE DevOk(d, driver[d], primary[d], doubted[d], Held(d), call)
  <2>1. \A u \in Threads : call[u].op = None
    BY <1>2 DEF BaseInit, NoCall
  <2>2. \A u \in Threads : ~About(call[u], d)
    BY <2>1 DEF About, CtxOps, None
  <2>3. RetainsOf(call, d) = {} /\ ReleasesOf(call, d) = {}
    BY <2>2 DEF RetainsOf, ReleasesOf, IsRetain, IsRelease
  <2>4. Cardinality({}) = 0
    BY FS_EmptySet
  <2>5. driver[d].retains = 0 /\ primary[d].retained = 0 /\ ~primary[d].flags_known
    BY <1>2 DEF BaseInit, NoRecord
  <2>6. Held(d) = 0
    BY <1>2 DEF BaseInit, RtInit, Held, HeldIn
  <2>7. /\ driver[d].retains >= Held(d) + Cardinality(RetainsOf(call, d))
        /\ primary[d].retained <= Held(d) + Cardinality(ReleasesOf(call, d))
    BY <2>3, <2>4, <2>5, <2>6
  <2>8. QED
    BY <2>2, <2>5, <2>7, Zenon DEF DevOk
<1>4. QED
  BY <1>1, <1>3 DEF ContextInv, DevInv

(* Every step of the library keeps what is remembered of the contexts.     *)
LEMMA ContextKeeps == ContextInv /\ [Next]_vars => ContextInv'
<1> SUFFICES ASSUME ContextInv, [Next]_vars PROVE ContextInv'
  OBVIOUS
<1>1. RuntimeInv'
  BY RuntimeKeeps DEF ContextInv
<1>2. ShimTyped /\ RtTyped /\ LaunchInv /\ PlaceInv /\ DevInv
  BY DEF ContextInv, RuntimeInv, TypeInv
<1>3. program.on \subseteq Devices
  BY <1>2, RuntimeAssumption DEF RtTyped
<1>4. ASSUME NEW t \in Threads, RtNext(t) PROVE PlaceInv' /\ DevInv'
  <2>1. PlaceInv'
    BY <1>2, <1>4, RtPlaces
  <2>2. CASE EnsureFast(t) \/ EnsureFinds(t) \/ EnsureRetains(t) \/ EnsureRetained(t) \/ EnsureSelects(t)
    BY <1>2, <2>1, <2>2, EnsureKeepsDev
  <2>3. CASE Use(t) \/ RunUse(t) \/ \E d \in program.on : SetDevice(t, d)
    BY <1>2, <1>3, <2>1, <2>3, UseKeepsDev
  <2>4. CASE BeginDeviceReset(t) \/ (\E d \in program.on : ResetReleases(t, d)) \/ ResetRecords(t) \/ EndDeviceReset(t)
    BY <1>2, <1>3, <2>1, <2>4, ResetKeepsDev
  <2>5. CASE \/ (\E op \in {"malloc", "malloc async"} : Malloc(t, op)) \/ RunMalloc(t) \/ ShimNotes(t) \/ NoteAlloc(t)
             \/ (\E a \in Addrs : Free(t, a) \/ FreeAsync(t, a)) \/ ShimForgets(t) \/ RunFree(t) \/ ForgetAlloc(t)
    BY <1>2, <2>1, <2>5, MemoryKeepsDev
  <2>6. CASE \/ \E d \in program.on : \/ AppRetain(t, d) \/ AppRelease(t, d) \/ AppReset(t, d) \/ AppState(t, d)
                                      \/ \E f \in Flags : AppSetFlags(t, d, f)
             \/ AppRetained(t) \/ AppRecords(t)
    BY <1>2, <1>3, <2>1, <2>6, AppKeepsDev
  <2>7. QED
    BY <1>4, <2>2, <2>3, <2>4, <2>5, <2>6 DEF RtNext
<1>5. ASSUME NEW t \in Threads, KernelNext(t) PROVE PlaceInv' /\ DevInv'
  BY <1>2, <1>5, KernelPlaces, KernelKeepsDev
<1>6. CASE UNCHANGED runtimeVars
  <2>1. UNCHANGED <<driver, primary, doubted, owned, call, rt, retained, ctx_mu, device>>
    BY <1>6 DEF runtimeVars, baseVars, driverVars, shimVars, appVars, rtVars, ctxVars
  <2>2. PlaceInv'
    BY <1>2, <2>1 DEF PlaceInv, CallFits, HoldFits
  <2>3. ASSUME NEW e \in Devices PROVE DevOk(e, driver'[e], primary'[e], doubted'[e], HeldNext(e), call')
    BY <1>2, <2>1 DEF DevInv, Held, HeldNext
  <2>4. QED
    BY <1>1, <2>2, <2>3, DevNext DEF ContextInv
<1>7. QED
  BY <1>1, <1>4, <1>5, <1>6, RuntimeStep DEF ContextInv

(* What is remembered of the contexts holds in every behaviour.            *)
LEMMA ContextHolds == Spec => []ContextInv
  BY ContextInit, ContextKeeps, PTL DEF Spec

(* What the shim answers of a primary context without asking is what the   *)
(* driver would answer: between calls about it, no retain is recorded that *)
(* the process does not hold, and the flags recorded are the context's.    *)
(* (cuDevicePrimaryCtxGetState, from g_primary.)                           *)
THEOREM AlwaysAnswersAsTheDriver == Spec => []AnswersAsTheDriver
<1>1. ContextInv => AnswersAsTheDriver
  <2> SUFFICES ASSUME ContextInv, NEW d \in Devices, \A t \in Threads : call[t].x # d
               PROVE  LicenceIsHeld(d) /\ AnswersTheFlags(d)
    BY DEF AnswersAsTheDriver
  <2>1. ShimTyped /\ DevOk(d, driver[d], primary[d], doubted[d], Held(d), call)
    BY DEF ContextInv, RuntimeInv, TypeInv, DevInv
  <2>2. \A t \in Threads : ~About(call[t], d)
    BY DEF About
  <2>3. RetainsOf(call, d) = {} /\ ReleasesOf(call, d) = {}
    BY <2>2 DEF RetainsOf, ReleasesOf, IsRetain, IsRelease
  <2>4. Cardinality({}) = 0
    BY FS_EmptySet
  <2>5. driver[d].retains \in Nat /\ primary[d].retained \in Nat /\ Held(d) \in Nat
    BY <2>1, HeldNat DEF ShimTyped, DriverRec, RecordRec
  <2>6. driver[d].retains >= Held(d) + 0 /\ primary[d].retained <= Held(d) + 0
    BY <2>1, <2>3, <2>4 DEF DevOk
  <2>7. LicenceIsHeld(d)
    BY <2>5, <2>6 DEF LicenceIsHeld
  <2>8. AnswersTheFlags(d)
    BY <2>1, <2>2 DEF DevOk, AnswersTheFlags, CanAnswer
  <2>9. QED
    BY <2>7, <2>8
<1>2. QED
  BY <1>1, ContextHolds, PTL

-----------------------------------------------------------------------------
(* The contexts that are selected.                                         *)

(* A thread's frame and selection, by the generation; while no one resets, *)
(* what is selected in this generation is held, and alive.                 *)
Resetting == \E u \in Threads : rt[u].op = "reset"
GenFits(f, s, c, l, g, r, b) ==
  /\ s <= g /\ f.gen <= g
  /\ f.stage \in {"ensure", "retain", "select", "run"} /\ ~f.reset => ~b
  /\ ~b /\ s = g => r /\ c = l
  /\ ~b /\ f.stage = "select" /\ f.gen = g => r
  /\ f.stage = "run" /\ ~f.reset => s = g
  /\ f.stage \in {"retain", "select"} /\ ~f.reset => f.gen = g
GenOk ==
  \A t \in Threads : GenFits(rt[t], selected[t], current[t], Life(device[t]), gen, device[t] \in retained, Resetting)
GenInv == ~Makes("ctx reset") => GenOk

LifeNext(d)   == [d |-> d, life |-> driver'[d].life]
ResettingNext == \E u \in Threads : rt'[u].op = "reset"

(* The selections in the next state.                                       *)
LEMMA GenParts ==
  GenOk' <=> \A t \in Threads :
               GenFits(rt'[t], selected'[t], current'[t], LifeNext(device'[t]), gen', device'[t] \in retained', ResettingNext)
  BY DEF GenOk, GenFits, LifeNext, Life, ResettingNext, Resetting

(* A step of one thread, which neither begins a reset nor ends one, and    *)
(* under which no context that is held ends.                               *)
GenOthers(t) ==
  \A u \in Threads \ {t} : rt'[u] = rt[u] /\ selected'[u] = selected[u] /\ current'[u] = current[u] /\ device'[u] = device[u]
LivesOn == \A d \in retained : Resetting \/ LifeNext(d) = Life(d)

(* A step of one thread that ends no context in use keeps the selections,  *)
(* if it keeps its own.                                                    *)
LEMMA GenSet ==
  ASSUME GenOk, NEW t \in Threads, GenOthers(t), LivesOn, gen' = gen, retained \subseteq retained',
         rt'[t].op = "reset" <=> rt[t].op = "reset",
         GenFits(rt'[t], selected'[t], current'[t], LifeNext(device'[t]), gen, device'[t] \in retained', Resetting)
  PROVE  GenOk'
<1>1. ResettingNext <=> Resetting
  BY DEF GenOthers, ResettingNext, Resetting
<1>2. ASSUME NEW u \in Threads \ {t}
      PROVE  GenFits(rt'[u], selected'[u], current'[u], LifeNext(device'[u]), gen', device'[u] \in retained', ResettingNext)
  <2>1. GenFits(rt[u], selected[u], current[u], Life(device[u]), gen, device[u] \in retained, Resetting)
    BY DEF GenOk
  <2>2. rt'[u] = rt[u] /\ selected'[u] = selected[u] /\ current'[u] = current[u] /\ device'[u] = device[u]
    BY DEF GenOthers
  <2>3. device[u] \in retained /\ ~Resetting => LifeNext(device[u]) = Life(device[u]) /\ device[u] \in retained'
    BY DEF LivesOn
  <2>4. GenFits(rt[u], selected[u], current[u], LifeNext(device[u]), gen, device[u] \in retained', Resetting)
    BY <2>1, <2>3 DEF GenFits
  <2>5. QED
    BY <1>1, <2>2, <2>4 DEF GenFits
<1>3. GenFits(rt'[t], selected'[t], current'[t], LifeNext(device'[t]), gen', device'[t] \in retained', ResettingNext)
  BY <1>1 DEF GenFits
<1>4. QED
  BY <1>2, <1>3, GenParts

(* A frame that leaves for a stage without a context; that begins.         *)
LEMMA GenAway ==
  ASSUME NEW f, NEW g, NEW s, NEW c, NEW l, NEW n, NEW r, NEW b, GenFits(f, s, c, l, n, r, b), g.gen <= n,
         g.stage \notin {"ensure", "retain", "select", "run"}
  PROVE  GenFits(g, s, c, l, n, r, b)
  BY DEF GenFits

(* A call that begins knows of a reset under way.                          *)
LEMMA GenBegins ==
  ASSUME NEW f, NEW g, NEW s, NEW c, NEW l, NEW n \in Nat, NEW r, NEW b, GenFits(f, s, c, l, n, r, b),
         g.stage = "ensure", g.gen = 0, g.reset <=> b
  PROVE  GenFits(g, s, c, l, n, r, b)
  BY DEF GenFits

(* The lives of contexts.                                                  *)
LEMMA LifeSame ==
  ASSUME UNCHANGED driver PROVE \A d : LifeNext(d) = Life(d)
  BY DEF LifeNext, Life

(* A retain, a query and a change of the flags end no context.             *)
LEMMA AskLives ==
  ASSUME ShimTyped, NEW t \in Threads, NEW d \in Devices, AskRetain(t, d) \/ AskState(t, d) \/ \E f \in Flags : AskSetFlags(t, d, f)
  PROVE  \A e \in Devices : LifeNext(e) = Life(e)
<1>0. driver \in [Devices -> DriverRec] /\ driver[d] \in DriverRec
  BY DEF ShimTyped
<1>1. \/ driver' = driver
      \/ \E n : driver' = [driver EXCEPT ![d].retains = n]
      \/ \E f : driver' = [driver EXCEPT ![d].flags = f]
  BY DEF AskRetain, AskState, AskSetFlags, driverVars
<1>2. ASSUME NEW n, driver' = [driver EXCEPT ![d].retains = n] PROVE \A e \in Devices : driver'[e].life = driver[e].life
  <2>1. [driver[d] EXCEPT !.retains = n].life = driver[d].life
    BY <1>0 DEF DriverRec
  <2>2. driver' = [driver EXCEPT ![d] = [driver[d] EXCEPT !.retains = n]]
    BY <1>2
  <2>3. QED
    BY <1>0, <2>1, <2>2
<1>3. ASSUME NEW f, driver' = [driver EXCEPT ![d].flags = f] PROVE \A e \in Devices : driver'[e].life = driver[e].life
  <2>1. [driver[d] EXCEPT !.flags = f].life = driver[d].life
    BY <1>0 DEF DriverRec
  <2>2. driver' = [driver EXCEPT ![d] = [driver[d] EXCEPT !.flags = f]]
    BY <1>3
  <2>3. QED
    BY <1>0, <2>1, <2>2
<1>4. \A e \in Devices : driver'[e].life = driver[e].life
  BY <1>1, <1>2, <1>3
<1>5. QED
  BY <1>4 DEF LifeNext, Life

(* A release ends no context but its own, and that one only if it is the   *)
(* last retain.                                                            *)
LEMMA AskReleaseLives ==
  ASSUME ShimTyped, NEW t \in Threads, NEW d \in Devices, AskRelease(t, d)
  PROVE  \A e \in Devices : e # d \/ driver[d].retains # 1 => LifeNext(e) = Life(e)
<1>0. driver \in [Devices -> DriverRec] /\ driver[d] \in DriverRec
  BY DEF ShimTyped
<1>1. \/ driver' = driver
      \/ driver[d].retains = 1 /\ Ended(d, 0)
      \/ driver' = [driver EXCEPT ![d].retains = driver[d].retains - 1]
  BY DEF AskRelease
<1>2. ASSUME NEW n, driver' = [driver EXCEPT ![d].retains = n] PROVE \A e \in Devices : driver'[e].life = driver[e].life
  <2>1. [driver[d] EXCEPT !.retains = n].life = driver[d].life
    BY <1>0 DEF DriverRec
  <2>2. driver' = [driver EXCEPT ![d] = [driver[d] EXCEPT !.retains = n]]
    BY <1>2
  <2>3. QED
    BY <1>0, <2>1, <2>2
<1>3. ASSUME driver[d].retains = 1, Ended(d, 0) PROVE \A e \in Devices : e # d => driver'[e] = driver[e]
  <2>1. PICK f \in {0, driver[d].flags} : driver' = [driver EXCEPT ![d] = [retains |-> 0, flags |-> f, life |-> driver[d].life + 1]]
    BY <1>3 DEF Ended
  <2>2. QED
    BY <1>0, <2>1
<1>4. \A e \in Devices : e # d \/ driver[d].retains # 1 => driver'[e].life = driver[e].life
  BY <1>1, <1>2, <1>3
<1>5. QED
  BY <1>4 DEF LifeNext, Life

(* A step that selects nothing.                                            *)
Away(f, n)   == f.gen <= n /\ f.stage \notin {"ensure", "retain", "select", "run"}
Begins(f, b) == f.stage = "ensure" /\ f.gen = 0 /\ (f.reset <=> b)

(* A step that selects nothing and ends no context in use keeps the        *)
(* selections.                                                             *)
LEMMA GenIdle ==
  ASSUME ShimTyped, RtTyped, GenOk, NEW t \in Threads, UNCHANGED <<selected, current, device, gen, retained>>, LivesOn,
         \A u \in Threads \ {t} : rt'[u] = rt[u], rt'[t].op = "reset" <=> rt[t].op = "reset",
         rt'[t] = rt[t] \/ Away(rt'[t], gen) \/ Begins(rt'[t], Resetting)
  PROVE  GenOk'
<1>1. GenFits(rt[t], selected[t], current[t], Life(device[t]), gen, device[t] \in retained, Resetting)
  BY DEF GenOk
<1>2. gen \in Nat /\ device[t] \in Devices
  BY Typedness
<1>3. GenFits(rt'[t], selected[t], current[t], Life(device[t]), gen, device[t] \in retained, Resetting)
  <2>1. CASE rt'[t] = rt[t]
    BY <1>1, <2>1 DEF GenFits
  <2>2. CASE Away(rt'[t], gen)
    BY <1>1, <2>2, GenAway DEF Away
  <2>3. CASE Begins(rt'[t], Resetting)
    BY <1>1, <1>2, <2>3, GenBegins DEF Begins
  <2>4. QED
    BY <2>1, <2>2, <2>3
<1>4. device[t] \in retained /\ ~Resetting => LifeNext(device[t]) = Life(device[t])
  BY DEF LivesOn
<1>5. GenFits(rt'[t], selected[t], current[t], LifeNext(device[t]), gen, device[t] \in retained, Resetting)
  BY <1>3, <1>4 DEF GenFits
<1>6. GenFits(rt'[t], selected'[t], current'[t], LifeNext(device'[t]), gen, device'[t] \in retained', Resetting)
  BY <1>5 DEF GenFits
<1>7. GenOthers(t) /\ retained \subseteq retained'
  BY DEF GenOthers
<1>8. QED
  BY <1>6, <1>7, GenSet

(* ensure_context selects for the generation it read, under the lock, with *)
(* the context held.                                                       *)
LEMMA EnsureGens ==
  ASSUME ShimTyped, RtTyped, PlaceInv, GenOk, NEW t \in Threads,
         EnsureFast(t) \/ EnsureFinds(t) \/ EnsureRetains(t) \/ EnsureRetained(t) \/ EnsureSelects(t)
  PROVE  GenOk'
<1>0. /\ FramesOk /\ device[t] \in Devices /\ gen \in Nat /\ selected \in [Threads -> Nat] /\ selected[t] \in Nat
      /\ current \in [Threads -> Ctx] /\ UNCHANGED <<device, gen>>
  BY Typedness DEF RtTyped, EnsureFast, EnsureFinds, EnsureRetains, EnsureRetained, EnsureSelects, ctxVars
<1>1. /\ CallFits(rt[t], call[t]) /\ rt[t].stage \in {"ensure", "select", "retain"}
  BY AtWork DEF EnsureFast, EnsureFinds, EnsureRetains, EnsureRetained, EnsureSelects
<1>2. rt[t].op # "reset" /\ None # "reset"
  BY <1>1 DEF CallFits, None
<1>3. GenFits(rt[t], selected[t], current[t], Life(device[t]), gen, device[t] \in retained, Resetting)
  BY DEF GenOk
<1>4. \A d \in Devices : LifeNext(d) = Life(d)
  <2>1. CASE UNCHANGED driver
    BY <2>1, LifeSame
  <2>2. CASE AskRetain(t, device[t])
    BY <1>0, <2>2, AskLives
  <2>3. QED
    BY <2>1, <2>2 DEF EnsureFast, EnsureFinds, EnsureRetains, EnsureRetained, EnsureSelects, RecordRetain, baseVars, driverVars
<1>5. LivesOn /\ LifeNext(device[t]) = Life(device[t])
  BY <1>0, <1>4 DEF LivesOn, RtTyped
<1>6. ASSUME NEW f, NEW s, NEW c, rt'[t] = f, selected'[t] = s, current'[t] = c, f.op # "reset",
             \A u \in Threads \ {t} : rt'[u] = rt[u] /\ selected'[u] = selected[u] /\ current'[u] = current[u],
             retained \subseteq retained',
             GenFits(f, s, c, Life(device[t]), gen, device[t] \in retained', Resetting)
      PROVE  GenOk'
  <2>1. GenOthers(t)
    BY <1>0, <1>6 DEF GenOthers
  <2>2. GenFits(rt'[t], selected'[t], current'[t], LifeNext(device'[t]), gen, device'[t] \in retained', Resetting)
    BY <1>0, <1>5, <1>6
  <2>3. QED
    BY <1>0, <1>2, <1>5, <1>6, <2>1, <2>2, GenSet
<1>7. ASSUME Returns(t) PROVE /\ rt'[t] = NoFrame /\ NoFrame.op = None /\ NoFrame.gen = 0 /\ NoFrame.stage = None
                              /\ \A u \in Threads \ {t} : rt'[u] = rt[u]
  BY <1>0, <1>7, ReturnMoves DEF NoFrame
<1>8. CASE EnsureFast(t)
  <2>1. UNCHANGED <<selected, current, retained>> /\ rt[t].stage = "ensure" /\ selected[t] = gen
    BY <1>8 DEF EnsureFast, ctxVars, SelectionHolds
  <2>2. Moved(rt[t], rt'[t], "run") /\ \A u \in Threads \ {t} : rt'[u] = rt[u]
    BY <1>0, <1>8, StageMoves DEF EnsureFast
  <2>3. GenFits(rt'[t], selected[t], current[t], Life(device[t]), gen, device[t] \in retained, Resetting)
    BY <1>3, <2>1, <2>2 DEF GenFits, Moved
  <2>4. QED
    BY <1>2, <1>6, <2>1, <2>2, <2>3 DEF Moved
<1>9. CASE EnsureFinds(t)
  <2>1. UNCHANGED <<selected, current, retained>> /\ rt[t].stage = "ensure" /\ device[t] \in retained
    BY <1>9 DEF EnsureFinds, ctxVars
  <2>2. /\ rt'[t].op = rt[t].op /\ rt'[t].stage = "select" /\ rt'[t].gen = gen /\ rt'[t].reset = rt[t].reset
        /\ \A u \in Threads \ {t} : rt'[u] = rt[u]
    <3> DEFINE f == [rt[t] EXCEPT !.stage = "select", !.gen = gen]
    <3>1. rt \in [Threads -> Frame] /\ rt[t] \in Frame
      BY <1>0 DEF FramesOk
    <3>2. rt' = [rt EXCEPT ![t] = f]
      BY <3>1, <1>9 DEF EnsureFinds
    <3>3. f.op = rt[t].op /\ f.stage = "select" /\ f.gen = gen /\ f.reset = rt[t].reset
      BY <3>1 DEF Frame
    <3> HIDE DEF f
    <3>4. QED
      BY <3>1, <3>2, <3>3
  <2>3. GenFits(rt'[t], selected[t], current[t], Life(device[t]), gen, device[t] \in retained, Resetting)
    BY <1>0, <1>3, <2>1, <2>2 DEF GenFits
  <2>4. QED
    BY <1>2, <1>6, <2>1, <2>2, <2>3
<1>10. CASE EnsureRetains(t)
  <2>1. UNCHANGED <<selected, current, retained>> /\ rt[t].stage = "ensure"
    BY <1>10 DEF EnsureRetains
  <2>2. /\ rt'[t].op = rt[t].op /\ rt'[t].stage = "retain" /\ rt'[t].gen = gen /\ rt'[t].reset = rt[t].reset
        /\ \A u \in Threads \ {t} : rt'[u] = rt[u]
    <3> DEFINE f == [rt[t] EXCEPT !.stage = "retain", !.gen = gen]
    <3>1. rt \in [Threads -> Frame] /\ rt[t] \in Frame
      BY <1>0 DEF FramesOk
    <3>2. rt' = [rt EXCEPT ![t] = f]
      BY <3>1, <1>10 DEF EnsureRetains
    <3>3. f.op = rt[t].op /\ f.stage = "retain" /\ f.gen = gen /\ f.reset = rt[t].reset
      BY <3>1 DEF Frame
    <3> HIDE DEF f
    <3>4. QED
      BY <3>1, <3>2, <3>3
  <2>3. GenFits(rt'[t], selected[t], current[t], Life(device[t]), gen, device[t] \in retained, Resetting)
    BY <1>0, <1>3, <2>1, <2>2 DEF GenFits
  <2>4. QED
    BY <1>2, <1>6, <2>1, <2>2, <2>3
<1>11. CASE EnsureRetained(t)
  <2>1. UNCHANGED <<selected, current>> /\ rt[t].stage = "retain"
    BY <1>11 DEF EnsureRetained
  <2>2. CASE Stage(t, "select") /\ retained' = retained \union {device[t]}
    <3>1. Moved(rt[t], rt'[t], "select") /\ \A u \in Threads \ {t} : rt'[u] = rt[u]
      BY <1>0, <2>2, StageMoves
    <3>2. GenFits(rt'[t], selected[t], current[t], Life(device[t]), gen, TRUE, Resetting)
      BY <1>3, <2>1, <3>1 DEF GenFits, Moved
    <3>3. (device[t] \in retained') = TRUE /\ retained \subseteq retained'
      BY <2>2
    <3>4. GenFits(rt'[t], selected[t], current[t], Life(device[t]), gen, device[t] \in retained', Resetting)
      BY <3>2, <3>3 DEF GenFits
    <3>5. QED
      BY <1>2, <1>6, <2>1, <3>1, <3>3, <3>4 DEF Moved
  <2>3. CASE Returns(t) /\ retained' = retained
    <3>1. GenFits(NoFrame, selected[t], current[t], Life(device[t]), gen, device[t] \in retained, Resetting)
      BY <1>0, <1>3, <1>7, <2>3, GenAway DEF None
    <3>2. QED
      BY <1>2, <1>6, <1>7, <2>1, <2>3, <3>1
  <2>4. QED
    BY <1>11, <2>2, <2>3 DEF EnsureRetained
<1>12. CASE EnsureSelects(t)
  <2>1. PICK o \in Outcomes :
          /\ current' = IF o.ran THEN [current EXCEPT ![t] = Life(device[t])] ELSE current
          /\ IF o.r = "ok" THEN Selects(t) /\ Stage(t, "run") ELSE Returns(t) /\ UNCHANGED selected
    BY <1>12 DEF EnsureSelects
  <2>2. rt[t].stage = "select" /\ UNCHANGED retained /\ (o.r = "ok" => o.ran)
    BY <1>12, OutcomesAre DEF EnsureSelects
  <2>3. /\ \A u \in Threads \ {t} : current'[u] = current[u]
        /\ o.ran => current'[t] = Life(device[t])
        /\ ~o.ran => current'[t] = current[t]
    BY <1>0, <2>1
  <2>4. CASE o.r = "ok"
    <3>1. Moved(rt[t], rt'[t], "run") /\ \A u \in Threads \ {t} : rt'[u] = rt[u]
      BY <1>0, <2>1, <2>4, StageMoves
    <3>2. selected'[t] = rt[t].gen /\ \A u \in Threads \ {t} : selected'[u] = selected[u]
      BY <1>0, <2>1, <2>4 DEF Selects
    <3>3. GenFits(rt'[t], rt[t].gen, Life(device[t]), Life(device[t]), gen, device[t] \in retained, Resetting)
      BY <1>3, <2>2, <3>1 DEF GenFits, Moved
    <3>4. QED
      BY <1>2, <1>6, <2>2, <2>3, <2>4, <3>1, <3>2, <3>3 DEF Moved
  <2>5. CASE o.r # "ok"
    <3>1. Returns(t) /\ UNCHANGED selected
      BY <2>1, <2>5
    <3>2. GenFits(NoFrame, selected[t], current[t], Life(device[t]), gen, device[t] \in retained, Resetting)
      BY <1>0, <1>3, <1>7, <3>1, GenAway DEF None
    <3>3. GenFits(NoFrame, selected[t], current'[t], Life(device[t]), gen, device[t] \in retained, Resetting)
      BY <2>3, <3>2 DEF GenFits
    <3>4. QED
      BY <1>2, <1>6, <1>7, <2>2, <2>3, <3>1, <3>3
  <2>6. QED
    BY <2>4, <2>5
<1>13. QED
  BY <1>8, <1>9, <1>10, <1>11, <1>12

(* The generation of a call that begins, none, is no later than any.       *)
LEMMA GenLeast == ASSUME ShimTyped, RtTyped PROVE 0 <= gen
  BY Typedness

(* A call begins with no generation; cudaSetDevice lets the selection of   *)
(* another device go.                                                      *)
LEMMA UseGens ==
  ASSUME ShimTyped, RtTyped, PlaceInv, GenOk, NEW t \in Threads, Use(t) \/ RunUse(t) \/ \E d \in Devices : SetDevice(t, d)
  PROVE  GenOk'
<1>0. /\ FramesOk /\ device \in [Threads -> Devices] /\ selected \in [Threads -> Nat] /\ gen \in Nat \ {0} /\ selected[t] \in Nat
      /\ UNCHANGED <<current, gen, retained, driver>> /\ rt[t].op \in {None, "use"}
  BY Typedness DEF RtTyped, Use, RunUse, SetDevice, baseVars, driverVars, ctxVars, AtRest
<1>1. LivesOn
  BY <1>0, LifeSame DEF LivesOn
<1>2. CASE Use(t) \/ RunUse(t)
  <2>1. UNCHANGED <<selected, device>>
    BY <1>2 DEF Use, RunUse, ctxVars
  <2>2. \A u \in Threads \ {t} : rt'[u] = rt[u]
    BY <1>0, <1>2, ReturnMoves, StartMoves DEF Use, RunUse
  <2>3. /\ rt'[t].op \in {None, "use"}
        /\ Away(rt'[t], gen) \/ Begins(rt'[t], Resetting)
    <3>1. CASE Use(t)
      BY <1>0, <3>1, StartMoves DEF Use, Begins, Resetting
    <3>2. CASE RunUse(t)
      <4>1. rt'[t] = NoFrame
        BY <1>0, <3>2, ReturnMoves DEF RunUse
      <4>2. NoFrame.op = None /\ NoFrame.gen = 0 /\ NoFrame.stage = None
        BY DEF NoFrame
      <4>3. QED
        BY <1>0, <4>1, <4>2 DEF Away, None
    <3>3. QED
      BY <1>2, <3>1, <3>2
  <2>4. rt'[t].op = "reset" <=> rt[t].op = "reset"
    BY <1>0, <2>3 DEF None
  <2>5. QED
    BY <1>0, <1>1, <2>1, <2>2, <2>3, <2>4, GenIdle
<1>3. ASSUME NEW d \in Devices, SetDevice(t, d) PROVE GenOk'
  <2>1. /\ device' = [device EXCEPT ![t] = d] /\ Starts(t, "use", None)
        /\ IF d # device[t] THEN selected' = [selected EXCEPT ![t] = 0] ELSE selected' = selected
    BY <1>3 DEF SetDevice, Reselect
  <2>2. /\ rt'[t].op = "use" /\ rt'[t].stage = "ensure" /\ rt'[t].gen = 0 /\ (rt'[t].reset <=> Resetting)
        /\ \A u \in Threads \ {t} : rt'[u] = rt[u]
    BY <1>0, <2>1, StartMoves DEF Resetting
  <2>3. /\ device'[t] = d /\ \A u \in Threads \ {t} : device'[u] = device[u] /\ selected'[u] = selected[u]
    BY <1>0, <2>1
  <2>4. GenFits(rt[t], selected[t], current[t], Life(device[t]), gen, device[t] \in retained, Resetting)
    BY DEF GenOk
  <2>5. GenFits(rt'[t], selected'[t], current[t], Life(d), gen, d \in retained, Resetting)
    <3>1. CASE d = device[t]
      <4>1. GenFits(rt'[t], selected[t], current[t], Life(device[t]), gen, device[t] \in retained, Resetting)
        BY <1>0, <2>2, <2>4, GenBegins
      <4>2. QED
        BY <2>1, <3>1, <4>1
    <3>2. CASE d # device[t]
      <4>1. selected'[t] = 0
        BY <1>0, <2>1, <3>2
      <4>2. QED
        BY <1>0, <2>2, <4>1 DEF GenFits
    <3>3. QED
      BY <3>1, <3>2
  <2>6. LifeNext(d) = Life(d)
    BY <1>0, LifeSame
  <2>7. GenFits(rt'[t], selected'[t], current'[t], LifeNext(device'[t]), gen, device'[t] \in retained', Resetting)
    BY <1>0, <2>3, <2>5, <2>6
  <2>8. GenOthers(t)
    BY <1>0, <2>2, <2>3 DEF GenOthers
  <2>9. rt'[t].op = "reset" <=> rt[t].op = "reset"
    BY <1>0, <2>2 DEF None
  <2>10. QED
    BY <1>0, <1>1, <2>7, <2>8, <2>9, GenSet
<1>4. QED
  BY <1>2, <1>3

(* Memory has to do with no selection.                                     *)
LEMMA MemoryGens ==
  ASSUME ShimTyped, RtTyped, PlaceInv, GenOk, NEW t \in Threads,
         \/ (\E op \in {"malloc", "malloc async"} : Malloc(t, op)) \/ RunMalloc(t) \/ ShimNotes(t) \/ NoteAlloc(t)
         \/ (\E a \in Addrs : Free(t, a) \/ FreeAsync(t, a)) \/ ShimForgets(t) \/ RunFree(t) \/ ForgetAlloc(t)
  PROVE  GenOk'
<1>0. FramesOk /\ FrameOk(rt[t]) /\ gen \in Nat /\ CallFits(rt[t], call[t])
  BY Typedness, AtWork
<1>1. UNCHANGED <<selected, current, device, gen, retained, driver>>
  BY DEF Malloc, RunMalloc, ShimNotes, NoteAlloc, Free, FreeAsync, ShimForgets, RunFree, ForgetAlloc, AskAlloc, RecordAlloc,
         RecordFree, AskFree, baseVars, driverVars, rtVars, ctxVars
<1>2. LivesOn
  BY <1>1, LifeSame DEF LivesOn
<1>3. ASSUME \A u \in Threads \ {t} : rt'[u] = rt[u], rt[t].op # "reset", rt'[t].op # "reset",
             rt'[t] = rt[t] \/ Away(rt'[t], gen) \/ Begins(rt'[t], Resetting)
      PROVE  GenOk'
  BY <1>1, <1>2, <1>3, GenIdle
<1>4. CASE (\E op \in {"malloc", "malloc async"} : Malloc(t, op)) \/ (\E a \in Addrs : Free(t, a))
  <2>1. PICK op \in {"malloc", "malloc async", "free"}, x \in Addrs \union {None} : Starts(t, op, x) /\ rt[t].op = None
    BY <1>4 DEF Malloc, Free, AtRest
  <2>2. rt'[t].op = op /\ Begins(rt'[t], Resetting) /\ \A u \in Threads \ {t} : rt'[u] = rt[u]
    BY <1>0, <2>1, StartMoves DEF Begins, Resetting
  <2>3. QED
    BY <1>3, <2>1, <2>2 DEF None
<1>5. CASE RunMalloc(t) \/ ShimForgets(t)
  <2>1. PICK s \in {"note", "forget"} : Stage(t, s)
    BY <1>5 DEF RunMalloc, ShimForgets
  <2>2. Moved(rt[t], rt'[t], s) /\ \A u \in Threads \ {t} : rt'[u] = rt[u]
    BY <1>0, <2>1, StageMoves
  <2>3. GenFits(rt[t], selected[t], current[t], Life(device[t]), gen, device[t] \in retained, Resetting)
    BY DEF GenOk
  <2>4. Away(rt'[t], gen)
    BY <2>2, <2>3 DEF GenFits, Moved, Away
  <2>5. rt[t].op # "reset" /\ rt'[t].op # "reset"
    BY <1>5, <2>2 DEF RunMalloc, ShimForgets, Moved
  <2>6. QED
    BY <1>3, <2>2, <2>4, <2>5
<1>6. CASE ShimNotes(t) \/ RunFree(t)
  <2>1. UNCHANGED rt /\ call[t].op \in {"alloc", "free", "free async"}
    BY <1>6 DEF ShimNotes, RunFree, RecordAlloc, AskFree, rtVars
  <2>2. rt[t].op # "reset"
    BY <1>0, <2>1 DEF CallFits
  <2>3. QED
    BY <1>3, <2>1, <2>2
<1>7. CASE NoteAlloc(t) \/ ForgetAlloc(t)
  <2>1. rt'[t] = NoFrame /\ \A u \in Threads \ {t} : rt'[u] = rt[u]
    BY <1>0, <1>7, ReturnMoves DEF NoteAlloc, ForgetAlloc
  <2>2. NoFrame.op = None /\ NoFrame.gen = 0 /\ NoFrame.stage = None
    BY DEF NoFrame
  <2>3. rt[t].op # "reset"
    BY <1>0, <1>7 DEF CallFits, NoteAlloc, ForgetAlloc
  <2>4. 0 <= gen
    BY GenLeast
  <2>5. Away(rt'[t], gen)
    BY <2>1, <2>2, <2>4 DEF Away, None
  <2>6. rt'[t].op # "reset"
    BY <2>1, <2>2 DEF None
  <2>7. QED
    BY <1>3, <2>1, <2>3, <2>5, <2>6
<1>8. ASSUME NEW a \in Addrs, FreeAsync(t, a) PROVE GenOk'
  <2> DEFINE f == [NoFrame EXCEPT !.op = "free", !.stage = "forget", !.x = a]
  <2>1. f.op = "free" /\ f.stage = "forget" /\ f.gen = 0
    BY DEF NoFrame
  <2>2. rt' = [rt EXCEPT ![t] = f] /\ rt[t].op = None
    BY <1>8 DEF FreeAsync, AtRest
  <2> HIDE DEF f
  <2>3. rt'[t] = f /\ \A u \in Threads \ {t} : rt'[u] = rt[u]
    BY <1>0, <2>2 DEF FramesOk
  <2>4. 0 <= gen
    BY GenLeast
  <2>5. Away(rt'[t], gen)
    BY <2>1, <2>3, <2>4 DEF Away
  <2>6. QED
    BY <1>3, <2>1, <2>2, <2>3, <2>5 DEF None
<1>9. QED
  BY <1>4, <1>5, <1>6, <1>7, <1>8

(* cudaDeviceReset marks the calls it overlaps, and moves the generation on*)
(* once every context is released.                                         *)
LEMMA ResetGens ==
  ASSUME ShimTyped, RtTyped, PlaceInv, GenOk, NEW t \in Threads,
         BeginDeviceReset(t) \/ (\E d \in Devices : ResetReleases(t, d)) \/ ResetRecords(t) \/ EndDeviceReset(t)
  PROVE  GenOk'
<1>0. /\ FramesOk /\ rt[t] \in Frame /\ gen \in Nat /\ UNCHANGED <<selected, current, device>>
      /\ \A u \in Threads : rt[u] \in Frame /\ selected[u] \in Nat
  BY Typedness DEF BeginDeviceReset, ResetReleases, ResetRecords, EndDeviceReset, ctxVars
<1>1. /\ CallFits(rt[t], call[t]) /\ HoldFits(t, rt[t], call[t], ctx_mu, retained, device[t])
  BY AtWork
<1>2. \A u \in Threads : GenFits(rt[u], selected[u], current[u], Life(device[u]), gen, device[u] \in retained, Resetting)
  BY DEF GenOk
<1>3. CASE BeginDeviceReset(t)
  <2> DEFINE f == [NoFrame EXCEPT !.op = "reset", !.stage = "release", !.todo = retained]
  <2>1. /\ UNCHANGED <<gen, retained>> /\ \A u \in Threads : rt'[u] = IF u = t THEN f ELSE [rt[u] EXCEPT !.reset = rt[u].op # None]
    BY <1>3 DEF BeginDeviceReset
  <2>2. f.op = "reset" /\ f.stage = "release" /\ f.gen = 0
    BY DEF NoFrame
  <2> HIDE DEF f
  <2>3. ResettingNext
    BY <2>1, <2>2 DEF ResettingNext
  <2>4. GenFits(f, selected[t], current[t], LifeNext(device[t]), gen, device[t] \in retained, TRUE)
    BY <1>0, <1>2, <2>2 DEF GenFits
  <2>5. ASSUME NEW u \in Threads \ {t}
        PROVE  GenFits(rt'[u], selected[u], current[u], LifeNext(device[u]), gen, device[u] \in retained, TRUE)
    <3>1. rt[u].stage # None => rt[u].op # None
      BY DEF PlaceInv, CallFits
    <3>2. /\ rt'[u].stage = rt[u].stage /\ rt'[u].gen = rt[u].gen /\ (rt'[u].reset <=> rt[u].op # None)
      BY <1>0, <2>1 DEF Frame
    <3>3. rt'[u].stage \in {"ensure", "retain", "select", "run"} => rt'[u].reset
      BY <3>1, <3>2 DEF None
    <3>4. selected[u] <= gen /\ rt'[u].gen <= gen
      BY <1>2, <3>2 DEF GenFits
    <3>5. QED
      BY <3>3, <3>4 DEF GenFits
  <2>6. \A u \in Threads : GenFits(rt'[u], selected[u], current[u], LifeNext(device[u]), gen, device[u] \in retained, TRUE)
    BY <2>1, <2>4, <2>5
  <2>7. \A u \in Threads : GenFits(rt'[u], selected'[u], current'[u], LifeNext(device'[u]), gen', device'[u] \in retained', ResettingNext)
    <3>1. ResettingNext = TRUE
      BY <2>3 DEF ResettingNext
    <3>2. QED
      BY <1>0, <2>1, <2>6, <3>1
  <2>8. QED
    BY <2>7, GenParts
<1>4. CASE (\E d \in Devices : ResetReleases(t, d)) \/ ResetRecords(t)
  <2>1. rt[t].op = "reset" /\ UNCHANGED <<gen, retained>>
    BY <1>4 DEF ResetReleases, ResetRecords, ctxVars
  <2>2. LivesOn
    BY <2>1 DEF LivesOn, Resetting
  <2>3. rt'[t].op = "reset" /\ Away(rt'[t], gen) /\ \A u \in Threads \ {t} : rt'[u] = rt[u]
    <3>1. rt[t].gen <= gen
      BY <1>2 DEF GenFits
    <3>2. ASSUME NEW d \in Devices, ResetReleases(t, d)
          PROVE  rt'[t].op = "reset" /\ Away(rt'[t], gen) /\ \A u \in Threads \ {t} : rt'[u] = rt[u]
      <4> DEFINE f == [rt[t] EXCEPT !.stage = "record", !.todo = rt[t].todo \ {d}]
      <4>1. rt' = [rt EXCEPT ![t] = f]
        BY <3>2, <1>0 DEF ResetReleases, FramesOk
      <4>2. f.op = "reset" /\ f.stage = "record" /\ f.gen = rt[t].gen
        BY <1>0, <2>1 DEF Frame
      <4> HIDE DEF f
      <4>3. rt'[t] = f /\ \A u \in Threads \ {t} : rt'[u] = rt[u]
        BY <1>0, <4>1 DEF FramesOk
      <4>4. QED
        BY <3>1, <4>2, <4>3 DEF Away
    <3>3. ASSUME ResetRecords(t)
          PROVE  rt'[t].op = "reset" /\ Away(rt'[t], gen) /\ \A u \in Threads \ {t} : rt'[u] = rt[u]
      <4>1. Moved(rt[t], rt'[t], "release") /\ \A u \in Threads \ {t} : rt'[u] = rt[u]
        BY <1>0, <3>3, StageMoves DEF ResetRecords
      <4>2. QED
        BY <2>1, <3>1, <4>1 DEF Moved, Away
    <3>4. QED
      BY <1>4, <3>2, <3>3
  <2>4. QED
    BY <1>0, <2>1, <2>2, <2>3, GenIdle
<1>5. CASE EndDeviceReset(t)
  <2>1. /\ rt[t].op = "reset" /\ gen' = gen + 1 /\ rt'[t] = NoFrame /\ \A u \in Threads \ {t} : rt'[u] = rt[u]
    BY <1>0, <1>5, ReturnMoves DEF EndDeviceReset
  <2>2. Resetting
    BY <2>1 DEF Resetting
  <2>3. NoFrame.stage = None /\ NoFrame.gen = 0
    BY DEF NoFrame
  <2>4. ASSUME NEW u \in Threads
        PROVE  GenFits(rt'[u], selected[u], current[u], LifeNext(device[u]), gen + 1, device[u] \in retained', ResettingNext)
    <3>1. selected[u] <= gen /\ rt[u].gen <= gen /\ (rt[u].stage \in {"ensure", "retain", "select", "run"} => rt[u].reset)
      BY <1>2, <2>2 DEF GenFits
    <3>2. selected[u] \in Nat /\ rt[u].gen \in Nat
      BY <1>0 DEF Frame
    <3>3. selected[u] <= gen + 1 /\ selected[u] # gen + 1 /\ rt[u].gen <= gen + 1 /\ rt[u].gen # gen + 1
      BY <1>0, <3>1, <3>2
    <3>4. CASE u # t
      BY <2>1, <3>1, <3>3, <3>4 DEF GenFits
    <3>5. CASE u = t
      BY <1>0, <2>1, <2>3, <3>3, <3>5 DEF GenFits, None
    <3>6. QED
      BY <3>4, <3>5
  <2>5. QED
    BY <1>0, <2>1, <2>4, GenParts
<1>6. QED
  BY <1>3, <1>4, <1>5

(* While no one resets, the driver counts the runtime's retain besides the *)
(* application's.                                                          *)
LEMMA HeldAtLeast ==
  ASSUME ShimTyped, DevInv, NEW d \in Devices, d \in retained, ~Resetting
  PROVE  driver[d].retains > 0 /\ (owned[d] > 0 => driver[d].retains # 1)
<1>1. Held(d) = owned[d] + 1
  BY DEF Held, HeldIn, Resetting
<1>2. driver[d].retains >= Held(d) + Cardinality(RetainsOf(call, d))
  BY DEF DevInv, DevOk
<1>3. Cardinality(RetainsOf(call, d)) \in Nat
  <2>1. RetainsOf(call, d) \subseteq Threads
    BY DEF RetainsOf
  <2>2. QED
    BY <2>1, FS_Subset, FS_CardinalityType, DriverShimAssumption
<1>4. owned[d] \in Nat /\ driver[d] \in DriverRec
  BY DEF ShimTyped
<1>5. driver[d].retains \in Nat
  BY <1>4 DEF DriverRec
<1>6. QED
  BY <1>1, <1>2, <1>3, <1>4, <1>5

(* The application's own calls end no context the runtime holds: the       *)
(* runtime's retain is one more than its own.                              *)
LEMMA AppGens ==
  ASSUME ShimTyped, RtTyped, PlaceInv, DevInv, GenOk, NEW t \in Threads,
         \/ \E d \in Devices : \/ AppRetain(t, d) \/ AppRelease(t, d) \/ AppState(t, d)
                               \/ \E f \in Flags : AppSetFlags(t, d, f)
         \/ AppRetained(t) \/ AppRecords(t)
  PROVE  GenOk'
<1>0. retained \subseteq Devices
  BY DEF RtTyped
<1>1. UNCHANGED <<rt, selected, current, device, gen, retained>>
  BY DEF AppRetain, AppRelease, AppState, AppSetFlags, AppRetained, AppRecords, rtVars, ctxVars
<1>2. ASSUME LivesOn PROVE GenOk'
  BY <1>1, <1>2, GenIdle
<1>3. ASSUME NEW d \in Devices, AppRetain(t, d) \/ AppState(t, d) \/ \E f \in Flags : AppSetFlags(t, d, f) PROVE LivesOn
  <2>1. AskRetain(t, d) \/ AskState(t, d) \/ \E f \in Flags : AskSetFlags(t, d, f)
    BY <1>3 DEF AppRetain, AppState, AppSetFlags
  <2>2. QED
    BY <1>0, <2>1, AskLives DEF LivesOn
\* The runtime's retain is one more than the application's.
<1>4. ASSUME NEW d \in Devices, AppRelease(t, d) PROVE LivesOn
  <2>1. owned[d] > 0 /\ AskRelease(t, d)
    BY <1>4 DEF AppRelease
  <2>2. ASSUME d \in retained, ~Resetting PROVE driver[d].retains # 1
    BY <2>1, <2>2, HeldAtLeast
  <2>3. \A e \in Devices : e # d \/ driver[d].retains # 1 => LifeNext(e) = Life(e)
    BY <2>1, AskReleaseLives
  <2>4. QED
    BY <1>0, <2>2, <2>3 DEF LivesOn
<1>5. ASSUME AppRetained(t) \/ AppRecords(t) PROVE LivesOn
  <2>1. UNCHANGED driver
    BY <1>5 DEF AppRetained, AppRecords, RecordRetain, RecordRelease, RecordReset, RecordSetFlags, RecordState, driverVars
  <2>2. QED
    BY <2>1, LifeSame DEF LivesOn
<1>6. QED
  BY <1>2, <1>3, <1>4, <1>5

(* A launch begins as any call, and selects nothing.                       *)
LEMMA KernelGens ==
  ASSUME ShimTyped, RtTyped, LaunchInv, PlaceInv, GenOk, NEW t \in Threads, KernelNext(t)
  PROVE  GenOk' /\ UNCHANGED program
<1>1. UNCHANGED <<driver, selected, current, device, gen, retained, program>>
  BY DEF KernelNext, Register, Unregister, Launch, ResolveKnown, ResolveRefused, ResolveShips, ResolveLoaded,
         GetFunction, PackKnown, PackAsks, RecordLayout, AskOfFunction, RunLaunch, rtVars, ctxVars, baseVars, driverVars
<1>2. LivesOn
  BY <1>1, LifeSame DEF LivesOn
<1>3. LaunchFits(t, rt[t], reg, reg_mu)
  BY LaunchParts
<1>4. UNCHANGED rt \/ rt[t].op \in {None, "launch"}
  BY <1>3 DEF KernelNext, Register, Unregister, Launch, ResolveKnown, ResolveRefused, ResolveShips, ResolveLoaded,
         GetFunction, PackKnown, PackAsks, RecordLayout, AskOfFunction, RunLaunch, rtVars, AtRest, Resolving, LaunchFits
<1>5. NoFrame.op = None /\ NoFrame.gen = 0 /\ NoFrame.stage = None
  BY DEF NoFrame
<1>6. rt[t].gen <= gen
  BY DEF GenOk, GenFits
<1>7. /\ \A u \in Threads \ {t} : rt'[u] = rt[u]
      /\ \/ rt'[t] = rt[t]
         \/ rt'[t] = NoFrame
         \/ rt'[t].op = "launch" /\ rt'[t].stage \in LaunchStages /\ rt'[t].gen = rt[t].gen
         \/ rt'[t].op = "launch" /\ rt'[t].stage = "ensure" /\ rt'[t].gen = 0 /\ (rt'[t].reset <=> Resetting)
  BY KernelPlaces DEF Resetting
<1>8. rt'[t] = rt[t] \/ Away(rt'[t], gen) \/ Begins(rt'[t], Resetting)
  BY <1>5, <1>6, <1>7, GenLeast DEF Away, Begins, LaunchStages, None
<1>9. rt'[t].op = "reset" <=> rt[t].op = "reset"
  BY <1>4, <1>5, <1>7 DEF None
<1>10. QED
  BY <1>1, <1>2, <1>7, <1>8, <1>9, GenIdle

(* The program stays, and a context is reset by one that resets contexts.  *)
LEMMA ProgramStays ==
  ASSUME NEW t, RtNext(t)
  PROVE  UNCHANGED program
  BY DEF RtNext, EnsureFast, EnsureFinds, EnsureRetains, EnsureRetained, EnsureSelects, Use, RunUse, SetDevice, BeginDeviceReset,
         ResetReleases, ResetRecords, EndDeviceReset, Malloc, RunMalloc, ShimNotes, NoteAlloc, Free, FreeAsync, ShimForgets,
         RunFree, ForgetAlloc, AppRetain, AppRelease, AppReset, AppState, AppSetFlags, AppRetained, AppRecords, rtVars

DeviceInv == ContextInv /\ GenInv

(* The library begins with no context selected.                            *)
LEMMA DeviceInit == Init => DeviceInv
<1> SUFFICES ASSUME Init PROVE DeviceInv
  OBVIOUS
<1>1. ContextInv /\ RtInit
  BY ContextInit DEF Init, LibrariesInit, RuntimeInit
<1>2. \A t \in Threads : selected[t] = 0 /\ rt[t] = NoFrame
  BY <1>1 DEF RtInit
<1>3. NoFrame.stage = None /\ NoFrame.gen = 0 /\ gen = 1
  BY <1>1 DEF NoFrame, RtInit
<1>4. GenOk
  BY <1>2, <1>3 DEF GenOk, GenFits, None
<1>5. QED
  BY <1>1, <1>4 DEF DeviceInv, GenInv

(* Every step of the library keeps the selections.                         *)
LEMMA DeviceKeeps == DeviceInv /\ [Next]_vars => DeviceInv'
<1> SUFFICES ASSUME DeviceInv, [Next]_vars PROVE DeviceInv'
  OBVIOUS
<1>1. ContextInv'
  BY ContextKeeps DEF DeviceInv
<1>2. ShimTyped /\ RtTyped /\ LaunchInv /\ PlaceInv /\ DevInv
  BY DEF DeviceInv, ContextInv, RuntimeInv, TypeInv
<1>3. program.on \subseteq Devices
  BY <1>2, RuntimeAssumption DEF RtTyped
<1>4. ASSUME UNCHANGED program, ~Makes("ctx reset") /\ GenOk => GenOk' PROVE GenInv'
  <2>1. Makes("ctx reset")' <=> Makes("ctx reset")
    BY <1>4 DEF Makes
  <2>2. QED
    BY <1>4, <2>1 DEF DeviceInv, GenInv
<1>5. ASSUME NEW t \in Threads, RtNext(t), ~Makes("ctx reset"), GenOk PROVE GenOk'
  <2>1. ASSUME NEW d, AppReset(t, d) PROVE FALSE
    BY <1>5, <2>1 DEF AppReset, Own
  <2>2. CASE EnsureFast(t) \/ EnsureFinds(t) \/ EnsureRetains(t) \/ EnsureRetained(t) \/ EnsureSelects(t)
    BY <1>2, <1>5, <2>2, EnsureGens
  <2>3. CASE Use(t) \/ RunUse(t) \/ \E d \in program.on : SetDevice(t, d)
    BY <1>2, <1>3, <1>5, <2>3, UseGens
  <2>4. CASE BeginDeviceReset(t) \/ (\E d \in program.on : ResetReleases(t, d)) \/ ResetRecords(t) \/ EndDeviceReset(t)
    BY <1>2, <1>3, <1>5, <2>4, ResetGens
  <2>5. CASE \/ (\E op \in {"malloc", "malloc async"} : Malloc(t, op)) \/ RunMalloc(t) \/ ShimNotes(t) \/ NoteAlloc(t)
             \/ (\E a \in Addrs : Free(t, a) \/ FreeAsync(t, a)) \/ ShimForgets(t) \/ RunFree(t) \/ ForgetAlloc(t)
    BY <1>2, <1>5, <2>5, MemoryGens
  <2>6. CASE \/ \E d \in program.on : \/ AppRetain(t, d) \/ AppRelease(t, d) \/ AppState(t, d)
                                      \/ \E f \in Flags : AppSetFlags(t, d, f)
             \/ AppRetained(t) \/ AppRecords(t)
    BY <1>2, <1>3, <1>5, <2>6, AppGens
  <2>7. QED
    BY <1>5, <2>1, <2>2, <2>3, <2>4, <2>5, <2>6 DEF RtNext
<1>6. ASSUME NEW t \in Threads, RtNext(t) PROVE GenInv'
  BY <1>4, <1>5, <1>6, ProgramStays
<1>7. ASSUME NEW t \in Threads, KernelNext(t) PROVE GenInv'
  <2>1. UNCHANGED program
    BY <1>7 DEF KernelNext, Register, Unregister, Launch, ResolveKnown, ResolveRefused, ResolveShips, ResolveLoaded,
         GetFunction, PackKnown, PackAsks, RecordLayout, AskOfFunction, RunLaunch, rtVars
  <2>2. QED
    BY <1>2, <1>4, <1>7, <2>1, KernelGens
<1>8. ASSUME UNCHANGED runtimeVars PROVE GenInv'
  <2>1. UNCHANGED <<driver, rt, retained, gen, selected, current, device, program>>
    BY <1>8 DEF runtimeVars, baseVars, driverVars, rtVars, ctxVars
  <2>2. (\A d : LifeNext(d) = Life(d)) /\ (ResettingNext <=> Resetting)
    BY <2>1, LifeSame DEF ResettingNext, Resetting
  <2>3. ASSUME GenOk, NEW t \in Threads
        PROVE  GenFits(rt'[t], selected'[t], current'[t], LifeNext(device'[t]), gen', device'[t] \in retained', ResettingNext)
    <3>1. GenFits(rt[t], selected[t], current[t], Life(device[t]), gen, device[t] \in retained, Resetting)
      BY <2>3 DEF GenOk
    <3>2. GenFits(rt[t], selected[t], current[t], LifeNext(device[t]), gen, device[t] \in retained, ResettingNext)
      BY <2>2, <3>1 DEF GenFits
    <3>3. QED
      BY <2>1, <3>2
  <2>4. QED
    BY <1>4, <2>1, <2>3, GenParts
<1>9. QED
  BY <1>1, <1>6, <1>7, <1>8, RuntimeStep DEF DeviceInv

(* The selections hold in every behaviour.                                 *)
LEMMA DeviceHolds == Spec => []DeviceInv
  BY DeviceInit, DeviceKeeps, PTL DEF Spec

(* A runtime call runs in the living primary context of its thread's       *)
(* device, though most calls select nothing: unless a cudaDeviceReset      *)
(* overlapped it.  (ensure_context, and g_ctx_gen.)                        *)
THEOREM AlwaysRunsOnItsDevice == Spec => []RunsOnItsDevice
<1>1. DeviceInv => RunsOnItsDevice
  <2> SUFFICES ASSUME DeviceInv, ~Makes("ctx reset"), NEW t \in Threads, rt[t].stage = "run", ~rt[t].reset
               PROVE  current[t] = Life(device[t]) /\ Active(device[t])
    BY DEF RunsOnItsDevice
  <2>1. ShimTyped /\ RtTyped /\ DevInv /\ GenOk
    BY DEF DeviceInv, ContextInv, RuntimeInv, TypeInv, GenInv
  <2>2. GenFits(rt[t], selected[t], current[t], Life(device[t]), gen, device[t] \in retained, Resetting)
    BY <2>1 DEF GenOk
  <2>3. ~Resetting /\ device[t] \in retained /\ current[t] = Life(device[t])
    BY <2>2 DEF GenFits
  <2>4. device[t] \in Devices
    BY <2>1, Typedness
  <2>5. Active(device[t])
    BY <2>1, <2>3, <2>4, HeldAtLeast DEF Active
  <2>6. QED
    BY <2>3, <2>5
<1>2. QED
  BY <1>1, DeviceHolds, PTL

-----------------------------------------------------------------------------
(* Memory, while no context ends.                                          *)

(* Who has an address in hand: the one that frees it, until the driver     *)
(* has; or the one the driver gave it to, until it is noted.               *)
FreeingBy(f, c, a) == f.op = "free" /\ f.x = a /\ ~(c.op = "freed" /\ c.got = 1)
MakingBy(c, a)     == c.op \in {"alloc", "allocated"} /\ c.x = a
Freers(F, C, a)    == {u \in Threads : FreeingBy(F[u], C[u], a)}
Claimers(F, C, a)  == {u \in Threads : FreeingBy(F[u], C[u], a) \/ MakingBy(C[u], a)}
Forgotten(C, a)    == {u \in Threads : C[u].op = "free" /\ C[u].x = a}

(* An address: its claimers, those that free it, those that had the shim   *)
(* forget it; whether it is allocated, the application's, robbed, known to *)
(* the runtime and to the shim; and whether the shim hears of every free.  *)
AddrOk(K, R, D, m, h, r, k, l, s) ==
  /\ h => m /\ K = {}
  /\ K # {} => m
  /\ \A t, u \in K : t = u
  /\ (h \/ R # {}) /\ ~r => k
  /\ s /\ l => m
  /\ D # {} => ~l
AddrFits(a, F, C, M, H, r, k, l, s) ==
  AddrOk(Claimers(F, C, a), Freers(F, C, a), Forgotten(C, a), M[a] # NoCtx, a \in H, a \in r, a \in k, a \in l, s)

(* A thread has selected a context before anything runs in it; and what    *)
(* answers of a free says whether the driver has freed.                    *)
ThreadFits(f, c, s, sel, cur) ==
  /\ sel # 0 \/ f.stage = "run" => cur # NoCtx
  /\ s => c.op # "free async"
  /\ c.op = "freed" /\ c.r = "ok" => c.got = 1
  /\ f.op # "reset"
HearsFrees == ~Makes("free async")
MemOk ==
  /\ \A a \in Addrs : AddrFits(a, rt, call, mem, handed, robbed, dev_allocs, allocs, HearsFrees)
  /\ \A t \in Threads : ThreadFits(rt[t], call[t], HearsFrees, selected[t], current[t])
MemInv == EndsNoContext => MemOk

(* What is remembered of memory in the next state: every address, every    *)
(* thread.                                                                 *)
LEMMA MemParts ==
  ASSUME UNCHANGED program
  PROVE  MemOk' <=> /\ \A a \in Addrs : AddrFits(a, rt', call', mem', handed', robbed', dev_allocs', allocs', HearsFrees)
                    /\ \A t \in Threads : ThreadFits(rt'[t], call'[t], HearsFrees, selected'[t], current'[t])
<1>1. HearsFrees' <=> HearsFrees
  BY DEF HearsFrees, Makes
<1>2. QED
  BY <1>1 DEF MemOk, AddrFits, AddrOk, ThreadFits, Claimers, Freers, Forgotten, FreeingBy, MakingBy

(* What a step of one thread leaves of the others'.                        *)
Leaves(t) ==
  \A u \in Threads \ {t} :
    /\ rt'[u].op = rt[u].op /\ rt'[u].stage = rt[u].stage /\ rt'[u].x = rt[u].x
    /\ call'[u].op = call[u].op /\ call'[u].x = call[u].x /\ call'[u].r = call[u].r /\ call'[u].got = call[u].got
    /\ selected'[u] = selected[u] /\ current'[u] = current[u]

(* Only its own claims change: they are less, or more by one.              *)
LEMMA ClaimsMove ==
  ASSUME NEW t \in Threads, Leaves(t), NEW a
  PROVE  /\ Claimers(rt', call', a) \ {t} = Claimers(rt, call, a) \ {t}
         /\ Freers(rt', call', a) \ {t} = Freers(rt, call, a) \ {t}
         /\ Forgotten(call', a) \ {t} = Forgotten(call, a) \ {t}
         /\ t \in Claimers(rt', call', a) <=> FreeingBy(rt'[t], call'[t], a) \/ MakingBy(call'[t], a)
         /\ t \in Freers(rt', call', a) <=> FreeingBy(rt'[t], call'[t], a)
         /\ t \in Forgotten(call', a) <=> call'[t].op = "free" /\ call'[t].x = a
         /\ t \in Claimers(rt, call, a) <=> FreeingBy(rt[t], call[t], a) \/ MakingBy(call[t], a)
         /\ t \in Freers(rt, call, a) <=> FreeingBy(rt[t], call[t], a)
         /\ t \in Forgotten(call, a) <=> call[t].op = "free" /\ call[t].x = a
<1>1. ASSUME NEW u \in Threads \ {t}
      PROVE  /\ FreeingBy(rt'[u], call'[u], a) <=> FreeingBy(rt[u], call[u], a)
             /\ MakingBy(call'[u], a) <=> MakingBy(call[u], a)
             /\ call'[u].op = "free" /\ call'[u].x = a <=> call[u].op = "free" /\ call[u].x = a
  BY DEF Leaves, FreeingBy, MakingBy
<1>2. QED
  BY <1>1 DEF Claimers, Freers, Forgotten

(* A free is claimed: those that had the shim forget an address free it.   *)
LEMMA ForgottenFree ==
  ASSUME PlaceInv, NEW a
  PROVE  Forgotten(call, a) \subseteq Freers(rt, call, a) /\ Freers(rt, call, a) \subseteq Claimers(rt, call, a)
<1>1. ASSUME NEW u \in Threads, call[u].op = "free", call[u].x = a PROVE FreeingBy(rt[u], call[u], a)
  BY <1>1 DEF PlaceInv, CallFits, FreeingBy
<1>2. QED
  BY <1>1 DEF Forgotten, Freers, Claimers

(* An address that no one newly claims, and nothing else happens to.       *)
LEMMA AddrQuiet ==
  ASSUME NEW K, NEW R, NEW D, NEW m \in BOOLEAN, NEW h \in BOOLEAN, NEW r \in BOOLEAN, NEW k \in BOOLEAN, NEW l \in BOOLEAN,
         NEW s \in BOOLEAN, AddrOk(K, R, D, m, h, r, k, l, s), NEW K2, K2 \subseteq K, NEW R2, R2 \subseteq R,
         NEW D2, D2 \subseteq D
  PROVE  AddrOk(K2, R2, D2, m, h, r, k, l, s)
  BY DEF AddrOk

(* An address that the step's thread does not newly claim is as it was.    *)
LEMMA AddrStays ==
  ASSUME MemOk, NEW t \in Threads, Leaves(t), NEW a \in Addrs, mem'[a] = mem[a],
         a \in handed' <=> a \in handed, a \in robbed' <=> a \in robbed, a \in dev_allocs' <=> a \in dev_allocs,
         a \in allocs' <=> a \in allocs,
         FreeingBy(rt'[t], call'[t], a) => FreeingBy(rt[t], call[t], a),
         MakingBy(call'[t], a) => MakingBy(call[t], a),
         call'[t].op = "free" /\ call'[t].x = a => call[t].op = "free" /\ call[t].x = a
  PROVE  AddrFits(a, rt', call', mem', handed', robbed', dev_allocs', allocs', HearsFrees)
<1>1. AddrFits(a, rt, call, mem, handed, robbed, dev_allocs, allocs, HearsFrees)
  BY DEF MemOk
<1>2. /\ Claimers(rt', call', a) \subseteq Claimers(rt, call, a)
      /\ Freers(rt', call', a) \subseteq Freers(rt, call, a)
      /\ Forgotten(call', a) \subseteq Forgotten(call, a)
  BY ClaimsMove
<1>3. HearsFrees \in BOOLEAN
  BY DEF HearsFrees
<1> DEFINE m == mem[a] # NoCtx
           h == a \in handed
           r == a \in robbed
           k == a \in dev_allocs
           l == a \in allocs
<1>4. AddrOk(Claimers(rt, call, a), Freers(rt, call, a), Forgotten(call, a), m, h, r, k, l, HearsFrees)
  BY <1>1 DEF AddrFits
<1>5. m \in BOOLEAN /\ h \in BOOLEAN /\ r \in BOOLEAN /\ k \in BOOLEAN /\ l \in BOOLEAN
  OBVIOUS
<1>6. /\ m = (mem'[a] # NoCtx) /\ h = (a \in handed') /\ r = (a \in robbed') /\ k = (a \in dev_allocs')
      /\ l = (a \in allocs')
  OBVIOUS
<1> HIDE DEF m, h, r, k, l
<1>7. AddrOk(Claimers(rt', call', a), Freers(rt', call', a), Forgotten(call', a), m, h, r, k, l, HearsFrees)
  BY <1>2, <1>3, <1>4, <1>5, AddrQuiet
<1>8. QED
  BY <1>6, <1>7 DEF AddrFits

(* A step keeps what is remembered of memory if it keeps its own thread and*)
(* each address.                                                           *)
LEMMA MemSet ==
  ASSUME MemOk, NEW t \in Threads, Leaves(t), UNCHANGED program,
         ThreadFits(rt'[t], call'[t], HearsFrees, selected'[t], current'[t]),
         \A a \in Addrs : AddrFits(a, rt', call', mem', handed', robbed', dev_allocs', allocs', HearsFrees)
  PROVE  MemOk'
<1>1. ASSUME NEW u \in Threads \ {t} PROVE ThreadFits(rt'[u], call'[u], HearsFrees, selected'[u], current'[u])
  <2>1. ThreadFits(rt[u], call[u], HearsFrees, selected[u], current[u])
    BY DEF MemOk
  <2>2. QED
    BY <2>1 DEF Leaves, ThreadFits
<1>2. QED
  BY <1>1, MemParts

(* A step that has to do with no memory.                                   *)
LEMMA MemQuiet ==
  ASSUME MemOk, NEW t \in Threads, Leaves(t), UNCHANGED <<program, mem, handed, robbed, dev_allocs, allocs>>,
         ThreadFits(rt'[t], call'[t], HearsFrees, selected'[t], current'[t]),
         rt'[t].op = "free" => rt[t].op = "free" /\ rt'[t].x = rt[t].x,
         SameCall(call[t], call'[t]) \/ (call[t].op \notin MemOps /\ call'[t].op \notin MemOps)
  PROVE  MemOk'
<1>1. ASSUME NEW a \in Addrs
      PROVE  /\ FreeingBy(rt'[t], call'[t], a) => FreeingBy(rt[t], call[t], a)
             /\ MakingBy(call'[t], a) => MakingBy(call[t], a)
             /\ call'[t].op = "free" /\ call'[t].x = a => call[t].op = "free" /\ call[t].x = a
  BY DEF FreeingBy, MakingBy, SameCall, MemOps
<1>2. \A a \in Addrs : AddrFits(a, rt', call', mem', handed', robbed', dev_allocs', allocs', HearsFrees)
  BY <1>1, AddrStays
<1>3. QED
  BY <1>2, MemSet

(* A living context is one.                                                *)
LEMMA LifeIsOne == ASSUME ShimTyped, NEW d \in Devices PROVE Life(d) # NoCtx
<1>1. driver[d] \in DriverRec
  BY DEF ShimTyped
<1>2. Life(d).life # 0 /\ NoCtx.life = 0
  BY <1>1 DEF DriverRec, Life, NoCtx
<1>3. QED
  BY <1>2

(* ensure_context has to do with no memory, and selects a living context   *)
(* before anything runs in it.                                             *)
LEMMA EnsureKeepsMem ==
  ASSUME ShimTyped, RtTyped, PlaceInv, MemOk, NEW t \in Threads,
         EnsureFast(t) \/ EnsureFinds(t) \/ EnsureRetains(t) \/ EnsureRetained(t) \/ EnsureSelects(t)
  PROVE  MemOk'
<1>0. /\ FramesOk /\ device[t] \in Devices /\ gen # 0 /\ selected \in [Threads -> Nat] /\ current \in [Threads -> Ctx]
      /\ UNCHANGED <<program, mem, handed, robbed, dev_allocs, allocs>>
  BY Typedness DEF RtTyped, EnsureFast, EnsureFinds, EnsureRetains, EnsureRetained, EnsureSelects, AskRetain, RecordRetain,
         baseVars, driverVars, shimVars, memVars
<1>1. /\ CallFits(rt[t], call[t]) /\ rt[t].stage \in {"ensure", "select", "retain"}
      /\ rt[t].stage \in {"ensure", "select"} => call[t].op = None
  BY AtWork DEF EnsureFast, EnsureFinds, EnsureRetains, EnsureRetained, EnsureSelects
<1>2. ThreadFits(rt[t], call[t], HearsFrees, selected[t], current[t])
  BY DEF MemOk
<1>3. ASSUME \A u \in Threads \ {t} : rt'[u] = rt[u] /\ SameCall(call[u], call'[u]),
             \A u \in Threads \ {t} : selected'[u] = selected[u] /\ current'[u] = current[u],
             rt'[t] = NoFrame \/ (rt'[t].op = rt[t].op /\ rt'[t].x = rt[t].x),
             SameCall(call[t], call'[t]) \/ (call[t].op \notin MemOps /\ call'[t].op \notin MemOps),
             selected'[t] # 0 \/ rt'[t].stage = "run" => current'[t] # NoCtx
      PROVE  MemOk'
  <2>1. Leaves(t)
    BY <1>3 DEF Leaves, SameCall
  <2>2. NoFrame.op = None
    BY DEF NoFrame
  <2>3. ThreadFits(rt'[t], call'[t], HearsFrees, selected'[t], current'[t])
    BY <1>2, <1>3, <2>2 DEF ThreadFits, SameCall, MemOps, None
  <2>4. rt'[t].op = "free" => rt[t].op = "free" /\ rt'[t].x = rt[t].x
    BY <1>3, <2>2 DEF None
  <2>5. QED
    BY <1>0, <1>3, <2>1, <2>3, <2>4, MemQuiet
<1>4. ASSUME UNCHANGED call PROVE \A u \in Threads : SameCall(call[u], call'[u])
  BY <1>4 DEF SameCall
<1>5. selected[t] # 0 => current[t] # NoCtx
  BY <1>2 DEF ThreadFits
<1>6. NoFrame.stage = None
  BY DEF NoFrame
<1>7. CASE EnsureFast(t)
  <2>1. UNCHANGED <<call, selected, current>> /\ selected[t] = gen /\ Stage(t, "run")
    BY <1>7 DEF EnsureFast, SelectionHolds, baseVars, shimVars, ctxVars
  <2>2. rt'[t].op = rt[t].op /\ rt'[t].x = rt[t].x /\ \A u \in Threads \ {t} : rt'[u] = rt[u]
    BY <1>0, <2>1, StageMoves DEF Moved
  <2>3. QED
    BY <1>0, <1>3, <1>4, <1>5, <2>1, <2>2
<1>8. CASE EnsureFinds(t)
  <2>1. UNCHANGED <<call, selected, current>>
    BY <1>8 DEF EnsureFinds, baseVars, shimVars, ctxVars
  <2>2. /\ rt'[t].op = rt[t].op /\ rt'[t].x = rt[t].x /\ rt'[t].stage = "select"
        /\ \A u \in Threads \ {t} : rt'[u] = rt[u]
    BY <1>0, <1>8, GenMoves DEF EnsureFinds
  <2>3. QED
    BY <1>3, <1>4, <1>5, <2>1, <2>2
<1>9. CASE EnsureRetains(t)
  <2>1. UNCHANGED <<selected, current>> /\ AskRetain(t, device[t]) /\ rt[t].stage = "ensure"
    BY <1>9 DEF EnsureRetains
  <2>2. /\ rt'[t].op = rt[t].op /\ rt'[t].x = rt[t].x /\ rt'[t].stage = "retain"
        /\ \A u \in Threads \ {t} : rt'[u] = rt[u]
    BY <1>0, <1>9, GenMoves DEF EnsureRetains
  <2>3. call'[t].op \in CtxOps /\ \A u \in Threads \ {t} : SameCall(call[u], call'[u])
    BY <1>0, <2>1, AskPlaces
  <2>4. call[t].op \notin MemOps /\ call'[t].op \notin MemOps
    BY <1>1, <2>1, <2>3 DEF CtxOps, MemOps, None
  <2>5. QED
    BY <1>3, <1>5, <2>1, <2>2, <2>3, <2>4
<1>10. CASE EnsureRetained(t)
  <2>1. UNCHANGED <<selected, current>> /\ RecordRetain(t) /\ (Stage(t, "select") \/ Returns(t))
    BY <1>10 DEF EnsureRetained
  <2>2. /\ rt'[t] = NoFrame \/ (rt'[t].op = rt[t].op /\ rt'[t].x = rt[t].x)
        /\ rt'[t].stage # "run" /\ \A u \in Threads \ {t} : rt'[u] = rt[u]
    <3>1. CASE Stage(t, "select")
      BY <1>0, <3>1, StageMoves DEF Moved
    <3>2. CASE Returns(t)
      BY <1>0, <1>6, <3>2, ReturnMoves DEF None
    <3>3. QED
      BY <2>1, <3>1, <3>2
  <2>3. /\ call[t].op \in CtxOps /\ call'[t].op = None
        /\ \A u \in Threads \ {t} : SameCall(call[u], call'[u])
    BY <2>1, RecordPlaces DEF SameCall
  <2>4. call[t].op \notin MemOps /\ call'[t].op \notin MemOps
    BY <2>3 DEF CtxOps, MemOps, None
  <2>5. QED
    BY <1>3, <1>5, <2>1, <2>2, <2>3, <2>4
<1>11. CASE EnsureSelects(t)
  <2>1. UNCHANGED call
    BY <1>11 DEF EnsureSelects, baseVars, shimVars
  <2>2. PICK o \in Outcomes : /\ current' = IF o.ran THEN [current EXCEPT ![t] = Life(device[t])] ELSE current
                              /\ IF o.r = "ok" THEN Selects(t) /\ Stage(t, "run") ELSE Returns(t) /\ UNCHANGED selected
    BY <1>11 DEF EnsureSelects
  <2>3. /\ \A u \in Threads \ {t} : current'[u] = current[u]
        /\ o.ran => current'[t] # NoCtx
        /\ ~o.ran => current'[t] = current[t]
    BY <1>0, <2>2, LifeIsOne
  <2>4. o.r = "ok" => o.ran
    BY OutcomesAre
  <2>5. ASSUME o.r = "ok" PROVE MemOk'
    <3>1. Stage(t, "run") /\ \A u \in Threads \ {t} : selected'[u] = selected[u]
      BY <1>0, <2>2, <2>5 DEF Selects
    <3>2. rt'[t].op = rt[t].op /\ rt'[t].x = rt[t].x /\ \A u \in Threads \ {t} : rt'[u] = rt[u]
      BY <1>0, <3>1, StageMoves DEF Moved
    <3>3. QED
      BY <1>3, <1>4, <2>1, <2>3, <2>4, <2>5, <3>1, <3>2
  <2>6. ASSUME o.r # "ok" PROVE MemOk'
    <3>1. Returns(t) /\ UNCHANGED selected
      BY <2>2, <2>6
    <3>2. rt'[t] = NoFrame /\ rt'[t].stage # "run" /\ \A u \in Threads \ {t} : rt'[u] = rt[u]
      BY <1>0, <1>6, <3>1, ReturnMoves DEF None
    <3>3. QED
      BY <1>3, <1>4, <1>5, <2>1, <2>3, <3>1, <3>2
  <2>7. QED
    BY <2>5, <2>6
<1>12. QED
  BY <1>7, <1>8, <1>9, <1>10, <1>11

(* A call that keeps nothing, and an allocation that begins, have no       *)
(* address in hand.                                                        *)
LEMMA UseKeepsMem ==
  ASSUME ShimTyped, RtTyped, PlaceInv, MemOk, NEW t \in Threads,
         \/ Use(t) \/ RunUse(t) \/ \E d \in Devices : SetDevice(t, d)
         \/ \E op \in {"malloc", "malloc async"} : Malloc(t, op)
  PROVE  MemOk'
<1>0. /\ FramesOk /\ selected \in [Threads -> Nat]
      /\ UNCHANGED <<call, current, program, mem, handed, robbed, dev_allocs, allocs>>
  BY Typedness DEF RtTyped, Use, RunUse, SetDevice, Malloc, baseVars, driverVars, shimVars, ctxVars, memVars
<1>1. ThreadFits(rt[t], call[t], HearsFrees, selected[t], current[t])
  BY DEF MemOk
<1>2. /\ \A u \in Threads \ {t} : selected'[u] = selected[u]
      /\ selected'[t] # 0 => selected[t] # 0
  BY <1>0 DEF Use, RunUse, SetDevice, Malloc, Reselect, ctxVars
<1>3. /\ rt'[t].op \notin {"free", "reset"} /\ rt'[t].stage # "run"
      /\ \A u \in Threads \ {t} : rt'[u] = rt[u]
  <2>1. CASE RunUse(t)
    BY <1>0, <2>1, ReturnMoves DEF RunUse, None
  <2>2. ASSUME NEW op \in {"use", "malloc", "malloc async"}, Starts(t, op, None)
        PROVE  /\ rt'[t].op \notin {"free", "reset"} /\ rt'[t].stage # "run"
               /\ \A u \in Threads \ {t} : rt'[u] = rt[u]
    <3>1. rt'[t].op = op /\ rt'[t].stage = "ensure" /\ \A u \in Threads \ {t} : rt'[u] = rt[u]
      BY <1>0, <2>2, StartMoves
    <3>2. QED
      BY <3>1
  <2>3. QED
    BY <2>1, <2>2 DEF Use, SetDevice, Malloc
<1>4. \A u \in Threads : SameCall(call[u], call'[u])
  BY <1>0 DEF SameCall
<1>5. Leaves(t)
  BY <1>0, <1>2, <1>3, <1>4 DEF Leaves
<1>6. ThreadFits(rt'[t], call'[t], HearsFrees, selected'[t], current'[t])
  BY <1>0, <1>1, <1>2, <1>3 DEF ThreadFits
<1>7. QED
  BY <1>0, <1>3, <1>4, <1>5, <1>6, MemQuiet

(* The application's own calls about contexts, of which none ends, have to *)
(* do with no memory.                                                      *)
LEMMA AppKeepsMem ==
  ASSUME ShimTyped, RtTyped, PlaceInv, MemOk, NEW t \in Threads,
         \/ \E d \in Devices : AppRetain(t, d) \/ AppState(t, d) \/ \E f \in Flags : AppSetFlags(t, d, f)
         \/ AppRetained(t) \/ AppRecords(t)
  PROVE  MemOk'
<1>1. UNCHANGED <<rt, selected, current, program, handed, robbed, dev_allocs>>
  BY DEF AppRetain, AppState, AppSetFlags, AppRetained, AppRecords, rtVars, ctxVars, memVars
<1>2. UNCHANGED <<mem, allocs>>
  BY DEF AppRetain, AppState, AppSetFlags, AppRetained, AppRecords, AskRetain, AskState, AskSetFlags, RecordRetain,
         RecordRelease, RecordReset, RecordSetFlags, RecordState, driverVars
<1>3. ThreadFits(rt[t], call[t], HearsFrees, selected[t], current[t])
  BY DEF MemOk
<1>4. /\ \A u \in Threads \ {t} : SameCall(call[u], call'[u])
      /\ call[t].op \in CtxOps \union {None} /\ call'[t].op \in CtxOps \union {None}
  <2>1. ASSUME NEW d \in Devices, AppRetain(t, d) \/ AppState(t, d) \/ \E f \in Flags : AppSetFlags(t, d, f)
        PROVE  /\ \A u \in Threads \ {t} : SameCall(call[u], call'[u])
               /\ call[t].op = None /\ call'[t].op \in CtxOps
    <3>1. AskRetain(t, d) \/ AskState(t, d) \/ \E f \in Flags : AskSetFlags(t, d, f)
      BY <2>1 DEF AppRetain, AppState, AppSetFlags
    <3>2. call[t].op = None
      BY <2>1 DEF AppRetain, AppState, AppSetFlags, Own, AtRest
    <3>3. QED
      BY <3>1, <3>2, AskPlaces
  <2>2. ASSUME AppRetained(t) \/ AppRecords(t)
        PROVE  /\ \A u \in Threads \ {t} : SameCall(call[u], call'[u])
               /\ call[t].op \in CtxOps /\ call'[t].op = None
    <3>1. RecordRetain(t) \/ RecordRelease(t) \/ RecordReset(t) \/ RecordSetFlags(t) \/ RecordState(t)
      BY <2>2 DEF AppRetained, AppRecords
    <3>2. QED
      BY <3>1, RecordPlaces DEF SameCall
  <2>3. QED
    BY <2>1, <2>2
<1>5. call[t].op \notin MemOps /\ call'[t].op \notin MemOps
  BY <1>4 DEF CtxOps, MemOps, None
<1>6. Leaves(t)
  BY <1>1, <1>4 DEF Leaves, SameCall
<1>7. ThreadFits(rt'[t], call'[t], HearsFrees, selected'[t], current'[t])
  BY <1>1, <1>3, <1>5 DEF ThreadFits, MemOps
<1>8. QED
  BY <1>1, <1>2, <1>5, <1>6, <1>7, MemQuiet

(* A launch has to do with no memory.                                      *)
LEMMA KernelKeepsMem ==
  ASSUME ShimTyped, RtTyped, LaunchInv, PlaceInv, MemOk, NEW t \in Threads, KernelNext(t)
  PROVE  MemOk' /\ UNCHANGED program
<1>1. UNCHANGED <<call, selected, current, program, mem, handed, robbed, dev_allocs, allocs>>
  BY DEF KernelNext, Register, Unregister, Launch, ResolveKnown, ResolveRefused, ResolveShips, ResolveLoaded,
         GetFunction, PackKnown, PackAsks, RecordLayout, AskOfFunction, RunLaunch, rtVars, ctxVars, memVars, baseVars,
         driverVars, shimVars
<1>2. ThreadFits(rt[t], call[t], HearsFrees, selected[t], current[t])
  BY DEF MemOk
<1>3. NoFrame.op = None /\ NoFrame.stage = None
  BY DEF NoFrame
<1>4. /\ \A u \in Threads \ {t} : rt'[u] = rt[u]
      /\ rt'[t] = rt[t] \/ (rt'[t].op \notin {"free", "reset"} /\ rt'[t].stage # "run")
  BY <1>3, KernelPlaces DEF LaunchStages, None
<1>5. \A u \in Threads : SameCall(call[u], call'[u])
  BY <1>1 DEF SameCall
<1>6. Leaves(t)
  BY <1>1, <1>4 DEF Leaves
<1>7. ThreadFits(rt'[t], call'[t], HearsFrees, selected'[t], current'[t])
  BY <1>1, <1>2, <1>4 DEF ThreadFits
<1>8. rt'[t].op = "free" => rt[t].op = "free" /\ rt'[t].x = rt[t].x
  BY <1>4
<1>9. QED
  BY <1>1, <1>5, <1>6, <1>7, <1>8, MemQuiet

(* An address at a step of a thread: who claims it, frees it and had it    *)
(* forgotten before the step, and after it.                                *)
Viewed(t, a, K, R, D, K2, R2, D2) ==
  /\ AddrOk(K, R, D, mem[a] # NoCtx, a \in handed, a \in robbed, a \in dev_allocs, a \in allocs, HearsFrees)
  /\ AddrOk(K2, R2, D2, mem'[a] # NoCtx, a \in handed', a \in robbed', a \in dev_allocs', a \in allocs', HearsFrees)
       => AddrFits(a, rt', call', mem', handed', robbed', dev_allocs', allocs', HearsFrees)
  /\ D \subseteq R /\ R \subseteq K
  /\ K2 \ {t} = K \ {t} /\ R2 \ {t} = R \ {t} /\ D2 \ {t} = D \ {t}
  /\ t \in K2 <=> FreeingBy(rt'[t], call'[t], a) \/ MakingBy(call'[t], a)
  /\ t \in R2 <=> FreeingBy(rt'[t], call'[t], a)
  /\ t \in D2 <=> call'[t].op = "free" /\ call'[t].x = a
  /\ t \in K <=> FreeingBy(rt[t], call[t], a) \/ MakingBy(call[t], a)
  /\ t \in R <=> FreeingBy(rt[t], call[t], a)
  /\ t \in D <=> call[t].op = "free" /\ call[t].x = a

(* An address can be looked at so, at any step.                            *)
LEMMA AddrView ==
  ASSUME PlaceInv, MemOk, NEW t \in Threads, Leaves(t), NEW a \in Addrs
  PROVE  \E K, R, D, K2, R2, D2 : Viewed(t, a, K, R, D, K2, R2, D2)
<1>1. AddrFits(a, rt, call, mem, handed, robbed, dev_allocs, allocs, HearsFrees)
  BY DEF MemOk
<1>2. Viewed(t, a, Claimers(rt, call, a), Freers(rt, call, a), Forgotten(call, a),
             Claimers(rt', call', a), Freers(rt', call', a), Forgotten(call', a))
  BY <1>1, ClaimsMove, ForgottenFree DEF Viewed, AddrFits
<1>3. QED
  BY <1>2

(* An address the driver gives out was no one's.                           *)
LEMMA AddrGiven ==
  ASSUME PlaceInv, MemOk, NEW t \in Threads, Leaves(t), NEW a \in Addrs,
         mem[a] = NoCtx, mem'[a] # NoCtx, a \in handed' <=> a \in handed,
         rt'[t].op # "free", call'[t].op # "free"
  PROVE  AddrFits(a, rt', call', mem', handed', robbed', dev_allocs', allocs', HearsFrees)
<1>1. PICK K, R, D, K2, R2, D2 : Viewed(t, a, K, R, D, K2, R2, D2)
  BY AddrView
<1>2. K = {} /\ R = {} /\ D = {} /\ a \notin handed
  BY <1>1 DEF Viewed, AddrOk
<1>3. t \notin R2 /\ t \notin D2
  BY <1>1 DEF Viewed, FreeingBy
<1>4. K2 \subseteq {t} /\ R2 = {} /\ D2 = {}
  BY <1>1, <1>2, <1>3 DEF Viewed
<1>5. AddrOk(K2, R2, D2, mem'[a] # NoCtx, a \in handed', a \in robbed', a \in dev_allocs', a \in allocs', HearsFrees)
  BY <1>2, <1>4 DEF AddrOk
<1>6. QED
  BY <1>1, <1>5 DEF Viewed

(* An address that its only claimer notes; that it lets go.                *)
LEMMA AddrNoted ==
  ASSUME PlaceInv, MemOk, NEW t \in Threads, Leaves(t), NEW a \in Addrs, MakingBy(call[t], a), rt[t].op # "free",
         rt'[t].op # "free", call'[t].op # "free", mem'[a] = mem[a],
         \/ a \in handed' /\ a \in dev_allocs' /\ ~MakingBy(call'[t], a)
         \/ a \in handed' <=> a \in handed
  PROVE  AddrFits(a, rt', call', mem', handed', robbed', dev_allocs', allocs', HearsFrees)
<1>1. PICK K, R, D, K2, R2, D2 : Viewed(t, a, K, R, D, K2, R2, D2)
  BY AddrView
<1>2. t \in K /\ t \notin R /\ t \notin R2 /\ t \notin D2
  BY <1>1 DEF Viewed, FreeingBy
<1>3. K = {t} /\ R = {} /\ D = {} /\ mem[a] # NoCtx /\ a \notin handed
  BY <1>1, <1>2 DEF Viewed, AddrOk
<1>4. R2 = {} /\ D2 = {} /\ K2 \subseteq {t}
  BY <1>1, <1>2, <1>3 DEF Viewed
<1>5. a \in handed' => a \in dev_allocs' /\ K2 = {}
  BY <1>1, <1>3, <1>4 DEF Viewed, FreeingBy
<1>6. AddrOk(K2, R2, D2, mem'[a] # NoCtx, a \in handed', a \in robbed', a \in dev_allocs', a \in allocs', HearsFrees)
  BY <1>3, <1>4, <1>5 DEF AddrOk
<1>7. QED
  BY <1>1, <1>6 DEF Viewed

(* An address the application lets go, to a thread that frees it; that the *)
(* shim forgets.                                                           *)
LEMMA AddrFreed ==
  ASSUME PlaceInv, MemOk, NEW t \in Threads, Leaves(t), NEW a \in Addrs, a \in handed \/ FreeingBy(rt[t], call[t], a),
         mem'[a] = mem[a], a \notin handed', a \in robbed' <=> a \in robbed, a \in dev_allocs' <=> a \in dev_allocs,
         a \in allocs' => a \in allocs, call'[t].op = "free" => a \notin allocs'
  PROVE  AddrFits(a, rt', call', mem', handed', robbed', dev_allocs', allocs', HearsFrees)
<1>1. PICK K, R, D, K2, R2, D2 : Viewed(t, a, K, R, D, K2, R2, D2)
  BY AddrView
<1>2. K \subseteq {t} /\ mem[a] # NoCtx /\ (a \in robbed \/ a \in dev_allocs)
  BY <1>1 DEF Viewed, AddrOk
<1>3. K2 \subseteq {t} /\ R2 \subseteq {t} /\ D2 \subseteq {t} /\ (D # {} => a \notin allocs)
  BY <1>1, <1>2 DEF Viewed, AddrOk
<1>4. D2 # {} => a \notin allocs'
  BY <1>1, <1>3 DEF Viewed
<1>5. a \in allocs' => mem'[a] # NoCtx
  BY <1>2
<1>6. AddrOk(K2, R2, D2, mem'[a] # NoCtx, a \in handed', a \in robbed', a \in dev_allocs', a \in allocs', HearsFrees)
  BY <1>2, <1>3, <1>4 DEF AddrOk
<1>7. QED
  BY <1>1, <1>6 DEF Viewed

(* An address the driver frees: the shim has forgotten it.                 *)
LEMMA AddrReturned ==
  ASSUME PlaceInv, MemOk, NEW t \in Threads, Leaves(t), NEW a \in Addrs, FreeingBy(rt[t], call[t], a),
         HearsFrees => call[t].op = "free" /\ call[t].x = a,
         call'[t].op = "freed" /\ call'[t].got = 1,
         a \in handed' <=> a \in handed, a \in allocs' <=> a \in allocs
  PROVE  AddrFits(a, rt', call', mem', handed', robbed', dev_allocs', allocs', HearsFrees)
<1>1. PICK K, R, D, K2, R2, D2 : Viewed(t, a, K, R, D, K2, R2, D2)
  BY AddrView
<1>2. K = {t} /\ a \notin handed
  BY <1>1 DEF Viewed, AddrOk
<1>3. HearsFrees => a \notin allocs
  BY <1>1 DEF Viewed, AddrOk
<1>4. t \notin K2 /\ t \notin R2 /\ t \notin D2
  BY <1>1 DEF Viewed, FreeingBy, MakingBy
<1>5. K2 = {} /\ R2 = {} /\ D2 = {}
  BY <1>1, <1>2, <1>4 DEF Viewed
<1>6. AddrOk(K2, R2, D2, mem'[a] # NoCtx, a \in handed', a \in robbed', a \in dev_allocs', a \in allocs', HearsFrees)
  BY <1>2, <1>3, <1>5 DEF AddrOk
<1>7. QED
  BY <1>1, <1>6 DEF Viewed

(* An address the runtime forgets: it was given out again, and is robbed,  *)
(* or is no one's.                                                         *)
LEMMA AddrForgot ==
  ASSUME PlaceInv, MemOk, NEW t \in Threads, Leaves(t), NEW a \in Addrs,
         rt'[t].op # "free" /\ call'[t].op \notin MemOps,
         mem'[a] = mem[a], a \in handed' <=> a \in handed, a \in allocs' <=> a \in allocs,
         mem[a] # NoCtx => a \in robbed'
  PROVE  AddrFits(a, rt', call', mem', handed', robbed', dev_allocs', allocs', HearsFrees)
<1>1. PICK K, R, D, K2, R2, D2 : Viewed(t, a, K, R, D, K2, R2, D2)
  BY AddrView
<1>2. t \notin K2 /\ t \notin R2 /\ t \notin D2
  BY <1>1 DEF Viewed, FreeingBy, MakingBy, MemOps
<1>3. K2 \subseteq K /\ R2 \subseteq K /\ D2 \subseteq D
  BY <1>1, <1>2 DEF Viewed
<1>4. mem[a] = NoCtx => K = {} /\ a \notin handed
  BY <1>1 DEF Viewed, AddrOk
<1>5. AddrOk(K, R, D, mem[a] # NoCtx, a \in handed, a \in robbed, a \in dev_allocs, a \in allocs, HearsFrees)
  BY <1>1 DEF Viewed
<1>6. AddrOk(K2, R2, D2, mem'[a] # NoCtx, a \in handed', a \in robbed', a \in dev_allocs', a \in allocs', HearsFrees)
  BY <1>3, <1>4, <1>5 DEF AddrOk
<1>7. QED
  BY <1>1, <1>6 DEF Viewed

(* An address whose free did not run goes back to the application as it    *)
(* was.                                                                    *)
LEMMA AddrBack ==
  ASSUME PlaceInv, MemOk, NEW t \in Threads, Leaves(t), NEW a \in Addrs, FreeingBy(rt[t], call[t], a),
         rt'[t].op # "free" /\ call'[t].op \notin MemOps,
         mem'[a] = mem[a], a \in allocs' <=> a \in allocs, a \in robbed' <=> a \in robbed,
         a \in dev_allocs' <=> a \in dev_allocs
  PROVE  AddrFits(a, rt', call', mem', handed', robbed', dev_allocs', allocs', HearsFrees)
<1>1. PICK K, R, D, K2, R2, D2 : Viewed(t, a, K, R, D, K2, R2, D2)
  BY AddrView
<1>2. t \notin K2 /\ t \notin R2 /\ t \notin D2 /\ t \in K /\ t \in R
  BY <1>1 DEF Viewed, FreeingBy, MakingBy, MemOps
<1>3. K = {t} /\ mem[a] # NoCtx /\ (a \in robbed \/ a \in dev_allocs)
  BY <1>1, <1>2 DEF Viewed, AddrOk
<1>4. K2 = {} /\ R2 = {} /\ D2 = {}
  BY <1>1, <1>2, <1>3 DEF Viewed
<1>5. AddrOk(K2, R2, D2, mem'[a] # NoCtx, a \in handed', a \in robbed', a \in dev_allocs', a \in allocs', HearsFrees)
  BY <1>3, <1>4 DEF AddrOk
<1>6. QED
  BY <1>1, <1>5 DEF Viewed

(* The steps of an allocation.                                             *)
LEMMA AllocKeepsMem ==
  ASSUME ShimTyped, RtTyped, PlaceInv, MemOk, NEW t \in Threads, RunMalloc(t) \/ ShimNotes(t) \/ NoteAlloc(t)
  PROVE  MemOk'
<1>0. /\ FramesOk /\ call \in [Threads -> CallRec] /\ call[t] \in CallRec /\ mem \in [Addrs -> Ctx] /\ Argued(call[t])
      /\ None \notin Addrs /\ UNCHANGED <<program, selected, current>>
  BY Typedness, DriverShimAssumption DEF ShimTyped, RunMalloc, ShimNotes, NoteAlloc, rtVars, ctxVars
<1>1. CallFits(rt[t], call[t]) /\ ThreadFits(rt[t], call[t], HearsFrees, selected[t], current[t])
  BY AtWork DEF MemOk
<1>2. ASSUME NEW f, NEW c, rt'[t] = f, call'[t] = c, \A u \in Threads \ {t} : rt'[u] = rt[u] /\ call'[u] = call[u]
      PROVE  Leaves(t)
  BY <1>0, <1>2 DEF Leaves
<1>3. CASE RunMalloc(t)
  <2>1. /\ rt[t].op \in {"malloc", "malloc async"} /\ rt[t].stage = "run" /\ Moved(rt[t], rt'[t], "note")
        /\ \A u \in Threads \ {t} : rt'[u] = rt[u]
    BY <1>0, <1>3, StageMoves DEF RunMalloc
  <2>2. PICK op \in {"alloc", "allocated"} : AskAlloc(t, op, current[t])
    BY <1>3 DEF RunMalloc
  <2>3. UNCHANGED <<handed, robbed, dev_allocs, allocs>>
    BY <1>3, <2>2 DEF RunMalloc, AskAlloc, memVars
  <2>4. current[t] # NoCtx /\ rt'[t].op \in {"malloc", "malloc async"} /\ rt'[t].stage = "note"
    BY <1>1, <2>1 DEF ThreadFits, Moved
  <2>5. \/ \E a \in Addrs, o \in Outcomes :
              /\ mem[a] = NoCtx /\ mem' = [mem EXCEPT ![a] = current[t]]
              /\ call' = [call EXCEPT ![t] = [NoCall EXCEPT !.op = op, !.x = a, !.r = o.r]]
        \/ /\ call' = [call EXCEPT ![t] = [NoCall EXCEPT !.op = op, !.r = "error"]]
           /\ UNCHANGED mem
    BY <2>2 DEF AskAlloc
  <2>6. ThreadFits(rt'[t], call'[t], HearsFrees, selected'[t], current'[t]) /\ call'[t].op = op
    <3>1. call'[t].op = op
      BY <1>0, <2>2, MemoryPlaces, Typedness
    <3>2. QED
      BY <1>0, <2>4, <3>1 DEF ThreadFits
  <2>7. ASSUME NEW a0 \in Addrs, NEW o \in Outcomes, mem[a0] = NoCtx, mem' = [mem EXCEPT ![a0] = current[t]],
               call' = [call EXCEPT ![t] = [NoCall EXCEPT !.op = op, !.x = a0, !.r = o.r]]
        PROVE  MemOk'
    <3> DEFINE c == [NoCall EXCEPT !.op = op, !.x = a0, !.r = o.r]
    <3>1. c.op = op /\ c.x = a0
      BY DEF NoCall
    <3>2. call'[t] = c /\ \A u \in Threads \ {t} : call'[u] = call[u]
      BY <1>0, <2>7
    <3> HIDE DEF c
    <3>3. Leaves(t)
      BY <1>2, <2>1, <3>2
    <3>4. mem'[a0] # NoCtx /\ \A a \in Addrs \ {a0} : mem'[a] = mem[a]
      BY <1>0, <2>4, <2>7
    <3>5. AddrFits(a0, rt', call', mem', handed', robbed', dev_allocs', allocs', HearsFrees)
      BY <2>3, <2>4, <2>6, <2>7, <3>3, <3>4, AddrGiven
    <3>6. ASSUME NEW a \in Addrs \ {a0}
          PROVE  AddrFits(a, rt', call', mem', handed', robbed', dev_allocs', allocs', HearsFrees)
      <4>1. ~FreeingBy(rt'[t], call'[t], a) /\ ~MakingBy(call'[t], a) /\ call'[t].op # "free"
        BY <2>4, <2>6, <3>1, <3>2 DEF FreeingBy, MakingBy
      <4>2. QED
        BY <2>3, <3>3, <3>4, <4>1, AddrStays
    <3>7. QED
      BY <1>0, <2>6, <3>3, <3>5, <3>6, MemSet
  <2>8. ASSUME call' = [call EXCEPT ![t] = [NoCall EXCEPT !.op = op, !.r = "error"]], UNCHANGED mem
        PROVE  MemOk'
    <3> DEFINE c == [NoCall EXCEPT !.op = op, !.r = "error"]
    <3>1. c.op = op /\ c.x = None
      BY DEF NoCall
    <3>2. call'[t] = c /\ \A u \in Threads \ {t} : call'[u] = call[u]
      BY <1>0, <2>8
    <3> HIDE DEF c
    <3>3. Leaves(t)
      BY <1>2, <2>1, <3>2
    <3>4. ASSUME NEW a \in Addrs
          PROVE  AddrFits(a, rt', call', mem', handed', robbed', dev_allocs', allocs', HearsFrees)
      <4>1. ~FreeingBy(rt'[t], call'[t], a) /\ ~MakingBy(call'[t], a) /\ call'[t].op # "free"
        BY <1>0, <2>4, <2>6, <3>1, <3>2 DEF FreeingBy, MakingBy
      <4>2. QED
        BY <2>3, <2>8, <3>3, <4>1, AddrStays
    <3>5. QED
      BY <1>0, <2>6, <3>3, <3>4, MemSet
  <2>9. QED
    BY <2>5, <2>7, <2>8
<1>4. CASE ShimNotes(t)
  <2>1. UNCHANGED <<rt, mem, handed, robbed, dev_allocs>> /\ RecordAlloc(t)
    BY <1>4 DEF ShimNotes, RecordAlloc, rtVars, memVars, driverVars
  <2>2. /\ call[t].op = "alloc" /\ call'[t].op = "allocated" /\ call'[t].x = call[t].x
        /\ \A u \in Threads \ {t} : call'[u] = call[u]
    BY <2>1, MemoryPlaces
  <2>3. Leaves(t) /\ rt'[t].op # "free" /\ rt[t].op # "free"
    BY <1>1, <1>2, <2>1, <2>2 DEF CallFits
  <2>4. ThreadFits(rt'[t], call'[t], HearsFrees, selected'[t], current'[t])
    BY <1>0, <1>1, <2>1, <2>2 DEF ThreadFits
  <2>5. ASSUME NEW a \in Addrs
        PROVE  AddrFits(a, rt', call', mem', handed', robbed', dev_allocs', allocs', HearsFrees)
    <3>1. CASE a = call[t].x
      <4>1. MakingBy(call[t], a) /\ call'[t].op # "free"
        BY <2>2, <3>1 DEF MakingBy
      <4>2. QED
        BY <2>1, <2>3, <4>1, AddrNoted
    <3>2. CASE a # call[t].x
      <4>1. a \in allocs' <=> a \in allocs
        BY <2>1, <3>2 DEF RecordAlloc
      <4>2. ~FreeingBy(rt'[t], call'[t], a) /\ ~MakingBy(call'[t], a) /\ call'[t].op # "free"
        BY <2>2, <2>3, <3>2 DEF FreeingBy, MakingBy
      <4>3. QED
        BY <2>1, <2>3, <4>1, <4>2, AddrStays
    <3>3. QED
      BY <3>1, <3>2
  <2>6. QED
    BY <1>0, <2>3, <2>4, <2>5, MemSet
<1>5. CASE NoteAlloc(t)
  <2>1. /\ rt[t].stage = "note" /\ call[t].op = "allocated" /\ UNCHANGED <<mem, allocs>> /\ robbed' = robbed \ {call[t].x}
        /\ Recorded(t) /\ Returns(t)
        /\ \/ call[t].r = "ok" /\ dev_allocs' = dev_allocs \union {call[t].x} /\ handed' = handed \union {call[t].x}
           \/ UNCHANGED <<dev_allocs, handed>>
    BY <1>5 DEF NoteAlloc, driverVars
  <2>2. /\ rt'[t].op = None /\ rt'[t].stage = None /\ \A u \in Threads \ {t} : rt'[u] = rt[u]
        /\ call'[t].op = None /\ \A u \in Threads \ {t} : call'[u] = call[u]
    BY <1>0, <2>1, ReturnMoves, OverPlaces
  <2>3. Leaves(t) /\ rt'[t].op # "free" /\ rt[t].op # "free" /\ call'[t].op # "free"
    BY <1>1, <1>2, <2>1, <2>2 DEF CallFits, None
  <2>4. ThreadFits(rt'[t], call'[t], HearsFrees, selected'[t], current'[t])
    BY <1>0, <1>1, <2>2 DEF ThreadFits, None
  <2>5. ASSUME NEW a \in Addrs
        PROVE  AddrFits(a, rt', call', mem', handed', robbed', dev_allocs', allocs', HearsFrees)
    <3>1. ~FreeingBy(rt'[t], call'[t], a) /\ ~MakingBy(call'[t], a)
      BY <2>2 DEF FreeingBy, MakingBy, None
    <3>2. CASE a = call[t].x
      <4>1. MakingBy(call[t], a)
        BY <2>1, <3>2 DEF MakingBy
      <4>2. \/ a \in handed' /\ a \in dev_allocs'
            \/ a \in handed' <=> a \in handed
        BY <2>1, <3>2
      <4>3. QED
        BY <2>1, <2>3, <3>1, <4>1, <4>2, AddrNoted
    <3>3. CASE a # call[t].x
      <4>1. /\ a \in handed' <=> a \in handed
            /\ a \in robbed' <=> a \in robbed
            /\ a \in dev_allocs' <=> a \in dev_allocs
        BY <2>1, <3>3
      <4>2. QED
        BY <2>1, <2>3, <3>1, <4>1, AddrStays
    <3>4. QED
      BY <3>2, <3>3
  <2>6. QED
    BY <1>0, <2>3, <2>4, <2>5, MemSet
<1>6. QED
  BY <1>3, <1>4, <1>5

(* The steps of a free.                                                    *)
LEMMA FreeKeepsMem ==
  ASSUME ShimTyped, RtTyped, PlaceInv, MemOk, NEW t \in Threads,
         \/ \E a \in Addrs : Free(t, a) \/ (FreeAsync(t, a) /\ ~HearsFrees)
         \/ ShimForgets(t)
  PROVE  MemOk'
<1>0. /\ FramesOk /\ call \in [Threads -> CallRec] /\ call[t] \in CallRec /\ FrameOk(rt[t])
      /\ UNCHANGED <<program, mem, selected, current, robbed, dev_allocs>>
  BY Typedness DEF ShimTyped, Free, FreeAsync, ShimForgets, RecordFree, baseVars, driverVars, rtVars, ctxVars, memVars
<1>1. /\ CallFits(rt[t], call[t]) /\ ThreadFits(rt[t], call[t], HearsFrees, selected[t], current[t])
      /\ rt[t].stage = "run" => call[t].op = None
  BY AtWork DEF MemOk
<1>2. ASSUME NEW f, NEW c, rt'[t] = f, call'[t] = c, \A u \in Threads \ {t} : rt'[u] = rt[u] /\ call'[u] = call[u]
      PROVE  Leaves(t)
  BY <1>0, <1>2 DEF Leaves
<1>3. ASSUME NEW a \in Addrs, rt[t].op = None \/ FreeingBy(rt[t], call[t], a), call[t].op = None,
             \A u \in Threads \ {t} : rt'[u] = rt[u] /\ call'[u] = call[u],
             rt'[t].op = "free", rt'[t].stage # "run", rt'[t].x = a,
             \/ call'[t].op = None
             \/ ~HearsFrees /\ call'[t].op = "free async"
             \/ call'[t].op = "free" /\ a \notin allocs',
             call'[t].x = a \/ call'[t].op = None,
             a \in handed \/ FreeingBy(rt[t], call[t], a), handed' = handed \ {a}, allocs' \in {allocs, allocs \ {a}}
      PROVE  MemOk'
  <2>1. Leaves(t)
    BY <1>2, <1>3
  <2>2. ThreadFits(rt'[t], call'[t], HearsFrees, selected'[t], current'[t])
    BY <1>0, <1>1, <1>3 DEF ThreadFits, None
  <2>3. AddrFits(a, rt', call', mem', handed', robbed', dev_allocs', allocs', HearsFrees)
    <3>1. call'[t].op = "free" => a \notin allocs'
      BY <1>3 DEF None
    <3>2. a \notin handed' /\ (a \in allocs' => a \in allocs)
      BY <1>3
    <3>3. QED
      BY <1>0, <1>3, <2>1, <3>1, <3>2, AddrFreed
  <2>4. ASSUME NEW b \in Addrs \ {a}
        PROVE  AddrFits(b, rt', call', mem', handed', robbed', dev_allocs', allocs', HearsFrees)
    <3>1. /\ ~FreeingBy(rt'[t], call'[t], b) /\ ~MakingBy(call'[t], b)
          /\ ~(call'[t].op = "free" /\ call'[t].x = b)
      BY <1>3 DEF FreeingBy, MakingBy, None
    <3>2. /\ b \in handed' <=> b \in handed
          /\ b \in allocs' <=> b \in allocs
      BY <1>3
    <3>3. QED
      BY <1>0, <2>1, <3>1, <3>2, AddrStays
  <2>5. QED
    BY <1>0, <2>1, <2>2, <2>3, <2>4, MemSet
<1>4. ASSUME NEW a \in Addrs, Free(t, a) PROVE MemOk'
  <2>1. /\ rt[t].op = None /\ call[t].op = None /\ a \in handed /\ handed' = handed \ {a} /\ UNCHANGED <<call, allocs>>
        /\ Starts(t, "free", a)
    BY <1>4 DEF Free, AtRest, baseVars, shimVars
  <2>2. rt'[t].op = "free" /\ rt'[t].stage = "ensure" /\ rt'[t].x = a /\ \A u \in Threads \ {t} : rt'[u] = rt[u]
    BY <1>0, <2>1, StartMoves
  <2>3. QED
    BY <1>3, <2>1, <2>2
<1>5. ASSUME NEW a \in Addrs, FreeAsync(t, a), ~HearsFrees PROVE MemOk'
  <2> DEFINE f == [NoFrame EXCEPT !.op = "free", !.stage = "forget", !.x = a]
             c == [NoCall EXCEPT !.op = "free async", !.x = a]
  <2>1. f.op = "free" /\ f.stage = "forget" /\ f.x = a /\ c.op = "free async" /\ c.x = a
    BY DEF NoFrame, NoCall
  <2>2. /\ rt' = [rt EXCEPT ![t] = f] /\ call' = [call EXCEPT ![t] = c] /\ rt[t].op = None /\ call[t].op = None
        /\ a \in handed /\ handed' = handed \ {a} /\ UNCHANGED allocs
    BY <1>5 DEF FreeAsync, AtRest
  <2> HIDE DEF f, c
  <2>3. rt'[t] = f /\ call'[t] = c /\ \A u \in Threads \ {t} : rt'[u] = rt[u] /\ call'[u] = call[u]
    BY <1>0, <2>2 DEF FramesOk
  <2>4. QED
    BY <1>3, <1>5, <2>1, <2>2, <2>3
<1>6. CASE ShimForgets(t)
  <2> DEFINE a == rt[t].x
  <2>1. /\ rt[t].op = "free" /\ rt[t].stage = "run" /\ Moved(rt[t], rt'[t], "forget") /\ UNCHANGED handed
        /\ RecordFree(t, a) /\ \A u \in Threads \ {t} : rt'[u] = rt[u]
    BY <1>0, <1>6, StageMoves DEF ShimForgets, memVars
  <2>2. a \in Addrs /\ call[t].op = None
    BY <1>0, <1>1, <2>1 DEF FrameOk
  <2>3. /\ call'[t].op = "free" /\ call'[t].x = a /\ allocs' = allocs \ {a}
        /\ \A u \in Threads \ {t} : call'[u] = call[u]
    BY <2>1, <2>2, MemoryPlaces DEF RecordFree
  <2>4. FreeingBy(rt[t], call[t], a)
    BY <2>1, <2>2 DEF FreeingBy, None
  <2>5. a \notin handed
    <3>1. AddrFits(a, rt, call, mem, handed, robbed, dev_allocs, allocs, HearsFrees)
      BY <2>2 DEF MemOk
    <3>2. t \in Claimers(rt, call, a)
      BY <2>4 DEF Claimers
    <3>3. QED
      BY <3>1, <3>2 DEF AddrFits, AddrOk
  <2>6. handed' = handed \ {a}
    BY <2>1, <2>5
  <2>7. rt'[t].op = "free" /\ rt'[t].stage # "run" /\ rt'[t].x = a
    BY <2>1 DEF Moved
  <2> HIDE DEF a
  <2>8. QED
    BY <1>3, <2>1, <2>2, <2>3, <2>4, <2>6, <2>7
<1>7. QED
  BY <1>4, <1>5, <1>6

(* The driver frees an address: only the one that frees it had it in hand, *)
(* and the shim has forgotten it.                                          *)
LEMMA ReturnKeepsMem ==
  ASSUME ShimTyped, RtTyped, PlaceInv, MemOk, NEW t \in Threads, RunFree(t)
  PROVE  MemOk'
<1> DEFINE a == call[t].x
<1>1. UNCHANGED <<program, selected, current, rt, handed, robbed, dev_allocs, allocs>> /\ AskFree(t)
  BY DEF RunFree, AskFree, rtVars, ctxVars, memVars
<1>2. /\ call \in [Threads -> CallRec] /\ call[t] \in CallRec /\ mem \in [Addrs -> Ctx] /\ a \in Addrs
      /\ call[t].op \in {"free", "free async"}
  BY <1>1 DEF ShimTyped, AskFree
<1>3. CallFits(rt[t], call[t]) /\ ThreadFits(rt[t], call[t], HearsFrees, selected[t], current[t])
  BY AtWork DEF MemOk
<1>4. PICK o \in Outcomes :
        /\ mem' = IF o.ran THEN [mem EXCEPT ![a] = NoCtx] ELSE mem
        /\ call' = [call EXCEPT ![t] = [call[t] EXCEPT !.op = "freed", !.r = o.r, !.got = IF o.ran THEN 1 ELSE 0]]
  <2>1. PICK o \in Outcomes :
          /\ mem' = IF o.ran THEN [mem EXCEPT ![a] = NoCtx] ELSE mem
          /\ call' = [call EXCEPT ![t].op = "freed", ![t].r = o.r, ![t].got = IF o.ran THEN 1 ELSE 0]
    BY <1>1 DEF AskFree
  <2>2. QED
    BY <1>2, <2>1
<1>5. o.ran \in BOOLEAN /\ (o.r = "ok" => o.ran)
  BY OutcomesAre
<1> DEFINE c == [call[t] EXCEPT !.op = "freed", !.r = o.r, !.got = IF o.ran THEN 1 ELSE 0]
<1>6. c.op = "freed" /\ c.r = o.r /\ (o.ran => c.got = 1) /\ c.x = a
  BY <1>2 DEF CallRec
<1>7. call' = [call EXCEPT ![t] = c]
  BY <1>4
<1> HIDE DEF c
<1>8. call'[t] = c /\ \A u \in Threads \ {t} : call'[u] = call[u]
  BY <1>2, <1>7
<1>9. Leaves(t)
  BY <1>1, <1>8 DEF Leaves
<1>10. ThreadFits(rt'[t], call'[t], HearsFrees, selected'[t], current'[t])
  BY <1>1, <1>3, <1>5, <1>6, <1>8 DEF ThreadFits
<1>11. rt[t].op = "free" /\ rt[t].x = a /\ FreeingBy(rt[t], call[t], a)
  BY <1>2, <1>3 DEF CallFits, FreeingBy
<1>12. call'[t].op = "freed" /\ call'[t].x = a
  BY <1>6, <1>8
<1> HIDE DEF a
<1>13. HearsFrees => call[t].op = "free" /\ call[t].x = a
  BY <1>2, <1>3 DEF ThreadFits, a
<1>14. ASSUME o.ran PROVE AddrFits(a, rt', call', mem', handed', robbed', dev_allocs', allocs', HearsFrees)
  <2>1. call'[t].op = "freed" /\ call'[t].got = 1
    BY <1>6, <1>8, <1>14
  <2>2. QED
    BY <1>1, <1>2, <1>9, <1>11, <1>13, <2>1, AddrReturned
<1>15. ASSUME NEW b \in Addrs, b # a \/ ~o.ran
       PROVE  AddrFits(b, rt', call', mem', handed', robbed', dev_allocs', allocs', HearsFrees)
  <2>1. mem'[b] = mem[b]
    BY <1>2, <1>4, <1>15
  <2>2. FreeingBy(rt'[t], call'[t], b) => FreeingBy(rt[t], call[t], b)
    BY <1>1, <1>2, <1>11 DEF FreeingBy
  <2>3. ~MakingBy(call'[t], b) /\ call'[t].op # "free"
    BY <1>12 DEF MakingBy
  <2>4. QED
    BY <1>1, <1>9, <2>1, <2>2, <2>3, AddrStays
<1>16. QED
  BY <1>1, <1>5, <1>9, <1>10, <1>14, <1>15, MemSet

(* forget_alloc: the address may have been given out again by now, and is  *)
(* then robbed.                                                            *)
LEMMA ForgetKeepsMem ==
  ASSUME ShimTyped, RtTyped, PlaceInv, MemOk, NEW t \in Threads, ForgetAlloc(t)
  PROVE  MemOk'
<1> DEFINE a == rt[t].x
<1>1. /\ FramesOk /\ call[t] \in CallRec /\ FrameOk(rt[t])
      /\ UNCHANGED <<program, mem, selected, current, allocs>>
      /\ rt[t].stage = "forget" /\ call[t].op = "freed" /\ Recorded(t) /\ Returns(t)
  BY Typedness DEF ForgetAlloc, driverVars, ctxVars
<1>2. CallFits(rt[t], call[t]) /\ ThreadFits(rt[t], call[t], HearsFrees, selected[t], current[t])
  BY AtWork DEF MemOk
<1>3. rt[t].op = "free" /\ call[t].x = a /\ a \in Addrs
  BY <1>1, <1>2 DEF CallFits, FrameOk
<1>4. /\ rt'[t].op = None /\ rt'[t].stage = None /\ \A u \in Threads \ {t} : rt'[u] = rt[u]
      /\ call'[t].op = None /\ \A u \in Threads \ {t} : call'[u] = call[u]
  BY <1>1, ReturnMoves, OverPlaces
<1>5. Leaves(t)
  BY <1>1, <1>4 DEF Leaves
<1>6. ThreadFits(rt'[t], call'[t], HearsFrees, selected'[t], current'[t])
  BY <1>1, <1>2, <1>4 DEF ThreadFits, None
<1>7. /\ rt'[t].op # "free" /\ call'[t].op \notin MemOps /\ call'[t].op # "free"
      /\ \A b : ~FreeingBy(rt'[t], call'[t], b) /\ ~MakingBy(call'[t], b)
  BY <1>4 DEF MemOps, FreeingBy, MakingBy, None
<1>8. /\ call[t].r = "ok" =>
           /\ dev_allocs' = dev_allocs \ {a}
           /\ robbed' = IF call[t].got = 1 /\ mem[a] # NoCtx THEN robbed \union {a} ELSE robbed
      /\ call[t].r # "ok" => UNCHANGED <<dev_allocs, robbed>>
      /\ handed' = IF call[t].got = 1 THEN handed ELSE handed \union {a}
  BY DEF ForgetAlloc, Forgets
<1>9. call[t].r = "ok" => call[t].got = 1
  BY <1>1, <1>2 DEF ThreadFits
<1>10. call[t].got # 1 => FreeingBy(rt[t], call[t], a)
  BY <1>3 DEF FreeingBy
<1> HIDE DEF a
<1>11. AddrFits(a, rt', call', mem', handed', robbed', dev_allocs', allocs', HearsFrees)
  <2>1. CASE call[t].r = "ok"
    <3>1. UNCHANGED handed /\ (mem[a] # NoCtx => a \in robbed')
      BY <1>8, <1>9, <2>1
    <3>2. QED
      BY <1>1, <1>3, <1>5, <1>7, <3>1, AddrForgot
  <2>2. CASE call[t].r # "ok" /\ call[t].got = 1
    <3>1. UNCHANGED <<handed, dev_allocs, robbed>>
      BY <1>8, <2>2
    <3>2. QED
      BY <1>1, <1>3, <1>5, <1>7, <3>1, AddrStays
  <2>3. CASE call[t].r # "ok" /\ call[t].got # 1
    <3>1. UNCHANGED <<dev_allocs, robbed>>
      BY <1>8, <2>3
    <3>2. QED
      BY <1>1, <1>3, <1>5, <1>7, <1>10, <2>3, <3>1, AddrBack
  <2>4. QED
    BY <2>1, <2>2, <2>3
<1>12. ASSUME NEW b \in Addrs \ {a}
       PROVE  AddrFits(b, rt', call', mem', handed', robbed', dev_allocs', allocs', HearsFrees)
  <2>1. /\ b \in handed' <=> b \in handed
        /\ b \in robbed' <=> b \in robbed
        /\ b \in dev_allocs' <=> b \in dev_allocs
    BY <1>8
  <2>2. QED
    BY <1>1, <1>5, <1>7, <2>1, AddrStays
<1>13. QED
  BY <1>1, <1>5, <1>6, <1>11, <1>12, MemSet

(* What is remembered of memory holds of every step of the library.        *)
MemoryInv == RuntimeInv /\ PlaceInv /\ MemInv

(* The library begins with no memory.                                      *)
LEMMA MemoryInit == Init => MemoryInv
<1> SUFFICES ASSUME Init PROVE MemoryInv
  OBVIOUS
<1>1. ContextInv /\ BaseInit /\ RtInit
  BY ContextInit DEF Init, LibrariesInit, RuntimeInit
<1>2. /\ NoFrame.op = None /\ NoFrame.stage = None /\ NoCall.op = None
      /\ \A t \in Threads : rt[t] = NoFrame /\ call[t] = NoCall /\ selected[t] = 0
      /\ handed = {} /\ allocs = {}
  BY <1>1 DEF BaseInit, RtInit, NoFrame, NoCall
<1>3. ASSUME NEW a \in Addrs
      PROVE  AddrFits(a, rt, call, mem, handed, robbed, dev_allocs, allocs, HearsFrees)
  <2>1. \A t \in Threads : ~FreeingBy(rt[t], call[t], a) /\ ~MakingBy(call[t], a) /\ call[t].op # "free"
    BY <1>2 DEF FreeingBy, MakingBy, None
  <2>2. Claimers(rt, call, a) = {} /\ Freers(rt, call, a) = {} /\ Forgotten(call, a) = {}
    BY <2>1 DEF Claimers, Freers, Forgotten
  <2>3. QED
    BY <1>2, <2>2 DEF AddrFits, AddrOk
<1>4. ASSUME NEW t \in Threads PROVE ThreadFits(rt[t], call[t], HearsFrees, selected[t], current[t])
  BY <1>2 DEF ThreadFits, None
<1>5. QED
  BY <1>1, <1>3, <1>4 DEF MemoryInv, MemInv, MemOk, ContextInv

(* Every step of the library keeps what is remembered of memory.           *)
LEMMA MemoryKeeps == MemoryInv /\ ContextInv /\ [Next]_vars => MemoryInv'
<1> SUFFICES ASSUME MemoryInv, ContextInv, [Next]_vars PROVE MemoryInv'
  OBVIOUS
<1>1. RuntimeInv' /\ PlaceInv'
  BY ContextKeeps DEF ContextInv
<1>2. ShimTyped /\ RtTyped /\ LaunchInv /\ PlaceInv
  BY DEF ContextInv, RuntimeInv, TypeInv
<1>3. program.on \subseteq Devices
  BY <1>2, RuntimeAssumption DEF RtTyped
<1>4. ASSUME UNCHANGED program, EndsNoContext /\ MemOk => MemOk' PROVE MemInv'
  <2>1. EndsNoContext' <=> EndsNoContext
    BY <1>4 DEF EndsNoContext
  <2>2. QED
    BY <1>4, <2>1 DEF MemoryInv, MemInv
<1>5. ASSUME NEW t \in Threads, RtNext(t), EndsNoContext, MemOk PROVE MemOk'
  <2>1. ~Makes("reset") /\ ~Makes("ctx reset") /\ ~Makes("release")
    BY <1>5 DEF EndsNoContext, Makes
  <2>2. ~BeginDeviceReset(t) /\ \A d : ~AppReset(t, d) /\ ~AppRelease(t, d)
    BY <2>1 DEF BeginDeviceReset, AppReset, AppRelease, Own
  <2>3. rt[t].op # "reset"
    BY <1>5 DEF MemOk, ThreadFits
  <2>4. ~ResetRecords(t) /\ ~EndDeviceReset(t) /\ \A d : ~ResetReleases(t, d)
    BY <2>3 DEF ResetRecords, EndDeviceReset, ResetReleases
  <2>5. CASE EnsureFast(t) \/ EnsureFinds(t) \/ EnsureRetains(t) \/ EnsureRetained(t) \/ EnsureSelects(t)
    BY <1>2, <1>5, <2>5, EnsureKeepsMem
  <2>6. CASE \/ Use(t) \/ RunUse(t) \/ \E d \in program.on : SetDevice(t, d)
             \/ \E op \in {"malloc", "malloc async"} : Malloc(t, op)
    BY <1>2, <1>3, <1>5, <2>6, UseKeepsMem
  <2>7. CASE RunMalloc(t) \/ ShimNotes(t) \/ NoteAlloc(t)
    BY <1>2, <1>5, <2>7, AllocKeepsMem
  <2>8. CASE (\E a \in Addrs : Free(t, a) \/ FreeAsync(t, a)) \/ ShimForgets(t)
    <3>1. \A a : FreeAsync(t, a) => ~HearsFrees
      BY DEF FreeAsync, HearsFrees
    <3>2. QED
      BY <1>2, <1>5, <2>8, <3>1, FreeKeepsMem
  <2>9. CASE RunFree(t)
    BY <1>2, <1>5, <2>9, ReturnKeepsMem
  <2>10. CASE ForgetAlloc(t)
    BY <1>2, <1>5, <2>10, ForgetKeepsMem
  <2>11. CASE \/ \E d \in program.on : AppRetain(t, d) \/ AppState(t, d) \/ \E f \in Flags : AppSetFlags(t, d, f)
              \/ AppRetained(t) \/ AppRecords(t)
    BY <1>2, <1>3, <1>5, <2>11, AppKeepsMem
  <2>12. QED
    BY <1>5, <2>2, <2>4, <2>5, <2>6, <2>7, <2>8, <2>9, <2>10, <2>11 DEF RtNext
<1>6. ASSUME NEW t \in Threads, RtNext(t) PROVE MemInv'
  BY <1>4, <1>5, <1>6, ProgramStays
<1>7. ASSUME NEW t \in Threads, KernelNext(t) PROVE MemInv'
  <2>1. UNCHANGED program
    BY <1>7 DEF KernelNext, Register, Unregister, Launch, ResolveKnown, ResolveRefused, ResolveShips, ResolveLoaded,
         GetFunction, PackKnown, PackAsks, RecordLayout, AskOfFunction, RunLaunch, rtVars
  <2>2. QED
    BY <1>2, <1>4, <1>7, <2>1, KernelKeepsMem
<1>8. ASSUME UNCHANGED runtimeVars PROVE MemInv'
  <2>1. UNCHANGED <<rt, call, mem, handed, robbed, dev_allocs, allocs, selected, current, program>>
    BY <1>8 DEF runtimeVars, baseVars, driverVars, shimVars, rtVars, ctxVars, memVars
  <2>2. MemOk => MemOk'
    BY <2>1, MemParts DEF MemOk
  <2>3. QED
    BY <1>4, <2>1, <2>2
<1>9. QED
  BY <1>1, <1>6, <1>7, <1>8, RuntimeStep DEF MemoryInv

(* What is remembered of memory holds in every behaviour.                  *)
LEMMA MemoryHolds == Spec => []MemoryInv
  BY ContextHolds, MemoryInit, MemoryKeeps, PTL DEF Spec

(* cudaMemcpyDefault takes for device memory all that the application was  *)
(* given and has not freed, unless a free of its earlier owner, still      *)
(* under way when the driver gave the address out again, forgot it.        *)
(* (note_alloc and forget_alloc, and g_device_allocs.)                     *)
THEOREM AlwaysHandedOutIsKnown == Spec => []HandedOutIsKnown
<1>1. MemoryInv => HandedOutIsKnown
  <2> SUFFICES ASSUME MemoryInv, EndsNoContext PROVE \A a, b \in handed \ robbed : is_device_ptr(a) /\ is_device_ptr(b)
    BY DEF HandedOutIsKnown, resolve_kind
  <2>1. MemOk /\ handed \subseteq Addrs
    BY DEF MemoryInv, MemInv, RuntimeInv, TypeInv, RtTyped
  <2>2. ASSUME NEW a \in handed \ robbed PROVE a \in dev_allocs
    <3>1. AddrFits(a, rt, call, mem, handed, robbed, dev_allocs, allocs, HearsFrees)
      BY <2>1 DEF MemOk
    <3>2. QED
      BY <3>1 DEF AddrFits, AddrOk
  <2>3. QED
    BY <2>2 DEF is_device_ptr
<1>2. QED
  BY <1>1, MemoryHolds, PTL

(* What the shim takes for its own allocation, and answers for without     *)
(* asking, is one the driver knows: cuMemFree_v2 forgets it before it      *)
(* frees it, so that it cannot come back in between.  (g_allocs.)          *)
THEOREM AlwaysOursIsLive == Spec => []OursIsLive
<1>1. MemoryInv => OursIsLive
  <2> SUFFICES ASSUME MemoryInv, EndsNoContext, ~Makes("free async"), NEW a \in allocs PROVE mem[a] # NoCtx
    BY DEF OursIsLive
  <2>1. MemOk /\ a \in Addrs
    BY DEF MemoryInv, MemInv, RuntimeInv, TypeInv, ShimTyped
  <2>2. AddrFits(a, rt, call, mem, handed, robbed, dev_allocs, allocs, HearsFrees)
    BY <2>1 DEF MemOk
  <2>3. QED
    BY <2>2 DEF AddrFits, AddrOk, HearsFrees
<1>2. QED
  BY <1>1, MemoryHolds, PTL

=============================================================================
