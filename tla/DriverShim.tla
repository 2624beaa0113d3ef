----------------------------- MODULE DriverShim -----------------------------
(***************************************************************************)
(* What the driver shim (client/shim.cpp) remembers of the server's driver *)
(* so as not to ask: the state of each primary context, and the memory it  *)
(* was given.                                                              *)
(*                                                                         *)
(* A call is made and answered under the lock of the call stream, and      *)
(* recorded afterwards under a lock of the record's own: between the two   *)
(* the other threads make and record theirs.                               *)
(***************************************************************************)
EXTENDS Naturals, FiniteSets

CONSTANTS
  Threads,
  Devices,
  Addrs,        \* addresses the driver gives out, and gives out again
  MayFail,      \* whether a call may return an error
  MaxLife,      \* bound: lives of a primary context, and of the runtime's state
  MaxRetains    \* bound: retains of a context

Flags == {0, 1}    \* scheduling flags; 0 is what a context starts with
None  == "none"

ASSUME DriverShimAssumption ==
  MayFail \in BOOLEAN /\ MaxLife \in Nat /\ MaxRetains \in Nat /\ IsFiniteSet(Threads) /\ None \notin Threads \union Addrs

VARIABLES
  driver,   \* the driver: each primary context's retains, flags and life
  others,   \* the driver: another session is live
  mem,      \* the driver: what each address is allocated in, or NoCtx
  primary,  \* g_primary
  allocs,   \* g_allocs
  call,     \* where each thread is inside a call of the shim
  owned,    \* the application's own retains
  doubted   \* history: what may have been recorded of a context out of order
driverVars == <<driver, others, mem>>
shimVars   == <<primary, allocs, call>>
appVars    == <<owned, doubted>>
baseVars   == <<driverVars, shimVars, appVars>>

-----------------------------------------------------------------------------
(* A call: its operation, its argument, its answer, and, history, whether  *)
(* no other call about the same context overlapped it.                     *)
NoCall == [op |-> None, x |-> None, r |-> "ok", got |-> 0, alone |-> TRUE]

(* A primary context over its life; its handle is the same in the next.    *)
NoCtx == [d |-> None, life |-> 0]

Life(d)   == [d |-> d, life |-> driver[d].life]
Active(d) == driver[d].retains > 0

\* PrimaryCtx{}
NoRecord == [retained |-> 0, flags |-> 0, flags_known |-> FALSE]

BaseInit ==
  /\ driver = [d \in Devices |-> [retains |-> 0, flags |-> 0, life |-> 1]]
  /\ mem = [a \in Addrs |-> NoCtx]
  /\ primary = [d \in Devices |-> NoRecord]
  /\ allocs = {}
  /\ call = [t \in Threads |-> NoCall]
  /\ owned = [d \in Devices |-> 0]
  /\ doubted = [d \in Devices |-> FALSE]

-----------------------------------------------------------------------------
(* The answers a call may get.  It ran, and succeeded; it ran, and its     *)
(* answer is a failure held from an earlier call without a reply; or it    *)
(* did not run, because the driver or the connection failed.               *)
Succeeds == [ran |-> TRUE, r |-> "ok"]
Outcomes ==
  {Succeeds} \cup (IF MayFail THEN [ran : BOOLEAN, r : {"error"}] ELSE {})

Overlaps(t, d) == {u \in Threads \ {t} : call[u].op # None /\ call[u].x = d}

(* A call about context d, answered.                                       *)
Ask(t, op, d, r, got) ==
  call' = [u \in Threads |->
    CASE u = t -> [op |-> op, x |-> d, r |-> r, got |-> got, alone |-> Overlaps(t, d) = {}]
      [] u \in Overlaps(t, d) -> [call[u] EXCEPT !.alone = FALSE]
      [] OTHER -> call[u]]
Recorded(t) == call' = [call EXCEPT ![t] = NoCall]

(* The end of a context takes its flags, perhaps, and all that is in it.   *)
Ended(d, retains) ==
  /\ driver[d].life < MaxLife
  /\ \E f \in {0, driver[d].flags} :
       driver' = [driver EXCEPT ![d] = [retains |-> retains, flags |-> f, life |-> @.life + 1]]
  /\ mem' = [a \in Addrs |-> IF mem[a] = Life(d) THEN NoCtx ELSE mem[a]]

-----------------------------------------------------------------------------
(* cuDevicePrimaryCtxRetain.                                               *)
AskRetain(t, d) ==
  /\ driver[d].retains < MaxRetains
  /\ \E o \in Outcomes :
       /\ driver' = [driver EXCEPT ![d].retains = IF o.ran THEN @ + 1 ELSE @]
       /\ Ask(t, "retain", d, o.r, 0)
  /\ UNCHANGED <<others, mem, primary, allocs>>
RecordRetain(t) ==
  /\ call[t].op = "retain"
  /\ IF call[t].r = "ok"
     THEN primary' = [primary EXCEPT ![call[t].x].retained = @ + 1]
     ELSE UNCHANGED primary
  /\ Recorded(t)
  /\ UNCHANGED <<driverVars, allocs, doubted>>

(* cuDevicePrimaryCtxRelease_v2.  The last release ends the context,       *)
(* unless another session retains it too.                                  *)
AskRelease(t, d) ==
  \E o \in Outcomes :
    /\ IF ~o.ran \/ ~Active(d) THEN UNCHANGED <<driver, mem>>
       ELSE IF driver[d].retains = 1 /\ ~others THEN Ended(d, 0)
       ELSE driver' = [driver EXCEPT ![d].retains = @ - 1] /\ UNCHANGED mem
    /\ Ask(t, "release", d, o.r, 0)
    /\ UNCHANGED <<others, primary, allocs>>

\* Mutant of ReleaseIn: only a release that succeeded is counted.
ReleaseIfOk(p, r) ==
  IF r # "ok" THEN p
  ELSE [p EXCEPT !.retained = IF @ > 0 THEN @ - 1 ELSE 0, !.flags_known = FALSE]

ReleaseIn(p, r) ==
  LET left == IF p.retained > 0 THEN p.retained - 1 ELSE 0
  IN  [p EXCEPT !.retained = left, !.flags_known = @ /\ left > 0]
RecordRelease(t) ==
  /\ call[t].op = "release"
  /\ primary' = [primary EXCEPT ![call[t].x] = ReleaseIn(@, call[t].r)]
  /\ doubted' = [doubted EXCEPT ![call[t].x] = @ \/ ~call[t].alone]
  /\ Recorded(t)
  /\ UNCHANGED <<driverVars, allocs>>

(* cuDevicePrimaryCtxReset_v2.  The server refuses it while other sessions *)
(* are live; a failure held from another call may look like that refusal   *)
(* (shim.cpp 524-526 knows of it), which the history notes.                *)
AskReset(t, d) ==
  /\ \/ /\ others
        /\ Ask(t, "reset", d, "refused", 0)
        /\ UNCHANGED <<driver, mem>>
     \/ /\ ~others
        /\ \E o \in Outcomes :
             /\ IF o.ran /\ Active(d) THEN Ended(d, driver[d].retains) ELSE UNCHANGED <<driver, mem>>
             /\ \E r \in {o.r} \cup (IF o.r = "error" THEN {"refused"} ELSE {}) :
                  Ask(t, "reset", d, r, IF o.ran /\ r = "refused" THEN 1 ELSE 0)
  /\ UNCHANGED <<others, primary, allocs>>

MayHaveReset(r) == r # "refused"
RecordReset(t) ==
  /\ call[t].op = "reset"
  /\ primary' = IF MayHaveReset(call[t].r) THEN [primary EXCEPT ![call[t].x] = NoRecord] ELSE primary
  /\ doubted' = [doubted EXCEPT ![call[t].x] = (@ /\ call[t].r = "refused") \/ call[t].got = 1]
  /\ Recorded(t)
  /\ UNCHANGED <<driverVars, allocs>>

(* cuDevicePrimaryCtxSetFlags_v2.                                          *)
AskSetFlags(t, d, f) ==
  \E o \in Outcomes :
    /\ driver' = [driver EXCEPT ![d].flags = IF o.ran THEN f ELSE @]
    /\ Ask(t, "set flags", d, o.r, f)
    /\ UNCHANGED <<others, mem, primary, allocs>>

FlagsSet(p, r, f) ==
  IF r = "ok" THEN [p EXCEPT !.flags = f, !.flags_known = TRUE]
  ELSE [p EXCEPT !.flags_known = FALSE]
RecordSetFlags(t) ==
  /\ call[t].op = "set flags"
  /\ primary' = [primary EXCEPT ![call[t].x] = FlagsSet(@, call[t].r, call[t].got)]
  /\ doubted' = [doubted EXCEPT ![call[t].x] = ~call[t].alone]
  /\ Recorded(t)
  /\ UNCHANGED <<driverVars, allocs>>

(* cuDevicePrimaryCtxGetState with flags: from the record, or by asking.   *)
CanAnswer(d) == primary[d].retained > 0 /\ primary[d].flags_known
AskState(t, d) ==
  /\ ~CanAnswer(d)
  /\ \E o \in Outcomes : Ask(t, "state", d, o.r, driver[d].flags)
  /\ UNCHANGED <<driverVars, primary, allocs>>
RecordState(t) ==
  /\ call[t].op = "state"
  /\ IF call[t].r = "ok"
     THEN /\ primary' = [primary EXCEPT ![call[t].x] = FlagsSet(@, "ok", call[t].got)]
          /\ doubted' = [doubted EXCEPT ![call[t].x] = ~call[t].alone]
     ELSE UNCHANGED <<primary, doubted>>
  /\ Recorded(t)
  /\ UNCHANGED <<driverVars, allocs>>

-----------------------------------------------------------------------------
(* cuMemAlloc_v2: the call, then the record.                               *)
AskAlloc(t, op, life) ==
  /\ \/ \E a \in Addrs, o \in Outcomes :
          /\ mem[a] = NoCtx /\ o.ran
          /\ mem' = [mem EXCEPT ![a] = life]
          /\ call' = [call EXCEPT ![t] = [NoCall EXCEPT !.op = op, !.x = a, !.r = o.r]]
     \/ /\ MayFail
        /\ call' = [call EXCEPT ![t] = [NoCall EXCEPT !.op = op, !.r = "error"]]
        /\ UNCHANGED mem
  /\ UNCHANGED <<driver, others, primary, allocs, doubted>>
RecordAlloc(t) ==
  /\ call[t].op = "alloc"
  /\ allocs' = IF call[t].r = "ok" THEN allocs \cup {call[t].x} ELSE allocs
  /\ call' = [call EXCEPT ![t].op = "allocated"]
  /\ UNCHANGED <<driverVars, primary, doubted>>

(* cuMemFree_v2: the record, then the call.                                *)

\* Mutant of RecordFree: the record is kept until after the call, and past it.
FreesFirst(t, a) ==
  /\ call' = [call EXCEPT ![t] = [NoCall EXCEPT !.op = "free", !.x = a]]
  /\ UNCHANGED <<driverVars, primary, allocs, doubted>>

RecordFree(t, a) ==
  /\ allocs' = allocs \ {a}
  /\ call' = [call EXCEPT ![t] = [NoCall EXCEPT !.op = "free", !.x = a]]
  /\ UNCHANGED <<driverVars, primary, doubted>>
\* The call of a free, of either kind.
AskFree(t) ==
  /\ call[t].op \in {"free", "free async"}
  /\ \E o \in Outcomes :
       /\ mem' = IF o.ran THEN [mem EXCEPT ![call[t].x] = NoCtx] ELSE mem
       /\ call' = [call EXCEPT ![t].op = "freed", ![t].r = o.r, ![t].got = IF o.ran THEN 1 ELSE 0]
  /\ UNCHANGED <<driver, others, primary, allocs, doubted>>
=============================================================================
