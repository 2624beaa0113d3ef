------------------------------ MODULE Inventory ------------------------------
(***************************************************************************)
(* What the sessions of one server have taken from the driver they share,  *)
(* and what each gives back when it expires: server/inventory.cpp.         *)
(*                                                                         *)
(* Each session is one serving thread.  The lists are each thread's own;   *)
(* shared are the driver, the generation of the device's primary context,  *)
(* and two mutexes.  A call is split where other threads can act between   *)
(* what it reads, does and records.                                        *)
(***************************************************************************)
EXTENDS Naturals, FiniteSets

CONSTANTS
  Sessions,    \* the serving threads
  Handles,     \* addresses the driver gives to what is made
  CtxAddrs,    \* addresses the driver gives to created contexts
  Primary,     \* the handle of the device's primary context
  NoCtx,       \* nullptr
  NoHandle,    \* 0
  Nobody,      \* no session
  Made,        \* what the sessions make other than from a stream or a graph
  MaxGen,      \* bound: generations of the primary context, at most
  Bounds,      \* bounds: the generations of a behaviour, and the contexts made
  MaxRetains   \* bound: retains one session holds

ASSUME InventoryAssumption ==
  /\ Primary \notin CtxAddrs /\ NoCtx \notin CtxAddrs \union {Primary}
  /\ Nobody \notin Sessions /\ NoHandle \notin Handles
  /\ Made \subseteq {"bound", "graph", "free"}
  /\ MaxGen \in Nat \ {0} /\ MaxRetains \in Nat \ {0}
  /\ \A b \in Bounds : b.gens \in 1 .. MaxGen /\ b.ctxs \subseteq CtxAddrs

VARIABLES
  bound,       \* the bounds of this behaviour
  obj,         \* driver: what lives at each handle, or NoObj
  capturing,   \* driver: streams in capture
  ctx_owner,   \* driver: whose context lives at each address, or Nobody
  refs,        \* driver: references to the primary context; 0 is inactive
  overdrawn,   \* history: retains that other sessions' releases have taken
  gen,         \* g_primary_gen of the device
  primary_mu,  \* who holds g_primary_mu
  live_mu,     \* who holds g_live_mu across a driver call
  phase,       \* each session: new, live, expiring, ended
  cur,         \* the context current on each serving thread
  op,          \* the call each serving thread is inside
  inv          \* each session's Inventory
vars == <<bound, obj, capturing, ctx_owner, refs, overdrawn, gen, primary_mu, live_mu, phase, cur, op, inv>>

driverVars == <<obj, capturing, ctx_owner, refs, overdrawn>>
lockVars   == <<primary_mu, live_mu>>

Ctxs     == CtxAddrs \union {Primary}

(* Kinds: bound to a context (memory, modules, streams, events, library    *)
(* handles); graph, for graphs and their executables; free, for loaded     *)
(* libraries and memory handles, which no context has.                     *)
Kinds    == {"bound", "graph", "free"}

(* Generations.  NoDev is for what is not made in a primary context.       *)
NoDev    == 0
EndedGen == MaxGen + 1

(* untracked is history: nobody is expected to give this one back.         *)
NoObj == [owner |-> Nobody, kind |-> "none", ctx |-> NoCtx, untracked |-> FALSE]

Stamp(c, g)    == [ctx |-> c, gen |-> g]
Item(k, h, st) == [kind |-> k, h |-> h, ctx |-> st.ctx, gen |-> st.gen]
NoStamp        == Stamp(NoCtx, NoDev)

Idle == [pc |-> "idle", item |-> Item("none", NoHandle, NoStamp)]

EmptyInventory == [items |-> {}, by_ctx |-> {}, captures |-> {}, contexts |-> {},
                   retains |-> 0]

Init ==
  /\ bound \in Bounds
  /\ obj = [h \in Handles |-> NoObj] /\ capturing = {}
  /\ ctx_owner = [c \in CtxAddrs |-> Nobody]
  /\ refs = 0 /\ overdrawn = 0 /\ gen = 1
  /\ primary_mu = Nobody /\ live_mu = Nobody
  /\ phase = [s \in Sessions |-> "new"]
  /\ cur = [s \in Sessions |-> NoCtx]
  /\ op = [s \in Sessions |-> Idle]
  /\ inv = [s \in Sessions |-> EmptyInventory]

-----------------------------------------------------------------------------
(* The lists and their reverse index.                                      *)

Key(e)     == <<e.kind, e.h>>
Slot(e)    == <<e.ctx, e.kind, e.h>>
Indexed(e) == e.ctx # NoCtx /\ e.kind # "free"

Find(iv, k, h) == {e \in iv.items : Key(e) = <<k, h>>}

\* Mutant of Note: a handle noted again stays under the context it had.
NoteAgain(iv, e) ==
  [iv EXCEPT !.items = (@ \ Find(iv, e.kind, e.h)) \union {e},
             !.by_ctx = @ \union (IF Indexed(e) THEN {Slot(e)} ELSE {})]

(* note and inventory_note_handle.                                         *)
Note(iv, e) ==
  LET old == Find(iv, e.kind, e.h)
  IN [iv EXCEPT !.items = (@ \ old) \union {e},
                !.by_ctx = (@ \ {Slot(o) : o \in old})
                             \union (IF Indexed(e) THEN {Slot(e)} ELSE {})]

(* forget and inventory_forget_handle.                                     *)
Forget(iv, k, h) ==
  LET old == Find(iv, k, h)
  IN [iv EXCEPT !.items = @ \ old, !.by_ctx = @ \ {Slot(o) : o \in old}]

(* forget_capture.                                                         *)
ForgetCapture(iv, h) == [iv EXCEPT !.captures = {c \in @ : c.h # h}]

(* forget_under: everything in the context's bucket.                       *)
ForgetUnder(iv, c) ==
  [iv EXCEPT !.items = {e \in @ : <<c, e.kind, e.h>> \notin iv.by_ctx},
             !.by_ctx = {b \in @ : b[1] # c},
             !.captures = {p \in @ : p.ctx # c}]

\* Mutant of ForgetPrimary: what is in the context goes, and the retains.
ForgetRetainsToo(iv, now) == [ForgetUnder(iv, Primary) EXCEPT !.retains = 0]

(* forget_primary: what earlier generations made.                          *)
ForgetPrimary(iv, now) ==
  LET old    == {e \in iv.items : e.ctx = Primary /\ e.gen # now
                                  /\ <<Primary, e.kind, e.h>> \in iv.by_ctx}
  IN [iv EXCEPT !.items = @ \ old,
                !.by_ctx = @ \ {Slot(e) : e \in old},
                !.captures = {p \in @ : p.ctx = Primary => p.gen = now}]

\* Mutant of StillCurrent: the generation is not asked.
AlwaysCurrent(g) == TRUE

(* still_current.                                                          *)
StillCurrent(g) == g # EndedGen /\ (g = NoDev \/ g = gen)

-----------------------------------------------------------------------------
(* The driver.                                                             *)

CtxAlive(c) == IF c = Primary THEN refs > 0 ELSE c # NoCtx

(* What is in a context goes with it.                                      *)
Emptied(c) ==
  /\ obj' = [h \in Handles |-> IF obj[h].ctx = c THEN NoObj ELSE obj[h]]
  /\ capturing' = {h \in capturing : obj[h].ctx # c}

(* Graphs whose record is dropped are nobody's to give back.               *)
DroppedGraphs(s, now) == {h \in Handles : Find(inv[s], "graph", h) # {} /\ Find(now, "graph", h) = {}}

EmptiedAndDropped(s, c, now) ==
  /\ obj' = [h \in Handles |-> IF obj[h].ctx = c THEN NoObj
                               ELSE IF h \in DroppedGraphs(s, now) /\ obj[h].owner = s
                               THEN [obj[h] EXCEPT !.untracked = TRUE] ELSE obj[h]]
  /\ capturing' = {h \in capturing : obj[h].ctx # c}

(* While a capture it began is open, the thread may not free.              *)
MayFree(s) == \A h \in capturing : obj[h].owner # s

UnknownCapture(s) == \E h \in capturing : obj[h].owner = s /\ obj[h].untracked

Own(s, k) == {h \in Handles : obj[h].owner = s /\ obj[h].kind = k}

-----------------------------------------------------------------------------
(* A session's calls.                                                      *)

Serving(s) == phase[s] = "live" /\ op[s].pc = "idle"
Unlocked   == primary_mu = Nobody
Goto(s, pc, e) == op' = [op EXCEPT ![s] = [pc |-> pc, item |-> e]]
Done(s)        == op' = [op EXCEPT ![s] = Idle]

(* serve_session: inventory_bind.                                          *)
Bind(s) ==
  /\ phase[s] = "new" /\ live_mu = Nobody
  /\ phase' = [phase EXCEPT ![s] = "live"]
  /\ UNCHANGED <<driverVars, lockVars, gen, cur, op, inv>>

(* The application selects a context of its own, or none.                  *)
Select(s, c) ==
  /\ Serving(s)
  /\ \/ c = NoCtx
     \/ c = Primary /\ inv[s].retains > 0
     \/ c \in inv[s].contexts
  /\ cur' = [cur EXCEPT ![s] = c]
  /\ UNCHANGED <<driverVars, lockVars, gen, phase, op, inv>>

(* stamp: the current context, before the driver is called.                *)
StampNow(s) == Stamp(cur[s], IF cur[s] = Primary THEN gen ELSE NoDev)

(* stamp_of: where the source was recorded.                                *)
StampOf(s, k, h) ==
  LET e == Find(inv[s], k, h)
  IN IF e # {} THEN LET i == CHOOSE i \in e : TRUE IN Stamp(i.ctx, i.gen)
     ELSE [StampNow(s) EXCEPT !.gen = EndedGen]

(* The start of a wrapper that makes something: its stamp is taken.        *)
BeginMake(s, k) ==
  /\ Serving(s)
  /\ \/ /\ k \in Made \ {"free"} /\ cur[s] # NoCtx
        /\ Goto(s, "make", Item(k, NoHandle, StampNow(s)))
     \/ /\ k = "graph"
        /\ \E h \in Own(s, "graph") :
             Goto(s, "make", Item(k, NoHandle, StampOf(s, "graph", h)))
     \/ /\ k = "free" /\ k \in Made
        /\ Goto(s, "make", Item(k, NoHandle, NoStamp))
  /\ UNCHANGED <<driverVars, lockVars, gen, phase, cur, inv>>

(* History: made as its generation ended, or from what is not on record.   *)
Misplaced(g) == g # NoDev /\ g # gen

(* The driver makes it, and it is noted.                                   *)
Make(s, h) ==
  /\ op[s].pc = "make" /\ obj[h] = NoObj
  /\ LET e == [op[s].item EXCEPT !.h = h]
     IN /\ e.kind = "bound" => CtxAlive(cur[s])
        /\ obj' = [obj EXCEPT ![h] =
             [owner |-> s, kind |-> e.kind,
              ctx |-> IF e.kind = "bound" THEN cur[s] ELSE NoCtx,
              untracked |-> Misplaced(e.gen)]]
        /\ inv' = [inv EXCEPT ![s] = Note(@, e)]
  /\ Done(s)
  /\ UNCHANGED <<capturing, ctx_owner, refs, overdrawn, lockVars, gen, phase, cur>>

(* The driver refuses, as it does in a context that is not alive.          *)
MakeFails(s) ==
  /\ op[s].pc = "make" /\ Done(s)
  /\ UNCHANGED <<driverVars, lockVars, gen, phase, cur, inv>>

(* The application gives back something that lives and is its own.         *)
Free(s, h) ==
  /\ Serving(s) /\ obj[h].owner = s /\ capturing \intersect Own(s, "bound") \subseteq {h}
  /\ obj' = [obj EXCEPT ![h] = NoObj]
  /\ capturing' = capturing \ {h}
  /\ inv' = [inv EXCEPT ![s] = IF obj[h].kind = "bound"
                               THEN ForgetCapture(Forget(@, "bound", h), h)
                               ELSE Forget(@, obj[h].kind, h)]
  /\ UNCHANGED <<ctx_owner, refs, overdrawn, lockVars, gen, phase, cur, op>>

(* w_cuStreamBeginCapture_v2, of a stream of the application's own.        *)
BeginCapture(s, h) ==
  /\ Serving(s) /\ h \in Own(s, "bound") \ capturing
  /\ capturing' = capturing \union {h}
  /\ inv' = [inv EXCEPT ![s].captures = @ \union {Item("capture", h, StampOf(s, "bound", h))}]
  /\ UNCHANGED <<obj, ctx_owner, refs, overdrawn, lockVars, gen, phase, cur, op>>

GraphFrom(s, g, st) == [owner |-> s, kind |-> "graph", ctx |-> NoCtx,
                        untracked |-> Misplaced(st.gen)]

(* w_cuStreamEndCapture.                                                   *)
EndCapture(s, h, g) ==
  /\ Serving(s) /\ h \in Own(s, "bound") \intersect capturing /\ obj[g] = NoObj
  /\ LET st == StampOf(s, "bound", h)
     IN /\ obj' = [obj EXCEPT ![g] = GraphFrom(s, g, st)]
        /\ inv' = [inv EXCEPT ![s] = Note(ForgetCapture(@, h), Item("graph", g, st))]
  /\ capturing' = capturing \ {h}
  /\ UNCHANGED <<ctx_owner, refs, overdrawn, lockVars, gen, phase, cur, op>>

(* w_cuCtxCreate_v2.                                                       *)
CreateContext(s, c) ==
  /\ Serving(s) /\ ctx_owner[c] = Nobody
  /\ ctx_owner' = [ctx_owner EXCEPT ![c] = s]
  /\ cur' = [cur EXCEPT ![s] = c]
  /\ inv' = [inv EXCEPT ![s].contexts = @ \union {c}]
  /\ UNCHANGED <<obj, capturing, refs, overdrawn, lockVars, gen, phase, op>>

\* Mutant of ForgetContext: what was made in the context stays listed.
ForgetNoMore(iv, c) == [iv EXCEPT !.contexts = @ \ {c}]

(* forget_context.                                                         *)
ForgetContext(iv, c) == ForgetUnder([iv EXCEPT !.contexts = @ \ {c}], c)

(* w_cuCtxDestroy_v2 and w_cuCtxDetach.                                    *)
DestroyContext(s, c) ==
  /\ Serving(s) /\ ctx_owner[c] = s
  /\ LET now == ForgetContext(inv[s], c)
     IN /\ inv' = [inv EXCEPT ![s] = now]
        /\ EmptiedAndDropped(s, c, now)
  /\ ctx_owner' = [ctx_owner EXCEPT ![c] = Nobody]
  /\ cur' = [cur EXCEPT ![s] = IF @ = c THEN NoCtx ELSE @]
  /\ UNCHANGED <<refs, overdrawn, lockVars, gen, phase, op>>

-----------------------------------------------------------------------------
(* The primary context.                                                    *)

(* w_cuDevicePrimaryCtxRetain, under g_primary_mu.                         *)
Retain(s) ==
  /\ Serving(s) /\ Unlocked
  /\ inv[s].retains < MaxRetains /\ (refs = 0 => gen < bound.gens)
  /\ refs' = refs + 1
  /\ inv' = [inv EXCEPT ![s].retains = @ + 1]
  /\ UNCHANGED <<obj, capturing, ctx_owner, overdrawn, lockVars, gen, phase, cur, op>>

(* note_primary_retain of a release: a count never goes below none.        *)
OneLess(n) == IF n = 0 THEN 0 ELSE n - 1

(* A release by the driver; the last one destroys what is in the context,  *)
(* and then g_primary_mu is held until that is recorded.                   *)
DropReference(s) ==
  /\ refs > 0 /\ refs' = refs - 1
  /\ inv' = [inv EXCEPT ![s].retains = OneLess(@)]
  /\ IF refs = 1
     THEN Emptied(Primary) /\ primary_mu' = s /\ Goto(s, "record", Idle.item)
     ELSE UNCHANGED <<obj, capturing, primary_mu, op>>
  /\ UNCHANGED <<ctx_owner, live_mu, gen, phase, cur>>

(* w_cuDevicePrimaryCtxRelease_v2, whether the session holds a retain or   *)
(* not: then the reference is another's.  The driver refuses it only when  *)
(* the context is not active.                                              *)
Release(s) ==
  /\ Serving(s) /\ Unlocked /\ DropReference(s)
  /\ overdrawn' = IF inv[s].retains = 0 THEN overdrawn + 1 ELSE overdrawn

LiveSessions == {s \in Sessions : phase[s] \in {"live", "expiring"}}

\* Mutant of MayReset: whoever else is live.
MayAlwaysReset == TRUE

MayReset == Cardinality(LiveSessions) <= 1

(* w_cuDevicePrimaryCtxReset_v2, under both mutexes.                       *)
Reset(s) ==
  /\ Serving(s) /\ live_mu = Nobody /\ MayReset /\ Unlocked
  /\ gen + 1 < bound.gens
  /\ Emptied(Primary)
  /\ primary_mu' = s /\ live_mu' = s
  /\ Goto(s, "record", Idle.item)
  /\ UNCHANGED <<ctx_owner, refs, overdrawn, gen, phase, cur, inv>>

(* bump_generation, then forget_primary: which finds the lists empty at    *)
(* expiry, where the code does not call it.                                *)
Record(s) ==
  /\ op[s].pc = "record"
  /\ gen' = gen + 1
  /\ LET now == ForgetPrimary(inv[s], gen + 1)
     IN /\ inv' = [inv EXCEPT ![s] = now]
        /\ obj' = [h \in Handles |->
                     IF h \in DroppedGraphs(s, now) /\ obj[h].owner = s
                     THEN [obj[h] EXCEPT !.untracked = TRUE] ELSE obj[h]]
  /\ primary_mu' = Nobody
  /\ live_mu' = IF live_mu = s THEN Nobody ELSE live_mu
  /\ Done(s)
  /\ UNCHANGED <<capturing, ctx_owner, refs, overdrawn, phase, cur>>

-----------------------------------------------------------------------------
(* Expiry: release_inventory.                                              *)

Expire(s) ==
  /\ Serving(s)
  /\ phase' = [phase EXCEPT ![s] = "expiring"]
  /\ inv' = [inv EXCEPT ![s].by_ctx = {}]
  /\ UNCHANGED <<driverVars, lockVars, gen, cur, op>>

Releasing(s) == phase[s] = "expiring" /\ op[s].pc = "idle"

\* Mutant of NextItems: what a context holds is freed in any order.
AllAtOnce(s) == inv[s].captures \union inv[s].items

(* Captures are ended before anything is freed.                            *)
NextItems(s) == IF inv[s].captures # {} THEN inv[s].captures ELSE inv[s].items

Without(iv, e) == [iv EXCEPT !.captures = @ \ {e}, !.items = @ \ {e}]

(* unless_destroyed: what was made in a primary context is looked at, and  *)
(* freed, under g_primary_mu.                                              *)
Take(s, e) ==
  /\ Releasing(s) /\ e \in NextItems(s)
  /\ (e.gen \notin {NoDev, EndedGen}) => Unlocked
  /\ StillCurrent(e.gen)
  /\ inv' = [inv EXCEPT ![s] = Without(@, e)]
  /\ primary_mu' = IF e.gen = NoDev THEN primary_mu ELSE s
  /\ Goto(s, "free", e)
  /\ UNCHANGED <<driverVars, live_mu, gen, phase, cur>>

(* Skipped: its generation has ended, or is not known.                     *)
Skip(s, e) ==
  /\ Releasing(s) /\ e \in NextItems(s)
  /\ (e.gen # EndedGen) => Unlocked
  /\ ~StillCurrent(e.gen)
  /\ inv' = [inv EXCEPT ![s] = Without(@, e)]
  /\ obj' = [obj EXCEPT ![e.h] =
               IF @.owner = s /\ @.kind = e.kind /\ e.kind = "graph"
               THEN [@ EXCEPT !.untracked = TRUE] ELSE @]
  /\ UNCHANGED <<capturing, ctx_owner, refs, overdrawn, lockVars, gen, phase, cur, op>>

Unlock(s) == primary_mu' = IF primary_mu = s THEN Nobody ELSE primary_mu

(* The capture is ended, and its graph is the session's to release.        *)
EndTaken(s, g) ==
  /\ op[s].pc = "free" /\ op[s].item.kind = "capture" /\ obj[g] = NoObj
  /\ LET e == op[s].item
     IN IF e.h \in capturing
        THEN /\ obj' = [obj EXCEPT ![g] = GraphFrom(s, g, e)]
             /\ inv' = [inv EXCEPT ![s].items =
                          (@ \ Find(inv[s], "graph", g)) \union {Item("graph", g, e)}]
             /\ capturing' = capturing \ {e.h}
        ELSE UNCHANGED <<obj, inv, capturing>>
  /\ cur' = [cur EXCEPT ![s] = op[s].item.ctx]
  /\ Unlock(s) /\ Done(s)
  /\ UNCHANGED <<ctx_owner, refs, overdrawn, live_mu, gen, phase>>

(* The driver destroys what lives at the handle, whoever made it, unless   *)
(* the thread may not free: by a capture of unknown placement, at worst.   *)
FreeTaken(s) ==
  /\ op[s].pc = "free" /\ op[s].item.kind # "capture"
  /\ LET h == op[s].item.h
     IN IF MayFree(s)
        THEN obj' = [obj EXCEPT ![h] = NoObj] /\ capturing' = capturing \ {h}
        ELSE /\ obj' = [obj EXCEPT ![h].untracked = @ \/ UnknownCapture(s)]
             /\ UNCHANGED capturing
  /\ cur' = [cur EXCEPT ![s] = op[s].item.ctx]
  /\ Unlock(s) /\ Done(s)
  /\ UNCHANGED <<ctx_owner, refs, overdrawn, live_mu, gen, phase, inv>>

ItemsReleased(s) == Releasing(s) /\ inv[s].captures = {} /\ inv[s].items = {}

(* release_detached: with no context current.                              *)
ReleaseContext(s, c) ==
  /\ ItemsReleased(s) /\ c \in inv[s].contexts
  /\ Emptied(c)
  /\ ctx_owner' = [ctx_owner EXCEPT ![c] = Nobody]
  /\ cur' = [cur EXCEPT ![s] = NoCtx]
  /\ inv' = [inv EXCEPT ![s].contexts = @ \ {c}]
  /\ UNCHANGED <<refs, overdrawn, lockVars, gen, phase, op>>

\* Mutant of Owed: the primary context is released once, retained or not.
OwedOnce(s) == inv[s].retains >= 0 /\ refs > 0

Owed(s) == inv[s].retains > 0

RetainsNext(s) == ItemsReleased(s) /\ inv[s].contexts = {} /\ Unlocked /\ Owed(s)

ReleaseRetain(s) == RetainsNext(s) /\ DropReference(s) /\ UNCHANGED overdrawn

(* The driver refuses, as somebody has released what was not theirs: the   *)
(* session gives up the rest.                                              *)
RetainsRefused(s) ==
  /\ RetainsNext(s) /\ refs = 0
  /\ inv' = [inv EXCEPT ![s].retains = 0]
  /\ overdrawn' = overdrawn - inv[s].retains
  /\ UNCHANGED <<obj, capturing, ctx_owner, refs, lockVars, gen, phase, cur, op>>

(* inventory_bind(nullptr).                                                *)
Unbind(s) ==
  /\ ItemsReleased(s) /\ inv[s].contexts = {} /\ ~Owed(s) /\ live_mu = Nobody
  /\ phase' = [phase EXCEPT ![s] = "ended"]
  /\ cur' = [cur EXCEPT ![s] = NoCtx]
  /\ UNCHANGED <<driverVars, lockVars, gen, op, inv>>

-----------------------------------------------------------------------------
Call(s) ==
  \/ \E c \in Ctxs \union {NoCtx} : Select(s, c)
  \/ \E k \in Kinds : BeginMake(s, k)
  \/ \E h \in Handles : Make(s, h) \/ Free(s, h) \/ BeginCapture(s, h)
  \/ MakeFails(s)
  \/ \E h, g \in Handles : EndCapture(s, h, g)
  \/ \E c \in bound.ctxs : CreateContext(s, c) \/ DestroyContext(s, c)
  \/ Retain(s) \/ Release(s) \/ Reset(s) \/ Record(s)

Expiry(s) ==
  \/ \E e \in NextItems(s) : Take(s, e) \/ Skip(s, e)
  \/ \E g \in Handles : EndTaken(s, g)
  \/ FreeTaken(s)
  \/ \E c \in CtxAddrs : ReleaseContext(s, c)
  \/ ReleaseRetain(s) \/ RetainsRefused(s) \/ Unbind(s)

Step(s) == Bind(s) \/ Call(s) \/ Expire(s) \/ Expiry(s)

Next == (\E s \in Sessions : Step(s)) /\ UNCHANGED bound

Spec == Init /\ [][Next]_vars

-----------------------------------------------------------------------------
(* Type invariant.                                                         *)
Gens      == NoDev .. EndedGen
ItemRec   == [kind : Kinds \union {"none", "capture"}, h : Handles \union {NoHandle},
              ctx : Ctxs \union {NoCtx}, gen : Gens]
Owners    == Sessions \union {Nobody}
Phases    == {"new", "live", "expiring", "ended"}

TypeOK ==
  /\ bound \in Bounds
  /\ obj \in [Handles -> [owner : Owners, kind : Kinds \union {"none"},
                          ctx : Ctxs \union {NoCtx}, untracked : BOOLEAN]]
  /\ capturing \subseteq Handles
  /\ ctx_owner \in [CtxAddrs -> Owners]
  /\ refs \in Nat /\ overdrawn \in Nat /\ gen \in 1 .. MaxGen
  /\ primary_mu \in Owners /\ live_mu \in Owners
  /\ phase \in [Sessions -> Phases]
  /\ cur \in [Sessions -> Ctxs \union {NoCtx}]
  /\ op \in [Sessions -> [pc : {"idle", "make", "record", "free"}, item : ItemRec]]
  /\ inv \in [Sessions ->
       [items : SUBSET ItemRec, by_ctx : SUBSET (Ctxs \X Kinds \X Handles),
        captures : SUBSET ItemRec, contexts : SUBSET CtxAddrs, retains : 0 .. MaxRetains]]

-----------------------------------------------------------------------------
(* Safety.                                                                 *)

(* At expiry the driver is handed a handle only if what lives there is     *)
(* what the session made and noted: never something that another session   *)
(* was given at the same address, or nothing.  (release_items,             *)
(* unless_destroyed.)                                                      *)
FreesItsOwn ==
  \A s \in Sessions : op[s].pc = "free" =>
    LET e == op[s].item
    IN /\ obj[e.h].owner = s
       /\ obj[e.h].kind = IF e.kind = "capture" THEN "bound" ELSE e.kind
       /\ obj[e.h].kind = "bound" => CtxAlive(obj[e.h].ctx)

(* An expired session leaves nothing in the driver but what the server     *)
(* gives up on by design: what was made as its generation ended, or from   *)
(* what is not on record, or graphs that outlive their recorded context.   *)
(* (release_inventory; stamp_of says which way it fails.)                  *)
LeavesNothing ==
  \A s \in Sessions : phase[s] = "ended" =>
    /\ \A h \in Handles : obj[h].owner = s => obj[h].untracked
    /\ \A c \in CtxAddrs : ctx_owner[c] # s
    /\ primary_mu # s /\ live_mu # s

(* The retains, each its session's and one of a number.                    *)
Retained == {r \in Sessions \X (1 .. MaxRetains) : r[2] <= inv[r[1]].retains}

(* The driver's references to the primary context are the retains the      *)
(* sessions count, short by those that clients released without having     *)
(* them: through releases, resets and expiries the server loses none and   *)
(* gives none back twice.  (note_primary_retain and its clamp,             *)
(* forget_primary, the release loop at expiry.)                            *)
RetainsAreCounted == refs + overdrawn = Cardinality(Retained)

(* The reverse index names exactly the entries of the lists, however they  *)
(* were noted, noted again, forgotten or swept.  (note, forget,            *)
(* forget_under, forget_primary.)                                          *)
IndexIsExact ==
  \A s \in Sessions : phase[s] = "live" =>
    inv[s].by_ctx = {Slot(e) : e \in {i \in inv[s].items : Indexed(i)}}

(* What a session made goes by its own doing; another session takes it     *)
(* only with the primary context, when the session holds no retain on it,  *)
(* or by the last release once some client has released a retain it did    *)
(* not have, which the server does not refuse.  (The refusal of resets,    *)
(* the counting of live sessions and, at expiry, of retains.)              *)
ActedUpon(u) == op'[u] # op[u] \/ inv'[u] # inv[u]

OthersTakeNothing ==
  [][\A s \in Sessions : \A h \in Handles :
       obj[h].owner = s /\ obj'[h].owner # s
         /\ (\E u \in Sessions \ {s} : ActedUpon(u))
       => obj[h].ctx = Primary /\ (inv[s].retains = 0 \/ (overdrawn' > 0 /\ refs' = 0))]_vars
=============================================================================
