--------------------------- MODULE InventoryProofs ---------------------------
(***************************************************************************)
(* For any number of sessions, handles and generations of Inventory: who   *)
(* is inside the locks, what a session's lists are, that the reverse index *)
(* names exactly their entries, and that the driver's references to the    *)
(* primary context are the retains of the sessions but for those that      *)
(* clients released without having them.  Then: what a session's lists say *)
(* of the driver is true, and what the driver holds is on them.  So expiry *)
(* frees the session's own, and leaves nothing.                            *)
(***************************************************************************)
EXTENDS Inventory, FiniteSetTheorems, TLAPS

-----------------------------------------------------------------------------
(* The invariant.                                                          *)

Listed   == [kind : Kinds, h : Handles, ctx : Ctxs \union {NoCtx}, gen : Gens]
Captured == [kind : {"capture"}, h : Handles, ctx : Ctxs \union {NoCtx}, gen : Gens]
ObjRec   == [owner : Owners, kind : Kinds \union {"none"}, ctx : Ctxs \union {NoCtx},
             untracked : BOOLEAN]
InvRec   == [items : SUBSET Listed, by_ctx : SUBSET (Ctxs \X Kinds \X Handles),
             captures : SUBSET Captured, contexts : SUBSET CtxAddrs, retains : 0 .. MaxRetains]
OpRec    == [pc : {"idle", "make", "record", "free"}, item : ItemRec]

(* TypeOK, with what each list and each call can hold.                     *)
DriverTyped ==
  /\ bound \in Bounds
  /\ obj \in [Handles -> ObjRec] /\ capturing \subseteq Handles
  /\ ctx_owner \in [CtxAddrs -> Owners]
  /\ refs \in Nat /\ gen \in 1 .. MaxGen
  /\ primary_mu \in Owners /\ live_mu \in Owners

OpFits(o) == /\ o.pc = "make" => o.item.kind \in Kinds
             /\ o.pc = "free" => o.item \in Listed \union Captured

SessionsTyped ==
  /\ phase \in [Sessions -> Phases]
  /\ cur \in [Sessions -> Ctxs \union {NoCtx}]
  /\ op \in [Sessions -> OpRec] /\ inv \in [Sessions -> InvRec]
  /\ \A s \in Sessions : OpFits(op[s])

(* Who is inside the mutexes, and what the others then cannot be at.       *)
Locks ==
  \A s \in Sessions :
    /\ op[s].pc = "record" => primary_mu = s /\ (live_mu = s \/ refs = 0)
    /\ (op[s].pc = "free" /\ op[s].item.gen # NoDev) => primary_mu = s
    /\ primary_mu = s => op[s].pc \in {"record", "free"}
    /\ live_mu = s => op[s].pc = "record" /\ \A u \in Sessions \ {s} : u \notin LiveSessions

(* How a session's phase, its call and its lists go together.              *)
PhasesAgree ==
  \A s \in Sessions :
    /\ op[s].pc = "make" => phase[s] = "live"
    /\ op[s].pc = "free" => phase[s] = "expiring"
    /\ op[s].pc = "record" => phase[s] \in {"live", "expiring"}
    /\ (phase[s] \in {"new", "ended"} \/ (phase[s] = "expiring" /\ op[s].pc = "record")) =>
         inv[s].items = {} /\ inv[s].captures = {} /\ inv[s].contexts = {}
    /\ phase[s] \in {"new", "ended"} => inv[s].retains = 0
    /\ phase[s] = "new" => inv[s].by_ctx = {}
    /\ (op[s].pc = "free" /\ op[s].item.kind # "capture") => inv[s].captures = {}

(* The generation can still end as often as it may have to.                *)
Generations ==
  /\ gen <= bound.gens
  /\ refs > 0 => gen < bound.gens
  /\ \A s \in Sessions : op[s].pc = "record" =>
       gen < bound.gens /\ (refs > 0 => gen + 1 < bound.gens)

(* So that the live sessions and the retains can be counted.               *)
Counted ==
  /\ IsFiniteSet(LiveSessions) /\ IsFiniteSet(Retained)
  /\ overdrawn \in Nat /\ RetainsAreCounted

(* At most one entry of a kind for a handle.                               *)
KeyedOnce(iv) == \A d, e \in iv.items : Key(d) = Key(e) => d = e
KeysUnique    == \A s \in Sessions : KeyedOnce(inv[s])

ListsInv ==
  /\ DriverTyped /\ SessionsTyped /\ Locks /\ PhasesAgree /\ Generations
  /\ Counted /\ KeysUnique /\ IndexIsExact

-----------------------------------------------------------------------------
(* The operations on the lists.                                            *)

(* The slot of an entry that has one is a place in the index.              *)
LEMMA SlotTyped ==
  ASSUME NEW e \in Listed, e.ctx # NoCtx
  PROVE  Slot(e) \in Ctxs \X Kinds \X Handles
  BY DEF Slot, Listed

(* Noting keeps the lists what they are, and touches no other.             *)
LEMMA NoteTyped ==
  ASSUME NEW iv \in InvRec, NEW e \in Listed, NEW c, c = Note(iv, e)
  PROVE  /\ c \in InvRec
         /\ c.items = (iv.items \ Find(iv, e.kind, e.h)) \union {e}
         /\ c.by_ctx = (iv.by_ctx \ {Slot(o) : o \in Find(iv, e.kind, e.h)})
                         \union (IF Indexed(e) THEN {Slot(e)} ELSE {})
         /\ c.captures = iv.captures /\ c.contexts = iv.contexts /\ c.retains = iv.retains
<1>1. (IF Indexed(e) THEN {Slot(e)} ELSE {}) \subseteq Ctxs \X Kinds \X Handles
  BY SlotTyped DEF Indexed
<1> DEFINE x == (IF Indexed(e) THEN {Slot(e)} ELSE {})
<1> DEFINE old == Find(iv, e.kind, e.h)
<1> DEFINE gone == {Slot(o) : o \in old}
<1>2. c = [iv EXCEPT !.items = (@ \ old) \union {e}, !.by_ctx = (@ \ gone) \union x]
  BY DEF Note
<1> HIDE DEF x, old, gone
<1>3. c \in InvRec /\ c.items = (iv.items \ old) \union {e}
      /\ c.by_ctx = (iv.by_ctx \ gone) \union x
      /\ c.captures = iv.captures /\ c.contexts = iv.contexts /\ c.retains = iv.retains
  <2>1. x \subseteq Ctxs \X Kinds \X Handles
    BY <1>1 DEF x
  <2> QED  BY <1>2, <2>1 DEF InvRec
<1> QED  BY <1>3 DEF x, old, gone

(* Forgetting too.                                                         *)
LEMMA ForgetTyped ==
  ASSUME NEW iv \in InvRec, NEW k, NEW h, NEW c, c = Forget(iv, k, h)
  PROVE  /\ c \in InvRec
         /\ c.items = iv.items \ Find(iv, k, h)
         /\ c.by_ctx = iv.by_ctx \ {Slot(o) : o \in Find(iv, k, h)}
         /\ c.captures = iv.captures /\ c.contexts = iv.contexts /\ c.retains = iv.retains
<1> DEFINE old == Find(iv, k, h)
<1> DEFINE gone == {Slot(o) : o \in old}
<1>1. c = [iv EXCEPT !.items = @ \ old, !.by_ctx = @ \ gone]
  BY DEF Forget
<1> HIDE DEF old, gone
<1>2. c \in InvRec /\ c.items = iv.items \ old /\ c.by_ctx = iv.by_ctx \ gone
      /\ c.captures = iv.captures /\ c.contexts = iv.contexts /\ c.retains = iv.retains
  BY <1>1 DEF InvRec
<1> QED  BY <1>2 DEF old, gone

(* Forgetting a capture leaves all but the captures.                       *)
LEMMA ForgetCaptureTyped ==
  ASSUME NEW iv \in InvRec, NEW h, NEW c, c = ForgetCapture(iv, h)
  PROVE  /\ c \in InvRec /\ c.items = iv.items /\ c.by_ctx = iv.by_ctx
         /\ c.captures = {p \in iv.captures : p.h # h}
         /\ c.contexts = iv.contexts /\ c.retains = iv.retains
  BY DEF ForgetCapture, InvRec

(* Forgetting a context leaves the retains.                                *)
LEMMA ForgetContextTyped ==
  ASSUME NEW iv \in InvRec, NEW x, NEW c, c = ForgetContext(iv, x)
  PROVE  /\ c \in InvRec
         /\ c.items = {e \in iv.items : <<x, e.kind, e.h>> \notin iv.by_ctx}
         /\ c.by_ctx = {b \in iv.by_ctx : b[1] # x}
         /\ c.captures = {p \in iv.captures : p.ctx # x}
         /\ c.contexts = iv.contexts \ {x} /\ c.retains = iv.retains
  BY DEF ForgetContext, ForgetUnder, InvRec

(* The entries of the primary context's last generation.                   *)
OldOfPrimary(iv, now) == {e \in iv.items : e.ctx = Primary /\ e.gen # now
                                           /\ <<Primary, e.kind, e.h>> \in iv.by_ctx}
(* Forgetting them leaves the contexts and the retains.                    *)
LEMMA ForgetPrimaryTyped ==
  ASSUME NEW iv \in InvRec, NEW now, NEW c, c = ForgetPrimary(iv, now)
  PROVE  /\ c \in InvRec
         /\ c.items = iv.items \ OldOfPrimary(iv, now)
         /\ c.by_ctx = iv.by_ctx \ {Slot(e) : e \in OldOfPrimary(iv, now)}
         /\ c.captures = {p \in iv.captures : p.ctx = Primary => p.gen = now}
         /\ c.contexts = iv.contexts /\ c.retains = iv.retains
<1> DEFINE old == OldOfPrimary(iv, now)
<1> DEFINE gone == {Slot(o) : o \in old}
<1>1. c = [iv EXCEPT !.items = @ \ old, !.by_ctx = @ \ gone,
                     !.captures = {p \in @ : p.ctx = Primary => p.gen = now}]
  BY DEF ForgetPrimary, OldOfPrimary
<1> HIDE DEF old, gone
<1>2. c \in InvRec /\ c.items = iv.items \ old /\ c.by_ctx = iv.by_ctx \ gone
      /\ c.captures = {p \in iv.captures : p.ctx = Primary => p.gen = now}
      /\ c.contexts = iv.contexts /\ c.retains = iv.retains
  BY <1>1 DEF InvRec
<1> QED  BY <1>2 DEF old, gone

(* Taking entries away leaves the rest keyed once.                         *)
LEMMA FewerKeyedOnce ==
  ASSUME NEW iv, NEW c, KeyedOnce(iv), c.items \subseteq iv.items
  PROVE  KeyedOnce(c)
  BY DEF KeyedOnce

(* So does putting one in the place of those with its key.                 *)
LEMMA ReplacedKeyedOnce ==
  ASSUME NEW iv, NEW e, NEW c, KeyedOnce(iv),
         c.items = (iv.items \ Find(iv, e.kind, e.h)) \union {e}
  PROVE  KeyedOnce(c)
  BY DEF KeyedOnce, Find, Key

(* The index of lists, and what it means for one to be exact.              *)
IndexOf(iv)    == {Slot(e) : e \in {i \in iv.items : Indexed(i)}}
IndexedIn(iv)  == iv.by_ctx = IndexOf(iv)

(* An exact index stays so as a handle is noted, for the first time or     *)
(* again.                                                                  *)
LEMMA NoteIndexed ==
  ASSUME NEW iv \in InvRec, NEW e \in Listed, KeyedOnce(iv), IndexedIn(iv),
         NEW c, c = Note(iv, e)
  PROVE  IndexedIn(c)
<1>1. /\ c.items = (iv.items \ Find(iv, e.kind, e.h)) \union {e}
      /\ c.by_ctx = (iv.by_ctx \ {Slot(o) : o \in Find(iv, e.kind, e.h)})
                      \union (IF Indexed(e) THEN {Slot(e)} ELSE {})
  BY NoteTyped
<1>2. ASSUME NEW b \in c.by_ctx  PROVE  b \in IndexOf(c)
  <2>1. CASE Indexed(e) /\ b = Slot(e)
    BY <1>1, <2>1 DEF IndexOf
  <2>2. CASE b \in iv.by_ctx /\ b \notin {Slot(o) : o \in Find(iv, e.kind, e.h)}
    <3>1. PICK i \in iv.items : Indexed(i) /\ b = Slot(i)
      BY <2>2 DEF IndexedIn, IndexOf
    <3>2. i \in c.items
      BY <1>1, <2>2, <3>1
    <3> QED  BY <3>1, <3>2 DEF IndexOf
  <2> QED  BY <1>1, <1>2, <2>1, <2>2
<1>3. ASSUME NEW i \in c.items, Indexed(i)  PROVE  Slot(i) \in c.by_ctx
  <2>1. CASE i = e
    BY <1>1, <1>3, <2>1
  <2>2. CASE i \in iv.items \ Find(iv, e.kind, e.h)
    <3>1. Slot(i) \in iv.by_ctx
      BY <1>3, <2>2 DEF IndexedIn, IndexOf
    <3>2. \A o \in Find(iv, e.kind, e.h) : Slot(o) # Slot(i)
      BY <2>2 DEF Find, Slot, Key
    <3> QED  BY <1>1, <3>1, <3>2
  <2> QED  BY <1>1, <2>1, <2>2
<1>4. \A b \in IndexOf(c) : b \in c.by_ctx
  BY <1>3 DEF IndexOf
<1> QED  BY <1>2, <1>4 DEF IndexedIn

(* As entries are taken from the lists, and their slots from the index.    *)
LEMMA TakenIndexed ==
  ASSUME NEW iv \in InvRec, KeyedOnce(iv), IndexedIn(iv), NEW old \in SUBSET iv.items,
         NEW c, c.items = iv.items \ old, c.by_ctx = iv.by_ctx \ {Slot(o) : o \in old}
  PROVE  IndexedIn(c)
<1>1. ASSUME NEW b \in c.by_ctx  PROVE  b \in IndexOf(c)
  <2>1. PICK i \in iv.items : Indexed(i) /\ b = Slot(i)
    BY <1>1 DEF IndexedIn, IndexOf
  <2>2. i \in c.items
    BY <1>1, <2>1
  <2> QED  BY <2>1, <2>2 DEF IndexOf
<1>2. ASSUME NEW i \in c.items, Indexed(i)  PROVE  Slot(i) \in c.by_ctx
  <2>1. Slot(i) \in iv.by_ctx
    BY <1>2 DEF IndexedIn, IndexOf
  <2>2. \A o \in old : Slot(o) # Slot(i)
    BY <1>2 DEF KeyedOnce, Slot, Key
  <2> QED  BY <2>1, <2>2
<1>3. \A b \in IndexOf(c) : b \in c.by_ctx
  BY <1>2 DEF IndexOf
<1> QED  BY <1>1, <1>3 DEF IndexedIn

(* And as a context's bucket is swept.                                     *)
LEMMA SweptIndexed ==
  ASSUME NEW iv \in InvRec, KeyedOnce(iv), IndexedIn(iv), NEW x \in CtxAddrs,
         NEW c, c = ForgetContext(iv, x)
  PROVE  IndexedIn(c)
<1>1. /\ c.items = {e \in iv.items : <<x, e.kind, e.h>> \notin iv.by_ctx}
      /\ c.by_ctx = {b \in iv.by_ctx : b[1] # x}
  BY ForgetContextTyped
<1>2. ASSUME NEW b \in c.by_ctx  PROVE  b \in IndexOf(c)
  <2>1. PICK i \in iv.items : Indexed(i) /\ b = Slot(i)
    BY <1>1, <1>2 DEF IndexedIn, IndexOf
  <2>2. i.ctx # x
    BY <1>1, <1>2, <2>1 DEF Slot
  <2>3. ASSUME <<x, i.kind, i.h>> \in iv.by_ctx  PROVE  FALSE
    <3>1. PICK j \in iv.items : Indexed(j) /\ <<x, i.kind, i.h>> = Slot(j)
      BY <2>3 DEF IndexedIn, IndexOf
    <3>2. j = i /\ j.ctx = x
      BY <3>1 DEF KeyedOnce, Slot, Key
    <3> QED  BY <2>2, <3>2
  <2> QED  BY <1>1, <2>1, <2>3 DEF IndexOf
<1>3. ASSUME NEW i \in c.items, Indexed(i)  PROVE  Slot(i) \in c.by_ctx
  <2>1. Slot(i) \in iv.by_ctx
    BY <1>1, <1>3 DEF IndexedIn, IndexOf
  <2>2. i.ctx # x
    BY <1>1, <1>3, <2>1 DEF Slot
  <2> QED  BY <1>1, <2>1, <2>2 DEF Slot
<1>4. \A b \in IndexOf(c) : b \in c.by_ctx
  BY <1>3 DEF IndexOf
<1> QED  BY <1>2, <1>4 DEF IndexedIn

-----------------------------------------------------------------------------
(* What is initially so.                                                   *)

Stamps == [ctx : Ctxs \union {NoCtx}, gen : Gens]

(* No key is a retain's, no session is live and nothing is listed.         *)
LEMMA ListsInit == ASSUME InventoryAssumption, Init  PROVE ListsInv
<1>1. DriverTyped
  BY DEF InventoryAssumption, Init, DriverTyped, NoObj, ObjRec, Owners
<1>2. SessionsTyped
  <2>1. EmptyInventory \in InvRec
    BY DEF InventoryAssumption, EmptyInventory, InvRec
  <2>2. Idle \in OpRec /\ OpFits(Idle)
    BY DEF InventoryAssumption, Idle, OpRec, Item, NoStamp, Stamp, NoDev, ItemRec, Gens, EndedGen, OpFits
  <2> QED  BY <2>1, <2>2 DEF Init, SessionsTyped, Phases
<1>3. Locks /\ PhasesAgree
  BY DEF InventoryAssumption, Init, Locks, PhasesAgree, Idle, EmptyInventory
<1>4. Generations
  BY DEF InventoryAssumption, Init, Generations, Idle
<1>5. Counted
  <2>1. LiveSessions = {}
    BY DEF Init, LiveSessions
  <2>2. Retained = {}
    BY DEF InventoryAssumption, Init, Retained, EmptyInventory
  <2> QED  BY <2>1, <2>2, FS_EmptySet DEF Counted, RetainsAreCounted, Init
<1>6. KeysUnique /\ IndexIsExact
  BY DEF Init, KeysUnique, KeyedOnce, IndexIsExact, EmptyInventory
<1> QED  BY <1>1, <1>2, <1>3, <1>4, <1>5, <1>6 DEF ListsInv

-----------------------------------------------------------------------------
(* What a step reads.                                                      *)

(* A stamp says a context and a generation.                                *)
LEMMA StampNowTyped ==
  ASSUME InventoryAssumption, DriverTyped, SessionsTyped, NEW s \in Sessions
  PROVE  StampNow(s) \in Stamps
  BY DEF InventoryAssumption, StampNow, Stamp, Stamps, Gens, NoDev, EndedGen, DriverTyped, SessionsTyped

(* What an entry was made from says where and when, or that it is unknown. *)
LEMMA StampOfTyped ==
  ASSUME InventoryAssumption, DriverTyped, SessionsTyped, NEW s \in Sessions, NEW k, NEW h
  PROVE  StampOf(s, k, h) \in Stamps
<1> DEFINE e == Find(inv[s], k, h)
<1>1. CASE e # {}
  <2> DEFINE i == CHOOSE i \in e : TRUE
  <2>1. i \in e
    BY <1>1
  <2>2. i \in Listed
    BY <2>1 DEF Find, SessionsTyped, InvRec
  <2>3. StampOf(s, k, h) = Stamp(i.ctx, i.gen)
    BY <1>1 DEF StampOf
  <2> HIDE DEF i
  <2> QED  BY <2>2, <2>3 DEF Stamp, Stamps, Listed
<1>2. CASE e = {}
  <2>1. StampOf(s, k, h) = [StampNow(s) EXCEPT !.gen = EndedGen]
    BY <1>2 DEF StampOf
  <2> QED  BY <2>1, StampNowTyped DEF Stamps, Gens, EndedGen, NoDev, InventoryAssumption
<1> QED  BY <1>1, <1>2

(* An item made of a kind, a handle and a stamp.                           *)
LEMMA ItemTyped ==
  ASSUME NEW k, NEW h, NEW st \in Stamps
  PROVE  /\ (k \in Kinds /\ h \in Handles) => Item(k, h, st) \in Listed
         /\ (k = "capture" /\ h \in Handles) => Item(k, h, st) \in Captured
         /\ (k \in Kinds /\ h = NoHandle) => Item(k, h, st) \in ItemRec
         /\ Item(k, h, st).kind = k /\ Item(k, h, st).h = h
         /\ Item(k, h, st).ctx = st.ctx /\ Item(k, h, st).gen = st.gen
  BY DEF Item, Stamps, Listed, Captured, ItemRec

(* What a call names is a handle of the driver's.                          *)
LEMMA ItemHandle ==
  ASSUME SessionsTyped, NEW s \in Sessions, op[s].pc = "free"
  PROVE  op[s].item.h \in Handles /\ op[s].item.ctx \in Ctxs \union {NoCtx} /\ op[s].item.gen \in Gens
  BY DEF SessionsTyped, OpFits, Listed, Captured

-----------------------------------------------------------------------------
(* Each step keeps the types.                                              *)

(* What is marked as given up stays what it is.                            *)
LEMMA MarkTyped ==
  ASSUME NEW o \in ObjRec, NEW b \in BOOLEAN
  PROVE  [o EXCEPT !.untracked = b] \in ObjRec
  BY DEF ObjRec

(* What a context held is gone.                                            *)
LEMMA EmptiedTyped ==
  ASSUME DriverTyped, NEW c, Emptied(c)
  PROVE  obj' \in [Handles -> ObjRec] /\ capturing' \subseteq Handles
  BY DEF Emptied, DriverTyped, ObjRec, NoObj, Owners

(* A graph that comes of a capture.                                        *)
LEMMA GraphTyped ==
  ASSUME NEW s \in Sessions, NEW g, NEW st
  PROVE  GraphFrom(s, g, st) \in ObjRec
<1>1. Misplaced(st.gen) \in BOOLEAN
  BY DEF Misplaced
<1>2. PICK b \in BOOLEAN : GraphFrom(s, g, st) = [owner |-> s, kind |-> "graph", ctx |-> NoCtx, untracked |-> b]
  BY <1>1 DEF GraphFrom
<1> QED  BY <1>2 DEF ObjRec, Kinds, Owners

(* A reference is given back only while there is one.                      *)
LEMMA DropTyped ==
  ASSUME InventoryAssumption, DriverTyped, SessionsTyped,
         NEW s \in Sessions, DropReference(s), UNCHANGED bound
  PROVE  DriverTyped'
<1>2. refs > 0 /\ refs' = refs - 1 /\ UNCHANGED <<ctx_owner, live_mu, gen>>
  BY DEF DropReference
<1>3. refs' \in Nat
  BY <1>2 DEF DriverTyped
<1>4. primary_mu' \in Owners
  BY DEF DropReference, DriverTyped, Owners
<1>5. obj' \in [Handles -> ObjRec] /\ capturing' \subseteq Handles
  <2>1. CASE refs = 1
    <3>1. Emptied(Primary)
      BY <2>1 DEF DropReference
    <3> QED  BY <3>1, EmptiedTyped
  <2>2. CASE refs # 1
    BY <2>2 DEF DropReference, DriverTyped
  <2> QED  BY <2>1, <2>2
<1> QED  BY <1>2, <1>3, <1>4, <1>5 DEF DriverTyped

(* Every step leaves the driver's state and the locks what they are.       *)
LEMMA DriverTypedStep ==
  ASSUME InventoryAssumption, ListsInv, NEW s \in Sessions, Step(s), UNCHANGED bound
  PROVE  DriverTyped'
<1> USE DEF ListsInv
<1>1. CASE Bind(s)
  BY <1>1 DEF Bind, driverVars, lockVars, DriverTyped
<1>2. CASE \E c \in Ctxs \union {NoCtx} : Select(s, c)
  BY <1>2 DEF Select, driverVars, lockVars, DriverTyped
<1>3. CASE \E k \in Kinds : BeginMake(s, k)
  BY <1>3 DEF BeginMake, driverVars, lockVars, DriverTyped
<1>4. ASSUME NEW h \in Handles, Make(s, h)  PROVE DriverTyped'
  <2>1. [op[s].item EXCEPT !.h = h].kind \in Kinds
    BY <1>4 DEF Make, SessionsTyped, OpFits, OpRec, ItemRec
  <2>2. PICK k \in Kinds, u \in BOOLEAN :
          obj' = [obj EXCEPT ![h] = [owner |-> s, kind |-> k,
                    ctx |-> IF k = "bound" THEN cur[s] ELSE NoCtx, untracked |-> u]]
    BY <1>4, <2>1 DEF Make, Misplaced
  <2>3. [owner |-> s, kind |-> k, ctx |-> IF k = "bound" THEN cur[s] ELSE NoCtx, untracked |-> u] \in ObjRec
    BY DEF ObjRec, Owners, SessionsTyped
  <2> QED  BY <1>4, <2>2, <2>3 DEF Make, lockVars, DriverTyped
<1>5. ASSUME NEW h \in Handles, Free(s, h)  PROVE DriverTyped'
  BY <1>5 DEF Free, lockVars, DriverTyped, ObjRec, NoObj, Owners
<1>6. ASSUME NEW h \in Handles, BeginCapture(s, h)  PROVE DriverTyped'
  BY <1>6 DEF BeginCapture, lockVars, DriverTyped, Own
<1>7. CASE MakeFails(s)
  BY <1>7 DEF MakeFails, driverVars, lockVars, DriverTyped
<1>8. ASSUME NEW h \in Handles, NEW g \in Handles, EndCapture(s, h, g)  PROVE DriverTyped'
  <2>1. GraphFrom(s, g, StampOf(s, "bound", h)) \in ObjRec
    BY GraphTyped
  <2>2. /\ obj' = [obj EXCEPT ![g] = GraphFrom(s, g, StampOf(s, "bound", h))]
        /\ capturing' = capturing \ {h}
        /\ UNCHANGED <<ctx_owner, refs, gen, primary_mu, live_mu>>
    BY <1>8 DEF EndCapture, lockVars
  <2> HIDE DEF GraphFrom, StampOf
  <2> QED  BY <2>1, <2>2 DEF DriverTyped
<1>9. ASSUME NEW c \in bound.ctxs, CreateContext(s, c) \/ DestroyContext(s, c)  PROVE DriverTyped'
  <2>1. CASE CreateContext(s, c)
    BY <2>1 DEF CreateContext, lockVars, DriverTyped, Owners
  <2>2. CASE DestroyContext(s, c)
    <3>1. PICK now : EmptiedAndDropped(s, c, now)
      BY <2>2 DEF DestroyContext
    <3>2. obj' \in [Handles -> ObjRec] /\ capturing' \subseteq Handles
      <4>1. NoObj \in ObjRec
        BY DEF NoObj, ObjRec, Owners
      <4> QED  BY <3>1, <4>1, MarkTyped DEF EmptiedAndDropped, DriverTyped
    <3> QED  BY <2>2, <3>2 DEF DestroyContext, lockVars, DriverTyped, Owners
  <2> QED  BY <1>9, <2>1, <2>2
<1>10. CASE Retain(s)
  BY <1>10 DEF Retain, lockVars, DriverTyped
<1>11. CASE Release(s)
  BY <1>11, DropTyped DEF Release
<1>12. CASE Reset(s)
  BY <1>12 DEF Reset, Emptied, lockVars, DriverTyped, ObjRec, NoObj, Owners
<1>13. CASE Record(s)
  <2>1. gen < bound.gens /\ bound.gens \in 1 .. MaxGen
    BY <1>13 DEF Record, Generations, DriverTyped, InventoryAssumption
  <2>2. gen' \in 1 .. MaxGen
    BY <1>13, <2>1 DEF Record, DriverTyped, InventoryAssumption
  <2> QED  BY <1>13, <2>2 DEF Record, DriverTyped, ObjRec, Owners
<1>14. CASE Expire(s)
  BY <1>14 DEF Expire, driverVars, lockVars, DriverTyped
<1>15. ASSUME NEW e \in NextItems(s), Take(s, e) \/ Skip(s, e)  PROVE DriverTyped'
  <2>1. CASE Take(s, e)
    BY <2>1 DEF Take, driverVars, DriverTyped, Owners
  <2>2. CASE Skip(s, e)
    <3>1. e.h \in Handles
      BY <1>15 DEF NextItems, SessionsTyped, InvRec, Listed, Captured
    <3>2. [obj[e.h] EXCEPT !.untracked = TRUE] \in ObjRec /\ obj[e.h] \in ObjRec
      BY <3>1, MarkTyped DEF DriverTyped
    <3>3. obj' \in [Handles -> ObjRec]
      BY <2>2, <3>1, <3>2 DEF Skip, DriverTyped
    <3> QED  BY <2>2, <3>3 DEF Skip, lockVars, DriverTyped
  <2> QED  BY <1>15, <2>1, <2>2
<1>16. ASSUME NEW g \in Handles, EndTaken(s, g)  PROVE DriverTyped'
  <2>1. primary_mu' \in Owners /\ UNCHANGED <<ctx_owner, refs, live_mu, gen>>
    BY <1>16 DEF EndTaken, Unlock, DriverTyped, Owners
  <2>2. obj' \in [Handles -> ObjRec] /\ capturing' \subseteq Handles
    <3>1. GraphFrom(s, g, op[s].item) \in ObjRec
      BY GraphTyped
    <3> QED  BY <1>16, <3>1 DEF EndTaken, DriverTyped
  <2> QED  BY <2>1, <2>2 DEF DriverTyped
<1>17. CASE FreeTaken(s)
  <2>1. primary_mu' \in Owners /\ UNCHANGED <<ctx_owner, refs, live_mu, gen>>
    BY <1>17 DEF FreeTaken, Unlock, DriverTyped, Owners
  <2>2. obj' \in [Handles -> ObjRec] /\ capturing' \subseteq Handles
    <3>1. op[s].item.h \in Handles
      BY <1>17, ItemHandle DEF FreeTaken
    <3>2. CASE MayFree(s)
      <4>1. NoObj \in ObjRec
        BY DEF NoObj, ObjRec, Owners
      <4>2. obj' = [obj EXCEPT ![op[s].item.h] = NoObj] /\ capturing' = capturing \ {op[s].item.h}
        BY <1>17, <3>2 DEF FreeTaken
      <4> QED  BY <3>1, <4>1, <4>2 DEF DriverTyped
    <3>3. CASE ~MayFree(s)
      <4>1. PICK b \in BOOLEAN : obj' = [obj EXCEPT ![op[s].item.h].untracked = b]
        <5>1. (obj[op[s].item.h].untracked \/ UnknownCapture(s)) \in BOOLEAN
          OBVIOUS
        <5> QED  BY <1>17, <3>3, <5>1 DEF FreeTaken
      <4>2. [obj[op[s].item.h] EXCEPT !.untracked = b] \in ObjRec
        BY <3>1, MarkTyped DEF DriverTyped
      <4>3. capturing' = capturing
        BY <1>17, <3>3 DEF FreeTaken
      <4> QED  BY <3>1, <4>1, <4>2, <4>3 DEF DriverTyped
    <3> QED  BY <3>2, <3>3
  <2> QED  BY <2>1, <2>2 DEF DriverTyped
<1>18. ASSUME NEW c \in CtxAddrs, ReleaseContext(s, c)  PROVE DriverTyped'
  BY <1>18 DEF ReleaseContext, Emptied, lockVars, DriverTyped, ObjRec, NoObj, Owners
<1>19. CASE ReleaseRetain(s)
  BY <1>19, DropTyped DEF ReleaseRetain
<1>20. CASE Unbind(s)
  BY <1>20 DEF Unbind, driverVars, lockVars, DriverTyped
<1>21. CASE RetainsRefused(s)
  BY <1>21 DEF RetainsRefused, lockVars, DriverTyped
<1> QED
  BY <1>1, <1>2, <1>3, <1>4, <1>5, <1>6, <1>7, <1>8, <1>9, <1>10, <1>11, <1>12, <1>13, <1>14,
     <1>15, <1>16, <1>17, <1>18, <1>19, <1>20, <1>21 DEF Step, Call, Expiry

(* What a session's thread is at after a step of its own: nothing, or one  *)
(* of the calls that its variables are then typed for.                     *)
LEMMA PutTyped ==
  ASSUME SessionsTyped, NEW s \in Sessions,
         NEW o \in OpRec, OpFits(o), NEW iv \in InvRec, NEW p \in Phases, NEW x \in Ctxs \union {NoCtx},
         op' = op \/ op' = [op EXCEPT ![s] = o], inv' = inv \/ inv' = [inv EXCEPT ![s] = iv],
         phase' = phase \/ phase' = [phase EXCEPT ![s] = p], cur' = cur \/ cur' = [cur EXCEPT ![s] = x]
  PROVE  SessionsTyped'
<1>1. phase' \in [Sessions -> Phases]
  BY DEF SessionsTyped
<1>2. cur' \in [Sessions -> Ctxs \union {NoCtx}]
  BY DEF SessionsTyped
<1>3. op' \in [Sessions -> OpRec] /\ \A u \in Sessions : op'[u] = op[u] \/ op'[u] = o
  BY DEF SessionsTyped
<1>4. inv' \in [Sessions -> InvRec]
  BY DEF SessionsTyped
<1>5. \A u \in Sessions : OpFits(op'[u])
  BY <1>3 DEF SessionsTyped
<1> QED  BY <1>1, <1>2, <1>3, <1>4, <1>5 DEF SessionsTyped

(* Being at nothing, and recording.                                        *)
LEMMA PlainOps ==
  ASSUME InventoryAssumption
  PROVE  /\ Idle \in OpRec /\ OpFits(Idle)
         /\ [pc |-> "record", item |-> Idle.item] \in OpRec
         /\ OpFits([pc |-> "record", item |-> Idle.item])
  BY DEF InventoryAssumption, Idle, OpRec, Item, NoStamp, Stamp, NoDev, ItemRec, Gens, EndedGen, OpFits

(* A release leaves the rest of the lists, and the session recording or    *)
(* back at nothing.                                                        *)
LEMMA DropSessionsTyped ==
  ASSUME InventoryAssumption, SessionsTyped, NEW s \in Sessions, DropReference(s)
  PROVE  SessionsTyped'
<1> DEFINE iv == [inv[s] EXCEPT !.retains = OneLess(@)]
<1>1. inv[s] \in InvRec /\ inv[s].retains \in 0 .. MaxRetains
  BY DEF SessionsTyped, InvRec
<1>2. OneLess(inv[s].retains) \in 0 .. MaxRetains
  BY <1>1 DEF InventoryAssumption, OneLess
<1>3. iv \in InvRec
  BY <1>1, <1>2 DEF InvRec
<1>4. inv' = [inv EXCEPT ![s] = iv] /\ phase' = phase /\ cur' = cur
  BY DEF DropReference
<1> HIDE DEF iv
<1>5. op' = op \/ op' = [op EXCEPT ![s] = [pc |-> "record", item |-> Idle.item]]
  BY DEF DropReference, Goto
<1>6. phase[s] \in Phases /\ cur[s] \in Ctxs \union {NoCtx}
  BY DEF SessionsTyped
<1> QED  BY <1>3, <1>4, <1>5, <1>6, PlainOps, PutTyped

(* Every step keeps each session's lists, call, phase and context typed.   *)
LEMMA SessionsTypedStep ==
  ASSUME InventoryAssumption, ListsInv, NEW s \in Sessions, Step(s), UNCHANGED bound
  PROVE  SessionsTyped'
<1>1. DriverTyped /\ SessionsTyped
  BY DEF ListsInv
<1>2. /\ op[s] \in OpRec /\ OpFits(op[s]) /\ inv[s] \in InvRec /\ phase[s] \in Phases
      /\ cur[s] \in Ctxs \union {NoCtx}
  BY <1>1 DEF SessionsTyped
<1>3. Idle \in OpRec /\ OpFits(Idle) /\ NoCtx \in Ctxs \union {NoCtx}
  BY PlainOps
<1>4. CASE Bind(s)
  <2>1. phase' = [phase EXCEPT ![s] = "live"] /\ "live" \in Phases /\ UNCHANGED <<cur, op, inv>>
    BY <1>4 DEF Bind, Phases
  <2> QED  BY <1>1, <1>2, <2>1, PutTyped
<1>5. ASSUME NEW c \in Ctxs \union {NoCtx}, Select(s, c)  PROVE SessionsTyped'
  <2>1. cur' = [cur EXCEPT ![s] = c] /\ UNCHANGED <<phase, op, inv>>
    BY <1>5 DEF Select
  <2> QED  BY <1>1, <1>2, <2>1, PutTyped
<1>6. ASSUME NEW k \in Kinds, BeginMake(s, k)  PROVE SessionsTyped'
  <2>1. PICK st \in Stamps : op' = [op EXCEPT ![s] = [pc |-> "make", item |-> Item(k, NoHandle, st)]]
    <3>1. NoStamp \in Stamps
      BY DEF InventoryAssumption, NoStamp, Stamp, Stamps, Gens, NoDev, EndedGen
    <3> QED  BY <1>6, <1>1, <3>1, StampNowTyped, StampOfTyped DEF BeginMake, Goto
  <2> DEFINE o == [pc |-> "make", item |-> Item(k, NoHandle, st)]
  <2>2. o \in OpRec /\ OpFits(o)
    BY ItemTyped DEF OpRec, OpFits
  <2>3. op' = [op EXCEPT ![s] = o] /\ UNCHANGED <<phase, cur, inv>>
    BY <1>6, <2>1 DEF BeginMake
  <2> HIDE DEF o
  <2> QED  BY <1>1, <1>2, <2>2, <2>3, PutTyped
<1>7. ASSUME NEW h \in Handles, Make(s, h)  PROVE SessionsTyped'
  <2> DEFINE e == [op[s].item EXCEPT !.h = h]
  <2>1. e \in Listed
    BY <1>7, <1>2 DEF Make, OpFits, OpRec, ItemRec, Listed
  <2>2. inv' = [inv EXCEPT ![s] = Note(inv[s], e)] /\ op' = [op EXCEPT ![s] = Idle]
        /\ UNCHANGED <<phase, cur>>
    BY <1>7 DEF Make, Done
  <2> HIDE DEF e
  <2>3. Note(inv[s], e) \in InvRec
    BY <1>2, <2>1, NoteTyped
  <2> QED  BY <1>1, <1>2, <1>3, <2>2, <2>3, PutTyped
<1>8. ASSUME NEW h \in Handles, Free(s, h)  PROVE SessionsTyped'
  <2>1. Forget(inv[s], "bound", h) \in InvRec /\ Forget(inv[s], obj[h].kind, h) \in InvRec
    BY <1>2, ForgetTyped
  <2>2. ForgetCapture(Forget(inv[s], "bound", h), h) \in InvRec
    BY <2>1, ForgetCaptureTyped
  <2> DEFINE iv == IF obj[h].kind = "bound" THEN ForgetCapture(Forget(inv[s], "bound", h), h)
                   ELSE Forget(inv[s], obj[h].kind, h)
  <2>3. inv' = [inv EXCEPT ![s] = iv] /\ UNCHANGED <<phase, cur, op>>
    BY <1>8 DEF Free
  <2>4. iv \in InvRec
    BY <2>1, <2>2
  <2> HIDE DEF iv
  <2> QED  BY <1>1, <1>2, <2>3, <2>4, PutTyped
<1>9. ASSUME NEW h \in Handles, BeginCapture(s, h)  PROVE SessionsTyped'
  <2> DEFINE p == Item("capture", h, StampOf(s, "bound", h))
  <2>1. p \in Captured
    BY <1>1, StampOfTyped, ItemTyped
  <2> HIDE DEF p
  <2> DEFINE iv == [inv[s] EXCEPT !.captures = @ \union {p}]
  <2>2. iv \in InvRec
    BY <1>2, <2>1 DEF InvRec
  <2>3. inv' = [inv EXCEPT ![s] = iv] /\ UNCHANGED <<phase, cur, op>>
    BY <1>9 DEF BeginCapture, p
  <2> HIDE DEF iv
  <2> QED  BY <1>1, <1>2, <2>2, <2>3, PutTyped
<1>10. CASE MakeFails(s)
  <2>1. op' = [op EXCEPT ![s] = Idle] /\ UNCHANGED <<phase, cur, inv>>
    BY <1>10 DEF MakeFails, Done
  <2> QED  BY <1>1, <1>2, <1>3, <2>1, PutTyped
<1>11. ASSUME NEW h \in Handles, NEW g \in Handles, EndCapture(s, h, g)  PROVE SessionsTyped'
  <2> DEFINE e == Item("graph", g, StampOf(s, "bound", h))
  <2> DEFINE iv == Note(ForgetCapture(inv[s], h), e)
  <2>1. e \in Listed
    BY <1>1, StampOfTyped, ItemTyped DEF Kinds
  <2>2. inv' = [inv EXCEPT ![s] = iv] /\ UNCHANGED <<phase, cur, op>>
    BY <1>11 DEF EndCapture
  <2> HIDE DEF e
  <2>3. iv \in InvRec
    BY <1>2, <2>1, ForgetCaptureTyped, NoteTyped
  <2> HIDE DEF iv
  <2> QED  BY <1>1, <1>2, <2>2, <2>3, PutTyped
<1>12. ASSUME NEW c \in bound.ctxs, CreateContext(s, c) \/ DestroyContext(s, c)  PROVE SessionsTyped'
  <2>1. c \in CtxAddrs /\ c \in Ctxs \union {NoCtx}
    BY <1>1 DEF InventoryAssumption, DriverTyped, Ctxs
  <2>2. CASE CreateContext(s, c)
    <3> DEFINE iv == [inv[s] EXCEPT !.contexts = @ \union {c}]
    <3>1. iv \in InvRec
      BY <1>2, <2>1 DEF InvRec
    <3>2. inv' = [inv EXCEPT ![s] = iv] /\ cur' = [cur EXCEPT ![s] = c] /\ UNCHANGED <<phase, op>>
      BY <2>2 DEF CreateContext
    <3> HIDE DEF iv
    <3> QED  BY <1>1, <1>2, <2>1, <3>1, <3>2, PutTyped
  <2>3. CASE DestroyContext(s, c)
    <3> DEFINE iv == ForgetContext(inv[s], c)
    <3> DEFINE x == IF cur[s] = c THEN NoCtx ELSE cur[s]
    <3>1. iv \in InvRec /\ x \in Ctxs \union {NoCtx}
      BY <1>2, ForgetContextTyped
    <3>2. inv' = [inv EXCEPT ![s] = iv] /\ cur' = [cur EXCEPT ![s] = x] /\ UNCHANGED <<phase, op>>
      BY <2>3 DEF DestroyContext
    <3> HIDE DEF iv, x
    <3> QED  BY <1>1, <1>2, <3>1, <3>2, PutTyped
  <2> QED  BY <1>12, <2>2, <2>3
<1>13. CASE Retain(s)
  <2> DEFINE iv == [inv[s] EXCEPT !.retains = @ + 1]
  <2>1. inv[s].retains \in 0 .. MaxRetains /\ inv[s].retains < MaxRetains
    BY <1>13, <1>2 DEF Retain, InvRec
  <2>2. inv[s].retains + 1 \in 0 .. MaxRetains
    BY <2>1 DEF InventoryAssumption
  <2>3. iv \in InvRec
    BY <1>2, <2>2 DEF InvRec
  <2>4. inv' = [inv EXCEPT ![s] = iv] /\ UNCHANGED <<phase, cur, op>>
    BY <1>13 DEF Retain
  <2> HIDE DEF iv
  <2> QED  BY <1>1, <1>2, <2>3, <2>4, PutTyped
<1>14. CASE Release(s) \/ ReleaseRetain(s)
  <2>1. DropReference(s)
    BY <1>14 DEF Release, ReleaseRetain
  <2> QED  BY <1>1, <2>1, DropSessionsTyped
<1>15. CASE Reset(s)
  <2>1. op' = [op EXCEPT ![s] = [pc |-> "record", item |-> Idle.item]] /\ UNCHANGED <<phase, cur, inv>>
    BY <1>15 DEF Reset, Goto
  <2> QED  BY <1>1, <1>2, <2>1, PlainOps, PutTyped
<1>16. CASE Record(s)
  <2> DEFINE iv == ForgetPrimary(inv[s], gen + 1)
  <2>1. iv \in InvRec
    BY <1>2, ForgetPrimaryTyped
  <2>2. inv' = [inv EXCEPT ![s] = iv] /\ op' = [op EXCEPT ![s] = Idle] /\ UNCHANGED <<phase, cur>>
    BY <1>16 DEF Record, Done
  <2> HIDE DEF iv
  <2> QED  BY <1>1, <1>2, <1>3, <2>1, <2>2, PutTyped
<1>17. CASE Expire(s)
  <2> DEFINE iv == [inv[s] EXCEPT !.by_ctx = {}]
  <2>1. iv \in InvRec
    BY <1>2 DEF InvRec
  <2>2. inv' = [inv EXCEPT ![s] = iv] /\ phase' = [phase EXCEPT ![s] = "expiring"] /\ UNCHANGED <<cur, op>>
        /\ "expiring" \in Phases
    BY <1>17 DEF Expire, Phases
  <2> HIDE DEF iv
  <2> QED  BY <1>1, <1>2, <2>1, <2>2, PutTyped
<1>18. ASSUME NEW e \in NextItems(s), Take(s, e) \/ Skip(s, e)  PROVE SessionsTyped'
  <2> DEFINE iv == Without(inv[s], e)
  <2>1. iv \in InvRec
    BY <1>2 DEF Without, InvRec
  <2>2. e \in Listed \union Captured
    BY <1>2 DEF NextItems, InvRec
  <2> DEFINE o == [pc |-> "free", item |-> e]
  <2>3. o \in OpRec /\ OpFits(o)
    BY <2>2 DEF OpRec, OpFits, Listed, Captured, ItemRec
  <2>4. inv' = [inv EXCEPT ![s] = iv] /\ UNCHANGED <<phase, cur>> /\ (op' = op \/ op' = [op EXCEPT ![s] = o])
    BY <1>18 DEF Take, Skip, Goto
  <2> HIDE DEF iv, o
  <2> QED  BY <1>1, <1>2, <2>1, <2>3, <2>4, PutTyped
<1>19. ASSUME NEW g \in Handles, EndTaken(s, g)  PROVE SessionsTyped'
  <2> DEFINE e == Item("graph", g, op[s].item)
  <2> DEFINE iv == [inv[s] EXCEPT !.items = (@ \ Find(inv[s], "graph", g)) \union {e}]
  <2>1. op[s].item.ctx \in Ctxs \union {NoCtx} /\ op[s].item.gen \in Gens
    BY <1>19, <1>1, ItemHandle DEF EndTaken
  <2>2. e \in Listed
    BY <2>1 DEF Item, Listed, Kinds
  <2>3. inv' = inv \/ inv' = [inv EXCEPT ![s] = iv]
    BY <1>19 DEF EndTaken
  <2>4. op' = [op EXCEPT ![s] = Idle] /\ cur' = [cur EXCEPT ![s] = op[s].item.ctx] /\ UNCHANGED phase
    BY <1>19 DEF EndTaken, Done
  <2> HIDE DEF e
  <2>5. iv \in InvRec
    BY <1>2, <2>2 DEF InvRec
  <2> HIDE DEF iv
  <2> QED  BY <1>1, <1>2, <1>3, <2>1, <2>3, <2>4, <2>5, PutTyped
<1>20. CASE FreeTaken(s)
  <2>1. op[s].item.ctx \in Ctxs \union {NoCtx}
    BY <1>20, <1>1, ItemHandle DEF FreeTaken
  <2>2. op' = [op EXCEPT ![s] = Idle] /\ cur' = [cur EXCEPT ![s] = op[s].item.ctx] /\ UNCHANGED <<phase, inv>>
    BY <1>20 DEF FreeTaken, Done
  <2> QED  BY <1>1, <1>2, <1>3, <2>1, <2>2, PutTyped
<1>21. ASSUME NEW c \in CtxAddrs, ReleaseContext(s, c)  PROVE SessionsTyped'
  <2> DEFINE iv == [inv[s] EXCEPT !.contexts = @ \ {c}]
  <2>1. iv \in InvRec
    BY <1>2 DEF InvRec
  <2>2. inv' = [inv EXCEPT ![s] = iv] /\ cur' = [cur EXCEPT ![s] = NoCtx] /\ UNCHANGED <<phase, op>>
    BY <1>21 DEF ReleaseContext
  <2> HIDE DEF iv
  <2> QED  BY <1>1, <1>2, <1>3, <2>1, <2>2, PutTyped
<1>22. CASE Unbind(s)
  <2>1. phase' = [phase EXCEPT ![s] = "ended"] /\ "ended" \in Phases /\ cur' = [cur EXCEPT ![s] = NoCtx]
        /\ UNCHANGED <<op, inv>>
    BY <1>22 DEF Unbind, Phases
  <2> QED  BY <1>1, <1>2, <1>3, <2>1, PutTyped
<1>23. CASE RetainsRefused(s)
  <2> DEFINE iv == [inv[s] EXCEPT !.retains = 0]
  <2>1. iv \in InvRec
    BY <1>2 DEF InvRec, InventoryAssumption
  <2>2. inv' = [inv EXCEPT ![s] = iv] /\ UNCHANGED <<phase, cur, op>>
    BY <1>23 DEF RetainsRefused
  <2> HIDE DEF iv
  <2> QED  BY <1>1, <1>2, <2>1, <2>2, PutTyped
<1> QED
  BY <1>4, <1>5, <1>6, <1>7, <1>8, <1>9, <1>10, <1>11, <1>12, <1>13, <1>14, <1>15, <1>16, <1>17,
     <1>18, <1>19, <1>20, <1>21, <1>22, <1>23 DEF Step, Call, Expiry

-----------------------------------------------------------------------------
(* Each step keeps the locks, the phases and the generations.              *)

(* A step is one thread's: the others' calls, lists, phases and contexts   *)
(* are theirs alone.                                                       *)
LEMMA OthersStay ==
  ASSUME ListsInv, NEW s \in Sessions, Step(s), NEW u \in Sessions \ {s}
  PROVE  op'[u] = op[u] /\ inv'[u] = inv[u] /\ phase'[u] = phase[u] /\ cur'[u] = cur[u]
<1> USE DEF ListsInv, SessionsTyped, Goto, Done
<1>1. CASE Bind(s) \/ Expire(s) \/ Unbind(s)
  BY <1>1 DEF Bind, Expire, Unbind
<1>2. CASE (\E c \in Ctxs \union {NoCtx} : Select(s, c)) \/ (\E k \in Kinds : BeginMake(s, k)) \/ MakeFails(s)
  BY <1>2 DEF Select, BeginMake, MakeFails
<1>3. CASE \E h \in Handles : Make(s, h) \/ Free(s, h) \/ BeginCapture(s, h)
  BY <1>3 DEF Make, Free, BeginCapture
<1>4. CASE \E h, g \in Handles : EndCapture(s, h, g)
  BY <1>4 DEF EndCapture
<1>5. CASE \E c \in bound.ctxs : CreateContext(s, c) \/ DestroyContext(s, c)
  BY <1>5 DEF CreateContext, DestroyContext
<1>6. CASE Retain(s) \/ Reset(s) \/ Record(s)
  BY <1>6 DEF Retain, Reset, Record
<1>7. CASE Release(s) \/ ReleaseRetain(s) \/ RetainsRefused(s)
  BY <1>7 DEF Release, ReleaseRetain, RetainsRefused, DropReference
<1>8. CASE \E e \in NextItems(s) : Take(s, e) \/ Skip(s, e)
  BY <1>8 DEF Take, Skip
<1>9. CASE \E g \in Handles : EndTaken(s, g)
  BY <1>9 DEF EndTaken
<1>10. CASE FreeTaken(s) \/ \E c \in CtxAddrs : ReleaseContext(s, c)
  BY <1>10 DEF FreeTaken, ReleaseContext
<1> QED
  BY <1>1, <1>2, <1>3, <1>4, <1>5, <1>6, <1>7, <1>8, <1>9, <1>10 DEF Step, Call, Expiry

(* A thread moves only while its session is new, or live and not being     *)
(* reset by another.                                                       *)
LEMMA MoversLive ==
  ASSUME InventoryAssumption, ListsInv, NEW s \in Sessions, Step(s)
  PROVE  (phase[s] = "new" /\ Bind(s)) \/ phase[s] \in {"live", "expiring"}
<1> USE DEF ListsInv, PhasesAgree, Serving, Releasing, ItemsReleased
<1>1. CASE Bind(s)
  BY <1>1 DEF Bind
<1>2. CASE Call(s)
  <2>1. CASE Serving(s) \/ op[s].pc \in {"make", "record"}
    BY <2>1
  <2>2. Serving(s) \/ op[s].pc \in {"make", "record"}
    BY <1>2 DEF Call, Select, BeginMake, Make, Free, BeginCapture, MakeFails, EndCapture, CreateContext,
       DestroyContext, Retain, Release, Reset, Record
  <2> QED  BY <2>1, <2>2
<1>3. CASE Expire(s)
  BY <1>3 DEF Expire
<1>4. CASE Expiry(s)
  <2>1. CASE Releasing(s) \/ op[s].pc = "free"
    BY <2>1
  <2>2. Releasing(s) \/ op[s].pc = "free"
    BY <1>4 DEF Expiry, Take, Skip, EndTaken, FreeTaken, ReleaseContext, ReleaseRetain, RetainsRefused,
       RetainsNext, Unbind
  <2> QED  BY <2>1, <2>2
<1> QED  BY <1>1, <1>2, <1>3, <1>4 DEF Step

(* What another holds of the locks it keeps, and what they guard.          *)
LEMMA LockedStays ==
  ASSUME InventoryAssumption, ListsInv, NEW s \in Sessions, Step(s), NEW u \in Sessions \ {s}
  PROVE  /\ primary_mu = u => UNCHANGED <<primary_mu, live_mu, refs, gen>>
         /\ primary_mu # u => primary_mu' # u
         /\ live_mu # u /\ live_mu' # u
<1>1. live_mu # u
  <2>1. live_mu = u => s \notin LiveSessions
    BY DEF ListsInv, Locks
  <2>2. live_mu = u => ~Bind(s)
    BY DEF Bind, InventoryAssumption
  <2> QED  BY <2>1, <2>2, MoversLive DEF LiveSessions
<1>2. live_mu' # u
  <2>1. live_mu' \in {live_mu, s, Nobody}
    <3> USE DEF lockVars
    <3>1. CASE Bind(s) \/ Expire(s)
      BY <3>1 DEF Bind, Expire
    <3>2. CASE Call(s)
      BY <3>2 DEF Call, Select, BeginMake, Make, Free, BeginCapture, MakeFails, EndCapture, CreateContext,
       DestroyContext, Retain, Release, DropReference, Reset, Record
    <3>3. CASE Expiry(s)
      BY <3>3 DEF Expiry, Take, Skip, EndTaken, FreeTaken, ReleaseContext, ReleaseRetain, RetainsRefused,
       DropReference, Unbind
    <3> QED  BY <3>1, <3>2, <3>3 DEF Step
  <2> QED  BY <1>1, <2>1 DEF InventoryAssumption
<1>3. primary_mu # u => primary_mu' # u
  <2>1. primary_mu' \in {primary_mu, s, Nobody}
    <3> USE DEF lockVars
    <3>1. CASE Bind(s) \/ Expire(s)
      BY <3>1 DEF Bind, Expire
    <3>2. CASE Call(s)
      BY <3>2 DEF Call, Select, BeginMake, Make, Free, BeginCapture, MakeFails, EndCapture, CreateContext,
       DestroyContext, Retain, Release, DropReference, Reset, Record
    <3>3. CASE Expiry(s)
      BY <3>3 DEF Expiry, Take, Skip, EndTaken, FreeTaken, Unlock, ReleaseContext, ReleaseRetain,
       RetainsRefused, DropReference, Unbind
    <3> QED  BY <3>1, <3>2, <3>3 DEF Step
  <2> QED  BY <2>1 DEF InventoryAssumption
<1>4. ASSUME primary_mu = u  PROVE UNCHANGED <<primary_mu, live_mu, refs, gen>>
  <2> USE DEF lockVars, driverVars, Unlocked
  <2>1. primary_mu # Nobody /\ primary_mu # s /\ op[s].pc # "record"
        /\ ~(op[s].pc = "free" /\ op[s].item.gen # NoDev)
    BY <1>4 DEF ListsInv, Locks, InventoryAssumption
  <2>2. CASE Bind(s) \/ Expire(s)
    BY <2>2 DEF Bind, Expire
  <2>3. CASE Call(s)
    BY <2>1, <2>3 DEF Call, Select, BeginMake, Make, Free, BeginCapture, MakeFails, EndCapture, CreateContext,
       DestroyContext, Retain, Release, Reset, Record
  <2>4. CASE \E e \in NextItems(s) : Take(s, e) \/ Skip(s, e)
    BY <2>1, <2>4 DEF Take, Skip, StillCurrent
  <2>5. CASE \E g \in Handles : EndTaken(s, g)
    BY <2>1, <2>5 DEF EndTaken, Unlock
  <2>6. CASE FreeTaken(s) \/ (\E c \in CtxAddrs : ReleaseContext(s, c)) \/ ReleaseRetain(s)
             \/ RetainsRefused(s) \/ Unbind(s)
    BY <2>1, <2>6 DEF FreeTaken, Unlock, ReleaseContext, ReleaseRetain, RetainsRefused, RetainsNext, Unbind
  <2> QED  BY <2>2, <2>3, <2>4, <2>5, <2>6 DEF Step, Expiry
<1> QED  BY <1>1, <1>2, <1>3, <1>4

(* Where at most one session is live, no other is.                         *)
LEMMA AloneLive ==
  ASSUME Counted, MayReset, NEW s \in LiveSessions
  PROVE  \A u \in Sessions \ {s} : u \notin LiveSessions
<1>1. /\ IsFiniteSet(LiveSessions \ {s})
      /\ Cardinality(LiveSessions \ {s}) = Cardinality(LiveSessions) - 1
  BY FS_RemoveElement DEF Counted
<1>2. Cardinality(LiveSessions) \in Nat /\ Cardinality(LiveSessions \ {s}) \in Nat
  BY <1>1, FS_CardinalityType DEF Counted
<1>3. Cardinality(LiveSessions \ {s}) = 0
  BY <1>1, <1>2 DEF MayReset
<1>4. LiveSessions \ {s} = {}
  BY <1>1, <1>3, FS_EmptySet
<1> QED  BY <1>4

(* Every step keeps the locks.                                             *)
LEMMA LocksStep ==
  ASSUME InventoryAssumption, ListsInv, NEW s \in Sessions, Step(s), SessionsTyped'
  PROVE  Locks'
<1> USE DEF lockVars, driverVars, Goto, Done
<1> DEFINE Held(u) ==
             /\ op[u].pc = "record" => primary_mu = u /\ (live_mu = u \/ refs = 0)
             /\ (op[u].pc = "free" /\ op[u].item.gen # NoDev) => primary_mu = u
             /\ primary_mu = u => op[u].pc \in {"record", "free"}
             /\ live_mu = u => op[u].pc = "record" /\ \A v \in Sessions \ {u} : v \notin LiveSessions
<1>1. /\ Held(s) /\ s # Nobody /\ op \in [Sessions -> OpRec]
      /\ inv \in [Sessions -> InvRec] /\ phase \in [Sessions -> Phases]
  BY DEF ListsInv, Locks, SessionsTyped, InventoryAssumption
<1>2. ASSUME NEW u \in Sessions \ {s}  PROVE Held(u)'
  <2>1. op'[u] = op[u] /\ live_mu' # u /\ Held(u)
    BY OthersStay, LockedStays DEF ListsInv, Locks
  <2>2. primary_mu = u => UNCHANGED <<primary_mu, live_mu, refs, gen>>
    BY LockedStays
  <2>3. primary_mu # u => primary_mu' # u
    BY LockedStays
  <2> QED  BY <2>1, <2>2, <2>3
<1> SUFFICES Held(s)'
  BY <1>2 DEF Locks
<1>3. CASE Bind(s)
  BY <1>3, <1>1 DEF Bind
<1>4. CASE Expire(s)
  BY <1>4, <1>1 DEF Expire, Serving
<1>5. CASE Unbind(s)
  BY <1>5, <1>1 DEF Unbind, ItemsReleased, Releasing
<1>6. CASE Reset(s)
  <2>1. \A u \in Sessions \ {s} : u \notin LiveSessions
    BY <1>6, AloneLive DEF Reset, Serving, LiveSessions, ListsInv
  <2>2. LiveSessions' = LiveSessions
    BY <1>6 DEF Reset, LiveSessions
  <2>3. op'[s].pc = "record" /\ primary_mu' = s /\ live_mu' = s
    BY <1>6, <1>1 DEF Reset
  <2> QED  BY <2>1, <2>2, <2>3
<1>7. CASE Record(s)
  <2>1. op'[s] = Idle /\ primary_mu' = Nobody /\ live_mu' # s
    BY <1>7, <1>1 DEF Record
  <2> QED  BY <2>1, <1>1 DEF Idle
<1>8. CASE (\E c \in Ctxs \union {NoCtx} : Select(s, c)) \/ (\E c \in bound.ctxs : CreateContext(s, c) \/ DestroyContext(s, c))
           \/ (\E h \in Handles : Free(s, h) \/ BeginCapture(s, h)) \/ (\E h, g \in Handles : EndCapture(s, h, g)) \/ Retain(s)
  <2>1. op' = op /\ op[s].pc = "idle" /\ UNCHANGED <<primary_mu, live_mu>>
    BY <1>8 DEF Select, CreateContext, DestroyContext, Free, BeginCapture, EndCapture, Retain, Serving
  <2> QED  BY <2>1, <1>1
<1>9. CASE \E k \in Kinds : BeginMake(s, k)
  <2>1. op'[s].pc = "make" /\ op[s].pc = "idle" /\ UNCHANGED <<primary_mu, live_mu>>
    BY <1>9, <1>1 DEF BeginMake, Serving
  <2> QED  BY <2>1, <1>1
<1>10. CASE MakeFails(s) \/ \E h \in Handles : Make(s, h)
  <2>1. op'[s] = Idle /\ op[s].pc = "make" /\ UNCHANGED <<primary_mu, live_mu>>
    BY <1>10, <1>1 DEF Make, MakeFails
  <2> QED  BY <2>1, <1>1 DEF Idle
<1>11. CASE Release(s) \/ ReleaseRetain(s)
  <2>1. op[s].pc = "idle" /\ DropReference(s)
    BY <1>11 DEF Release, ReleaseRetain, RetainsNext, Serving, ItemsReleased, Releasing
  <2>2. live_mu' = live_mu /\ live_mu # s /\ primary_mu # s
    BY <2>1, <1>1 DEF DropReference
  <2>3. CASE refs = 1
    <3>1. op'[s].pc = "record" /\ primary_mu' = s /\ refs' = 0
      BY <2>1, <2>3, <1>1 DEF DropReference
    <3> QED  BY <2>2, <3>1
  <2>4. CASE refs # 1
    <3>1. op' = op /\ primary_mu' = primary_mu
      BY <2>1, <2>4 DEF DropReference
    <3> QED  BY <2>1, <2>2, <3>1
  <2> QED  BY <2>3, <2>4
<1>12. ASSUME NEW e \in NextItems(s), Take(s, e)  PROVE Held(s)'
  <2>1. op'[s] = [pc |-> "free", item |-> e] /\ live_mu' = live_mu /\ op[s].pc = "idle"
        /\ primary_mu' = IF e.gen = NoDev THEN primary_mu ELSE s
    BY <1>12, <1>1 DEF Take, Releasing
  <2> QED  BY <2>1, <1>1
<1>13. CASE (\E e \in NextItems(s) : Skip(s, e)) \/ (\E c \in CtxAddrs : ReleaseContext(s, c)) \/ RetainsRefused(s)
  <2>1. op' = op /\ op[s].pc = "idle" /\ UNCHANGED <<primary_mu, live_mu>>
    BY <1>13 DEF Skip, ReleaseContext, RetainsRefused, RetainsNext, ItemsReleased, Releasing
  <2> QED  BY <2>1, <1>1
<1>14. CASE FreeTaken(s) \/ \E g \in Handles : EndTaken(s, g)
  <2>1. op'[s] = Idle /\ live_mu' = live_mu /\ op[s].pc = "free" /\ primary_mu' # s
    BY <1>14, <1>1 DEF FreeTaken, EndTaken, Unlock
  <2> QED  BY <2>1, <1>1 DEF Idle
<1> QED
  BY <1>3, <1>4, <1>5, <1>6, <1>7, <1>8, <1>9, <1>10, <1>11, <1>12, <1>13, <1>14 DEF Step, Call, Expiry

(* Every step keeps phase, call and lists in agreement.                    *)
LEMMA PhasesStep ==
  ASSUME InventoryAssumption, ListsInv, NEW s \in Sessions, Step(s), SessionsTyped'
  PROVE  PhasesAgree'
<1> USE DEF Goto, Done, Phases
<1> DEFINE Agree(u) ==
    /\ op[u].pc = "make" => phase[u] = "live"
    /\ op[u].pc = "free" => phase[u] = "expiring"
    /\ op[u].pc = "record" => phase[u] \in {"live", "expiring"}
    /\ (phase[u] \in {"new", "ended"} \/ (phase[u] = "expiring" /\ op[u].pc = "record")) =>
         inv[u].items = {} /\ inv[u].captures = {} /\ inv[u].contexts = {}
    /\ phase[u] \in {"new", "ended"} => inv[u].retains = 0
    /\ phase[u] = "new" => inv[u].by_ctx = {}
    /\ (op[u].pc = "free" /\ op[u].item.kind # "capture") => inv[u].captures = {}
<1>1. /\ Agree(s) /\ op \in [Sessions -> OpRec]
      /\ inv \in [Sessions -> InvRec] /\ phase \in [Sessions -> Phases] /\ inv[s].retains \in 0 .. MaxRetains
  BY DEF ListsInv, PhasesAgree, SessionsTyped, InvRec
<1>2. ASSUME NEW u \in Sessions \ {s}  PROVE Agree(u)'
  BY OthersStay DEF ListsInv, PhasesAgree
<1> SUFFICES Agree(s)'
  BY <1>2 DEF PhasesAgree
<1>3. CASE Bind(s)
  <2>1. phase'[s] = "live" /\ phase[s] = "new" /\ op' = op
    BY <1>3, <1>1 DEF Bind
  <2> QED  BY <2>1, <1>1
<1>4. CASE Expire(s)
  <2>1. phase'[s] = "expiring" /\ op' = op /\ op[s].pc = "idle"
    BY <1>4, <1>1 DEF Expire, Serving
  <2> QED  BY <2>1, <1>1
<1>5. CASE Unbind(s)
  <2>1. phase'[s] = "ended" /\ op' = op /\ op[s].pc = "idle" /\ inv' = inv /\ ~(inv[s].retains > 0)
        /\ inv[s].items = {} /\ inv[s].captures = {} /\ inv[s].contexts = {}
    BY <1>5, <1>1 DEF Unbind, ItemsReleased, Releasing, Owed
  <2> QED  BY <2>1, <1>1 DEF InventoryAssumption
<1>6. CASE Reset(s)
  <2>1. op'[s].pc = "record" /\ phase' = phase /\ phase[s] = "live" /\ inv' = inv
    BY <1>6, <1>1 DEF Reset, Serving
  <2> QED  BY <2>1, <1>1
<1>7. CASE Record(s)
  <2>1. op'[s] = Idle /\ phase' = phase /\ phase[s] \in {"live", "expiring"}
    BY <1>7, <1>1 DEF Record
  <2> QED  BY <2>1, <1>1 DEF Idle
<1>8. CASE (\E c \in Ctxs \union {NoCtx} : Select(s, c)) \/ (\E c \in bound.ctxs : CreateContext(s, c) \/ DestroyContext(s, c))
           \/ (\E h \in Handles : Free(s, h) \/ BeginCapture(s, h)) \/ (\E h, g \in Handles : EndCapture(s, h, g)) \/ Retain(s)
  <2>1. op' = op /\ op[s].pc = "idle" /\ phase[s] = "live" /\ phase' = phase
    BY <1>8 DEF Select, CreateContext, DestroyContext, Free, BeginCapture, EndCapture, Retain, Serving
  <2> QED  BY <2>1, <1>1
<1>9. CASE \E k \in Kinds : BeginMake(s, k)
  <2>1. op'[s].pc = "make" /\ phase[s] = "live" /\ phase' = phase
    BY <1>9, <1>1 DEF BeginMake, Serving
  <2> QED  BY <2>1, <1>1
<1>10. CASE MakeFails(s) \/ \E h \in Handles : Make(s, h)
  <2>1. op'[s] = Idle /\ op[s].pc = "make" /\ phase' = phase
    BY <1>10, <1>1 DEF Make, MakeFails
  <2> QED  BY <2>1, <1>1 DEF Idle
<1>11. CASE Release(s) \/ ReleaseRetain(s)
  <2>1. /\ op[s].pc = "idle" /\ DropReference(s) /\ phase[s] \in {"live", "expiring"} /\ phase' = phase
        /\ phase[s] = "expiring" => inv[s].items = {} /\ inv[s].captures = {} /\ inv[s].contexts = {}
    BY <1>11 DEF Release, ReleaseRetain, RetainsNext, Serving, ItemsReleased, Releasing, DropReference
  <2>2. inv'[s].items = inv[s].items /\ inv'[s].captures = inv[s].captures /\ inv'[s].contexts = inv[s].contexts
    <3> DEFINE iv == [inv[s] EXCEPT !.retains = OneLess(@)]
    <3>1. iv.items = inv[s].items /\ iv.captures = inv[s].captures /\ iv.contexts = inv[s].contexts
      BY <1>1 DEF InvRec
    <3>2. inv'[s] = iv
      BY <2>1, <1>1 DEF DropReference
    <3> QED  BY <3>1, <3>2
  <2>3. op'[s].pc \in {"idle", "record"}
    BY <2>1, <1>1 DEF DropReference
  <2> QED  BY <2>1, <2>2, <2>3
<1>12. ASSUME NEW e \in NextItems(s), Take(s, e)  PROVE Agree(s)'
  <2>1. op'[s] = [pc |-> "free", item |-> e] /\ phase' = phase /\ phase[s] = "expiring"
    BY <1>12, <1>1 DEF Take, Releasing
  <2>2. inv[s].captures # {} => e.kind = "capture"
    BY <1>1 DEF NextItems, InvRec, Captured
  <2>3. inv'[s] = Without(inv[s], e)
    BY <1>12, <1>1 DEF Take
  <2>4. Without(inv[s], e).captures \subseteq inv[s].captures
    BY <1>1 DEF Without, InvRec
  <2> QED  BY <2>1, <2>2, <2>3, <2>4
<1>13. CASE (\E e \in NextItems(s) : Skip(s, e)) \/ (\E c \in CtxAddrs : ReleaseContext(s, c)) \/ RetainsRefused(s)
  <2>1. op' = op /\ op[s].pc = "idle" /\ phase' = phase /\ phase[s] = "expiring"
    BY <1>13 DEF Skip, ReleaseContext, RetainsRefused, RetainsNext, ItemsReleased, Releasing
  <2> QED  BY <2>1, <1>1
<1>14. CASE FreeTaken(s) \/ \E g \in Handles : EndTaken(s, g)
  <2>1. op'[s] = Idle /\ op[s].pc = "free" /\ phase' = phase
    BY <1>14, <1>1 DEF FreeTaken, EndTaken, Unlock
  <2> QED  BY <2>1, <1>1 DEF Idle
<1> QED
  BY <1>3, <1>4, <1>5, <1>6, <1>7, <1>8, <1>9, <1>10, <1>11, <1>12, <1>13, <1>14 DEF Step, Call, Expiry

(* Every step leaves room for the generation to end where it must.         *)
LEMMA GenerationsStep ==
  ASSUME InventoryAssumption, ListsInv, NEW s \in Sessions, Step(s), UNCHANGED bound, SessionsTyped', Locks'
  PROVE  Generations'
<1> USE DEF lockVars, driverVars, Goto, Done
<1>1. /\ refs \in Nat /\ gen \in 1 .. MaxGen /\ bound.gens \in 1 .. MaxGen /\ MaxGen \in Nat
      /\ op \in [Sessions -> OpRec] /\ Generations
  BY DEF ListsInv, DriverTyped, SessionsTyped, InventoryAssumption
<1>2. CASE gen' = gen /\ refs' = refs /\ (op'[s].pc = "record" => op[s].pc = "record")
  BY <1>2, <1>1, OthersStay DEF Generations
<1>3. CASE Retain(s)
  <2>1. \A u \in Sessions : op[u].pc # "record"
    BY <1>3 DEF Retain, Unlocked, ListsInv, Locks, InventoryAssumption
  <2>2. op' = op /\ gen' = gen /\ refs' = refs + 1 /\ (refs = 0 => gen < bound.gens)
    BY <1>3 DEF Retain
  <2> QED  BY <1>1, <2>1, <2>2 DEF Generations
<1>4. CASE DropReference(s) /\ Unlocked
  <2>1. refs > 0
    BY <1>4 DEF DropReference
  <2>2. \A u \in Sessions : op[u].pc # "record"
    BY <1>4 DEF Unlocked, ListsInv, Locks, InventoryAssumption
  <2>3. refs' = refs - 1 /\ gen' = gen
    BY <1>4 DEF DropReference
  <2>4. refs # 1 => op' = op
    BY <1>4 DEF DropReference
  <2>5. CASE refs = 1
    BY <2>1, <2>3, <2>5, <1>1 DEF Generations
  <2>6. CASE refs # 1
    BY <2>1, <2>2, <2>3, <2>4, <2>6, <1>1 DEF Generations
  <2> QED  BY <2>5, <2>6
<1>5. CASE Reset(s)
  <2>1. \A u \in Sessions : op[u].pc # "record"
    BY <1>5 DEF Reset, Unlocked, ListsInv, Locks, InventoryAssumption
  <2>2. gen' = gen /\ refs' = refs /\ gen + 1 < bound.gens
    BY <1>5 DEF Reset
  <2> QED  BY <1>1, <2>1, <2>2 DEF Generations
<1>6. CASE Record(s)
  <2>1. /\ gen < bound.gens /\ (refs > 0 => gen + 1 < bound.gens)
        /\ gen' = gen + 1 /\ refs' = refs /\ op'[s] = Idle
    BY <1>6, <1>1 DEF Record, Generations
  <2>2. \A u \in Sessions \ {s} : op'[u].pc # "record"
    BY <1>6, OthersStay DEF Record, ListsInv, Locks
  <2>3. \A u \in Sessions : op'[u].pc # "record"
    BY <2>1, <2>2 DEF Idle
  <2>4. gen' <= bound.gens /\ (refs' > 0 => gen' < bound.gens)
    BY <2>1, <1>1
  <2> QED  BY <2>3, <2>4 DEF Generations
<1>7. CASE Bind(s) \/ Expire(s)
  BY <1>7, <1>2 DEF Bind, Expire
<1>8. CASE (\E c \in Ctxs \union {NoCtx} : Select(s, c)) \/ (\E c \in bound.ctxs : CreateContext(s, c) \/ DestroyContext(s, c))
           \/ (\E h \in Handles : Free(s, h) \/ BeginCapture(s, h)) \/ (\E h, g \in Handles : EndCapture(s, h, g))
  <2>1. op' = op /\ gen' = gen /\ refs' = refs
    BY <1>8 DEF Select, CreateContext, DestroyContext, Free, BeginCapture, EndCapture
  <2> QED  BY <2>1, <1>2
<1>9. CASE (\E k \in Kinds : BeginMake(s, k)) \/ MakeFails(s) \/ \E h \in Handles : Make(s, h)
  <2>1. op'[s].pc # "record" /\ gen' = gen /\ refs' = refs
    <3>1. ASSUME NEW k \in Kinds, BeginMake(s, k)
          PROVE  op'[s].pc # "record" /\ gen' = gen /\ refs' = refs
      <4>1. op'[s].pc = "make"
        BY <3>1, <1>1 DEF BeginMake
      <4> QED  BY <3>1, <4>1 DEF BeginMake
    <3>2. ASSUME MakeFails(s) \/ \E h \in Handles : Make(s, h)
          PROVE  op'[s].pc # "record" /\ gen' = gen /\ refs' = refs
      <4>1. op' = [op EXCEPT ![s] = Idle] /\ gen' = gen /\ refs' = refs
        BY <3>2 DEF Make, MakeFails
      <4> QED  BY <4>1, <1>1 DEF Idle
    <3> QED  BY <1>9, <3>1, <3>2
  <2> QED  BY <2>1, <1>2
<1>10. CASE (\E e \in NextItems(s) : Take(s, e)) \/ FreeTaken(s) \/ \E g \in Handles : EndTaken(s, g)
  <2>1. op'[s].pc # "record" /\ gen' = gen /\ refs' = refs
    <3>1. ASSUME NEW e \in NextItems(s), Take(s, e)
          PROVE  op'[s].pc # "record" /\ gen' = gen /\ refs' = refs
      BY <3>1, <1>1 DEF Take
    <3>2. ASSUME FreeTaken(s) \/ \E g \in Handles : EndTaken(s, g)
          PROVE  op'[s].pc # "record" /\ gen' = gen /\ refs' = refs
      BY <3>2, <1>1 DEF FreeTaken, EndTaken, Idle
    <3> QED  BY <1>10, <3>1, <3>2
  <2> QED  BY <2>1, <1>2
<1>11. CASE (\E e \in NextItems(s) : Skip(s, e)) \/ (\E c \in CtxAddrs : ReleaseContext(s, c))
            \/ RetainsRefused(s) \/ Unbind(s)
  <2>1. op' = op /\ gen' = gen /\ refs' = refs
    BY <1>11 DEF Skip, ReleaseContext, RetainsRefused, Unbind
  <2> QED  BY <2>1, <1>2
<1>12. CASE Release(s) \/ ReleaseRetain(s)
  BY <1>12, <1>4 DEF Release, ReleaseRetain, RetainsNext
<1> QED
  BY <1>3, <1>5, <1>6, <1>7, <1>8, <1>9, <1>12, <1>10, <1>11 DEF Step, Call, Expiry

-----------------------------------------------------------------------------
(* Each step keeps the count of the retains.                               *)

(* A step makes one more session live, at most.                            *)
LEMMA FewLive ==
  ASSUME ListsInv, NEW s \in Sessions, Step(s)
  PROVE  IsFiniteSet(LiveSessions')
<1>1. LiveSessions' \subseteq LiveSessions \union {s}
  BY OthersStay DEF LiveSessions
<1>2. IsFiniteSet(LiveSessions \union {s})
  BY FS_AddElement DEF ListsInv, Counted
<1> QED  BY <1>1, <1>2, FS_Subset

(* A step that leaves the session's retains and the references leaves the  *)
(* count, as long as it takes no retain of another's.                      *)
LEMMA CountStays ==
  ASSUME InventoryAssumption, ListsInv, NEW s \in Sessions, Step(s),
         inv'[s].retains = inv[s].retains, refs' = refs, overdrawn' = overdrawn
  PROVE  Counted'
<1>1. \A u \in Sessions : inv'[u].retains = inv[u].retains
  BY OthersStay
<1>2. Retained' = Retained
  BY <1>1 DEF Retained
<1> QED  BY <1>2, FewLive DEF ListsInv, Counted, RetainsAreCounted

(* One that gives back a reference gives back a retain, if the session has *)
(* one.                                                                    *)
LEMMA CountDrops ==
  ASSUME InventoryAssumption, ListsInv, NEW s \in Sessions, Step(s),
         DropReference(s), inv[s].retains > 0, overdrawn' = overdrawn
  PROVE  Counted'
<1> DEFINE n == inv[s].retains
<1>1. n \in 1 .. MaxRetains /\ inv[s] \in InvRec /\ inv \in [Sessions -> InvRec] /\ MaxRetains \in Nat
  BY DEF ListsInv, SessionsTyped, InvRec, InventoryAssumption
<1>2. inv'[s].retains = n - 1
  <2> DEFINE iv == [inv[s] EXCEPT !.retains = OneLess(@)]
  <2>1. inv' = [inv EXCEPT ![s] = iv]
    BY DEF DropReference
  <2>2. iv.retains = n - 1
    BY <1>1 DEF InvRec, OneLess
  <2> HIDE DEF iv
  <2> QED  BY <1>1, <2>1, <2>2
<1>3. \A u \in Sessions \ {s} : inv'[u].retains = inv[u].retains
  BY OthersStay
<1> HIDE DEF n
<1>4. Retained' = Retained \ {<<s, n>>} /\ <<s, n>> \in Retained
  <2>1. \A u \in Sessions, i \in 1 .. MaxRetains :
          i <= inv'[u].retains <=> (i <= inv[u].retains /\ <<u, i>> # <<s, n>>)
    <3>1. ASSUME NEW i \in 1 .. MaxRetains  PROVE i <= n - 1 <=> (i <= n /\ i # n)
      BY <1>1
    <3> QED  BY <1>2, <1>3, <3>1 DEF n
  <2> QED  BY <1>1, <2>1 DEF Retained, n
<1>5. refs' = refs - 1
  BY DEF DropReference
<1>6. IsFiniteSet(Retained') /\ Cardinality(Retained') = Cardinality(Retained) - 1
  BY <1>4, FS_RemoveElement DEF ListsInv, Counted
<1>7. refs \in Nat /\ overdrawn \in Nat /\ refs + overdrawn = Cardinality(Retained)
  BY DEF ListsInv, DriverTyped, Counted, RetainsAreCounted
<1>8. overdrawn' \in Nat /\ refs' + overdrawn' = Cardinality(Retained')
  BY <1>5, <1>6, <1>7
<1> QED  BY <1>6, <1>8, FewLive DEF Counted, RetainsAreCounted

(* If it has none, one more retain of another's is taken.                  *)
LEMMA CountOverdraws ==
  ASSUME InventoryAssumption, ListsInv, NEW s \in Sessions, Step(s),
         DropReference(s), inv[s].retains = 0, overdrawn' = overdrawn + 1
  PROVE  Counted'
<1>1. inv'[s].retains = 0
  <2> DEFINE iv == [inv[s] EXCEPT !.retains = OneLess(@)]
  <2>1. inv[s] \in InvRec /\ inv \in [Sessions -> InvRec]
    BY DEF ListsInv, SessionsTyped
  <2>2. inv' = [inv EXCEPT ![s] = iv]
    BY DEF DropReference
  <2>3. iv.retains = 0
    BY <2>1 DEF InvRec, OneLess
  <2> HIDE DEF iv
  <2> QED  BY <2>1, <2>2, <2>3
<1>2. \A u \in Sessions : inv'[u].retains = inv[u].retains
  BY <1>1, OthersStay
<1>3. Retained' = Retained
  BY <1>2 DEF Retained
<1>4. refs \in Nat /\ refs' = refs - 1
  BY DEF DropReference, ListsInv, DriverTyped
<1>5. overdrawn \in Nat /\ refs + overdrawn = Cardinality(Retained)
  BY DEF ListsInv, Counted, RetainsAreCounted
<1>6. overdrawn' \in Nat /\ refs' + overdrawn' = Cardinality(Retained)
  BY <1>4, <1>5
<1> QED  BY <1>3, <1>6, FewLive DEF ListsInv, Counted, RetainsAreCounted

(* One that gives up its retains leaves those that were taken fewer.       *)
LEMMA CountGivenUp ==
  ASSUME InventoryAssumption, ListsInv, NEW s \in Sessions, Step(s), RetainsRefused(s)
  PROVE  Counted'
<1> DEFINE n == inv[s].retains
<1> DEFINE own == {s} \X (1 .. n)
<1>1. n \in 0 .. MaxRetains /\ inv[s] \in InvRec /\ inv \in [Sessions -> InvRec] /\ MaxRetains \in Nat
  BY DEF ListsInv, SessionsTyped, InvRec, InventoryAssumption
<1>2. inv'[s].retains = 0
  <2> DEFINE iv == [inv[s] EXCEPT !.retains = 0]
  <2>1. inv' = [inv EXCEPT ![s] = iv]
    BY DEF RetainsRefused
  <2>2. iv.retains = 0
    BY <1>1 DEF InvRec
  <2> HIDE DEF iv
  <2> QED  BY <1>1, <2>1, <2>2
<1>3. \A u \in Sessions \ {s} : inv'[u].retains = inv[u].retains
  BY OthersStay
<1> HIDE DEF n
<1>4. Retained' = Retained \ own /\ own \subseteq Retained
  <2>1. \A u \in Sessions, i \in 1 .. MaxRetains :
          i <= inv'[u].retains <=> (i <= inv[u].retains /\ <<u, i>> \notin own)
    BY <1>1, <1>2, <1>3 DEF n
  <2>2. own \subseteq Retained
    BY <1>1 DEF Retained, n
  <2> QED  BY <2>1, <2>2 DEF Retained
<1>5. IsFiniteSet(own) /\ Cardinality(own) = n
  <2>1. IsFiniteSet({s}) /\ Cardinality({s}) = 1
    BY FS_Singleton
  <2>2. IsFiniteSet(1 .. n) /\ Cardinality(1 .. n) = n
    BY <1>1, FS_Interval
  <2> QED  BY <1>1, <2>1, <2>2, FS_Product
<1> HIDE DEF own
<1>6. IsFiniteSet(Retained') /\ Cardinality(Retained') = Cardinality(Retained) - n
  <2>1. Retained \cap own = own
    BY <1>4
  <2> QED  BY <1>4, <1>5, <2>1, FS_Difference DEF ListsInv, Counted
<1>7. refs = 0 /\ refs' = 0 /\ overdrawn' = overdrawn - n
  BY DEF RetainsRefused, n
<1>8. overdrawn \in Nat /\ overdrawn = Cardinality(Retained) /\ Cardinality(Retained') \in Nat
  BY <1>6, <1>7, FS_CardinalityType DEF ListsInv, Counted, RetainsAreCounted
<1>9. overdrawn' = Cardinality(Retained')
  BY <1>6, <1>7, <1>8
<1> QED  BY <1>6, <1>7, <1>8, <1>9, FewLive DEF ListsInv, Counted, RetainsAreCounted

(* One that takes a reference takes a retain.                              *)
LEMMA CountGrows ==
  ASSUME InventoryAssumption, ListsInv, NEW s \in Sessions, Step(s), Retain(s)
  PROVE  Counted'
<1> DEFINE n == inv[s].retains
<1>1. n + 1 \in 1 .. MaxRetains /\ n \in Nat /\ inv[s] \in InvRec /\ inv \in [Sessions -> InvRec] /\ MaxRetains \in Nat
  BY DEF ListsInv, SessionsTyped, InvRec, InventoryAssumption, Retain
<1>2. inv'[s].retains = n + 1
  <2> DEFINE iv == [inv[s] EXCEPT !.retains = @ + 1]
  <2>1. inv' = [inv EXCEPT ![s] = iv]
    BY DEF Retain
  <2>2. iv.retains = n + 1
    BY <1>1 DEF InvRec
  <2> HIDE DEF iv
  <2> QED  BY <1>1, <2>1, <2>2
<1>3. \A u \in Sessions \ {s} : inv'[u].retains = inv[u].retains
  BY OthersStay
<1> HIDE DEF n
<1>4. Retained' = Retained \union {<<s, n + 1>>} /\ <<s, n + 1>> \notin Retained
  <2>1. \A u \in Sessions, i \in 1 .. MaxRetains :
          i <= inv'[u].retains <=> (i <= inv[u].retains \/ <<u, i>> = <<s, n + 1>>)
    <3>1. ASSUME NEW i \in 1 .. MaxRetains  PROVE i <= n + 1 <=> (i <= n \/ i = n + 1)
      BY <1>1
    <3> QED  BY <1>2, <1>3, <3>1 DEF n
  <2> QED  BY <1>1, <2>1 DEF Retained, n
<1>5. refs' = refs + 1 /\ overdrawn' = overdrawn
  BY DEF Retain
<1>6. IsFiniteSet(Retained') /\ Cardinality(Retained') = Cardinality(Retained) + 1
  BY <1>4, FS_AddElement DEF ListsInv, Counted
<1>7. refs \in Nat /\ overdrawn \in Nat /\ refs + overdrawn = Cardinality(Retained)
  BY DEF ListsInv, DriverTyped, Counted, RetainsAreCounted
<1>8. overdrawn' \in Nat /\ refs' + overdrawn' = Cardinality(Retained')
  BY <1>5, <1>6, <1>7
<1> QED  BY <1>6, <1>8, FewLive DEF Counted, RetainsAreCounted

(* Every step keeps the count.                                             *)
LEMMA CountedStep ==
  ASSUME InventoryAssumption, ListsInv, NEW s \in Sessions, Step(s), SessionsTyped'
  PROVE  Counted'
<1> USE DEF driverVars
<1>1. inv[s] \in InvRec /\ inv \in [Sessions -> InvRec]
  BY DEF ListsInv, SessionsTyped
<1>2. CASE Bind(s) \/ Unbind(s)
  <2>1. inv' = inv /\ refs' = refs /\ overdrawn' = overdrawn
    BY <1>2 DEF Bind, Unbind
  <2> QED  BY <2>1, CountStays
<1>3. CASE (\E c \in Ctxs \union {NoCtx} : Select(s, c)) \/ (\E k \in Kinds : BeginMake(s, k)) \/ MakeFails(s) \/ Reset(s)
  <2>1. inv' = inv /\ refs' = refs /\ overdrawn' = overdrawn
    BY <1>3 DEF Select, BeginMake, MakeFails, Reset
  <2> QED  BY <2>1, CountStays
<1>4. ASSUME NEW h \in Handles, Make(s, h)  PROVE Counted'
  <2> DEFINE e == [op[s].item EXCEPT !.h = h]
  <2>1. e \in Listed
    <3>1. op[s] \in OpRec /\ OpFits(op[s])
      BY DEF ListsInv, SessionsTyped
    <3> QED  BY <1>4, <3>1 DEF Make, OpFits, OpRec, ItemRec, Listed
  <2>2. inv' = [inv EXCEPT ![s] = Note(inv[s], e)] /\ refs' = refs /\ overdrawn' = overdrawn
    BY <1>4 DEF Make
  <2> HIDE DEF e
  <2>3. Note(inv[s], e).retains = inv[s].retains
    BY <1>1, <2>1, NoteTyped
  <2> QED  BY <1>1, <2>2, <2>3, CountStays
<1>5. ASSUME NEW h \in Handles, Free(s, h)  PROVE Counted'
  <2>1. /\ Forget(inv[s], "bound", h) \in InvRec
        /\ Forget(inv[s], "bound", h).retains = inv[s].retains
        /\ Forget(inv[s], obj[h].kind, h).retains = inv[s].retains
    BY <1>1, ForgetTyped
  <2>2. ForgetCapture(Forget(inv[s], "bound", h), h).retains = inv[s].retains
    BY <2>1, ForgetCaptureTyped
  <2>3. inv'[s].retains = inv[s].retains /\ refs' = refs /\ overdrawn' = overdrawn
    BY <1>5, <1>1, <2>1, <2>2 DEF Free
  <2> QED  BY <2>3, CountStays
<1>6. ASSUME NEW h \in Handles, BeginCapture(s, h)  PROVE Counted'
  <2> DEFINE iv == [inv[s] EXCEPT !.captures = @ \union {Item("capture", h, StampOf(s, "bound", h))}]
  <2>1. inv' = [inv EXCEPT ![s] = iv] /\ refs' = refs /\ overdrawn' = overdrawn
    BY <1>6 DEF BeginCapture
  <2>2. iv.retains = inv[s].retains
    BY <1>1 DEF InvRec
  <2> HIDE DEF iv
  <2> QED  BY <1>1, <2>1, <2>2, CountStays
<1>7. ASSUME NEW h \in Handles, NEW g \in Handles, EndCapture(s, h, g)  PROVE Counted'
  <2> DEFINE e == Item("graph", g, StampOf(s, "bound", h))
  <2> DEFINE iv == Note(ForgetCapture(inv[s], h), e)
  <2>1. e \in Listed
    BY StampOfTyped, ItemTyped DEF ListsInv, Kinds
  <2>2. inv' = [inv EXCEPT ![s] = iv] /\ refs' = refs /\ overdrawn' = overdrawn
    BY <1>7 DEF EndCapture
  <2> HIDE DEF e
  <2>3. iv.retains = inv[s].retains
    BY <1>1, <2>1, ForgetCaptureTyped, NoteTyped
  <2> HIDE DEF iv
  <2> QED  BY <1>1, <2>2, <2>3, CountStays
<1>8. ASSUME NEW c \in bound.ctxs, CreateContext(s, c) \/ DestroyContext(s, c)  PROVE Counted'
  <2> DEFINE iv == [inv[s] EXCEPT !.contexts = @ \union {c}]
  <2>1. iv.retains = inv[s].retains /\ ForgetContext(inv[s], c).retains = inv[s].retains
    BY <1>1, ForgetContextTyped DEF InvRec
  <2>2. (inv' = [inv EXCEPT ![s] = iv] \/ inv' = [inv EXCEPT ![s] = ForgetContext(inv[s], c)]) /\ refs' = refs /\ overdrawn' = overdrawn
    BY <1>8 DEF CreateContext, DestroyContext
  <2> HIDE DEF iv
  <2> QED  BY <1>1, <2>1, <2>2, CountStays
<1>9. CASE Retain(s)
  BY <1>9, CountGrows
<1>10. CASE Release(s) \/ ReleaseRetain(s)
  <2>1. DropReference(s) /\ inv[s].retains \in Nat
    BY <1>10, <1>1 DEF Release, ReleaseRetain, InvRec
  <2>2. CASE inv[s].retains > 0
    <3>1. overdrawn' = overdrawn
      BY <1>10, <2>2 DEF Release, ReleaseRetain
    <3> QED  BY <2>1, <2>2, <3>1, CountDrops
  <2>3. CASE inv[s].retains = 0
    <3>1. overdrawn' = overdrawn + 1
      BY <1>10, <2>3 DEF Release, ReleaseRetain, RetainsNext, Owed
    <3> QED  BY <2>1, <2>3, <3>1, CountOverdraws
  <2> QED  BY <2>1, <2>2, <2>3
<1>11. CASE Record(s)
  <2>1. inv' = [inv EXCEPT ![s] = ForgetPrimary(inv[s], gen + 1)] /\ refs' = refs /\ overdrawn' = overdrawn
    BY <1>11 DEF Record
  <2>2. ForgetPrimary(inv[s], gen + 1).retains = inv[s].retains
    BY <1>1, ForgetPrimaryTyped
  <2> QED  BY <1>1, <2>1, <2>2, CountStays
<1>12. CASE Expire(s)
  <2> DEFINE iv == [inv[s] EXCEPT !.by_ctx = {}]
  <2>1. inv' = [inv EXCEPT ![s] = iv] /\ refs' = refs /\ overdrawn' = overdrawn
    BY <1>12 DEF Expire
  <2>2. iv.retains = inv[s].retains
    BY <1>1 DEF InvRec
  <2> HIDE DEF iv
  <2> QED  BY <1>1, <2>1, <2>2, CountStays
<1>13. ASSUME NEW e \in NextItems(s), Take(s, e) \/ Skip(s, e)  PROVE Counted'
  <2>1. inv' = [inv EXCEPT ![s] = Without(inv[s], e)] /\ refs' = refs /\ overdrawn' = overdrawn
    BY <1>13 DEF Take, Skip
  <2>2. Without(inv[s], e).retains = inv[s].retains
    BY <1>1 DEF Without, InvRec
  <2> QED  BY <1>1, <2>1, <2>2, CountStays
<1>14. ASSUME NEW g \in Handles, EndTaken(s, g)  PROVE Counted'
  <2> DEFINE iv == [inv[s] EXCEPT !.items = (@ \ Find(inv[s], "graph", g)) \union {Item("graph", g, op[s].item)}]
  <2>1. (inv' = inv \/ inv' = [inv EXCEPT ![s] = iv]) /\ refs' = refs /\ overdrawn' = overdrawn
    BY <1>14 DEF EndTaken
  <2>2. iv.retains = inv[s].retains
    BY <1>1 DEF InvRec
  <2> HIDE DEF iv
  <2> QED  BY <1>1, <2>1, <2>2, CountStays
<1>15. CASE FreeTaken(s)
  BY <1>15, CountStays DEF FreeTaken
<1>16. ASSUME NEW c \in CtxAddrs, ReleaseContext(s, c)  PROVE Counted'
  <2> DEFINE iv == [inv[s] EXCEPT !.contexts = @ \ {c}]
  <2>1. inv' = [inv EXCEPT ![s] = iv] /\ refs' = refs /\ overdrawn' = overdrawn
    BY <1>16 DEF ReleaseContext
  <2>2. iv.retains = inv[s].retains
    BY <1>1 DEF InvRec
  <2> HIDE DEF iv
  <2> QED  BY <1>1, <2>1, <2>2, CountStays
<1>17. CASE RetainsRefused(s)
  BY <1>17, CountGivenUp
<1> QED
  BY <1>2, <1>3, <1>4, <1>5, <1>6, <1>7, <1>8, <1>9, <1>10, <1>11, <1>12, <1>13, <1>14, <1>15, <1>16, <1>17
     DEF Step, Call, Expiry

-----------------------------------------------------------------------------
(* Each step keeps the lists keyed once, and their index exact.            *)

(* Every step keeps the index exact while a session is live.               *)
LEMMA IndexStep ==
  ASSUME InventoryAssumption, ListsInv, NEW s \in Sessions, Step(s), SessionsTyped', PhasesAgree'
  PROVE  KeysUnique' /\ IndexIsExact'
<1> USE DEF driverVars
<1>1. /\ inv[s] \in InvRec /\ inv \in [Sessions -> InvRec] /\ phase \in [Sessions -> Phases]
      /\ KeyedOnce(inv[s]) /\ (phase[s] = "live" => IndexedIn(inv[s]))
  BY DEF ListsInv, SessionsTyped, KeysUnique, IndexIsExact, IndexedIn, IndexOf
<1>2. ASSUME NEW u \in Sessions \ {s}
      PROVE  KeyedOnce(inv'[u]) /\ (phase'[u] = "live" => IndexedIn(inv'[u]))
  BY OthersStay DEF ListsInv, KeysUnique, IndexIsExact, IndexedIn, IndexOf
<1> SUFFICES KeyedOnce(inv'[s]) /\ (phase'[s] = "live" => IndexedIn(inv'[s]))
  <2>1. \A u \in Sessions : KeyedOnce(inv'[u]) /\ (phase'[u] = "live" => IndexedIn(inv'[u]))
    BY <1>2
  <2> QED  BY <2>1 DEF KeysUnique, KeyedOnce, IndexIsExact, IndexedIn, IndexOf
<1>3. CASE Bind(s)
  <2>1. inv' = inv /\ inv[s].items = {} /\ inv[s].by_ctx = {}
    BY <1>3 DEF Bind, ListsInv, PhasesAgree
  <2> QED  BY <2>1 DEF KeyedOnce, IndexedIn, IndexOf
<1>4. CASE UNCHANGED <<phase, inv>>
  BY <1>4, <1>1
<1>5. ASSUME NEW h \in Handles, Make(s, h)
      PROVE  KeyedOnce(inv'[s]) /\ (phase'[s] = "live" => IndexedIn(inv'[s]))
  <2> DEFINE e == [op[s].item EXCEPT !.h = h]
  <2>1. phase' = phase /\ phase[s] = "live"
    BY <1>5 DEF Make, ListsInv, PhasesAgree
  <2>2. e \in Listed
    <3>1. op[s] \in OpRec /\ OpFits(op[s])
      BY DEF ListsInv, SessionsTyped
    <3> QED  BY <1>5, <3>1 DEF Make, OpFits, OpRec, ItemRec, Listed
  <2>3. inv'[s] = Note(inv[s], e)
    BY <1>5, <1>1 DEF Make
  <2> HIDE DEF e
  <2>4. inv'[s].items = (inv[s].items \ Find(inv[s], e.kind, e.h)) \union {e}
    BY <1>1, <2>2, <2>3, NoteTyped
  <2>5. KeyedOnce(inv'[s])
    BY <1>1, <2>4, ReplacedKeyedOnce
  <2>6. IndexedIn(inv'[s])
    BY <1>1, <2>1, <2>2, <2>3, NoteIndexed
  <2> QED  BY <2>5, <2>6
<1>6. ASSUME NEW h \in Handles, Free(s, h)
      PROVE  KeyedOnce(inv'[s]) /\ (phase'[s] = "live" => IndexedIn(inv'[s]))
  <2> DEFINE k == obj[h].kind
  <2> DEFINE iv == Forget(inv[s], k, h)
  <2>1. /\ iv \in InvRec /\ iv.items = inv[s].items \ Find(inv[s], k, h)
        /\ iv.by_ctx = inv[s].by_ctx \ {Slot(o) : o \in Find(inv[s], k, h)}
    BY <1>1, ForgetTyped
  <2>2. inv'[s] = iv \/ inv'[s] = ForgetCapture(iv, h)
    BY <1>6, <1>1 DEF Free
  <2>3. phase[s] = "live" /\ Find(inv[s], k, h) \subseteq inv[s].items
    BY <1>6 DEF Free, Serving, Find
  <2> HIDE DEF iv, k
  <2>4. inv'[s].items = iv.items /\ inv'[s].by_ctx = iv.by_ctx
    BY <2>1, <2>2, ForgetCaptureTyped
  <2>5. KeyedOnce(inv'[s])
    BY <1>1, <2>1, <2>4, FewerKeyedOnce
  <2>6. IndexedIn(inv'[s])
    BY <1>1, <2>1, <2>3, <2>4, TakenIndexed
  <2> QED  BY <2>5, <2>6
<1>7. ASSUME NEW iv, inv'[s] = iv, iv.items = inv[s].items, iv.by_ctx = inv[s].by_ctx, phase' = phase
      PROVE  KeyedOnce(inv'[s]) /\ (phase'[s] = "live" => IndexedIn(inv'[s]))
  BY <1>7, <1>1 DEF KeyedOnce, IndexedIn, IndexOf
<1>8. ASSUME NEW h \in Handles, BeginCapture(s, h)
      PROVE  KeyedOnce(inv'[s]) /\ (phase'[s] = "live" => IndexedIn(inv'[s]))
  <2> DEFINE iv == [inv[s] EXCEPT !.captures = @ \union {Item("capture", h, StampOf(s, "bound", h))}]
  <2>1. inv'[s] = iv /\ phase' = phase
    BY <1>8, <1>1 DEF BeginCapture
  <2>2. iv.items = inv[s].items /\ iv.by_ctx = inv[s].by_ctx
    BY <1>1 DEF InvRec
  <2> HIDE DEF iv
  <2> QED  BY <2>1, <2>2, <1>7
<1>9. ASSUME NEW h \in Handles, NEW g \in Handles, EndCapture(s, h, g)
      PROVE  KeyedOnce(inv'[s]) /\ (phase'[s] = "live" => IndexedIn(inv'[s]))
  <2> DEFINE e == Item("graph", g, StampOf(s, "bound", h))
  <2> DEFINE iv == ForgetCapture(inv[s], h)
  <2>1. e \in Listed
    BY StampOfTyped, ItemTyped DEF ListsInv, Kinds
  <2>2. inv'[s] = Note(iv, e)
    BY <1>9, <1>1 DEF EndCapture
  <2>3. phase[s] = "live"
    BY <1>9 DEF EndCapture, Serving
  <2>4. iv \in InvRec /\ iv.items = inv[s].items /\ iv.by_ctx = inv[s].by_ctx
    BY <1>1, ForgetCaptureTyped
  <2> HIDE DEF e, iv
  <2>5. KeyedOnce(iv) /\ IndexedIn(iv)
    BY <1>1, <2>3, <2>4 DEF KeyedOnce, IndexedIn, IndexOf
  <2>6. inv'[s].items = (iv.items \ Find(iv, e.kind, e.h)) \union {e}
    BY <2>1, <2>2, <2>4, NoteTyped
  <2>7. KeyedOnce(inv'[s])
    BY <2>5, <2>6, ReplacedKeyedOnce
  <2>8. IndexedIn(inv'[s])
    BY <2>1, <2>2, <2>4, <2>5, NoteIndexed
  <2> QED  BY <2>7, <2>8
<1>10. ASSUME NEW c \in bound.ctxs, CreateContext(s, c)
       PROVE  KeyedOnce(inv'[s]) /\ (phase'[s] = "live" => IndexedIn(inv'[s]))
  <2> DEFINE iv == [inv[s] EXCEPT !.contexts = @ \union {c}]
  <2>1. inv'[s] = iv /\ phase' = phase
    BY <1>10, <1>1 DEF CreateContext
  <2>2. iv.items = inv[s].items /\ iv.by_ctx = inv[s].by_ctx
    BY <1>1 DEF InvRec
  <2> HIDE DEF iv
  <2> QED  BY <2>1, <2>2, <1>7
<1>11. ASSUME NEW c \in bound.ctxs, DestroyContext(s, c)
       PROVE  KeyedOnce(inv'[s]) /\ (phase'[s] = "live" => IndexedIn(inv'[s]))
  <2>1. inv'[s] = ForgetContext(inv[s], c) /\ phase[s] = "live" /\ c \in CtxAddrs
    BY <1>11, <1>1 DEF DestroyContext, Serving, InventoryAssumption, ListsInv, DriverTyped
  <2>2. inv'[s].items \subseteq inv[s].items
    <3>1. inv'[s].items = {e \in inv[s].items : <<c, e.kind, e.h>> \notin inv[s].by_ctx}
      BY <1>1, <2>1, ForgetContextTyped
    <3> QED  BY <3>1
  <2>3. KeyedOnce(inv'[s])
    BY <1>1, <2>2, FewerKeyedOnce
  <2>4. IndexedIn(inv'[s])
    BY <1>1, <2>1, SweptIndexed
  <2> QED  BY <2>3, <2>4
<1>12. CASE Retain(s)
  <2> DEFINE iv == [inv[s] EXCEPT !.retains = @ + 1]
  <2>1. inv'[s] = iv /\ phase' = phase
    BY <1>12, <1>1 DEF Retain
  <2>2. iv.items = inv[s].items /\ iv.by_ctx = inv[s].by_ctx
    BY <1>1 DEF InvRec
  <2> HIDE DEF iv
  <2> QED  BY <2>1, <2>2, <1>7
<1>13. CASE Release(s) \/ ReleaseRetain(s)
  <2> DEFINE iv == [inv[s] EXCEPT !.retains = OneLess(@)]
  <2>1. inv'[s] = iv /\ phase' = phase
    BY <1>13, <1>1 DEF Release, ReleaseRetain, DropReference
  <2>2. iv.items = inv[s].items /\ iv.by_ctx = inv[s].by_ctx
    BY <1>1 DEF InvRec
  <2> HIDE DEF iv
  <2> QED  BY <2>1, <2>2, <1>7
<1>14. CASE Record(s)
  <2> DEFINE old == OldOfPrimary(inv[s], gen + 1)
  <2>1. inv'[s] = ForgetPrimary(inv[s], gen + 1) /\ phase' = phase
    BY <1>14, <1>1 DEF Record
  <2>2. /\ inv'[s].items = inv[s].items \ old
        /\ inv'[s].by_ctx = inv[s].by_ctx \ {Slot(e) : e \in old}
    BY <1>1, <2>1, ForgetPrimaryTyped
  <2>3. old \in SUBSET inv[s].items
    BY DEF OldOfPrimary
  <2> HIDE DEF old
  <2>4. KeyedOnce(inv'[s])
    BY <1>1, <2>2, FewerKeyedOnce
  <2>5. phase[s] = "live" => IndexedIn(inv'[s])
    BY <1>1, <2>2, <2>3, TakenIndexed
  <2> QED  BY <2>1, <2>4, <2>5
<1>15. CASE Expire(s)
  <2> DEFINE iv == [inv[s] EXCEPT !.by_ctx = {}]
  <2>1. inv'[s] = iv /\ phase'[s] = "expiring"
    BY <1>15, <1>1 DEF Expire
  <2>2. iv.items = inv[s].items
    BY <1>1 DEF InvRec
  <2> HIDE DEF iv
  <2> QED  BY <1>1, <2>1, <2>2 DEF KeyedOnce
<1>16. ASSUME NEW e \in NextItems(s), Take(s, e) \/ Skip(s, e)
       PROVE  KeyedOnce(inv'[s]) /\ (phase'[s] = "live" => IndexedIn(inv'[s]))
  <2>1. inv'[s] = Without(inv[s], e) /\ phase' = phase /\ phase[s] = "expiring"
    BY <1>16, <1>1 DEF Take, Skip, Releasing
  <2>2. Without(inv[s], e).items \subseteq inv[s].items
    BY <1>1 DEF Without, InvRec
  <2> QED  BY <1>1, <2>1, <2>2, FewerKeyedOnce
<1>17. ASSUME NEW g \in Handles, EndTaken(s, g)
       PROVE  KeyedOnce(inv'[s]) /\ (phase'[s] = "live" => IndexedIn(inv'[s]))
  <2> DEFINE e == Item("graph", g, op[s].item)
  <2> DEFINE iv == [inv[s] EXCEPT !.items = (@ \ Find(inv[s], "graph", g)) \union {e}]
  <2>1. (inv'[s] = inv[s] \/ inv'[s] = iv) /\ phase' = phase /\ phase[s] = "expiring"
    BY <1>17, <1>1 DEF EndTaken, ListsInv, PhasesAgree
  <2>2. e.kind = "graph" /\ e.h = g
    BY DEF Item
  <2> HIDE DEF e
  <2>3. iv.items = (inv[s].items \ Find(inv[s], e.kind, e.h)) \union {e}
    BY <1>1, <2>2 DEF InvRec
  <2> HIDE DEF iv
  <2>4. KeyedOnce(iv)
    BY <1>1, <2>3, ReplacedKeyedOnce
  <2> QED  BY <1>1, <2>1, <2>4
<1>18. ASSUME NEW c \in CtxAddrs, ReleaseContext(s, c)
       PROVE  KeyedOnce(inv'[s]) /\ (phase'[s] = "live" => IndexedIn(inv'[s]))
  <2> DEFINE iv == [inv[s] EXCEPT !.contexts = @ \ {c}]
  <2>1. inv'[s] = iv /\ phase' = phase
    BY <1>18, <1>1 DEF ReleaseContext
  <2>2. iv.items = inv[s].items /\ iv.by_ctx = inv[s].by_ctx
    BY <1>1 DEF InvRec
  <2> HIDE DEF iv
  <2> QED  BY <2>1, <2>2, <1>7
<1>19. CASE Unbind(s)
  <2>1. inv' = inv /\ phase'[s] = "ended"
    BY <1>19, <1>1 DEF Unbind
  <2> QED  BY <1>1, <2>1
<1>21. CASE RetainsRefused(s)
  <2> DEFINE iv == [inv[s] EXCEPT !.retains = 0]
  <2>1. inv'[s] = iv /\ phase' = phase
    BY <1>21, <1>1 DEF RetainsRefused
  <2>2. iv.items = inv[s].items /\ iv.by_ctx = inv[s].by_ctx
    BY <1>1 DEF InvRec
  <2> HIDE DEF iv
  <2> QED  BY <2>1, <2>2, <1>7
<1>20. CASE (\E c \in Ctxs \union {NoCtx} : Select(s, c)) \/ (\E k \in Kinds : BeginMake(s, k)) \/ MakeFails(s) \/ Reset(s)
            \/ FreeTaken(s)
  <2>1. UNCHANGED <<phase, inv>>
    BY <1>20 DEF Select, BeginMake, MakeFails, Reset, FreeTaken
  <2> QED  BY <2>1, <1>4
<1> QED
  BY <1>3, <1>5, <1>6, <1>8, <1>9, <1>10, <1>11, <1>12, <1>13, <1>14, <1>15, <1>16, <1>17, <1>18, <1>19,
     <1>20, <1>21
     DEF Step, Call, Expiry

-----------------------------------------------------------------------------
(* The theorems.                                                           *)

(* A step is one session's, or none's.                                     *)
LEMMA ListsStep ==
  ASSUME InventoryAssumption, ListsInv, [Next]_vars
  PROVE  ListsInv'
<1>1. ASSUME NEW s \in Sessions, Step(s), UNCHANGED bound  PROVE ListsInv'
  <2>1. DriverTyped' /\ SessionsTyped'
    BY <1>1, DriverTypedStep, SessionsTypedStep
  <2>2. Locks' /\ PhasesAgree'
    BY <1>1, <2>1, LocksStep, PhasesStep
  <2>3. Generations' /\ Counted'
    BY <1>1, <2>1, <2>2, GenerationsStep, CountedStep
  <2>4. KeysUnique' /\ IndexIsExact'
    BY <1>1, <2>1, <2>2, IndexStep
  <2> QED  BY <2>1, <2>2, <2>3, <2>4 DEF ListsInv
<1>2. CASE UNCHANGED vars
  <2> USE <1>2 DEF vars, ListsInv
  <2>1. DriverTyped' /\ SessionsTyped'
    BY DEF DriverTyped, SessionsTyped
  <2>2. Locks' /\ PhasesAgree'
    BY DEF Locks, PhasesAgree, LiveSessions
  <2>3. Generations' /\ Counted'
    BY DEF Generations, Counted, LiveSessions, Retained, RetainsAreCounted
  <2>4. KeysUnique' /\ IndexIsExact'
    BY DEF KeysUnique, KeyedOnce, IndexIsExact
  <2> QED  BY <2>1, <2>2, <2>3, <2>4
<1> QED  BY <1>1, <1>2 DEF Next

(* Locks, lists, phases and counts are always in agreement.                *)
THEOREM ListsHold == Spec => []ListsInv
<1>1. Init => ListsInv
  BY ListsInit, InventoryAssumption
<1>2. ListsInv /\ [Next]_vars => ListsInv'
  BY ListsStep, InventoryAssumption
<1> QED  BY <1>1, <1>2, PTL DEF Spec

(* Every variable is always of its type.                                   *)
THEOREM InventoryTyped == Spec => []TypeOK
<1>1. ListsInv => TypeOK
  <2> SUFFICES ASSUME ListsInv  PROVE TypeOK
    OBVIOUS
  <2>1. DriverTyped /\ SessionsTyped /\ overdrawn \in Nat
    BY DEF ListsInv, Counted
  <2>2. InvRec \subseteq [items : SUBSET ItemRec, by_ctx : SUBSET (Ctxs \X Kinds \X Handles),
                          captures : SUBSET ItemRec, contexts : SUBSET CtxAddrs, retains : 0 .. MaxRetains]
    <3>1. Listed \subseteq ItemRec /\ Captured \subseteq ItemRec
      BY DEF Listed, Captured, ItemRec
    <3> QED  BY <3>1 DEF InvRec
  <2>3. inv \in [Sessions -> [items : SUBSET ItemRec, by_ctx : SUBSET (Ctxs \X Kinds \X Handles),
                              captures : SUBSET ItemRec, contexts : SUBSET CtxAddrs, retains : 0 .. MaxRetains]]
    BY <2>1, <2>2 DEF SessionsTyped
  <2> QED  BY <2>1, <2>3 DEF DriverTyped, SessionsTyped, ObjRec, OpRec, TypeOK
<1> QED  BY <1>1, ListsHold, PTL

(* Whatever retains, releases, resets and expiries come between, the       *)
(* driver's references to the primary context are the retains the sessions *)
(* count, short only by those that clients released without having them.   *)
(* (note_primary_retain with its clamp, forget_primary, the release loop.) *)
THEOREM RetainsAlwaysCounted == Spec => []RetainsAreCounted
<1>1. ListsInv => RetainsAreCounted
  BY DEF ListsInv, Counted
<1> QED  BY <1>1, ListsHold, PTL

(* The reverse index always names exactly the entries of the lists.        *)
(* (note, forget, forget_under, forget_primary.)                           *)
THEOREM IndexAlwaysExact == Spec => []IndexIsExact
<1>1. ListsInv => IndexIsExact
  BY DEF ListsInv
<1> QED  BY <1>1, ListsHold, PTL

-----------------------------------------------------------------------------
(* The lists and the driver.                                               *)

(* The primary context has been destroyed, and that is not recorded yet.   *)
Recording == \E s \in Sessions : op[s].pc = "record"

(* An object is in a context of its owner's, or in the primary context     *)
(* while that is active, or in none.                                       *)
InPlace(h) ==
  /\ obj[h].ctx \in CtxAddrs => ctx_owner[obj[h].ctx] = obj[h].owner
  /\ obj[h].ctx = Primary => refs > 0 /\ ~Recording
  /\ obj[h].ctx # NoCtx <=> obj[h].kind = "bound"
  /\ obj[h].owner = Nobody => obj[h].kind = "none"
  /\ h \in capturing => obj[h].kind = "bound"

ContextsOwned ==
  /\ \A s \in Sessions : \A c \in CtxAddrs : c \in inv[s].contexts <=> ctx_owner[c] = s
  /\ \A s \in Sessions : phase[s] \in {"new", "live"} => cur[s] \in {NoCtx, Primary} \union inv[s].contexts
  /\ \A h \in Handles : InPlace(h)

(* What an entry can say of where its thing was made.                      *)
PastGens == (NoDev .. gen) \union {EndedGen}
InContext(e) == e.ctx # NoCtx /\ (e.gen = NoDev <=> e.ctx # Primary)
StampFits(e) ==
  /\ e.gen \in PastGens
  /\ e.kind = "bound" => InContext(e) /\ e.gen # EndedGen
  /\ e.kind = "free" => e.gen = NoDev /\ e.ctx = NoCtx
  /\ (e.kind = "capture" /\ e.gen # EndedGen) => InContext(e)

Stamped ==
  \A s \in Sessions :
    /\ \A e \in inv[s].items \union inv[s].captures : StampFits(e)
    /\ op[s].pc \in {"make", "free"} => StampFits(op[s].item)
    /\ (op[s].pc = "make" /\ op[s].item.kind = "bound") => op[s].item.ctx = cur[s]

(* What entry e of session s was made for lives, and where e says.         *)
Lives(s, e) ==
  /\ obj[e.h].owner = s
  /\ obj[e.h].kind = IF e.kind = "capture" THEN "bound" ELSE e.kind
  /\ e.kind \in {"bound", "capture"} => obj[e.h].ctx = e.ctx

(* What is in the primary context lives for a generation of it; the rest   *)
(* for as long as it is on record.                                         *)
Dated(e)   == e.kind \in {"bound", "capture"} /\ e.gen # NoDev
Current(e) == Dated(e) => (e.gen = gen /\ ~Recording)
FreesTrue(s) ==
  op[s].pc = "free" =>
    /\ Lives(s, op[s].item)
    /\ Dated(op[s].item) => op[s].item.gen = gen
    /\ \A e \in inv[s].items : Key(e) # Key(op[s].item)
EntriesTrue ==
  \A s \in Sessions :
    /\ \A e \in inv[s].items \union inv[s].captures : Current(e) => Lives(s, e)
    /\ FreesTrue(s)

(* What is made and is not given up is on the lists, or being freed.       *)
Freeing(s, k, h) == op[s].pc = "free" /\ op[s].item.kind = k /\ op[s].item.h = h
OnItems(s, h) == \E e \in inv[s].items :
  /\ e.kind = obj[h].kind /\ e.h = h
  /\ e.kind = "bound" => e.ctx = obj[h].ctx /\ e.gen \in {NoDev, gen}
OnCaptures(s, h) == \E e \in inv[s].captures :
  e.h = h /\ e.ctx = obj[h].ctx /\ e.gen \in {NoDev, gen}
OnRecord(s, h) ==
  /\ OnItems(s, h) \/ Freeing(s, obj[h].kind, h)
  /\ h \in capturing => OnCaptures(s, h) \/ Freeing(s, "capture", h)
NothingForgotten ==
  \A s \in Sessions : \A h \in Handles :
    (obj[h].owner = s /\ ~obj[h].untracked) => OnRecord(s, h)

TruthInv == ListsInv /\ ContextsOwned /\ Stamped /\ EntriesTrue /\ NothingForgotten

-----------------------------------------------------------------------------
(* What each step does to what the invariant is about.                     *)

(* The parts of a session's state, typed.                                  *)
LEMMA PartsTyped ==
  ASSUME ListsInv, NEW s \in Sessions
  PROVE  /\ inv \in [Sessions -> InvRec] /\ inv[s] \in InvRec
         /\ op \in [Sessions -> OpRec] /\ op[s] \in OpRec /\ OpFits(op[s])
         /\ phase \in [Sessions -> Phases] /\ cur \in [Sessions -> Ctxs \union {NoCtx}]
         /\ obj \in [Handles -> ObjRec] /\ capturing \subseteq Handles
         /\ ctx_owner \in [CtxAddrs -> Owners] /\ refs \in Nat /\ gen \in Nat /\ gen # 0
         /\ inv[s].items \subseteq Listed /\ inv[s].captures \subseteq Captured
         /\ inv[s].contexts \subseteq CtxAddrs /\ KeyedOnce(inv[s])
  BY DEF ListsInv, SessionsTyped, DriverTyped, InvRec, KeysUnique

(* The lists of a session that a step leaves as they are.                  *)
ListsStay(s) == /\ inv'[s].items = inv[s].items /\ inv'[s].captures = inv[s].captures
                /\ inv'[s].contexts = inv[s].contexts
DriverStays  == UNCHANGED <<obj, capturing, ctx_owner>>

(* Steps that touch neither the lists nor what the driver holds.           *)
LEMMA BindEffect ==
  ASSUME ListsInv, NEW s \in Sessions, Bind(s)
  PROVE  /\ ListsStay(s) /\ DriverStays /\ UNCHANGED <<refs, gen, op, cur, primary_mu, live_mu>>
         /\ phase'[s] = "live" /\ phase[s] = "new"
  BY PartsTyped DEF Bind, ListsStay, DriverStays, driverVars, lockVars

(* A context is made current, or none.                                     *)
LEMMA SelectEffect ==
  ASSUME ListsInv, NEW s \in Sessions, NEW c, Select(s, c)
  PROVE  /\ ListsStay(s) /\ DriverStays /\ UNCHANGED <<refs, gen, op, phase, primary_mu, live_mu>>
         /\ op[s].pc = "idle" /\ cur'[s] = c /\ c \in {NoCtx, Primary} \union inv[s].contexts
  BY PartsTyped DEF Select, Serving, ListsStay, DriverStays, driverVars, lockVars

(* What is to be made is stamped with where it is made.                    *)
LEMMA BeginMakeEffect ==
  ASSUME ListsInv, NEW s \in Sessions, NEW k \in Kinds, BeginMake(s, k)
  PROVE  /\ ListsStay(s) /\ DriverStays /\ UNCHANGED <<refs, gen, phase, cur, primary_mu, live_mu>>
         /\ op[s].pc = "idle" /\ op'[s].pc = "make"
         /\ \/ k # "free" /\ cur[s] # NoCtx /\ op'[s].item = Item(k, NoHandle, StampNow(s))
            \/ k = "graph" /\ \E h \in Own(s, "graph") : op'[s].item = Item(k, NoHandle, StampOf(s, "graph", h))
            \/ k = "free" /\ op'[s].item = Item(k, NoHandle, NoStamp)
<1>1. ListsStay(s) /\ DriverStays /\ UNCHANGED <<refs, gen, phase, cur, primary_mu, live_mu>> /\ op[s].pc = "idle"
  BY DEF BeginMake, Serving, ListsStay, DriverStays, driverVars, lockVars
<1>2. CASE k \in Made \ {"free"} /\ cur[s] # NoCtx /\ Goto(s, "make", Item(k, NoHandle, StampNow(s)))
  <2>1. op'[s] = [pc |-> "make", item |-> Item(k, NoHandle, StampNow(s))]
    BY <1>2, PartsTyped DEF Goto
  <2> QED  BY <1>1, <1>2, <2>1
<1>3. ASSUME k = "graph", NEW h \in Own(s, "graph"), Goto(s, "make", Item(k, NoHandle, StampOf(s, "graph", h)))
      PROVE  op'[s].pc = "make" /\ op'[s].item = Item(k, NoHandle, StampOf(s, "graph", h))
  <2>1. op'[s] = [pc |-> "make", item |-> Item(k, NoHandle, StampOf(s, "graph", h))]
    BY <1>3, PartsTyped DEF Goto
  <2> QED  BY <2>1
<1>4. CASE k = "free" /\ k \in Made /\ Goto(s, "make", Item(k, NoHandle, NoStamp))
  <2>1. op'[s] = [pc |-> "make", item |-> Item(k, NoHandle, NoStamp)]
    BY <1>4, PartsTyped DEF Goto
  <2> QED  BY <1>1, <1>4, <2>1
<1> QED  BY <1>1, <1>2, <1>3, <1>4 DEF BeginMake

(* What could not be made leaves nothing.                                  *)
LEMMA MakeFailsEffect ==
  ASSUME ListsInv, NEW s \in Sessions, MakeFails(s)
  PROVE  /\ ListsStay(s) /\ DriverStays /\ UNCHANGED <<refs, gen, phase, cur, primary_mu, live_mu>>
         /\ op[s].pc = "make" /\ op'[s].pc = "idle"
<1>1. op'[s] = Idle
  BY PartsTyped DEF MakeFails, Done
<1> QED  BY <1>1 DEF MakeFails, Idle, ListsStay, DriverStays, driverVars, lockVars

(* Expiry begins with the lists as they are.                               *)
LEMMA ExpireEffect ==
  ASSUME ListsInv, NEW s \in Sessions, Expire(s)
  PROVE  /\ ListsStay(s) /\ DriverStays /\ UNCHANGED <<refs, gen, op, cur, primary_mu, live_mu>>
         /\ phase'[s] = "expiring" /\ phase[s] = "live" /\ op[s].pc = "idle"
<1> DEFINE iv == [inv[s] EXCEPT !.by_ctx = {}]
<1>1. iv.items = inv[s].items /\ iv.captures = inv[s].captures /\ iv.contexts = inv[s].contexts
  BY PartsTyped DEF InvRec
<1>2. inv'[s] = iv
  BY PartsTyped DEF Expire
<1> HIDE DEF iv
<1> QED  BY <1>1, <1>2, PartsTyped DEF Expire, Serving, ListsStay, DriverStays, driverVars, lockVars

(* And it ends with them.                                                  *)
LEMMA UnbindEffect ==
  ASSUME ListsInv, NEW s \in Sessions, Unbind(s)
  PROVE  /\ ListsStay(s) /\ DriverStays /\ UNCHANGED <<refs, gen, op, primary_mu, live_mu>>
         /\ phase'[s] = "ended" /\ phase[s] = "expiring" /\ op[s].pc = "idle"
  BY PartsTyped DEF Unbind, ItemsReleased, Releasing, ListsStay, DriverStays, driverVars, lockVars

(* The entry of what is made.                                              *)
MadeEntry(s, h) == [op[s].item EXCEPT !.h = h]
(* What is made is put where there was nothing, and noted there.           *)
LEMMA MakeEffect ==
  ASSUME ListsInv, NEW s \in Sessions, NEW h \in Handles, Make(s, h), NEW e, e = MadeEntry(s, h)
  PROVE  /\ e \in Listed /\ e.h = h /\ e.kind = op[s].item.kind
         /\ e.ctx = op[s].item.ctx /\ e.gen = op[s].item.gen
         /\ obj[h] = NoObj /\ op[s].pc = "make" /\ op'[s].pc = "idle" /\ phase[s] = "live"
         /\ \A g \in Handles \ {h} : obj'[g] = obj[g]
         /\ obj'[h].owner = s /\ obj'[h].kind = e.kind
         /\ obj'[h].ctx = IF e.kind = "bound" THEN cur[s] ELSE NoCtx
         /\ obj'[h].untracked <=> Misplaced(e.gen)
         /\ e.kind = "bound" => CtxAlive(cur[s])
         /\ inv'[s].items = (inv[s].items \ Find(inv[s], e.kind, e.h)) \union {e}
         /\ inv'[s].captures = inv[s].captures /\ inv'[s].contexts = inv[s].contexts
         /\ UNCHANGED <<capturing, ctx_owner, refs, gen, phase, cur, primary_mu, live_mu>>
<1>1. /\ e \in Listed /\ e.h = h /\ e.kind = op[s].item.kind
      /\ e.ctx = op[s].item.ctx /\ e.gen = op[s].item.gen
  BY PartsTyped DEF MadeEntry, Make, OpFits, OpRec, ItemRec, Listed
<1>2. inv'[s] = Note(inv[s], e)
  BY PartsTyped DEF Make, MadeEntry
<1>3. /\ inv'[s].items = (inv[s].items \ Find(inv[s], e.kind, e.h)) \union {e}
      /\ inv'[s].captures = inv[s].captures /\ inv'[s].contexts = inv[s].contexts
  BY <1>1, <1>2, PartsTyped, NoteTyped
<1>4. /\ obj[h] = NoObj /\ op[s].pc = "make" /\ (e.kind = "bound" => CtxAlive(cur[s]))
      /\ UNCHANGED <<capturing, ctx_owner, refs, gen, phase, cur, primary_mu, live_mu>>
  BY DEF Make, MadeEntry, lockVars
<1>5. op'[s].pc = "idle" /\ phase[s] = "live"
  <2>1. op'[s] = Idle
    BY PartsTyped DEF Make, Done
  <2> QED  BY <1>4, <2>1 DEF Idle, ListsInv, PhasesAgree
<1>6. PICK u \in BOOLEAN : /\ u <=> Misplaced(e.gen)
                           /\ obj' = [obj EXCEPT ![h] = [owner |-> s, kind |-> e.kind,
                                ctx |-> IF e.kind = "bound" THEN cur[s] ELSE NoCtx, untracked |-> u]]
  <2>1. Misplaced(e.gen) \in BOOLEAN
    BY DEF Misplaced
  <2>2. obj' = [obj EXCEPT ![h] = [owner |-> s, kind |-> e.kind,
                  ctx |-> IF e.kind = "bound" THEN cur[s] ELSE NoCtx, untracked |-> Misplaced(e.gen)]]
    BY DEF Make, MadeEntry
  <2> QED  BY <2>1, <2>2
<1>7. /\ obj'[h] = [owner |-> s, kind |-> e.kind, ctx |-> IF e.kind = "bound" THEN cur[s] ELSE NoCtx, untracked |-> u]
      /\ \A g \in Handles \ {h} : obj'[g] = obj[g]
  BY <1>6, PartsTyped
<1>8. /\ obj'[h].owner = s /\ obj'[h].kind = e.kind
      /\ obj'[h].ctx = IF e.kind = "bound" THEN cur[s] ELSE NoCtx
      /\ obj'[h].untracked <=> Misplaced(e.gen)
  BY <1>6, <1>7
<1> QED  BY <1>1, <1>3, <1>4, <1>5, <1>7, <1>8

(* What is freed is the session's own, and is forgotten.                   *)
LEMMA FreeEffect ==
  ASSUME ListsInv, NEW s \in Sessions, NEW h \in Handles, Free(s, h)
  PROVE  /\ op[s].pc = "idle" /\ phase[s] = "live" /\ obj[h].owner = s /\ obj'[h] = NoObj
         /\ \A g \in Handles \ {h} : obj'[g] = obj[g]
         /\ capturing' = capturing \ {h}
         /\ UNCHANGED <<ctx_owner, refs, gen, op, phase, cur, primary_mu, live_mu>>
<1>1. obj'[h] = NoObj /\ \A g \in Handles \ {h} : obj'[g] = obj[g]
  BY PartsTyped DEF Free
<1> QED  BY <1>1 DEF Free, Serving, lockVars

(* Its entry goes, and the capture of a stream.                            *)
LEMMA FreeLists ==
  ASSUME ListsInv, NEW s \in Sessions, NEW h \in Handles, Free(s, h)
  PROVE  /\ inv'[s].items = inv[s].items \ Find(inv[s], obj[h].kind, h)
         /\ inv'[s].captures = IF obj[h].kind = "bound" THEN {p \in inv[s].captures : p.h # h}
                               ELSE inv[s].captures
         /\ inv'[s].contexts = inv[s].contexts
<1> DEFINE k == obj[h].kind
<1> DEFINE iv == Forget(inv[s], k, h)
<1>1. /\ iv \in InvRec /\ iv.items = inv[s].items \ Find(inv[s], k, h)
      /\ iv.captures = inv[s].captures /\ iv.contexts = inv[s].contexts
  BY PartsTyped, ForgetTyped
<1>2. inv'[s] = IF k = "bound" THEN ForgetCapture(iv, h) ELSE iv
  BY PartsTyped DEF Free
<1> HIDE DEF iv
<1>3. /\ ForgetCapture(iv, h).items = iv.items
      /\ ForgetCapture(iv, h).captures = {p \in iv.captures : p.h # h}
      /\ ForgetCapture(iv, h).contexts = iv.contexts
  BY <1>1, ForgetCaptureTyped
<1>4. /\ inv'[s].items = inv[s].items \ Find(inv[s], k, h)
      /\ inv'[s].captures = IF k = "bound" THEN {p \in inv[s].captures : p.h # h} ELSE inv[s].captures
      /\ inv'[s].contexts = inv[s].contexts
  BY <1>1, <1>2, <1>3
<1> QED  BY <1>4

(* A capture that begins is put on record where its stream is.             *)
LEMMA BeginCaptureEffect ==
  ASSUME ListsInv, NEW s \in Sessions, NEW h \in Handles, BeginCapture(s, h)
  PROVE  /\ op[s].pc = "idle" /\ obj[h].owner = s /\ obj[h].kind = "bound"
         /\ capturing' = capturing \union {h}
         /\ inv'[s].items = inv[s].items
         /\ inv'[s].captures = inv[s].captures \union {Item("capture", h, StampOf(s, "bound", h))}
         /\ inv'[s].contexts = inv[s].contexts
         /\ UNCHANGED <<obj, ctx_owner, refs, gen, op, phase, cur, primary_mu, live_mu>>
<1> DEFINE p == Item("capture", h, StampOf(s, "bound", h))
<1> DEFINE iv == [inv[s] EXCEPT !.captures = @ \union {p}]
<1>1. inv'[s] = iv
  BY PartsTyped DEF BeginCapture
<1> HIDE DEF p
<1>2. iv.items = inv[s].items /\ iv.captures = inv[s].captures \union {p} /\ iv.contexts = inv[s].contexts
  BY PartsTyped DEF InvRec
<1> QED  BY <1>1, <1>2 DEF p, BeginCapture, Serving, Own, lockVars

(* A capture that ends leaves a graph, on record where the stream is.      *)
LEMMA EndCaptureEffect ==
  ASSUME InventoryAssumption, ListsInv, NEW s \in Sessions, NEW h \in Handles, NEW g \in Handles,
         EndCapture(s, h, g), NEW e, e = Item("graph", g, StampOf(s, "bound", h))
  PROVE  /\ e \in Listed /\ e.kind = "graph" /\ e.h = g /\ e.gen = StampOf(s, "bound", h).gen
         /\ op[s].pc = "idle" /\ phase[s] = "live" /\ obj[g] = NoObj /\ obj[h].owner = s /\ obj[h].kind = "bound"
         /\ obj'[g].owner = s /\ obj'[g].kind = "graph" /\ obj'[g].ctx = NoCtx
         /\ obj'[g].untracked <=> Misplaced(e.gen)
         /\ \A x \in Handles \ {g} : obj'[x] = obj[x]
         /\ capturing' = capturing \ {h}
         /\ inv'[s].items = (inv[s].items \ Find(inv[s], "graph", g)) \union {e}
         /\ inv'[s].captures = {p \in inv[s].captures : p.h # h}
         /\ inv'[s].contexts = inv[s].contexts
         /\ UNCHANGED <<ctx_owner, refs, gen, op, phase, cur, primary_mu, live_mu>>
<1> DEFINE st == StampOf(s, "bound", h)
<1> DEFINE iv == ForgetCapture(inv[s], h)
<1>1. e \in Listed /\ e.kind = "graph" /\ e.h = g /\ e.gen = st.gen
  BY StampOfTyped, ItemTyped DEF ListsInv, Kinds
<1>2. inv'[s] = Note(iv, e)
  BY PartsTyped DEF EndCapture
<1>3. /\ iv \in InvRec /\ iv.items = inv[s].items /\ iv.contexts = inv[s].contexts
      /\ iv.captures = {p \in inv[s].captures : p.h # h}
  BY PartsTyped, ForgetCaptureTyped
<1> HIDE DEF iv
<1>4. /\ inv'[s].items = (iv.items \ Find(iv, "graph", g)) \union {e}
      /\ inv'[s].captures = iv.captures /\ inv'[s].contexts = iv.contexts
  BY <1>1, <1>2, <1>3, NoteTyped
<1>5. Find(iv, "graph", g) = Find(inv[s], "graph", g)
  BY <1>3 DEF Find
<1>6. /\ op[s].pc = "idle" /\ phase[s] = "live" /\ obj[g] = NoObj /\ obj[h].owner = s /\ obj[h].kind = "bound"
      /\ capturing' = capturing \ {h}
      /\ UNCHANGED <<ctx_owner, refs, gen, op, phase, cur, primary_mu, live_mu>>
      /\ obj' = [obj EXCEPT ![g] = GraphFrom(s, g, st)]
  BY DEF EndCapture, Serving, Own, lockVars
<1>7. PICK u \in BOOLEAN : /\ u <=> Misplaced(st.gen)
                           /\ GraphFrom(s, g, st) = [owner |-> s, kind |-> "graph", ctx |-> NoCtx, untracked |-> u]
  <2>1. Misplaced(st.gen) \in BOOLEAN
    BY DEF Misplaced
  <2> QED  BY <2>1 DEF GraphFrom
<1> HIDE DEF st
<1>8. /\ obj'[g].owner = s /\ obj'[g].kind = "graph" /\ obj'[g].ctx = NoCtx
      /\ obj'[g].untracked <=> Misplaced(e.gen)
      /\ \A x \in Handles \ {g} : obj'[x] = obj[x]
  BY <1>1, <1>6, <1>7, PartsTyped
<1> QED  BY <1>1, <1>3, <1>4, <1>5, <1>6, <1>8 DEF st

(* A context is created where there was none.                              *)
LEMMA CreateEffect ==
  ASSUME ListsInv, NEW s \in Sessions, NEW c \in CtxAddrs, CreateContext(s, c)
  PROVE  /\ op[s].pc = "idle" /\ phase[s] = "live" /\ ctx_owner[c] = Nobody /\ ctx_owner'[c] = s
         /\ \A x \in CtxAddrs \ {c} : ctx_owner'[x] = ctx_owner[x]
         /\ inv'[s].items = inv[s].items /\ inv'[s].captures = inv[s].captures
         /\ inv'[s].contexts = inv[s].contexts \union {c} /\ cur'[s] = c
         /\ UNCHANGED <<obj, capturing, refs, gen, op, phase, primary_mu, live_mu>>
<1> DEFINE iv == [inv[s] EXCEPT !.contexts = @ \union {c}]
<1>1. inv'[s] = iv
  BY PartsTyped DEF CreateContext
<1>2. iv.items = inv[s].items /\ iv.captures = inv[s].captures /\ iv.contexts = inv[s].contexts \union {c}
  BY PartsTyped DEF InvRec
<1> HIDE DEF iv
<1> QED  BY <1>1, <1>2, PartsTyped DEF CreateContext, Serving, lockVars

(* What a step empties is gone; of the rest it may give up graphs that are *)
(* no longer on its lists.                                                 *)
Kept(h)    == obj'[h].owner = obj[h].owner /\ obj'[h].kind = obj[h].kind /\ obj'[h].ctx = obj[h].ctx
GivenUp(s, h) == obj[h].owner = s /\ Find(inv[s], "graph", h) # {} /\ ~\E e \in inv'[s].items : Key(e) = <<"graph", h>>

(* A context is destroyed, with what is in it and what was listed under it.*)
LEMMA DestroyEffect ==
  ASSUME ListsInv, NEW s \in Sessions, NEW c \in CtxAddrs, DestroyContext(s, c)
  PROVE  /\ op[s].pc = "idle" /\ phase[s] = "live" /\ ctx_owner[c] = s /\ ctx_owner'[c] = Nobody
         /\ \A x \in CtxAddrs \ {c} : ctx_owner'[x] = ctx_owner[x]
         /\ inv'[s].items = {e \in inv[s].items : <<c, e.kind, e.h>> \notin inv[s].by_ctx}
         /\ inv'[s].captures = {p \in inv[s].captures : p.ctx # c}
         /\ inv'[s].contexts = inv[s].contexts \ {c}
         /\ cur'[s] = IF cur[s] = c THEN NoCtx ELSE cur[s]
         /\ \A h \in Handles : obj[h].ctx = c => obj'[h] = NoObj
         /\ \A h \in Handles : obj[h].ctx # c =>
              Kept(h) /\ (obj'[h].untracked <=> (obj[h].untracked \/ GivenUp(s, h)))
         /\ capturing' = {h \in capturing : obj[h].ctx # c}
         /\ UNCHANGED <<refs, gen, op, phase, primary_mu, live_mu>>
<1>1. inv'[s] = ForgetContext(inv[s], c) /\ EmptiedAndDropped(s, c, inv'[s])
  BY PartsTyped DEF DestroyContext
<1>2. /\ inv'[s].items = {e \in inv[s].items : <<c, e.kind, e.h>> \notin inv[s].by_ctx}
      /\ inv'[s].captures = {p \in inv[s].captures : p.ctx # c}
      /\ inv'[s].contexts = inv[s].contexts \ {c}
  BY <1>1, PartsTyped, ForgetContextTyped
<1>3. ASSUME NEW h \in Handles, obj[h].ctx # c
      PROVE  Kept(h) /\ (obj'[h].untracked <=> (obj[h].untracked \/ GivenUp(s, h)))
  <2>1. (h \in DroppedGraphs(s, inv'[s]) /\ obj[h].owner = s) <=> GivenUp(s, h)
    BY DEF DroppedGraphs, GivenUp, Find
  <2>2. obj'[h] = IF GivenUp(s, h) THEN [obj[h] EXCEPT !.untracked = TRUE] ELSE obj[h]
    BY <1>1, <1>3, <2>1 DEF EmptiedAndDropped
  <2>3. obj[h] \in ObjRec
    BY PartsTyped
  <2>4. CASE GivenUp(s, h)
    <3>1. obj'[h] = [obj[h] EXCEPT !.untracked = TRUE]
      BY <2>2, <2>4
    <3>2. Kept(h) /\ obj'[h].untracked
      BY <2>3, <3>1 DEF ObjRec, Kept
    <3> QED  BY <2>4, <3>2
  <2>5. CASE ~GivenUp(s, h)
    BY <2>2, <2>5 DEF Kept
  <2> QED  BY <2>4, <2>5
<1>4. \A h \in Handles : obj[h].ctx = c => obj'[h] = NoObj
  BY <1>1 DEF EmptiedAndDropped
<1>5. /\ op[s].pc = "idle" /\ phase[s] = "live" /\ ctx_owner[c] = s /\ ctx_owner'[c] = Nobody
      /\ \A x \in CtxAddrs \ {c} : ctx_owner'[x] = ctx_owner[x]
      /\ cur'[s] = IF cur[s] = c THEN NoCtx ELSE cur[s]
      /\ UNCHANGED <<refs, gen, op, phase, primary_mu, live_mu>>
  BY PartsTyped DEF DestroyContext, Serving, lockVars
<1>6. capturing' = {h \in capturing : obj[h].ctx # c}
  BY <1>1 DEF EmptiedAndDropped
<1> QED  BY <1>2, <1>3, <1>4, <1>5, <1>6

(* A retain adds a reference.                                              *)
LEMMA RetainEffect ==
  ASSUME ListsInv, NEW s \in Sessions, Retain(s)
  PROVE  /\ ListsStay(s) /\ DriverStays /\ UNCHANGED <<gen, op, phase, cur, primary_mu, live_mu>>
         /\ op[s].pc = "idle" /\ primary_mu = Nobody /\ refs' = refs + 1
<1> DEFINE iv == [inv[s] EXCEPT !.retains = @ + 1]
<1>1. iv.items = inv[s].items /\ iv.captures = inv[s].captures /\ iv.contexts = inv[s].contexts
  BY PartsTyped DEF InvRec
<1>2. inv'[s] = iv
  BY PartsTyped DEF Retain
<1> HIDE DEF iv
<1> QED  BY <1>1, <1>2 DEF Retain, Serving, Unlocked, ListsStay, DriverStays, lockVars

(* What a context held is gone, and nothing else.                          *)
PrimaryEmptied ==
  /\ \A h \in Handles : obj'[h] = IF obj[h].ctx = Primary THEN NoObj ELSE obj[h]
  /\ capturing' = {h \in capturing : obj[h].ctx # Primary}

(* A release, at expiry or before, takes a reference; with the last, what  *)
(* is in the primary context goes, under the lock.                         *)
LEMMA DropEffect ==
  ASSUME InventoryAssumption, ListsInv, NEW s \in Sessions, Release(s) \/ ReleaseRetain(s)
  PROVE  /\ ListsStay(s) /\ UNCHANGED <<ctx_owner, gen, phase, cur, live_mu>>
         /\ op[s].pc = "idle" /\ primary_mu = Nobody /\ refs > 0 /\ refs' = refs - 1
         /\ refs = 1 => PrimaryEmptied /\ op'[s].pc = "record" /\ primary_mu' = s
         /\ refs # 1 => UNCHANGED <<obj, capturing, op, primary_mu>>
<1> DEFINE iv == [inv[s] EXCEPT !.retains = OneLess(@)]
<1>1. /\ op[s].pc = "idle" /\ primary_mu = Nobody /\ DropReference(s)
  BY DEF Release, ReleaseRetain, RetainsNext, Serving, ItemsReleased, Releasing, Unlocked
<1>2. iv.items = inv[s].items /\ iv.captures = inv[s].captures /\ iv.contexts = inv[s].contexts
  BY PartsTyped DEF InvRec
<1>3. inv'[s] = iv
  BY <1>1, PartsTyped DEF DropReference
<1> HIDE DEF iv
<1>4. ListsStay(s) /\ UNCHANGED <<ctx_owner, gen, phase, cur, live_mu>> /\ refs' = refs - 1
  BY <1>1, <1>2, <1>3 DEF DropReference, ListsStay
<1>5. refs > 0
  BY <1>1 DEF DropReference
<1>6. ASSUME refs = 1  PROVE PrimaryEmptied /\ op'[s].pc = "record" /\ primary_mu' = s
  <2>1. Emptied(Primary) /\ primary_mu' = s /\ op' = [op EXCEPT ![s] = [pc |-> "record", item |-> Idle.item]]
    BY <1>1, <1>6 DEF DropReference, Goto
  <2>2. op'[s].pc = "record"
    BY <2>1, PartsTyped
  <2> QED  BY <2>1, <2>2 DEF Emptied, PrimaryEmptied
<1>7. ASSUME refs # 1  PROVE UNCHANGED <<obj, capturing, op, primary_mu>>
  BY <1>1, <1>7 DEF DropReference
<1> QED  BY <1>1, <1>4, <1>5, <1>6, <1>7

(* One that the driver refuses leaves all but the count.                   *)
LEMMA RefusedEffect ==
  ASSUME ListsInv, NEW s \in Sessions, RetainsRefused(s)
  PROVE  /\ ListsStay(s) /\ DriverStays /\ UNCHANGED <<refs, gen, op, phase, cur, primary_mu, live_mu>>
         /\ op[s].pc = "idle"
<1> DEFINE iv == [inv[s] EXCEPT !.retains = 0]
<1>1. iv.items = inv[s].items /\ iv.captures = inv[s].captures /\ iv.contexts = inv[s].contexts
  BY PartsTyped DEF InvRec
<1>2. inv'[s] = iv
  BY PartsTyped DEF RetainsRefused
<1> HIDE DEF iv
<1> QED
  BY <1>1, <1>2 DEF RetainsRefused, RetainsNext, ItemsReleased, Releasing, ListsStay, DriverStays, lockVars

(* A reset does so whoever retains the context, with no other session live.*)
LEMMA ResetEffect ==
  ASSUME InventoryAssumption, ListsInv, NEW s \in Sessions, Reset(s)
  PROVE  /\ ListsStay(s) /\ UNCHANGED <<ctx_owner, refs, gen, phase, cur>>
         /\ op[s].pc = "idle" /\ primary_mu = Nobody /\ PrimaryEmptied /\ op'[s].pc = "record"
         /\ primary_mu' = s /\ live_mu' = s
         /\ \A u \in Sessions \ {s} : u \notin LiveSessions
<1>1. op'[s] = [pc |-> "record", item |-> Idle.item]
  BY PartsTyped DEF Reset, Goto
<1>2. \A u \in Sessions \ {s} : u \notin LiveSessions
  BY AloneLive DEF Reset, Serving, LiveSessions, ListsInv
<1> QED  BY <1>1, <1>2 DEF Reset, Serving, Unlocked, Emptied, PrimaryEmptied, ListsStay

(* What ends is recorded: the generation, and what the session made in it. *)
LEMMA RecordEffect ==
  ASSUME InventoryAssumption, ListsInv, NEW s \in Sessions, Record(s)
  PROVE  /\ op[s].pc = "record" /\ primary_mu = s /\ op'[s].pc = "idle" /\ gen' = gen + 1 /\ gen + 1 < EndedGen
         /\ inv'[s].items = inv[s].items \ OldOfPrimary(inv[s], gen + 1)
         /\ inv'[s].captures = {p \in inv[s].captures : p.ctx = Primary => p.gen = gen + 1}
         /\ inv'[s].contexts = inv[s].contexts
         /\ \A h \in Handles : Kept(h) /\ (obj'[h].untracked <=> (obj[h].untracked \/ GivenUp(s, h)))
         /\ UNCHANGED <<capturing, ctx_owner, refs, phase, cur>>
<1>1. inv'[s] = ForgetPrimary(inv[s], gen + 1)
  BY PartsTyped DEF Record
<1>2. /\ inv'[s].items = inv[s].items \ OldOfPrimary(inv[s], gen + 1)
      /\ inv'[s].captures = {p \in inv[s].captures : p.ctx = Primary => p.gen = gen + 1}
      /\ inv'[s].contexts = inv[s].contexts
  BY <1>1, PartsTyped, ForgetPrimaryTyped
<1>3. ASSUME NEW h \in Handles
      PROVE  Kept(h) /\ (obj'[h].untracked <=> (obj[h].untracked \/ GivenUp(s, h)))
  <2>1. (h \in DroppedGraphs(s, inv'[s]) /\ obj[h].owner = s) <=> GivenUp(s, h)
    BY DEF DroppedGraphs, GivenUp, Find
  <2>2. obj'[h] = IF GivenUp(s, h) THEN [obj[h] EXCEPT !.untracked = TRUE] ELSE obj[h]
    BY <1>1, <2>1 DEF Record
  <2>3. obj[h] \in ObjRec
    BY PartsTyped
  <2>4. CASE GivenUp(s, h)
    <3>1. obj'[h] = [obj[h] EXCEPT !.untracked = TRUE]
      BY <2>2, <2>4
    <3>2. Kept(h) /\ obj'[h].untracked
      BY <2>3, <3>1 DEF ObjRec, Kept
    <3> QED  BY <2>4, <3>2
  <2>5. CASE ~GivenUp(s, h)
    BY <2>2, <2>5 DEF Kept
  <2> QED  BY <2>4, <2>5
<1>4. op'[s].pc = "idle"
  <2>1. op'[s] = Idle
    BY PartsTyped DEF Record, Done
  <2> QED  BY <2>1 DEF Idle
<1>5. op[s].pc = "record" /\ gen' = gen + 1 /\ UNCHANGED <<capturing, ctx_owner, refs, phase, cur>>
  BY DEF Record
<1>6. primary_mu = s /\ gen < bound.gens
  BY <1>5 DEF ListsInv, Locks, Generations
<1>7. gen + 1 < EndedGen
  BY <1>6 DEF ListsInv, DriverTyped, InventoryAssumption, EndedGen
<1> QED  BY <1>2, <1>3, <1>4, <1>5, <1>6, <1>7

(* A session that is at nothing once a step is done with.                  *)
LEMMA BackToNothing ==
  ASSUME ListsInv, NEW s \in Sessions, Done(s)
  PROVE  op'[s].pc = "idle"
<1>1. op'[s] = Idle
  BY PartsTyped DEF Done
<1> QED  BY <1>1 DEF Idle

(* At expiry an entry is taken, to be freed.                               *)
LEMMA TakeEffect ==
  ASSUME InventoryAssumption, ListsInv, NEW s \in Sessions, NEW e \in NextItems(s), Take(s, e)
  PROVE  /\ op[s].pc = "idle" /\ phase[s] = "expiring" /\ op'[s].pc = "free" /\ op'[s].item = e
         /\ e \in inv[s].items \/ e \in inv[s].captures
         /\ e.gen # EndedGen /\ (e.gen # NoDev => (e.gen = gen /\ primary_mu = Nobody))
         /\ inv'[s].items = inv[s].items \ {e} /\ inv'[s].captures = inv[s].captures \ {e}
         /\ inv'[s].contexts = inv[s].contexts
         /\ DriverStays /\ UNCHANGED <<refs, gen, phase, cur, live_mu>>
<1>1. inv'[s] = Without(inv[s], e)
  BY PartsTyped DEF Take
<1>2. /\ Without(inv[s], e).items = inv[s].items \ {e} /\ Without(inv[s], e).captures = inv[s].captures \ {e}
      /\ Without(inv[s], e).contexts = inv[s].contexts
  BY PartsTyped DEF Without, InvRec
<1>3. op'[s] = [pc |-> "free", item |-> e]
  BY PartsTyped DEF Take, Goto
<1>4. e.gen # EndedGen /\ (e.gen # NoDev => (e.gen = gen /\ primary_mu = Nobody))
  BY DEF Take, StillCurrent, Unlocked
<1>5. e \in inv[s].items \/ e \in inv[s].captures
  BY DEF NextItems
<1> QED  BY <1>1, <1>2, <1>3, <1>4, <1>5 DEF Take, Releasing, DriverStays, driverVars

(* Or skipped, and a graph given up.                                       *)
LEMMA SkipEffect ==
  ASSUME InventoryAssumption, ListsInv, NEW s \in Sessions, NEW e \in NextItems(s), Skip(s, e)
  PROVE  /\ op[s].pc = "idle" /\ phase[s] = "expiring" /\ e.h \in Handles
         /\ e \in inv[s].items \/ e \in inv[s].captures
         /\ e.gen # NoDev /\ e.gen # gen
         /\ inv'[s].items = inv[s].items \ {e} /\ inv'[s].captures = inv[s].captures \ {e}
         /\ inv'[s].contexts = inv[s].contexts
         /\ \A h \in Handles : Kept(h) /\ (obj[h].untracked => obj'[h].untracked)
         /\ (obj[e.h].owner = s /\ obj[e.h].kind = e.kind /\ e.kind = "graph") => obj'[e.h].untracked
         /\ UNCHANGED <<capturing, ctx_owner, refs, gen, op, phase, cur, primary_mu, live_mu>>
<1>1. inv'[s] = Without(inv[s], e)
  BY PartsTyped DEF Skip
<1>2. /\ Without(inv[s], e).items = inv[s].items \ {e} /\ Without(inv[s], e).captures = inv[s].captures \ {e}
      /\ Without(inv[s], e).contexts = inv[s].contexts
  BY PartsTyped DEF Without, InvRec
<1>3. e \in inv[s].items \/ e \in inv[s].captures
  BY DEF NextItems
<1>4. e.h \in Handles
  BY <1>3, PartsTyped DEF Listed, Captured
<1>5. e.gen # NoDev /\ e.gen # gen
  <2>1. gen # EndedGen /\ NoDev # EndedGen
    BY DEF ListsInv, DriverTyped, InventoryAssumption, EndedGen, NoDev
  <2>2. ~StillCurrent(e.gen)
    BY DEF Skip
  <2> QED  BY <2>1, <2>2 DEF StillCurrent
<1> DEFINE graph == obj[e.h].owner = s /\ obj[e.h].kind = e.kind /\ e.kind = "graph"
<1> DEFINE o == [obj[e.h] EXCEPT !.untracked = TRUE]
<1>6. obj' = [obj EXCEPT ![e.h] = IF graph THEN o ELSE obj[e.h]]
  BY DEF Skip
<1>7. o.owner = obj[e.h].owner /\ o.kind = obj[e.h].kind /\ o.ctx = obj[e.h].ctx /\ o.untracked
  BY <1>4, PartsTyped DEF ObjRec
<1> HIDE DEF o
<1>8. \A h \in Handles : Kept(h) /\ (obj[h].untracked => obj'[h].untracked)
  BY <1>4, <1>6, <1>7, PartsTyped DEF Kept
<1>9. graph => obj'[e.h].untracked
  BY <1>4, <1>6, <1>7, PartsTyped
<1> QED  BY <1>1, <1>2, <1>3, <1>4, <1>5, <1>8, <1>9 DEF Skip, Releasing, lockVars

(* A capture that was taken is ended, if it is open.                       *)
LEMMA EndTakenEffect ==
  ASSUME InventoryAssumption, ListsInv, NEW s \in Sessions, NEW g \in Handles, EndTaken(s, g),
         NEW h, h = op[s].item.h, NEW e, e = Item("graph", g, op[s].item)
  PROVE  /\ op[s].pc = "free" /\ op[s].item.kind = "capture" /\ op'[s].pc = "idle" /\ phase[s] = "expiring"
         /\ obj[g] = NoObj /\ h \in Handles
         /\ e.kind = "graph" /\ e.h = g /\ e.gen = op[s].item.gen
         /\ h \notin capturing => UNCHANGED <<obj, capturing>> /\ inv'[s].items = inv[s].items
         /\ h \in capturing =>
              /\ obj'[g].owner = s /\ obj'[g].kind = "graph" /\ obj'[g].ctx = NoCtx
              /\ obj'[g].untracked <=> Misplaced(e.gen)
              /\ \A x \in Handles \ {g} : obj'[x] = obj[x]
              /\ capturing' = capturing \ {h}
              /\ inv'[s].items = (inv[s].items \ Find(inv[s], "graph", g)) \union {e}
         /\ inv'[s].captures = inv[s].captures /\ inv'[s].contexts = inv[s].contexts
         /\ UNCHANGED <<ctx_owner, refs, gen, phase, live_mu>>
<1>1. op[s].pc = "free" /\ op[s].item.kind = "capture" /\ obj[g] = NoObj /\ UNCHANGED <<ctx_owner, refs, gen, phase, live_mu>>
  BY DEF EndTaken
<1>2. op'[s].pc = "idle" /\ phase[s] = "expiring" /\ h \in Handles
  BY <1>1, BackToNothing, ItemHandle DEF EndTaken, ListsInv, PhasesAgree
<1>3. e.kind = "graph" /\ e.h = g /\ e.gen = op[s].item.gen
  BY DEF Item
<1>4. ASSUME h \notin capturing
      PROVE  /\ UNCHANGED <<obj, capturing>> /\ inv'[s].items = inv[s].items
             /\ inv'[s].captures = inv[s].captures /\ inv'[s].contexts = inv[s].contexts
  BY <1>4 DEF EndTaken
<1>5. ASSUME h \in capturing
      PROVE  /\ obj'[g].owner = s /\ obj'[g].kind = "graph" /\ obj'[g].ctx = NoCtx
             /\ obj'[g].untracked <=> Misplaced(e.gen)
             /\ \A x \in Handles \ {g} : obj'[x] = obj[x]
             /\ capturing' = capturing \ {h}
             /\ inv'[s].items = (inv[s].items \ Find(inv[s], "graph", g)) \union {e}
             /\ inv'[s].captures = inv[s].captures /\ inv'[s].contexts = inv[s].contexts
  <2>1. PICK u \in BOOLEAN : /\ u <=> Misplaced(e.gen)
                             /\ GraphFrom(s, g, op[s].item) = [owner |-> s, kind |-> "graph", ctx |-> NoCtx, untracked |-> u]
    <3>1. Misplaced(op[s].item.gen) \in BOOLEAN
      BY DEF Misplaced
    <3> QED  BY <1>3, <3>1 DEF GraphFrom
  <2>2. obj' = [obj EXCEPT ![g] = GraphFrom(s, g, op[s].item)] /\ capturing' = capturing \ {h}
    BY <1>5 DEF EndTaken
  <2>3. /\ obj'[g].owner = s /\ obj'[g].kind = "graph" /\ obj'[g].ctx = NoCtx
        /\ obj'[g].untracked <=> Misplaced(e.gen)
        /\ \A x \in Handles \ {g} : obj'[x] = obj[x]
    BY <2>1, <2>2, PartsTyped
  <2> DEFINE iv == [inv[s] EXCEPT !.items = (@ \ Find(inv[s], "graph", g)) \union {e}]
  <2>4. inv'[s] = iv
    BY <1>5, PartsTyped DEF EndTaken
  <2>5. /\ iv.items = (inv[s].items \ Find(inv[s], "graph", g)) \union {e}
        /\ iv.captures = inv[s].captures /\ iv.contexts = inv[s].contexts
    BY PartsTyped DEF InvRec
  <2> HIDE DEF iv
  <2> QED  BY <2>2, <2>3, <2>4, <2>5
<1> QED  BY <1>1, <1>2, <1>3, <1>4, <1>5

(* What was taken is freed, unless the thread may not free: then a capture *)
(* that nobody knows the place of is why.                                  *)
LEMMA FreeTakenEffect ==
  ASSUME InventoryAssumption, ListsInv, NEW s \in Sessions, FreeTaken(s), NEW h, h = op[s].item.h
  PROVE  /\ op[s].pc = "free" /\ op[s].item.kind # "capture" /\ op'[s].pc = "idle" /\ phase[s] = "expiring"
         /\ h \in Handles /\ inv[s].captures = {} /\ inv' = inv
         /\ \A x \in Handles \ {h} : obj'[x] = obj[x]
         /\ MayFree(s) => obj'[h] = NoObj /\ capturing' = capturing \ {h}
         /\ ~MayFree(s) => Kept(h) /\ capturing' = capturing
                           /\ (obj'[h].untracked <=> (obj[h].untracked \/ UnknownCapture(s)))
         /\ UNCHANGED <<ctx_owner, refs, gen, phase, live_mu>>
<1>1. op[s].pc = "free" /\ op[s].item.kind # "capture" /\ inv' = inv /\ UNCHANGED <<ctx_owner, refs, gen, phase, live_mu>>
  BY DEF FreeTaken
<1>2. op'[s].pc = "idle" /\ phase[s] = "expiring" /\ h \in Handles /\ inv[s].captures = {}
  BY <1>1, BackToNothing, ItemHandle DEF FreeTaken, ListsInv, PhasesAgree
<1>3. ASSUME MayFree(s)
      PROVE  obj'[h] = NoObj /\ capturing' = capturing \ {h} /\ \A x \in Handles \ {h} : obj'[x] = obj[x]
  BY <1>2, <1>3, PartsTyped DEF FreeTaken
<1>4. ASSUME ~MayFree(s)
      PROVE  /\ Kept(h) /\ capturing' = capturing
             /\ (obj'[h].untracked <=> (obj[h].untracked \/ UnknownCapture(s)))
             /\ \A x \in Handles \ {h} : obj'[x] = obj[x]
  <2>1. PICK b \in BOOLEAN : /\ b <=> (obj[h].untracked \/ UnknownCapture(s))
                             /\ obj' = [obj EXCEPT ![h].untracked = b]
    <3>1. (obj[h].untracked \/ UnknownCapture(s)) \in BOOLEAN
      OBVIOUS
    <3> QED  BY <1>4, <3>1 DEF FreeTaken
  <2> DEFINE o == [obj[h] EXCEPT !.untracked = b]
  <2>2. o.owner = obj[h].owner /\ o.kind = obj[h].kind /\ o.ctx = obj[h].ctx /\ o.untracked = b
    BY <1>2, PartsTyped DEF ObjRec
  <2>3. obj' = [obj EXCEPT ![h] = o]
    BY <2>1
  <2> HIDE DEF o
  <2>4. capturing' = capturing
    BY <1>4 DEF FreeTaken
  <2> QED  BY <1>2, <2>1, <2>2, <2>3, <2>4, PartsTyped DEF Kept
<1> QED  BY <1>1, <1>2, <1>3, <1>4

(* A context that is left is destroyed, with what is in it.                *)
LEMMA ReleaseContextEffect ==
  ASSUME ListsInv, NEW s \in Sessions, NEW c \in CtxAddrs, ReleaseContext(s, c)
  PROVE  /\ op[s].pc = "idle" /\ phase[s] = "expiring" /\ c \in inv[s].contexts /\ ctx_owner'[c] = Nobody
         /\ \A x \in CtxAddrs \ {c} : ctx_owner'[x] = ctx_owner[x]
         /\ inv[s].items = {} /\ inv[s].captures = {}
         /\ inv'[s].items = {} /\ inv'[s].captures = {} /\ inv'[s].contexts = inv[s].contexts \ {c}
         /\ \A h \in Handles : obj'[h] = IF obj[h].ctx = c THEN NoObj ELSE obj[h]
         /\ capturing' = {h \in capturing : obj[h].ctx # c}
         /\ UNCHANGED <<refs, gen, op, phase, primary_mu, live_mu>>
<1> DEFINE iv == [inv[s] EXCEPT !.contexts = @ \ {c}]
<1>1. inv'[s] = iv
  BY PartsTyped DEF ReleaseContext
<1>2. iv.items = inv[s].items /\ iv.captures = inv[s].captures /\ iv.contexts = inv[s].contexts \ {c}
  BY PartsTyped DEF InvRec
<1> HIDE DEF iv
<1> QED  BY <1>1, <1>2, PartsTyped DEF ReleaseContext, ItemsReleased, Releasing, Emptied, lockVars

-----------------------------------------------------------------------------
(* Each step keeps contexts and objects their owners'.                     *)

(* Nothing is recorded, or no longer, but by the thread that steps.        *)
LEMMA RecordingStays ==
  ASSUME ListsInv, NEW s \in Sessions, Step(s), op'[s].pc = "record" <=> op[s].pc = "record"
  PROVE  Recording' <=> Recording
  BY OthersStay DEF Recording

(* While one thread may take the lock, none is recording.                  *)
LEMMA NoneRecording ==
  ASSUME InventoryAssumption, ListsInv, primary_mu = Nobody
  PROVE  ~Recording
  BY DEF ListsInv, Locks, Recording, InventoryAssumption

(* The contexts: listed by the session that owns them, and by no other.    *)
LEMMA ContextsStep ==
  ASSUME InventoryAssumption, ListsInv, ContextsOwned, NEW s \in Sessions, Step(s),
         \/ UNCHANGED ctx_owner /\ inv'[s].contexts = inv[s].contexts
         \/ \E c \in CtxAddrs : /\ ctx_owner[c] = Nobody /\ ctx_owner'[c] = s
                                /\ inv'[s].contexts = inv[s].contexts \union {c}
                                /\ \A x \in CtxAddrs \ {c} : ctx_owner'[x] = ctx_owner[x]
         \/ \E c \in CtxAddrs : /\ ctx_owner[c] = s /\ ctx_owner'[c] = Nobody
                                /\ inv'[s].contexts = inv[s].contexts \ {c}
                                /\ \A x \in CtxAddrs \ {c} : ctx_owner'[x] = ctx_owner[x],
         phase'[s] \in {"new", "live"} => cur'[s] \in {NoCtx, Primary} \union inv'[s].contexts,
         \A h \in Handles : InPlace(h)'
  PROVE  ContextsOwned'
<1>1. \A u \in Sessions : \A c \in CtxAddrs : c \in inv'[u].contexts <=> ctx_owner'[c] = u
  <2>1. \A u \in Sessions \ {s} : inv'[u].contexts = inv[u].contexts
    BY OthersStay
  <2> QED  BY <2>1 DEF ContextsOwned, InventoryAssumption
<1>2. \A u \in Sessions : phase'[u] \in {"new", "live"} => cur'[u] \in {NoCtx, Primary} \union inv'[u].contexts
  BY OthersStay DEF ContextsOwned
<1> QED  BY <1>1, <1>2 DEF ContextsOwned

(* Every step keeps them so.                                               *)
LEMMA OwnedStep ==
  ASSUME InventoryAssumption, ListsInv, ContextsOwned, Stamped, EntriesTrue,
         NEW s \in Sessions, Step(s), UNCHANGED bound
  PROVE  ContextsOwned'
<1>1. \A h \in Handles : InPlace(h)
  BY DEF ContextsOwned
<1>2. phase[s] \in {"new", "live"} => cur[s] \in {NoCtx, Primary} \union inv[s].contexts
  BY DEF ContextsOwned
<1>3. ASSUME ListsStay(s), DriverStays, refs' = refs, op'[s].pc = "record" <=> op[s].pc = "record",
             phase'[s] \in {"new", "live"} => cur'[s] \in {NoCtx, Primary} \union inv[s].contexts
      PROVE  ContextsOwned'
  <2>1. Recording' <=> Recording
    BY <1>3, RecordingStays
  <2>2. \A h \in Handles : InPlace(h)'
    BY <1>1, <1>3, <2>1 DEF InPlace, DriverStays
  <2> QED  BY <1>3, <2>2, ContextsStep DEF ListsStay, DriverStays
<1>4. CASE Bind(s)
  BY <1>4, <1>2, <1>3, BindEffect
<1>5. ASSUME NEW c \in Ctxs \union {NoCtx}, Select(s, c)  PROVE ContextsOwned'
  BY <1>5, <1>3, SelectEffect
<1>6. ASSUME NEW k \in Kinds, BeginMake(s, k)  PROVE ContextsOwned'
  BY <1>6, <1>2, <1>3, BeginMakeEffect
<1>7. CASE MakeFails(s)
  BY <1>7, <1>2, <1>3, MakeFailsEffect
<1>8. CASE Expire(s)
  BY <1>8, <1>2, <1>3, ExpireEffect
<1>9. CASE Unbind(s)
  BY <1>9, <1>2, <1>3, UnbindEffect
<1>10. ASSUME NEW h \in Handles, Make(s, h)  PROVE ContextsOwned'
  <2> DEFINE e == MadeEntry(s, h)
  <2>1. /\ obj[h] = NoObj /\ op[s].pc = "make" /\ op'[s].pc = "idle" /\ phase[s] = "live"
        /\ \A g \in Handles \ {h} : obj'[g] = obj[g]
        /\ obj'[h].owner = s /\ obj'[h].kind = e.kind
        /\ obj'[h].ctx = IF e.kind = "bound" THEN cur[s] ELSE NoCtx
        /\ e.kind = "bound" => CtxAlive(cur[s])
        /\ inv'[s].contexts = inv[s].contexts
        /\ UNCHANGED <<capturing, ctx_owner, refs, phase, cur>>
    BY <1>10, MakeEffect
  <2> HIDE DEF e
  <2>2. Recording' <=> Recording
    BY <2>1, RecordingStays
  <2>3. ~(h \in capturing)
    BY <1>1, <2>1 DEF InPlace, NoObj
  <2>4. e.kind = "bound" /\ cur[s] = Primary => refs > 0 /\ ~Recording
    <3>1. ASSUME e.kind = "bound", cur[s] = Primary  PROVE refs > 0
      BY <2>1, <3>1 DEF CtxAlive
    <3>2. ASSUME refs > 0, NEW u \in Sessions, op[u].pc = "record"  PROVE FALSE
      <4>1. live_mu = u
        BY <3>2 DEF ListsInv, Locks, DriverTyped
      <4>2. u # s
        BY <2>1, <3>2
      <4> QED  BY <2>1, <4>1, <4>2 DEF ListsInv, Locks, LiveSessions
    <3> QED  BY <3>1, <3>2 DEF Recording
  <2>5. InPlace(h)'
    <3>1. e.kind = "bound" => cur[s] # NoCtx
      BY <2>1 DEF CtxAlive, InventoryAssumption
    <3>2. cur[s] \in CtxAddrs => ctx_owner[cur[s]] = s
      BY <1>2, <2>1 DEF ContextsOwned, InventoryAssumption
    <3>3. CASE e.kind = "bound"
      <4>1. obj'[h].ctx = cur[s] /\ obj'[h].kind = "bound" /\ obj'[h].owner = s
        BY <2>1, <3>3
      <4> QED  BY <2>1, <2>2, <2>3, <2>4, <3>1, <3>2, <3>3, <4>1 DEF InPlace
    <3>4. CASE e.kind # "bound"
      <4>1. obj'[h].ctx = NoCtx /\ obj'[h].kind # "bound"
        BY <2>1, <3>4
      <4> QED  BY <2>1, <2>3, <4>1 DEF InPlace, InventoryAssumption
    <3> QED  BY <3>3, <3>4
  <2>6. \A g \in Handles \ {h} : InPlace(g)'
    BY <1>1, <2>1, <2>2 DEF InPlace
  <2> QED  BY <1>2, <2>1, <2>5, <2>6, ContextsStep
<1>11. ASSUME NEW h \in Handles, Free(s, h)  PROVE ContextsOwned'
  <2>1. /\ obj'[h] = NoObj /\ capturing' = capturing \ {h} /\ inv'[s].contexts = inv[s].contexts
        /\ \A g \in Handles \ {h} : obj'[g] = obj[g]
        /\ UNCHANGED <<ctx_owner, refs, gen, op, phase, cur, primary_mu, live_mu>>
    <3>1. /\ obj'[h] = NoObj /\ capturing' = capturing \ {h}
          /\ \A g \in Handles \ {h} : obj'[g] = obj[g]
          /\ UNCHANGED <<ctx_owner, refs, gen, op, phase, cur, primary_mu, live_mu>>
      BY <1>11, FreeEffect
    <3>2. inv'[s].contexts = inv[s].contexts
      BY <1>11, FreeLists
    <3> QED  BY <3>1, <3>2
  <2>2. Recording' <=> Recording
    BY <2>1, RecordingStays
  <2>3. \A g \in Handles \ {h} : InPlace(g)'
    BY <1>1, <2>1, <2>2 DEF InPlace
  <2>4. InPlace(h)'
    BY <2>1 DEF InPlace, NoObj, InventoryAssumption
  <2> QED  BY <1>2, <2>1, <2>3, <2>4, ContextsStep
<1>12. ASSUME NEW h \in Handles, BeginCapture(s, h)  PROVE ContextsOwned'
  <2>1. /\ obj[h].kind = "bound" /\ capturing' = capturing \union {h} /\ inv'[s].contexts = inv[s].contexts
        /\ UNCHANGED <<obj, ctx_owner, refs, op, phase, cur>>
    BY <1>12, BeginCaptureEffect
  <2>2. Recording' <=> Recording
    BY <2>1, RecordingStays
  <2>3. \A g \in Handles : InPlace(g)'
    BY <1>1, <2>1, <2>2 DEF InPlace
  <2> QED  BY <1>2, <2>1, <2>3, ContextsStep
<1>13. ASSUME NEW h \in Handles, NEW g \in Handles, EndCapture(s, h, g)  PROVE ContextsOwned'
  <2>1. /\ obj[g] = NoObj /\ obj'[g].owner = s /\ obj'[g].kind = "graph" /\ obj'[g].ctx = NoCtx
        /\ \A x \in Handles \ {g} : obj'[x] = obj[x]
        /\ capturing' = capturing \ {h} /\ inv'[s].contexts = inv[s].contexts
        /\ UNCHANGED <<ctx_owner, refs, op, phase, cur>>
    BY <1>13, EndCaptureEffect
  <2>2. Recording' <=> Recording
    BY <2>1, RecordingStays
  <2>3. \A x \in Handles \ {g} : InPlace(x)'
    BY <1>1, <2>1, <2>2 DEF InPlace
  <2>4. g \notin capturing
    BY <1>1, <2>1 DEF InPlace, NoObj
  <2>5. InPlace(g)'
    BY <2>1, <2>4 DEF InPlace, InventoryAssumption
  <2> QED  BY <1>2, <2>1, <2>3, <2>5, ContextsStep
<1>14. ASSUME NEW c \in CtxAddrs, CreateContext(s, c)  PROVE ContextsOwned'
  <2>1. /\ ctx_owner[c] = Nobody /\ ctx_owner'[c] = s /\ \A x \in CtxAddrs \ {c} : ctx_owner'[x] = ctx_owner[x]
        /\ inv'[s].contexts = inv[s].contexts \union {c} /\ cur'[s] = c
        /\ UNCHANGED <<obj, capturing, refs, op>>
    BY <1>14, CreateEffect
  <2>2. Recording' <=> Recording
    BY <2>1, RecordingStays
  <2>3. ASSUME NEW h \in Handles  PROVE InPlace(h)'
    BY <1>1, <2>1, <2>2 DEF InPlace
  <2> QED  BY <2>1, <2>3, ContextsStep
<1>15. ASSUME NEW c \in CtxAddrs, DestroyContext(s, c)  PROVE ContextsOwned'
  <2>1. /\ op[s].pc = "idle" /\ phase[s] = "live" /\ ctx_owner[c] = s /\ ctx_owner'[c] = Nobody
        /\ \A x \in CtxAddrs \ {c} : ctx_owner'[x] = ctx_owner[x]
        /\ inv'[s].contexts = inv[s].contexts \ {c}
        /\ cur'[s] = IF cur[s] = c THEN NoCtx ELSE cur[s]
        /\ \A h \in Handles : obj[h].ctx = c => obj'[h] = NoObj
        /\ \A h \in Handles : obj[h].ctx # c => Kept(h)
        /\ capturing' = {h \in capturing : obj[h].ctx # c}
        /\ UNCHANGED <<refs, gen, op, phase, primary_mu, live_mu>>
    BY <1>15, DestroyEffect
  <2>2. Recording' <=> Recording
    BY <2>1, RecordingStays
  <2>3. ASSUME NEW h \in Handles  PROVE InPlace(h)'
    <3>1. CASE obj[h].ctx = c
      <4>1. obj'[h] = NoObj /\ h \notin capturing'
        BY <2>1, <3>1
      <4> QED  BY <4>1 DEF InPlace, NoObj, InventoryAssumption
    <3>2. CASE obj[h].ctx # c
      <4>1. Kept(h) /\ (h \in capturing' => h \in capturing)
        BY <2>1, <3>2
      <4> QED  BY <1>1, <2>1, <2>2, <3>2, <4>1 DEF InPlace, Kept
    <3> QED  BY <3>1, <3>2
  <2>4. cur'[s] \in {NoCtx, Primary} \union inv'[s].contexts
    BY <1>2, <2>1
  <2> QED  BY <2>1, <2>3, <2>4, ContextsStep
<1>16. CASE Retain(s)
  <2>1. /\ ListsStay(s) /\ DriverStays /\ UNCHANGED <<gen, op, phase, cur, primary_mu, live_mu>>
        /\ op[s].pc = "idle" /\ primary_mu = Nobody /\ refs' = refs + 1
    BY <1>16, RetainEffect
  <2>2. Recording' <=> Recording
    BY <2>1, RecordingStays
  <2>3. refs' > 0
    BY <2>1 DEF ListsInv, DriverTyped
  <2>4. \A h \in Handles : InPlace(h)'
    BY <1>1, <2>1, <2>2, <2>3 DEF InPlace, DriverStays
  <2> QED  BY <1>2, <2>1, <2>4, ContextsStep DEF ListsStay, DriverStays
<1>17. CASE Release(s) \/ ReleaseRetain(s)
  <2>1. /\ ListsStay(s) /\ UNCHANGED <<ctx_owner, gen, phase, cur, live_mu>>
        /\ op[s].pc = "idle" /\ primary_mu = Nobody /\ refs > 0 /\ refs' = refs - 1
        /\ refs = 1 => PrimaryEmptied
        /\ refs # 1 => UNCHANGED <<obj, capturing, op, primary_mu>>
    BY <1>17, DropEffect
  <2>2. ASSUME NEW h \in Handles  PROVE InPlace(h)'
    <3>1. CASE refs = 1
      <4>1. obj'[h] = (IF obj[h].ctx = Primary THEN NoObj ELSE obj[h]) /\ capturing' = {x \in capturing : obj[x].ctx # Primary}
        BY <2>1, <3>1 DEF PrimaryEmptied
      <4>2. NoObj.ctx = NoCtx /\ NoObj.kind = "none" /\ NoCtx # Primary /\ NoCtx \notin CtxAddrs
        BY DEF NoObj, InventoryAssumption
      <4>3. CASE obj[h].ctx = Primary
        <5>1. obj'[h] = NoObj /\ h \notin capturing'
          BY <4>1, <4>3
        <5> QED  BY <4>2, <5>1 DEF InPlace
      <4>4. CASE obj[h].ctx # Primary
        <5>1. obj'[h] = obj[h] /\ (h \in capturing' => h \in capturing)
          BY <4>1, <4>4
        <5> QED  BY <1>1, <2>1, <4>4, <5>1 DEF InPlace
      <4> QED  BY <4>3, <4>4
    <3>2. CASE refs # 1
      <4>1. refs' > 0
        BY <2>1, <3>2 DEF ListsInv, DriverTyped
      <4>2. Recording' <=> Recording
        BY <2>1, <3>2, RecordingStays
      <4> QED  BY <1>1, <2>1, <3>2, <4>1, <4>2 DEF InPlace
    <3> QED  BY <3>1, <3>2
  <2> QED  BY <1>2, <2>1, <2>2, ContextsStep DEF ListsStay
<1>18. CASE Reset(s)
  <2>1. ListsStay(s) /\ UNCHANGED <<ctx_owner, refs, gen, phase, cur>> /\ PrimaryEmptied
    BY <1>18, ResetEffect
  <2>2. ASSUME NEW h \in Handles  PROVE InPlace(h)'
    <3>1. obj'[h] = (IF obj[h].ctx = Primary THEN NoObj ELSE obj[h]) /\ capturing' = {x \in capturing : obj[x].ctx # Primary}
      BY <2>1 DEF PrimaryEmptied
    <3>2. NoObj.ctx = NoCtx /\ NoObj.kind = "none" /\ NoCtx # Primary /\ NoCtx \notin CtxAddrs
      BY DEF NoObj, InventoryAssumption
    <3>3. CASE obj[h].ctx = Primary
      <4>1. obj'[h] = NoObj /\ h \notin capturing'
        BY <3>1, <3>3
      <4> QED  BY <3>2, <4>1 DEF InPlace
    <3>4. CASE obj[h].ctx # Primary
      <4>1. obj'[h] = obj[h] /\ (h \in capturing' => h \in capturing)
        BY <3>1, <3>4
      <4> QED  BY <1>1, <2>1, <3>4, <4>1 DEF InPlace
    <3> QED  BY <3>3, <3>4
  <2> QED  BY <1>2, <2>1, <2>2, ContextsStep DEF ListsStay
<1>19. CASE Record(s)
  <2>1. /\ op[s].pc = "record" /\ inv'[s].contexts = inv[s].contexts
        /\ \A h \in Handles : Kept(h)
        /\ UNCHANGED <<capturing, ctx_owner, refs, phase, cur>>
    BY <1>19, RecordEffect
  <2>2. \A h \in Handles : obj[h].ctx # Primary
    BY <1>1, <2>1 DEF InPlace, Recording
  <2>3. ASSUME NEW h \in Handles  PROVE InPlace(h)'
    BY <1>1, <2>1, <2>2 DEF InPlace, Kept
  <2> QED  BY <1>2, <2>1, <2>3, ContextsStep
<1>20. ASSUME NEW e \in NextItems(s), Take(s, e)  PROVE ContextsOwned'
  <2>1. /\ op[s].pc = "idle" /\ phase[s] = "expiring" /\ op'[s].pc = "free"
        /\ inv'[s].contexts = inv[s].contexts /\ DriverStays /\ UNCHANGED <<refs, gen, phase, cur, live_mu>>
    BY <1>20, TakeEffect
  <2>2. Recording' <=> Recording
    BY <2>1, RecordingStays
  <2>3. \A h \in Handles : InPlace(h)'
    BY <1>1, <2>1, <2>2 DEF InPlace, DriverStays
  <2> QED  BY <1>2, <2>1, <2>3, ContextsStep DEF DriverStays
<1>21. ASSUME NEW e \in NextItems(s), Skip(s, e)  PROVE ContextsOwned'
  <2>1. /\ inv'[s].contexts = inv[s].contexts /\ \A h \in Handles : Kept(h)
        /\ UNCHANGED <<capturing, ctx_owner, refs, gen, op, phase, cur, primary_mu, live_mu>>
    BY <1>21, SkipEffect
  <2>2. Recording' <=> Recording
    BY <2>1, RecordingStays
  <2>3. \A h \in Handles : InPlace(h)'
    BY <1>1, <2>1, <2>2 DEF InPlace, Kept
  <2> QED  BY <1>2, <2>1, <2>3, ContextsStep
<1>22. ASSUME NEW g \in Handles, EndTaken(s, g)  PROVE ContextsOwned'
  <2> DEFINE h == op[s].item.h
  <2>1. /\ op[s].pc = "free" /\ op'[s].pc = "idle" /\ phase[s] = "expiring" /\ obj[g] = NoObj
        /\ h \notin capturing => UNCHANGED <<obj, capturing>>
        /\ h \in capturing =>
              /\ obj'[g].owner = s /\ obj'[g].kind = "graph" /\ obj'[g].ctx = NoCtx
              /\ \A x \in Handles \ {g} : obj'[x] = obj[x]
              /\ capturing' = capturing \ {h}
        /\ inv'[s].contexts = inv[s].contexts
        /\ UNCHANGED <<ctx_owner, refs, gen, phase, live_mu>>
    BY <1>22, EndTakenEffect
  <2> HIDE DEF h
  <2>2. Recording' <=> Recording
    BY <2>1, RecordingStays
  <2>3. ASSUME NEW x \in Handles  PROVE InPlace(x)'
    <3>1. CASE obj'[x] = obj[x] /\ (x \in capturing' => x \in capturing)
      BY <1>1, <2>1, <2>2, <3>1 DEF InPlace
    <3>2. CASE x = g /\ h \in capturing
      <4>1. g \notin capturing
        BY <1>1, <2>1 DEF InPlace, NoObj
      <4>2. g \notin capturing'
        BY <2>1, <3>2, <4>1
      <4> QED  BY <2>1, <3>2, <4>2 DEF InPlace, InventoryAssumption
    <3> QED  BY <2>1, <3>1, <3>2
  <2>4. phase'[s] = "expiring"
    BY <2>1
  <2> QED  BY <2>1, <2>3, <2>4, ContextsStep
<1>23. CASE FreeTaken(s)
  <2> DEFINE h == op[s].item.h
  <2>1. /\ op[s].pc = "free" /\ op'[s].pc = "idle" /\ phase[s] = "expiring" /\ h \in Handles /\ inv' = inv
        /\ \A x \in Handles \ {h} : obj'[x] = obj[x]
        /\ MayFree(s) => obj'[h] = NoObj /\ capturing' = capturing \ {h}
        /\ ~MayFree(s) => Kept(h) /\ capturing' = capturing
        /\ UNCHANGED <<ctx_owner, refs, gen, phase, live_mu>>
    BY <1>23, FreeTakenEffect
  <2> HIDE DEF h
  <2>2. Recording' <=> Recording
    BY <2>1, RecordingStays
  <2>3. ASSUME NEW x \in Handles  PROVE InPlace(x)'
    <3>1. CASE Kept(x) /\ (x \in capturing' => x \in capturing)
      BY <1>1, <2>1, <2>2, <3>1 DEF InPlace, Kept
    <3>2. CASE x = h /\ MayFree(s)
      <4>1. obj'[x] = NoObj /\ x \notin capturing'
        BY <2>1, <3>2
      <4> QED  BY <4>1 DEF InPlace, NoObj, InventoryAssumption
    <3>3. x # h => Kept(x) /\ (x \in capturing' => x \in capturing)
      BY <2>1 DEF Kept
    <3> QED  BY <2>1, <3>1, <3>2, <3>3
  <2>4. phase'[s] = "expiring" /\ inv'[s].contexts = inv[s].contexts
    BY <2>1
  <2> QED  BY <2>1, <2>3, <2>4, ContextsStep
<1>24. ASSUME NEW c \in CtxAddrs, ReleaseContext(s, c)  PROVE ContextsOwned'
  <2>1. /\ op[s].pc = "idle" /\ phase[s] = "expiring" /\ c \in inv[s].contexts /\ ctx_owner'[c] = Nobody
        /\ \A x \in CtxAddrs \ {c} : ctx_owner'[x] = ctx_owner[x]
        /\ inv'[s].contexts = inv[s].contexts \ {c}
        /\ \A h \in Handles : obj'[h] = IF obj[h].ctx = c THEN NoObj ELSE obj[h]
        /\ capturing' = {h \in capturing : obj[h].ctx # c}
        /\ UNCHANGED <<refs, gen, op, phase, primary_mu, live_mu>>
    BY <1>24, ReleaseContextEffect
  <2>2. Recording' <=> Recording
    BY <2>1, RecordingStays
  <2>3. ASSUME NEW h \in Handles  PROVE InPlace(h)'
    <3>1. CASE obj[h].ctx = c
      <4>1. obj'[h] = NoObj /\ h \notin capturing'
        BY <2>1, <3>1
      <4> QED  BY <4>1 DEF InPlace, NoObj, InventoryAssumption
    <3>2. CASE obj[h].ctx # c
      <4>1. obj'[h] = obj[h] /\ (h \in capturing' => h \in capturing)
        BY <2>1, <3>2
      <4> QED  BY <1>1, <2>1, <2>2, <3>2, <4>1 DEF InPlace
    <3> QED  BY <3>1, <3>2
  <2>4. ctx_owner[c] = s
    BY <2>1 DEF ContextsOwned
  <2>5. phase'[s] = "expiring"
    BY <2>1
  <2> QED  BY <2>1, <2>3, <2>4, <2>5, ContextsStep
<1>26. CASE RetainsRefused(s)
  BY <1>26, <1>2, <1>3, RefusedEffect
<1>25. bound.ctxs \subseteq CtxAddrs
  BY DEF ListsInv, DriverTyped, InventoryAssumption
<1> QED
  BY <1>4, <1>5, <1>6, <1>7, <1>8, <1>9, <1>10, <1>11, <1>12, <1>13, <1>14, <1>15, <1>16, <1>17, <1>18, <1>19,
     <1>20, <1>21, <1>22, <1>23, <1>24, <1>25, <1>26 DEF Step, Call, Expiry

-----------------------------------------------------------------------------
(* Each step keeps what the entries say of where they were made.           *)

(* A stamp comes of the entry for the source, or is of no generation.      *)
LEMMA StampOfSource ==
  ASSUME InventoryAssumption, NEW s \in Sessions, NEW k, NEW h
  PROVE  \/ \E i \in inv[s].items : /\ i.kind = k /\ i.h = h
                                    /\ StampOf(s, k, h).ctx = i.ctx /\ StampOf(s, k, h).gen = i.gen
         \/ Find(inv[s], k, h) = {} /\ StampOf(s, k, h).gen = EndedGen
<1>1. CASE Find(inv[s], k, h) # {}
  <2> DEFINE i == CHOOSE i \in Find(inv[s], k, h) : TRUE
  <2>1. i \in Find(inv[s], k, h)
    BY <1>1
  <2>2. StampOf(s, k, h) = Stamp(i.ctx, i.gen)
    BY <1>1 DEF StampOf
  <2> HIDE DEF i
  <2>3. i \in inv[s].items /\ i.kind = k /\ i.h = h
    BY <2>1 DEF Find, Key
  <2>4. StampOf(s, k, h).ctx = i.ctx /\ StampOf(s, k, h).gen = i.gen
    BY <2>2 DEF Stamp
  <2> QED  BY <2>3, <2>4
<1>2. CASE Find(inv[s], k, h) = {}
  <2>1. StampOf(s, k, h) = [StampNow(s) EXCEPT !.gen = EndedGen]
    BY <1>2 DEF StampOf
  <2>2. StampOf(s, k, h).gen = EndedGen
    BY <2>1 DEF StampNow, Stamp
  <2> QED  BY <1>2, <2>2
<1> QED  BY <1>1, <1>2

(* The generations that are past stay so.                                  *)
LEMMA PastStays ==
  ASSUME InventoryAssumption, ListsInv, NEW s \in Sessions, Step(s), gen' = gen \/ gen' = gen + 1, NEW e, StampFits(e)
  PROVE  StampFits(e)'
<1>1. PastGens \subseteq PastGens'
  BY DEF PastGens, ListsInv, DriverTyped, NoDev
<1> QED  BY <1>1 DEF StampFits, InContext

(* A step that only takes from the lists, or adds entries that fit.        *)
LEMMA StampedBy ==
  ASSUME InventoryAssumption, ListsInv, Stamped, NEW s \in Sessions, Step(s),
         gen' = gen \/ gen' = gen + 1,
         \A e \in inv'[s].items \union inv'[s].captures : StampFits(e) \/ StampFits(e)',
         op'[s].pc \in {"make", "free"} => StampFits(op'[s].item),
         (op'[s].pc = "make" /\ op'[s].item.kind = "bound") => op'[s].item.ctx = cur'[s]
  PROVE  Stamped'
<1>1. ASSUME NEW u \in Sessions \ {s}
      PROVE  /\ \A e \in inv'[u].items \union inv'[u].captures : StampFits(e)'
             /\ op'[u].pc \in {"make", "free"} => StampFits(op[u].item)'
             /\ (op'[u].pc = "make" /\ op'[u].item.kind = "bound") => op'[u].item.ctx = cur'[u]
  <2>1. op'[u] = op[u] /\ inv'[u] = inv[u] /\ cur'[u] = cur[u]
    BY OthersStay
  <2>2. \A e \in inv[u].items \union inv[u].captures : StampFits(e)'
    BY PastStays DEF Stamped
  <2>3. op[u].pc \in {"make", "free"} => StampFits(op[u].item)
    BY DEF Stamped
  <2>4. ASSUME NEW x, x = op[u].item, StampFits(x)  PROVE StampFits(x)'
    BY <2>4, PastStays
  <2>5. op[u].pc \in {"make", "free"} => StampFits(op[u].item)'
    BY <2>1, <2>3, <2>4 DEF StampFits, InContext
  <2> QED  BY <2>1, <2>2, <2>5 DEF Stamped
<1>2. \A e \in inv'[s].items \union inv'[s].captures : StampFits(e)'
  BY PastStays
<1>3. op'[s].pc \in {"make", "free"} => StampFits(op[s].item)'
  <2>1. ASSUME NEW x, x = op'[s].item, StampFits(x)  PROVE StampFits(x)'
    BY <2>1, PastStays
  <2> QED  BY <2>1 DEF StampFits, InContext
<1> QED  BY <1>1, <1>2, <1>3 DEF Stamped

(* What StampNow says fits what is made in a context.                      *)
LEMMA StampNowFits ==
  ASSUME InventoryAssumption, ListsInv, NEW s \in Sessions, NEW k \in Kinds \ {"free"}, cur[s] # NoCtx, NEW h
  PROVE  StampFits(Item(k, h, StampNow(s))) /\ Item(k, h, StampNow(s)).ctx = cur[s]
<1> DEFINE st == StampNow(s)
<1>1. st.ctx = cur[s] /\ st.gen = IF cur[s] = Primary THEN gen ELSE NoDev
  BY DEF StampNow, Stamp
<1>2. gen # NoDev /\ gen # EndedGen /\ NoDev # EndedGen /\ gen \in NoDev .. gen /\ NoDev \in NoDev .. gen
  BY DEF ListsInv, DriverTyped, InventoryAssumption, NoDev, EndedGen
<1> HIDE DEF st
<1>3. Item(k, h, st).kind = k /\ Item(k, h, st).ctx = st.ctx /\ Item(k, h, st).gen = st.gen
  BY DEF Item
<1>4. k # "capture" /\ k # "free"
  BY DEF Kinds
<1> QED  BY <1>1, <1>2, <1>3, <1>4 DEF StampFits, InContext, PastGens, st

(* A graph fits wherever its source did, and so does a capture.            *)
LEMMA StampOfFits ==
  ASSUME InventoryAssumption, ListsInv, Stamped, NEW s \in Sessions, NEW h, NEW g
  PROVE  /\ StampFits(Item("graph", g, StampOf(s, "graph", h)))
         /\ StampFits(Item("graph", g, StampOf(s, "bound", h)))
         /\ StampFits(Item("capture", g, StampOf(s, "bound", h)))
<1>1. EndedGen \in PastGens
  BY DEF PastGens
<1>2. ASSUME NEW k \in {"graph", "bound"}  PROVE StampOf(s, k, h).gen \in PastGens
  BY <1>1, StampOfSource DEF Stamped, StampFits
<1>3. ASSUME StampOf(s, "bound", h).gen # EndedGen  PROVE InContext(StampOf(s, "bound", h))
  <2>1. PICK i \in inv[s].items : /\ i.kind = "bound"
                                  /\ StampOf(s, "bound", h).ctx = i.ctx /\ StampOf(s, "bound", h).gen = i.gen
    BY <1>3, StampOfSource
  <2> QED  BY <2>1 DEF Stamped, StampFits, InContext
<1>4. ASSUME NEW k, NEW st
      PROVE  Item(k, g, st).kind = k /\ Item(k, g, st).ctx = st.ctx /\ Item(k, g, st).gen = st.gen
  BY DEF Item
<1> QED  BY <1>2, <1>3, <1>4 DEF StampFits, InContext

(* Every step keeps the stamps fitting.                                    *)
LEMMA StampedStep ==
  ASSUME InventoryAssumption, ListsInv, Stamped, NEW s \in Sessions, Step(s), UNCHANGED bound
  PROVE  Stamped'
<1>1. /\ \A e \in inv[s].items \union inv[s].captures : StampFits(e)
      /\ op[s].pc \in {"make", "free"} => StampFits(op[s].item)
      /\ (op[s].pc = "make" /\ op[s].item.kind = "bound") => op[s].item.ctx = cur[s]
  BY DEF Stamped
<1>2. ASSUME inv'[s].items \subseteq inv[s].items, inv'[s].captures \subseteq inv[s].captures,
             gen' = gen \/ gen' = gen + 1, op'[s].pc \notin {"make", "free"} \/ (op' = op /\ cur' = cur)
      PROVE  Stamped'
  <2>1. \A e \in inv'[s].items \union inv'[s].captures : StampFits(e)
    BY <1>1, <1>2
  <2> QED  BY <1>1, <1>2, <2>1, StampedBy
<1>3. CASE Bind(s)
  BY <1>3, <1>2, BindEffect DEF ListsStay
<1>4. ASSUME NEW c \in Ctxs \union {NoCtx}, Select(s, c)  PROVE Stamped'
  <2>1. /\ ListsStay(s) /\ UNCHANGED <<refs, gen, op, phase, primary_mu, live_mu>> /\ op[s].pc = "idle"
    BY <1>4, SelectEffect
  <2> QED  BY <2>1, <1>2 DEF ListsStay
<1>5. ASSUME NEW k \in Kinds, BeginMake(s, k)  PROVE Stamped'
  <2>1. /\ ListsStay(s) /\ UNCHANGED <<refs, gen, phase, cur, primary_mu, live_mu>> /\ op'[s].pc = "make"
    BY <1>5, BeginMakeEffect
  <2>2. StampFits(op'[s].item) /\ (op'[s].item.kind = "bound" => op'[s].item.ctx = cur[s])
    <3>1. CASE k # "free" /\ cur[s] # NoCtx /\ op'[s].item = Item(k, NoHandle, StampNow(s))
      <4>1. StampFits(Item(k, NoHandle, StampNow(s))) /\ Item(k, NoHandle, StampNow(s)).ctx = cur[s]
        BY <3>1, StampNowFits
      <4> QED  BY <3>1, <4>1
    <3>2. ASSUME k = "graph", NEW h \in Own(s, "graph"), op'[s].item = Item(k, NoHandle, StampOf(s, "graph", h))
          PROVE  StampFits(op'[s].item) /\ (op'[s].item.kind = "bound" => op'[s].item.ctx = cur[s])
      <4>1. StampFits(Item("graph", NoHandle, StampOf(s, "graph", h)))
        BY StampOfFits
      <4>2. Item("graph", NoHandle, StampOf(s, "graph", h)).kind = "graph"
        BY DEF Item
      <4> QED  BY <3>2, <4>1, <4>2
    <3>3. CASE k = "free" /\ op'[s].item = Item(k, NoHandle, NoStamp)
      <4>1. op'[s].item.kind = "free" /\ op'[s].item.ctx = NoCtx /\ op'[s].item.gen = NoDev
        BY <3>3 DEF Item, NoStamp, Stamp
      <4>2. NoDev \in PastGens
        BY DEF PastGens, NoDev, ListsInv, DriverTyped
      <4> QED  BY <4>1, <4>2 DEF StampFits
    <3> QED  BY <1>5, <3>1, <3>2, <3>3, BeginMakeEffect
  <2>3. \A e \in inv'[s].items \union inv'[s].captures : StampFits(e)
    BY <1>1, <2>1 DEF ListsStay
  <2> QED  BY <2>1, <2>2, <2>3, StampedBy
<1>6. CASE MakeFails(s)
  BY <1>6, <1>2, MakeFailsEffect DEF ListsStay
<1>7. CASE Expire(s)
  <2>1. ListsStay(s) /\ UNCHANGED <<refs, gen, op, cur, primary_mu, live_mu>>
    BY <1>7, ExpireEffect
  <2> QED  BY <2>1, <1>2 DEF ListsStay
<1>8. CASE Unbind(s)
  <2>1. ListsStay(s) /\ UNCHANGED <<refs, gen, op, primary_mu, live_mu>> /\ op[s].pc = "idle"
    BY <1>8, UnbindEffect
  <2> QED  BY <2>1, <1>2 DEF ListsStay
<1>9. ASSUME NEW h \in Handles, Make(s, h)  PROVE Stamped'
  <2> DEFINE e == MadeEntry(s, h)
  <2>1. /\ e.kind = op[s].item.kind /\ e.ctx = op[s].item.ctx /\ e.gen = op[s].item.gen
        /\ op[s].pc = "make" /\ op'[s].pc = "idle"
        /\ inv'[s].items = (inv[s].items \ Find(inv[s], e.kind, e.h)) \union {e}
        /\ inv'[s].captures = inv[s].captures
        /\ UNCHANGED <<capturing, ctx_owner, refs, gen, phase, cur, primary_mu, live_mu>>
    BY <1>9, MakeEffect
  <2> HIDE DEF e
  <2>2. StampFits(e)
    BY <1>1, <2>1 DEF StampFits, InContext
  <2>3. \A x \in inv'[s].items \union inv'[s].captures : StampFits(x)
    BY <1>1, <2>1, <2>2
  <2> QED  BY <2>1, <2>3, StampedBy
<1>10. ASSUME NEW h \in Handles, Free(s, h)  PROVE Stamped'
  <2>1. inv'[s].items \subseteq inv[s].items /\ inv'[s].captures \subseteq inv[s].captures
    <3>1. /\ inv'[s].items = inv[s].items \ Find(inv[s], obj[h].kind, h)
          /\ inv'[s].captures = IF obj[h].kind = "bound" THEN {p \in inv[s].captures : p.h # h}
                                ELSE inv[s].captures
      BY <1>10, FreeLists
    <3> QED  BY <3>1
  <2>2. op[s].pc = "idle" /\ UNCHANGED <<ctx_owner, refs, gen, op, phase, cur, primary_mu, live_mu>>
    BY <1>10, FreeEffect
  <2> QED  BY <2>1, <2>2, <1>2
<1>11. ASSUME NEW h \in Handles, BeginCapture(s, h)  PROVE Stamped'
  <2>1. /\ op[s].pc = "idle" /\ inv'[s].items = inv[s].items
        /\ inv'[s].captures = inv[s].captures \union {Item("capture", h, StampOf(s, "bound", h))}
        /\ UNCHANGED <<obj, ctx_owner, refs, gen, op, phase, cur, primary_mu, live_mu>>
    BY <1>11, BeginCaptureEffect
  <2>2. \A x \in inv'[s].items \union inv'[s].captures : StampFits(x)
    BY <1>1, <2>1, StampOfFits
  <2> QED  BY <2>1, <2>2, StampedBy
<1>12. ASSUME NEW h \in Handles, NEW g \in Handles, EndCapture(s, h, g)  PROVE Stamped'
  <2> DEFINE e == Item("graph", g, StampOf(s, "bound", h))
  <2>1. /\ op[s].pc = "idle"
        /\ inv'[s].items = (inv[s].items \ Find(inv[s], "graph", g)) \union {e}
        /\ inv'[s].captures = {p \in inv[s].captures : p.h # h}
        /\ UNCHANGED <<ctx_owner, refs, gen, op, phase, cur, primary_mu, live_mu>>
    BY <1>12, EndCaptureEffect
  <2>2. StampFits(e)
    BY StampOfFits
  <2> HIDE DEF e
  <2>3. \A x \in inv'[s].items \union inv'[s].captures : StampFits(x)
    BY <1>1, <2>1, <2>2
  <2> QED  BY <2>1, <2>3, StampedBy
<1>13. ASSUME NEW c \in CtxAddrs, CreateContext(s, c)  PROVE Stamped'
  BY <1>13, <1>2, CreateEffect
<1>14. ASSUME NEW c \in CtxAddrs, DestroyContext(s, c)  PROVE Stamped'
  <2>1. inv'[s].items \subseteq inv[s].items /\ inv'[s].captures \subseteq inv[s].captures
    <3>1. /\ inv'[s].items = {e \in inv[s].items : <<c, e.kind, e.h>> \notin inv[s].by_ctx}
          /\ inv'[s].captures = {p \in inv[s].captures : p.ctx # c}
      BY <1>14, DestroyEffect
    <3> QED  BY <3>1
  <2>2. op[s].pc = "idle" /\ UNCHANGED <<refs, gen, op, phase, primary_mu, live_mu>>
    BY <1>14, DestroyEffect
  <2> QED  BY <2>1, <2>2, <1>2
<1>15. CASE Retain(s)
  <2>1. ListsStay(s) /\ UNCHANGED <<gen, op, phase, cur, primary_mu, live_mu>>
    BY <1>15, RetainEffect
  <2> QED  BY <2>1, <1>2 DEF ListsStay
<1>16. CASE Release(s) \/ ReleaseRetain(s)
  <2>1. /\ ListsStay(s) /\ UNCHANGED <<ctx_owner, gen, phase, cur, live_mu>> /\ op[s].pc = "idle"
        /\ refs = 1 => op'[s].pc = "record"
        /\ refs # 1 => UNCHANGED <<obj, capturing, op, primary_mu>>
    BY <1>16, DropEffect
  <2> QED  BY <2>1, <1>2 DEF ListsStay
<1>17. CASE Reset(s)
  <2>1. ListsStay(s) /\ UNCHANGED <<ctx_owner, refs, gen, phase, cur>> /\ op'[s].pc = "record"
    BY <1>17, ResetEffect
  <2> QED  BY <2>1, <1>2 DEF ListsStay
<1>18. CASE Record(s)
  <2>1. /\ op'[s].pc = "idle" /\ gen' = gen + 1
        /\ inv'[s].items = inv[s].items \ OldOfPrimary(inv[s], gen + 1)
        /\ inv'[s].captures = {p \in inv[s].captures : p.ctx = Primary => p.gen = gen + 1}
    BY <1>18, RecordEffect
  <2>2. inv'[s].items \subseteq inv[s].items /\ inv'[s].captures \subseteq inv[s].captures
    BY <2>1
  <2> QED  BY <2>1, <2>2, <1>2
<1>19. ASSUME NEW e \in NextItems(s), Take(s, e)  PROVE Stamped'
  <2>1. /\ op'[s].pc = "free" /\ op'[s].item = e
        /\ e \in inv[s].items \/ e \in inv[s].captures
        /\ inv'[s].items = inv[s].items \ {e} /\ inv'[s].captures = inv[s].captures \ {e}
        /\ UNCHANGED <<refs, gen, phase, cur, live_mu>>
    BY <1>19, TakeEffect
  <2>2. StampFits(op'[s].item)
    BY <1>1, <2>1
  <2>3. \A x \in inv'[s].items \union inv'[s].captures : StampFits(x)
    BY <1>1, <2>1
  <2> QED  BY <2>1, <2>2, <2>3, StampedBy
<1>20. ASSUME NEW e \in NextItems(s), Skip(s, e)  PROVE Stamped'
  <2>1. /\ op[s].pc = "idle"
        /\ inv'[s].items = inv[s].items \ {e} /\ inv'[s].captures = inv[s].captures \ {e}
        /\ UNCHANGED <<capturing, ctx_owner, refs, gen, op, phase, cur, primary_mu, live_mu>>
    BY <1>20, SkipEffect
  <2> QED  BY <2>1, <1>2
<1>21. ASSUME NEW g \in Handles, EndTaken(s, g)  PROVE Stamped'
  <2> DEFINE h == op[s].item.h
  <2> DEFINE e == Item("graph", g, op[s].item)
  <2>1. /\ op[s].pc = "free" /\ op'[s].pc = "idle" /\ e.kind = "graph" /\ e.gen = op[s].item.gen
        /\ h \notin capturing => inv'[s].items = inv[s].items
        /\ h \in capturing => inv'[s].items = (inv[s].items \ Find(inv[s], "graph", g)) \union {e}
        /\ inv'[s].captures = inv[s].captures
        /\ UNCHANGED <<ctx_owner, refs, gen, phase, live_mu>>
    BY <1>21, EndTakenEffect
  <2> HIDE DEF e, h
  <2>2. StampFits(e)
    BY <1>1, <2>1 DEF StampFits
  <2>3. \A x \in inv'[s].items \union inv'[s].captures : StampFits(x)
    BY <1>1, <2>1, <2>2
  <2> QED  BY <2>1, <2>3, StampedBy
<1>22. CASE FreeTaken(s)
  <2>1. op'[s].pc = "idle" /\ inv' = inv /\ UNCHANGED <<ctx_owner, refs, gen, phase, live_mu>>
    BY <1>22, FreeTakenEffect
  <2> QED  BY <2>1, <1>2
<1>23. ASSUME NEW c \in CtxAddrs, ReleaseContext(s, c)  PROVE Stamped'
  <2>1. /\ op[s].pc = "idle" /\ inv'[s].items = {} /\ inv'[s].captures = {}
        /\ UNCHANGED <<refs, gen, op, phase, primary_mu, live_mu>>
    BY <1>23, ReleaseContextEffect
  <2> QED  BY <2>1, <1>2
<1>25. CASE RetainsRefused(s)
  <2>1. ListsStay(s) /\ UNCHANGED <<refs, gen, op, phase, cur, primary_mu, live_mu>>
    BY <1>25, RefusedEffect
  <2> QED  BY <2>1, <1>2 DEF ListsStay
<1>24. bound.ctxs \subseteq CtxAddrs
  BY DEF ListsInv, DriverTyped, InventoryAssumption
<1> QED
  BY <1>3, <1>4, <1>5, <1>6, <1>7, <1>8, <1>9, <1>10, <1>11, <1>12, <1>13, <1>14, <1>15, <1>16, <1>17, <1>18,
     <1>19, <1>20, <1>21, <1>22, <1>23, <1>24, <1>25 DEF Step, Call, Expiry

-----------------------------------------------------------------------------
(* Each step keeps the entries true.                                       *)

(* An entry stays true while its thing is kept.                            *)
LEMMA EntryStays ==
  ASSUME EntriesTrue, NEW u \in Sessions, NEW e \in inv[u].items \union inv[u].captures,
         gen' = gen, Recording' <=> Recording, Lives(u, e) => Kept(e.h)
  PROVE  (Current(e) => Lives(u, e))'
<1>1. Current(e)' => Current(e)
  BY DEF Current, Dated
<1>2. Current(e) => Lives(u, e)
  BY DEF EntriesTrue
<1>3. (Lives(u, e) /\ Kept(e.h)) => Lives(u, e)'
  BY DEF Lives, Kept
<1> QED  BY <1>1, <1>2, <1>3

(* What the others list and free stays true while what is theirs is kept.  *)
LEMMA TrueBy ==
  ASSUME InventoryAssumption, ListsInv, EntriesTrue, NEW s \in Sessions, Step(s),
         gen' = gen, op'[s].pc = "record" <=> op[s].pc = "record",
         \A h \in Handles : obj[h].owner \in Sessions \ {s} => Kept(h),
         \A e \in inv'[s].items \union inv'[s].captures : (Current(e) => Lives(s, e))',
         FreesTrue(s)'
  PROVE  EntriesTrue'
<1>1. Recording' <=> Recording
  BY RecordingStays
<1>2. ASSUME NEW u \in Sessions \ {s}
      PROVE  (\A e \in inv[u].items \union inv[u].captures : Current(e) => Lives(u, e))' /\ FreesTrue(u)'
  <2>1. op'[u] = op[u] /\ inv'[u] = inv[u]
    BY OthersStay
  <2>2. ASSUME NEW e \in inv[u].items \union inv[u].captures  PROVE (Current(e) => Lives(u, e))'
    <3>1. e.h \in Handles
      BY PartsTyped DEF Listed, Captured
    <3>2. Lives(u, e) => Kept(e.h)
      BY <3>1 DEF Lives
    <3> QED  BY <1>1, <3>2, EntryStays
  <2>3. FreesTrue(u)'
    <3>1. FreesTrue(u)
      BY DEF EntriesTrue
    <3>2. op[u].pc = "free" => Kept(op[u].item.h)
      BY <3>1, ItemHandle DEF FreesTrue, Lives, ListsInv
    <3> QED  BY <2>1, <3>1, <3>2 DEF FreesTrue, Lives, Kept, Dated, Key
  <2> QED  BY <2>1, <2>2, <2>3
<1> QED  BY <1>2 DEF EntriesTrue

(* What no entry dates by a generation is not in the primary context.      *)
LEMMA UndatedElsewhere ==
  ASSUME InventoryAssumption, ListsInv, ContextsOwned, Stamped, NEW u \in Sessions,
         NEW e, StampFits(e), e.h \in Handles, Lives(u, e), ~Dated(e), e.kind \in Kinds \union {"capture"}
  PROVE  obj[e.h].ctx # Primary
<1>1. CASE e.kind \in {"bound", "capture"}
  <2>1. e.gen = NoDev /\ NoDev # EndedGen /\ obj[e.h].ctx = e.ctx
    BY <1>1 DEF Dated, Lives, InventoryAssumption, NoDev, EndedGen
  <2> QED  BY <1>1, <2>1 DEF StampFits, InContext
<1>2. CASE e.kind \in {"graph", "free"}
  <2>1. obj[e.h].kind # "bound"
    BY <1>2 DEF Lives
  <2> QED  BY <2>1 DEF ContextsOwned, InPlace, InventoryAssumption
<1> QED  BY <1>1, <1>2 DEF Kinds

(* When the primary context is emptied, what is not dated is kept, and     *)
(* nobody is freeing what is.                                              *)
LEMMA EmptiedTrue ==
  ASSUME InventoryAssumption, ListsInv, ContextsOwned, Stamped, EntriesTrue, NEW s \in Sessions, Step(s),
         gen' = gen, PrimaryEmptied, op'[s].pc = "record", primary_mu = Nobody, ListsStay(s)
  PROVE  EntriesTrue'
<1>1. Recording'
  BY DEF Recording
<1>2. \A h \in Handles : obj[h].ctx # Primary => Kept(h)
  BY DEF PrimaryEmptied, Kept
<1>3. ASSUME NEW u \in Sessions  PROVE inv'[u].items = inv[u].items /\ inv'[u].captures = inv[u].captures
  BY OthersStay DEF ListsStay
<1>4. ASSUME NEW u \in Sessions, NEW e \in inv[u].items \union inv[u].captures
      PROVE  (Current(e) => Lives(u, e))'
  <2>1. e.h \in Handles /\ e.kind \in Kinds \union {"capture"}
    BY PartsTyped DEF Listed, Captured
  <2>2. SUFFICES ASSUME ~Dated(e)  PROVE Lives(u, e)'
    BY <1>1 DEF Current, Dated
  <2>3. Lives(u, e) /\ StampFits(e)
    BY <2>2 DEF EntriesTrue, Current, Stamped
  <2>4. Kept(e.h)
    BY <1>2, <2>1, <2>2, <2>3, UndatedElsewhere
  <2> QED  BY <2>3, <2>4 DEF Lives, Kept
<1>5. ASSUME NEW u \in Sessions  PROVE FreesTrue(u)'
  <2>1. CASE u = s
    BY <2>1 DEF FreesTrue
  <2>2. CASE u # s
    <3>1. op'[u] = op[u]
      BY <2>2, OthersStay
    <3> SUFFICES ASSUME op[u].pc = "free"  PROVE FreesTrue(u)'
      BY <3>1 DEF FreesTrue
    <3> DEFINE e == op[u].item
    <3>2. e.gen = NoDev
      BY DEF ListsInv, Locks, InventoryAssumption
    <3>3. Lives(u, e) /\ StampFits(e) /\ e.h \in Handles /\ e.kind \in Kinds \union {"capture"}
      BY ItemHandle DEF EntriesTrue, FreesTrue, Stamped, ListsInv, SessionsTyped, OpFits, Listed, Captured
    <3>4. \A d \in inv[u].items : Key(d) # Key(e)
      BY DEF EntriesTrue, FreesTrue
    <3>5. ~Dated(e)
      BY <3>2 DEF Dated
    <3>6. Kept(e.h)
      BY <1>2, <3>3, <3>5, UndatedElsewhere
    <3> QED  BY <1>3, <3>1, <3>3, <3>4, <3>5, <3>6 DEF FreesTrue, Lives, Kept, Dated, Key
  <2> QED  BY <2>1, <2>2
<1> QED  BY <1>3, <1>4, <1>5 DEF EntriesTrue

(* A step of a session that then frees nothing keeps the entries true when *)
(* what the others made is kept, and so is what its own entries say, but   *)
(* for those that come to be true.                                         *)
LEMMA TrueByOwn ==
  ASSUME InventoryAssumption, ListsInv, EntriesTrue, NEW s \in Sessions, Step(s),
         gen' = gen, op'[s].pc = "record" <=> op[s].pc = "record", op'[s].pc # "free",
         \A h \in Handles : obj[h].owner \in Sessions \ {s} => Kept(h),
         \A e \in inv'[s].items \union inv'[s].captures :
           \/ (Current(e) => Lives(s, e))'
           \/ e \in inv[s].items \union inv[s].captures /\ (Lives(s, e) => Kept(e.h))
  PROVE  EntriesTrue'
<1>1. Recording' <=> Recording
  BY RecordingStays
<1>2. ASSUME NEW e \in inv'[s].items \union inv'[s].captures  PROVE (Current(e) => Lives(s, e))'
  BY <1>1, EntryStays
<1>3. FreesTrue(s)'
  BY DEF FreesTrue
<1> QED  BY <1>2, <1>3, TrueBy

(* Every step keeps them so.                                               *)
LEMMA EntriesStep ==
  ASSUME InventoryAssumption, ListsInv, ContextsOwned, Stamped, EntriesTrue,
         NEW s \in Sessions, Step(s), UNCHANGED bound
  PROVE  EntriesTrue'
<1>1. \A h \in Handles : InPlace(h)
  BY DEF ContextsOwned
<1>2. \A e \in inv[s].items \union inv[s].captures : e.h \in Handles /\ e.kind \in Kinds \union {"capture"}
  BY PartsTyped DEF Listed, Captured
<1>3. (\A e \in inv[s].items : e.kind \in Kinds /\ e.kind # "capture") /\ (\A e \in inv[s].captures : e.kind = "capture")
  BY PartsTyped DEF Listed, Captured, Kinds
<1>4. Nobody \notin Sessions /\ NoObj.owner = Nobody
  BY DEF InventoryAssumption, NoObj
<1>5. ASSUME ListsStay(s), DriverStays, gen' = gen, op'[s].pc \in {"idle", "make"}, op[s].pc # "record"
      PROVE  EntriesTrue'
  <2>1. \A h : Kept(h)
    BY <1>5 DEF DriverStays, Kept
  <2> QED  BY <1>5, <2>1, TrueByOwn DEF ListsStay
<1>6. CASE Bind(s)
  <2>1. op[s].pc = "idle"
    BY <1>6, BindEffect DEF ListsInv, PhasesAgree, SessionsTyped, OpRec
  <2> QED  BY <1>6, <1>5, <2>1, BindEffect
<1>7. ASSUME NEW c \in Ctxs \union {NoCtx}, Select(s, c)  PROVE EntriesTrue'
  <2>1. ListsStay(s) /\ DriverStays /\ UNCHANGED <<refs, gen, op, phase, primary_mu, live_mu>> /\ op[s].pc = "idle"
    BY <1>7, SelectEffect
  <2> QED  BY <2>1, <1>5
<1>8. ASSUME NEW k \in Kinds, BeginMake(s, k)  PROVE EntriesTrue'
  <2>1. /\ ListsStay(s) /\ DriverStays /\ UNCHANGED <<refs, gen, phase, cur, primary_mu, live_mu>>
        /\ op[s].pc = "idle" /\ op'[s].pc = "make"
    BY <1>8, BeginMakeEffect
  <2> QED  BY <2>1, <1>5
<1>9. CASE MakeFails(s)
  BY <1>9, <1>5, MakeFailsEffect
<1>10. CASE Expire(s)
  BY <1>10, <1>5, ExpireEffect
<1>11. CASE Unbind(s)
  BY <1>11, <1>5, UnbindEffect
<1>12. ASSUME NEW h \in Handles, Make(s, h)  PROVE EntriesTrue'
  <2> PICK e : e = MadeEntry(s, h)
    OBVIOUS
  <2>1. /\ e \in Listed /\ e.h = h /\ e.kind = op[s].item.kind /\ e.ctx = op[s].item.ctx
        /\ obj[h] = NoObj /\ op[s].pc = "make" /\ op'[s].pc = "idle"
        /\ \A g \in Handles \ {h} : obj'[g] = obj[g]
        /\ obj'[h].owner = s /\ obj'[h].kind = e.kind
        /\ obj'[h].ctx = IF e.kind = "bound" THEN cur[s] ELSE NoCtx
        /\ inv'[s].items = (inv[s].items \ Find(inv[s], e.kind, e.h)) \union {e}
        /\ inv'[s].captures = inv[s].captures
        /\ UNCHANGED <<capturing, ctx_owner, refs, gen, phase, cur, primary_mu, live_mu>>
    BY <1>12, MakeEffect
  <2>2. e.kind = "bound" => e.ctx = cur[s]
    <3>1. (op[s].pc = "make" /\ op[s].item.kind = "bound") => op[s].item.ctx = cur[s]
      BY DEF Stamped
    <3> QED  BY <2>1, <3>1
  <2>3. e.kind # "capture"
    BY <2>1 DEF Listed, Kinds
  <2>4. Lives(s, e)'
    BY <2>1, <2>2, <2>3 DEF Lives
  <2>5. \A g \in Handles : obj[g].owner \in Sessions => Kept(g)
    BY <1>4, <2>1 DEF Kept
  <2>6. \A d \in inv[s].items \union inv[s].captures : Lives(s, d) => Kept(d.h)
    BY <1>2, <2>5 DEF Lives
  <2> QED  BY <2>1, <2>4, <2>5, <2>6, TrueByOwn
<1>13. ASSUME NEW h \in Handles, Free(s, h)  PROVE EntriesTrue'
  <2>1. /\ op[s].pc = "idle" /\ obj[h].owner = s
        /\ \A g \in Handles \ {h} : obj'[g] = obj[g]
        /\ UNCHANGED <<ctx_owner, refs, gen, op, phase, cur, primary_mu, live_mu>>
    BY <1>13, FreeEffect
  <2>2. /\ inv'[s].items = inv[s].items \ Find(inv[s], obj[h].kind, h)
        /\ inv'[s].captures = IF obj[h].kind = "bound" THEN {p \in inv[s].captures : p.h # h} ELSE inv[s].captures
    BY <1>13, FreeLists
  <2>3. \A g \in Handles \ {h} : Kept(g)
    BY <2>1 DEF Kept
  <2>4. ASSUME NEW d \in inv'[s].items, Lives(s, d)  PROVE d.h # h
    BY <1>3, <2>2, <2>4 DEF Lives, Find, Key
  <2>5. ASSUME NEW d \in inv'[s].captures, Lives(s, d)  PROVE d.h # h
    <3>1. CASE obj[h].kind = "bound"
      <4>1. inv'[s].captures = {p \in inv[s].captures : p.h # h}
        BY <2>2, <3>1
      <4> QED  BY <4>1
    <3>2. CASE obj[h].kind # "bound"
      BY <1>3, <2>2, <2>5, <3>2 DEF Lives
    <3> QED  BY <3>1, <3>2
  <2>6. inv'[s].items \union inv'[s].captures \subseteq inv[s].items \union inv[s].captures
    BY <2>2
  <2>7. \A d \in inv'[s].items \union inv'[s].captures : Lives(s, d) => Kept(d.h)
    BY <1>2, <2>3, <2>4, <2>5, <2>6
  <2>8. \A g \in Handles : obj[g].owner \in Sessions \ {s} => Kept(g)
    BY <2>1, <2>3
  <2> QED  BY <2>1, <2>6, <2>7, <2>8, TrueByOwn
<1>14. ASSUME NEW h \in Handles, BeginCapture(s, h)  PROVE EntriesTrue'
  <2> PICK p : p = Item("capture", h, StampOf(s, "bound", h))
    OBVIOUS
  <2>1. /\ op[s].pc = "idle" /\ inv'[s].items = inv[s].items
        /\ inv'[s].captures = inv[s].captures \union {p}
        /\ UNCHANGED <<obj, ctx_owner, refs, gen, op, phase, cur, primary_mu, live_mu>>
    BY <1>14, BeginCaptureEffect
  <2>2. /\ p.kind = "capture" /\ p.h = h /\ p.ctx = StampOf(s, "bound", h).ctx /\ p.gen = StampOf(s, "bound", h).gen
    BY DEF Item
  <2>3. \A g : Kept(g)
    BY <2>1 DEF Kept
  <2>4. Recording' <=> Recording
    BY <2>1, RecordingStays
  <2>5. (Current(p) => Lives(s, p))'
    <3>1. CASE p.gen = EndedGen
      <4>1. EndedGen # gen /\ EndedGen # NoDev
        BY DEF ListsInv, DriverTyped, InventoryAssumption, EndedGen, NoDev
      <4> QED  BY <2>1, <2>2, <3>1, <4>1 DEF Current, Dated
    <3>2. ASSUME NEW i \in inv[s].items, i.kind = "bound", i.h = h, p.ctx = i.ctx, p.gen = i.gen
          PROVE  (Current(p) => Lives(s, p))'
      <4>1. Current(p)' => Current(i)
        BY <2>1, <2>2, <2>4, <3>2 DEF Current, Dated
      <4>2. Current(i) => Lives(s, i)
        BY DEF EntriesTrue
      <4>3. Lives(s, i) => Lives(s, p)'
        BY <2>1, <2>2, <3>2 DEF Lives
      <4> QED  BY <4>1, <4>2, <4>3
    <3> QED  BY <2>2, <3>1, <3>2, StampOfSource
  <2> QED  BY <2>1, <2>3, <2>5, TrueByOwn
<1>15. ASSUME NEW h \in Handles, NEW g \in Handles, EndCapture(s, h, g)  PROVE EntriesTrue'
  <2> PICK e : e = Item("graph", g, StampOf(s, "bound", h))
    OBVIOUS
  <2>1. /\ e.kind = "graph" /\ e.h = g /\ op[s].pc = "idle" /\ obj[g] = NoObj
        /\ obj'[g].owner = s /\ obj'[g].kind = "graph" /\ obj'[g].ctx = NoCtx
        /\ \A x \in Handles \ {g} : obj'[x] = obj[x]
        /\ inv'[s].items = (inv[s].items \ Find(inv[s], "graph", g)) \union {e}
        /\ inv'[s].captures = {p \in inv[s].captures : p.h # h}
        /\ UNCHANGED <<ctx_owner, refs, gen, op, phase, cur, primary_mu, live_mu>>
    BY <1>15, EndCaptureEffect
  <2>2. Lives(s, e)'
    BY <2>1 DEF Lives
  <2>3. \A x \in Handles : obj[x].owner \in Sessions => Kept(x)
    BY <1>4, <2>1 DEF Kept
  <2>4. \A d \in inv[s].items \union inv[s].captures : Lives(s, d) => Kept(d.h)
    BY <1>2, <2>3 DEF Lives
  <2> QED  BY <2>1, <2>2, <2>3, <2>4, TrueByOwn
<1>16. ASSUME NEW c \in CtxAddrs, CreateContext(s, c)  PROVE EntriesTrue'
  <2>1. /\ op[s].pc = "idle" /\ inv'[s].items = inv[s].items /\ inv'[s].captures = inv[s].captures
        /\ UNCHANGED <<obj, capturing, refs, gen, op, phase, primary_mu, live_mu>>
    BY <1>16, CreateEffect
  <2>2. \A g : Kept(g)
    BY <2>1 DEF Kept
  <2> QED  BY <2>1, <2>2, TrueByOwn
<1>17. ASSUME NEW c \in CtxAddrs, DestroyContext(s, c)  PROVE EntriesTrue'
  <2>1. /\ op[s].pc = "idle" /\ phase[s] = "live" /\ ctx_owner[c] = s
        /\ inv'[s].items = {e \in inv[s].items : <<c, e.kind, e.h>> \notin inv[s].by_ctx}
        /\ inv'[s].captures = {p \in inv[s].captures : p.ctx # c}
        /\ \A h \in Handles : obj[h].ctx # c => Kept(h)
        /\ UNCHANGED <<refs, gen, op, phase, primary_mu, live_mu>>
    BY <1>17, DestroyEffect
  <2>2. c # NoCtx
    BY DEF InventoryAssumption
  <2>3. \A h \in Handles : obj[h].ctx = c => obj[h].owner = s /\ obj[h].kind = "bound"
    BY <1>1, <2>1, <2>2 DEF InPlace
  <2>4. ASSUME NEW d \in inv'[s].items, Lives(s, d)  PROVE obj[d.h].ctx # c
    <3>1. d \in inv[s].items /\ <<c, d.kind, d.h>> \notin inv[s].by_ctx
      BY <2>1
    <3> SUFFICES ASSUME obj[d.h].ctx = c  PROVE FALSE
      OBVIOUS
    <3>2. d.kind = "bound" /\ d.ctx = c
      BY <1>2, <1>3, <2>3, <2>4, <3>1 DEF Lives
    <3>3. Slot(d) \in inv[s].by_ctx
      BY <2>1, <2>2, <3>1, <3>2 DEF ListsInv, IndexIsExact, Indexed
    <3> QED  BY <3>1, <3>2, <3>3 DEF Slot
  <2>5. ASSUME NEW d \in inv'[s].captures, Lives(s, d)  PROVE obj[d.h].ctx # c
    <3>1. d \in inv[s].captures /\ d.ctx # c
      BY <2>1
    <3> QED  BY <1>3, <2>5, <3>1 DEF Lives
  <2>6. inv'[s].items \union inv'[s].captures \subseteq inv[s].items \union inv[s].captures
    BY <2>1
  <2>7. \A d \in inv'[s].items \union inv'[s].captures : Lives(s, d) => Kept(d.h)
    BY <1>2, <2>1, <2>4, <2>5, <2>6
  <2>8. \A g \in Handles : obj[g].owner \in Sessions \ {s} => Kept(g)
    BY <2>1, <2>3
  <2> QED  BY <2>1, <2>6, <2>7, <2>8, TrueByOwn
<1>18. CASE Retain(s)
  <2>1. ListsStay(s) /\ DriverStays /\ UNCHANGED <<gen, op, phase, cur, primary_mu, live_mu>> /\ op[s].pc = "idle"
    BY <1>18, RetainEffect
  <2> QED  BY <2>1, <1>5
<1>19. CASE Release(s) \/ ReleaseRetain(s)
  <2>1. /\ ListsStay(s) /\ UNCHANGED <<ctx_owner, gen, phase, cur, live_mu>>
        /\ op[s].pc = "idle" /\ primary_mu = Nobody
        /\ refs = 1 => PrimaryEmptied /\ op'[s].pc = "record" /\ primary_mu' = s
        /\ refs # 1 => UNCHANGED <<obj, capturing, op, primary_mu>>
    BY <1>19, DropEffect
  <2>2. CASE refs = 1
    BY <2>1, <2>2, EmptiedTrue
  <2>3. CASE refs # 1
    BY <2>1, <2>3, <1>5 DEF DriverStays
  <2> QED  BY <2>2, <2>3
<1>20. CASE Reset(s)
  <2>1. /\ ListsStay(s) /\ UNCHANGED <<ctx_owner, refs, gen, phase, cur>>
        /\ primary_mu = Nobody /\ PrimaryEmptied /\ op'[s].pc = "record"
    BY <1>20, ResetEffect
  <2> QED  BY <2>1, EmptiedTrue
<1>21. CASE Record(s)
  <2>1. /\ op[s].pc = "record" /\ primary_mu = s /\ op'[s].pc = "idle" /\ gen' = gen + 1 /\ gen + 1 < EndedGen
        /\ inv'[s].items = inv[s].items \ OldOfPrimary(inv[s], gen + 1)
        /\ inv'[s].captures = {p \in inv[s].captures : p.ctx = Primary => p.gen = gen + 1}
        /\ \A h \in Handles : Kept(h)
    <3>1. /\ op[s].pc = "record" /\ primary_mu = s /\ op'[s].pc = "idle" /\ gen' = gen + 1 /\ gen + 1 < EndedGen
          /\ inv'[s].items = inv[s].items \ OldOfPrimary(inv[s], gen + 1)
          /\ inv'[s].captures = {p \in inv[s].captures : p.ctx = Primary => p.gen = gen + 1}
      BY <1>21, RecordEffect
    <3>2. \A h \in Handles : Kept(h)
      BY <1>21, RecordEffect
    <3> QED  BY <3>1, <3>2
  <2>2. \A u \in Sessions : /\ inv'[u].items \subseteq inv[u].items /\ inv'[u].captures \subseteq inv[u].captures
                            /\ u # s => op'[u] = op[u]
    <3>1. inv'[s].items \subseteq inv[s].items /\ inv'[s].captures \subseteq inv[s].captures
      BY <2>1
    <3> QED  BY <3>1, OthersStay
  <2>3. ASSUME NEW u \in Sessions, NEW e \in inv[u].items \union inv[u].captures  PROVE (Current(e) => Lives(u, e))'
    <3>1. e.gen \in PastGens /\ e.h \in Handles
      BY PartsTyped DEF Stamped, StampFits, Listed, Captured
    <3>2. e.gen # gen + 1
      BY <2>1, <3>1 DEF PastGens, EndedGen, NoDev, ListsInv, DriverTyped, InventoryAssumption
    <3>3. Current(e)' => ~Dated(e)
      BY <2>1, <3>2 DEF Current, Dated
    <3>4. ~Dated(e) => Lives(u, e)
      BY DEF EntriesTrue, Current
    <3>5. Lives(u, e) => Lives(u, e)'
      BY <2>1, <3>1 DEF Lives, Kept
    <3> QED  BY <3>3, <3>4, <3>5
  <2>4. ASSUME NEW u \in Sessions  PROVE FreesTrue(u)'
    <3>1. CASE u = s
      BY <2>1, <3>1 DEF FreesTrue
    <3>2. CASE u # s
      <4>1. op'[u] = op[u] /\ inv'[u].items \subseteq inv[u].items
        BY <2>2, <3>2
      <4> SUFFICES ASSUME op[u].pc = "free"  PROVE FreesTrue(u)'
        BY <4>1 DEF FreesTrue
      <4> DEFINE e == op[u].item
      <4>2. e.gen = NoDev
        BY <2>1, <3>2 DEF ListsInv, Locks
      <4>3. Lives(u, e) /\ e.h \in Handles /\ \A d \in inv[u].items : Key(d) # Key(e)
        BY ItemHandle DEF EntriesTrue, FreesTrue, ListsInv
      <4>4. Lives(u, e)'
        BY <2>1, <4>1, <4>3 DEF Lives, Kept
      <4>5. ~Dated(e)'
        BY <4>1, <4>2 DEF Dated
      <4> QED  BY <4>1, <4>3, <4>4, <4>5 DEF FreesTrue, Lives, Key
    <3> QED  BY <3>1, <3>2
  <2> QED  BY <2>2, <2>3, <2>4 DEF EntriesTrue
<1>22. ASSUME NEW e \in NextItems(s), Take(s, e)  PROVE EntriesTrue'
  <2>1. /\ op[s].pc = "idle" /\ op'[s].pc = "free" /\ op'[s].item = e
        /\ e \in inv[s].items \/ e \in inv[s].captures
        /\ e.gen # NoDev => (e.gen = gen /\ primary_mu = Nobody)
        /\ inv'[s].items = inv[s].items \ {e} /\ inv'[s].captures = inv[s].captures \ {e}
        /\ DriverStays /\ UNCHANGED <<refs, gen, phase, cur, live_mu>>
    BY <1>22, TakeEffect
  <2>2. \A g : Kept(g)
    BY <2>1 DEF DriverStays, Kept
  <2>3. Recording' <=> Recording
    BY <2>1, RecordingStays
  <2>4. Current(e)
    BY <2>1, NoneRecording DEF Current, Dated
  <2>5. Lives(s, e)
    BY <2>1, <2>4 DEF EntriesTrue
  <2>6. \A d \in inv'[s].items : Key(d) # Key(e)
    BY <1>3, <2>1, PartsTyped DEF KeyedOnce, Key
  <2>7. FreesTrue(s)'
    BY <2>1, <2>5, <2>6 DEF FreesTrue, DriverStays, Lives, Dated, Key
  <2>8. \A d \in inv'[s].items \union inv'[s].captures : (Current(d) => Lives(s, d))'
    BY <2>1, <2>2, <2>3, EntryStays
  <2> QED  BY <2>1, <2>2, <2>7, <2>8, TrueBy
<1>23. ASSUME NEW e \in NextItems(s), Skip(s, e)  PROVE EntriesTrue'
  <2>1. /\ op[s].pc = "idle"
        /\ inv'[s].items = inv[s].items \ {e} /\ inv'[s].captures = inv[s].captures \ {e}
        /\ \A h \in Handles : Kept(h)
        /\ UNCHANGED <<capturing, ctx_owner, refs, gen, op, phase, cur, primary_mu, live_mu>>
    <3>1. /\ op[s].pc = "idle"
          /\ inv'[s].items = inv[s].items \ {e} /\ inv'[s].captures = inv[s].captures \ {e}
          /\ UNCHANGED <<capturing, ctx_owner, refs, gen, op, phase, cur, primary_mu, live_mu>>
      BY <1>23, SkipEffect
    <3>2. \A h \in Handles : Kept(h)
      BY <1>23, SkipEffect
    <3> QED  BY <3>1, <3>2
  <2>2. \A d \in inv'[s].items \union inv'[s].captures : d \in inv[s].items \union inv[s].captures /\ Kept(d.h)
    BY <1>2, <2>1
  <2> QED  BY <2>1, <2>2, TrueByOwn
<1>24. ASSUME NEW g \in Handles, EndTaken(s, g)  PROVE EntriesTrue'
  <2> PICK h, e : h = op[s].item.h /\ e = Item("graph", g, op[s].item)
    OBVIOUS
  <2>1. /\ op[s].pc = "free" /\ op'[s].pc = "idle" /\ obj[g] = NoObj /\ e.kind = "graph" /\ e.h = g
        /\ h \notin capturing => UNCHANGED <<obj, capturing>> /\ inv'[s].items = inv[s].items
        /\ h \in capturing =>
              /\ obj'[g].owner = s /\ obj'[g].kind = "graph" /\ obj'[g].ctx = NoCtx
              /\ \A x \in Handles \ {g} : obj'[x] = obj[x]
              /\ inv'[s].items = (inv[s].items \ Find(inv[s], "graph", g)) \union {e}
        /\ inv'[s].captures = inv[s].captures
        /\ UNCHANGED <<ctx_owner, refs, gen, phase, live_mu>>
    BY <1>24, EndTakenEffect
  <2>2. \A x \in Handles : obj[x].owner \in Sessions => Kept(x)
    BY <1>4, <2>1 DEF Kept
  <2>3. \A d \in inv[s].items \union inv[s].captures : Lives(s, d) => Kept(d.h)
    BY <1>2, <2>2 DEF Lives
  <2>4. CASE h \in capturing
    <3>1. Lives(s, e)'
      BY <2>1, <2>4 DEF Lives
    <3> QED  BY <2>1, <2>2, <2>3, <2>4, <3>1, TrueByOwn
  <2>5. CASE h \notin capturing
    BY <2>1, <2>2, <2>3, <2>5, TrueByOwn
  <2> QED  BY <2>4, <2>5
<1>25. CASE FreeTaken(s)
  <2> PICK h : h = op[s].item.h
    OBVIOUS
  <2>1. /\ op[s].pc = "free" /\ op[s].item.kind # "capture" /\ op'[s].pc = "idle"
        /\ h \in Handles /\ inv[s].captures = {} /\ inv' = inv
        /\ \A x \in Handles \ {h} : obj'[x] = obj[x]
        /\ ~MayFree(s) => Kept(h)
        /\ UNCHANGED <<ctx_owner, refs, gen, phase, live_mu>>
    BY <1>25, FreeTakenEffect
  <2>2. obj[h].owner = s /\ obj[h].kind = op[s].item.kind /\ \A d \in inv[s].items : Key(d) # Key(op[s].item)
    BY <2>1 DEF EntriesTrue, FreesTrue, Lives
  <2>3. \A x \in Handles \ {h} : Kept(x)
    BY <2>1 DEF Kept
  <2>4. ASSUME NEW d \in inv[s].items, Lives(s, d)  PROVE d.h # h
    BY <1>3, <2>2, <2>4 DEF Lives, Key
  <2>5. \A d \in inv'[s].items \union inv'[s].captures : d \in inv[s].items /\ (Lives(s, d) => Kept(d.h))
    BY <1>2, <2>1, <2>3, <2>4
  <2>6. \A x \in Handles : obj[x].owner \in Sessions \ {s} => Kept(x)
    BY <2>2, <2>3
  <2> QED  BY <2>1, <2>5, <2>6, TrueByOwn
<1>26. ASSUME NEW c \in CtxAddrs, ReleaseContext(s, c)  PROVE EntriesTrue'
  <2>1. /\ op[s].pc = "idle" /\ c \in inv[s].contexts
        /\ inv'[s].items = {} /\ inv'[s].captures = {}
        /\ \A h \in Handles : obj'[h] = IF obj[h].ctx = c THEN NoObj ELSE obj[h]
        /\ UNCHANGED <<refs, gen, op, phase, primary_mu, live_mu>>
    BY <1>26, ReleaseContextEffect
  <2>2. \A h \in Handles : obj[h].ctx = c => obj[h].owner = s
    BY <1>1, <2>1 DEF InPlace, ContextsOwned
  <2>3. \A h \in Handles : obj[h].owner \in Sessions \ {s} => Kept(h)
    BY <2>1, <2>2 DEF Kept
  <2> QED  BY <2>1, <2>3, TrueByOwn
<1>28. CASE RetainsRefused(s)
  <2>1. ListsStay(s) /\ DriverStays /\ UNCHANGED <<gen, op, phase, cur, primary_mu, live_mu>> /\ op[s].pc = "idle"
    BY <1>28, RefusedEffect
  <2> QED  BY <2>1, <1>5
<1>27. bound.ctxs \subseteq CtxAddrs
  BY DEF ListsInv, DriverTyped, InventoryAssumption
<1> QED
  BY <1>6, <1>7, <1>8, <1>9, <1>10, <1>11, <1>12, <1>13, <1>14, <1>15, <1>16, <1>17, <1>18, <1>19, <1>20, <1>21,
     <1>22, <1>23, <1>24, <1>25, <1>26, <1>27, <1>28 DEF Step, Call, Expiry

-----------------------------------------------------------------------------
(* Each step keeps what is made on the lists, or gives it up.              *)

(* An entry that has what lives at h on record, on either list.            *)
ForItem(e, h)    == /\ e.kind = obj[h].kind /\ e.h = h
                    /\ e.kind = "bound" => e.ctx = obj[h].ctx /\ e.gen \in {NoDev, gen}
ForCapture(e, h) == e.h = h /\ e.ctx = obj[h].ctx /\ e.gen \in {NoDev, gen}

(* What is kept stays on record with the entry it was on record by; a      *)
(* generation that ends dates none of them if none is in the context.      *)
LEMMA RecordStays ==
  ASSUME InventoryAssumption, ListsInv, Stamped, NEW u \in Sessions, NEW h \in Handles,
         OnRecord(u, h), Kept(h), h \in capturing' => h \in capturing,
         gen' = gen \/ obj[h].ctx # Primary,
         Freeing(u, obj[h].kind, h) => Freeing(u, obj[h].kind, h)',
         (h \in capturing' /\ Freeing(u, "capture", h)) => Freeing(u, "capture", h)',
         \A e \in inv[u].items : ForItem(e, h) => e \in inv'[u].items,
         h \in capturing' => \A e \in inv[u].captures : ForCapture(e, h) => e \in inv'[u].captures
  PROVE  OnRecord(u, h)'
<1>1. EndedGen # NoDev /\ EndedGen # gen
  BY DEF ListsInv, DriverTyped, InventoryAssumption, EndedGen, NoDev
<1>2. ASSUME NEW e \in inv[u].items, ForItem(e, h)  PROVE OnItems(u, h)'
  <2>1. StampFits(e) /\ e \in inv'[u].items
    BY <1>2 DEF Stamped
  <2>2. e.kind = "bound" => e.gen \in {NoDev, gen'}
    BY <1>2, <2>1 DEF ForItem, StampFits, InContext
  <2> QED  BY <1>2, <2>1, <2>2 DEF OnItems, ForItem, Kept
<1>3. ASSUME NEW e \in inv[u].captures, ForCapture(e, h), h \in capturing'  PROVE OnCaptures(u, h)'
  <2>1. StampFits(e) /\ e \in inv'[u].captures /\ e.kind = "capture"
    BY <1>3, PartsTyped DEF Stamped, Captured
  <2>2. e.gen \in {NoDev, gen'}
    BY <1>1, <1>3, <2>1 DEF ForCapture, StampFits, InContext
  <2> QED  BY <1>3, <2>1, <2>2 DEF OnCaptures, ForCapture, Kept
<1>4. OnItems(u, h) => \E e \in inv[u].items : ForItem(e, h)
  BY DEF OnItems, ForItem
<1>5. OnCaptures(u, h) => \E e \in inv[u].captures : ForCapture(e, h)
  BY DEF OnCaptures, ForCapture
<1>6. OnItems(u, h)' \/ Freeing(u, obj[h].kind, h)'
  BY <1>2, <1>4 DEF OnRecord
<1>7. h \in capturing' => OnCaptures(u, h)' \/ Freeing(u, "capture", h)'
  BY <1>3, <1>5 DEF OnRecord
<1> QED  BY <1>6, <1>7 DEF OnRecord

(* What the others made stays on record while it is left alone: a step     *)
(* has its own session's to see to.                                        *)
LEMMA ForgottenBy ==
  ASSUME InventoryAssumption, ListsInv, Stamped, NothingForgotten, NEW s \in Sessions, Step(s),
         gen' = gen \/ \A h \in Handles : obj[h].ctx # Primary,
         \A h \in Handles : obj'[h].owner \in Sessions \ {s} =>
           /\ Kept(h) /\ (obj[h].untracked => obj'[h].untracked)
           /\ h \in capturing' => h \in capturing,
         \A h \in Handles : (obj'[h].owner = s /\ ~obj'[h].untracked) => OnRecord(s, h)'
  PROVE  NothingForgotten'
<1>1. ASSUME NEW u \in Sessions \ {s}, NEW h \in Handles, obj'[h].owner = u, ~obj'[h].untracked
      PROVE  OnRecord(u, h)'
  <2>1. Kept(h) /\ obj[h].owner = u /\ ~obj[h].untracked /\ (h \in capturing' => h \in capturing)
    BY <1>1 DEF Kept
  <2>2. op'[u] = op[u] /\ inv'[u] = inv[u]
    BY OthersStay
  <2>3. OnRecord(u, h)
    BY <2>1 DEF NothingForgotten
  <2>4. /\ Freeing(u, obj[h].kind, h) => Freeing(u, obj[h].kind, h)'
        /\ Freeing(u, "capture", h) => Freeing(u, "capture", h)'
    BY <2>1, <2>2 DEF Freeing, Kept
  <2> QED  BY <2>1, <2>2, <2>3, <2>4, RecordStays
<1> QED  BY <1>1 DEF NothingForgotten

(* So does what the session itself made, if it was at nothing it freed and *)
(* no entry that has it on record goes.                                    *)
LEMMA OwnRecordStays ==
  ASSUME InventoryAssumption, ListsInv, Stamped, NothingForgotten, NEW s \in Sessions, NEW h \in Handles,
         obj'[h].owner = s, ~obj'[h].untracked, op[s].pc # "free",
         Kept(h), obj[h].untracked => obj'[h].untracked, h \in capturing' => h \in capturing,
         gen' = gen \/ obj[h].ctx # Primary,
         \A e \in inv[s].items : ForItem(e, h) => e \in inv'[s].items,
         h \in capturing' => \A e \in inv[s].captures : ForCapture(e, h) => e \in inv'[s].captures
  PROVE  OnRecord(s, h)'
<1>1. OnRecord(s, h)
  BY DEF NothingForgotten, Kept
<1>2. ~Freeing(s, obj[h].kind, h) /\ ~Freeing(s, "capture", h)
  BY DEF Freeing
<1> QED  BY <1>1, <1>2, RecordStays

(* Every step keeps nothing forgotten.                                     *)
LEMMA ForgottenStep ==
  ASSUME InventoryAssumption, ListsInv, ContextsOwned, Stamped, EntriesTrue, NothingForgotten,
         NEW s \in Sessions, Step(s), UNCHANGED bound
  PROVE  NothingForgotten'
<1>1. \A h \in Handles : InPlace(h)
  BY DEF ContextsOwned
<1>2. (\A e \in inv[s].items : e.kind \in Kinds /\ e.kind # "capture") /\ (\A e \in inv[s].captures : e.kind = "capture")
  BY PartsTyped DEF Listed, Captured, Kinds
<1>3. Nobody \notin Sessions /\ NoObj.owner = Nobody /\ NoObj.kind = "none"
  BY DEF InventoryAssumption, NoObj
<1>4. ASSUME ListsStay(s), DriverStays, gen' = gen, op[s].pc # "free"
      PROVE  NothingForgotten'
  <2>1. \A h : Kept(h) /\ obj'[h] = obj[h] /\ (h \in capturing' => h \in capturing)
    BY <1>4 DEF DriverStays, Kept
  <2>2. \A h \in Handles : (obj'[h].owner = s /\ ~obj'[h].untracked) => OnRecord(s, h)'
    BY <1>4, <2>1, OwnRecordStays DEF ListsStay
  <2> QED  BY <1>4, <2>1, <2>2, ForgottenBy
<1>5. CASE Bind(s)
  <2>1. op[s].pc # "free"
    BY <1>5, BindEffect DEF ListsInv, PhasesAgree
  <2> QED  BY <1>5, <1>4, <2>1, BindEffect
<1>6. ASSUME NEW c \in Ctxs \union {NoCtx}, Select(s, c)  PROVE NothingForgotten'
  <2>1. ListsStay(s) /\ DriverStays /\ UNCHANGED <<refs, gen, op, phase, primary_mu, live_mu>> /\ op[s].pc = "idle"
    BY <1>6, SelectEffect
  <2> QED  BY <2>1, <1>4
<1>7. ASSUME NEW k \in Kinds, BeginMake(s, k)  PROVE NothingForgotten'
  <2>1. /\ ListsStay(s) /\ DriverStays /\ UNCHANGED <<refs, gen, phase, cur, primary_mu, live_mu>>
        /\ op[s].pc = "idle" /\ op'[s].pc = "make"
    BY <1>7, BeginMakeEffect
  <2> QED  BY <2>1, <1>4
<1>8. CASE MakeFails(s)
  BY <1>8, <1>4, MakeFailsEffect
<1>9. CASE Expire(s)
  BY <1>9, <1>4, ExpireEffect
<1>10. CASE Unbind(s)
  BY <1>10, <1>4, UnbindEffect
<1>11. ASSUME NEW h \in Handles, Make(s, h)  PROVE NothingForgotten'
  <2> PICK e : e = MadeEntry(s, h)
    OBVIOUS
  <2>1. /\ e \in Listed /\ e.h = h /\ e.kind = op[s].item.kind /\ e.ctx = op[s].item.ctx
        /\ obj[h] = NoObj /\ op[s].pc = "make"
        /\ \A g \in Handles \ {h} : obj'[g] = obj[g]
        /\ obj'[h].owner = s /\ obj'[h].kind = e.kind
        /\ obj'[h].ctx = IF e.kind = "bound" THEN cur[s] ELSE NoCtx
        /\ obj'[h].untracked <=> Misplaced(e.gen)
        /\ inv'[s].items = (inv[s].items \ Find(inv[s], e.kind, e.h)) \union {e}
        /\ inv'[s].captures = inv[s].captures
        /\ UNCHANGED <<capturing, ctx_owner, refs, gen, phase, cur, primary_mu, live_mu>>
    BY <1>11, MakeEffect
  <2>2. e.kind = "bound" => e.ctx = cur[s]
    <3>1. (op[s].pc = "make" /\ op[s].item.kind = "bound") => op[s].item.ctx = cur[s]
      BY DEF Stamped
    <3> QED  BY <2>1, <3>1
  <2>3. \A g \in Handles \ {h} : Kept(g)
    BY <2>1 DEF Kept
  <2>4. ~obj'[h].untracked => OnRecord(s, h)'
    <3> SUFFICES ASSUME ~obj'[h].untracked  PROVE OnRecord(s, h)'
      OBVIOUS
    <3>1. e.gen \in {NoDev, gen'}
      BY <2>1 DEF Misplaced
    <3>2. e.kind = "bound" => e.ctx = obj'[h].ctx
      BY <2>1, <2>2
    <3>3. OnItems(s, h)'
      BY <2>1, <3>1, <3>2 DEF OnItems
    <3>4. h \notin capturing'
      BY <1>1, <1>3, <2>1 DEF InPlace
    <3> QED  BY <3>3, <3>4 DEF OnRecord
  <2>5. ASSUME NEW g \in Handles \ {h}, obj'[g].owner = s, ~obj'[g].untracked  PROVE OnRecord(s, g)'
    <3>1. \A d \in inv[s].items : ForItem(d, g) => d \in inv'[s].items
      BY <2>1 DEF ForItem, Find, Key
    <3> QED  BY <2>1, <2>3, <2>5, <3>1, OwnRecordStays
  <2>6. \A g \in Handles : (obj'[g].owner = s /\ ~obj'[g].untracked) => OnRecord(s, g)'
    BY <2>4, <2>5
  <2>7. \A g \in Handles : obj'[g].owner \in Sessions \ {s} =>
          Kept(g) /\ (obj[g].untracked => obj'[g].untracked) /\ (g \in capturing' => g \in capturing)
    BY <2>1, <2>3
  <2> QED  BY <2>1, <2>6, <2>7, ForgottenBy
<1>12. ASSUME NEW h \in Handles, Free(s, h)  PROVE NothingForgotten'
  <2>1. /\ op[s].pc = "idle" /\ obj'[h] = NoObj
        /\ \A g \in Handles \ {h} : obj'[g] = obj[g]
        /\ capturing' = capturing \ {h}
        /\ UNCHANGED <<ctx_owner, refs, gen, op, phase, cur, primary_mu, live_mu>>
    BY <1>12, FreeEffect
  <2>2. /\ inv'[s].items = inv[s].items \ Find(inv[s], obj[h].kind, h)
        /\ inv'[s].captures = IF obj[h].kind = "bound" THEN {p \in inv[s].captures : p.h # h} ELSE inv[s].captures
    BY <1>12, FreeLists
  <2>3. \A g \in Handles : obj'[g].owner \in Sessions => g # h /\ Kept(g) /\ obj'[g] = obj[g]
    BY <1>3, <2>1 DEF Kept
  <2>4. ASSUME NEW g \in Handles, obj'[g].owner = s, ~obj'[g].untracked  PROVE OnRecord(s, g)'
    <3>1. g # h /\ Kept(g) /\ obj'[g] = obj[g] /\ (g \in capturing' => g \in capturing)
      BY <2>1, <2>3, <2>4
    <3>2. \A d \in inv[s].items : ForItem(d, g) => d \in inv'[s].items
      BY <2>2, <3>1 DEF ForItem, Find, Key
    <3>3. \A d \in inv[s].captures : ForCapture(d, g) => d \in inv'[s].captures
      <4>1. CASE obj[h].kind = "bound"
        <5>1. inv'[s].captures = {p \in inv[s].captures : p.h # h}
          BY <2>2, <4>1
        <5> QED  BY <3>1, <5>1 DEF ForCapture
      <4>2. CASE obj[h].kind # "bound"
        BY <2>2, <4>2
      <4> QED  BY <4>1, <4>2
    <3> QED  BY <2>1, <2>4, <3>1, <3>2, <3>3, OwnRecordStays
  <2>5. \A g \in Handles : obj'[g].owner \in Sessions \ {s} =>
          Kept(g) /\ (obj[g].untracked => obj'[g].untracked) /\ (g \in capturing' => g \in capturing)
    BY <2>1, <2>3
  <2> QED  BY <2>1, <2>4, <2>5, ForgottenBy
<1>13. ASSUME NEW h \in Handles, BeginCapture(s, h)  PROVE NothingForgotten'
  <2> PICK p : p = Item("capture", h, StampOf(s, "bound", h))
    OBVIOUS
  <2>1. /\ op[s].pc = "idle" /\ obj[h].owner = s /\ obj[h].kind = "bound"
        /\ capturing' = capturing \union {h}
        /\ inv'[s].items = inv[s].items
        /\ inv'[s].captures = inv[s].captures \union {p}
        /\ UNCHANGED <<obj, ctx_owner, refs, gen, op, phase, cur, primary_mu, live_mu>>
    BY <1>13, BeginCaptureEffect
  <2>2. p.h = h /\ p.ctx = StampOf(s, "bound", h).ctx /\ p.gen = StampOf(s, "bound", h).gen
    BY DEF Item
  <2>3. \A g : Kept(g)
    BY <2>1 DEF Kept
  <2>4. ASSUME NEW g \in Handles \ {h}, obj'[g].owner = s, ~obj'[g].untracked  PROVE OnRecord(s, g)'
    BY <2>1, <2>3, <2>4, OwnRecordStays
  <2>5. ~obj'[h].untracked => OnRecord(s, h)'
    <3> SUFFICES ASSUME ~obj'[h].untracked  PROVE OnRecord(s, h)'
      OBVIOUS
    <3>1. OnRecord(s, h)
      BY <2>1 DEF NothingForgotten
    <3>2. OnItems(s, h)
      BY <2>1, <3>1 DEF OnRecord, Freeing
    <3>3. PICK i \in inv[s].items : i.kind = "bound" /\ i.h = h /\ i.ctx = obj[h].ctx /\ i.gen \in {NoDev, gen}
      BY <2>1, <3>2 DEF OnItems
    <3>4. p.ctx = i.ctx /\ p.gen = i.gen
      <4>1. i \in Find(inv[s], "bound", h)
        BY <3>3 DEF Find, Key
      <4>2. \A d \in inv[s].items : (d.kind = "bound" /\ d.h = h) => d = i
        BY <3>3, PartsTyped DEF KeyedOnce, Key
      <4> QED  BY <2>2, <4>1, <4>2, StampOfSource
    <3>5. OnItems(s, h)'
      BY <2>1, <3>3 DEF OnItems
    <3>6. OnCaptures(s, h)'
      BY <2>1, <2>2, <3>3, <3>4 DEF OnCaptures
    <3> QED  BY <3>5, <3>6 DEF OnRecord
  <2>6. \A g \in Handles : (obj'[g].owner = s /\ ~obj'[g].untracked) => OnRecord(s, g)'
    BY <2>4, <2>5
  <2>7. \A g \in Handles : obj'[g].owner \in Sessions \ {s} =>
          Kept(g) /\ (obj[g].untracked => obj'[g].untracked) /\ (g \in capturing' => g \in capturing)
    BY <2>1, <2>3
  <2> QED  BY <2>1, <2>6, <2>7, ForgottenBy
<1>14. ASSUME NEW h \in Handles, NEW g \in Handles, EndCapture(s, h, g)  PROVE NothingForgotten'
  <2> PICK e : e = Item("graph", g, StampOf(s, "bound", h))
    OBVIOUS
  <2>1. /\ e.kind = "graph" /\ e.h = g /\ op[s].pc = "idle" /\ obj[g] = NoObj
        /\ obj'[g].owner = s /\ obj'[g].kind = "graph"
        /\ obj'[g].untracked <=> Misplaced(e.gen)
        /\ \A x \in Handles \ {g} : obj'[x] = obj[x]
        /\ capturing' = capturing \ {h}
        /\ inv'[s].items = (inv[s].items \ Find(inv[s], "graph", g)) \union {e}
        /\ inv'[s].captures = {p \in inv[s].captures : p.h # h}
        /\ UNCHANGED <<ctx_owner, refs, gen, op, phase, cur, primary_mu, live_mu>>
    BY <1>14, EndCaptureEffect
  <2>2. g \notin capturing'
    BY <1>1, <1>3, <2>1 DEF InPlace
  <2>3. OnRecord(s, g)'
    BY <2>1, <2>2 DEF OnRecord, OnItems
  <2>4. ASSUME NEW x \in Handles \ {g}, obj'[x].owner = s, ~obj'[x].untracked  PROVE OnRecord(s, x)'
    <3>1. Kept(x) /\ obj'[x] = obj[x] /\ (x \in capturing' => x \in capturing)
      BY <2>1 DEF Kept
    <3>2. \A d \in inv[s].items : ForItem(d, x) => d \in inv'[s].items
      BY <2>1 DEF ForItem, Find, Key
    <3>3. x \in capturing' => \A d \in inv[s].captures : ForCapture(d, x) => d \in inv'[s].captures
      BY <2>1 DEF ForCapture
    <3> QED  BY <2>1, <2>4, <3>1, <3>2, <3>3, OwnRecordStays
  <2>5. \A x \in Handles : obj'[x].owner \in Sessions \ {s} =>
          Kept(x) /\ (obj[x].untracked => obj'[x].untracked) /\ (x \in capturing' => x \in capturing)
    BY <2>1 DEF Kept
  <2> QED  BY <2>1, <2>3, <2>4, <2>5, ForgottenBy
<1>15. ASSUME NEW c \in CtxAddrs, CreateContext(s, c)  PROVE NothingForgotten'
  <2>1. /\ op[s].pc = "idle" /\ inv'[s].items = inv[s].items /\ inv'[s].captures = inv[s].captures
        /\ UNCHANGED <<obj, capturing, refs, gen, op, phase, primary_mu, live_mu>>
    BY <1>15, CreateEffect
  <2>2. \A h : Kept(h) /\ obj'[h] = obj[h]
    BY <2>1 DEF Kept
  <2>3. \A h \in Handles : (obj'[h].owner = s /\ ~obj'[h].untracked) => OnRecord(s, h)'
    BY <2>1, <2>2, OwnRecordStays
  <2> QED  BY <2>1, <2>2, <2>3, ForgottenBy
<1>16. ASSUME NEW c \in CtxAddrs, DestroyContext(s, c)  PROVE NothingForgotten'
  <2>1. /\ op[s].pc = "idle" /\ phase[s] = "live"
        /\ inv'[s].items = {e \in inv[s].items : <<c, e.kind, e.h>> \notin inv[s].by_ctx}
        /\ inv'[s].captures = {p \in inv[s].captures : p.ctx # c}
        /\ \A h \in Handles : obj[h].ctx = c => obj'[h] = NoObj
        /\ capturing' = {h \in capturing : obj[h].ctx # c}
        /\ UNCHANGED <<refs, gen, op, phase, primary_mu, live_mu>>
    BY <1>16, DestroyEffect
  <2>2. \A h \in Handles : obj[h].ctx # c =>
          Kept(h) /\ (obj'[h].untracked <=> (obj[h].untracked \/ GivenUp(s, h)))
    BY <1>16, DestroyEffect
  <2>3. \A h \in Handles : obj'[h].owner \in Sessions =>
          /\ obj[h].ctx # c /\ Kept(h) /\ (obj[h].untracked => obj'[h].untracked)
          /\ h \in capturing' => h \in capturing
    BY <1>3, <2>1, <2>2
  <2>4. ASSUME NEW h \in Handles, obj'[h].owner = s, ~obj'[h].untracked  PROVE OnRecord(s, h)'
    <3>1. /\ obj[h].ctx # c /\ Kept(h) /\ (obj[h].untracked => obj'[h].untracked) /\ ~GivenUp(s, h)
          /\ h \in capturing' => h \in capturing
      BY <2>2, <2>3, <2>4
    <3>2. ASSUME NEW d \in inv[s].items, ForItem(d, h)  PROVE d \in inv'[s].items
      <4> SUFFICES ASSUME <<c, d.kind, d.h>> \in inv[s].by_ctx  PROVE FALSE
        BY <2>1
      <4>1. PICK i \in inv[s].items : Indexed(i) /\ Slot(i) = <<c, d.kind, d.h>>
        BY <2>1 DEF ListsInv, IndexIsExact
      <4>2. i = d
        BY <4>1, PartsTyped DEF KeyedOnce, Key, Slot
      <4>3. d.ctx = c /\ d.kind # "free"
        BY <4>1, <4>2 DEF Slot, Indexed
      <4>4. d.kind = "graph"
        BY <1>2, <3>1, <3>2, <4>3 DEF ForItem, Kinds
      <4>5. Find(inv[s], "graph", h) # {}
        BY <3>2, <4>4 DEF Find, Key, ForItem
      <4>6. ASSUME NEW x \in inv'[s].items, Key(x) = <<"graph", h>>  PROVE FALSE
        <5>1. x \in inv[s].items /\ <<c, x.kind, x.h>> \notin inv[s].by_ctx
          BY <2>1
        <5>2. x = d
          BY <3>2, <4>4, <4>6, <5>1, PartsTyped DEF KeyedOnce, Key, ForItem
        <5> QED  BY <5>1, <5>2
      <4>7. obj[h].owner = s
        BY <2>4, <3>1 DEF Kept
      <4> QED  BY <3>1, <4>5, <4>6, <4>7 DEF GivenUp
    <3>3. \A d \in inv[s].captures : ForCapture(d, h) => d \in inv'[s].captures
      BY <2>1, <3>1 DEF ForCapture
    <3> QED  BY <2>1, <2>4, <3>1, <3>2, <3>3, OwnRecordStays
  <2>5. \A h \in Handles : obj'[h].owner \in Sessions \ {s} =>
          Kept(h) /\ (obj[h].untracked => obj'[h].untracked) /\ (h \in capturing' => h \in capturing)
    BY <2>3
  <2> QED  BY <2>1, <2>4, <2>5, ForgottenBy
<1>17. ASSUME ListsStay(s), gen' = gen, op[s].pc = "idle", PrimaryEmptied  PROVE NothingForgotten'
  <2>1. \A h \in Handles : obj'[h].owner \in Sessions =>
          obj'[h] = obj[h] /\ Kept(h) /\ (h \in capturing' => h \in capturing)
    BY <1>3, <1>17 DEF PrimaryEmptied, Kept
  <2>2. \A h \in Handles : (obj'[h].owner = s /\ ~obj'[h].untracked) => OnRecord(s, h)'
    BY <1>17, <2>1, OwnRecordStays DEF ListsStay
  <2>3. \A h \in Handles : obj'[h].owner \in Sessions \ {s} =>
          Kept(h) /\ (obj[h].untracked => obj'[h].untracked) /\ (h \in capturing' => h \in capturing)
    BY <2>1
  <2> QED  BY <1>17, <2>2, <2>3, ForgottenBy
<1>18. CASE Retain(s)
  <2>1. ListsStay(s) /\ DriverStays /\ UNCHANGED <<gen, op, phase, cur, primary_mu, live_mu>> /\ op[s].pc = "idle"
    BY <1>18, RetainEffect
  <2> QED  BY <2>1, <1>4
<1>19. CASE Release(s) \/ ReleaseRetain(s)
  <2>1. /\ ListsStay(s) /\ UNCHANGED <<ctx_owner, gen, phase, cur, live_mu>>
        /\ op[s].pc = "idle" /\ primary_mu = Nobody
        /\ refs = 1 => PrimaryEmptied /\ op'[s].pc = "record" /\ primary_mu' = s
        /\ refs # 1 => UNCHANGED <<obj, capturing, op, primary_mu>>
    BY <1>19, DropEffect
  <2> QED  BY <2>1, <1>17, <1>4 DEF DriverStays
<1>20. CASE Reset(s)
  <2>1. ListsStay(s) /\ UNCHANGED <<ctx_owner, refs, gen, phase, cur>> /\ PrimaryEmptied /\ op[s].pc = "idle"
    BY <1>20, ResetEffect
  <2> QED  BY <2>1, <1>17
<1>21. CASE Record(s)
  <2>1. /\ op[s].pc = "record"
        /\ inv'[s].items = inv[s].items \ OldOfPrimary(inv[s], gen + 1)
        /\ inv'[s].captures = {p \in inv[s].captures : p.ctx = Primary => p.gen = gen + 1}
        /\ UNCHANGED <<capturing, ctx_owner, refs, phase, cur>>
    BY <1>21, RecordEffect
  <2>2. \A h \in Handles : Kept(h) /\ (obj'[h].untracked <=> (obj[h].untracked \/ GivenUp(s, h)))
    BY <1>21, RecordEffect
  <2>3. \A h \in Handles : obj[h].ctx # Primary
    BY <1>1, <2>1 DEF InPlace, Recording
  <2>4. ASSUME NEW h \in Handles, obj'[h].owner = s, ~obj'[h].untracked  PROVE OnRecord(s, h)'
    <3>1. ASSUME NEW d \in inv[s].items, ForItem(d, h)  PROVE d \in inv'[s].items
      <4> SUFFICES ASSUME d \in OldOfPrimary(inv[s], gen + 1)  PROVE FALSE
        BY <2>1
      <4>1. d.ctx = Primary
        BY DEF OldOfPrimary
      <4>2. d.kind = "graph"
        <5>1. StampFits(d) /\ Primary # NoCtx
          BY DEF Stamped, InventoryAssumption
        <5> QED  BY <1>2, <2>3, <3>1, <4>1, <5>1 DEF ForItem, StampFits, Kinds
      <4>3. Find(inv[s], "graph", h) # {}
        BY <3>1, <4>2 DEF Find, Key, ForItem
      <4>4. ASSUME NEW x \in inv'[s].items, Key(x) = <<"graph", h>>  PROVE FALSE
        <5>1. x \in inv[s].items /\ x \notin OldOfPrimary(inv[s], gen + 1)
          BY <2>1
        <5>2. x = d
          BY <3>1, <4>2, <4>4, <5>1, PartsTyped DEF KeyedOnce, Key, ForItem
        <5> QED  BY <5>1, <5>2
      <4>5. obj[h].owner = s
        BY <2>2, <2>4 DEF Kept
      <4> QED  BY <2>2, <2>4, <4>3, <4>4, <4>5 DEF GivenUp
    <3>2. \A d \in inv[s].captures : ForCapture(d, h) => d \in inv'[s].captures
      BY <2>1, <2>3 DEF ForCapture
    <3> QED  BY <2>1, <2>2, <2>3, <2>4, <3>1, <3>2, OwnRecordStays
  <2> QED  BY <2>1, <2>2, <2>3, <2>4, ForgottenBy
<1>22. ASSUME NEW e \in NextItems(s), Take(s, e)  PROVE NothingForgotten'
  <2>1. /\ op[s].pc = "idle" /\ op'[s].pc = "free" /\ op'[s].item = e
        /\ inv'[s].items = inv[s].items \ {e} /\ inv'[s].captures = inv[s].captures \ {e}
        /\ DriverStays /\ UNCHANGED <<refs, gen, phase, cur, live_mu>>
    BY <1>22, TakeEffect
  <2>2. \A h : Kept(h) /\ obj'[h] = obj[h] /\ capturing' = capturing
    BY <2>1 DEF DriverStays, Kept
  <2>3. ASSUME NEW h \in Handles, obj'[h].owner = s, ~obj'[h].untracked  PROVE OnRecord(s, h)'
    <3>1. OnRecord(s, h) /\ ~Freeing(s, obj[h].kind, h) /\ ~Freeing(s, "capture", h)
      BY <2>1, <2>2, <2>3 DEF NothingForgotten, Freeing
    <3>2. ASSUME NEW d \in inv[s].items, ForItem(d, h)  PROVE OnItems(s, h)' \/ Freeing(s, obj[h].kind, h)'
      <4>1. CASE d = e
        BY <2>1, <2>2, <3>2, <4>1 DEF Freeing, ForItem
      <4>2. CASE d # e
        BY <2>1, <2>2, <3>2, <4>2 DEF OnItems, ForItem
      <4> QED  BY <4>1, <4>2
    <3>3. ASSUME NEW d \in inv[s].captures, ForCapture(d, h)  PROVE OnCaptures(s, h)' \/ Freeing(s, "capture", h)'
      <4>1. CASE d = e
        BY <1>2, <2>1, <3>3, <4>1 DEF Freeing, ForCapture
      <4>2. CASE d # e
        BY <2>1, <2>2, <3>3, <4>2 DEF OnCaptures, ForCapture
      <4> QED  BY <4>1, <4>2
    <3>4. \E d \in inv[s].items : ForItem(d, h)
      BY <3>1 DEF OnRecord, OnItems, ForItem
    <3>5. h \in capturing => \E d \in inv[s].captures : ForCapture(d, h)
      BY <3>1 DEF OnRecord, OnCaptures, ForCapture
    <3>6. h \in capturing' => h \in capturing
      BY <2>2
    <3> QED  BY <3>2, <3>3, <3>4, <3>5, <3>6 DEF OnRecord
  <2> QED  BY <2>1, <2>2, <2>3, ForgottenBy
<1>23. ASSUME NEW e \in NextItems(s), Skip(s, e)  PROVE NothingForgotten'
  <2>1. /\ op[s].pc = "idle"
        /\ e.gen # NoDev /\ e.gen # gen
        /\ inv'[s].items = inv[s].items \ {e} /\ inv'[s].captures = inv[s].captures \ {e}
        /\ (obj[e.h].owner = s /\ obj[e.h].kind = e.kind /\ e.kind = "graph") => obj'[e.h].untracked
        /\ UNCHANGED <<capturing, ctx_owner, refs, gen, op, phase, cur, primary_mu, live_mu>>
    BY <1>23, SkipEffect
  <2>2. \A h \in Handles : Kept(h) /\ (obj[h].untracked => obj'[h].untracked)
    BY <1>23, SkipEffect
  <2>3. ASSUME NEW h \in Handles, obj'[h].owner = s, ~obj'[h].untracked  PROVE OnRecord(s, h)'
    <3>1. ASSUME NEW d \in inv[s].items, ForItem(d, h)  PROVE d \in inv'[s].items
      <4> SUFFICES ASSUME d = e  PROVE FALSE
        BY <2>1
      <4>1. StampFits(e) /\ e.kind \in Kinds
        BY <1>2 DEF Stamped
      <4>2. e.kind = "graph"
        BY <2>1, <3>1, <4>1 DEF ForItem, StampFits, Kinds
      <4>3. obj[e.h].owner = s /\ obj[e.h].kind = e.kind /\ e.h = h
        BY <2>2, <2>3, <3>1 DEF ForItem, Kept
      <4> QED  BY <2>1, <2>3, <4>2, <4>3
    <3>2. \A d \in inv[s].captures : ForCapture(d, h) => d \in inv'[s].captures
      BY <2>1 DEF ForCapture
    <3> QED  BY <2>1, <2>2, <2>3, <3>1, <3>2, OwnRecordStays
  <2> QED  BY <2>1, <2>2, <2>3, ForgottenBy
<1>24. ASSUME NEW g \in Handles, EndTaken(s, g)  PROVE NothingForgotten'
  <2> PICK h, e : h = op[s].item.h /\ e = Item("graph", g, op[s].item)
    OBVIOUS
  <2>1. /\ op[s].pc = "free" /\ op[s].item.kind = "capture" /\ obj[g] = NoObj /\ e.kind = "graph" /\ e.h = g
        /\ h \notin capturing => UNCHANGED <<obj, capturing>> /\ inv'[s].items = inv[s].items
        /\ h \in capturing =>
              /\ obj'[g].owner = s /\ obj'[g].kind = "graph" /\ obj'[g].ctx = NoCtx
              /\ \A x \in Handles \ {g} : obj'[x] = obj[x]
              /\ capturing' = capturing \ {h}
              /\ inv'[s].items = (inv[s].items \ Find(inv[s], "graph", g)) \union {e}
        /\ inv'[s].captures = inv[s].captures
        /\ UNCHANGED <<ctx_owner, refs, gen, phase, live_mu>>
    BY <1>24, EndTakenEffect
  <2>2. g \notin capturing
    BY <1>1, <1>3, <2>1 DEF InPlace
  <2>3. h \notin capturing'
    BY <2>1
  <2>4. ASSUME NEW x \in Handles, obj'[x].owner = s, ~obj'[x].untracked, x # g \/ h \notin capturing
        PROVE  OnRecord(s, x)'
    <3>1. Kept(x) /\ obj'[x] = obj[x] /\ (x \in capturing' => x \in capturing)
      BY <2>1, <2>4 DEF Kept
    <3>2. OnRecord(s, x) /\ obj[x].kind # "capture"
      BY <2>4, <3>1, PartsTyped DEF NothingForgotten, ObjRec, Kinds
    <3>3. ~Freeing(s, obj[x].kind, x)
      BY <2>1, <3>2 DEF Freeing
    <3>4. x \in capturing' => ~Freeing(s, "capture", x)
      BY <2>3 DEF Freeing
    <3>5. \A d \in inv[s].items : ForItem(d, x) => d \in inv'[s].items
      BY <2>1, <2>4 DEF ForItem, Find, Key
    <3> QED  BY <2>1, <3>1, <3>2, <3>3, <3>4, <3>5, RecordStays
  <2>5. h \in capturing => OnRecord(s, g)'
    <3> SUFFICES ASSUME h \in capturing  PROVE OnRecord(s, g)'
      OBVIOUS
    <3>1. g \notin capturing' /\ e \in inv'[s].items /\ obj'[g].kind = "graph"
      BY <2>1, <2>2
    <3> QED  BY <2>1, <3>1 DEF OnRecord, OnItems
  <2>6. \A x \in Handles : (obj'[x].owner = s /\ ~obj'[x].untracked) => OnRecord(s, x)'
    BY <2>4, <2>5
  <2>7. \A x \in Handles : obj'[x].owner \in Sessions \ {s} =>
          Kept(x) /\ (obj[x].untracked => obj'[x].untracked) /\ (x \in capturing' => x \in capturing)
    BY <2>1 DEF Kept
  <2> QED  BY <2>1, <2>6, <2>7, ForgottenBy
<1>25. CASE FreeTaken(s)
  <2> PICK h : h = op[s].item.h
    OBVIOUS
  <2>1. /\ op[s].pc = "free" /\ op[s].item.kind # "capture"
        /\ h \in Handles /\ inv[s].captures = {} /\ inv' = inv
        /\ \A x \in Handles \ {h} : obj'[x] = obj[x]
        /\ MayFree(s) => obj'[h] = NoObj /\ capturing' = capturing \ {h}
        /\ ~MayFree(s) => Kept(h) /\ capturing' = capturing
                          /\ (obj'[h].untracked <=> (obj[h].untracked \/ UnknownCapture(s)))
        /\ UNCHANGED <<ctx_owner, refs, gen, phase, live_mu>>
    BY <1>25, FreeTakenEffect
  <2>2. ~MayFree(s) => obj'[h].untracked
    <3> SUFFICES ASSUME NEW x \in capturing, obj[x].owner = s, ~obj[x].untracked  PROVE FALSE
      BY <2>1 DEF MayFree, UnknownCapture
    <3>1. x \in Handles
      BY PartsTyped
    <3>2. OnRecord(s, x)
      BY <3>1 DEF NothingForgotten
    <3> QED  BY <2>1, <3>2 DEF OnRecord, OnCaptures, Freeing
  <2>3. ASSUME NEW x \in Handles, obj'[x].owner = s, ~obj'[x].untracked  PROVE OnRecord(s, x)'
    <3>1. x # h
      BY <1>3, <2>1, <2>2, <2>3
    <3>2. Kept(x) /\ obj'[x] = obj[x] /\ (x \in capturing' => x \in capturing)
      BY <2>1, <3>1 DEF Kept
    <3>3. OnRecord(s, x)
      BY <2>3, <3>2 DEF NothingForgotten
    <3>4. ~Freeing(s, obj[x].kind, x) /\ ~Freeing(s, "capture", x)
      BY <2>1, <3>1 DEF Freeing
    <3> QED  BY <2>1, <3>2, <3>3, <3>4, RecordStays
  <2>4. \A x \in Handles : obj'[x].owner \in Sessions \ {s} =>
          Kept(x) /\ (obj[x].untracked => obj'[x].untracked) /\ (x \in capturing' => x \in capturing)
    <3>1. obj[h].owner = s
      BY <2>1 DEF EntriesTrue, FreesTrue, Lives
    <3> QED  BY <1>3, <2>1, <3>1 DEF Kept
  <2> QED  BY <2>1, <2>3, <2>4, ForgottenBy
<1>26. ASSUME NEW c \in CtxAddrs, ReleaseContext(s, c)  PROVE NothingForgotten'
  <2>1. /\ op[s].pc = "idle" /\ inv[s].items = {} /\ inv[s].captures = {}
        /\ \A h \in Handles : obj'[h] = IF obj[h].ctx = c THEN NoObj ELSE obj[h]
        /\ capturing' = {h \in capturing : obj[h].ctx # c}
        /\ UNCHANGED <<refs, gen, op, phase, primary_mu, live_mu>>
    BY <1>26, ReleaseContextEffect
  <2>2. \A h \in Handles : obj'[h].owner \in Sessions =>
          obj'[h] = obj[h] /\ Kept(h) /\ (h \in capturing' => h \in capturing)
    BY <1>3, <2>1 DEF Kept
  <2>3. \A h \in Handles : (obj'[h].owner = s /\ ~obj'[h].untracked) => OnRecord(s, h)'
    BY <2>1, <2>2, OwnRecordStays
  <2>4. \A h \in Handles : obj'[h].owner \in Sessions \ {s} =>
          Kept(h) /\ (obj[h].untracked => obj'[h].untracked) /\ (h \in capturing' => h \in capturing)
    BY <2>2
  <2> QED  BY <2>1, <2>3, <2>4, ForgottenBy
<1>28. CASE RetainsRefused(s)
  <2>1. ListsStay(s) /\ DriverStays /\ UNCHANGED <<gen, op, phase, cur, primary_mu, live_mu>> /\ op[s].pc = "idle"
    BY <1>28, RefusedEffect
  <2> QED  BY <2>1, <1>4
<1>27. bound.ctxs \subseteq CtxAddrs
  BY DEF ListsInv, DriverTyped, InventoryAssumption
<1> QED
  BY <1>5, <1>6, <1>7, <1>8, <1>9, <1>10, <1>11, <1>12, <1>13, <1>14, <1>15, <1>16, <1>18, <1>19, <1>20, <1>21,
     <1>22, <1>23, <1>24, <1>25, <1>26, <1>27, <1>28 DEF Step, Call, Expiry

-----------------------------------------------------------------------------
(* The theorems.                                                           *)

(* It holds at first, with nothing made.                                   *)
LEMMA TruthInit == ASSUME InventoryAssumption, Init  PROVE TruthInv
<1>1. ListsInv
  BY ListsInit
<1>2. /\ obj = [h \in Handles |-> NoObj] /\ capturing = {} /\ ctx_owner = [c \in CtxAddrs |-> Nobody]
      /\ \A s \in Sessions : inv[s] = EmptyInventory /\ op[s] = Idle /\ cur[s] = NoCtx
  BY DEF Init
<1>3. /\ \A s \in Sessions : inv[s].items = {} /\ inv[s].captures = {} /\ inv[s].contexts = {}
      /\ \A s \in Sessions : op[s].pc = "idle"
  BY <1>2 DEF EmptyInventory, Idle
<1>4. \A h \in Handles : obj[h].owner = Nobody /\ obj[h].kind = "none" /\ obj[h].ctx = NoCtx
  BY <1>2 DEF NoObj
<1>5. ContextsOwned
  BY <1>2, <1>3, <1>4 DEF ContextsOwned, InPlace, InventoryAssumption
<1>6. Stamped /\ EntriesTrue
  BY <1>3 DEF Stamped, EntriesTrue, FreesTrue
<1>7. NothingForgotten
  BY <1>4 DEF NothingForgotten, InventoryAssumption
<1> QED  BY <1>1, <1>5, <1>6, <1>7 DEF TruthInv

(* Every step keeps it.                                                    *)
LEMMA TruthStep ==
  ASSUME InventoryAssumption, TruthInv, [Next]_vars
  PROVE  TruthInv'
<1>1. ListsInv'
  BY ListsStep DEF TruthInv
<1>2. CASE Next
  <2>1. PICK s \in Sessions : Step(s) /\ UNCHANGED bound
    BY <1>2 DEF Next
  <2>2. ContextsOwned' /\ Stamped' /\ EntriesTrue'
    BY <2>1, OwnedStep, StampedStep, EntriesStep DEF TruthInv
  <2>3. NothingForgotten'
    BY <2>1, ForgottenStep DEF TruthInv
  <2> QED  BY <1>1, <2>2, <2>3 DEF TruthInv
<1>3. CASE UNCHANGED vars
  <2>1. ContextsOwned' /\ Stamped'
    BY <1>3 DEF vars, TruthInv, ContextsOwned, InPlace, Recording, Stamped, StampFits, InContext, PastGens
  <2>2. EntriesTrue'
    BY <1>3 DEF vars, TruthInv, EntriesTrue, FreesTrue, Current, Dated, Lives, Recording, Key
  <2>3. NothingForgotten'
    BY <1>3 DEF vars, TruthInv, NothingForgotten, OnRecord, OnItems, OnCaptures, Freeing
  <2> QED  BY <1>1, <2>1, <2>2, <2>3 DEF TruthInv
<1> QED  BY <1>2, <1>3

(* What the lists say of the driver is true, and what the driver holds is  *)
(* on them, whatever the sessions do to the contexts they share.           *)
THEOREM TruthHolds == Spec => []TruthInv
<1>1. Init => TruthInv
  BY TruthInit, InventoryAssumption
<1>2. TruthInv /\ [Next]_vars => TruthInv'
  BY TruthStep, InventoryAssumption
<1> QED  BY <1>1, <1>2, PTL DEF Spec

(* Expiry never frees what another session was given at the same address,  *)
(* or nothing. (release_items, unless_destroyed.)                          *)
THEOREM AlwaysFreesItsOwn == Spec => []FreesItsOwn
<1>1. ASSUME TruthInv, NEW s \in Sessions, op[s].pc = "free", NEW e, e = op[s].item
      PROVE  /\ obj[e.h].owner = s
             /\ obj[e.h].kind = IF e.kind = "capture" THEN "bound" ELSE e.kind
             /\ obj[e.h].kind = "bound" => CtxAlive(obj[e.h].ctx)
  <2>1. e.h \in Handles
    BY <1>1, ItemHandle DEF TruthInv, ListsInv
  <2>2. Lives(s, e)
    BY <1>1 DEF TruthInv, EntriesTrue, FreesTrue
  <2>3. InPlace(e.h)
    BY <1>1, <2>1 DEF TruthInv, ContextsOwned
  <2> QED  BY <2>2, <2>3 DEF Lives, InPlace, CtxAlive
<1>2. TruthInv => FreesItsOwn
  BY <1>1 DEF FreesItsOwn
<1> QED  BY <1>2, TruthHolds, PTL

(* An expired session leaves nothing in the driver but what is given up by *)
(* design, and no lock. (release_inventory.)                               *)
THEOREM AlwaysLeavesNothing == Spec => []LeavesNothing
<1>1. ASSUME TruthInv, NEW s \in Sessions, phase[s] = "ended"
      PROVE  /\ \A h \in Handles : obj[h].owner = s => obj[h].untracked
             /\ \A c \in CtxAddrs : ctx_owner[c] # s
             /\ primary_mu # s /\ live_mu # s
  <2>1. /\ inv[s].items = {} /\ inv[s].captures = {} /\ inv[s].contexts = {}
        /\ op[s].pc \notin {"free", "record"}
    BY <1>1 DEF TruthInv, ListsInv, PhasesAgree
  <2>2. \A h \in Handles : obj[h].owner = s => obj[h].untracked
    BY <1>1, <2>1 DEF TruthInv, NothingForgotten, OnRecord, OnItems, Freeing
  <2>3. \A c \in CtxAddrs : ctx_owner[c] # s
    BY <1>1, <2>1 DEF TruthInv, ContextsOwned
  <2>4. primary_mu # s /\ live_mu # s
    BY <1>1, <2>1 DEF TruthInv, ListsInv, Locks
  <2> QED  BY <2>2, <2>3, <2>4
<1>2. TruthInv => LeavesNothing
  BY <1>1 DEF LeavesNothing
<1> QED  BY <1>2, TruthHolds, PTL

(* A session that gives back the only reference, when none has been taken  *)
(* from another, leaves none retained.                                     *)
LEMMA LastReference ==
  ASSUME InventoryAssumption, ListsInv, NEW t \in Sessions, inv[t].retains > 0, refs = 1,
         overdrawn = 0, NEW s \in Sessions \ {t}
  PROVE  inv[s].retains = 0
<1>1. inv[s].retains \in Nat /\ inv[t].retains \in Nat
  BY DEF ListsInv, SessionsTyped, InvRec, InventoryAssumption
<1>2. SUFFICES ASSUME inv[s].retains > 0  PROVE FALSE
  BY <1>1
<1>3. <<s, 1>> \in Retained /\ <<t, 1>> \in Retained
  BY <1>1, <1>2 DEF Retained, InventoryAssumption
<1>4. PICK x : Retained = {x}
  <2>1. IsFiniteSet(Retained) /\ refs + overdrawn = Cardinality(Retained)
    BY DEF ListsInv, Counted, RetainsAreCounted
  <2>2. Cardinality(Retained) = 1
    BY <2>1
  <2> QED  BY <2>1, <2>2, FS_Singleton
<1>5. <<s, 1>> = <<t, 1>>
  BY <1>3, <1>4
<1> QED  BY <1>5

(* What a session takes of another's is in the primary context, which the  *)
(* other does not retain, or some retain of which has been taken.          *)
LEMMA TakenByOthers ==
  ASSUME InventoryAssumption, TruthInv, NEW t \in Sessions, Step(t), UNCHANGED bound,
         NEW s \in Sessions \ {t}, NEW h \in Handles, obj[h].owner = s, obj'[h].owner # s
  PROVE  obj[h].ctx = Primary /\ (inv[s].retains = 0 \/ (overdrawn' > 0 /\ refs' = 0))
<1>1. ListsInv /\ InPlace(h)
  BY DEF TruthInv, ContextsOwned
<1>2. \A c \in CtxAddrs : (c \in inv[t].contexts => ctx_owner[c] = t)
  BY DEF TruthInv, ContextsOwned
<1>3. s \in Sessions /\ s # t /\ NoObj.owner # s
  BY DEF InventoryAssumption, NoObj
<1>4. ASSUME Kept(h)  PROVE FALSE
  BY <1>4 DEF Kept
<1>5. PrimaryEmptied => obj[h].ctx = Primary
  BY DEF PrimaryEmptied
<1>6. CASE Bind(t)
  BY <1>6, <1>1, BindEffect DEF DriverStays
<1>7. ASSUME NEW c \in Ctxs \union {NoCtx}, Select(t, c)  PROVE FALSE
  BY <1>7, <1>1, SelectEffect DEF DriverStays
<1>8. ASSUME NEW k \in Kinds, BeginMake(t, k)  PROVE FALSE
  BY <1>8 DEF BeginMake, driverVars
<1>9. CASE MakeFails(t)
  BY <1>9, <1>1, MakeFailsEffect DEF DriverStays
<1>10. CASE Expire(t)
  BY <1>10, <1>1, ExpireEffect DEF DriverStays
<1>11. CASE Unbind(t)
  BY <1>11, <1>1, UnbindEffect DEF DriverStays
<1>12. ASSUME NEW x \in Handles, Make(t, x)  PROVE FALSE
  <2>1. obj[x] = NoObj /\ \A g \in Handles \ {x} : obj'[g] = obj[g]
    BY <1>12, <1>1, MakeEffect
  <2> QED  BY <1>3, <2>1
<1>13. ASSUME NEW x \in Handles, Free(t, x)  PROVE FALSE
  <2>1. obj[x].owner = t /\ \A g \in Handles \ {x} : obj'[g] = obj[g]
    BY <1>13, <1>1, FreeEffect
  <2> QED  BY <1>3, <2>1
<1>14. ASSUME NEW x \in Handles, BeginCapture(t, x)  PROVE FALSE
  BY <1>14 DEF BeginCapture
<1>15. ASSUME NEW x \in Handles, NEW g \in Handles, EndCapture(t, x, g)  PROVE FALSE
  <2>1. obj[g] = NoObj /\ \A y \in Handles \ {g} : obj'[y] = obj[y]
    BY <1>15, <1>1, EndCaptureEffect
  <2> QED  BY <1>3, <2>1
<1>16. ASSUME NEW c \in CtxAddrs, CreateContext(t, c)  PROVE FALSE
  BY <1>16 DEF CreateContext
<1>17. ASSUME NEW c \in CtxAddrs, DestroyContext(t, c)  PROVE FALSE
  <2>1. ctx_owner[c] = t
    BY <1>17 DEF DestroyContext
  <2>2. obj[h].ctx # c => Kept(h)
    BY <1>17, <1>1, DestroyEffect
  <2> QED  BY <1>1, <1>3, <1>4, <2>1, <2>2 DEF InPlace
<1>18. CASE Retain(t)
  BY <1>18, <1>1, RetainEffect DEF DriverStays
<1>19. CASE Release(t) \/ ReleaseRetain(t)
  <2>1. /\ refs' = refs - 1
        /\ refs = 1 => PrimaryEmptied /\ op'[t].pc = "record" /\ primary_mu' = t
        /\ refs # 1 => UNCHANGED <<obj, capturing, op, primary_mu>>
    BY <1>19, <1>1, DropEffect
  <2>2. refs = 1 /\ refs' = 0
    BY <2>1
  <2>3. overdrawn \in Nat /\ inv[t].retains \in Nat
    BY <1>1, PartsTyped DEF ListsInv, Counted, InvRec
  <2>4. CASE inv[t].retains > 0 /\ overdrawn = 0
    <3>1. inv[s].retains = 0
      BY <1>1, <2>2, <2>4, LastReference
    <3> QED  BY <1>5, <2>1, <2>2, <3>1
  <2>5. CASE inv[t].retains = 0 \/ overdrawn > 0
    <3>1. overdrawn' > 0
      BY <1>19, <2>3, <2>5 DEF Release, ReleaseRetain, RetainsNext, Owed
    <3> QED  BY <1>5, <2>1, <2>2, <3>1
  <2> QED  BY <2>3, <2>4, <2>5
<1>20. CASE Reset(t)
  <2>1. PrimaryEmptied /\ \A u \in Sessions \ {t} : u \notin LiveSessions
    BY <1>20, <1>1, ResetEffect
  <2>2. phase[s] \in {"new", "ended"}
    BY <1>1, <2>1 DEF LiveSessions, ListsInv, SessionsTyped, Phases
  <2>3. inv[s].retains = 0
    BY <1>1, <2>2 DEF ListsInv, PhasesAgree
  <2> QED  BY <1>5, <2>1, <2>3
<1>21. CASE Record(t)
  BY <1>21, <1>1, <1>4, RecordEffect
<1>22. ASSUME NEW e \in NextItems(t), Take(t, e)  PROVE FALSE
  BY <1>22 DEF Take, driverVars
<1>23. ASSUME NEW e \in NextItems(t), Skip(t, e)  PROVE FALSE
  BY <1>23, <1>1, <1>4, SkipEffect
<1>24. ASSUME NEW g \in Handles, EndTaken(t, g)  PROVE FALSE
  <2> PICK x, e : x = op[t].item.h /\ e = Item("graph", g, op[t].item)
    OBVIOUS
  <2>1. /\ obj[g] = NoObj
        /\ x \notin capturing => UNCHANGED <<obj, capturing>> /\ inv'[t].items = inv[t].items
        /\ x \in capturing =>
              /\ obj'[g].owner = t /\ obj'[g].kind = "graph" /\ obj'[g].ctx = NoCtx
              /\ \A y \in Handles \ {g} : obj'[y] = obj[y]
    BY <1>24, <1>1, EndTakenEffect
  <2> QED  BY <1>3, <2>1
<1>25. CASE FreeTaken(t)
  <2> PICK x : x = op[t].item.h
    OBVIOUS
  <2>1. op[t].pc = "free" /\ \A y \in Handles \ {x} : obj'[y] = obj[y]
    BY <1>25, <1>1, FreeTakenEffect
  <2>2. obj[x].owner = t
    BY <2>1 DEF TruthInv, EntriesTrue, FreesTrue, Lives
  <2> QED  BY <1>3, <2>1, <2>2
<1>26. ASSUME NEW c \in CtxAddrs, ReleaseContext(t, c)  PROVE FALSE
  <2>1. c \in inv[t].contexts /\ obj'[h] = IF obj[h].ctx = c THEN NoObj ELSE obj[h]
    BY <1>26, <1>1, ReleaseContextEffect
  <2> QED  BY <1>1, <1>2, <1>3, <2>1 DEF InPlace
<1>28. CASE RetainsRefused(t)
  BY <1>28, <1>1, RefusedEffect DEF DriverStays
<1>27. bound.ctxs \subseteq CtxAddrs
  BY <1>1 DEF ListsInv, DriverTyped, InventoryAssumption
<1> QED
  BY <1>6, <1>7, <1>8, <1>9, <1>10, <1>11, <1>12, <1>13, <1>14, <1>15, <1>16, <1>17, <1>18, <1>19, <1>20, <1>21,
     <1>22, <1>23, <1>24, <1>25, <1>26, <1>27, <1>28 DEF Step, Call, Expiry

(* Nobody but its owner takes what a session made, but with the primary    *)
(* context: when the session holds no retain on it, or by the last release *)
(* once some client has released a retain it did not have.  (The refusal   *)
(* of resets, the counting of live sessions and, at expiry, of retains.)   *)
THEOREM OthersNeverTake == Spec => OthersTakeNothing
<1>1. ASSUME TruthInv, [Next]_vars, NEW s \in Sessions, NEW h \in Handles,
             obj[h].owner = s, obj'[h].owner # s, NEW u \in Sessions \ {s}, ActedUpon(u)
      PROVE  obj[h].ctx = Primary /\ (inv[s].retains = 0 \/ (overdrawn' > 0 /\ refs' = 0))
  <2>1. PICK t \in Sessions : Step(t) /\ UNCHANGED bound
    BY <1>1 DEF Next, vars
  <2>2. t = u
    BY <1>1, <2>1, OthersStay DEF ActedUpon, TruthInv
  <2> QED  BY <1>1, <2>1, <2>2, TakenByOthers, InventoryAssumption
<1>2. ASSUME TruthInv, [Next]_vars
      PROVE  [\A s \in Sessions : \A h \in Handles :
                obj[h].owner = s /\ obj'[h].owner # s
                  /\ (\E u \in Sessions \ {s} : ActedUpon(u))
                => obj[h].ctx = Primary /\ (inv[s].retains = 0 \/ (overdrawn' > 0 /\ refs' = 0))]_vars
  BY <1>1, <1>2
<1> QED  BY <1>2, TruthHolds, PTL DEF Spec, OthersTakeNothing
=============================================================================
