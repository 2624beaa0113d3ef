------------------------- MODULE ContextStacksProofs -------------------------
(***************************************************************************)
(* For any number of threads, contexts and settings of ContextStacks: the  *)
(* server knows what its serving thread has current, no slot names a       *)
(* destroyed context as if it lived, and a request runs in the context and *)
(* the mode of its own thread.  With a driver that does as it is asked, it *)
(* implements ThreadContexts.                                              *)
(***************************************************************************)
EXTENDS ContextStacks, SequenceTheorems, TLAPS

-----------------------------------------------------------------------------
(* The inductive invariant.                                                *)

Serving == [stack : Seq(Entries), mode : Modes,
            applied : Addrs \union {NoCtx}, applied_mode : Modes]
ReqRec  == [pc : {"idle", "call", "destroyed", "after"}, t : Threads \union {Idle.t},
            ctx : Addrs \union {NoCtx}, answer : AnswerRec]

StacksTyped ==
  /\ at \in [Addrs -> Ctxs] /\ created \in 1 .. MaxCtxs /\ ours \subseteq Ctxs \ {NoContext}
  /\ serving \in Serving
  /\ slot \in [Threads -> SlotRec]
  /\ req \in ReqRec
  /\ req.pc # "idle" => req.t \in Threads

(* The primary context lives, where it always did.                         *)
PrimaryLives == at[Primary] \in ours

(* What the server takes to be current is.  While a request runs that may  *)
(* not be so: of a context that is being destroyed, and after a library    *)
(* made the primary context current.                                       *)
Believes(w) == w.applied = DriverCurrent(w)
ServingKnown ==
  /\ serving.applied_mode = serving.mode
  /\ \/ Believes(serving)
     \/ req.pc = "destroyed" /\ serving.applied = req.ctx
     \/ req.pc = "after" /\ DriverCurrent(serving) = Primary

(* An entry names the context it was made of, which lives, or is known to  *)
(* be destroyed.  The context being destroyed is not yet swept.            *)
Sound(e)  == e.gone \/ (at[e.ctx] = e.of /\ e.of \in ours)
Named(sl) == \A i \in DOMAIN sl.stack : sl.stack[i].ctx \in sl.ctxs
SlotsSound ==
  \A t \in Threads :
    /\ Named(slot[t])
    /\ \A i \in DOMAIN slot[t].stack :
         Sound(slot[t].stack[i]) \/ (req.pc = "destroyed" /\ slot[t].stack[i].ctx = req.ctx)

(* A call is made only for the thread that is shown.                       *)
CallShown == req.pc = "call" => Shown(serving, slot[req.t])

StacksInv == StacksTyped /\ PrimaryLives /\ ServingKnown /\ SlotsSound /\ CallShown

-----------------------------------------------------------------------------
(* Stacks: what they hold after a push, a pop and a new top.               *)

(* A stack with an entry appended holds that and what it held.             *)
LEMMA AppendHolds ==
  ASSUME NEW st \in Seq(Entries), NEW e \in Entries
  PROVE  /\ Append(st, e) \in Seq(Entries) /\ Append(st, e) # <<>> /\ Last(Append(st, e)) = e
         /\ \A i \in DOMAIN Append(st, e) : Append(st, e)[i] = e \/ (i \in DOMAIN st /\ Append(st, e)[i] = st[i])
<1> DEFINE a == Append(st, e)
           n == Len(st)
<1>1. /\ a \in Seq(Entries) /\ a # <<>> /\ Len(a) = n + 1 /\ a[n + 1] = e
      /\ \A i \in 1 .. n : a[i] = st[i]
  BY AppendProperties
<1>2. Last(a) = e
  BY <1>1 DEF Last
<1>3. DOMAIN a = 1 .. Len(a) /\ DOMAIN st = 1 .. n /\ n \in Nat
  BY <1>1, LenProperties
<1> HIDE DEF a, n
<1>4. \A i \in DOMAIN a : i = n + 1 \/ i \in 1 .. n
  <2>1. DOMAIN a = 1 .. n + 1 /\ n \in Nat
    BY <1>1, <1>3
  <2>2. QED
    BY <2>1
<1>5. \A i \in DOMAIN a : a[i] = e \/ (i \in DOMAIN st /\ a[i] = st[i])
  <2>1. a[n + 1] = e /\ DOMAIN st = 1 .. n /\ \A i \in 1 .. n : a[i] = st[i]
    BY <1>1, <1>3
  <2>2. QED
    BY <1>4, <2>1, Zenon
<1>6. QED
  BY <1>1, <1>2, <1>5 DEF a

(* A stack with its top popped holds what was under it.                    *)
LEMMA FrontHolds ==
  ASSUME NEW st \in Seq(Entries), st # <<>>
  PROVE  /\ Front(st) \in Seq(Entries)
         /\ \A i \in DOMAIN Front(st) : i \in DOMAIN st /\ Front(st)[i] = st[i]
         /\ Last(st) \in Entries /\ Len(st) \in DOMAIN st /\ Last(st) = st[Len(st)]
BY DEF Front, Last

(* A stack with its top replaced holds the new top and what it held.       *)
LEMMA WithTopHolds ==
  ASSUME NEW st \in Seq(Entries), NEW e \in Entries
  PROVE  /\ WithTop(st, e) \in Seq(Entries) /\ WithTop(st, e) # <<>> /\ Last(WithTop(st, e)) = e
         /\ \A i \in DOMAIN WithTop(st, e) :
              WithTop(st, e)[i] = e \/ (i \in DOMAIN st /\ WithTop(st, e)[i] = st[i])
<1>1. CASE st = <<>>
  <2>1. WithTop(st, e) = Append(st, e)
    BY <1>1 DEF WithTop
  <2>2. QED
    BY <2>1, AppendHolds
<1>2. CASE st # <<>>
  <2>1. /\ Front(st) \in Seq(Entries)
        /\ \A i \in DOMAIN Front(st) : i \in DOMAIN st /\ Front(st)[i] = st[i]
    BY <1>2, FrontHolds
  <2>2. WithTop(st, e) = Append(Front(st), e)
    BY <1>2 DEF WithTop
  <2>3. QED
    BY <2>1, <2>2, AppendHolds
<1>3. QED
  BY <1>1, <1>2

-----------------------------------------------------------------------------
(* What the operations do to the serving thread.                           *)

(* The server knows what the serving thread has current, and in what mode. *)
Known(w) == w \in Serving /\ Believes(w) /\ w.applied_mode = w.mode

(* Reading the driver back makes the thread believe what is so.            *)
LEMMA ReadBackKnows ==
  ASSUME NEW w \in Serving
  PROVE  /\ ReadBack(w) \in Serving /\ Believes(ReadBack(w))
         /\ ReadBack(w).mode = w.mode /\ ReadBack(w).applied_mode = w.applied_mode
<1>1. DriverCurrent(w) \in Addrs \union {NoCtx}
  <2>1. w.stack \in Seq(Entries)
    BY DEF Serving
  <2>2. CASE w.stack # <<>>
    <3>1. Last(w.stack) \in Entries
      BY <2>1, <2>2, FrontHolds
    <3>2. QED
      BY <2>2, <3>1 DEF DriverCurrent, Entries
  <2>3. CASE w.stack = <<>>
    BY <2>3 DEF DriverCurrent
  <2>4. QED
    BY <2>2, <2>3
<1>2. /\ ReadBack(w) \in Serving
      /\ ReadBack(w).mode = w.mode /\ ReadBack(w).applied_mode = w.applied_mode
      /\ ReadBack(w).applied = DriverCurrent(w) /\ ReadBack(w).stack = w.stack
  BY <1>1 DEF ReadBack, Serving
<1>3. QED
  BY <1>2 DEF Believes, DriverCurrent

(* A pop by the driver leaves what the thread has applied.                 *)
LEMMA DriverPopTyped ==
  ASSUME NEW w \in Serving, w.applied_mode = w.mode
  PROVE  /\ DriverPop(w) \in Serving /\ DriverPop(w).applied_mode = DriverPop(w).mode
         /\ DriverPop(w).applied = w.applied
<1> DEFINE st == IF w.stack = <<>> THEN w.stack ELSE Front(w.stack)
<1>1. w.stack \in Seq(Entries)
  BY DEF Serving
<1>2. st \in Seq(Entries)
  BY <1>1, FrontHolds
<1>3. DriverPop(w) = [w EXCEPT !.stack = st]
  BY DEF DriverPop
<1> HIDE DEF st
<1>4. QED
  BY <1>2, <1>3 DEF Serving

(* Clearing the thread leaves it knowing what is current.                  *)
LEMMA ClearKnows ==
  ASSUME NEW w, Known(w), NEW may
  PROVE  Known(Clear(w, may))
<1>1. CASE w.applied = NoCtx
  BY <1>1 DEF Clear
<1>2. CASE w.applied # NoCtx /\ may.none
  <2> DEFINE c == [w EXCEPT !.stack = <<>>, !.applied = NoCtx]
  <2>1. /\ c \in Serving /\ c.stack = <<>> /\ c.applied = NoCtx
        /\ c.mode = w.mode /\ c.applied_mode = w.applied_mode
    BY EmptySeq DEF Serving, Known
  <2>2. Clear(w, may) = c
    BY <1>2 DEF Clear
  <2> HIDE DEF c
  <2>3. QED
    BY <2>1, <2>2 DEF Known, Believes, DriverCurrent
<1>3. CASE w.applied # NoCtx /\ ~may.none
  BY <1>3, ReadBackKnows DEF Clear, Known
<1>4. QED
  BY <1>1, <1>2, <1>3

(* The driver is set to a context, and is believed to have it.             *)
LEMMA SetKnows ==
  ASSUME NEW w, Known(w), NEW a \in Addrs, at[a] \in Ctxs
  PROVE  LET v == [DriverSet(w, a) EXCEPT !.applied = a]
         IN  Known(v) /\ v.applied = a
<1> DEFINE v == [DriverSet(w, a) EXCEPT !.applied = a]
<1>1. Entry(a) \in Entries /\ Entry(a).ctx = a
  BY DEF Entry, Entries
<1>2. w.stack \in Seq(Entries)
  BY DEF Serving, Known
<1> HIDE DEF Entry
<1>3. /\ WithTop(w.stack, Entry(a)) \in Seq(Entries) /\ WithTop(w.stack, Entry(a)) # <<>>
      /\ Last(WithTop(w.stack, Entry(a))) = Entry(a)
  BY <1>1, <1>2, WithTopHolds
<1>4. /\ v \in Serving /\ v.applied = a /\ v.mode = w.mode /\ v.applied_mode = w.applied_mode
      /\ v.stack = WithTop(w.stack, Entry(a))
  BY <1>3 DEF DriverSet, Serving, Known
<1> HIDE DEF v
<1>5. Known(v)
  BY <1>1, <1>3, <1>4 DEF Known, Believes, DriverCurrent
<1>6. QED
  BY <1>4, <1>5 DEF v

-----------------------------------------------------------------------------
(* What they do to a slot.                                                 *)

(* sl is a slot whose entries are those of old, or known to be destroyed.  *)
SlotFrom(sl, old) ==
  /\ sl \in SlotRec /\ Named(sl)
  /\ \A i \in DOMAIN sl.stack :
       sl.stack[i].gone \/ (i \in DOMAIN old.stack /\ sl.stack[i] = old.stack[i])

(* A thread is shown, or its context is found to be gone.                  *)
LEMMA ShowContextKnows ==
  ASSUME NEW w, Known(w), NEW sl \in SlotRec, Named(sl), at \in [Addrs -> Ctxs], NEW may
  PROVE  LET s == ShowContext(w, sl, may)
         IN  Known(s.w) /\ SlotFrom(s.sl, sl) /\ s.sl.mode = sl.mode
<1>1. SlotFrom(sl, sl)
  BY DEF SlotFrom
<1>2. sl.stack \in Seq(Entries)
  BY DEF SlotRec
<1>3. CASE Current(sl) = NoCtx
  <2>1. ShowContext(w, sl, may) = [w |-> Clear(w, may), sl |-> sl]
    BY <1>3 DEF ShowContext
  <2>2. QED
    BY <1>1, <2>1, ClearKnows
<1>4. CASE Current(sl) # NoCtx /\ Current(sl) = w.applied
  <2>1. ShowContext(w, sl, may) = [w |-> w, sl |-> sl]
    BY <1>4 DEF ShowContext
  <2>2. QED
    BY <1>1, <2>1
<1>5. CASE Current(sl) # NoCtx /\ Current(sl) # w.applied
  <2>1. sl.stack # <<>> /\ Current(sl) = Last(sl.stack).ctx
    BY <1>5 DEF Current
  <2>2. Last(sl.stack) \in Entries /\ Last(sl.stack).ctx \in sl.ctxs
    <3>1. /\ Last(sl.stack) \in Entries
          /\ Len(sl.stack) \in DOMAIN sl.stack /\ Last(sl.stack) = sl.stack[Len(sl.stack)]
      BY <1>2, <2>1, FrontHolds
    <3>2. QED
      BY <3>1 DEF Named
  <2>3. Current(sl) \in Addrs
    BY <2>1, <2>2 DEF Entries
  <2>4. CASE may.set
    <3>1. ShowContext(w, sl, may) = [w |-> [DriverSet(w, Current(sl)) EXCEPT !.applied = Current(sl)],
                                     sl |-> sl]
      BY <1>5, <2>4 DEF ShowContext
    <3>2. QED
      BY <1>1, <2>3, <3>1, SetKnows
  <2>5. CASE ~may.set
    <3> DEFINE e  == MarkGone(Last(sl.stack))
               st == WithTop(sl.stack, e)
               n  == [sl EXCEPT !.stack = st]
    <3>1. ShowContext(w, sl, may) = [w |-> Clear(ReadBack(w), may), sl |-> n]
      BY <1>5, <2>5 DEF ShowContext
    <3>2. e \in Entries /\ e.gone /\ e.ctx \in sl.ctxs
      BY <2>2 DEF MarkGone, Entries
    <3> HIDE DEF e
    <3>3. /\ st \in Seq(Entries)
          /\ \A i \in DOMAIN st : st[i] = e \/ (i \in DOMAIN sl.stack /\ st[i] = sl.stack[i])
      BY <1>2, <3>2, WithTopHolds
    <3> HIDE DEF st
    <3>4. n \in SlotRec /\ n.stack = st /\ n.ctxs = sl.ctxs /\ n.mode = sl.mode
      BY <3>3 DEF SlotRec
    <3> HIDE DEF n
    <3>5. SlotFrom(n, sl)
      BY <3>2, <3>3, <3>4 DEF SlotFrom, Named
    <3>6. Known(Clear(ReadBack(w), may))
      BY ReadBackKnows, ClearKnows DEF Known
    <3>7. QED
      BY <3>1, <3>4, <3>5, <3>6
  <2>6. QED
    BY <2>4, <2>5
<1>6. QED
  BY <1>3, <1>4, <1>5

(* So does showing it a slot, whatever the driver answers; of the slot     *)
(* only what has died is dropped.                                          *)
LEMMA ShowKnows ==
  ASSUME NEW w, Known(w), NEW sl \in SlotRec, Named(sl), at \in [Addrs -> Ctxs], NEW may
  PROVE  LET s == Show(w, sl, may)
         IN  Known(s.w) /\ SlotFrom(s.sl, sl) /\ s.sl.mode = sl.mode
<1> DEFINE c == ShowContext(w, sl, may)
           s == Show(w, sl, may)
<1>1. Known(c.w) /\ SlotFrom(c.sl, sl) /\ c.sl.mode = sl.mode
  BY ShowContextKnows
<1>2. \E x, y : c = [w |-> x, sl |-> y]
  BY DEF ShowContext
<1>3. s = IF ContextShown(c.w, c.sl) THEN [c EXCEPT !.w = ShowMode(c.w, c.sl, may)] ELSE c
  BY DEF Show
<1> HIDE DEF c, s
<1>4. s.sl = c.sl /\ (s.w = c.w \/ s.w = ShowMode(c.w, c.sl, may))
  BY <1>2, <1>3
<1>5. Known(ShowMode(c.w, c.sl, may))
  <2> DEFINE v == [c.w EXCEPT !.mode = c.sl.mode, !.applied_mode = c.sl.mode]
  <2>1. c.sl.mode \in Modes
    BY <1>1 DEF SlotRec
  <2>2. /\ v \in Serving /\ v.stack = c.w.stack /\ v.applied = c.w.applied
        /\ v.mode = c.sl.mode /\ v.applied_mode = c.sl.mode
    BY <1>1, <2>1 DEF Known, Serving
  <2>3. ShowMode(c.w, c.sl, may) \in {v, c.w}
    BY DEF ShowMode
  <2> HIDE DEF v
  <2>4. Known(v)
    BY <1>1, <2>2 DEF Known, Believes, DriverCurrent
  <2>5. QED
    BY <1>1, <2>3, <2>4
<1>6. QED
  BY <1>1, <1>4, <1>5 DEF s

(* A stack that is noted is the slot's, with its contexts named.           *)
LEMMA NotedHolds ==
  ASSUME NEW sl \in SlotRec, NEW st \in Seq(Entries)
  PROVE  /\ Noted(sl, st) \in SlotRec /\ Named(Noted(sl, st))
         /\ Noted(sl, st).stack = st /\ Noted(sl, st).mode = sl.mode
<1> DEFINE cs == {st[i].ctx : i \in DOMAIN st}
           n  == Noted(sl, st)
<1>1. \A i \in DOMAIN st : st[i] \in Entries
  BY ElementOfSeq, LenProperties
<1>2. cs \in SUBSET Addrs
  BY <1>1 DEF Entries
<1>3. n = [sl EXCEPT !.stack = st, !.ctxs = cs]
  BY DEF Noted
<1>4. \A i \in DOMAIN st : st[i].ctx \in cs
  OBVIOUS
<1> HIDE DEF cs, n
<1>5. n \in SlotRec /\ n.stack = st /\ n.mode = sl.mode /\ n.ctxs = cs
  BY <1>2, <1>3 DEF SlotRec
<1>6. Named(n)
  BY <1>4, <1>5 DEF Named
<1>7. QED
  BY <1>5, <1>6 DEF n

-----------------------------------------------------------------------------
(* What the steps do to the invariant.                                     *)

(* A slot whose entries are sound.                                         *)
Good(sl) == sl \in SlotRec /\ Named(sl) /\ \A i \in DOMAIN sl.stack : Sound(sl.stack[i])

(* A client thread that has called nothing has a sound slot.               *)
LEMMA EmptySlotGood == EmptySlot \in SlotRec /\ Good(EmptySlot)
<1>1. EmptySlot \in SlotRec /\ EmptySlot.stack = <<>>
  BY EmptySeq, ContextStacksAssumption DEF EmptySlot, SlotRec
<1>2. QED
  BY <1>1 DEF Good, Named

(* A thread that is at nothing.                                            *)
LEMMA IdleTyped == Idle \in ReqRec /\ Idle.pc = "idle"
<1>1. NoAnswer \in AnswerRec
  BY ContextStacksAssumption DEF NoAnswer, Answer, AnswerRec, Results, NoContext, Ctxs, NoMode
<1>2. QED
  BY <1>1 DEF Idle, ReqRec

(* It holds at first: the primary context lives, and no slot names any.    *)
LEMMA StacksInit == Init => StacksInv
<1> SUFFICES ASSUME Init PROVE StacksInv
  OBVIOUS
<1>1. /\ at = [a \in Addrs |-> IF a = Primary THEN 1 ELSE NoContext]
      /\ created = 1 /\ ours = {1} /\ slot = [t \in Threads |-> EmptySlot] /\ req = Idle
      /\ serving = [stack |-> <<>>, mode |-> DefaultMode, applied |-> NoCtx, applied_mode |-> DefaultMode]
  BY DEF Init
<1>2. MaxCtxs \in Nat \ {0} /\ Primary \in Addrs /\ DefaultMode \in Modes
  BY ContextStacksAssumption
<1>3. serving \in Serving /\ Believes(serving)
  BY <1>1, <1>2, EmptySeq DEF Serving, Believes, DriverCurrent
<1>4. EmptySlot \in SlotRec /\ Good(EmptySlot)
  BY EmptySlotGood
<1>5. Idle \in ReqRec /\ Idle.pc = "idle"
  BY IdleTyped
<1>6. at \in [Addrs -> Ctxs] /\ created \in 1 .. MaxCtxs /\ ours \subseteq Ctxs \ {NoContext}
  BY <1>1, <1>2 DEF Ctxs, NoContext
<1>7. \A t \in Threads : slot[t] = EmptySlot
  BY <1>1
<1>8. SlotsSound
  BY <1>4, <1>7 DEF SlotsSound, Good
<1>9. QED
  BY <1>1, <1>2, <1>3, <1>4, <1>5, <1>6, <1>8
     DEF StacksInv, StacksTyped, PrimaryLives, ServingKnown, CallShown

(* A request has been handled, and the serving thread and the slots are    *)
(* what they should be.                                                    *)
LEMMA SlotsKeep ==
  ASSUME StacksInv, req.pc # "idle", NEW ans \in AnswerRec, Handled(ans), UNCHANGED driverVars,
         NEW w \in Serving, serving' = w, w.applied_mode = w.mode,
         Believes(w) \/ DriverCurrent(w) = Primary,
         NEW slots \in [Threads -> SlotRec], \A u \in Threads : Good(slots[u]), slot' = slots
  PROVE  StacksInv'
<1>1. req \in ReqRec /\ req.t \in Threads
  BY DEF StacksInv, StacksTyped
<1>2. req' \in ReqRec /\ req'.pc = "after" /\ req'.t = req.t
  BY <1>1 DEF Handled, ReqRec
<1>3. UNCHANGED <<at, created, ours>>
  BY DEF driverVars
<1>4. StacksTyped'
  BY <1>1, <1>2, <1>3 DEF StacksInv, StacksTyped
<1>5. PrimaryLives' /\ CallShown' /\ ServingKnown'
  BY <1>2, <1>3 DEF StacksInv, PrimaryLives, CallShown, ServingKnown
<1>6. SlotsSound'
  BY <1>3 DEF SlotsSound, Sound, Good
<1>7. QED
  BY <1>4, <1>5, <1>6 DEF StacksInv

(* A handler ends that changed no slot but that of its thread.             *)
LEMMA HandledKeeps ==
  ASSUME StacksInv, NEW t \in Threads, Calling(t),
         NEW ans \in AnswerRec, Handled(ans), UNCHANGED driverVars,
         NEW w \in Serving, serving' = w, w.applied_mode = w.mode,
         Believes(w) \/ DriverCurrent(w) = Primary,
         NEW sl \in SlotRec, Named(sl), \A i \in DOMAIN sl.stack : Sound(sl.stack[i]),
         slot' = [slot EXCEPT ![t] = sl]
  PROVE  StacksInv'
<1>1. req.pc # "idle" /\ slot \in [Threads -> SlotRec]
  BY DEF StacksInv, StacksTyped, Calling
<1>2. slot' \in [Threads -> SlotRec] /\ slot'[t] = sl /\ \A u \in Threads \ {t} : slot'[u] = slot[u]
  BY <1>1
<1>3. \A u \in Threads : Good(slot[u])
  BY <1>1 DEF StacksInv, SlotsSound, Good, Calling
<1>4. \A u \in Threads : Good(slot'[u])
  BY <1>2, <1>3 DEF Good
<1>5. ASSUME NEW slots, slots = slot'
      PROVE  StacksInv'
  <2>1. slots \in [Threads -> SlotRec] /\ \A u \in Threads : Good(slots[u])
    BY <1>2, <1>4, <1>5
  <2>2. QED
    BY <1>1, <1>5, <2>1, SlotsKeep
<1>6. QED
  BY <1>5

-----------------------------------------------------------------------------
(* The slots, before and after what handlers do.                           *)

(* What a handler finds when it is called.                                 *)
LEMMA AtCall ==
  ASSUME StacksInv, NEW t \in Threads, Calling(t)
  PROVE  /\ Known(serving) /\ Good(slot[t]) /\ slot[t].stack \in Seq(Entries)
         /\ at \in [Addrs -> Ctxs] /\ slot \in [Threads -> SlotRec]
<1>1. Known(serving)
  BY DEF StacksInv, StacksTyped, ServingKnown, Known, Calling
<1>2. slot[t] \in SlotRec
  BY DEF StacksInv, StacksTyped
<1>3. slot[t].stack \in Seq(Entries)
  BY <1>2 DEF SlotRec
<1>4. Good(slot[t])
  BY <1>2 DEF StacksInv, SlotsSound, Good, Calling
<1>5. QED
  BY <1>1, <1>3, <1>4 DEF StacksInv, StacksTyped

(* A slot that only lost what had died is sound.                           *)
LEMMA GoodFrom ==
  ASSUME NEW old, Good(old), NEW sl, SlotFrom(sl, old)
  PROVE  Good(sl)
BY DEF Good, SlotFrom, Sound

(* A sound slot stays so when its top is popped,                           *)
LEMMA GoodFront ==
  ASSUME NEW sl, Good(sl), sl.stack # <<>>
  PROVE  /\ Good(Noted(sl, Front(sl.stack)))
         /\ Noted(sl, Front(sl.stack)).mode = sl.mode
<1>1. sl \in SlotRec /\ sl.stack \in Seq(Entries)
  BY DEF Good, SlotRec
<1>2. /\ Front(sl.stack) \in Seq(Entries)
      /\ \A i \in DOMAIN Front(sl.stack) : i \in DOMAIN sl.stack /\ Front(sl.stack)[i] = sl.stack[i]
  BY <1>1, FrontHolds
<1>3. QED
  BY <1>1, <1>2, NotedHolds DEF Good

(* and when a sound entry is put on it, or in the place of its top.        *)
LEMMA GoodWith ==
  ASSUME NEW sl, Good(sl), NEW e \in Entries, Sound(e),
         NEW st \in {WithTop(sl.stack, e), Append(sl.stack, e)}
  PROVE  Good(Noted(sl, st)) /\ Noted(sl, st).mode = sl.mode
<1>1. sl \in SlotRec /\ sl.stack \in Seq(Entries)
  BY DEF Good, SlotRec
<1>2. /\ st \in Seq(Entries)
      /\ \A i \in DOMAIN st : st[i] = e \/ (i \in DOMAIN sl.stack /\ st[i] = sl.stack[i])
  <2>1. CASE st = WithTop(sl.stack, e)
    BY <1>1, <2>1, WithTopHolds
  <2>2. CASE st = Append(sl.stack, e)
    BY <1>1, <2>2, AppendHolds
  <2>3. QED
    BY <2>1, <2>2
<1>3. QED
  BY <1>1, <1>2, NotedHolds DEF Good

(* The entry of a handle the application may pass.                         *)
LEMMA HandleSound ==
  ASSUME at \in [Addrs -> Ctxs], NEW a \in Addrs, at[a] \in ours
  PROVE  Entry(a) \in Entries /\ Sound(Entry(a))
BY DEF Entry, Entries, Sound

(* What the handlers answer.                                               *)
LEMMA Answers ==
  ASSUME NEW of \in Ctxs, NEW result \in Results, NEW was \in Modes \union {NoMode}
  PROVE  Answer(result, of, was) \in AnswerRec
BY DEF Answer, AnswerRec

(* And what most of them do.                                               *)
LEMMA PlainAnswers ==
  ASSUME NEW of \in Ctxs, NEW result \in Results
  PROVE  /\ Ok(of) \in AnswerRec /\ Ok(NoContext) \in AnswerRec /\ Failed(result) \in AnswerRec
         /\ Answer(result, of, NoMode) \in AnswerRec
<1>1. NoContext \in Ctxs
  BY ContextStacksAssumption DEF NoContext, Ctxs
<1>2. QED
  BY <1>1, Answers DEF Ok, Failed, Results

-----------------------------------------------------------------------------
(* The handlers that leave the contexts alone.                             *)

(* A handler that sets the top of the stack, to a context the application  *)
(* may name.                                                               *)
LEMMA SetTopKeeps ==
  ASSUME StacksInv, NEW t \in Threads, Calling(t), NEW a \in Handles,
         NEW st \in {WithTop(slot[t].stack, Entry(a)), Append(slot[t].stack, Entry(a))},
         NEW may, SetTop(t, a, st, may), UNCHANGED driverVars
  PROVE  StacksInv'
<1>1. a \in Addrs /\ at[a] \in ours
  BY DEF Handles
<1>2. /\ Known(serving) /\ Good(slot[t]) /\ at \in [Addrs -> Ctxs] /\ slot \in [Threads -> SlotRec]
  BY AtCall
<1>3. NoContext \in Ctxs
  BY ContextStacksAssumption DEF NoContext, Ctxs
<1>4. CASE may.set
  <2> DEFINE v == [DriverSet(serving, a) EXCEPT !.applied = a]
             n == Noted(slot[t], st)
  <2>1. serving' = v /\ slot' = [slot EXCEPT ![t] = n] /\ Handled(Ok(NoContext))
    BY <1>4 DEF SetTop
  <2>2. Known(v)
    BY <1>1, <1>2, SetKnows
  <2>3. Good(n)
    BY <1>1, <1>2, HandleSound, GoodWith
  <2>4. Ok(NoContext) \in AnswerRec
    BY <1>3, PlainAnswers DEF Results
  <2> HIDE DEF v, n
  <2>5. QED
    BY <2>1, <2>2, <2>3, <2>4, HandledKeeps DEF Known, Good
<1>5. CASE ~may.set
  <2>1. serving' = ReadBack(serving) /\ slot' = [slot EXCEPT ![t] = slot[t]] /\ Handled(Failed("error"))
    BY <1>2, <1>5 DEF SetTop
  <2>2. Known(ReadBack(serving))
    BY <1>2, ReadBackKnows DEF Known
  <2>3. Failed("error") \in AnswerRec
    BY <1>3, PlainAnswers DEF Results
  <2>4. QED
    BY <1>2, <2>1, <2>2, <2>3, HandledKeeps DEF Known, Good
<1>6. QED
  BY <1>4, <1>5

(* A handler that shows the driver what is left on top.                    *)
LEMMA ShowTopKeeps ==
  ASSUME StacksInv, NEW t \in Threads, Calling(t), slot[t].stack # <<>>, NEW may, NEW of \in Ctxs,
         ShowTop(t, Noted(slot[t], Front(slot[t].stack)), may, of), UNCHANGED driverVars
  PROVE  StacksInv'
<1> DEFINE n == Noted(slot[t], Front(slot[t].stack))
           s == Show(serving, n, may)
<1>1. Known(serving) /\ Good(slot[t]) /\ at \in [Addrs -> Ctxs]
  BY AtCall
<1>2. Good(n)
  BY <1>1, GoodFront
<1>3. /\ serving' = s.w /\ slot' = [slot EXCEPT ![t] = s.sl]
      /\ \E ans \in {Ok(of), Answer("error", of, NoMode)} : Handled(ans)
  BY DEF ShowTop
<1> HIDE DEF n
<1>4. Known(s.w) /\ SlotFrom(s.sl, n)
  BY <1>1, <1>2, ShowKnows DEF Good
<1> HIDE DEF s
<1>5. Good(s.sl)
  BY <1>2, <1>4, GoodFrom
<1>6. PICK ans \in AnswerRec : Handled(ans)
  BY <1>3, PlainAnswers DEF Results
<1>7. QED
  BY <1>3, <1>4, <1>5, <1>6, HandledKeeps DEF Known, Good

(* A handler that leaves the slot as it is.                                *)
LEMMA SlotStays ==
  ASSUME StacksInv, NEW t \in Threads, Calling(t), NEW ans \in AnswerRec, Handled(ans),
         UNCHANGED <<driverVars, slot>>, NEW w \in Serving, serving' = w,
         w.applied_mode = w.mode, Believes(w) \/ DriverCurrent(w) = Primary
  PROVE  StacksInv'
<1>1. Good(slot[t]) /\ slot \in [Threads -> SlotRec]
  BY AtCall
<1>2. slot' = [slot EXCEPT ![t] = slot[t]]
  BY <1>1
<1>3. QED
  BY <1>1, <1>2, HandledKeeps DEF Good

(* Every handler that makes and destroys no context keeps the invariant.   *)
LEMMA HandlersKeep ==
  ASSUME StacksInv, NEW t \in Threads,
         \/ \E a \in Addrs : SetCurrent(t, a) \/ Push(t, a)
         \/ SetNone(t) \/ Pop(t) \/ GetCurrent(t)
         \/ \E m \in Modes : ExchangeMode(t, m)
         \/ Use(t) \/ Library(t)
  PROVE  StacksInv'
<1>1. Calling(t) /\ UNCHANGED driverVars
  BY DEF SetCurrent, Push, SetNone, Pop, GetCurrent, ExchangeMode, Use, Library
<1>2. /\ Known(serving) /\ Good(slot[t]) /\ slot[t].stack \in Seq(Entries)
      /\ at \in [Addrs -> Ctxs] /\ slot \in [Threads -> SlotRec]
  BY <1>1, AtCall
<1>3. NoContext \in Ctxs
  BY ContextStacksAssumption DEF NoContext, Ctxs
<1>4. ASSUME NEW result \in Results
      PROVE  Ok(NoContext) \in AnswerRec /\ Failed(result) \in AnswerRec
  BY <1>3, <1>4, PlainAnswers
<1>5. slot[t].stack # <<>> => Last(slot[t].stack).of \in Ctxs
  <2>1. slot[t].stack # <<>> => Last(slot[t].stack) \in Entries
    BY <1>2, FrontHolds
  <2>2. QED
    BY <2>1 DEF Entries
<1>6. CASE \E a \in Addrs : SetCurrent(t, a)
  <2>1. PICK a \in Handles, may \in Verdicts :
          SetTop(t, a, WithTop(slot[t].stack, Entry(a)), may)
    BY <1>6 DEF SetCurrent
  <2>2. QED
    BY <1>1, <2>1, SetTopKeeps
<1>7. CASE \E a \in Addrs : Push(t, a)
  <2>1. PICK a \in Handles :
          \/ \E may \in Verdicts : SetTop(t, a, Append(slot[t].stack, Entry(a)), may)
          \/ Handled(Failed("refused")) /\ UNCHANGED <<serving, slot>>
    BY <1>7 DEF Push
  <2>2. Failed("refused") \in AnswerRec
    BY <1>4 DEF Results
  <2>3. QED
    BY <1>1, <1>2, <2>1, <2>2, SetTopKeeps, SlotStays DEF Known
<1>8. CASE SetNone(t)
  <2>1. CASE slot[t].stack = <<>>
    <3>1. Handled(Ok(NoContext)) /\ UNCHANGED <<serving, slot>>
      BY <1>8, <2>1 DEF SetNone
    <3>2. Ok(NoContext) \in AnswerRec
      BY <1>4 DEF Results
    <3>3. QED
      BY <1>1, <1>2, <3>1, <3>2, SlotStays DEF Known
  <2>2. CASE slot[t].stack # <<>>
    <3>1. PICK may \in Verdicts : ShowTop(t, Noted(slot[t], Front(slot[t].stack)), may, NoContext)
      BY <1>8, <2>2 DEF SetNone
    <3>2. QED
      BY <1>1, <1>3, <2>2, <3>1, ShowTopKeeps
  <2>3. QED
    BY <2>1, <2>2
<1>9. CASE Pop(t)
  <2>1. CASE slot[t].stack = <<>>
    <3>1. /\ serving' = ReadBack(DriverPop(serving)) /\ Handled(Failed("invalid"))
          /\ UNCHANGED slot
      BY <1>9, <2>1 DEF Pop
    <3>2. DriverPop(serving) \in Serving /\ DriverPop(serving).applied_mode = DriverPop(serving).mode
      BY <1>2, DriverPopTyped DEF Known
    <3>3. Failed("invalid") \in AnswerRec
      BY <1>4 DEF Results
    <3>4. /\ ReadBack(DriverPop(serving)) \in Serving /\ Believes(ReadBack(DriverPop(serving)))
          /\ ReadBack(DriverPop(serving)).applied_mode = ReadBack(DriverPop(serving)).mode
      BY <3>2, ReadBackKnows
    <3>5. QED
      BY <1>1, <3>1, <3>3, <3>4, SlotStays
  <2>2. CASE slot[t].stack # <<>>
    <3>1. PICK may \in Verdicts :
            ShowTop(t, Noted(slot[t], Front(slot[t].stack)), may, Last(slot[t].stack).of)
      BY <1>9, <2>2 DEF Pop
    <3>2. QED
      BY <1>1, <1>5, <2>2, <3>1, ShowTopKeeps
  <2>3. QED
    BY <2>1, <2>2
<1>10. CASE GetCurrent(t)
  <2>1. PICK of \in Ctxs : Handled(Ok(of))
    BY <1>3, <1>5, <1>10 DEF GetCurrent
  <2>2. Ok(of) \in AnswerRec
    BY PlainAnswers DEF Results
  <2>3. UNCHANGED <<serving, slot>>
    BY <1>10 DEF GetCurrent
  <2>4. QED
    BY <1>1, <1>2, <2>1, <2>2, <2>3, SlotStays DEF Known
<1>11. CASE \E m \in Modes : ExchangeMode(t, m)
  <2>1. PICK m \in Modes : ExchangeMode(t, m)
    BY <1>11
  <2>2. CASE Handled(Failed("error")) /\ UNCHANGED <<serving, slot>>
    <3>1. Failed("error") \in AnswerRec
      BY <1>4 DEF Results
    <3>2. QED
      BY <1>1, <1>2, <2>2, <3>1, SlotStays DEF Known
  <2>3. CASE /\ serving' = [serving EXCEPT !.mode = m, !.applied_mode = m]
             /\ slot' = [slot EXCEPT ![t].mode = m]
             /\ Handled(Answer("ok", NoContext, serving.mode))
    <3> DEFINE v == [serving EXCEPT !.mode = m, !.applied_mode = m]
               n == [slot[t] EXCEPT !.mode = m]
    <3>1. /\ v \in Serving /\ v.mode = m /\ v.applied_mode = m
          /\ v.stack = serving.stack /\ v.applied = serving.applied
      BY <1>2 DEF Known, Serving
    <3>2. /\ n \in SlotRec /\ n.stack = slot[t].stack /\ n.ctxs = slot[t].ctxs
      BY <1>2 DEF SlotRec
    <3>3. slot' = [slot EXCEPT ![t] = n] /\ serving' = v
      BY <1>2, <2>3
    <3>4. Answer("ok", NoContext, serving.mode) \in AnswerRec
      BY <1>2, <1>3, Answers DEF Known, Serving, Results
    <3> HIDE DEF v, n
    <3>5. Believes(v)
      BY <1>2, <3>1 DEF Known, Believes, DriverCurrent
    <3>6. Named(n) /\ \A i \in DOMAIN n.stack : Sound(n.stack[i])
      BY <1>2, <3>2 DEF Good, Named
    <3>7. QED
      BY <1>1, <2>3, <3>1, <3>2, <3>3, <3>4, <3>5, <3>6, HandledKeeps
  <2>4. QED
    BY <2>1, <2>2, <2>3 DEF ExchangeMode
<1>12. CASE Use(t)
  <2>1. /\ \E ans \in {Failed("invalid"), Failed("destroyed")} \cup
                     {Answer("ok", at[a], serving.mode) : a \in Addrs} : Handled(ans)
        /\ UNCHANGED <<serving, slot>>
    <3>1. DriverCurrent(serving) \in Addrs \union {NoCtx}
      BY <1>2 DEF Known, Believes, Serving
    <3>2. QED
      BY <1>12, <3>1 DEF Use
  <2>2. \A a \in Addrs : Answer("ok", at[a], serving.mode) \in AnswerRec
    BY <1>2, Answers DEF Known, Serving, Results
  <2>3. Failed("invalid") \in AnswerRec /\ Failed("destroyed") \in AnswerRec
    BY <1>4 DEF Results
  <2>4. PICK ans \in AnswerRec : Handled(ans)
    BY <2>1, <2>2, <2>3
  <2>5. QED
    BY <1>1, <1>2, <2>1, <2>4, SlotStays DEF Known
<1>13. CASE Library(t)
  <2> DEFINE v == DriverSet(serving, Primary)
  <2>1. /\ serving' = v \/ serving' = serving
        /\ Handled(Ok(NoContext)) /\ UNCHANGED slot
    BY <1>13 DEF Library
  <2>2. Entry(Primary) \in Entries /\ Entry(Primary).ctx = Primary
    BY <1>2, ContextStacksAssumption DEF Entry, Entries
  <2>3. serving.stack \in Seq(Entries) /\ serving \in Serving /\ serving.applied_mode = serving.mode
    BY <1>2 DEF Known, Serving
  <2>4. /\ WithTop(serving.stack, Entry(Primary)) \in Seq(Entries)
        /\ WithTop(serving.stack, Entry(Primary)) # <<>>
        /\ Last(WithTop(serving.stack, Entry(Primary))) = Entry(Primary)
    BY <2>2, <2>3, WithTopHolds
  <2>5. /\ v \in Serving /\ v.applied_mode = v.mode
        /\ v.stack = WithTop(serving.stack, Entry(Primary))
    BY <2>3, <2>4 DEF DriverSet, Serving
  <2> HIDE DEF v
  <2>6. DriverCurrent(v) = Primary
    BY <2>2, <2>4, <2>5 DEF DriverCurrent
  <2>7. Ok(NoContext) \in AnswerRec
    BY <1>4 DEF Results
  <2>8. QED
    BY <1>1, <1>2, <2>1, <2>5, <2>6, <2>7, SlotStays DEF Known
<1>14. QED
  BY <1>6, <1>7, <1>8, <1>9, <1>10, <1>11, <1>12, <1>13

-----------------------------------------------------------------------------
(* The contexts themselves.                                                *)

(* What has changed is no context of this session.                         *)
LEMMA OthersKeep ==
  ASSUME StacksInv, NEW a \in Addrs, OthersCreate(a) \/ OthersDestroy(a)
  PROVE  StacksInv'
<1>1. /\ at \in [Addrs -> Ctxs] /\ ours \subseteq Ctxs \ {NoContext} /\ created \in 1 .. MaxCtxs
      /\ MaxCtxs \in Nat /\ Primary \in Addrs
  BY ContextStacksAssumption DEF StacksInv, StacksTyped
<1>2. /\ at[a] \notin ours /\ UNCHANGED <<ours, serving, slot, req>>
      /\ \E c \in Ctxs : at' = [at EXCEPT ![a] = c]
      /\ created' \in 1 .. MaxCtxs
  BY <1>1 DEF OthersCreate, OthersDestroy, NoContext, Ctxs
<1>3. at' \in [Addrs -> Ctxs] /\ \A b \in Addrs : at[b] \in ours => at'[b] = at[b]
  BY <1>1, <1>2
<1>4. StacksTyped'
  BY <1>2, <1>3 DEF StacksInv, StacksTyped
<1>5. PrimaryLives'
  BY <1>1, <1>2, <1>3 DEF StacksInv, PrimaryLives
<1>6. ASSUME NEW t \in Threads, NEW i \in DOMAIN slot[t].stack, Sound(slot[t].stack[i])
      PROVE  Sound(slot[t].stack[i])'
  <2>1. slot[t].stack[i].ctx \in Addrs
    <3>1. slot[t].stack \in Seq(Entries)
      BY DEF StacksInv, StacksTyped, SlotRec
    <3>2. slot[t].stack[i] \in Entries
      BY <3>1, ElementOfSeq, LenProperties
    <3>3. QED
      BY <3>2 DEF Entries
  <2>2. QED
    BY <1>2, <1>3, <1>6, <2>1 DEF Sound
<1>7. SlotsSound'
  BY <1>2, <1>6 DEF StacksInv, SlotsSound, Named
<1>8. ServingKnown' /\ CallShown'
  BY <1>2 DEF StacksInv, ServingKnown, CallShown
<1>9. QED
  BY <1>4, <1>5, <1>7, <1>8 DEF StacksInv

(* A context is made, and pushed on its maker's stack.                     *)
LEMMA CreateKeeps ==
  ASSUME StacksInv, NEW t \in Threads, NEW a \in Addrs, Create(t, a)
  PROVE  StacksInv'
<1>1. /\ Known(serving) /\ Good(slot[t]) /\ slot[t].stack \in Seq(Entries)
      /\ at \in [Addrs -> Ctxs] /\ slot \in [Threads -> SlotRec]
  BY AtCall DEF Create
<1>2. NoContext \in Ctxs /\ created \in 1 .. MaxCtxs /\ MaxCtxs \in Nat /\ ours \subseteq Ctxs \ {NoContext}
  BY ContextStacksAssumption DEF NoContext, Ctxs, StacksInv, StacksTyped
<1>3. Ok(NoContext) \in AnswerRec /\ Failed("refused") \in AnswerRec
  BY <1>2, PlainAnswers DEF Results
<1>4. CASE Handled(Failed("refused")) /\ UNCHANGED <<driverVars, serving, slot>>
  BY <1>1, <1>3, <1>4, SlotStays DEF Known, Create
<1>5. CASE MayPush(t)
  <2> DEFINE e == [ctx |-> a, of |-> created + 1, gone |-> FALSE]
             st == Append(slot[t].stack, e)
             n  == Noted(slot[t], st)
  <2>1. /\ at[a] = NoContext /\ created < MaxCtxs /\ at' = [at EXCEPT ![a] = created + 1]
        /\ created' = created + 1 /\ ours' = ours \union {created + 1}
        /\ slot' = [slot EXCEPT ![t] = n] /\ Handled(Ok(NoContext))
        /\ \E may \in Verdicts : serving' = ReadBack([serving EXCEPT !.stack = OneDeep(serving.stack, e, may)])
    BY <1>5 DEF Create
  <2>2. created + 1 \in Ctxs \ {NoContext}
    BY <1>2, <2>1 DEF Ctxs, NoContext
  <2>3. e \in Entries /\ e.ctx = a /\ e.of = created + 1 /\ ~e.gone
    BY <2>2 DEF Entries
  <2> HIDE DEF e
  <2>4. Known(serving')
    <3>1. PICK may \in Verdicts : serving' = ReadBack([serving EXCEPT !.stack = OneDeep(serving.stack, e, may)])
      BY <2>1
    <3>2. serving \in Serving /\ serving.stack \in Seq(Entries) /\ serving.applied_mode = serving.mode
      BY <1>1 DEF Known, Serving
    <3>3. /\ Append(serving.stack, e) \in Seq(Entries) /\ WithTop(serving.stack, e) \in Seq(Entries)
          /\ WithTop(Append(serving.stack, e), e) \in Seq(Entries)
      BY <2>3, <3>2, AppendHolds, WithTopHolds
    <3> DEFINE d == OneDeep(serving.stack, e, may)
               v == [serving EXCEPT !.stack = d]
    <3>4. d \in Seq(Entries)
      BY <3>2, <3>3 DEF OneDeep
    <3> HIDE DEF d
    <3>5. v \in Serving /\ v.applied_mode = v.mode
      BY <3>2, <3>4 DEF Serving
    <3>6. serving' = ReadBack(v)
      BY <3>1 DEF d
    <3> HIDE DEF v
    <3>7. QED
      BY <3>5, <3>6, ReadBackKnows DEF Known
  <2>5. st \in Seq(Entries) /\ \A i \in DOMAIN st : st[i] = e \/ (i \in DOMAIN slot[t].stack /\ st[i] = slot[t].stack[i])
    BY <1>1, <2>3, AppendHolds
  <2> HIDE DEF st
  <2>6. n \in SlotRec /\ Named(n) /\ n.stack = st
    BY <1>1, <2>5, NotedHolds DEF Good
  <2> HIDE DEF n
  <2>7. req \in ReqRec /\ req.pc = "call" /\ req.t = t
    BY DEF StacksInv, StacksTyped, Create, Calling
  <2>8. req' \in ReqRec /\ req'.pc = "after" /\ req'.t = t
    BY <1>3, <2>1, <2>7 DEF Handled, ReqRec
  <2>9. at' \in [Addrs -> Ctxs] /\ at'[a] = created + 1 /\ \A b \in Addrs \ {a} : at'[b] = at[b]
    BY <1>1, <2>1, <2>2
  <2>10. slot' \in [Threads -> SlotRec] /\ slot'[t] = n /\ \A u \in Threads \ {t} : slot'[u] = slot[u]
    BY <1>1, <2>1, <2>6
  <2>11. StacksTyped'
    <3>1. created' \in 1 .. MaxCtxs /\ ours' \subseteq Ctxs \ {NoContext}
      BY <1>2, <2>1, <2>2
    <3>2. QED
      BY <2>4, <2>8, <2>9, <2>10, <3>1 DEF StacksTyped, Known
  <2>12. PrimaryLives'
    BY <2>1, <2>9, ContextStacksAssumption DEF PrimaryLives, StacksInv
  <2>13. ServingKnown' /\ CallShown'
    BY <2>4, <2>8 DEF ServingKnown, CallShown, Known
  <2>14. ASSUME NEW x \in Entries, Sound(x)
         PROVE  Sound(x)'
    <3>1. x.ctx \in Addrs
      BY DEF Entries
    <3>2. QED
      BY <1>2, <2>1, <2>9, <2>14, <3>1 DEF Sound
  <2>15. \A sl \in SlotRec : \A i \in DOMAIN sl.stack : sl.stack[i] \in Entries
    BY ElementOfSeq, LenProperties DEF SlotRec
  <2>16. \A u \in Threads : Good(slot[u])
    BY <1>1, <2>7 DEF StacksInv, SlotsSound, Good
  <2>17. ASSUME NEW u \in Threads, NEW sl, sl = slot'[u]
         PROVE  Named(sl) /\ \A i \in DOMAIN sl.stack : Sound(sl.stack[i])'
    <3>1. CASE u = t
      <4>1. sl = n
        BY <2>10, <2>17, <3>1
      <4>2. ASSUME NEW i \in DOMAIN sl.stack, NEW x, x = sl.stack[i]
            PROVE  Sound(x)'
        <5>1. x = e \/ (i \in DOMAIN slot[t].stack /\ x = slot[t].stack[i])
          BY <2>5, <2>6, <4>1, <4>2
        <5>2. CASE x = e
          BY <2>1, <2>3, <2>9, <5>2 DEF Sound
        <5>3. CASE i \in DOMAIN slot[t].stack /\ x = slot[t].stack[i]
          BY <1>1, <2>14, <2>15, <5>3 DEF Good
        <5>4. QED
          BY <5>1, <5>2, <5>3
      <4>3. Named(sl)
        BY <2>6, <4>1
      <4>4. QED
        BY <4>2, <4>3
    <3>2. CASE u # t
      <4>1. sl = slot[u] /\ sl \in SlotRec /\ Good(sl)
        BY <1>1, <2>10, <2>16, <2>17, <3>2
      <4>2. QED
        BY <2>14, <2>15, <4>1 DEF Good
    <3>3. QED
      BY <3>1, <3>2
  <2>18. SlotsSound'
    BY <2>17 DEF SlotsSound, Sound
  <2>19. QED
    BY <2>11, <2>12, <2>13, <2>18 DEF StacksInv
<1>6. QED
  BY <1>4, <1>5 DEF Create

(* A context is destroyed: every entry that names it is to be swept.       *)
LEMMA DestroyKeeps ==
  ASSUME StacksInv, NEW t \in Threads, NEW a \in Addrs, Destroy(t, a)
  PROVE  StacksInv'
<1>1. /\ Known(serving) /\ at \in [Addrs -> Ctxs] /\ a # Primary
  BY AtCall DEF Destroy
<1>2. /\ at' = [at EXCEPT ![a] = NoContext] /\ req' = [req EXCEPT !.pc = "destroyed", !.ctx = a]
      /\ serving' = (IF DriverCurrent(serving) = a THEN DriverPop(serving) ELSE serving)
      /\ UNCHANGED <<created, ours, slot>>
      /\ req \in ReqRec /\ req.pc = "call" /\ req.t = t
  BY DEF Destroy, Calling, StacksInv, StacksTyped
<1>3. req' \in ReqRec /\ req'.pc = "destroyed" /\ req'.ctx = a /\ req'.t = t
  BY <1>2 DEF ReqRec
<1>4. NoContext \in Ctxs /\ Primary \in Addrs
  BY ContextStacksAssumption DEF NoContext, Ctxs
<1>5. at' \in [Addrs -> Ctxs] /\ \A b \in Addrs \ {a} : at'[b] = at[b]
  BY <1>1, <1>2, <1>4
<1>6. /\ DriverPop(serving) \in Serving
      /\ DriverPop(serving).applied_mode = DriverPop(serving).mode
      /\ DriverPop(serving).applied = serving.applied
  BY <1>1, DriverPopTyped DEF Known
<1>7. /\ serving' \in Serving /\ serving'.applied_mode = serving'.mode
      /\ Believes(serving') \/ serving'.applied = a
  BY <1>1, <1>2, <1>6 DEF Known, Believes
<1>8. StacksTyped'
  BY <1>2, <1>3, <1>5, <1>7 DEF StacksInv, StacksTyped
<1>9. PrimaryLives' /\ ServingKnown' /\ CallShown'
  BY <1>1, <1>2, <1>3, <1>4, <1>5, <1>7 DEF StacksInv, PrimaryLives, ServingKnown, CallShown
<1>10. ASSUME NEW x \in Entries, Sound(x), x.ctx # a
       PROVE  Sound(x)'
  <2>1. x.ctx \in Addrs
    BY DEF Entries
  <2>2. QED
    BY <1>2, <1>5, <1>10, <2>1 DEF Sound
<1>11. SlotsSound'
  <2>1. \A sl \in SlotRec : \A i \in DOMAIN sl.stack : sl.stack[i] \in Entries
    BY ElementOfSeq, LenProperties DEF SlotRec
  <2>2. ASSUME NEW u \in Threads, NEW sl, sl = slot[u]
        PROVE  /\ Named(sl)
               /\ \A i \in DOMAIN sl.stack : Sound(sl.stack[i])' \/ sl.stack[i].ctx = a
    <3>1. sl \in SlotRec /\ Named(sl) /\ \A i \in DOMAIN sl.stack : Sound(sl.stack[i])
      BY <1>2, <2>2 DEF StacksInv, StacksTyped, SlotsSound
    <3>2. QED
      BY <1>10, <2>1, <3>1
  <2>3. QED
    BY <1>2, <1>3, <2>2 DEF SlotsSound, Sound
<1>12. QED
  BY <1>8, <1>9, <1>11 DEF StacksInv

(* A slot whose entries are sound but for those of a, once it is swept.    *)
LEMMA SweepSounds ==
  ASSUME NEW sl \in SlotRec, Named(sl), NEW a,
         \A i \in DOMAIN sl.stack : Sound(sl.stack[i]) \/ sl.stack[i].ctx = a
  PROVE  Good(Sweep(sl, a))
<1>1. CASE a \notin sl.ctxs
  <2>1. \A i \in DOMAIN sl.stack : Sound(sl.stack[i])
    BY <1>1 DEF Named
  <2>2. QED
    BY <1>1, <2>1 DEF Sweep, Good
<1>2. CASE a \in sl.ctxs
  <2> DEFINE st == [i \in DOMAIN sl.stack |->
                      IF sl.stack[i].ctx = a THEN MarkGone(sl.stack[i]) ELSE sl.stack[i]]
             n  == [sl EXCEPT !.stack = st]
  <2>1. Sweep(sl, a) = n
    BY <1>2 DEF Sweep
  <2>2. sl.stack \in Seq(Entries)
    BY DEF SlotRec
  <2>3. DOMAIN sl.stack = 1 .. Len(sl.stack) /\ Len(sl.stack) \in Nat
        /\ \A i \in DOMAIN sl.stack : sl.stack[i] \in Entries
    BY <2>2, ElementOfSeq, LenProperties
  <2>4. \A x \in Entries : MarkGone(x) \in Entries /\ MarkGone(x).gone /\ MarkGone(x).ctx = x.ctx
    BY DEF Entries, MarkGone
  <2>5. DOMAIN st = DOMAIN sl.stack /\ \A i \in DOMAIN st : st[i] \in Entries
    BY <2>3, <2>4
  <2>6. \A i \in DOMAIN st : Sound(st[i]) /\ st[i].ctx = sl.stack[i].ctx
    BY <2>3, <2>4 DEF Sound
  <2>7. st \in Seq(Entries)
    <3>1. st \in [1 .. Len(sl.stack) -> Entries]
      BY <2>3, <2>4
    <3>2. QED
      BY <2>3, <3>1, SeqDef
  <2> HIDE DEF st
  <2>8. n \in SlotRec /\ n.stack = st /\ n.ctxs = sl.ctxs
    BY <2>7 DEF SlotRec
  <2> HIDE DEF n
  <2>9. QED
    BY <2>1, <2>5, <2>6, <2>8 DEF Good, Named
<1>3. QED
  BY <1>1, <1>2

(* The server catches up with a destroy: every slot is swept.              *)
LEMMA DestroyedKeeps ==
  ASSUME StacksInv, NEW t \in Threads, Destroyed(t)
  PROVE  StacksInv'
<1> DEFINE a     == req.ctx
           top   == PoppedIfTop(slot[t], a)
           slots == Swept([slot EXCEPT ![t] = top], a)
           back  == IF serving.applied = a THEN ReadBack(serving) ELSE serving
<1>1. PICK may \in Verdicts :
        LET rid == IF back.applied = a THEN Clear(back, may) ELSE back
            s   == Show(rid, slots[t], may)
        IN  serving' = s.w /\ slot' = [slots EXCEPT ![t] = s.sl]
  BY DEF Destroyed, PoppedIfTop
<1>2. /\ req.pc = "destroyed" /\ req.t = t /\ Handled(Ok(NoContext)) /\ UNCHANGED driverVars
      /\ slot \in [Threads -> SlotRec] /\ at \in [Addrs -> Ctxs] /\ req \in ReqRec
      /\ serving \in Serving /\ serving.applied_mode = serving.mode
      /\ Believes(serving) \/ serving.applied = a
  BY DEF Destroyed, StacksInv, StacksTyped, ServingKnown
<1>3. \A u \in Threads : /\ slot[u] \in SlotRec /\ Named(slot[u])
                         /\ \A i \in DOMAIN slot[u].stack :
                              Sound(slot[u].stack[i]) \/ slot[u].stack[i].ctx = a
  BY <1>2 DEF StacksInv, SlotsSound
<1>4. Known(back)
  BY <1>2, ReadBackKnows DEF Known
<1> HIDE DEF back
<1> DEFINE rid == IF back.applied = a THEN Clear(back, may) ELSE back
<1>5. Known(rid)
  BY <1>4, ClearKnows
<1>6. /\ top \in SlotRec /\ Named(top)
      /\ \A i \in DOMAIN top.stack : Sound(top.stack[i]) \/ top.stack[i].ctx = a
  <2>1. CASE slot[t].stack = <<>> \/ Current(slot[t]) # a
    <3>1. ASSUME slot[t].stack = <<>>, Current(slot[t]) = a
          PROVE  Front(slot[t].stack) \in Seq(Entries) /\ Front(slot[t].stack) = <<>>
      <4>1. Front(<<>>) = <<>>
        BY SubSeqEmpty, EmptySeq DEF Front
      <4>2. QED
        BY <3>1, <4>1, EmptySeq
    <3>2. CASE Current(slot[t]) # a
      BY <1>3, <3>2 DEF PoppedIfTop
    <3>3. CASE slot[t].stack = <<>> /\ Current(slot[t]) = a
      BY <1>3, <3>1, <3>3, NotedHolds DEF PoppedIfTop
    <3>4. QED
      BY <2>1, <3>2, <3>3
  <2>2. CASE slot[t].stack # <<>> /\ Current(slot[t]) = a
    <3>1. slot[t].stack \in Seq(Entries)
      BY <1>3 DEF SlotRec
    <3>2. /\ Front(slot[t].stack) \in Seq(Entries)
          /\ \A i \in DOMAIN Front(slot[t].stack) :
               i \in DOMAIN slot[t].stack /\ Front(slot[t].stack)[i] = slot[t].stack[i]
      BY <2>2, <3>1, FrontHolds
    <3>3. top = Noted(slot[t], Front(slot[t].stack))
      BY <2>2 DEF PoppedIfTop
    <3>4. top \in SlotRec /\ Named(top) /\ top.stack = Front(slot[t].stack)
      BY <1>3, <3>2, <3>3, NotedHolds
    <3>5. QED
      BY <1>3, <3>2, <3>4
  <2>3. QED
    BY <2>1, <2>2
<1> HIDE DEF top
<1>7. /\ slots = [u \in Threads |-> IF u = t THEN Sweep(top, a) ELSE Sweep(slot[u], a)]
      /\ \A u \in Threads : Good(slots[u])
  <2>1. slots = [u \in Threads |-> IF u = t THEN Sweep(top, a) ELSE Sweep(slot[u], a)]
    BY <1>2 DEF Swept
  <2>2. QED
    BY <1>3, <1>6, <2>1, SweepSounds
<1>8. slots \in [Threads -> SlotRec]
  BY <1>7 DEF Good
<1> HIDE DEF slots
<1> DEFINE s == Show(rid, slots[t], may)
<1>9. serving' = s.w /\ slot' = [slots EXCEPT ![t] = s.sl]
  BY <1>1
<1> HIDE DEF rid
<1>10. Known(s.w) /\ SlotFrom(s.sl, slots[t])
  BY <1>2, <1>5, <1>7, ShowKnows DEF Good
<1> HIDE DEF s
<1>11. Good(s.sl)
  BY <1>7, <1>10, GoodFrom
<1>12. slot' \in [Threads -> SlotRec] /\ \A u \in Threads : Good(slot'[u])
  BY <1>7, <1>8, <1>9, <1>11 DEF Good
<1>13. Ok(NoContext) \in AnswerRec
  BY PlainAnswers, ContextStacksAssumption DEF Results, NoContext, Ctxs
<1>14. ASSUME NEW x, x = slot'
       PROVE  StacksInv'
  <2>1. x \in [Threads -> SlotRec] /\ \A u \in Threads : Good(x[u])
    BY <1>12, <1>14
  <2>2. QED
    BY <1>2, <1>9, <1>10, <1>13, <1>14, <2>1, SlotsKeep DEF Known
<1>15. QED
  BY <1>14

-----------------------------------------------------------------------------
(* Between the requests.                                                   *)

(* The slot agrees with the driver again, and the server with both.        *)
LEMMA AfterKeeps ==
  ASSUME StacksInv, After
  PROVE  StacksInv'
<1> DEFINE t  == req.t
           n  == Adopted(serving, slot[t])
           st == slot[t].stack
<1>1. /\ req.pc = "after" /\ t \in Threads /\ req' = Idle /\ serving' = ReadBack(serving)
      /\ slot \in [Threads -> SlotRec] /\ slot' = [slot EXCEPT ![t] = n]
      /\ UNCHANGED <<at, created, ours>>
      /\ at \in [Addrs -> Ctxs] /\ serving \in Serving /\ serving.applied_mode = serving.mode
      /\ Believes(serving) \/ DriverCurrent(serving) = Primary
      /\ at[Primary] \in ours
  BY DEF After, driverVars, StacksInv, StacksTyped, ServingKnown, PrimaryLives
<1>2. \A u \in Threads : Good(slot[u])
  BY <1>1 DEF StacksInv, SlotsSound, Good
<1>3. Primary \in Addrs /\ NoCtx \notin Addrs
  BY ContextStacksAssumption
<1>4. Good(n)
  <2>1. CASE DriverCurrent(serving) = serving.applied
    BY <1>1, <1>2, <2>1 DEF Adopted
  <2>2. CASE DriverCurrent(serving) # serving.applied
    <3>1. n = Noted(slot[t], WithTop(st, Entry(Primary)))
      BY <1>1, <1>3, <2>2 DEF Adopted, Believes
    <3>2. QED
      BY <1>1, <1>2, <1>3, <3>1, HandleSound, GoodWith
  <2>3. QED
    BY <2>1, <2>2
<1> HIDE DEF n
<1>5. slot' \in [Threads -> SlotRec] /\ \A u \in Threads : Good(slot'[u])
  BY <1>1, <1>2, <1>4 DEF Good
<1>6. Known(serving')
  BY <1>1, ReadBackKnows DEF Known
<1>7. Idle \in ReqRec /\ Idle.pc = "idle"
  BY IdleTyped
<1>8. StacksTyped'
  BY <1>1, <1>5, <1>6, <1>7 DEF StacksInv, StacksTyped, Known
<1>9. PrimaryLives' /\ ServingKnown' /\ CallShown'
  BY <1>1, <1>6, <1>7 DEF PrimaryLives, ServingKnown, CallShown, Known
<1>10. SlotsSound'
  BY <1>1, <1>5 DEF SlotsSound, Good, Sound
<1>11. QED
  BY <1>8, <1>9, <1>10 DEF StacksInv

(* A request is served, once its thread is shown, or refused.              *)
LEMMA BeginKeeps ==
  ASSUME StacksInv, NEW t \in Threads, Begin(t)
  PROVE  StacksInv'
<1>1. /\ req.pc = "idle" /\ UNCHANGED <<at, created, ours>>
      /\ at \in [Addrs -> Ctxs] /\ slot \in [Threads -> SlotRec] /\ Known(serving)
  BY DEF Begin, driverVars, StacksInv, StacksTyped, ServingKnown, Known
<1>2. \A u \in Threads : Good(slot[u])
  BY <1>1 DEF StacksInv, SlotsSound, Good
<1> DEFINE call == [Idle EXCEPT !.pc = "call", !.t = t]
<1>3. /\ call \in ReqRec /\ call.pc = "call" /\ call.t = t
      /\ Idle \in ReqRec /\ Idle.pc = "idle"
  BY IdleTyped DEF ReqRec
<1>4. PICK w, sl : /\ Known(w) /\ Good(sl) /\ serving' = w /\ slot' = [slot EXCEPT ![t] = sl]
                   /\ (req' = call /\ Shown(w, sl)) \/ req' = Idle
  <2>1. CASE Shown(serving, slot[t]) /\ req' = call /\ UNCHANGED <<serving, slot>>
    <3>1. slot' = [slot EXCEPT ![t] = slot[t]]
      BY <1>1, <2>1
    <3>2. QED
      BY <1>1, <1>2, <2>1, <3>1
  <2>2. ASSUME NEW may,
               LET s == Show(serving, slot[t], may)
               IN  /\ serving' = s.w /\ slot' = [slot EXCEPT ![t] = s.sl]
                   /\ req' = IF ContextShown(s.w, s.sl) /\ s.sl.mode = s.w.applied_mode
                             THEN call ELSE Idle
        PROVE  \E w, sl : /\ Known(w) /\ Good(sl) /\ serving' = w /\ slot' = [slot EXCEPT ![t] = sl]
                          /\ (req' = call /\ Shown(w, sl)) \/ req' = Idle
    <3> DEFINE s == Show(serving, slot[t], may)
    <3>1. /\ serving' = s.w /\ slot' = [slot EXCEPT ![t] = s.sl]
          /\ req' = IF ContextShown(s.w, s.sl) /\ s.sl.mode = s.w.applied_mode THEN call ELSE Idle
      BY <2>2
    <3>2. Known(s.w) /\ SlotFrom(s.sl, slot[t])
      BY <1>1, <1>2, ShowKnows DEF Good
    <3> HIDE DEF s, call
    <3>3. Good(s.sl)
      BY <1>2, <3>2, GoodFrom
    <3>4. (req' = call /\ Shown(s.w, s.sl)) \/ req' = Idle
      BY <3>1 DEF Shown
    <3>5. QED
      BY <3>1, <3>2, <3>3, <3>4
  <2>3. QED
    BY <2>1, <2>2 DEF Begin
<1> HIDE DEF call
<1>5. /\ slot' \in [Threads -> SlotRec] /\ slot'[t] = sl
      /\ \A u \in Threads : Good(slot'[u])
  BY <1>1, <1>2, <1>4 DEF Good
<1>6. StacksTyped'
  BY <1>1, <1>3, <1>4, <1>5 DEF StacksInv, StacksTyped, Known
<1>7. PrimaryLives' /\ ServingKnown'
  BY <1>1, <1>4 DEF StacksInv, PrimaryLives, ServingKnown, Known
<1>8. CallShown'
  BY <1>3, <1>4, <1>5 DEF CallShown
<1>9. SlotsSound'
  BY <1>1, <1>5 DEF SlotsSound, Good, Sound
<1>10. QED
  BY <1>6, <1>7, <1>8, <1>9 DEF StacksInv

(* A thread is gone: some slots may be forgotten.                          *)
LEMMA NoticeKeeps ==
  ASSUME StacksInv, NEW t \in Threads, Notice(t)
  PROVE  StacksInv'
<1>1. /\ req.pc = "idle" /\ UNCHANGED <<at, created, ours, serving, req>>
      /\ slot \in [Threads -> SlotRec]
  BY DEF Notice, driverVars, StacksInv, StacksTyped
<1>2. EmptySlot \in SlotRec /\ Good(EmptySlot)
  BY EmptySlotGood
<1>3. /\ slot' \in [Threads -> SlotRec]
      /\ \A u \in Threads : slot'[u] \in {EmptySlot, slot[u]}
  <2>1. CASE UNCHANGED slot
    BY <1>1, <2>1
  <2>2. CASE t \in live
    <3> DEFINE rs == Append(retired, t)
               k  == Excess(rs)
               F  == {u \in Threads : \E i \in 1 .. k : rs[i] = u}
    <3>1. slot' = [u \in Threads |-> IF \E i \in 1 .. k : rs[i] = u THEN EmptySlot ELSE slot[u]]
      BY <2>2 DEF Notice
    <3> HIDE DEF rs, k
    <3>2. \A u \in Threads : (\E i \in 1 .. k : rs[i] = u) <=> u \in F
      OBVIOUS
    <3> HIDE DEF F
    <3>3. slot' = [u \in Threads |-> IF u \in F THEN EmptySlot ELSE slot[u]]
      BY <3>1, <3>2
    <3>4. QED
      BY <1>1, <1>2, <3>3
  <2>3. QED
    BY <2>1, <2>2 DEF Notice
<1>4. \A u \in Threads : Good(slot'[u])
  BY <1>1, <1>2, <1>3 DEF StacksInv, SlotsSound, Good
<1>5. StacksTyped' /\ PrimaryLives' /\ ServingKnown' /\ CallShown'
  BY <1>1, <1>3 DEF StacksInv, StacksTyped, PrimaryLives, ServingKnown, CallShown
<1>6. SlotsSound'
  BY <1>1, <1>4 DEF SlotsSound, Good, Sound
<1>7. QED
  BY <1>5, <1>6 DEF StacksInv

-----------------------------------------------------------------------------
(* Every step keeps it.                                                    *)
LEMMA StacksStep == StacksInv /\ [Next]_vars => StacksInv'
<1> SUFFICES ASSUME StacksInv, [Next]_vars PROVE StacksInv'
  OBVIOUS
<1>1. ASSUME NEW t \in Threads, Handler(t)
      PROVE  StacksInv'
  BY <1>1, HandlersKeep, CreateKeeps, DestroyKeeps, DestroyedKeeps DEF Handler
<1>2. CASE Step
  BY <1>1, <1>2, BeginKeeps, NoticeKeeps, AfterKeeps, OthersKeep DEF Step
<1>3. CASE UNCHANGED vars
  BY <1>3 DEF vars, StacksInv, StacksTyped, PrimaryLives, ServingKnown, SlotsSound, CallShown,
              Sound, Named
<1>4. QED
  BY <1>2, <1>3 DEF Next

(* The stacks and the serving thread agree as they should, always.         *)
THEOREM StacksHold == Spec => []StacksInv
BY StacksInit, StacksStep, PTL DEF Spec

(* What the server believes its serving thread has current is what it has, *)
(* whenever a request is shown or a new one begins (client_threads.cpp).   *)
THEOREM AlwaysBelievesTheDriver == Spec => []BelievesTheDriver
<1>1. StacksInv => BelievesTheDriver
  BY DEF StacksInv, ServingKnown, BelievesTheDriver, Believes
<1>2. QED
  BY <1>1, StacksHold, PTL

(* No slot names a destroyed context as if it lived, though its address    *)
(* was given to another (client_threads_destroyed).                        *)
THEOREM NeverStale == Spec => []NothingStale
<1>1. StacksInv => NothingStale
  BY DEF StacksInv, SlotsSound, Sound, NothingStale
<1>2. QED
  BY <1>1, StacksHold, PTL

(* While a request runs, the driver has current the context its own thread *)
(* selected, which is this session's and lives, or none (main.cpp, serve). *)
THEOREM AlwaysOwnContext == Spec => []OwnContextOrNone
<1>1. ASSUME StacksInv, req.pc = "call", DriverCurrent(serving) # NoCtx
      PROVE  at[DriverCurrent(serving)] = Last(slot[req.t].stack).of /\ at[DriverCurrent(serving)] \in ours
  <2> DEFINE st == slot[req.t].stack
  <2>1. /\ DriverCurrent(serving) = Current(slot[req.t]) /\ req.t \in Threads
        /\ st \in Seq(Entries)
    BY <1>1 DEF StacksInv, StacksTyped, ServingKnown, CallShown, Shown, ContextShown, Believes, SlotRec
  <2>2. st # <<>> /\ ~Last(st).gone /\ DriverCurrent(serving) = Last(st).ctx
    BY <1>1, <2>1 DEF Current
  <2>3. Len(st) \in DOMAIN st /\ Last(st) = st[Len(st)]
    BY <2>1, <2>2, FrontHolds
  <2>4. Sound(Last(st))
    BY <1>1, <2>1, <2>3 DEF StacksInv, SlotsSound
  <2>5. QED
    BY <2>2, <2>4 DEF Sound
<1>2. StacksInv => OwnContextOrNone
  BY <1>1 DEF StacksInv, ServingKnown, CallShown, Shown, ContextShown, Believes, OwnContextOrNone
<1>3. QED
  BY <1>2, StacksHold, PTL

-----------------------------------------------------------------------------
(* The refinement: what the threads see, and that ThreadContexts allows it *)
(* where the driver does as it is asked.                                   *)

(* The contexts a stack is of, which is all the application sees of it.    *)
Of(st) == [i \in DOMAIN st |-> st[i].of]

(* A stack of contexts changes as the stack of entries does.               *)
LEMMA OfAppend ==
  ASSUME NEW st \in Seq(Entries), NEW e \in Entries
  PROVE  Of(Append(st, e)) = Append(Of(st), e.of)
BY DEF Of, Entries

(* Of its top and what is under it.                                        *)
LEMMA OfFront ==
  ASSUME NEW st \in Seq(Entries), st # <<>>
  PROVE  /\ Of(Front(st)) = Front(Of(st)) /\ Of(st) # <<>>
         /\ Last(Of(st)) = Last(st).of
BY DEF Of, Entries, Front, Last

(* An empty stack is of nothing.                                           *)
LEMMA OfEmpty == Of(<<>>) = <<>>
BY DEF Of

(* It is as deep as the stack.                                             *)
LEMMA OfLen ==
  ASSUME NEW st \in Seq(Entries)
  PROVE  Len(Of(st)) = Len(st) /\ (Of(st) = <<>> <=> st = <<>>)
BY DEF Of, Entries

(* A stack with its top replaced.                                          *)
LEMMA OfWithTop ==
  ASSUME NEW st \in Seq(Entries), NEW e \in Entries
  PROVE  Of(WithTop(st, e)) = Own!WithTop(Of(st), e.of)
<1>1. CASE st = <<>>
  <2>1. Of(WithTop(st, e)) = Append(Of(st), e.of) /\ Of(st) = <<>>
    BY <1>1, OfAppend, OfEmpty DEF WithTop
  <2>2. QED
    BY <2>1 DEF Own!WithTop
<1>2. CASE st # <<>>
  <2>1. Front(st) \in Seq(Entries)
    BY <1>2, FrontHolds
  <2>2. Of(WithTop(st, e)) = Append(Front(Of(st)), e.of) /\ Of(st) # <<>>
    <3>1. WithTop(st, e) = Append(Front(st), e)
      BY <1>2 DEF WithTop
    <3>2. QED
      BY <1>2, <2>1, <3>1, OfAppend, OfFront
  <2>3. QED
    BY <2>2 DEF Own!WithTop, Own!Front, Front
<1>3. QED
  BY <1>1, <1>2

(* A driver that does as it is asked.                                      *)
Obeys(may) == may.set /\ may.none /\ may.mode
(* It does whenever it may not refuse.                                     *)
LEMMA VerdictsObey == ASSUME ~setting.may_refuse, NEW may \in Verdicts PROVE Obeys(may)
BY DEF Verdicts, Obeys

(* Then a slot is shown as it is.                                          *)
LEMMA ShowsAsItIs ==
  ASSUME NEW w, Known(w), NEW sl \in SlotRec, at \in [Addrs -> Ctxs], NEW may, Obeys(may)
  PROVE  LET s == Show(w, sl, may)
         IN  s.sl = sl /\ ContextShown(s.w, s.sl) /\ s.sl.mode = s.w.applied_mode
<1> DEFINE c == ShowContext(w, sl, may)
<1>1. sl.stack \in Seq(Entries) /\ w \in Serving
  BY DEF SlotRec, Known
<1>2. c.sl = sl /\ c.w.applied = Current(sl) /\ c.w \in Serving /\ c = [w |-> c.w, sl |-> c.sl]
  <2>1. CASE Current(sl) = NoCtx
    <3>1. c = [w |-> Clear(w, may), sl |-> sl]
      BY <2>1 DEF ShowContext
    <3>2. Clear(w, may).applied = NoCtx
      BY <1>1 DEF Clear, Obeys, Serving
    <3>3. Clear(w, may) \in Serving
      BY ClearKnows DEF Known
    <3>4. QED
      BY <2>1, <3>1, <3>2, <3>3
  <2>2. CASE Current(sl) # NoCtx /\ Current(sl) = w.applied
    BY <1>1, <2>2 DEF ShowContext
  <2>3. CASE Current(sl) # NoCtx /\ Current(sl) # w.applied
    <3>1. Current(sl) \in Addrs
      <4>1. sl.stack # <<>> /\ Current(sl) = Last(sl.stack).ctx
        BY <2>3 DEF Current
      <4>2. Last(sl.stack) \in Entries
        BY <1>1, <4>1, FrontHolds
      <4>3. QED
        BY <4>1, <4>2 DEF Entries
    <3>2. c = [w |-> [DriverSet(w, Current(sl)) EXCEPT !.applied = Current(sl)], sl |-> sl]
      BY <2>3 DEF ShowContext, Obeys
    <3>3. LET v == [DriverSet(w, Current(sl)) EXCEPT !.applied = Current(sl)]
          IN  v \in Serving /\ v.applied = Current(sl)
      BY <3>1, SetKnows DEF Known
    <3>4. /\ c.sl = sl /\ c.w = [DriverSet(w, Current(sl)) EXCEPT !.applied = Current(sl)]
          /\ c = [w |-> c.w, sl |-> c.sl]
      BY <3>2
    <3>5. QED
      BY <3>3, <3>4
  <2>4. QED
    BY <2>1, <2>2, <2>3
<1>3. Show(w, sl, may) = [c EXCEPT !.w = ShowMode(c.w, c.sl, may)]
  BY <1>2 DEF Show, ContextShown
<1> HIDE DEF c
<1>4. /\ ShowMode(c.w, sl, may).applied = c.w.applied
      /\ ShowMode(c.w, sl, may).applied_mode = sl.mode
  BY <1>2 DEF ShowMode, Obeys, Serving
<1>5. QED
  BY <1>2, <1>3, <1>4 DEF ContextShown

-----------------------------------------------------------------------------
(* What became of the contexts.                                            *)

(* No context lives at two addresses, and none that lives or is known to   *)
(* the session was made later than the last.                               *)
NoTwoHomes == \A a, b \in Addrs : at[a] = at[b] /\ at[a] # NoContext => a = b
Dated      == (\A a \in Addrs : at[a] <= created) /\ (\A c \in ours : c <= created)

(* What the address of a context being destroyed may hold by now is not of *)
(* this session.                                                           *)
Going == req.pc = "destroyed" => req.ctx \in Addrs /\ at[req.ctx] \notin ours

(* A request that was handled has an answer.                               *)
Answered == req.pc = "after" => req.answer.result # "none"

(* A slot is retired when its thread is announced as exited.               *)
RetiredAreGone == retired \in Seq(Threads) /\ \A i \in DOMAIN retired : retired[i] \in gone

(* An entry is of a context that is found where the entry says it is, and  *)
(* not marked, or does not live.                                           *)
Lives(c)   == \E a \in Addrs : at[a] = c
Truthful(e) == e.of \in ours /\ (Lives(e.of) => ~e.gone /\ at[e.ctx] = e.of)
SlotsTruthful ==
  ~setting.may_refuse =>
    \A t \in Threads : \A i \in DOMAIN slot[t].stack : Truthful(slot[t].stack[i])

HistoryInv == NoTwoHomes /\ Dated /\ Going /\ Answered /\ RetiredAreGone /\ SlotsTruthful

(* At first only the primary context was made, and no slot has an entry.   *)
LEMMA HistoryInit == Init => HistoryInv
<1> SUFFICES ASSUME Init PROVE HistoryInv
  OBVIOUS
<1>1. /\ at = [a \in Addrs |-> IF a = Primary THEN 1 ELSE NoContext]
      /\ created = 1 /\ ours = {1} /\ slot = [t \in Threads |-> EmptySlot] /\ req = Idle
      /\ retired = <<>>
  BY DEF Init
<1>2. NoTwoHomes /\ Dated
  BY <1>1 DEF NoTwoHomes, Dated, NoContext
<1>3. Going /\ Answered
  BY <1>1 DEF Going, Answered, Idle
<1>4. RetiredAreGone
  BY <1>1 DEF RetiredAreGone
<1>5. SlotsTruthful
  BY <1>1 DEF SlotsTruthful, EmptySlot
<1>6. QED
  BY <1>2, <1>3, <1>4, <1>5 DEF HistoryInv

(* A context of this session lives, and an entry of it is truthful.        *)
LEMMA EntryTruthful ==
  ASSUME StacksInv, NoTwoHomes, NEW a \in Addrs, at[a] \in ours
  PROVE  Entry(a) \in Entries /\ Truthful(Entry(a))
<1>1. at \in [Addrs -> Ctxs] /\ ours \subseteq Ctxs \ {NoContext}
  BY DEF StacksInv, StacksTyped
<1>2. QED
  BY <1>1 DEF Truthful, Entry, Entries, NoTwoHomes

(* The slots, when those that are not as they were hold truthful entries.  *)
LEMMA TruthKept ==
  ASSUME StacksInv, HistoryInv, UNCHANGED <<setting, at, ours>>,
         NEW sl, NEW t \in Threads, slot' = [slot EXCEPT ![t] = sl],
         ~setting.may_refuse => \A i \in DOMAIN sl.stack : Truthful(sl.stack[i])
  PROVE  SlotsTruthful'
<1>1. slot \in [Threads -> SlotRec]
  BY DEF StacksInv, StacksTyped
<1>2. \A u \in Threads : slot'[u] = IF u = t THEN sl ELSE slot[u]
  BY <1>1
<1>3. ASSUME NEW x, Truthful(x) PROVE Truthful(x)'
  BY <1>3 DEF Truthful, Lives
<1>4. ~setting.may_refuse => \A u \in Threads : \A i \in DOMAIN slot'[u].stack : Truthful(slot'[u].stack[i])
  BY <1>2 DEF HistoryInv, SlotsTruthful
<1>5. QED
  BY <1>3, <1>4 DEF SlotsTruthful, Truthful, Lives

(* A stack put on a truthful slot.                                         *)
LEMMA TruthfulStacks ==
  ASSUME NEW st \in Seq(Entries), \A i \in DOMAIN st : Truthful(st[i]),
         NEW e \in Entries
  PROVE  /\ st # <<>> => \A i \in DOMAIN Front(st) : Truthful(Front(st)[i])
         /\ Truthful(e) => /\ \A i \in DOMAIN Append(st, e) : Truthful(Append(st, e)[i])
                           /\ \A i \in DOMAIN WithTop(st, e) : Truthful(WithTop(st, e)[i])
<1>1. st # <<>> => \A i \in DOMAIN Front(st) : Truthful(Front(st)[i])
  BY FrontHolds
<1>2. /\ \A i \in DOMAIN Append(st, e) : Append(st, e)[i] = e \/ (i \in DOMAIN st /\ Append(st, e)[i] = st[i])
      /\ \A i \in DOMAIN WithTop(st, e) : WithTop(st, e)[i] = e \/ (i \in DOMAIN st /\ WithTop(st, e)[i] = st[i])
  BY AppendHolds, WithTopHolds
<1>3. QED
  BY <1>1, <1>2

(* What ThreadContexts is told of.                                         *)
OwnStacks == [t \in Threads |-> OwnStack(t)]
OwnModes  == [t \in Threads |-> slot[t].mode]

(* The step under way is one of ThreadContexts, and leaves the slots       *)
(* truthful.                                                               *)
Implemented == (Own!Next \/ UNCHANGED Own!vars) /\ SlotsTruthful'

(* What a thread sees of its slot when it is called.                       *)
LEMMA SeenAtCall ==
  ASSUME StacksInv, NEW t \in Threads, Calling(t)
  PROVE  /\ TheAnswer = NoAnswer
         /\ OwnStacks = [u \in Threads |-> Of(slot[u].stack)]
<1>1. req.pc = "call"
  BY DEF Calling
<1>2. TheAnswer = NoAnswer
  BY <1>1 DEF TheAnswer
<1>3. ASSUME NEW u \in Threads PROVE OwnStack(u) = Of(slot[u].stack)
  BY <1>1 DEF OwnStack, Of
<1>4. QED
  BY <1>2, <1>3 DEF OwnStacks

(* And when it has been handled, with the driver as the server knows it.   *)
LEMMA SeenAfter ==
  ASSUME StacksInv, NEW t \in Threads, Calling(t), NEW ans \in AnswerRec, Handled(ans),
         NEW sl \in SlotRec, slot' = [slot EXCEPT ![t] = sl], Believes(serving')
  PROVE  /\ TheAnswer' = Corrected(ans, sl)
         /\ OwnStacks' = [OwnStacks EXCEPT ![t] = Of(sl.stack)]
         /\ OwnModes' = [OwnModes EXCEPT ![t] = sl.mode]
<1>1. req \in ReqRec /\ req.t = t /\ slot \in [Threads -> SlotRec]
  BY DEF Calling, StacksInv, StacksTyped
<1>2. req'.pc = "after" /\ req'.t = t /\ req'.answer = ans
  BY <1>1 DEF Handled, ReqRec
<1>3. \A u \in Threads : slot'[u] = IF u = t THEN sl ELSE slot[u]
  BY <1>1
<1>4. \A u : Adopted(serving, slot[u])' = slot'[u]
  <2>1. DriverCurrent(serving') = serving'.applied
    BY DEF Believes
  <2>2. QED
    BY <2>1 DEF Adopted
<1>5. TheAnswer' = Corrected(ans, sl)
  <2>1. Adopted(serving, slot[req.t])' = sl
    BY <1>2, <1>3, <1>4
  <2>2. QED
    BY <1>2, <2>1 DEF TheAnswer, Corrected
<1>6. ASSUME NEW u \in Threads
      PROVE  OwnStack(u)' = IF u = t THEN Of(sl.stack) ELSE Of(slot[u].stack)
  <2>1. OwnStack(u)' = Of(slot'[u].stack)
    BY <1>2, <1>4 DEF OwnStack, Of
  <2>2. QED
    BY <1>3, <2>1
<1>7. OwnStacks = [u \in Threads |-> Of(slot[u].stack)]
  BY SeenAtCall
<1>8. OwnStacks' = [OwnStacks EXCEPT ![t] = Of(sl.stack)]
  BY <1>6, <1>7 DEF OwnStacks
<1>9. OwnModes' = [OwnModes EXCEPT ![t] = sl.mode]
  <2>1. OwnModes' = [u \in Threads |-> slot'[u].mode]
    BY DEF OwnModes
  <2>2. OwnModes' = [u \in Threads |-> IF u = t THEN sl.mode ELSE slot[u].mode]
    BY <1>3, <2>1
  <2>3. QED
    BY <2>2 DEF OwnModes
<1>10. QED
  BY <1>5, <1>8, <1>9

(* Answers that are taken as they are.                                     *)
LEMMA Uncorrected ==
  ASSUME NEW ans, NEW sl, ans.result # "invalid" \/ sl.stack = <<>>
  PROVE  Corrected(ans, sl) = ans
BY DEF Corrected

(* A handler that only answers.                                            *)
LEMMA SlotSeenAsItWas ==
  ASSUME StacksInv, HistoryInv, ~setting.may_refuse,
         NEW t \in Threads, Calling(t), NEW ans \in AnswerRec, Handled(ans),
         UNCHANGED <<setting, driverVars, tableVars, slot>>, Believes(serving')
  PROVE  /\ TheAnswer' = Corrected(ans, slot[t])
         /\ UNCHANGED <<at, ours, OwnStacks, OwnModes, gone>>
         /\ SlotsTruthful'
<1>1. slot \in [Threads -> SlotRec] /\ slot[t] \in SlotRec /\ slot' = [slot EXCEPT ![t] = slot[t]]
  BY DEF StacksInv, StacksTyped
<1>2. /\ TheAnswer' = Corrected(ans, slot[t])
      /\ OwnStacks' = [OwnStacks EXCEPT ![t] = Of(slot[t].stack)]
  <2>1. ASSUME NEW sl \in SlotRec, sl = slot[t]
        PROVE  TheAnswer' = Corrected(ans, sl) /\ OwnStacks' = [OwnStacks EXCEPT ![t] = Of(sl.stack)]
    <3>1. slot' = [slot EXCEPT ![t] = sl]
      BY <1>1, <2>1
    <3>2. QED
      BY <3>1, SeenAfter, Zenon
  <2>2. QED
    BY <1>1, <2>1
<1>3. OwnStacks = [u \in Threads |-> Of(slot[u].stack)]
  BY SeenAtCall
<1>4. OwnStacks' = OwnStacks
  BY <1>2, <1>3
<1>5. OwnModes' = OwnModes
  BY DEF OwnModes
<1>6. SlotsTruthful'
  BY DEF HistoryInv, SlotsTruthful, Truthful, Lives, driverVars
<1>7. QED
  BY <1>2, <1>4, <1>5, <1>6 DEF driverVars, tableVars

(* The driver's top is set, and the thread sees that on its stack.         *)
LEMMA SetTopSeen ==
  ASSUME StacksInv, HistoryInv, ~setting.may_refuse, NEW t \in Threads, Calling(t), NEW a \in Handles,
         NEW st \in {WithTop(slot[t].stack, Entry(a)), Append(slot[t].stack, Entry(a))},
         NEW may \in Verdicts, SetTop(t, a, st, may), UNCHANGED <<setting, driverVars, tableVars>>
  PROVE  /\ TheAnswer = NoAnswer /\ TheAnswer' = Ok(NoContext)
         /\ OwnStacks = [u \in Threads |-> Of(slot[u].stack)]
         /\ OwnStacks' = [OwnStacks EXCEPT ![t] = Of(st)]
         /\ UNCHANGED <<at, ours, OwnModes, gone>>
         /\ SlotsTruthful'
<1> DEFINE sl == Noted(slot[t], st)
           v == [DriverSet(serving, a) EXCEPT !.applied = a]
<1>1. a \in Addrs /\ at[a] \in ours
  BY DEF Handles
<1>2. /\ Known(serving) /\ Good(slot[t]) /\ slot[t].stack \in Seq(Entries)
      /\ at \in [Addrs -> Ctxs] /\ slot \in [Threads -> SlotRec]
  BY AtCall
<1>3. serving' = v /\ slot' = [slot EXCEPT ![t] = sl] /\ Handled(Ok(NoContext))
  BY VerdictsObey DEF SetTop, Obeys
<1>4. Believes(v)
  BY <1>1, <1>2, SetKnows DEF Known
<1> HIDE DEF v
<1>5. Entry(a) \in Entries /\ Truthful(Entry(a))
  BY <1>1, EntryTruthful DEF HistoryInv
<1>6. st \in Seq(Entries) /\ \A i \in DOMAIN st : Truthful(st[i])
  <2>1. \A i \in DOMAIN slot[t].stack : Truthful(slot[t].stack[i])
    BY DEF HistoryInv, SlotsTruthful
  <2>2. QED
    BY <1>2, <1>5, <2>1, TruthfulStacks, AppendHolds, WithTopHolds
<1>7. sl \in SlotRec /\ sl.stack = st /\ sl.mode = slot[t].mode
  BY <1>2, <1>6, NotedHolds
<1> HIDE DEF sl
<1>8. SlotsTruthful'
  BY <1>3, <1>6, <1>7, TruthKept DEF driverVars
<1>9. /\ TheAnswer' = Corrected(Ok(NoContext), sl)
      /\ OwnStacks' = [OwnStacks EXCEPT ![t] = Of(st)]
      /\ OwnModes' = [OwnModes EXCEPT ![t] = slot[t].mode]
  <2>1. Believes(serving')
    BY <1>3, <1>4
  <2>2. Ok(NoContext) \in AnswerRec
    BY PlainAnswers, ContextStacksAssumption DEF Results, NoContext, Ctxs
  <2>3. /\ TheAnswer' = Corrected(Ok(NoContext), sl)
        /\ OwnStacks' = [OwnStacks EXCEPT ![t] = Of(sl.stack)]
        /\ OwnModes' = [OwnModes EXCEPT ![t] = sl.mode]
    BY <1>3, <1>7, <2>1, <2>2, SeenAfter, Zenon
  <2>4. QED
    BY <1>7, <2>3
<1>10. TheAnswer' = Ok(NoContext)
  BY <1>9, Uncorrected DEF Ok, Answer
<1>11. OwnModes' = OwnModes
  BY <1>9 DEF OwnModes
<1>12. QED
  BY <1>8, <1>9, <1>10, <1>11, SeenAtCall DEF driverVars, tableVars

(* Both modules mean the same by an answer.                                *)
LEMMA SameAnswers ==
  /\ Own!NoAnswer = NoAnswer /\ Own!NoContext = NoContext /\ Own!NoMode = NoMode
  /\ \A of : Own!Ok(of) = Ok(of)
  /\ \A result, of, was : Own!Answer(result, of, was) = Answer(result, of, was)
BY DEF Own!NoAnswer, NoAnswer, Own!Ok, Ok, Own!Answer, Answer, Own!NoContext, NoContext, Own!NoMode, NoMode

(* The step of a handler of this module is one of ThreadContexts.          *)
LEMMA SetCurrentImplemented ==
  ASSUME StacksInv, HistoryInv, ~setting.may_refuse, UNCHANGED setting,
         NEW t \in Threads, NEW a \in Addrs, SetCurrent(t, a)
  PROVE  Implemented
<1>1. PICK may \in Verdicts : SetTop(t, a, WithTop(slot[t].stack, Entry(a)), may)
  BY DEF SetCurrent
<1>2. a \in Handles /\ Calling(t) /\ UNCHANGED <<driverVars, tableVars>>
  BY DEF SetCurrent
<1>3. /\ TheAnswer = NoAnswer /\ TheAnswer' = Ok(NoContext)
      /\ OwnStacks = [u \in Threads |-> Of(slot[u].stack)]
      /\ OwnStacks' = [OwnStacks EXCEPT ![t] = Of(WithTop(slot[t].stack, Entry(a)))]
      /\ UNCHANGED <<at, ours, OwnModes, gone>>
      /\ SlotsTruthful'
  BY <1>1, <1>2, SetTopSeen
<1>4. slot[t].stack \in Seq(Entries) /\ Entry(a) \in Entries
  BY <1>2, AtCall, EntryTruthful DEF Handles, HistoryInv
<1>5. Of(WithTop(slot[t].stack, Entry(a))) = Own!WithTop(OwnStacks[t], at[a])
  BY <1>3, <1>4, OfWithTop DEF Entry
<1>6. OwnStacks' = [OwnStacks EXCEPT ![t] = Own!WithTop(OwnStacks[t], at[a])]
  BY <1>3, <1>5
<1>7. Own!SetCurrent(t, a)
  BY <1>2, <1>3, <1>6, SameAnswers DEF Own!SetCurrent, Own!Handles, Handles, OwnStacks, OwnModes
<1>8. QED
  BY <1>3, <1>7 DEF Implemented, Own!Next

(* A push, or its refusal on a full stack.                                 *)
LEMMA PushImplemented ==
  ASSUME StacksInv, HistoryInv, ~setting.may_refuse, UNCHANGED setting,
         NEW t \in Threads, NEW a \in Addrs, Push(t, a)
  PROVE  Implemented
<1>1. a \in Handles /\ Calling(t) /\ UNCHANGED <<driverVars, tableVars>>
  BY DEF Push
<1>2. /\ slot[t].stack \in Seq(Entries) /\ Entry(a) \in Entries /\ Believes(serving)
      /\ TheAnswer = NoAnswer /\ OwnStacks = [u \in Threads |-> Of(slot[u].stack)]
  BY <1>1, AtCall, SeenAtCall, EntryTruthful DEF Handles, HistoryInv, Known
<1>3. Len(OwnStacks[t]) = Len(slot[t].stack)
  BY <1>2, OfLen
<1>4. CASE MayPush(t)
  <2>1. PICK may \in Verdicts : SetTop(t, a, Append(slot[t].stack, Entry(a)), may)
    BY <1>4 DEF Push
  <2>2. /\ TheAnswer' = Ok(NoContext)
        /\ OwnStacks' = [OwnStacks EXCEPT ![t] = Of(Append(slot[t].stack, Entry(a)))]
        /\ UNCHANGED <<at, ours, OwnModes, gone>>
        /\ SlotsTruthful'
    BY <1>1, <2>1, SetTopSeen
  <2>3. Of(Append(slot[t].stack, Entry(a))) = Append(OwnStacks[t], at[a])
    BY <1>2, OfAppend DEF Entry
  <2>4. OwnStacks' = [OwnStacks EXCEPT ![t] = Append(OwnStacks[t], at[a])]
    BY <2>2, <2>3
  <2>5. Len(OwnStacks[t]) < MaxStack
    BY <1>3, <1>4 DEF MayPush
  <2>6. Own!Push(t, a)
    BY <1>1, <1>2, <2>2, <2>4, <2>5, SameAnswers DEF Own!Push, Own!Handles, Handles, OwnStacks, OwnModes
  <2>7. QED
    BY <2>2, <2>6 DEF Implemented, Own!Next
<1>5. CASE ~MayPush(t)
  <2>1. Handled(Failed("refused")) /\ UNCHANGED <<serving, slot>>
    BY <1>5 DEF Push
  <2>2. Failed("refused") \in AnswerRec /\ Believes(serving')
    BY <1>2, <2>1, PlainAnswers, ContextStacksAssumption DEF Results, NoContext, Ctxs, Believes
  <2>3. /\ TheAnswer' = Corrected(Failed("refused"), slot[t])
        /\ UNCHANGED <<at, ours, OwnStacks, OwnModes, gone>> /\ SlotsTruthful'
    BY <1>1, <2>1, <2>2, SlotSeenAsItWas, Zenon
  <2>4. TheAnswer' = Failed("refused")
    BY <2>3, Uncorrected DEF Failed, Answer
  <2>5. ~(Len(OwnStacks[t]) < MaxStack)
    BY <1>3, <1>5 DEF MayPush
  <2>6. Own!Push(t, a)
    BY <1>1, <1>2, <2>3, <2>4, <2>5, SameAnswers
       DEF Own!Push, Own!Handles, Handles, OwnStacks, OwnModes, Failed
  <2>7. QED
    BY <2>3, <2>6 DEF Implemented, Own!Next
<1>6. QED
  BY <1>4, <1>5

(* A thread whose stack was popped sees what is left of it.                *)
LEMMA ShowTopSeen ==
  ASSUME StacksInv, HistoryInv, ~setting.may_refuse, NEW t \in Threads, Calling(t),
         slot[t].stack # <<>>, NEW may \in Verdicts, NEW of \in Ctxs,
         ShowTop(t, Noted(slot[t], Front(slot[t].stack)), may, of),
         UNCHANGED <<setting, driverVars, tableVars>>
  PROVE  /\ TheAnswer = NoAnswer /\ TheAnswer' = Ok(of)
         /\ OwnStacks[t] = Of(slot[t].stack) /\ OwnStacks[t] # <<>>
         /\ OwnStacks' = [OwnStacks EXCEPT ![t] = Front(OwnStacks[t])]
         /\ UNCHANGED <<at, ours, OwnModes, gone>>
         /\ SlotsTruthful'
<1> DEFINE st == Front(slot[t].stack)
           sl == Noted(slot[t], st)
           s  == Show(serving, sl, may)
<1>1. /\ Known(serving) /\ Good(slot[t]) /\ slot[t].stack \in Seq(Entries)
      /\ at \in [Addrs -> Ctxs] /\ slot \in [Threads -> SlotRec] /\ slot[t] \in SlotRec
  BY AtCall
<1>2. /\ st \in Seq(Entries) /\ \A i \in DOMAIN st : Truthful(st[i])
  <2>1. \A i \in DOMAIN slot[t].stack : Truthful(slot[t].stack[i])
    BY DEF HistoryInv, SlotsTruthful
  <2>2. QED
    BY <1>1, <2>1, FrontHolds
<1>3. sl \in SlotRec /\ Named(sl) /\ sl.stack = st /\ sl.mode = slot[t].mode
  BY <1>1, <1>2, NotedHolds
<1>4. /\ serving' = s.w /\ slot' = [slot EXCEPT ![t] = s.sl]
      /\ Handled(IF ContextShown(s.w, s.sl) /\ s.sl.mode = s.w.applied_mode
                 THEN Ok(of) ELSE Answer("error", of, NoMode))
  BY DEF ShowTop
<1> HIDE DEF sl
<1>5. /\ s.sl = sl /\ ContextShown(s.w, s.sl) /\ s.sl.mode = s.w.applied_mode
      /\ Believes(s.w)
  BY <1>1, <1>3, VerdictsObey, ShowsAsItIs, ShowKnows DEF Known
<1> HIDE DEF s
<1>6. Handled(Ok(of)) /\ slot' = [slot EXCEPT ![t] = sl] /\ Believes(serving')
  BY <1>4, <1>5
<1>7. Ok(of) \in AnswerRec
  BY PlainAnswers DEF Results
<1>8. /\ TheAnswer' = Corrected(Ok(of), sl)
      /\ OwnStacks' = [OwnStacks EXCEPT ![t] = Of(sl.stack)]
      /\ OwnModes' = [OwnModes EXCEPT ![t] = sl.mode]
  BY <1>3, <1>6, <1>7, SeenAfter, Zenon
<1>9. SlotsTruthful'
  BY <1>2, <1>3, <1>6, TruthKept DEF driverVars
<1>10. TheAnswer' = Ok(of)
  BY <1>8, Uncorrected DEF Ok, Answer
<1>11. OwnModes' = OwnModes
  BY <1>3, <1>8 DEF OwnModes
<1>12. TheAnswer = NoAnswer /\ OwnStacks[t] = Of(slot[t].stack)
  BY SeenAtCall
<1>13. Of(st) = Front(OwnStacks[t]) /\ OwnStacks[t] # <<>>
  BY <1>1, <1>12, OfFront
<1>14. OwnStacks' = [OwnStacks EXCEPT ![t] = Front(OwnStacks[t])]
  BY <1>3, <1>8, <1>13
<1>15. QED
  BY <1>9, <1>10, <1>11, <1>12, <1>13, <1>14 DEF driverVars, tableVars

(* The stack loses its top when none is made current.                      *)
LEMMA SetNoneImplemented ==
  ASSUME StacksInv, HistoryInv, ~setting.may_refuse, UNCHANGED setting,
         NEW t \in Threads, SetNone(t)
  PROVE  Implemented
<1>1. Calling(t) /\ UNCHANGED <<driverVars, tableVars>>
  BY DEF SetNone
<1>2. /\ slot[t].stack \in Seq(Entries) /\ Believes(serving)
      /\ TheAnswer = NoAnswer /\ OwnStacks = [u \in Threads |-> Of(slot[u].stack)]
  BY <1>1, AtCall, SeenAtCall DEF Known
<1>3. NoContext \in Ctxs
  BY ContextStacksAssumption DEF NoContext, Ctxs
<1>4. CASE slot[t].stack = <<>>
  <2>1. Handled(Ok(NoContext)) /\ UNCHANGED <<serving, slot>>
    BY <1>4 DEF SetNone
  <2>2. Ok(NoContext) \in AnswerRec /\ Believes(serving')
    BY <1>2, <1>3, <2>1, PlainAnswers DEF Results, Believes
  <2>3. /\ TheAnswer' = Corrected(Ok(NoContext), slot[t])
        /\ UNCHANGED <<at, ours, OwnStacks, OwnModes, gone>> /\ SlotsTruthful'
    BY <1>1, <2>1, <2>2, SlotSeenAsItWas, Zenon
  <2>4. TheAnswer' = Ok(NoContext)
    BY <2>3, Uncorrected DEF Ok, Answer
  <2>5. OwnStacks[t] = <<>> /\ OwnStacks' = [OwnStacks EXCEPT ![t] = OwnStacks[t]]
    BY <1>2, <1>4, <2>3, OfEmpty
  <2>6. Own!SetNone(t)
    BY <1>2, <2>3, <2>4, <2>5, SameAnswers DEF Own!SetNone, OwnStacks, OwnModes
  <2>7. QED
    BY <2>3, <2>6 DEF Implemented, Own!Next
<1>5. CASE slot[t].stack # <<>>
  <2>1. PICK may \in Verdicts : ShowTop(t, Noted(slot[t], Front(slot[t].stack)), may, NoContext)
    BY <1>5 DEF SetNone
  <2>2. /\ TheAnswer' = Ok(NoContext) /\ OwnStacks[t] # <<>>
        /\ OwnStacks' = [OwnStacks EXCEPT ![t] = Front(OwnStacks[t])]
        /\ UNCHANGED <<at, ours, OwnModes, gone>> /\ SlotsTruthful'
    BY <1>1, <1>3, <1>5, <2>1, ShowTopSeen
  <2>3. Own!SetNone(t)
    BY <1>2, <2>2, SameAnswers DEF Own!SetNone, Own!Front, Front, OwnStacks, OwnModes
  <2>4. QED
    BY <2>2, <2>3 DEF Implemented, Own!Next
<1>6. QED
  BY <1>4, <1>5

(* A pop answers the context that was on top.                              *)
LEMMA PopImplemented ==
  ASSUME StacksInv, HistoryInv, ~setting.may_refuse, UNCHANGED setting,
         NEW t \in Threads, Pop(t)
  PROVE  Implemented
<1>1. Calling(t) /\ UNCHANGED <<driverVars, tableVars>>
  BY DEF Pop
<1>2. /\ slot[t].stack \in Seq(Entries) /\ Known(serving)
      /\ TheAnswer = NoAnswer /\ OwnStacks = [u \in Threads |-> Of(slot[u].stack)]
  BY <1>1, AtCall, SeenAtCall
<1>3. NoContext \in Ctxs
  BY ContextStacksAssumption DEF NoContext, Ctxs
<1>4. CASE slot[t].stack = <<>>
  <2>1. Handled(Failed("invalid")) /\ UNCHANGED slot /\ serving' = ReadBack(DriverPop(serving))
    BY <1>4 DEF Pop
  <2>2. Failed("invalid") \in AnswerRec
    BY <1>3, PlainAnswers DEF Results
  <2>3. Believes(serving')
    BY <1>2, <2>1, DriverPopTyped, ReadBackKnows DEF Known
  <2>4. /\ TheAnswer' = Corrected(Failed("invalid"), slot[t])
        /\ UNCHANGED <<at, ours, OwnStacks, OwnModes, gone>> /\ SlotsTruthful'
    BY <1>1, <2>1, <2>2, <2>3, SlotSeenAsItWas, Zenon
  <2>5. TheAnswer' = Failed("invalid")
    BY <1>4, <2>4, Uncorrected
  <2>6. OwnStacks[t] = <<>>
    BY <1>2, <1>4, OfEmpty
  <2>7. Own!Pop(t)
    BY <1>2, <2>4, <2>5, <2>6, SameAnswers DEF Own!Pop, OwnStacks, OwnModes, Failed
  <2>8. QED
    BY <2>4, <2>7 DEF Implemented, Own!Next
<1>5. CASE slot[t].stack # <<>>
  <2>1. PICK may \in Verdicts :
          ShowTop(t, Noted(slot[t], Front(slot[t].stack)), may, Last(slot[t].stack).of)
    BY <1>5 DEF Pop
  <2>2. Last(slot[t].stack).of \in Ctxs
    BY <1>2, <1>5, FrontHolds DEF Entries
  <2>3. /\ TheAnswer' = Ok(Last(slot[t].stack).of) /\ OwnStacks[t] # <<>>
        /\ OwnStacks' = [OwnStacks EXCEPT ![t] = Front(OwnStacks[t])]
        /\ UNCHANGED <<at, ours, OwnModes, gone>> /\ SlotsTruthful'
    BY <1>1, <1>5, <2>1, <2>2, ShowTopSeen
  <2>4. Last(slot[t].stack).of = Last(OwnStacks[t])
    BY <1>2, <1>5, OfFront
  <2>5. Own!Pop(t)
    BY <1>2, <2>3, <2>4, SameAnswers DEF Own!Pop, Own!Front, Front, Own!Last, Last, OwnStacks, OwnModes
  <2>6. QED
    BY <2>3, <2>5 DEF Implemented, Own!Next
<1>6. QED
  BY <1>4, <1>5

(* The driver has current what lives on top of the thread's stack, or      *)
(* nothing where what is there does not live.                              *)
LEMMA TopAtCall ==
  ASSUME StacksInv, HistoryInv, ~setting.may_refuse, NEW t \in Threads, Calling(t)
  PROVE  LET st == slot[t].stack
             a  == DriverCurrent(serving)
         IN  /\ serving.mode = slot[t].mode /\ serving.applied = a /\ Current(slot[t]) = a
             /\ st = <<>> => a = NoCtx
             /\ st # <<>> => IF Last(st).gone THEN a = NoCtx /\ ~Lives(Last(st).of)
                             ELSE a \in Addrs /\ at[a] = Last(st).of /\ Lives(Last(st).of)
<1> DEFINE st == slot[t].stack
<1>1. /\ serving.mode = slot[t].mode /\ serving.applied = DriverCurrent(serving)
      /\ DriverCurrent(serving) = Current(slot[t])
      /\ st \in Seq(Entries) /\ at \in [Addrs -> Ctxs] /\ Good(slot[t])
  BY AtCall DEF Calling, StacksInv, CallShown, ServingKnown, Shown, ContextShown, Known, Believes
<1>2. CASE st = <<>>
  BY <1>1, <1>2 DEF Current
<1>3. CASE st # <<>>
  <2>1. Last(st) \in Entries /\ Len(st) \in DOMAIN st /\ Last(st) = st[Len(st)]
    BY <1>1, <1>3, FrontHolds
  <2>2. Truthful(Last(st)) /\ Sound(Last(st))
    BY <1>1, <2>1 DEF HistoryInv, SlotsTruthful, Good
  <2>3. Last(st).ctx \in Addrs
    BY <2>1 DEF Entries
  <2>4. CASE Last(st).gone
    BY <1>1, <1>3, <2>2, <2>4 DEF Current, Truthful
  <2>5. CASE ~Last(st).gone
    BY <1>1, <1>3, <2>2, <2>3, <2>5 DEF Current, Sound, Lives
  <2>6. QED
    BY <2>4, <2>5, <1>1, <1>3
<1>4. QED
  BY <1>1, <1>2, <1>3

(* The context on top, destroyed or not, is the current one.               *)
LEMMA GetCurrentImplemented ==
  ASSUME StacksInv, HistoryInv, ~setting.may_refuse, UNCHANGED setting,
         NEW t \in Threads, GetCurrent(t)
  PROVE  Implemented
<1> DEFINE of == IF slot[t].stack = <<>> THEN NoContext ELSE Last(slot[t].stack).of
<1>1. Calling(t) /\ UNCHANGED <<driverVars, tableVars, serving, slot>> /\ Handled(Ok(of))
  BY DEF GetCurrent
<1>2. /\ slot[t].stack \in Seq(Entries) /\ Believes(serving)
      /\ TheAnswer = NoAnswer /\ OwnStacks = [u \in Threads |-> Of(slot[u].stack)]
  BY <1>1, AtCall, SeenAtCall DEF Known
<1>3. of \in Ctxs
  <2>1. slot[t].stack # <<>> => Last(slot[t].stack) \in Entries
    BY <1>2, FrontHolds
  <2>2. QED
    BY <2>1, ContextStacksAssumption DEF NoContext, Ctxs, Entries
<1>4. of = IF OwnStacks[t] = <<>> THEN NoContext ELSE Last(OwnStacks[t])
  BY <1>2, OfLen, OfFront
<1> HIDE DEF of
<1>5. Ok(of) \in AnswerRec /\ Believes(serving')
  BY <1>1, <1>2, <1>3, PlainAnswers DEF Results, Believes
<1>6. /\ TheAnswer' = Corrected(Ok(of), slot[t])
      /\ UNCHANGED <<at, ours, OwnStacks, OwnModes, gone>> /\ SlotsTruthful'
  BY <1>1, <1>5, SlotSeenAsItWas, Zenon
<1>7. TheAnswer' = Ok(of)
  BY <1>6, Uncorrected DEF Ok, Answer
<1>8. Own!GetCurrent(t)
  BY <1>2, <1>4, <1>6, <1>7, SameAnswers DEF Own!GetCurrent, Own!Last, Last, OwnStacks, OwnModes
<1>9. QED
  BY <1>6, <1>8 DEF Implemented, Own!Next

(* The mode that is exchanged is the thread's own.                         *)
LEMMA ExchangeModeImplemented ==
  ASSUME StacksInv, HistoryInv, ~setting.may_refuse, UNCHANGED setting,
         NEW t \in Threads, NEW m \in Modes, ExchangeMode(t, m)
  PROVE  Implemented
<1> DEFINE ans == Answer("ok", NoContext, slot[t].mode)
           sl  == [slot[t] EXCEPT !.mode = m]
           v   == [serving EXCEPT !.mode = m, !.applied_mode = m]
<1>1. Calling(t) /\ UNCHANGED <<driverVars, tableVars>>
  BY DEF ExchangeMode
<1>2. /\ Good(slot[t]) /\ Known(serving) /\ slot \in [Threads -> SlotRec]
      /\ serving.mode = slot[t].mode
      /\ TheAnswer = NoAnswer /\ OwnStacks = [u \in Threads |-> Of(slot[u].stack)]
  BY <1>1, AtCall, SeenAtCall, TopAtCall
<1>3. Handled(ans) /\ serving' = v /\ slot' = [slot EXCEPT ![t] = sl]
  BY <1>2, VerdictsObey DEF ExchangeMode, Obeys
<1>4. ans \in AnswerRec /\ ans.result = "ok"
  <2>1. NoContext \in Ctxs /\ "ok" \in Results /\ slot[t].mode \in Modes
    BY <1>2, ContextStacksAssumption DEF Good, SlotRec, Results, NoContext, Ctxs
  <2>2. ans \in AnswerRec
    BY <2>1, Answers
  <2>3. QED
    BY <2>2 DEF Answer
<1>5. sl \in SlotRec /\ sl.stack = slot[t].stack /\ sl.mode = m
  BY <1>2 DEF Good, SlotRec
<1>6. v.stack = serving.stack /\ v.applied = serving.applied
  BY <1>2 DEF Known, Serving
<1> HIDE DEF ans, sl, v
<1>7. Believes(serving')
  BY <1>2, <1>3, <1>6 DEF Known, Believes, DriverCurrent
<1>8. /\ TheAnswer' = Corrected(ans, sl)
      /\ OwnStacks' = [OwnStacks EXCEPT ![t] = Of(sl.stack)]
      /\ OwnModes' = [OwnModes EXCEPT ![t] = sl.mode]
  BY <1>1, <1>3, <1>4, <1>5, <1>7, SeenAfter, Zenon
<1>9. TheAnswer' = ans
  BY <1>4, <1>8, Uncorrected
<1>10. OwnStacks' = OwnStacks /\ OwnModes' = [OwnModes EXCEPT ![t] = m] /\ OwnModes[t] = slot[t].mode
  BY <1>2, <1>5, <1>8 DEF OwnModes
<1>11. SlotsTruthful'
  <2>1. \A i \in DOMAIN sl.stack : Truthful(sl.stack[i])
    BY <1>5 DEF HistoryInv, SlotsTruthful
  <2>2. QED
    BY <1>1, <1>3, <2>1, TruthKept DEF driverVars
<1>12. Own!ExchangeMode(t, m)
  BY <1>1, <1>2, <1>9, <1>10, SameAnswers
     DEF Own!ExchangeMode, OwnStacks, OwnModes, ans, driverVars, tableVars
<1>13. QED
  BY <1>11, <1>12 DEF Implemented, Own!Next

(* A call runs in the context on top, or fails for the reason it should:   *)
(* none was current, or it was destroyed.                                  *)
LEMMA UseImplemented ==
  ASSUME StacksInv, HistoryInv, ~setting.may_refuse, UNCHANGED setting,
         NEW t \in Threads, Use(t)
  PROVE  Implemented
<1> DEFINE st == slot[t].stack
           a  == DriverCurrent(serving)
           ans == IF a = NoCtx THEN Failed("invalid")
                  ELSE IF at[a] = NoContext THEN Failed("destroyed")
                  ELSE Answer("ok", at[a], serving.mode)
           seen == IF st = <<>> THEN Failed("invalid")
                   ELSE IF ~Lives(Last(st).of) THEN Failed("destroyed")
                   ELSE Answer("ok", Last(st).of, slot[t].mode)
<1>1. Calling(t) /\ UNCHANGED <<driverVars, tableVars, serving, slot>> /\ Handled(ans)
  BY DEF Use
<1>2. /\ st \in Seq(Entries) /\ Known(serving) /\ at \in [Addrs -> Ctxs]
      /\ TheAnswer = NoAnswer /\ OwnStacks = [u \in Threads |-> Of(slot[u].stack)]
      /\ serving.mode = slot[t].mode
      /\ st = <<>> => a = NoCtx
      /\ st # <<>> => IF Last(st).gone THEN a = NoCtx /\ ~Lives(Last(st).of)
                      ELSE a \in Addrs /\ at[a] = Last(st).of /\ Lives(Last(st).of)
  BY <1>1, AtCall, SeenAtCall, TopAtCall
<1>3. NoCtx \notin Addrs /\ NoContext \in Ctxs
  BY ContextStacksAssumption DEF NoContext, Ctxs
<1>4. st # <<>> => Last(st).of \in Ctxs \ {NoContext}
  <2>1. ASSUME st # <<>> PROVE Len(st) \in DOMAIN st /\ Last(st) = st[Len(st)]
    BY <1>2, <2>1, FrontHolds
  <2>2. ASSUME st # <<>> PROVE Truthful(Last(st))
    BY <2>1, <2>2 DEF HistoryInv, SlotsTruthful
  <2>3. QED
    BY <2>2 DEF Truthful, StacksInv, StacksTyped
<1>5. ans \in AnswerRec
  <2>1. Failed("invalid") \in AnswerRec /\ Failed("destroyed") \in AnswerRec
    BY <1>3, PlainAnswers DEF Results
  <2>2. \A c \in Ctxs : Answer("ok", c, serving.mode) \in AnswerRec
    BY <1>2, Answers DEF Known, Serving, Results
  <2>3. QED
    BY <1>2, <1>3, <1>4, <2>1, <2>2
<1>6. Corrected(ans, slot[t]) = seen
  BY <1>2, <1>3, <1>4 DEF Corrected, Failed, Answer
<1> HIDE DEF ans
<1>7. Believes(serving')
  BY <1>1, <1>2 DEF Known, Believes
<1>8. /\ TheAnswer' = Corrected(ans, slot[t])
      /\ UNCHANGED <<at, ours, OwnStacks, OwnModes, gone>> /\ SlotsTruthful'
  BY <1>1, <1>5, <1>7, SlotSeenAsItWas, Zenon
<1>9. /\ OwnStacks[t] = <<>> <=> st = <<>>
      /\ st # <<>> => Last(OwnStacks[t]) = Last(st).of
  BY <1>2, OfLen, OfFront
<1>10. seen = IF OwnStacks[t] = <<>> THEN Answer("invalid", NoContext, NoMode)
              ELSE IF ~Own!Alive(Last(OwnStacks[t])) THEN Answer("destroyed", NoContext, NoMode)
              ELSE Answer("ok", Last(OwnStacks[t]), OwnModes[t])
  BY <1>9 DEF OwnModes, Failed, Own!Alive, Lives
<1> HIDE DEF seen
<1>11. TheAnswer' = seen
  BY <1>6, <1>8
<1>12. Own!Use(t)
  BY <1>2, <1>8, <1>10, <1>11, SameAnswers DEF Own!Use, Own!Last, Last, OwnStacks, OwnModes
<1>13. QED
  BY <1>8, <1>12 DEF Implemented, Own!Next

(* A library makes the primary context current where nothing was, or what  *)
(* was does not live.                                                      *)
LEMMA LibraryImplemented ==
  ASSUME StacksInv, HistoryInv, ~setting.may_refuse, UNCHANGED setting,
         NEW t \in Threads, Library(t)
  PROVE  Implemented
<1> DEFINE st == slot[t].stack
           a  == DriverCurrent(serving)
<1>1. Calling(t) /\ UNCHANGED <<driverVars, tableVars, slot>> /\ Handled(Ok(NoContext))
  BY DEF Library
<1>2. /\ st \in Seq(Entries) /\ Known(serving) /\ at \in [Addrs -> Ctxs]
      /\ slot \in [Threads -> SlotRec]
      /\ TheAnswer = NoAnswer /\ OwnStacks = [u \in Threads |-> Of(slot[u].stack)]
      /\ serving.applied = a
      /\ st # <<>> => IF Last(st).gone THEN a = NoCtx /\ ~Lives(Last(st).of)
                      ELSE a \in Addrs /\ at[a] = Last(st).of /\ Lives(Last(st).of)
      /\ st = <<>> => a = NoCtx
  BY <1>1, AtCall, SeenAtCall, TopAtCall DEF Good
<1>3. NoCtx \notin Addrs /\ NoContext \in Ctxs /\ Primary \in Addrs
  BY ContextStacksAssumption DEF NoContext, Ctxs
<1>4. Ok(NoContext) \in AnswerRec
  BY <1>3, PlainAnswers DEF Results
<1>5. /\ OwnStacks[t] = <<>> <=> st = <<>>
      /\ st # <<>> => Last(OwnStacks[t]) = Last(st).of
      /\ OwnStacks[t] = Of(st)
  BY <1>2, OfLen, OfFront
<1>6. serving.stack = <<>> <=> a = NoCtx
  <2>1. serving.stack \in Seq(Entries)
    BY <1>2 DEF Known, Serving
  <2>2. serving.stack # <<>> => Last(serving.stack) \in Entries
    BY <2>1, FrontHolds
  <2>3. QED
    BY <1>3, <2>2 DEF DriverCurrent, Entries
<1>7. CASE serving.stack = <<>>
  <2> DEFINE e == Entry(Primary)
             sl == Noted(slot[t], WithTop(st, e))
  <2>1. e \in Entries /\ e.ctx = Primary /\ e.of = at[Primary]
    BY <1>2, <1>3 DEF Entry, Entries
  <2>2. serving'.applied = NoCtx /\ DriverCurrent(serving') = Primary
    <3>1. serving' = DriverSet(serving, Primary)
      BY <1>7 DEF Library
    <3>2. serving'.applied = NoCtx /\ serving'.stack = WithTop(serving.stack, e)
      BY <1>2, <1>6, <1>7, <3>1 DEF DriverSet, Known, Serving
    <3>3. serving.stack \in Seq(Entries)
      BY <1>2 DEF Known, Serving
    <3>4. WithTop(serving.stack, e) # <<>> /\ Last(WithTop(serving.stack, e)) = e
      BY <2>1, <3>3, WithTopHolds
    <3>5. QED
      BY <2>1, <3>2, <3>4 DEF DriverCurrent
  <2>3. WithTop(st, e) \in Seq(Entries)
    BY <1>2, <2>1, WithTopHolds
  <2>4. sl.stack = WithTop(st, e)
    BY <1>2, <2>3, NotedHolds
  <2>5. Adopted(serving, slot[t])' = sl
    BY <1>1, <1>3, <2>2 DEF Adopted, Entry, driverVars
  <2> HIDE DEF e, sl
  <2>6. req'.pc = "after" /\ req'.t = t /\ req'.answer = Ok(NoContext)
    BY <1>1 DEF Handled, StacksInv, StacksTyped, ReqRec, Calling
  <2>7. TheAnswer' = Ok(NoContext)
    BY <2>6 DEF TheAnswer, Corrected, Ok, Answer
  <2>8. \A u \in Threads : OwnStack(u)' = IF u = t THEN Of(WithTop(st, e)) ELSE Of(slot[u].stack)
    BY <1>1, <2>4, <2>5, <2>6 DEF OwnStack, Of
  <2>9. Of(WithTop(st, e)) = Own!WithTop(OwnStacks[t], at[Primary])
    BY <1>2, <1>5, <2>1, OfWithTop
  <2>10. OwnStacks' = [OwnStacks EXCEPT ![t] = Own!WithTop(OwnStacks[t], at[Primary])]
    <3>1. OwnStacks' = [u \in Threads |-> IF u = t THEN Own!WithTop(OwnStacks[t], at[Primary])
                                          ELSE Of(slot[u].stack)]
      BY <2>8, <2>9 DEF OwnStacks
    <3>2. QED
      BY <1>2, <3>1
  <2>11. OwnStacks[t] = <<>> \/ ~Own!Alive(Last(OwnStacks[t]))
    BY <1>2, <1>3, <1>5, <1>6, <1>7 DEF Own!Alive, Lives
  <2>12. Own!Library(t)
    BY <1>1, <1>2, <2>7, <2>10, <2>11, SameAnswers
       DEF Own!Library, Own!Last, Last, OwnStacks, OwnModes, driverVars, tableVars
  <2>13. SlotsTruthful'
    BY <1>1 DEF HistoryInv, SlotsTruthful, Truthful, Lives, driverVars
  <2>14. QED
    BY <2>12, <2>13 DEF Implemented, Own!Next
<1>8. CASE serving.stack # <<>>
  <2>1. Believes(serving')
    BY <1>2, <1>8 DEF Known, Believes, Library
  <2>2. /\ TheAnswer' = Corrected(Ok(NoContext), slot[t])
        /\ UNCHANGED <<at, ours, OwnStacks, OwnModes, gone>> /\ SlotsTruthful'
    BY <1>1, <1>4, <2>1, SlotSeenAsItWas, Zenon
  <2>3. TheAnswer' = Ok(NoContext)
    BY <2>2, Uncorrected DEF Ok, Answer
  <2>4. ~(OwnStacks[t] = <<>> \/ ~Own!Alive(Last(OwnStacks[t])))
    BY <1>2, <1>3, <1>5, <1>6, <1>8 DEF Own!Alive, Lives
  <2>5. OwnStacks' = [OwnStacks EXCEPT ![t] = OwnStacks[t]]
    BY <1>2, <2>2
  <2>6. Own!Library(t)
    BY <1>2, <2>2, <2>3, <2>4, <2>5, SameAnswers DEF Own!Library, Own!Last, Last, OwnStacks, OwnModes
  <2>7. QED
    BY <2>2, <2>6 DEF Implemented, Own!Next
<1>9. QED
  BY <1>7, <1>8

-----------------------------------------------------------------------------
(* The contexts themselves.                                                *)

(* A context made at a free address, by this session or another.           *)
LEMMA MadeKeeps ==
  ASSUME StacksInv, HistoryInv, NEW a \in Addrs, at[a] = NoContext, created < MaxCtxs,
         at' = [at EXCEPT ![a] = created + 1], created' = created + 1,
         ours' \in {ours, ours \union {created + 1}}
  PROVE  /\ NoTwoHomes' /\ Dated'
         /\ \A x \in Entries : Truthful(x) => Truthful(x)'
         /\ created + 1 \in Own!Ctxs \ Own!Created
<1>1. /\ at \in [Addrs -> Ctxs] /\ ours \subseteq Ctxs \ {NoContext} /\ created \in 1 .. MaxCtxs
      /\ MaxCtxs \in Nat /\ NoContext = 0 /\ Ctxs = 0 .. MaxCtxs
      /\ NoTwoHomes /\ (\A b \in Addrs : at[b] <= created) /\ (\A c \in ours : c <= created)
  BY ContextStacksAssumption DEF StacksInv, StacksTyped, HistoryInv, Dated, NoContext, Ctxs
<1>2. at' \in [Addrs -> Nat] /\ \A b \in Addrs : at'[b] = IF b = a THEN created + 1 ELSE at[b]
  BY <1>1
<1>3. /\ created \in Nat /\ created + 1 # 0
      /\ \A n \in Nat : n <= created => n <= created + 1 /\ n # created + 1
  BY <1>1
<1>4. /\ \A b \in Addrs : at[b] \in Nat /\ at[b] # created + 1
      /\ \A c \in ours : c \in Nat /\ c # created + 1
  BY <1>1, <1>3
<1>5. NoTwoHomes'
  BY <1>1, <1>2, <1>4 DEF NoTwoHomes
<1>6. Dated'
  BY <1>1, <1>2, <1>3 DEF Dated
<1>7. ASSUME NEW x \in Entries, Truthful(x)
      PROVE  Truthful(x)'
  <2>1. x.ctx \in Addrs /\ x.of \in ours
    BY <1>7 DEF Entries, Truthful
  <2>2. CASE ~Lives(x.of)
    BY <1>2, <1>4, <2>1, <2>2 DEF Truthful, Lives
  <2>3. CASE Lives(x.of)
    <3>1. ~x.gone /\ at[x.ctx] = x.of
      BY <1>7, <2>3 DEF Truthful
    <3>2. x.ctx # a
      BY <1>1, <2>1, <3>1
    <3>3. QED
      BY <1>2, <2>1, <3>1, <3>2 DEF Truthful
  <2>4. QED
    BY <2>2, <2>3
<1>8. created + 1 \in Own!Ctxs \ Own!Created
  BY <1>1, <1>4 DEF Own!Ctxs, Own!Created
<1>9. QED
  BY <1>5, <1>6, <1>7, <1>8

(* A context destroyed, by this session or another.                        *)
LEMMA UnmadeKeeps ==
  ASSUME StacksInv, HistoryInv, NEW a \in Addrs,
         at' = [at EXCEPT ![a] = NoContext], UNCHANGED <<created, ours>>
  PROVE  /\ NoTwoHomes' /\ Dated'
         /\ \A x \in Entries : Truthful(x) => Truthful(x)'
<1>1. /\ at \in [Addrs -> Ctxs] /\ ours \subseteq Ctxs \ {NoContext} /\ created \in 1 .. MaxCtxs
      /\ MaxCtxs \in Nat /\ NoContext = 0
      /\ NoTwoHomes /\ (\A b \in Addrs : at[b] <= created) /\ (\A c \in ours : c <= created)
  BY ContextStacksAssumption DEF StacksInv, StacksTyped, HistoryInv, Dated, NoContext, Ctxs
<1>2. \A b \in Addrs : at'[b] = IF b = a THEN NoContext ELSE at[b]
  BY <1>1
<1>3. NoTwoHomes'
  BY <1>1, <1>2 DEF NoTwoHomes
<1>4. Dated'
  BY <1>1, <1>2 DEF Dated
<1>5. ASSUME NEW x \in Entries, Truthful(x)
      PROVE  Truthful(x)'
  <2>1. x.ctx \in Addrs /\ x.of \in ours /\ x.of # NoContext
    BY <1>1, <1>5 DEF Entries, Truthful
  <2>2. ASSUME NEW b \in Addrs, at'[b] = x.of
        PROVE  ~x.gone /\ at'[x.ctx] = x.of
    <3>1. b # a /\ at[b] = x.of
      BY <1>2, <2>1, <2>2
    <3>2. ~x.gone /\ at[x.ctx] = x.of
      BY <1>5, <3>1 DEF Truthful, Lives
    <3>3. x.ctx = b
      BY <1>1, <2>1, <3>1, <3>2 DEF NoTwoHomes
    <3>4. QED
      BY <1>2, <2>1, <3>1, <3>2, <3>3
  <2>3. QED
    BY <2>1, <2>2 DEF Truthful, Lives
<1>6. QED
  BY <1>3, <1>4, <1>5

(* A context is made, and pushed.  A refusal is that of a push, which asks *)
(* the driver for no context.                                              *)
LEMMA CreateImplemented ==
  ASSUME StacksInv, HistoryInv, ~setting.may_refuse, UNCHANGED setting,
         NEW t \in Threads, NEW a \in Addrs, Create(t, a)
  PROVE  Implemented
<1>1. Calling(t) /\ UNCHANGED tableVars
  BY DEF Create
<1>2. /\ slot[t].stack \in Seq(Entries) /\ Known(serving) /\ Good(slot[t])
      /\ slot \in [Threads -> SlotRec]
      /\ TheAnswer = NoAnswer /\ OwnStacks = [u \in Threads |-> Of(slot[u].stack)]
  BY <1>1, AtCall, SeenAtCall
<1>3. NoContext \in Ctxs /\ Primary \in Addrs
  BY ContextStacksAssumption DEF NoContext, Ctxs
<1>4. Len(OwnStacks[t]) = Len(slot[t].stack)
  BY <1>2, OfLen
<1>5. CASE MayPush(t)
  <2> DEFINE e  == [ctx |-> a, of |-> created + 1, gone |-> FALSE]
             st == Append(slot[t].stack, e)
             sl == Noted(slot[t], st)
  <2>1. /\ at[a] = NoContext /\ created < MaxCtxs /\ at' = [at EXCEPT ![a] = created + 1]
        /\ created' = created + 1 /\ ours' = ours \union {created + 1}
        /\ slot' = [slot EXCEPT ![t] = sl] /\ Handled(Ok(NoContext))
    BY <1>5 DEF Create
  <2>2. created + 1 \in Ctxs
    BY <2>1, ContextStacksAssumption DEF StacksInv, StacksTyped, Ctxs
  <2>3. e \in Entries /\ e.of = created + 1 /\ e.ctx = a /\ ~e.gone
    BY <2>2 DEF Entries
  <2> HIDE DEF e
  <2>4. /\ st \in Seq(Entries)
        /\ \A i \in DOMAIN st : st[i] = e \/ (i \in DOMAIN slot[t].stack /\ st[i] = slot[t].stack[i])
    BY <1>2, <2>3, AppendHolds
  <2>5. Of(st) = Append(OwnStacks[t], created + 1)
    BY <1>2, <2>3, OfAppend
  <2> HIDE DEF st
  <2>6. sl \in SlotRec /\ sl.stack = st /\ sl.mode = slot[t].mode
    BY <1>2, <2>4, NotedHolds DEF Good
  <2> HIDE DEF sl
  <2>7. Believes(serving')
    <3>1. StacksInv' /\ req'.pc = "after" /\ req'.t = t
      BY <1>1, <2>1, CreateKeeps DEF Handled, Calling, StacksInv, StacksTyped, ReqRec
    <3>2. PICK may \in Verdicts : serving' = ReadBack([serving EXCEPT !.stack = OneDeep(serving.stack, e, may)])
      BY <1>5 DEF Create, e
    <3> DEFINE v == [serving EXCEPT !.stack = OneDeep(serving.stack, e, may)]
    <3>3. ReadBack(v).applied = DriverCurrent(v) /\ ReadBack(v).stack = v.stack
      BY <1>2 DEF ReadBack, Known, Serving
    <3>4. QED
      BY <3>2, <3>3 DEF Believes, DriverCurrent
  <2>8. Ok(NoContext) \in AnswerRec
    BY <1>3, PlainAnswers DEF Results
  <2>9. /\ TheAnswer' = Corrected(Ok(NoContext), sl)
        /\ OwnStacks' = [OwnStacks EXCEPT ![t] = Of(sl.stack)]
        /\ OwnModes' = [OwnModes EXCEPT ![t] = sl.mode]
    BY <1>1, <2>1, <2>6, <2>7, <2>8, SeenAfter, Zenon
  <2>10. TheAnswer' = Ok(NoContext)
    BY <2>9, Uncorrected DEF Ok, Answer
  <2>11. /\ OwnStacks' = [OwnStacks EXCEPT ![t] = Append(OwnStacks[t], created + 1)]
         /\ OwnModes' = OwnModes
    BY <2>5, <2>6, <2>9 DEF OwnModes
  <2>12. /\ \A x \in Entries : Truthful(x) => Truthful(x)'
         /\ created + 1 \in Own!Ctxs \ Own!Created
    BY <2>1, MadeKeeps
  <2>13. Len(OwnStacks[t]) < MaxStack
    BY <1>4, <1>5 DEF MayPush
  <2>14. Own!Create(t, a, created + 1)
    BY <1>1, <1>2, <2>1, <2>10, <2>11, <2>13, SameAnswers
       DEF Own!Create, OwnStacks, OwnModes, tableVars
  <2>15. SlotsTruthful'
    <3>1. ASSUME NEW x, x = e
          PROVE  Truthful(x)'
      <4>1. at'[a] = created + 1
        BY <2>1 DEF StacksInv, StacksTyped
      <4>2. QED
        BY <2>1, <2>3, <3>1, <4>1 DEF Truthful
    <3>2. \A u \in Threads : slot'[u] = IF u = t THEN sl ELSE slot[u]
      BY <1>2, <2>1
    <3>3. \A u \in Threads : \A i \in DOMAIN slot[u].stack :
            slot[u].stack[i] \in Entries /\ Truthful(slot[u].stack[i])
      BY <1>2, ElementOfSeq, LenProperties DEF HistoryInv, SlotsTruthful, SlotRec
    <3>4. ASSUME NEW u \in Threads, NEW s, s = slot'[u], NEW i \in DOMAIN s.stack
          PROVE  Truthful(s.stack[i])'
      <4>1. CASE u = t /\ s.stack[i] = e
        BY <3>1, <4>1
      <4>2. CASE s.stack[i] \in Entries /\ Truthful(s.stack[i])
        BY <2>12, <4>2
      <4>3. QED
        BY <2>4, <2>6, <3>2, <3>3, <3>4, <4>1, <4>2
    <3>5. QED
      BY <3>4 DEF SlotsTruthful, Truthful, Lives
  <2>16. QED
    BY <2>12, <2>14, <2>15 DEF Implemented, Own!Next
<1>6. CASE ~MayPush(t)
  <2>1. Handled(Failed("refused")) /\ UNCHANGED <<driverVars, serving, slot>>
    BY <1>6 DEF Create
  <2>2. Failed("refused") \in AnswerRec /\ Believes(serving')
    BY <1>2, <1>3, <2>1, PlainAnswers DEF Results, Believes, Known
  <2>3. /\ TheAnswer' = Corrected(Failed("refused"), slot[t])
        /\ UNCHANGED <<at, ours, OwnStacks, OwnModes, gone>> /\ SlotsTruthful'
    BY <1>1, <2>1, <2>2, SlotSeenAsItWas, Zenon
  <2>4. TheAnswer' = Failed("refused")
    BY <2>3, Uncorrected DEF Failed, Answer
  <2>5. ~(Len(OwnStacks[t]) < MaxStack)
    BY <1>4, <1>6 DEF MayPush
  <2>6. Primary \in Own!Handles
    BY <1>3 DEF Own!Handles, StacksInv, PrimaryLives
  <2>7. Own!Push(t, Primary)
    BY <1>2, <2>3, <2>4, <2>5, <2>6, SameAnswers DEF Own!Push, OwnStacks, OwnModes, Failed
  <2>8. QED
    BY <1>3, <2>3, <2>7 DEF Implemented, Own!Next
<1>7. QED
  BY <1>5, <1>6

(* The slots stay truthful when their entries do.                          *)
LEMMA TruthStays ==
  ASSUME StacksInv, HistoryInv, UNCHANGED <<setting, slot>>,
         \A x \in Entries : Truthful(x) => Truthful(x)'
  PROVE  SlotsTruthful'
<1>1. slot \in [Threads -> SlotRec]
  BY DEF StacksInv, StacksTyped
<1>2. \A u \in Threads : \A i \in DOMAIN slot[u].stack : slot[u].stack[i] \in Entries
  BY <1>1, ElementOfSeq, LenProperties DEF SlotRec
<1>3. ~setting.may_refuse =>
        \A u \in Threads : \A i \in DOMAIN slot[u].stack : Truthful(slot[u].stack[i])'
  BY <1>2 DEF HistoryInv, SlotsTruthful
<1>4. QED
  BY <1>3 DEF SlotsTruthful, Truthful, Lives

(* A context that is destroyed leaves the top of its caller's stack, and   *)
(* no other place.                                                         *)
LEMMA DestroyImplemented ==
  ASSUME StacksInv, HistoryInv, ~setting.may_refuse, UNCHANGED setting,
         NEW t \in Threads, NEW a \in Addrs, Destroy(t, a)
  PROVE  Implemented
<1> DEFINE st == slot[t].stack
           c  == DriverCurrent(serving)
<1>1. /\ Calling(t) /\ a \in Handles \ {Primary} /\ at' = [at EXCEPT ![a] = NoContext]
      /\ req' = [req EXCEPT !.pc = "destroyed", !.ctx = a]
      /\ UNCHANGED <<created, ours, slot, tableVars>>
  BY DEF Destroy
<1>2. /\ st \in Seq(Entries) /\ slot \in [Threads -> SlotRec] /\ at \in [Addrs -> Ctxs]
      /\ TheAnswer = NoAnswer /\ OwnStacks = [u \in Threads |-> Of(slot[u].stack)]
      /\ Current(slot[t]) = c
      /\ st # <<>> => IF Last(st).gone THEN c = NoCtx /\ ~Lives(Last(st).of)
                      ELSE c \in Addrs /\ at[c] = Last(st).of /\ Lives(Last(st).of)
      /\ st = <<>> => c = NoCtx
      /\ Good(slot[t])
  BY <1>1, AtCall, SeenAtCall, TopAtCall
<1>3. NoCtx \notin Addrs /\ at[a] \in ours /\ at[a] # NoContext
  BY <1>1, ContextStacksAssumption DEF Handles, StacksInv, StacksTyped
<1>4. c = a <=> st # <<>> /\ Last(st).of = at[a]
  BY <1>2, <1>3 DEF HistoryInv, NoTwoHomes, Lives
<1>5. PoppedIfTop(slot[t], a).stack = IF c = a THEN Front(st) ELSE st
  <2>1. CASE c = a
    <3>1. Front(st) \in Seq(Entries)
      BY <1>2, <1>4, <2>1, FrontHolds
    <3>2. Noted(slot[t], Front(st)).stack = Front(st)
      BY <1>2, <3>1, NotedHolds DEF Good
    <3>3. QED
      BY <1>2, <2>1, <3>2 DEF PoppedIfTop
  <2>2. CASE c # a
    BY <1>2, <2>2 DEF PoppedIfTop
  <2>3. QED
    BY <2>1, <2>2
<1>6. req'.pc = "destroyed" /\ req'.t = t /\ req'.ctx = a
  BY <1>1 DEF Calling, StacksInv, StacksTyped, ReqRec
<1>7. TheAnswer' = Ok(NoContext)
  BY <1>6 DEF TheAnswer
<1>8. \A u \in Threads : OwnStack(u)' = IF u = t THEN Of(PoppedIfTop(slot[t], a).stack) ELSE Of(slot[u].stack)
  BY <1>1, <1>6 DEF OwnStack, Of
<1>9. Of(PoppedIfTop(slot[t], a).stack)
      = IF OwnStacks[t] # <<>> /\ Last(OwnStacks[t]) = at[a] THEN Front(OwnStacks[t]) ELSE OwnStacks[t]
  <2>1. /\ OwnStacks[t] = <<>> <=> st = <<>>
        /\ st # <<>> => Last(OwnStacks[t]) = Last(st).of /\ Front(OwnStacks[t]) = Of(Front(st))
        /\ OwnStacks[t] = Of(st)
    BY <1>2, OfLen, OfFront
  <2>2. QED
    BY <1>4, <1>5, <2>1
<1>10. OwnStacks' = [OwnStacks EXCEPT ![t] = Of(PoppedIfTop(slot[t], a).stack)]
  <2>1. OwnStacks' = [u \in Threads |-> IF u = t THEN Of(PoppedIfTop(slot[t], a).stack)
                                        ELSE Of(slot[u].stack)]
    BY <1>8 DEF OwnStacks
  <2>2. QED
    BY <1>2, <2>1
<1>11. Own!Destroy(t, a)
  BY <1>1, <1>2, <1>7, <1>9, <1>10, SameAnswers
     DEF Own!Destroy, Own!Handles, Handles, Own!Last, Last, Own!Front, Front, OwnStacks, OwnModes, tableVars
<1>12. SlotsTruthful'
  BY <1>1, UnmadeKeeps, TruthStays
<1>13. QED
  BY <1>11, <1>12 DEF Implemented, Own!Next

(* Sweeping marks entries, which the application does not see.             *)
LEMMA SweepSeen ==
  ASSUME NEW sl \in SlotRec, NEW a
  PROVE  LET n == Sweep(sl, a)
         IN  /\ n.mode = sl.mode /\ Of(n.stack) = Of(sl.stack) /\ DOMAIN n.stack = DOMAIN sl.stack
             /\ \A i \in DOMAIN sl.stack :
                  \/ n.stack[i] = sl.stack[i]
                  \/ sl.stack[i].ctx = a /\ n.stack[i] = MarkGone(sl.stack[i])
<1>1. CASE a \notin sl.ctxs
  BY <1>1 DEF Sweep
<1>2. CASE a \in sl.ctxs
  <2> DEFINE st == [i \in DOMAIN sl.stack |->
                      IF sl.stack[i].ctx = a THEN MarkGone(sl.stack[i]) ELSE sl.stack[i]]
             n  == [sl EXCEPT !.stack = st]
  <2>1. Sweep(sl, a) = n
    BY <1>2 DEF Sweep
  <2>2. \A i \in DOMAIN sl.stack : sl.stack[i] \in Entries
    BY ElementOfSeq, LenProperties DEF SlotRec
  <2>3. DOMAIN st = DOMAIN sl.stack
    OBVIOUS
  <2>4. \A i \in DOMAIN st : st[i].of = sl.stack[i].of
    BY <2>2 DEF MarkGone, Entries
  <2>5. \A i \in DOMAIN st : st[i] = sl.stack[i] \/ (sl.stack[i].ctx = a /\ st[i] = MarkGone(sl.stack[i]))
    OBVIOUS
  <2> HIDE DEF st
  <2>6. n.stack = st /\ n.mode = sl.mode
    BY DEF SlotRec
  <2> HIDE DEF n
  <2>7. QED
    BY <2>1, <2>3, <2>4, <2>5, <2>6 DEF Of
<1>3. QED
  BY <1>1, <1>2

(* Nothing the application sees changes when the server catches up.        *)
LEMMA DestroyedImplemented ==
  ASSUME StacksInv, HistoryInv, ~setting.may_refuse, UNCHANGED setting,
         NEW t \in Threads, Destroyed(t)
  PROVE  Implemented
<1> DEFINE a     == req.ctx
           top   == PoppedIfTop(slot[t], a)
           slots == Swept([slot EXCEPT ![t] = top], a)
           back  == IF serving.applied = a THEN ReadBack(serving) ELSE serving
<1>1. PICK may \in Verdicts :
        LET rid == IF back.applied = a THEN Clear(back, may) ELSE back
            s   == Show(rid, slots[t], may)
        IN  serving' = s.w /\ slot' = [slots EXCEPT ![t] = s.sl]
  BY DEF Destroyed, PoppedIfTop
<1>2. /\ req.pc = "destroyed" /\ req.t = t /\ Handled(Ok(NoContext)) /\ UNCHANGED <<driverVars, tableVars>>
      /\ slot \in [Threads -> SlotRec] /\ at \in [Addrs -> Ctxs] /\ req \in ReqRec
      /\ serving \in Serving /\ serving.applied_mode = serving.mode
      /\ Believes(serving) \/ serving.applied = a
      /\ a \in Addrs /\ at[a] \notin ours
  BY DEF Destroyed, StacksInv, StacksTyped, ServingKnown, HistoryInv, Going
<1>3. Known(back)
  BY <1>2, ReadBackKnows DEF Known
<1> HIDE DEF back
<1> DEFINE rid == IF back.applied = a THEN Clear(back, may) ELSE back
<1>4. Known(rid)
  BY <1>3, ClearKnows
<1>5. /\ top \in SlotRec /\ Named(top) /\ top.mode = slot[t].mode
      /\ \A i \in DOMAIN top.stack : i \in DOMAIN slot[t].stack /\ top.stack[i] = slot[t].stack[i]
  <2>1. CASE Current(slot[t]) # a
    BY <1>2, <2>1 DEF PoppedIfTop, StacksInv, SlotsSound
  <2>2. CASE Current(slot[t]) = a
    <3>1. slot[t].stack # <<>> /\ slot[t].stack \in Seq(Entries) /\ slot[t] \in SlotRec
      BY <1>2, <2>2, ContextStacksAssumption DEF Current, SlotRec
    <3>2. top = Noted(slot[t], Front(slot[t].stack))
      BY <2>2 DEF PoppedIfTop
    <3>3. QED
      BY <3>1, <3>2, FrontHolds, NotedHolds
  <2>3. QED
    BY <2>1, <2>2
<1>6. OwnStack(t) = Of(top.stack) /\ \A u \in Threads \ {t} : OwnStack(u) = Of(slot[u].stack)
  BY <1>2 DEF OwnStack, Of
<1> HIDE DEF top
<1> DEFINE was(u) == IF u = t THEN top ELSE slot[u]
<1>7. slots = [u \in Threads |-> Sweep(was(u), a)]
  BY <1>2 DEF Swept
<1>8. ASSUME NEW u \in Threads
      PROVE  /\ was(u) \in SlotRec /\ Named(was(u)) /\ was(u).mode = slot[u].mode
             /\ OwnStack(u) = Of(was(u).stack)
             /\ \A i \in DOMAIN was(u).stack :
                  LET e == was(u).stack[i]
                  IN  e \in Entries /\ Truthful(e) /\ (Sound(e) \/ e.ctx = a)
  <2>1. /\ slot[u] \in SlotRec /\ Named(slot[u])
        /\ \A i \in DOMAIN slot[u].stack :
             LET e == slot[u].stack[i]
             IN  e \in Entries /\ Truthful(e) /\ (Sound(e) \/ e.ctx = a)
    BY <1>2, ElementOfSeq, LenProperties DEF SlotRec, StacksInv, SlotsSound, HistoryInv, SlotsTruthful
  <2>2. QED
    BY <1>5, <1>6, <2>1
<1> HIDE DEF was, slots
<1>9. /\ Good(slots[t]) /\ slots[t] \in SlotRec
      /\ \A u \in Threads :
           /\ slots[u].mode = slot[u].mode /\ Of(slots[u].stack) = OwnStack(u)
           /\ \A i \in DOMAIN slots[u].stack : Truthful(slots[u].stack[i])
  <2>1. Good(slots[t])
    BY <1>7, <1>8, SweepSounds
  <2>2. ASSUME NEW u \in Threads
        PROVE  /\ slots[u].mode = slot[u].mode /\ Of(slots[u].stack) = OwnStack(u)
               /\ \A i \in DOMAIN slots[u].stack : Truthful(slots[u].stack[i])
    <3>1. slots[u] = Sweep(was(u), a) /\ was(u) \in SlotRec
      BY <1>7, <1>8
    <3>2. /\ slots[u].mode = was(u).mode /\ Of(slots[u].stack) = Of(was(u).stack)
          /\ DOMAIN slots[u].stack = DOMAIN was(u).stack
          /\ \A i \in DOMAIN was(u).stack :
               \/ slots[u].stack[i] = was(u).stack[i]
               \/ was(u).stack[i].ctx = a /\ slots[u].stack[i] = MarkGone(was(u).stack[i])
      BY <3>1, SweepSeen
    <3>3. ASSUME NEW e \in Entries, Truthful(e), e.ctx = a
          PROVE  Truthful(MarkGone(e))
      BY <1>2, <3>3 DEF Truthful, MarkGone, Entries
    <3>4. QED
      BY <1>8, <3>2, <3>3
  <2>3. QED
    BY <2>1, <2>2 DEF Good
<1> HIDE DEF rid
<1>10. slot' = slots /\ Believes(serving')
  <2> DEFINE s == Show(rid, slots[t], may)
  <2>1. s.sl = slots[t] /\ Believes(s.w)
    BY <1>2, <1>4, <1>9, VerdictsObey, ShowsAsItIs, ShowKnows DEF Good, Known
  <2>2. serving' = s.w /\ slot' = [slots EXCEPT ![t] = s.sl]
    BY <1>1 DEF rid, slots, top
  <2> HIDE DEF s
  <2>3. QED
    BY <1>7, <2>1, <2>2
<1>11. req'.pc = "after" /\ req'.t = t /\ req'.answer = Ok(NoContext)
  BY <1>2 DEF Handled, ReqRec
<1>12. \A u : Adopted(serving, slot[u])' = slot'[u]
  BY <1>10 DEF Adopted, Believes
<1>13. TheAnswer = Ok(NoContext) /\ TheAnswer' = Ok(NoContext)
  BY <1>2, <1>11 DEF TheAnswer, Corrected, Ok, Answer
<1>14. OwnStacks' = OwnStacks
  <2>1. \A u \in Threads : OwnStack(u)' = Of(slot'[u].stack)
    BY <1>11, <1>12 DEF OwnStack, Of
  <2>2. QED
    BY <1>9, <1>10, <2>1 DEF OwnStacks
<1>15. OwnModes' = OwnModes
  BY <1>9, <1>10 DEF OwnModes
<1>16. UNCHANGED Own!vars
  BY <1>2, <1>13, <1>14, <1>15 DEF Own!vars, OwnStacks, OwnModes, driverVars, tableVars
<1>17. SlotsTruthful'
  BY <1>2, <1>9, <1>10 DEF SlotsTruthful, Truthful, Lives, driverVars
<1>18. QED
  BY <1>16, <1>17 DEF Implemented

(* The call returns with an answer.                                        *)
LEMMA AfterImplemented ==
  ASSUME StacksInv, HistoryInv, ~setting.may_refuse, UNCHANGED setting, After
  PROVE  Implemented
<1> DEFINE t == req.t
           n == Adopted(serving, slot[t])
<1>1. /\ req.pc = "after" /\ t \in Threads /\ req' = Idle
      /\ slot \in [Threads -> SlotRec] /\ slot' = [slot EXCEPT ![t] = n]
      /\ UNCHANGED <<at, created, ours, tableVars>>
      /\ at \in [Addrs -> Ctxs] /\ at[Primary] \in ours
      /\ Believes(serving) \/ DriverCurrent(serving) = Primary
      /\ req.answer.result # "none"
  BY DEF After, driverVars, StacksInv, StacksTyped, ServingKnown, PrimaryLives, HistoryInv, Answered
<1>2. Primary \in Addrs /\ NoCtx \notin Addrs
  BY ContextStacksAssumption
<1>3. n.mode = slot[t].mode /\ \A i \in DOMAIN n.stack : Truthful(n.stack[i])
  <2>1. slot[t].stack \in Seq(Entries) /\ \A i \in DOMAIN slot[t].stack : Truthful(slot[t].stack[i])
    BY <1>1 DEF SlotRec, HistoryInv, SlotsTruthful
  <2>2. CASE DriverCurrent(serving) = serving.applied
    BY <2>1, <2>2 DEF Adopted
  <2>3. CASE DriverCurrent(serving) # serving.applied
    <3>1. n = Noted(slot[t], WithTop(slot[t].stack, Entry(Primary)))
      BY <1>1, <1>2, <2>3 DEF Adopted, Believes
    <3>2. Entry(Primary) \in Entries /\ Truthful(Entry(Primary))
      BY <1>1, <1>2, EntryTruthful DEF HistoryInv
    <3>3. /\ WithTop(slot[t].stack, Entry(Primary)) \in Seq(Entries)
          /\ \A i \in DOMAIN WithTop(slot[t].stack, Entry(Primary)) :
               Truthful(WithTop(slot[t].stack, Entry(Primary))[i])
      BY <2>1, <3>2, WithTopHolds, TruthfulStacks
    <3>4. n.mode = slot[t].mode /\ n.stack = WithTop(slot[t].stack, Entry(Primary))
      BY <1>1, <3>1, <3>3, NotedHolds
    <3>5. QED
      BY <3>3, <3>4
  <2>4. QED
    BY <2>2, <2>3
<1>4. \A u \in Threads : OwnStack(u) = IF u = t THEN Of(n.stack) ELSE Of(slot[u].stack)
  BY <1>1 DEF OwnStack, Of
<1>5. TheAnswer = Corrected(req.answer, n)
  BY <1>1 DEF TheAnswer
<1> HIDE DEF n
<1>6. \A u \in Threads : slot'[u] = IF u = t THEN n ELSE slot[u]
  BY <1>1
<1>7. \A u \in Threads : OwnStack(u)' = Of(slot'[u].stack)
  BY <1>1 DEF OwnStack, Of, Idle
<1>8. OwnStacks' = OwnStacks
  BY <1>4, <1>6, <1>7 DEF OwnStacks
<1>9. OwnModes' = OwnModes
  BY <1>3, <1>6 DEF OwnModes
<1>10. TheAnswer # NoAnswer /\ TheAnswer' = NoAnswer
  <2>1. TheAnswer # NoAnswer
    BY <1>1, <1>5 DEF Corrected, Failed, Answer, NoAnswer
  <2>2. TheAnswer' = NoAnswer
    BY <1>1 DEF TheAnswer, Idle
  <2>3. QED
    BY <2>1, <2>2
<1>11. Own!Return
  BY <1>1, <1>8, <1>9, <1>10, SameAnswers DEF Own!Return, OwnStacks, OwnModes, tableVars
<1>12. SlotsTruthful'
  BY <1>1, <1>3, TruthKept
<1>13. QED
  BY <1>11, <1>12 DEF Implemented, Own!Next

(* Between requests, and while one is called, a thread sees its slot.      *)
LEMMA SeenAtRest ==
  ASSUME req.pc \in {"idle", "call"}
  PROVE  TheAnswer = NoAnswer /\ OwnStacks = [u \in Threads |-> Of(slot[u].stack)]
<1>1. TheAnswer = NoAnswer
  BY DEF TheAnswer
<1>2. \A u \in Threads : OwnStack(u) = Of(slot[u].stack)
  BY DEF OwnStack, Of
<1>3. QED
  BY <1>1, <1>2 DEF OwnStacks

(* Showing a thread changes nothing the application sees.                  *)
LEMMA BeginImplemented ==
  ASSUME StacksInv, HistoryInv, ~setting.may_refuse, UNCHANGED setting,
         NEW t \in Threads, Begin(t)
  PROVE  Implemented
<1>1. /\ req.pc = "idle" /\ UNCHANGED <<at, created, ours, gone>>
      /\ at \in [Addrs -> Ctxs] /\ slot \in [Threads -> SlotRec] /\ Known(serving)
  BY DEF Begin, driverVars, StacksInv, StacksTyped, ServingKnown, Known
<1>2. slot' = slot
  <2>1. ASSUME NEW may \in Verdicts, slot' = [slot EXCEPT ![t] = Show(serving, slot[t], may).sl]
        PROVE  slot' = slot
    <3>1. Show(serving, slot[t], may).sl = slot[t]
      BY <1>1, VerdictsObey, ShowsAsItIs
    <3>2. QED
      BY <1>1, <2>1, <3>1
  <2>2. QED
    BY <2>1 DEF Begin
<1>3. req'.pc \in {"idle", "call"}
  <2>1. req' \in {Idle, [Idle EXCEPT !.pc = "call", !.t = t]}
    BY DEF Begin
  <2>2. Idle.pc = "idle" /\ [Idle EXCEPT !.pc = "call", !.t = t].pc = "call"
    BY IdleTyped DEF ReqRec
  <2>3. QED
    BY <2>1, <2>2
<1>4. TheAnswer = NoAnswer /\ OwnStacks = [u \in Threads |-> Of(slot[u].stack)]
  BY <1>1, SeenAtRest
<1>5. TheAnswer' = NoAnswer /\ OwnStacks' = [u \in Threads |-> Of(slot'[u].stack)]
  <2>1. TheAnswer' = NoAnswer
    BY <1>3 DEF TheAnswer
  <2>2. \A u \in Threads : OwnStack(u)' = Of(slot'[u].stack)
    BY <1>3 DEF OwnStack, Of
  <2>3. QED
    BY <2>1, <2>2 DEF OwnStacks
<1>6. UNCHANGED Own!vars
  BY <1>1, <1>2, <1>4, <1>5 DEF Own!vars, OwnStacks, OwnModes
<1>7. SlotsTruthful'
  BY <1>1, <1>2 DEF HistoryInv, SlotsTruthful, Truthful, Lives
<1>8. QED
  BY <1>6, <1>7 DEF Implemented

(* The slots that are retired, when a thread is gone.                      *)
LEMMA NoticeImplemented ==
  ASSUME StacksInv, HistoryInv, ~setting.may_refuse, UNCHANGED setting,
         NEW t \in Threads, Notice(t)
  PROVE  Implemented
<1>1. /\ req.pc = "idle" /\ gone' = gone \union {t} /\ UNCHANGED <<at, created, ours, serving, req>>
      /\ slot \in [Threads -> SlotRec]
      /\ retired \in Seq(Threads) /\ \A i \in DOMAIN retired : retired[i] \in gone
  BY DEF Notice, driverVars, StacksInv, StacksTyped, HistoryInv, RetiredAreGone
<1>2. PICK F \in SUBSET gone' : slot' = [u \in Threads |-> IF u \in F THEN EmptySlot ELSE slot[u]]
  <2>1. CASE UNCHANGED slot
    <3>1. ASSUME NEW F, F = {}
          PROVE  F \in SUBSET gone' /\ slot' = [u \in Threads |-> IF u \in F THEN EmptySlot ELSE slot[u]]
      BY <1>1, <2>1, <3>1
    <3>2. QED
      BY <3>1
  <2>2. CASE t \in live
    <3> DEFINE rs == Append(retired, t)
               k  == Excess(rs)
               F  == {u \in gone' : \E i \in 1 .. k : rs[i] = u}
    <3>1. slot' = [u \in Threads |-> IF \E i \in 1 .. k : rs[i] = u THEN EmptySlot ELSE slot[u]]
      BY <2>2 DEF Notice
    <3>2. Len(rs) \in Nat /\ \A i \in 1 .. Len(rs) : rs[i] \in gone'
      BY <1>1
    <3>3. k \in Nat /\ k <= Len(rs)
      BY <3>2, ContextStacksAssumption DEF Excess
    <3> HIDE DEF rs, k
    <3>4. \A u : (\E i \in 1 .. k : rs[i] = u) <=> u \in F
      BY <3>2, <3>3
    <3> HIDE DEF F
    <3>5. slot' = [u \in Threads |-> IF u \in F THEN EmptySlot ELSE slot[u]]
      BY <3>1, <3>4
    <3>6. QED
      BY <3>5 DEF F
  <2>3. QED
    BY <2>1, <2>2 DEF Notice
<1>3. TheAnswer = NoAnswer /\ OwnStacks = [u \in Threads |-> Of(slot[u].stack)]
  BY <1>1, SeenAtRest
<1>4. TheAnswer' = NoAnswer /\ \A u \in Threads : OwnStack(u)' = Of(slot'[u].stack)
  BY <1>1 DEF TheAnswer, OwnStack, Of
<1>5. EmptySlot.stack = <<>> /\ EmptySlot.mode = DefaultMode
  BY DEF EmptySlot
<1>6. OwnStacks' = [u \in Threads |-> IF u \in F THEN <<>> ELSE OwnStacks[u]]
  BY <1>2, <1>3, <1>4, <1>5, OfEmpty DEF OwnStacks
<1>7. OwnModes' = [u \in Threads |-> IF u \in F THEN DefaultMode ELSE OwnModes[u]]
  BY <1>2, <1>5 DEF OwnModes
<1>8. Own!Announced(t)
  BY <1>1, <1>2, <1>3, <1>4, <1>6, <1>7, SameAnswers DEF Own!Announced, OwnStacks, OwnModes
<1>9. SlotsTruthful'
  BY <1>1, <1>2, <1>5 DEF HistoryInv, SlotsTruthful, Truthful, Lives
<1>10. QED
  BY <1>8, <1>9 DEF Implemented, Own!Next

(* The other sessions are those of ThreadContexts.                         *)
LEMMA OthersImplemented ==
  ASSUME StacksInv, HistoryInv, ~setting.may_refuse, UNCHANGED setting,
         NEW a \in Addrs, OthersCreate(a) \/ OthersDestroy(a)
  PROVE  Implemented
<1>1. /\ UNCHANGED <<ours, serving, slot, req, tableVars>> /\ at[a] \notin ours
      /\ at \in [Addrs -> Ctxs] /\ at[Primary] \in ours /\ Primary \in Addrs /\ NoCtx \notin Addrs
  BY ContextStacksAssumption
     DEF OthersCreate, OthersDestroy, StacksInv, StacksTyped, PrimaryLives, NoContext, Ctxs
<1>2. \E c : at' = [at EXCEPT ![a] = c]
  BY DEF OthersCreate, OthersDestroy
<1>3. at'[Primary] = at[Primary]
  BY <1>1, <1>2
<1>4. req.pc = "after" => Adopted(serving, slot[req.t])' = Adopted(serving, slot[req.t])
  BY <1>1, <1>3 DEF Adopted, Entry, Believes, StacksInv, ServingKnown
<1>5. UNCHANGED <<TheAnswer, OwnStacks, OwnModes>>
  <2>1. TheAnswer' = TheAnswer
    BY <1>1, <1>4 DEF TheAnswer, Corrected
  <2>2. \A u \in Threads : OwnStack(u)' = OwnStack(u)
    <3>1. ASSUME NEW u \in Threads, req.t = u, req.pc = "after"
          PROVE  Adopted(serving, slot[u])' = Adopted(serving, slot[u])
      BY <1>1, <1>4, <3>1 DEF Adopted
    <3>2. QED
      BY <1>1, <3>1 DEF OwnStack, PoppedIfTop, Current, Noted
  <2>3. QED
    BY <1>1, <2>1, <2>2 DEF OwnStacks, OwnModes
<1>6. CASE OthersCreate(a)
  <2>1. /\ at[a] = NoContext /\ created < MaxCtxs /\ at' = [at EXCEPT ![a] = created + 1]
        /\ created' = created + 1
    BY <1>6 DEF OthersCreate
  <2>2. /\ \A x \in Entries : Truthful(x) => Truthful(x)'
        /\ created + 1 \in Own!Ctxs \ Own!Created
    BY <1>1, <2>1, MadeKeeps
  <2>3. Own!OthersCreate(a, created + 1)
    BY <1>1, <1>5, <2>1, SameAnswers DEF Own!OthersCreate, OwnStacks, OwnModes, tableVars
  <2>4. SlotsTruthful'
    BY <1>1, <2>2, TruthStays
  <2>5. QED
    BY <2>2, <2>3, <2>4 DEF Implemented, Own!Next
<1>7. CASE OthersDestroy(a)
  <2>1. /\ at[a] \notin ours \union {NoContext} /\ at' = [at EXCEPT ![a] = NoContext]
        /\ UNCHANGED created
    BY <1>7 DEF OthersDestroy
  <2>2. Own!OthersDestroy(a)
    BY <1>1, <1>5, <2>1, SameAnswers DEF Own!OthersDestroy, OwnStacks, OwnModes, tableVars
  <2>3. SlotsTruthful'
    BY <1>1, <2>1, UnmadeKeeps, TruthStays
  <2>4. QED
    BY <2>2, <2>3 DEF Implemented, Own!Next
<1>8. QED
  BY <1>6, <1>7

(* Every step of the server is a step of ThreadContexts, or none of it, if *)
(* the driver does as it is asked.                                         *)
LEMMA StepImplemented ==
  ASSUME StacksInv, HistoryInv, ~setting.may_refuse, [Next]_vars
  PROVE  Implemented
<1>1. CASE Next
  <2>1. UNCHANGED setting /\ Step
    BY <1>1 DEF Next
  <2>2. ASSUME NEW t \in Threads, Handler(t) PROVE Implemented
    BY <2>1, <2>2, SetCurrentImplemented, PushImplemented, CreateImplemented, DestroyImplemented,
       SetNoneImplemented, PopImplemented, GetCurrentImplemented, DestroyedImplemented,
       ExchangeModeImplemented, UseImplemented, LibraryImplemented DEF Handler
  <2>3. QED
    BY <2>1, <2>2, BeginImplemented, NoticeImplemented, AfterImplemented, OthersImplemented DEF Step
<1>2. CASE UNCHANGED vars
  <2>1. UNCHANGED <<at, ours, slot, serving, req, gone, setting>>
    BY <1>2 DEF vars
  <2>2. TheAnswer' = TheAnswer
    BY <2>1 DEF TheAnswer, Corrected, Adopted, Entry
  <2>3. OwnStacks' = OwnStacks /\ OwnModes' = OwnModes
    BY <2>1 DEF OwnStacks, OwnModes, OwnStack, PoppedIfTop, Adopted, Entry
  <2>4. UNCHANGED Own!vars
    BY <2>1, <2>2, <2>3 DEF Own!vars, OwnStacks, OwnModes
  <2>5. SlotsTruthful'
    BY <2>1 DEF HistoryInv, SlotsTruthful, Truthful, Lives
  <2>6. QED
    BY <2>4, <2>5 DEF Implemented
<1>3. QED
  BY <1>1, <1>2

-----------------------------------------------------------------------------
(* What is left of the history, whatever the driver does.                  *)

(* A slot that is taken from the retired ones leaves the others there.     *)
LEMMA WithoutLeaves ==
  ASSUME NEW rs \in Seq(Threads), NEW t
  PROVE  /\ Without(rs, t) \in Seq(Threads)
         /\ \A i \in DOMAIN Without(rs, t) : \E j \in DOMAIN rs : Without(rs, t)[i] = rs[j]
<1>1. CASE t \notin Range(rs)
  BY <1>1 DEF Without
<1>2. CASE t \in Range(rs)
  <2> DEFINE k == CHOOSE i \in DOMAIN rs : rs[i] = t
             n == Len(rs)
             a == SubSeq(rs, 1, k - 1)
             b == SubSeq(rs, k + 1, n)
             c == a \o b
  <2>1. Without(rs, t) = c
    BY <1>2 DEF Without, RemoveAt
  <2>2. k \in 1 .. n /\ n \in Nat /\ DOMAIN rs = 1 .. n /\ \A i \in 1 .. n : rs[i] \in Threads
    BY <1>2 DEF Range
  <2> HIDE DEF k, n
  <2>3. /\ a \in Seq(Threads) /\ Len(a) = k - 1
        /\ \A i \in 1 .. k - 1 : a[i] \in {rs[j] : j \in DOMAIN rs}
    <3>1. \A i \in 1 .. k - 1 : rs[i] \in Threads
      BY <2>2
    <3>2. /\ a \in Seq(Threads) /\ Len(a) = IF 1 <= k - 1 THEN k - 1 - 1 + 1 ELSE 0
          /\ \A i \in 1 .. k - 1 - 1 + 1 : a[i] = rs[1 + i - 1]
      BY <2>2, <3>1, SubSeqProperties
    <3> HIDE DEF a
    <3>3. QED
      BY <2>2, <3>2
  <2>4. /\ b \in Seq(Threads) /\ Len(b) = n - k
        /\ \A i \in 1 .. n - k : b[i] \in {rs[j] : j \in DOMAIN rs}
    <3>1. \A i \in k + 1 .. n : rs[i] \in Threads
      BY <2>2
    <3>2. /\ b \in Seq(Threads)
          /\ Len(b) = IF k + 1 <= n THEN n - (k + 1) + 1 ELSE 0
          /\ \A i \in 1 .. n - (k + 1) + 1 : b[i] = rs[k + 1 + i - 1]
      BY <2>2, <3>1, SubSeqProperties
    <3> HIDE DEF b
    <3>3. \A i \in 1 .. n - k : i \in 1 .. n - (k + 1) + 1 /\ k + 1 + i - 1 \in 1 .. n
      BY <2>2
    <3>4. Len(b) = n - k
      BY <2>2, <3>2
    <3>5. QED
      BY <2>2, <3>2, <3>3, <3>4
  <2> HIDE DEF a, b
  <2>5. /\ c \in Seq(Threads) /\ DOMAIN c = 1 .. n - 1
        /\ \A i \in 1 .. n - 1 : c[i] = IF i <= k - 1 THEN a[i] ELSE b[i - (k - 1)]
    <3>1. /\ c \in Seq(Threads) /\ Len(c) = Len(a) + Len(b)
          /\ \A i \in 1 .. Len(a) + Len(b) : c[i] = IF i <= Len(a) THEN a[i] ELSE b[i - Len(a)]
      BY <2>3, <2>4, ConcatProperties
    <3> HIDE DEF c
    <3>2. Len(a) + Len(b) = n - 1 /\ Len(a) = k - 1
      BY <2>2, <2>3, <2>4
    <3>3. DOMAIN c = 1 .. Len(c)
      BY <3>1, LenProperties
    <3>4. QED
      BY <3>1, <3>2, <3>3
  <2> HIDE DEF c
  <2>6. ASSUME NEW i \in 1 .. n - 1
        PROVE  c[i] \in {rs[j] : j \in DOMAIN rs}
    <3>1. CASE i <= k - 1
      BY <2>2, <2>3, <2>5, <3>1
    <3>2. CASE ~(i <= k - 1)
      <4>1. i - (k - 1) \in 1 .. n - k
        BY <2>2, <3>2
      <4>2. QED
        BY <2>4, <2>5, <3>2, <4>1
    <3>3. QED
      BY <3>1, <3>2
  <2>7. QED
    BY <2>1, <2>5, <2>6
<1>3. QED
  BY <1>1, <1>2

(* Contexts are made at free addresses, and later than all before.         *)
LEMMA HomesKeep ==
  ASSUME StacksInv, HistoryInv, Step
  PROVE  NoTwoHomes' /\ Dated'
<1>1. ASSUME NEW t \in Threads, NEW a \in Addrs, Create(t, a) \/ Destroy(t, a)
      PROVE  NoTwoHomes' /\ Dated'
  <2>1. CASE UNCHANGED driverVars
    BY <2>1 DEF driverVars, HistoryInv, NoTwoHomes, Dated
  <2>2. CASE Create(t, a) /\ MayPush(t)
    <3>1. /\ at[a] = NoContext /\ created < MaxCtxs /\ at' = [at EXCEPT ![a] = created + 1]
          /\ created' = created + 1 /\ ours' = ours \union {created + 1}
      BY <2>2 DEF Create
    <3>2. QED
      BY <3>1, MadeKeeps
  <2>3. CASE Destroy(t, a)
    <3>1. at' = [at EXCEPT ![a] = NoContext] /\ UNCHANGED <<created, ours>>
      BY <2>3 DEF Destroy
    <3>2. QED
      BY <3>1, UnmadeKeeps
  <2>4. QED
    BY <1>1, <2>1, <2>2, <2>3 DEF Create
<1>2. ASSUME NEW a \in Addrs, OthersCreate(a)
      PROVE  NoTwoHomes' /\ Dated'
  <2>1. /\ at[a] = NoContext /\ created < MaxCtxs /\ at' = [at EXCEPT ![a] = created + 1]
        /\ created' = created + 1 /\ ours' = ours
    BY <1>2 DEF OthersCreate
  <2>2. QED
    BY <2>1, MadeKeeps
<1>3. ASSUME NEW a \in Addrs, OthersDestroy(a)
      PROVE  NoTwoHomes' /\ Dated'
  <2>1. at' = [at EXCEPT ![a] = NoContext] /\ UNCHANGED <<created, ours>>
    BY <1>3 DEF OthersDestroy
  <2>2. QED
    BY <2>1, UnmadeKeeps
<1>4. CASE UNCHANGED driverVars
  BY <1>4 DEF driverVars, HistoryInv, NoTwoHomes, Dated
<1>5. \/ UNCHANGED driverVars
      \/ \E t \in Threads, a \in Addrs : Create(t, a) \/ Destroy(t, a)
      \/ \E a \in Addrs : OthersCreate(a) \/ OthersDestroy(a)
  BY DEF Step, Handler, Begin, Notice, After, SetCurrent, Push, SetNone, Pop, GetCurrent, Destroyed,
         ExchangeMode, Use, Library
<1>6. QED
  BY <1>1, <1>2, <1>3, <1>4, <1>5

(* A handler answers something, and a destroy names what it destroys.      *)
LEMMA HandlersAnswer ==
  ASSUME StacksInv, NEW t \in Threads, Handler(t)
  PROVE  \/ \E ans : Handled(ans) /\ ans.result # "none"
         \/ \E a \in Addrs : Destroy(t, a)
<1>1. \A of, was : Answer("ok", of, was).result = "ok" /\ Answer("error", of, was).result = "error"
  BY DEF Answer
<1>2. \A of : Ok(of).result = "ok"
  BY DEF Ok, Answer
<1>3. \A r : Failed(r).result = r
  BY DEF Failed, Answer
<1>4. ASSUME NEW a, NEW st, NEW may, SetTop(t, a, st, may)
      PROVE  \E ans : Handled(ans) /\ ans.result # "none"
  BY <1>2, <1>3, <1>4 DEF SetTop
<1>5. ASSUME NEW sl, NEW may, NEW of, ShowTop(t, sl, may, of)
      PROVE  \E ans : Handled(ans) /\ ans.result # "none"
  BY <1>1, <1>2, <1>5 DEF ShowTop
<1>6. ASSUME NEW a \in Addrs, SetCurrent(t, a) \/ Push(t, a) \/ Create(t, a)
      PROVE  \E ans : Handled(ans) /\ ans.result # "none"
  BY <1>2, <1>3, <1>4, <1>6 DEF SetCurrent, Push, Create
<1>7. ASSUME SetNone(t) \/ Pop(t)
      PROVE  \E ans : Handled(ans) /\ ans.result # "none"
  BY <1>2, <1>3, <1>5, <1>7 DEF SetNone, Pop
<1>8. ASSUME GetCurrent(t) \/ Destroyed(t) \/ Library(t)
      PROVE  \E ans : Handled(ans) /\ ans.result # "none"
  BY <1>2, <1>8 DEF GetCurrent, Destroyed, Library
<1>9. ASSUME NEW m \in Modes, ExchangeMode(t, m)
      PROVE  \E ans : Handled(ans) /\ ans.result # "none"
  BY <1>1, <1>3, <1>9 DEF ExchangeMode
<1>10. ASSUME Use(t)
       PROVE  \E ans : Handled(ans) /\ ans.result # "none"
  BY <1>1, <1>3, <1>10 DEF Use
<1>11. QED
  BY <1>6, <1>7, <1>8, <1>9, <1>10 DEF Handler

(* While a context is destroyed its address is given to others alone, and  *)
(* what is handled has been answered.                                      *)
LEMMA RequestsKeep ==
  ASSUME StacksInv, HistoryInv, Step
  PROVE  Going' /\ Answered'
<1>1. /\ req \in ReqRec /\ at \in [Addrs -> Ctxs] /\ ours \subseteq Ctxs \ {NoContext}
      /\ created \in Nat /\ \A c \in ours : c <= created
  BY DEF StacksInv, StacksTyped, HistoryInv, Dated
<1>2. CASE \E ans : Handled(ans) /\ ans.result # "none"
  BY <1>1, <1>2 DEF Handled, ReqRec, Going, Answered
<1>3. ASSUME NEW t \in Threads, NEW a \in Addrs, Destroy(t, a)
      PROVE  Going' /\ Answered'
  <2>1. req'.pc = "destroyed" /\ req'.ctx = a /\ at'[a] = NoContext /\ ours' = ours
    BY <1>1, <1>3 DEF Destroy, ReqRec
  <2>2. QED
    BY <1>1, <1>3, <2>1 DEF Going, Answered
<1>4. ASSUME NEW a \in Addrs, OthersCreate(a) \/ OthersDestroy(a)
      PROVE  Going' /\ Answered'
  <2>1. \E c \in {NoContext, created + 1} : at' = [at EXCEPT ![a] = c]
    BY <1>4 DEF OthersCreate, OthersDestroy
  <2>2. created + 1 \notin ours /\ NoContext \notin ours
    BY <1>1
  <2>3. UNCHANGED <<req, ours>>
    BY <1>4 DEF OthersCreate, OthersDestroy
  <2>4. \A b \in Addrs : at'[b] = at[b] \/ at'[b] \notin ours
    BY <1>1, <2>1, <2>2
  <2>5. QED
    BY <2>3, <2>4 DEF HistoryInv, Going, Answered
<1>5. ASSUME NEW t \in Threads, Notice(t)
      PROVE  Going' /\ Answered'
  BY <1>5 DEF Notice, Going, Answered
<1>6. ASSUME req'.pc \in {"idle", "call"}
      PROVE  Going' /\ Answered'
  BY <1>6 DEF Going, Answered
<1>7. ASSUME NEW t \in Threads, Begin(t)
      PROVE  req'.pc \in {"idle", "call"}
  <2>1. req' \in {Idle, [Idle EXCEPT !.pc = "call", !.t = t]}
    BY <1>7 DEF Begin
  <2>2. Idle.pc = "idle" /\ [Idle EXCEPT !.pc = "call", !.t = t].pc = "call"
    BY IdleTyped DEF ReqRec
  <2>3. QED
    BY <2>1, <2>2
<1>8. After => req'.pc = "idle"
  BY IdleTyped DEF After
<1>9. QED
  BY <1>2, <1>3, <1>4, <1>5, <1>6, <1>7, <1>8, HandlersAnswer DEF Step

(* Only a thread that is announced as exited is retired.                   *)
LEMMA RetiredKeep ==
  ASSUME StacksInv, HistoryInv, Step
  PROVE  RetiredAreGone'
<1>1. retired \in Seq(Threads) /\ \A i \in DOMAIN retired : retired[i] \in gone
  BY DEF HistoryInv, RetiredAreGone
<1>2. CASE UNCHANGED tableVars
  BY <1>2 DEF tableVars, HistoryInv, RetiredAreGone
<1>3. ASSUME NEW t \in Threads, Begin(t)
      PROVE  RetiredAreGone'
  <2>1. gone' = gone /\ retired' \in {retired, Without(retired, t)}
    BY <1>3 DEF Begin, Admit
  <2>2. QED
    BY <1>1, <2>1, WithoutLeaves DEF RetiredAreGone
<1>4. ASSUME NEW t \in Threads, Notice(t)
      PROVE  RetiredAreGone'
  <2> DEFINE rs == Append(retired, t)
             k == Excess(rs)
             n == Len(rs)
  <2>1. gone' = gone \union {t} /\ retired' \in {retired, SubSeq(rs, k + 1, n)}
    BY <1>4 DEF Notice
  <2>2. n \in Nat /\ \A i \in 1 .. n : rs[i] \in gone' /\ rs[i] \in Threads
    BY <1>1, <2>1
  <2>3. k \in Nat
    BY <2>2, ContextStacksAssumption DEF Excess
  <2> HIDE DEF rs, k, n
  <2>4. /\ SubSeq(rs, k + 1, n) \in Seq(Threads \intersect gone')
    <3>1. \A i \in k + 1 .. n : rs[i] \in Threads \intersect gone'
      BY <2>2, <2>3
    <3>2. k + 1 \in Int /\ n \in Int
      BY <2>2, <2>3
    <3>3. QED
      BY <3>1, <3>2, SubSeqProperties
  <2>5. \A s \in Seq(Threads \intersect gone') : s \in Seq(Threads) /\ \A i \in DOMAIN s : s[i] \in gone'
    BY ElementOfSeq, LenProperties, SeqMonotonic
  <2>6. CASE retired' = SubSeq(rs, k + 1, n)
    BY <2>4, <2>5, <2>6 DEF RetiredAreGone
  <2>7. CASE retired' = retired
    BY <1>1, <2>1, <2>7 DEF RetiredAreGone
  <2>8. QED
    BY <2>1, <2>6, <2>7
<1>5. \/ UNCHANGED tableVars
      \/ \E t \in Threads : Begin(t) \/ Notice(t)
  BY DEF Step, Handler, After, SetCurrent, Push, SetNone, Pop, GetCurrent, Create, Destroy, Destroyed,
         ExchangeMode, Use, Library, OthersCreate, OthersDestroy
<1>6. QED
  BY <1>2, <1>3, <1>4, <1>5

(* Every step keeps the history as it should be.                           *)
LEMMA HistoryStep == StacksInv /\ HistoryInv /\ [Next]_vars => HistoryInv'
<1> SUFFICES ASSUME StacksInv, HistoryInv, [Next]_vars PROVE HistoryInv'
  OBVIOUS
<1>1. SlotsTruthful'
  <2>1. CASE setting.may_refuse
    BY <2>1 DEF Next, vars, SlotsTruthful
  <2>2. CASE ~setting.may_refuse
    BY <2>2, StepImplemented DEF Implemented
  <2>3. QED
    BY <2>1, <2>2
<1>2. CASE Step
  BY <1>1, <1>2, HomesKeep, RequestsKeep, RetiredKeep DEF HistoryInv
<1>3. CASE UNCHANGED vars
  BY <1>1, <1>3 DEF vars, HistoryInv, NoTwoHomes, Dated, Going, Answered, RetiredAreGone
<1>4. QED
  BY <1>2, <1>3 DEF Next

(* What became of the contexts is known to the slots, always.              *)
THEOREM HistoryHolds == Spec => []HistoryInv
BY HistoryInit, HistoryStep, StacksHold, PTL DEF Spec

(* The one serving thread gives every client thread a context stack and a  *)
(* capture mode of its own, if the driver does as it is asked: the server  *)
(* implements ThreadContexts (client_threads.cpp; main.cpp, serve).        *)
THEOREM AlwaysThreadsOfTheirOwn == Spec => ThreadsOfTheirOwn
<1>1. Init => Own!Init
  <2> SUFFICES ASSUME Init PROVE Own!Init
    OBVIOUS
  <2>1. /\ at = [a \in Addrs |-> IF a = Primary THEN 1 ELSE NoContext] /\ ours = {1} /\ gone = {}
        /\ slot = [t \in Threads |-> EmptySlot] /\ req = Idle
    BY DEF Init
  <2>2. TheAnswer = NoAnswer /\ OwnStacks = [u \in Threads |-> Of(slot[u].stack)]
    BY <2>1, IdleTyped, SeenAtRest
  <2>3. OwnStacks = [u \in Threads |-> <<>>] /\ OwnModes = [u \in Threads |-> DefaultMode]
    BY <2>1, <2>2, OfEmpty DEF OwnModes, EmptySlot
  <2>4. QED
    BY <2>1, <2>2, <2>3, SameAnswers DEF Own!Init, OwnStacks, OwnModes
<1>2. StacksInv /\ HistoryInv /\ [Next]_vars => [setting.may_refuse \/ Own!Next]_(Own!vars)
  BY StepImplemented DEF Implemented
<1>3. QED
  BY <1>1, <1>2, StacksHold, HistoryHolds, PTL DEF Spec, ThreadsOfTheirOwn
=============================================================================
