---------------------------- MODULE ContextStacks ----------------------------
(***************************************************************************)
(* The context stacks and capture modes of one session's client threads,   *)
(* kept by the one thread that serves them all: server/client_threads.cpp, *)
(* with the thread slots and the part of serve in server/main.cpp that     *)
(* show a thread before its request and read back after it, and the        *)
(* context wrappers of server/inventory.cpp.                               *)
(*                                                                         *)
(* A request takes several steps: shown, called, read back, answered.      *)
(* Other sessions create and destroy contexts of theirs in between, at     *)
(* addresses that contexts of this session had.                            *)
(***************************************************************************)
EXTENDS Naturals, SequencesExt

CONSTANTS
  Threads,          \* client thread ids
  Addrs,            \* addresses the driver gives to contexts
  Primary,          \* the address of the device's primary context
  NoCtx,            \* nullptr: no address
  Modes,            \* stream capture modes
  DefaultMode,      \* CU_STREAM_CAPTURE_MODE_GLOBAL
  MaxStack,         \* max_stack_depth
  Settings,         \* what a session runs under: max_client_threads, and
                    \* whether the driver may refuse to switch
  RetiredSlots,     \* kRetiredSlots
  MaxCtxs           \* bound: contexts created by anybody

ASSUME ContextStacksAssumption ==
  /\ NoCtx \notin Addrs /\ Primary \in Addrs /\ DefaultMode \in Modes
  /\ MaxStack \in Nat \ {0} /\ RetiredSlots \in Nat /\ MaxCtxs \in Nat \ {0}
  /\ \A s \in Settings : s.max_client_threads \in Nat \ {0} /\ s.may_refuse \in BOOLEAN

VARIABLES
  setting,  \* the setting of this session
  at,       \* driver: the context that lives at each address, or NoContext
  created,  \* driver: how many contexts were ever made
  ours,     \* the contexts made in this session, and the primary one
  serving,  \* the serving thread: its driver stack and mode, and what the
            \* server believes of both (applied, applied_mode)
  live,     \* threads with a slot in the live table
  retired,  \* threads with a slot in the retired set, oldest first
  slot,     \* each thread's slot; an empty one if it has none
  req,      \* the request being served
  gone      \* history: threads announced as exited
vars == <<setting, at, created, ours, serving, live, retired, slot, req, gone>>

driverVars == <<at, created, ours>>
tableVars  == <<live, retired, gone>>

NoContext == 0
NoMode    == "none"

(* An entry of a stack, SavedContext: an address, and whether it was       *)
(* destroyed since.  of is history: the context that lived there.          *)
Entry(a)  == [ctx |-> a, of |-> at[a], gone |-> FALSE]
EmptySlot == [stack |-> <<>>, ctxs |-> {}, mode |-> DefaultMode]

(* What a request answers with; was is the mode it found.                  *)
Answer(result, of, was) == [result |-> result, of |-> of, was |-> was]
NoAnswer == Answer("none", NoContext, NoMode)
Ok(of)   == Answer("ok", of, NoMode)
Failed(result) == Answer(result, NoContext, NoMode)

Idle == [pc |-> "idle", t |-> CHOOSE t \in Threads : TRUE, ctx |-> NoCtx, answer |-> NoAnswer]

Init ==
  /\ setting \in Settings
  /\ at = [a \in Addrs |-> IF a = Primary THEN 1 ELSE NoContext]
  /\ created = 1 /\ ours = {1}
  /\ serving = [stack |-> <<>>, mode |-> DefaultMode,
                applied |-> NoCtx, applied_mode |-> DefaultMode]
  /\ live = {} /\ retired = <<>> /\ gone = {}
  /\ slot = [t \in Threads |-> EmptySlot]
  /\ req = Idle

-----------------------------------------------------------------------------
(* Stacks.                                                                 *)

(* The top replaced, or pushed onto an empty stack.                        *)
WithTop(st, e) == Append(IF st = <<>> THEN st ELSE Front(st), e)

(* note_stack_ctxs: the distinct contexts named in the stack, with it.     *)
Noted(sl, st) == [sl EXCEPT !.stack = st, !.ctxs = {st[i].ctx : i \in DOMAIN st}]

(* The context a thread has current, unless it was destroyed.              *)
Current(sl) == IF sl.stack = <<>> \/ Last(sl.stack).gone THEN NoCtx
               ELSE Last(sl.stack).ctx

MarkGone(e) == [e EXCEPT !.gone = TRUE]

-----------------------------------------------------------------------------
(* The driver, as the serving thread sees it.                              *)

(* Which of the driver's switches would be refused now, if any is made.    *)
Verdicts == IF setting.may_refuse
            THEN [set : BOOLEAN, none : BOOLEAN, mode : BOOLEAN]
            ELSE {[set |-> TRUE, none |-> TRUE, mode |-> TRUE]}

DriverCurrent(w) == IF w.stack = <<>> THEN NoCtx ELSE Last(w.stack).ctx

(* cuCtxSetCurrent: also of a handle whose context is destroyed.           *)
DriverSet(w, a) == [w EXCEPT !.stack = WithTop(@, Entry(a))]
DriverPop(w)    == [w EXCEPT !.stack = IF @ = <<>> THEN @ ELSE Front(@)]

-----------------------------------------------------------------------------
(* Showing a thread.                                                       *)

\* Mutant of ReadBack: what was asked for is believed.
Believed(w) == w

(* read_back: what the driver says, after anything that may not have gone  *)
(* as asked.                                                               *)
ReadBack(w) == [w EXCEPT !.applied = DriverCurrent(w)]

(* clear: pops until nothing is current; the stack is never kMaxDepth deep.*)
Clear(w, may) ==
  IF w.applied = NoCtx THEN w
  ELSE IF may.none THEN [w EXCEPT !.stack = <<>>, !.applied = NoCtx]
  ELSE ReadBack(w)

ShowContext(w, sl, may) ==
  LET c == Current(sl)
  IN  IF c = NoCtx THEN [w |-> Clear(w, may), sl |-> sl]
      ELSE IF c = w.applied THEN [w |-> w, sl |-> sl]
      ELSE IF may.set THEN [w |-> [DriverSet(w, c) EXCEPT !.applied = c], sl |-> sl]
      ELSE [w  |-> Clear(ReadBack(w), may),
            sl |-> [sl EXCEPT !.stack = WithTop(@, MarkGone(Last(@)))]]

ShowMode(w, sl, may) ==
  IF sl.mode # w.applied_mode /\ may.mode
  THEN [w EXCEPT !.mode = sl.mode, !.applied_mode = sl.mode] ELSE w

ContextShown(w, sl) == w.applied = Current(sl)

\* Mutant of Shown: threads that share a context are taken to share a mode.
ShownByContext(w, sl) == ContextShown(w, sl)

(* client_thread_shown.                                                    *)
Shown(w, sl) == sl.mode = w.applied_mode /\ ContextShown(w, sl)

(* client_thread_show: the context, and then the mode.                     *)
Show(w, sl, may) ==
  LET c == ShowContext(w, sl, may)
  IN  IF ContextShown(c.w, c.sl) THEN [c EXCEPT !.w = ShowMode(@, c.sl, may)] ELSE c

-----------------------------------------------------------------------------
(* Thread slots.                                                           *)

(* trim_retired: the oldest retired slots past the bound are forgotten.    *)
Excess(rs) == IF Len(rs) > RetiredSlots THEN Len(rs) - RetiredSlots ELSE 0

(* Requests name threads that have a slot or can be admitted to one.       *)
Admissible(t) == t \in live \/ Cardinality(live) < setting.max_client_threads

(* A thread has at most one slot: the one found is taken out.              *)
Without(rs, t) ==
  IF t \in Range(rs) THEN RemoveAt(rs, CHOOSE i \in DOMAIN rs : rs[i] = t) ELSE rs

(* thread_slot and admit_thread: a retired slot is given back.             *)
Admit(t) ==
  /\ live' = live \union {t}
  /\ retired' = IF t \in live THEN retired ELSE Without(retired, t)

(* handle_thread_gone, of one thread: its slot is retired.                 *)
Notice(t) ==
  /\ req.pc = "idle"
  /\ gone' = gone \union {t}
  /\ IF t \in live
     THEN LET rs == Append(retired, t)
              k  == Excess(rs)
          IN /\ live' = live \ {t}
             /\ retired' = SubSeq(rs, k + 1, Len(rs))
             /\ slot' = [u \in Threads |->
                           IF \E i \in 1 .. k : rs[i] = u THEN EmptySlot ELSE slot[u]]
     ELSE UNCHANGED <<live, retired, slot>>
  /\ UNCHANGED <<driverVars, serving, req>>

-----------------------------------------------------------------------------
(* A request: serve up to the dispatch.  It is refused when the serving    *)
(* thread cannot be made to show its thread.                               *)

Begin(t) ==
  /\ req.pc = "idle" /\ Admissible(t)
  /\ Admit(t)
  /\ \/ /\ Shown(serving, slot[t])
        /\ req' = [Idle EXCEPT !.pc = "call", !.t = t]
        /\ UNCHANGED <<serving, slot>>
     \/ /\ ~Shown(serving, slot[t])
        /\ \E may \in Verdicts :
             LET s == Show(serving, slot[t], may)
             IN /\ serving' = s.w
                /\ slot' = [slot EXCEPT ![t] = s.sl]
                /\ req' = IF ContextShown(s.w, s.sl) /\ s.sl.mode = s.w.applied_mode
                          THEN [Idle EXCEPT !.pc = "call", !.t = t] ELSE Idle
  /\ UNCHANGED <<driverVars, gone>>

Calling(t) == req.pc = "call" /\ req.t = t
Handled(answer) == req' = [req EXCEPT !.pc = "after", !.answer = answer]

(* The handles an application may pass: of living contexts of its own.     *)
Handles == {a \in Addrs : at[a] \in ours}

(* A handler ends by showing the driver what is now the top of the stack.  *)
ShowTop(t, sl, may, of) ==
  LET s == Show(serving, sl, may)
  IN /\ serving' = s.w
     /\ slot' = [slot EXCEPT ![t] = s.sl]
     /\ Handled(IF ContextShown(s.w, s.sl) /\ s.sl.mode = s.w.applied_mode
                THEN Ok(of) ELSE Answer("error", of, NoMode))

(* The driver's top is set to a, and the thread's stack becomes st.        *)
SetTop(t, a, st, may) ==
  IF may.set
  THEN /\ serving' = [DriverSet(serving, a) EXCEPT !.applied = a]
       /\ slot' = [slot EXCEPT ![t] = Noted(@, st)]
       /\ Handled(Ok(NoContext))
  ELSE /\ serving' = ReadBack(serving)
       /\ Handled(Failed("error"))
       /\ UNCHANGED slot

-----------------------------------------------------------------------------
(* The handlers.                                                           *)

SetCurrent(t, a) ==
  /\ Calling(t) /\ a \in Handles
  /\ \E may \in Verdicts : SetTop(t, a, WithTop(slot[t].stack, Entry(a)), may)
  /\ UNCHANGED <<driverVars, tableVars>>

SetNone(t) ==
  /\ Calling(t)
  /\ IF slot[t].stack = <<>> THEN Handled(Ok(NoContext)) /\ UNCHANGED <<serving, slot>>
     ELSE \E may \in Verdicts :
            ShowTop(t, Noted(slot[t], Front(slot[t].stack)), may, NoContext)
  /\ UNCHANGED <<driverVars, tableVars>>

\* Mutant of MayPush: off by one.
MayPush(t) == Len(slot[t].stack) < MaxStack

Push(t, a) ==
  /\ Calling(t) /\ a \in Handles
  /\ IF MayPush(t)
     THEN \E may \in Verdicts : SetTop(t, a, Append(slot[t].stack, Entry(a)), may)
     ELSE Handled(Failed("refused")) /\ UNCHANGED <<serving, slot>>
  /\ UNCHANGED <<driverVars, tableVars>>

Pop(t) ==
  /\ Calling(t)
  /\ IF slot[t].stack = <<>>
     THEN /\ serving' = ReadBack(DriverPop(serving))
          /\ Handled(Failed("invalid"))
          /\ UNCHANGED slot
     ELSE \E may \in Verdicts :
            ShowTop(t, Noted(slot[t], Front(slot[t].stack)), may, Last(slot[t].stack).of)
  /\ UNCHANGED <<driverVars, tableVars>>

GetCurrent(t) ==
  /\ Calling(t)
  /\ Handled(Ok(IF slot[t].stack = <<>> THEN NoContext ELSE Last(slot[t].stack).of))
  /\ UNCHANGED <<driverVars, tableVars, serving, slot>>

(* w_cuCtxCreate_v2.  The driver pushes the new context on its own stack,  *)
(* which is brought back to one entry (client_threads_created).            *)
OneDeep(st, e, may) ==
  IF serving.applied = NoCtx THEN Append(st, e)
  ELSE LET popped == IF may.none THEN st ELSE Append(st, e)
       IN IF may.set THEN WithTop(popped, e) ELSE popped

Create(t, a) ==
  /\ Calling(t)
  /\ IF MayPush(t)
     THEN LET e == [ctx |-> a, of |-> created + 1, gone |-> FALSE]
          IN /\ at[a] = NoContext /\ created < MaxCtxs
             /\ at' = [at EXCEPT ![a] = created + 1]
             /\ created' = created + 1
             /\ ours' = ours \union {created + 1}
             /\ \E may \in Verdicts :
                  serving' = ReadBack([serving EXCEPT !.stack = OneDeep(@, e, may)])
             /\ slot' = [slot EXCEPT ![t] = Noted(@, Append(@.stack, e))]
             /\ Handled(Ok(NoContext))
     ELSE Handled(Failed("refused")) /\ UNCHANGED <<driverVars, serving, slot>>
  /\ UNCHANGED tableVars

(* w_cuCtxDestroy_v2 and w_cuCtxDetach.  The driver destroys, and pops     *)
(* what is current to the caller; then client_threads_destroyed.           *)
Destroy(t, a) ==
  /\ Calling(t) /\ a \in Handles \ {Primary}
  /\ at' = [at EXCEPT ![a] = NoContext]
  /\ serving' = IF DriverCurrent(serving) = a THEN DriverPop(serving) ELSE serving
  /\ req' = [req EXCEPT !.pc = "destroyed", !.ctx = a]
  /\ UNCHANGED <<created, ours, slot, tableVars>>

\* Mutant of PoppedIfTop: destroyed, and left current to the caller.
LeftOnTop(sl, a) == sl

PoppedIfTop(sl, a) ==
  IF Current(sl) = a THEN Noted(sl, Front(sl.stack)) ELSE sl

Sweep(sl, a) ==
  IF a \notin sl.ctxs THEN sl
  ELSE [sl EXCEPT !.stack =
          [i \in DOMAIN @ |-> IF @[i].ctx = a THEN MarkGone(@[i]) ELSE @[i]]]

\* Mutant of Swept: the retired slots are passed over.
SweptLive(slots, a) == [u \in Threads |-> IF u \in live THEN Sweep(slots[u], a) ELSE slots[u]]

(* Every slot, live or retired, is swept.                                  *)
Swept(slots, a) == [u \in Threads |-> Sweep(slots[u], a)]

Destroyed(t) ==
  /\ req.pc = "destroyed" /\ req.t = t
  /\ \E may \in Verdicts :
       LET a     == req.ctx
           slots == Swept([slot EXCEPT ![t] = PoppedIfTop(@, a)], a)
           back  == IF serving.applied = a THEN ReadBack(serving) ELSE serving
           rid   == IF back.applied = a THEN Clear(back, may) ELSE back
           s     == Show(rid, slots[t], may)
       IN /\ serving' = s.w
          /\ slot' = [slots EXCEPT ![t] = s.sl]
  /\ Handled(Ok(NoContext))
  /\ UNCHANGED <<driverVars, tableVars>>

(* client_threads_exchange_capture_mode.                                   *)
ExchangeMode(t, m) ==
  /\ Calling(t)
  /\ \E may \in Verdicts :
       IF may.mode
       THEN /\ serving' = [serving EXCEPT !.mode = m, !.applied_mode = m]
            /\ slot' = [slot EXCEPT ![t].mode = m]
            /\ Handled(Answer("ok", NoContext, serving.mode))
       ELSE Handled(Failed("error")) /\ UNCHANGED <<serving, slot>>
  /\ UNCHANGED <<driverVars, tableVars>>

(* Any other call: it runs in whatever context lives where the driver's    *)
(* current handle points.                                                  *)
Use(t) ==
  /\ Calling(t)
  /\ Handled(LET a == DriverCurrent(serving)
             IN IF a = NoCtx THEN Failed("invalid")
                ELSE IF at[a] = NoContext THEN Failed("destroyed")
                ELSE Answer("ok", at[a], serving.mode))
  /\ UNCHANGED <<driverVars, tableVars, serving, slot>>

(* A call that no wrapper covers and that makes a context current: a maths *)
(* library's, with none current.                                           *)
Library(t) ==
  /\ Calling(t)
  /\ serving' = IF serving.stack = <<>> THEN DriverSet(serving, Primary) ELSE serving
  /\ Handled(Ok(NoContext))
  /\ UNCHANGED <<driverVars, tableVars, slot>>

-----------------------------------------------------------------------------
(* client_thread_after.                                                    *)

(* The thread's slot once it is made to agree with the driver.             *)
Adopted(w, sl) ==
  LET now == DriverCurrent(w)
  IN  IF now = w.applied THEN sl
      ELSE IF now # NoCtx THEN Noted(sl, WithTop(sl.stack, Entry(now)))
      ELSE IF sl.stack # <<>> THEN Noted(sl, Front(sl.stack)) ELSE sl

(* A call that failed for want of a context, on a thread whose context was *)
(* destroyed.                                                              *)
Corrected(answer, sl) ==
  IF answer.result = "invalid" /\ sl.stack # <<>> /\ Last(sl.stack).gone
  THEN Failed("destroyed") ELSE answer

After ==
  /\ req.pc = "after"
  /\ slot' = [slot EXCEPT ![req.t] = Adopted(serving, @)]
  /\ serving' = ReadBack(serving)
  /\ req' = Idle
  /\ UNCHANGED <<driverVars, tableVars>>

-----------------------------------------------------------------------------
(* The other sessions of the server, on the same driver.                   *)

OthersCreate(a) ==
  /\ at[a] = NoContext /\ created < MaxCtxs
  /\ at' = [at EXCEPT ![a] = created + 1]
  /\ created' = created + 1
  /\ UNCHANGED <<ours, serving, slot, req, tableVars>>

OthersDestroy(a) ==
  /\ at[a] \notin ours \union {NoContext}
  /\ at' = [at EXCEPT ![a] = NoContext]
  /\ UNCHANGED <<created, ours, serving, slot, req, tableVars>>

-----------------------------------------------------------------------------
Handler(t) ==
  \/ \E a \in Addrs :
       SetCurrent(t, a) \/ Push(t, a) \/ Create(t, a) \/ Destroy(t, a)
  \/ SetNone(t) \/ Pop(t) \/ GetCurrent(t) \/ Destroyed(t)
  \/ \E m \in Modes : ExchangeMode(t, m)
  \/ Use(t) \/ Library(t)

Step ==
  \/ \E t \in Threads : Begin(t) \/ Handler(t) \/ Notice(t)
  \/ After
  \/ \E a \in Addrs : OthersCreate(a) \/ OthersDestroy(a)

Next == Step /\ UNCHANGED setting

Spec == Init /\ [][Next]_vars

-----------------------------------------------------------------------------
(* Type invariant.                                                         *)
Ctxs    == 0 .. MaxCtxs
Entries == [ctx : Addrs, of : Ctxs, gone : BOOLEAN]
SlotRec == [stack : Seq(Entries), ctxs : SUBSET Addrs, mode : Modes]
Results == {"none", "ok", "error", "refused", "invalid", "destroyed"}
AnswerRec == [result : Results, of : Ctxs, was : Modes \union {NoMode}]

TypeOK ==
  /\ setting \in Settings
  /\ at \in [Addrs -> Ctxs] /\ created \in 1 .. MaxCtxs /\ ours \subseteq Ctxs \ {0}
  /\ serving \in [stack : Seq(Entries), mode : Modes,
                  applied : Addrs \union {NoCtx}, applied_mode : Modes]
  /\ live \subseteq Threads /\ gone \subseteq Threads
  /\ retired \in Seq(Threads) /\ Len(retired) <= RetiredSlots
  /\ slot \in [Threads -> SlotRec]
  /\ \A t \in Threads : Len(slot[t].stack) <= MaxStack
  /\ req \in [pc : {"idle", "call", "destroyed", "after"}, t : Threads,
              ctx : Addrs \union {NoCtx}, answer : AnswerRec]

-----------------------------------------------------------------------------
(* Safety.                                                                 *)

(* A request never runs under another thread's context, or another         *)
(* tenant's, or one that is destroyed, or in another thread's capture mode:*)
(* while it runs the driver has current what its own thread selected, and  *)
(* that is still the context the thread selected, or has nothing current.  *)
OwnContextOrNone ==
  req.pc = "call" =>
    LET st == slot[req.t].stack
        a  == DriverCurrent(serving)
    IN /\ serving.mode = slot[req.t].mode
       /\ a = Current(slot[req.t])
       /\ a # NoCtx => at[a] = Last(st).of /\ at[a] \in ours

(* No slot, live or retired, names a destroyed context as if it lived: an  *)
(* address that was given to another context is never taken for the one    *)
(* that was there, though the driver would.                                *)
NothingStale ==
  req.pc # "destroyed" =>
    \A t \in Threads : \A i \in DOMAIN slot[t].stack :
      LET e == slot[t].stack[i] IN e.gone \/ at[e.ctx] = e.of

(* What the server believes the serving thread has current is what it has, *)
(* also after the driver refused a switch.                                 *)
BelievesTheDriver ==
  req.pc \in {"idle", "call"} =>
    serving.applied = DriverCurrent(serving) /\ serving.applied_mode = serving.mode

-----------------------------------------------------------------------------
(* To its own thread a context stack is a stack of its own: the destroy    *)
(* under way counts, and so does what the driver has made current.         *)
OwnStack(t) ==
  LET sl == IF req.t # t THEN slot[t]
            ELSE IF req.pc = "destroyed" THEN PoppedIfTop(slot[t], req.ctx)
            ELSE IF req.pc = "after" THEN Adopted(serving, slot[t])
            ELSE slot[t]
  IN [i \in DOMAIN sl.stack |-> sl.stack[i].of]

TheAnswer ==
  CASE req.pc = "destroyed" -> Ok(NoContext)
    [] req.pc = "after"     -> Corrected(req.answer, Adopted(serving, slot[req.t]))
    [] OTHER                -> NoAnswer

Own == INSTANCE ThreadContexts WITH
         cstack <- [t \in Threads |-> OwnStack(t)],
         cmode  <- [t \in Threads |-> slot[t].mode],
         answer <- TheAnswer

(* The one serving thread with its switching gives every client thread a   *)
(* context stack and a capture mode of its own, if the driver does as it is*)
(* asked: every behaviour is one of ThreadContexts.                        *)
ThreadsOfTheirOwn == Own!Init /\ [][setting.may_refuse \/ Own!Next]_(Own!vars)
=============================================================================
