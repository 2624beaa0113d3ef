-------------------------- MODULE PendingWorkProofs --------------------------
(***************************************************************************)
(* The marks of PendingWork cover the work a synchronize has to wait for,  *)
(* and no synchronize returns early, for any number of threads, streams    *)
(* and contexts, and in every mode.                                        *)
(***************************************************************************)
EXTENDS PendingWork, TLAPS

-----------------------------------------------------------------------------
(* The inductive invariant.                                                *)

Ops     == {"idle", "launch", "synchronize", "download", "context", "destroy"}
Items   == [n : Nat, ctx : Contexts, s : {Default} \cup Streams, kind : Kinds, lapse : Lapses]
CallRec == [op : Ops, s : {Default} \cup Streams, sent : Nat, answered : BOOLEAN,
            ok : BOOLEAN, owed : SUBSET Nat, lapse : Lapses]

(* What was issued is numbered, up to issued, and what was sent was sent    *)
(* behind work that had been issued.                                       *)
TypeOK ==
  /\ issued \in Nat
  /\ current \in [Threads -> Contexts]
  /\ work \subseteq Items
  /\ \A w \in work : w.n <= issued /\ \A x \in work : x.n = w.n => x = w
  /\ call \in [Threads -> CallRec]
  /\ \A t \in Threads : /\ call[t].sent <= issued + 1
                        /\ call[t].answered => call[t].sent # 0
                        /\ call[t].op = "context" => call[t].s = Default

(* On the record: counted for its stream, or for every stream.             *)
Marked(s) == unplaced \/ s \in busy

(* Work whose mark was not lost is marked, and so is a launch that has set *)
(* its mark and is yet to be sent.                                         *)
AllMarked ==
  /\ \A w \in work : w.kind = "gpu" /\ w.lapse = "none" => Marked(w.s)
  /\ \A t \in Threads : call[t].op = "launch" /\ call[t].lapse = "none" => Marked(call[t].s)

(* A call that was answered, and waits, has nothing ahead of it, unless it *)
(* is a synchronize that failed.                                           *)
Waits == {"synchronize", "download", "context"}
Waited(c) == c.op \in Waits /\ c.answered /\ (c.op = "synchronize" => c.ok)
AnsweredInTurn == \A t \in Threads : Waited(call[t]) => Ahead(t) = {}

(* What a synchronize is owed is ahead of it, on a stream it waits for.    *)
OwedIsAhead ==
  \A t \in Threads :
    /\ call[t].owed \subseteq 0 .. issued
    /\ \A w \in work : w.n \in call[t].owed =>
         /\ WaitedFor(w, call[t].s, CtxOf(t, call[t].s))
         /\ call[t].sent # 0 => w.n < call[t].sent

MarksInv == TypeOK /\ AllMarked /\ AnsweredInTurn /\ OwedIsAhead

-----------------------------------------------------------------------------
(* What the kinds of steps do to it.                                       *)

(* It holds at first, with nothing pending.                                *)
LEMMA MarksInit == Init => MarksInv
<1> SUFFICES ASSUME Init PROVE MarksInv
  OBVIOUS
<1>1. call = [t \in Threads |-> Idle] /\ work = {} /\ issued = 0 /\ current \in [Threads -> Contexts]
  BY DEF Init
<1>2. Idle \in CallRec
  BY DEF Idle, CallRec, Ops, Lapses
<1>3. \A t \in Threads : call[t] = Idle
  BY <1>1
<1>4. TypeOK
  BY <1>1, <1>2, <1>3 DEF TypeOK, Idle
<1>5. QED
  BY <1>1, <1>3, <1>4 DEF MarksInv, AllMarked, AnsweredInTurn, OwedIsAhead, Idle, Waited

(* A thread's call moves on to c; marks are only added.                    *)
LEMMA CallMoves ==
  ASSUME MarksInv, NEW t \in Threads, NEW c \in CallRec,
         call' = [call EXCEPT ![t] = c], UNCHANGED <<work, issued, current>>,
         busy \subseteq busy', unplaced => unplaced',
         c.sent <= issued + 1, c.answered => c.sent # 0, c.op = "context" => c.s = Default,
         c.op = "launch" /\ c.lapse = "none" => Marked(c.s)',
         Waited(c) =>
           \A w \in work : ~(w.n < c.sent /\ WaitedFor(w, c.s, CtxOf(t, c.s))),
         c.owed \subseteq 0 .. issued,
         \A w \in work : w.n \in c.owed =>
           WaitedFor(w, c.s, CtxOf(t, c.s)) /\ (c.sent # 0 => w.n < c.sent)
  PROVE  MarksInv'
<1>1. call'[t] = c /\ \A u \in Threads \ {t} : call'[u] = call[u]
  BY DEF MarksInv, TypeOK
<1>2. TypeOK'
  BY <1>1 DEF MarksInv, TypeOK
<1>3. \A s : Marked(s) => Marked(s)'
  BY DEF Marked
<1>4. AllMarked'
  BY <1>1, <1>3 DEF MarksInv, AllMarked
<1>5. \A u \in Threads : \A s : CtxOf(u, s)' = CtxOf(u, s)
  BY DEF CtxOf
<1>6. AnsweredInTurn'
  BY <1>1, <1>5 DEF MarksInv, AnsweredInTurn, Ahead, WaitedFor
<1>7. OwedIsAhead'
  BY <1>1, <1>5 DEF MarksInv, OwedIsAhead, WaitedFor
<1>8. QED
  BY <1>2, <1>4, <1>6, <1>7 DEF MarksInv

(* A call returns, and nothing else changes.                               *)
LEMMA CallReturns ==
  ASSUME MarksInv, NEW t \in Threads, Return(t), UNCHANGED <<record, gpu, current>>
  PROVE  MarksInv'
<1>1. Idle \in CallRec
  BY DEF Idle, CallRec, Ops, Lapses
<1>2. Idle.op = "idle" /\ Idle.sent = 0 /\ ~Idle.answered /\ Idle.owed = {}
  BY DEF Idle
<1>3. call' = [call EXCEPT ![t] = Idle] /\ UNCHANGED <<work, issued, current, busy, unplaced>>
  BY DEF Return, record, gpu
<1>4. issued \in Nat
  BY DEF MarksInv, TypeOK
<1>5. Idle.sent <= issued + 1 /\ Idle.op \notin Waits \cup {"launch", "context"} /\ Idle.owed \subseteq 0 .. issued
  BY <1>2, <1>4 DEF Waits
<1>6. QED
  BY <1>1, <1>2, <1>3, <1>5, CallMoves DEF Waited

(* A piece of work is issued, by a call that returns with it, or one that  *)
(* was never under way.                                                    *)
LEMMA WorkIsIssued ==
  ASSUME MarksInv, NEW t \in Threads, NEW w \in Items,
         issued' = issued + 1, work' = work \cup {w}, w.n = issued + 1,
         call' = call \/ Return(t), UNCHANGED <<busy, unplaced, current>>,
         w.kind = "gpu" /\ w.lapse = "none" => Marked(w.s)
  PROVE  MarksInv'
<1>1. /\ issued \in Nat /\ work \subseteq Items /\ current \in [Threads -> Contexts]
      /\ \A x \in work : x.n <= issued
      /\ \A u \in Threads : call[u].sent <= issued + 1 /\ call[u].sent \in Nat
  BY DEF MarksInv, TypeOK, CallRec
<1>2. Idle \in CallRec /\ Idle.op = "idle" /\ Idle.sent = 0 /\ ~Idle.answered /\ Idle.owed = {}
  BY DEF Idle, CallRec, Ops, Lapses
<1> HIDE DEF Idle
<1>3. \A u \in Threads : call'[u] = call[u] \/ call'[u] = Idle
  BY DEF Return, MarksInv, TypeOK
<1>4. TypeOK'
  <2>1. call' \in [Threads -> CallRec]
    BY <1>2 DEF Return, MarksInv, TypeOK
  <2>2. work' \subseteq Items /\ \A x \in work' : x.n <= issued'
    BY <1>1 DEF Items
  <2>3. \A x \in work : x.n # w.n
    BY <1>1
  <2>4. \A x, y \in work' : x.n = y.n => x = y
    BY <2>3 DEF MarksInv, TypeOK
  <2>5. \A u \in Threads : /\ call'[u].sent <= issued' + 1
                           /\ call'[u].answered => call'[u].sent # 0
                           /\ call'[u].op = "context" => call'[u].s = Default
    BY <1>1, <1>2, <1>3 DEF MarksInv, TypeOK
  <2>6. QED
    BY <1>1, <2>1, <2>2, <2>5, <2>4 DEF TypeOK
<1>5. AllMarked'
  BY <1>2, <1>3 DEF MarksInv, AllMarked, Marked
<1>6. \A u \in Threads : \A s : CtxOf(u, s)' = CtxOf(u, s)
  BY DEF CtxOf
<1>7. \A u \in Threads : ~(w.n < call[u].sent)
  BY <1>1
<1>8. AnsweredInTurn'
  BY <1>2, <1>3, <1>6, <1>7 DEF MarksInv, AnsweredInTurn, Ahead, WaitedFor, Waited
<1>9. OwedIsAhead'
  <2>1. \A u \in Threads : call[u].owed \subseteq 0 .. issued /\ w.n \notin call[u].owed
    BY <1>1 DEF MarksInv, OwedIsAhead
  <2>2. QED
    BY <1>1, <1>2, <1>3, <1>6, <2>1 DEF MarksInv, OwedIsAhead, WaitedFor
<1>10. QED
  BY <1>4, <1>5, <1>8, <1>9 DEF MarksInv

(* Thread t returns having settled the streams S: what is settled and not  *)
(* of a lapse had been waited for, and is not there.                       *)
LEMMA StreamsSettle ==
  ASSUME MarksInv, NEW t \in Threads, NEW S \in SUBSET ({Default} \cup Streams),
         LapseAndReturn(t, S), call[t].answered, call[t].op \in Waits \cup {"destroy"},
         S = {call[t].s} \/ call[t].op = "context",
         UNCHANGED <<issued, current>>,
         \A s \in {Default} \cup Streams : s \notin S => (Marked(s) => Marked(s)')
  PROVE  MarksInv'
<1>1. /\ issued \in Nat /\ work \subseteq Items
      /\ \A u \in Threads : call[u] \in CallRec /\ call[u].sent <= issued + 1
      /\ call[t].op = "context" => call[t].s = Default
  BY DEF MarksInv, TypeOK
<1>2. Idle \in CallRec /\ Idle.op = "idle" /\ Idle.sent = 0 /\ ~Idle.answered /\ Idle.owed = {}
  BY DEF Idle, CallRec, Ops, Lapses
<1> HIDE DEF Idle
<1>3. \A c, n : LapseOf(t, c, n) \in Lapses
  BY DEF LapseOf, Lapses
<1> DEFINE Relabel(w) == IF w.s \in S /\ w.lapse = "none"
                           THEN [w EXCEPT !.lapse = LapseOf(t, w.ctx, w.n)] ELSE w
<1>4. \A w \in work : /\ Relabel(w) \in Items
                      /\ Relabel(w).n = w.n /\ Relabel(w).ctx = w.ctx
                      /\ Relabel(w).s = w.s /\ Relabel(w).kind = w.kind
                      /\ Relabel(w).lapse = IF w.s \in S /\ w.lapse = "none"
                                              THEN LapseOf(t, w.ctx, w.n) ELSE w.lapse
  BY <1>1, <1>3 DEF Items
<1>5. work' = {Relabel(w) : w \in work}
  BY DEF LapseAndReturn
<1> HIDE DEF Relabel
<1>6. /\ call'[t] = Idle
      /\ \A u \in Threads \ {t} :
           /\ call'[u] \in CallRec
           /\ call'[u].op = call[u].op /\ call'[u].s = call[u].s /\ call'[u].sent = call[u].sent
           /\ call'[u].answered = call[u].answered /\ call'[u].ok = call[u].ok
           /\ call'[u].owed = call[u].owed
           /\ call'[u].lapse = IF call[u].op = "launch" /\ call[u].s \in S /\ call[u].lapse = "none"
                               THEN LapseOf(t, CtxOf(u, call[u].s), issued + 1) ELSE call[u].lapse
  BY <1>1, <1>3 DEF LapseAndReturn, CallRec
<1>7. TypeOK'
  <2>1. call' = [u \in Threads |-> call'[u]]
    BY DEF LapseAndReturn
  <2>2. call' \in [Threads -> CallRec]
    BY <1>2, <1>6, <2>1
  <2>3. \A u \in Threads : /\ call'[u].sent <= issued + 1
                           /\ call'[u].answered => call'[u].sent # 0
                           /\ call'[u].op = "context" => call'[u].s = Default
    BY <1>1, <1>2, <1>6 DEF MarksInv, TypeOK
  <2>4. work' \subseteq Items /\ \A w \in work' : w.n <= issued
    BY <1>4, <1>5 DEF MarksInv, TypeOK
  <2>5. \A w, x \in work : Relabel(x).n = Relabel(w).n => x = w
    BY <1>4 DEF MarksInv, TypeOK
  <2>6. \A w, x \in work' : x.n = w.n => x = w
    BY <1>5, <2>5
  <2>7. QED
    BY <2>2, <2>3, <2>4, <2>6 DEF MarksInv, TypeOK
<1>8. \A u \in Threads : \A s : CtxOf(u, s)' = CtxOf(u, s)
  BY DEF CtxOf
<1>9. AllMarked'
  <2>1. \A w \in work : w.s \in S => LapseOf(t, w.ctx, w.n) # "none"
    <3> SUFFICES ASSUME NEW w \in work, w.s \in S, LapseOf(t, w.ctx, w.n) = "none" PROVE FALSE
      OBVIOUS
    <3>1. /\ call[t].ok /\ call[t].op # "destroy" /\ w.ctx = CtxOf(t, call[t].s)
          /\ ~(w.n >= call[t].sent)
      BY DEF LapseOf
    <3>2. w.n \in Nat /\ call[t].sent \in Nat
      BY <1>1 DEF Items, CallRec
    <3>3. call[t].s = Default \/ w.s = call[t].s
      BY <1>1
    <3>4. w \in Ahead(t)
      BY <3>1, <3>2, <3>3 DEF Ahead, WaitedFor
    <3>5. QED
      BY <3>1, <3>4 DEF MarksInv, AnsweredInTurn, Waited
  <2>2. \A c : LapseOf(t, c, issued + 1) # "none"
    BY <1>1 DEF LapseOf, CallRec
  <2>3. \A w \in work' : w.kind = "gpu" /\ w.lapse = "none" => Marked(w.s)'
    <3> SUFFICES ASSUME NEW w \in work, Relabel(w).kind = "gpu", Relabel(w).lapse = "none"
                 PROVE  Marked(w.s)'
      BY <1>4, <1>5
    <3>1. w.s \notin S /\ w.lapse = "none" /\ w.kind = "gpu" /\ w.s \in {Default} \cup Streams
      BY <1>1, <1>4, <2>1 DEF Items
    <3>2. QED
      BY <3>1 DEF MarksInv, AllMarked
  <2>4. ASSUME NEW u \in Threads, call'[u].op = "launch", call'[u].lapse = "none"
        PROVE  Marked(call[u].s)'
    <3>1. u # t /\ call[u].op = "launch"
      BY <1>2, <1>6, <2>4
    <3>2. call[u].lapse = "none" /\ call[u].s \notin S /\ call'[u].s = call[u].s
      BY <1>6, <2>2, <2>4, <3>1
    <3>3. call[u].s \in {Default} \cup Streams
      BY <1>1 DEF CallRec
    <3>4. QED
      BY <3>1, <3>2, <3>3 DEF MarksInv, AllMarked
  <2>5. QED
    BY <2>3, <2>4 DEF AllMarked
<1>10. AnsweredInTurn'
  <2> SUFFICES ASSUME NEW u \in Threads, Waited(call'[u])
               PROVE  Ahead(u)' = {}
    BY DEF AnsweredInTurn
  <2>1. u # t
    BY <1>2, <1>6 DEF Waited
  <2>2. Ahead(u) = {}
    BY <1>6, <2>1 DEF MarksInv, AnsweredInTurn, Waited
  <2>3. QED
    BY <1>4, <1>5, <1>6, <1>8, <2>1, <2>2 DEF Ahead, WaitedFor
<1>11. OwedIsAhead'
  <2>1. \A u \in Threads : /\ call'[u].owed \subseteq 0 .. issued
                           /\ call'[u].owed # {} => u # t
    BY <1>2, <1>6 DEF MarksInv, OwedIsAhead
  <2>2. ASSUME NEW u \in Threads \ {t}, NEW w \in work, w.n \in call[u].owed
        PROVE  WaitedFor(w, call[u].s, CtxOf(u, call[u].s)) /\ (call[u].sent # 0 => w.n < call[u].sent)
    BY <2>2 DEF MarksInv, OwedIsAhead
  <2>3. QED
    BY <1>4, <1>5, <1>6, <1>8, <2>1, <2>2 DEF OwedIsAhead, WaitedFor
<1>12. QED
  BY <1>7, <1>9, <1>10, <1>11 DEF MarksInv

-----------------------------------------------------------------------------
(* A call as it begins, or as it is sent.                                  *)
Fresh(c, o, s, sent, owed) ==
  /\ c \in CallRec
  /\ c.op = o /\ c.s = s /\ c.sent = sent /\ ~c.answered /\ c.owed = owed

(* What the actions build from Idle is such a call.                        *)
LEMMA FreshCalls ==
  ASSUME NEW s \in {Default} \cup Streams, NEW o \in Ops, NEW owed \in SUBSET Nat, issued \in Nat
  PROVE  /\ Fresh([Idle EXCEPT !.op = o], o, Default, 0, {})
         /\ Fresh([Idle EXCEPT !.op = o, !.s = s], o, s, 0, {})
         /\ Fresh([Idle EXCEPT !.op = o, !.s = s, !.owed = owed], o, s, 0, owed)
         /\ Fresh(Sent(o, s), o, s, issued + 1, {})
         /\ Fresh([Sent(o, s) EXCEPT !.owed = owed], o, s, issued + 1, owed)
<1>1. Fresh([Idle EXCEPT !.op = o], o, Default, 0, {})
  BY DEF Fresh, Idle, CallRec, Lapses
<1>2. Fresh([Idle EXCEPT !.op = o, !.s = s], o, s, 0, {})
  BY DEF Fresh, Idle, CallRec, Lapses
<1>3. Fresh([Idle EXCEPT !.op = o, !.s = s, !.owed = owed], o, s, 0, owed)
  BY DEF Fresh, Idle, CallRec, Lapses
<1>4. ASSUME NEW n \in Nat
      PROVE  Fresh([Idle EXCEPT !.op = o, !.s = s, !.sent = n], o, s, n, {})
  BY DEF Fresh, Idle, CallRec, Lapses
<1>5. issued + 1 \in Nat
  OBVIOUS
<1>6. Fresh(Sent(o, s), o, s, issued + 1, {})
  BY <1>4, <1>5 DEF Sent
<1>7. Fresh([Sent(o, s) EXCEPT !.owed = owed], o, s, issued + 1, owed)
  BY <1>6 DEF Fresh, CallRec
<1>8. QED
  BY <1>1, <1>2, <1>3, <1>6, <1>7

(* A call begins: it is not answered, and what it is owed it waits for.    *)
LEMMA CallBegins ==
  ASSUME MarksInv, NEW t \in Threads, NEW o \in Ops, NEW s \in {Default} \cup Streams,
         NEW sent \in {0, issued + 1}, NEW owed \in {{}, Owed(t, s)},
         NEW c, Fresh(c, o, s, sent, owed), call' = [call EXCEPT ![t] = c],
         UNCHANGED <<work, issued, current>>, busy \subseteq busy', unplaced => unplaced',
         o = "context" => s = Default, o = "launch" => Marked(s)'
  PROVE  MarksInv'
<1>1. /\ issued \in Nat /\ \A w \in work : w.n <= issued /\ w.n \in Nat
      /\ \A w, x \in work : x.n = w.n => x = w
  BY DEF MarksInv, TypeOK, Items
<1>2. /\ owed \subseteq 0 .. issued
      /\ \A w \in work : w.n \in owed => WaitedFor(w, s, CtxOf(t, s))
  BY <1>1 DEF Owed
<1>3. /\ c.op = o /\ c.s = s /\ c.sent = sent /\ ~c.answered /\ c.owed = owed
      /\ c \in CallRec
  BY DEF Fresh
<1>4. /\ c.sent <= issued + 1
      /\ \A w \in work : c.sent # 0 => w.n < c.sent
  BY <1>1, <1>3
<1>5. c.op = "launch" => Marked(c.s)'
  BY <1>3 DEF Marked
<1>6. QED
  BY <1>2, <1>3, <1>4, <1>5, CallMoves DEF Waited

-----------------------------------------------------------------------------
(* Every step keeps MarksInv: the calls that begin or move on, the work    *)
(* that is issued, the waits that are over.                                *)

(* A call is made.                                                         *)
LEMMA BeginKeeps ==
  ASSUME MarksInv, NEW t \in Threads,
         \/ \E s \in Usable : \/ MarkLaunch(t, s) \/ BeginSynchronize(t, s)
                             \/ SendDownload(t, s) \/ SendDestroy(t, s)
         \/ MarkSomewhere(t) \/ SendCtxSynchronize(t)
  PROVE  MarksInv'
<1>1. Usable \subseteq {Default} \cup Streams /\ Default \in Usable /\ issued \in Nat
  BY DEF Usable, MarksInv, TypeOK
<1>2. \A s : Owed(t, s) \in SUBSET Nat
  BY DEF Owed, MarksInv, TypeOK, Items
<1>3. CASE \E s \in Usable : MarkLaunch(t, s)
  <2>1. PICK s \in Usable : MarkLaunch(t, s)
    BY <1>3
  <2>2. Fresh([Idle EXCEPT !.op = "launch", !.s = s], "launch", s, 0, {})
    BY <1>1, <1>2, FreshCalls DEF Ops
  <2>3. /\ call' = [call EXCEPT ![t] = [Idle EXCEPT !.op = "launch", !.s = s]]
        /\ UNCHANGED <<work, issued, current>>
        /\ busy \subseteq busy' /\ unplaced' = unplaced /\ s \in busy'
    BY <2>1 DEF MarkLaunch, Begin, WorkOn, gpu
  <2>4. QED
    BY <1>1, <2>2, <2>3, CallBegins DEF Marked, Ops
<1>4. CASE MarkSomewhere(t)
  <2>1. Fresh([Idle EXCEPT !.op = "launch"], "launch", Default, 0, {})
    BY <1>1, <1>2, FreshCalls DEF Ops
  <2>2. /\ call' = [call EXCEPT ![t] = [Idle EXCEPT !.op = "launch"]]
        /\ UNCHANGED <<work, issued, current>>
        /\ busy \subseteq busy' /\ unplaced'
    BY <1>4 DEF MarkSomewhere, Begin, WorkSomewhere, gpu
  <2>3. QED
    BY <1>1, <2>1, <2>2, CallBegins DEF Marked, Ops
<1>5. CASE \E s \in Usable : BeginSynchronize(t, s)
  <2>1. PICK s \in Usable : BeginSynchronize(t, s)
    BY <1>5
  <2>2. Fresh([Idle EXCEPT !.op = "synchronize", !.s = s, !.owed = Owed(t, s)],
              "synchronize", s, 0, Owed(t, s))
    BY <1>1, <1>2, FreshCalls DEF Ops
  <2>3. /\ call' = [call EXCEPT ![t] = [Idle EXCEPT !.op = "synchronize", !.s = s, !.owed = Owed(t, s)]]
        /\ UNCHANGED <<work, issued, current, busy, unplaced>>
    BY <2>1 DEF BeginSynchronize, Begin, gpu, record
  <2>4. QED
    BY <1>1, <2>2, <2>3, CallBegins DEF Ops
<1>6. CASE \E s \in Usable : SendDownload(t, s) \/ SendDestroy(t, s)
  <2>1. PICK s \in Usable : SendDownload(t, s) \/ SendDestroy(t, s)
    BY <1>6
  <2>2. ASSUME NEW o \in {"download", "destroy"}, call' = [call EXCEPT ![t] = Sent(o, s)]
        PROVE  MarksInv'
    <3>1. Fresh(Sent(o, s), o, s, issued + 1, {})
      BY <1>1, <1>2, FreshCalls DEF Ops
    <3>2. UNCHANGED <<work, issued, current, busy, unplaced>>
      BY <2>1 DEF SendDownload, SendDestroy, gpu, record
    <3>3. QED
      BY <1>1, <2>2, <3>1, <3>2, CallBegins DEF Ops
  <2>3. QED
    BY <2>1, <2>2 DEF SendDownload, SendDestroy, Begin
<1>7. CASE SendCtxSynchronize(t)
  <2>1. Fresh([Sent("context", Default) EXCEPT !.owed = Owed(t, Default)],
              "context", Default, issued + 1, Owed(t, Default))
    BY <1>1, <1>2, FreshCalls DEF Ops
  <2>2. /\ call' = [call EXCEPT ![t] = [Sent("context", Default) EXCEPT !.owed = Owed(t, Default)]]
        /\ UNCHANGED <<work, issued, current, busy, unplaced>>
    BY <1>7 DEF SendCtxSynchronize, Begin, gpu, record
  <2>3. QED
    BY <1>1, <2>1, <2>2, CallBegins DEF Ops
<1>8. QED
  BY <1>3, <1>4, <1>5, <1>6, <1>7

(* cuStreamSynchronize is sent, behind all that was issued.                *)
LEMMA SendKeeps ==
  ASSUME MarksInv, NEW t \in Threads, SendSynchronize(t)
  PROVE  MarksInv'
<1>1. /\ issued \in Nat /\ call[t] \in CallRec /\ call[t].owed \subseteq 0 .. issued
      /\ \A w \in work : w.n <= issued /\ w.n \in Nat
      /\ \A w \in work : w.n \in call[t].owed => WaitedFor(w, call[t].s, CtxOf(t, call[t].s))
      /\ call[t].answered => call[t].sent # 0
  BY DEF MarksInv, TypeOK, OwedIsAhead, Items
<1>2. /\ call[t].op = "synchronize" /\ call[t].sent = 0
      /\ call' = [call EXCEPT ![t] = [call[t] EXCEPT !.sent = issued + 1]]
      /\ UNCHANGED <<work, issued, current, busy, unplaced>>
  BY DEF SendSynchronize, gpu, record
<1>3. ASSUME NEW c, c = [call[t] EXCEPT !.sent = issued + 1]
      PROVE  MarksInv'
  <2>1. /\ c.op = "synchronize" /\ c.s = call[t].s /\ c.sent = issued + 1
        /\ c.owed = call[t].owed /\ ~c.answered /\ c \in CallRec
    BY <1>1, <1>2, <1>3 DEF CallRec
  <2>2. call' = [call EXCEPT ![t] = c]
    BY <1>2, <1>3
  <2>3. \A w \in work : w.n < issued + 1
    BY <1>1
  <2>4. \A w \in work : w.n \in c.owed =>
          WaitedFor(w, c.s, CtxOf(t, c.s)) /\ (c.sent # 0 => w.n < c.sent)
    BY <1>1, <2>1, <2>3
  <2>5. c.sent <= issued + 1 /\ c.op # "context" /\ c.op # "launch" /\ c.owed \subseteq 0 .. issued
    BY <1>1, <2>1
  <2>6. busy \subseteq busy' /\ (unplaced => unplaced') /\ UNCHANGED <<work, issued, current>>
    BY <1>2
  <2>7. /\ c.answered => c.sent # 0
        /\ Waited(c) =>
             \A w \in work : ~(w.n < c.sent /\ WaitedFor(w, c.s, CtxOf(t, c.s)))
    BY <2>1 DEF Waited
  <2>8. QED
    BY <2>1, <2>2, <2>4, <2>5, <2>6, <2>7, CallMoves
<1>4. QED
  BY <1>3

(* A call is answered: what is ahead of it has finished, or it failed, or  *)
(* it waits for nothing.                                                   *)
LEMMA AnswerKeeps ==
  ASSUME MarksInv, NEW t \in Threads, Answer(t)
  PROVE  MarksInv'
<1>1. UNCHANGED <<work, issued, current, busy, unplaced, record, gpu>> /\ call[t].sent # 0
  BY DEF Answer, gpu, record
<1>2. /\ issued \in Nat /\ call[t] \in CallRec /\ call[t].owed \subseteq 0 .. issued
      /\ call[t].sent <= issued + 1
      /\ call[t].op = "context" => call[t].s = Default
      /\ call[t].op = "launch" /\ call[t].lapse = "none" => Marked(call[t].s)
      /\ \A w \in work : w.n \in call[t].owed =>
           /\ WaitedFor(w, call[t].s, CtxOf(t, call[t].s))
           /\ call[t].sent # 0 => w.n < call[t].sent
  BY DEF MarksInv, TypeOK, OwedIsAhead, AllMarked
<1>3. ASSUME NEW ok \in BOOLEAN, NEW c, c = [call[t] EXCEPT !.answered = TRUE, !.ok = ok],
             call' = [call EXCEPT ![t] = c],
             call[t].op \in Waits /\ (call[t].op = "synchronize" => ok) => Ahead(t) = {}
      PROVE  MarksInv'
  <2>1. /\ c.op = call[t].op /\ c.s = call[t].s /\ c.sent = call[t].sent
        /\ c.owed = call[t].owed /\ c.lapse = call[t].lapse /\ c.ok = ok /\ c \in CallRec
    BY <1>2, <1>3 DEF CallRec
  <2>2. Waited(c) => \A w \in work : ~(w.n < c.sent /\ WaitedFor(w, c.s, CtxOf(t, c.s)))
    BY <1>3, <2>1 DEF Ahead, Waited
  <2>3. c.op = "launch" /\ c.lapse = "none" => Marked(c.s)'
    BY <1>1, <1>2, <2>1 DEF Marked
  <2>4. QED
    BY <1>1, <1>2, <1>3, <2>1, <2>2, <2>3, CallMoves
<1>4. CASE Return(t)
  BY <1>1, <1>4, CallReturns
<1>5. CASE /\ call[t].op = "destroy" \/ Ahead(t) = {}
           /\ call' = [call EXCEPT ![t].answered = TRUE]
  <2>1. call[t].ok \in BOOLEAN
    BY <1>2 DEF CallRec
  <2>2. [call[t] EXCEPT !.answered = TRUE] = [call[t] EXCEPT !.answered = TRUE, !.ok = call[t].ok]
    BY <1>2 DEF CallRec
  <2>3. QED
    BY <1>3, <1>5, <2>1, <2>2 DEF Waits
<1>6. CASE /\ call[t].op = "synchronize"
           /\ call' = [call EXCEPT ![t].answered = TRUE, ![t].ok = FALSE]
  <2>1. call' = [call EXCEPT ![t] = [call[t] EXCEPT !.answered = TRUE, !.ok = FALSE]]
    BY <1>2, <1>6 DEF CallRec, MarksInv, TypeOK
  <2>2. QED
    BY <1>3, <1>6, <2>1
<1>7. QED
  BY <1>4, <1>5, <1>6 DEF Answer

(* Work is issued, by a launch or by a call that marks nothing.            *)
LEMMA IssueKeeps ==
  ASSUME MarksInv, NEW t \in Threads,
         Issue(t) \/ Streamless(t) \/ \E s \in Usable : Upload(t, s)
  PROVE  MarksInv'
<1>1. /\ issued \in Nat /\ call[t] \in CallRec
      /\ current \in [Threads -> Contexts] /\ HomeOf \in [Streams -> Contexts]
      /\ Usable \subseteq {Default} \cup Streams
  BY PendingWorkAssumption DEF MarksInv, TypeOK, Usable
<1>2. ASSUME NEW s \in {Default} \cup Streams, NEW k \in Kinds, IssueItem(t, s, k),
             call' = call \/ Return(t), UNCHANGED <<record, current>>,
             k = "gpu" => call[t].op = "launch" /\ call[t].s = s
      PROVE  MarksInv'
  <2>1. CtxOf(t, s) \in Contexts /\ issued + 1 \in Nat /\ call[t].lapse \in Lapses
    BY <1>1 DEF CtxOf, CallRec
  <2>2. Item(t, s, k) \in Items
    BY <2>1 DEF Item, Items
  <2>3. /\ Item(t, s, k).n = issued + 1 /\ Item(t, s, k).s = s /\ Item(t, s, k).kind = k
        /\ Item(t, s, k).lapse = call[t].lapse
    BY DEF Item
  <2>4. k = "gpu" /\ call[t].lapse = "none" => Marked(s)
    BY <1>2 DEF MarksInv, AllMarked
  <2>5. /\ issued' = issued + 1 /\ work' = work \cup {Item(t, s, k)}
        /\ UNCHANGED <<busy, unplaced, current>>
    BY <1>2 DEF IssueItem, record
  <2>6. QED
    BY <1>2, <2>2, <2>3, <2>4, <2>5, WorkIsIssued
<1>3. CASE Issue(t)
  <2>1. Return(t) /\ UNCHANGED <<record, current>> /\ call[t].op = "launch"
    BY <1>3 DEF Issue
  <2>2. CASE IssueItem(t, call[t].s, "gpu")
    BY <1>1, <1>2, <2>1, <2>2 DEF Kinds, CallRec
  <2>3. CASE UNCHANGED gpu
    BY <2>1, <2>3, CallReturns
  <2>4. QED
    BY <1>3, <2>2, <2>3 DEF Issue
<1>4. CASE Streamless(t)
  BY <1>1, <1>2, <1>4 DEF Streamless, Kinds
<1>5. CASE \E s \in Usable : Upload(t, s)
  BY <1>1, <1>2, <1>5 DEF Upload, Kinds
<1>6. QED
  BY <1>3, <1>4, <1>5

(* A call that waited settles what it waited for, and returns.             *)
LEMMA AfterKeeps ==
  ASSUME MarksInv, NEW t \in Threads,
         AfterSynchronize(t) \/ AfterStub(t) \/ AfterCtxSynchronize(t)
  PROVE  MarksInv'
<1>1. call[t].s \in {Default} \cup Streams
  BY DEF MarksInv, TypeOK, CallRec
<1>2. CASE AfterSynchronize(t) \/ AfterStub(t)
  <2>1. /\ LapseAndReturn(t, {call[t].s}) /\ call[t].answered
        /\ call[t].op \in Waits \cup {"destroy"}
        /\ UNCHANGED <<issued, current>> /\ Settled(call[t].s)
    BY <1>2 DEF AfterSynchronize, AfterStub, Waits
  <2>2. \A s \in {Default} \cup Streams : s \notin {call[t].s} => (Marked(s) => Marked(s)')
    BY <2>1 DEF Settled, Marked
  <2>3. {call[t].s} \in SUBSET ({Default} \cup Streams)
    BY <1>1
  <2>4. ASSUME NEW S, S = {call[t].s}
        PROVE  MarksInv'
    BY <2>1, <2>2, <2>3, <2>4, StreamsSettle
  <2>5. QED
    BY <2>4
<1>3. CASE AfterCtxSynchronize(t)
  <2>1. /\ LapseAndReturn(t, {Default} \cup Streams) /\ call[t].answered
        /\ call[t].op \in Waits /\ call[t].op = "context"
        /\ UNCHANGED <<issued, current>>
    BY <1>3 DEF AfterCtxSynchronize, Waits
  <2>2. QED
    BY <2>1, StreamsSettle
<1>4. QED
  BY <1>2, <1>3

(* Less work is left, and nothing else changes.                            *)
LEMMA LessWorkKeeps ==
  ASSUME MarksInv, work' \subseteq work, UNCHANGED <<record, current, call, issued>>
  PROVE  MarksInv'
<1>1. UNCHANGED <<busy, unplaced>>
  BY DEF record
<1>2. TypeOK'
  BY DEF MarksInv, TypeOK
<1>3. AllMarked'
  BY <1>1 DEF MarksInv, AllMarked, Marked
<1>4. \A u \in Threads : \A s : CtxOf(u, s)' = CtxOf(u, s)
  BY DEF CtxOf
<1>5. AnsweredInTurn'
  BY <1>4 DEF MarksInv, AnsweredInTurn, Ahead, WaitedFor
<1>6. OwedIsAhead'
  BY <1>4 DEF MarksInv, OwedIsAhead, WaitedFor
<1>7. QED
  BY <1>2, <1>3, <1>5, <1>6 DEF MarksInv

(* Every step keeps it.                                                    *)
LEMMA MarksStep == MarksInv /\ [Next]_vars => MarksInv'
<1> SUFFICES ASSUME MarksInv, [Next]_vars PROVE MarksInv'
  OBVIOUS
<1>1. ASSUME NEW t \in Threads,
             \/ \E s \in Usable :
                  \/ MarkLaunch(t, s)        \/ Upload(t, s)
                  \/ SynchronizeQueued(t, s) \/ BeginSynchronize(t, s)
                  \/ SendDownload(t, s)      \/ SendDestroy(t, s)
             \/ MarkSomewhere(t) \/ Issue(t) \/ Streamless(t)
             \/ SendCtxSynchronize(t) \/ SendSynchronize(t) \/ Answer(t)
             \/ AfterSynchronize(t) \/ AfterStub(t) \/ AfterCtxSynchronize(t)
      PROVE  MarksInv'
  <2>1. CASE \E s \in Usable : SynchronizeQueued(t, s)
    BY <2>1, LessWorkKeeps DEF SynchronizeQueued, gpu
  <2>2. QED
    BY <1>1, <2>1, BeginKeeps, SendKeeps, AnswerKeeps, IssueKeeps, AfterKeeps
<1>2. CASE Finish
  BY <1>2, LessWorkKeeps DEF Finish
<1>3. CASE UNCHANGED vars
  BY <1>3, LessWorkKeeps DEF vars, gpu
<1>4. QED
  BY <1>1, <1>2, <1>3 DEF Next

(* The record covers what it must, in every state (pending.cpp).           *)
THEOREM MarksHold == Spec => []MarksInv
BY MarksInit, MarksStep, PTL DEF Spec

-----------------------------------------------------------------------------
(* While work that names its stream has not finished, a synchronize that   *)
(* has to wait for it will, unless its mark was lost in a way that lapse   *)
(* names.                                                                  *)
THEOREM MarksAlwaysCover == Spec => []MarksCover
<1>1. MarksInv => MarksCover
  BY DEF MarksInv, AllMarked, Marked, MarksCover, NothingToWaitFor
<1>2. QED
  BY <1>1, MarksHold, PTL

(* A synchronize that is over: all that it was owed has finished.          *)
LEMMA OwedIsDone ==
  ASSUME MarksInv, NEW t \in Threads, Waited(call[t])
  PROVE  \A w \in work : w.n \notin call[t].owed
<1> SUFFICES ASSUME NEW w \in work, w.n \in call[t].owed PROVE FALSE
  OBVIOUS
<1>1. call[t].sent # 0 /\ Ahead(t) = {}
  BY DEF MarksInv, TypeOK, AnsweredInTurn, Waited
<1>2. WaitedFor(w, call[t].s, CtxOf(t, call[t].s)) /\ w.n < call[t].sent
  BY <1>1 DEF MarksInv, OwedIsAhead
<1>3. QED
  BY <1>1, <1>2 DEF Ahead

(* A synchronize that was queued as nothing was marked: what it should     *)
(* have waited for had lost its mark, or never had one.                    *)
LEMMA QueuedIsDone ==
  ASSUME MarksInv, NEW t \in Threads, NEW s \in Usable, NothingToWaitFor(s),
         NEW w \in work, w.n \in Owed(t, s)
  PROVE  w.lapse # "none" \/ w.kind = "streamless"
<1>1. WaitedFor(w, s, CtxOf(t, s)) /\ w.kind # "upload" /\ w.kind \in Kinds
  BY DEF Owed, MarksInv, TypeOK, Items
<1>2. ASSUME w.kind = "gpu", w.lapse = "none"
      PROVE  FALSE
  <2>1. Marked(w.s)
    BY <1>2 DEF MarksInv, AllMarked
  <2>2. QED
    BY <1>1, <2>1 DEF Marked, NothingToWaitFor, WaitedFor
<1>3. QED
  BY <1>1, <1>2 DEF Kinds

(* Every step keeps what a synchronize has waited for.                     *)
LEMMA WaitsStep == MarksInv /\ SynchronizeWaits /\ [Next]_vars => SynchronizeWaits'
<1> SUFFICES ASSUME MarksInv, SynchronizeWaits, [Next]_vars PROVE SynchronizeWaits'
  OBVIOUS
<1>1. ASSUME NEW t \in Threads, NEW s \in Usable, SynchronizeQueued(t, s)
      PROVE  SynchronizeWaits'
  <2>1. mode' = mode /\ late' = {w \in work : w.n \in Owed(t, s)} /\ MayQueue(s)
    BY <1>1 DEF SynchronizeQueued, NoteLate
  <2>2. QED
    BY <2>1, QueuedIsDone DEF MayQueue, SynchronizeWaits
<1>2. ASSUME NEW t \in Threads, AfterSynchronize(t) \/ AfterCtxSynchronize(t)
      PROVE  SynchronizeWaits'
  <2>1. late' = {} \/ (Waited(call[t]) /\ late' = {w \in work : w.n \in call[t].owed})
    BY <1>2 DEF AfterSynchronize, AfterCtxSynchronize, NoteLate, Waited, Waits
  <2>2. late' = {}
    BY <2>1, OwedIsDone
  <2>3. QED
    BY <2>2 DEF SynchronizeWaits
<1>3. CASE late' = {}
  BY <1>3 DEF SynchronizeWaits
<1>4. CASE UNCHANGED vars
  BY <1>4 DEF vars, SynchronizeWaits
<1>5. QED
  BY <1>1, <1>2, <1>3, <1>4
     DEF Next, MarkLaunch, Upload, BeginSynchronize, SendDownload, SendDestroy, MarkSomewhere,
         Issue, Streamless, SendCtxSynchronize, SendSynchronize, Answer, AfterStub, Finish

(* A synchronize that returned left nothing running that was issued before *)
(* it, but uploads, work whose mark was lost in a way lapse names, and the *)
(* work of calls that name no stream.                                      *)
THEOREM SynchronizeAlwaysWaits == Spec => []SynchronizeWaits
<1>1. Init => SynchronizeWaits
  BY DEF Init, SynchronizeWaits
<1>2. QED
  BY <1>1, MarksHold, WaitsStep, PTL DEF Spec
=============================================================================
