---------------------------- MODULE PendingWork ----------------------------
(***************************************************************************)
(* The record of outstanding GPU work (client/pending.cpp), by which       *)
(* cuStreamSynchronize is queued instead of waited for, and the calls that *)
(* keep it: the launch and the synchronize of client/shim.cpp and the      *)
(* stubs of client/generated/client_stubs.cpp.                             *)
(*                                                                         *)
(* Each operation on the record is atomic, under its mutex; the calls      *)
(* around them are not, and threads interleave between them.  The call     *)
(* stream is in order: a call takes its place on the GPU when it is sent.  *)
(***************************************************************************)
EXTENDS Naturals, FiniteSets

CONSTANTS
  Threads,
  Contexts,
  Streams,      \* the streams the application made, each in a context
  HomeOf,       \* the context of each
  Modes,        \* out of SyncModes
  MaxWork       \* bound: work issued

Default == 0    \* the default stream, one in each context, one key in the record

(* sync_mode: RGPU_LAZY_SYNC=0, unset, =1.                                 *)
SyncModes == {"waits", "after uploads", "queued"}

ASSUME PendingWorkAssumption ==
  /\ HomeOf \in [Streams -> Contexts] /\ Default \notin Streams
  /\ Modes \subseteq SyncModes
  /\ MaxWork \in Nat

VARIABLES
  busy,      \* g_busy
  unplaced,  \* g_unplaced
  mode,      \* sync_mode(), read once
  current,   \* the context current in each thread; one that switches is two
  call,      \* where each thread is inside a call
  work,      \* the GPU: what was issued and has not finished
  issued,    \* how much was issued
  gone,      \* the streams destroyed
  late       \* history: what was unfinished as a synchronize returned, in this step
record == <<busy, unplaced>>
gpu    == <<work, issued, gone>>
vars   == <<record, mode, current, call, gpu, late>>

-----------------------------------------------------------------------------
(* Work: on a stream of a context.  A synchronize exists to wait for what  *)
(* is "gpu"; an "upload" gave its bytes when it was issued; "streamless"   *)
(* is GPU work of a call that names no stream and is not a launch.  lapse  *)
(* is history: why a mark was taken from work that had not finished.       *)
Kinds  == {"gpu", "upload", "streamless"}
Lapses == {"none", "raced", "elsewhere", "gone", "failed"}

(* A call: its stream, the first work issued after it was sent, whether it *)
(* has its answer; history: the work it is owed, and for a launch, whether *)
(* its mark is already lost.                                               *)
Idle == [op |-> "idle", s |-> Default, sent |-> 0, answered |-> FALSE, ok |-> TRUE,
         owed |-> {}, lapse |-> "none"]

CtxOf(t, s) == IF s = Default THEN current[t] ELSE HomeOf[s]

(* The default stream orders itself against every other of its context.    *)
WaitedFor(w, s, c) == w.ctx = c /\ (s = Default \/ w.s = s)

(* What a thread may name.                                                 *)
Usable == {Default} \cup (Streams \ gone)

Init ==
  /\ busy = {} /\ unplaced = FALSE
  /\ mode \in Modes
  /\ current \in [Threads -> Contexts]
  /\ call = [t \in Threads |-> Idle]
  /\ work = {} /\ issued = 0 /\ gone = {}
  /\ late = {}

-----------------------------------------------------------------------------
(* The record.                                                             *)

WorkOn(s)     == busy' = busy \cup {s} /\ UNCHANGED unplaced
WorkSomewhere == unplaced' = TRUE /\ UNCHANGED busy

\* Mutant of Settled: waiting for one stream clears what has no place.
SettledPlace(s) == busy' = busy \ {s} /\ unplaced' = FALSE

Settled(s) == busy' = busy \ {s} /\ UNCHANGED unplaced
SettledAll == busy' = {} /\ unplaced' = FALSE

\* Mutant of NothingToWaitFor: the default stream is like any other.
NothingMarked(s) == ~unplaced /\ s \notin busy

NothingToWaitFor(s) ==
  /\ ~unplaced
  /\ IF s = Default THEN busy = {} ELSE s \notin busy

-----------------------------------------------------------------------------
(* Issuing work.                                                           *)

Begin(t, c) == call[t].op = "idle" /\ call' = [call EXCEPT ![t] = c]
Return(t)   == call' = [call EXCEPT ![t] = Idle]

Item(t, s, kind) ==
  [n |-> issued + 1, ctx |-> CtxOf(t, s), s |-> s, kind |-> kind, lapse |-> call[t].lapse]
IssueItem(t, s, kind) ==
  /\ issued < MaxWork
  /\ issued' = issued + 1 /\ work' = work \cup {Item(t, s, kind)}
  /\ UNCHANGED gone

(* launch_common and every stub that takes a stream and puts work on it:   *)
(* the mark, then the call.                                                *)
MarkLaunch(t, s) ==
  /\ issued < MaxWork
  /\ Begin(t, [Idle EXCEPT !.op = "launch", !.s = s])
  /\ WorkOn(s)
  /\ late' = {} /\ UNCHANGED <<mode, current, gpu>>

(* cuLaunch and cuLaunchGrid: on whichever stream the context selected.    *)
MarkSomewhere(t) ==
  /\ issued < MaxWork
  /\ Begin(t, [Idle EXCEPT !.op = "launch"])
  /\ WorkSomewhere
  /\ late' = {} /\ UNCHANGED <<mode, current, gpu>>

\* The call is sent, or fails.
Issue(t) ==
  /\ call[t].op = "launch"
  /\ \/ IssueItem(t, call[t].s, "gpu")
     \/ UNCHANGED gpu
  /\ Return(t)
  /\ late' = {} /\ UNCHANGED <<record, mode, current>>

(* cuMemsetD8_v2, cuMemcpyDtoD_v2 and the like: the stubs mark nothing.    *)
Streamless(t) ==
  /\ call[t].op = "idle"
  /\ IssueItem(t, Default, "streamless")
  /\ late' = {} /\ UNCHANGED <<record, mode, current, call>>

(* cuMemcpyHtoDAsync_v2: in NO_STREAM_WORK.                                *)
Upload(t, s) ==
  /\ call[t].op = "idle"
  /\ IssueItem(t, s, "upload")
  /\ late' = {} /\ UNCHANGED <<record, mode, current, call>>

-----------------------------------------------------------------------------
(* Waiting.                                                                *)

(* What a call that waits for stream s should find finished: all that was  *)
(* issued before the call was made, uploads aside.                         *)
Owed(t, s) ==
  {w.n : w \in {x \in work : WaitedFor(x, s, CtxOf(t, s)) /\ x.kind # "upload"}}

(* History: what is left of it when the call returns.                      *)
NoteLate(owed) ==
  late' = {w \in work : w.n \in owed}

(* cuStreamSynchronize: queued, and it returns; or it is to wait.          *)
MayQueue(s) == mode = "queued" \/ (mode = "after uploads" /\ NothingToWaitFor(s))
SynchronizeQueued(t, s) ==
  /\ call[t].op = "idle"
  /\ MayQueue(s)
  /\ NoteLate(Owed(t, s))
  /\ UNCHANGED <<record, mode, current, call, gpu>>
BeginSynchronize(t, s) ==
  /\ ~MayQueue(s)
  /\ Begin(t, [Idle EXCEPT !.op = "synchronize", !.s = s, !.owed = Owed(t, s)])
  /\ late' = {} /\ UNCHANGED <<record, mode, current, gpu>>

(* Sent: what was issued until now is ahead of it.                         *)
SendSynchronize(t) ==
  /\ call[t].op = "synchronize" /\ call[t].sent = 0
  /\ call' = [call EXCEPT ![t].sent = issued + 1]
  /\ late' = {} /\ UNCHANGED <<record, mode, current, gpu>>

Sent(op, s) == [Idle EXCEPT !.op = op, !.s = s, !.sent = issued + 1]

(* cuMemcpyDtoHAsync_v2, whose server waits for the stream; cuCtxSynchronize, *)
(* for the context; cuStreamDestroy_v2, which waits for nothing.           *)
SendDownload(t, s) ==
  /\ Begin(t, Sent("download", s))
  /\ late' = {} /\ UNCHANGED <<record, mode, current, gpu>>
SendCtxSynchronize(t) ==
  /\ Begin(t, [Sent("context", Default) EXCEPT !.owed = Owed(t, Default)])
  /\ late' = {} /\ UNCHANGED <<record, mode, current, gpu>>
SendDestroy(t, s) ==
  /\ s \in Streams /\ \A u \in Threads : call[u].s # s
  /\ Begin(t, Sent("destroy", s))
  /\ gone' = gone \cup {s}
  /\ late' = {} /\ UNCHANGED <<record, mode, current, work, issued>>

(* Its answer: the work it waits for has finished.  The connection may be  *)
(* given up first, and then the call fails with the work still running.    *)
Ahead(t) ==
  {w \in work : w.n < call[t].sent /\ WaitedFor(w, call[t].s, CtxOf(t, call[t].s))}
Answer(t) ==
  /\ call[t].sent # 0 /\ ~call[t].answered
  /\ \/ /\ call[t].op = "destroy" \/ Ahead(t) = {}
        /\ call' = [call EXCEPT ![t].answered = TRUE]
     \/ /\ call[t].op = "synchronize"
        /\ call' = [call EXCEPT ![t].answered = TRUE, ![t].ok = FALSE]
     \/ /\ call[t].op # "synchronize"   \* the stubs return the error at once
        /\ Return(t)
  /\ late' = {} /\ UNCHANGED <<record, mode, current, gpu>>

(* Why a call takes the mark from work that has not finished.              *)
LapseOf(t, ctx, n) ==
  CASE ~call[t].ok               -> "failed"
    [] call[t].op = "destroy"    -> "gone"
    [] ctx # CtxOf(t, call[t].s) -> "elsewhere"
    [] n >= call[t].sent         -> "raced"
    [] OTHER                     -> "none"

(* History: thread t returns, having settled the streams S.                *)
LapseAndReturn(t, S) ==
  /\ work' = {IF w.s \in S /\ w.lapse = "none"
                THEN [w EXCEPT !.lapse = LapseOf(t, w.ctx, w.n)] ELSE w : w \in work}
  /\ call' = [u \in Threads |->
       IF u = t THEN Idle
       ELSE IF call[u].op = "launch" /\ call[u].s \in S /\ call[u].lapse = "none"
       THEN [call[u] EXCEPT !.lapse = LapseOf(t, CtxOf(u, call[u].s), issued + 1)]
       ELSE call[u]]

(* What follows the answer: cuStreamSynchronize settles its stream         *)
(* whatever the answer is.                                                 *)
AfterSynchronize(t) ==
  /\ call[t].op = "synchronize" /\ call[t].answered
  /\ Settled(call[t].s)
  /\ LapseAndReturn(t, {call[t].s})
  /\ IF call[t].ok THEN NoteLate(call[t].owed) ELSE late' = {}
  /\ UNCHANGED <<mode, current, issued, gone>>
AfterStub(t) ==
  /\ call[t].op \in {"download", "destroy"} /\ call[t].answered
  /\ Settled(call[t].s)
  /\ LapseAndReturn(t, {call[t].s})
  /\ late' = {} /\ UNCHANGED <<mode, current, issued, gone>>
AfterCtxSynchronize(t) ==
  /\ call[t].op = "context" /\ call[t].answered
  /\ SettledAll
  /\ LapseAndReturn(t, {Default} \cup Streams)
  /\ NoteLate(call[t].owed)
  /\ UNCHANGED <<mode, current, issued, gone>>

-----------------------------------------------------------------------------
(* The GPU finishes the oldest work of a stream.                           *)
Finish ==
  /\ \E w \in work :
       /\ \A x \in work : x.n < w.n => x.s # w.s \/ x.ctx # w.ctx
       /\ work' = work \ {w}
  /\ late' = {} /\ UNCHANGED <<record, mode, current, call, issued, gone>>

Next ==
  \/ \E t \in Threads :
       \/ \E s \in Usable :
            \/ MarkLaunch(t, s)        \/ Upload(t, s)
            \/ SynchronizeQueued(t, s) \/ BeginSynchronize(t, s)
            \/ SendDownload(t, s)      \/ SendDestroy(t, s)
       \/ MarkSomewhere(t) \/ Issue(t) \/ Streamless(t)
       \/ SendCtxSynchronize(t) \/ SendSynchronize(t) \/ Answer(t)
       \/ AfterSynchronize(t) \/ AfterStub(t) \/ AfterCtxSynchronize(t)
  \/ Finish

Spec == Init /\ [][Next]_vars

-----------------------------------------------------------------------------
(* While work that names its stream has not finished, a synchronize that   *)
(* has to wait for it will: the record counts it, whatever the other       *)
(* threads mark and settle meanwhile.  Its mark is lost early in four ways *)
(* only: a call settled its stream that had been sent before it, that      *)
(* waited in another context, that destroyed the stream, or that failed.   *)
MarksCover ==
  \A w \in work :
    (w.kind = "gpu" /\ w.lapse = "none") =>
      ~NothingToWaitFor(w.s) /\ ~NothingToWaitFor(Default)

(* A synchronize that returned left nothing running that was issued before *)
(* it, but uploads, work whose mark was lost in one of those ways, and the *)
(* work of calls that name no stream.  RGPU_LAZY_SYNC=1 promises nothing.  *)
(* The last is not what client/pending.h 9-10 says ("a synchronize after   *)
(* anything else - a kernel, a memset, a matrix multiply - still waits"):  *)
(* cuMemsetD8_v2 names no stream, and its stub marks none.                 *)
SynchronizeWaits ==
  \A w \in late : mode = "queued" \/ w.lapse # "none"
                    \/ (w.kind = "streamless" /\ mode = "after uploads")
=============================================================================
