----------------------------- MODULE CallStream -----------------------------
(***************************************************************************)
(* The call stream of one client process: client/rpc.cpp on one side,      *)
(* accept_connection, serve_session and serve of server/main.cpp on the    *)
(* other, and the connections between them, which break.                   *)
(*                                                                         *)
(* The client works under one lock (g_mu), so it is one process here, with *)
(* a step for each wait on the network.  A connection is one attempt to    *)
(* reach the server.  A session outlives its connections and is served by  *)
(* one thread; every connection gets an accept thread, which hands it to   *)
(* the serving thread when the handshake is done.                          *)
(*                                                                         *)
(* A request is named by its position in the order the client made it; the *)
(* wire carries IdOf of that, and every comparison is made on the wire's   *)
(* ids (module ReqIds).                                                    *)
(***************************************************************************)
EXTENDS ReqIds, Sequences, FiniteSets

CONSTANTS
  Threads,      \* application threads
  Kinds,        \* the kinds of call they make, out of AllKinds
  MayFail,      \* whether a call may fail in the driver
  MayRestart,   \* whether the server may die and be started again
  UnackedCap,   \* kMaxUnackedBytes, in frames
  MaxReq,       \* bound: requests the application makes
  MaxConns,     \* bound: connections the client opens
  MaxSessions   \* bound: sessions the server makes under the client's id

(* call_async; call; and a call whose reply the client reads as state      *)
(* (reply_carries_observed_state).                                         *)
AllKinds == {"async", "call", "observe"}

ASSUME CallStreamAssumption ==
  /\ Kinds \subseteq AllKinds
  /\ MayFail \in BOOLEAN /\ MayRestart \in BOOLEAN
  /\ UnackedCap \in Nat /\ MaxReq \in Nat /\ MaxConns \in Nat
  /\ MaxSessions \in Nat
  /\ MaxReq <= Window

Reqs     == 1 .. MaxReq
Conns    == 1 .. MaxConns
Sessions == 1 .. MaxSessions
None     == 0

(* What the application is told of a request: 0 is success, m in Reqs the  *)
(* failure of request m, Unknown the client's own CUDA_ERROR_UNKNOWN.      *)
Result  == 0 .. MaxReq
Unknown == MaxReq + 1
Untold  == MaxReq + 2

VARIABLES
  fd,               \* g_fd: the connection in use, or None
  last_reply,       \* g_last_reply
  had_session,      \* g_had_session
  session_gone,     \* g_session_gone
  connect_failed,   \* g_connect_failed
  replay_possible,  \* g_replay_possible
  queued,           \* g_queued: frames not yet written
  unacked,          \* g_unacked: the replay buffer
  op,               \* where the thread holding g_mu is
  issued,           \* every request made: its thread and kind
  told              \* history: what the application was told of each
clientVars == <<fd, last_reply, had_session, session_gone, connect_failed,
                replay_possible, queued, unacked, op, issued, told>>

VARIABLES
  dialed,  \* how many connections the client has opened
  live,    \* whether a connection still carries bytes
  up,      \* frames that will reach the server and are not read yet
  down     \* replies that will reach the client and are not read yet
netVars == <<dialed, live, up, down>>

VARIABLES
  acc,     \* the accept thread of each connection
  table,   \* g_sessions: the session under the client's id, or None
  made,    \* how many sessions were made under the client's id
  sess,    \* each session: its record and where its serving thread is
  held,    \* pending_async of each client thread, per session
  ran,     \* history: the requests each session ran, in order
  failed   \* history: the requests that failed in the driver
serverVars == <<acc, table, made, sess, held, ran, failed>>

vars == <<clientVars, netVars, serverVars>>

-----------------------------------------------------------------------------
AtOrBefore(m, n) == ReqAtOrBefore(IdOf(m), IdOf(n))

NoReply(n) == issued[n].kind = "async"

(* Bytes on a connection.  "fresh" answers a handshake with resumed = 0:   *)
(* a new session, or none.                                                 *)
HelloReply(type, n) == [type |-> type, n |-> n, result |-> 0]
Response(n, result) == [type |-> "rsp", n |-> n, result |-> result]
Message == [type : {"fresh", "resumed", "busy", "rsp"}, n : 0 .. MaxReq, result : Result]

NoneKept == Response(0, 0)

Idle == [pc |-> "idle", n |-> 0, again |-> FALSE]
At(pc) == [op EXCEPT !.pc = pc]

NoHandshake == [pc |-> "none", last |-> 0, resuming |-> FALSE, s |-> None,
                resumed |-> FALSE, snap |-> 0, kept |-> NoneKept]

NoSession == [pc |-> "none", finished |-> FALSE, last_req |-> 0,
              reply |-> NoneKept, pending_fd |-> None, fd |-> None,
              cur |-> 0, result |-> 0]

Init ==
  /\ fd = None /\ last_reply = 0 /\ had_session = FALSE
  /\ session_gone = FALSE /\ connect_failed = FALSE /\ replay_possible = TRUE
  /\ queued = <<>> /\ unacked = <<>> /\ op = Idle
  /\ issued = <<>> /\ told = [n \in Reqs |-> Untold]
  /\ dialed = 0
  /\ live = [c \in Conns |-> FALSE]
  /\ up = [c \in Conns |-> <<>>] /\ down = [c \in Conns |-> <<>>]
  /\ acc = [c \in Conns |-> NoHandshake]
  /\ table = None /\ made = 0
  /\ sess = [s \in Sessions |-> NoSession]
  /\ held = [s \in Sessions |-> [t \in Threads |-> 0]]
  /\ ran = [s \in Sessions |-> <<>>] /\ failed = {}

-----------------------------------------------------------------------------
(* The client: the replay buffer.                                          *)

(* forget_acked_locked: drops frames from the front while they are at or   *)
(* before up_to.                                                           *)
ForgetAcked(frames, up_to) ==
  LET kept == {i \in 1 .. Len(frames) : ~AtOrBefore(frames[i], up_to)}
  IN  IF kept = {} THEN <<>>
      ELSE SubSeq(frames, CHOOSE i \in kept : \A j \in kept : i <= j, Len(frames))

\* Mutants of WithoutCall: the given-up call stays, or takes the frames
\* queued ahead of it along.
CallStaysToo(frames, n)     == frames
DropsFramesAhead(frames, n) == <<>>

(* The frames left when call n is given up: its own, which is the last if  *)
(* it is there at all, goes.                                               *)
WithoutCall(frames, n) ==
  IF frames # <<>> /\ frames[Len(frames)] = n
  THEN SubSeq(frames, 1, Len(frames) - 1) ELSE frames

(* abandon_call_locked, and the CUDA_ERROR_UNKNOWN that follows it.        *)
Abandon(frames) ==
  /\ unacked' = WithoutCall(frames, op.n)
  /\ last_reply' = op.n
  /\ told' = [told EXCEPT ![op.n] = Unknown]
  /\ fd' = None
  /\ op' = Idle

(* A call whose flush or whose reply failed: once, reconnect; then give up.*)
CallBroke ==
  IF ~op.again /\ replay_possible
  THEN /\ op' = [op EXCEPT !.pc = "connect", !.again = TRUE]
       /\ fd' = None
       /\ UNCHANGED <<unacked, last_reply, told>>
  ELSE Abandon(unacked)

(* A write that fails part-way: what got through stays got through.        *)
WriteFails(c, frames) ==
  \E k \in 0 .. Len(frames) - 1 :
    /\ k > 0 => live[c]
    /\ up' = [up EXCEPT ![c] = @ \o SubSeq(frames, 1, k)]
    /\ live' = [live EXCEPT ![c] = FALSE]

WriteSucceeds(c, frames) ==
  /\ up' = IF live[c] THEN [up EXCEPT ![c] = @ \o frames] ELSE up
  /\ UNCHANGED live

-----------------------------------------------------------------------------
(* The client: call and call_async up to the frame being queued.           *)

\* Mutant of MayConnect: an earlier verdict does not stop the next attempt.
MayAlwaysConnect == fd = None

(* ensure_connected_locked finds no connection, and may try for one.  When *)
(* it may not, the call fails fast and nothing changes.                    *)
MayConnect == fd = None /\ ~session_gone /\ ~connect_failed

StartConnecting ==
  /\ op.pc = "idle" /\ Len(issued) < MaxReq
  /\ MayConnect
  /\ op' = [Idle EXCEPT !.pc = "connect"]
  /\ UNCHANGED <<fd, last_reply, had_session, session_gone, connect_failed,
                 replay_possible, queued, unacked, issued, told, netVars, serverVars>>

(* queue_frame_locked.  A call waits for its reply; a call_async returns   *)
(* success at once, or first writes the queue when it has grown enough.    *)
QueueFrame(t, k) ==
  LET n    == Len(issued) + 1
      over == Len(unacked) + 1 > UnackedCap
  IN
  /\ op.pc = "queue" \/ (op.pc = "idle" /\ fd # None)
  /\ n <= MaxReq
  /\ issued' = Append(issued, [thread |-> t, kind |-> k])
  /\ queued' = Append(queued, n)
  /\ unacked' = IF ~replay_possible THEN unacked
                ELSE IF over THEN <<>> ELSE Append(unacked, n)
  /\ replay_possible' = (replay_possible /\ ~over)
  /\ \/ op' = [pc |-> "flush", n |-> n, again |-> FALSE] /\ UNCHANGED told
     \/ k = "async" /\ op' = Idle /\ told' = [told EXCEPT ![n] = 0]
  /\ UNCHANGED <<fd, last_reply, had_session, session_gone, connect_failed,
                 netVars, serverVars>>

-----------------------------------------------------------------------------
(* The client: reaching the server.  In "connect" with op.n = 0 a call has *)
(* not been queued yet and gets one attempt; with op.n # 0 it is the loop  *)
(* of reconnect_locked.                                                    *)

Dial ==
  /\ op.pc = "connect" /\ dialed < MaxConns
  /\ dialed' = dialed + 1
  /\ live' = [live EXCEPT ![dialed + 1] = TRUE]
  /\ acc' = [acc EXCEPT ![dialed + 1] =
               [NoHandshake EXCEPT !.pc = "hello", !.last = last_reply,
                                   !.resuming = had_session]]
  /\ connect_failed' = FALSE
  /\ op' = At("hello")
  /\ UNCHANGED <<fd, last_reply, had_session, session_gone, replay_possible,
                 queued, unacked, issued, told, up, down,
                 table, made, sess, held, ran, failed>>

(* An attempt that got no session: the first attempt of a call ends it,    *)
(* one of reconnect_locked's is followed by another.                       *)
AttemptFailed == op' = IF op.n = 0 THEN Idle ELSE At("connect")

Refused ==
  /\ op.pc = "connect"
  /\ connect_failed' = TRUE
  /\ AttemptFailed
  /\ UNCHANGED <<fd, last_reply, had_session, session_gone, replay_possible,
                 queued, unacked, issued, told, netVars, serverVars>>

(* RGPU_RECONNECT_SECONDS have passed.                                     *)
GiveUp ==
  /\ op.pc = "connect" /\ op.n # 0
  /\ connect_failed' = TRUE
  /\ Abandon(unacked)
  /\ UNCHANGED <<had_session, session_gone, replay_possible, queued, issued,
                 netVars, serverVars>>

HelloUnanswered ==
  /\ op.pc = "hello"
  /\ down[dialed] = <<>> /\ ~live[dialed]
  /\ connect_failed' = TRUE
  /\ AttemptFailed
  /\ UNCHANGED <<fd, last_reply, had_session, session_gone, replay_possible,
                 queued, unacked, issued, told, netVars, serverVars>>

ReadHello(type) ==
  /\ op.pc = "hello"
  /\ down[dialed] # <<>> /\ Head(down[dialed]).type = type
  /\ down' = [down EXCEPT ![dialed] = Tail(@)]

HelloBusy ==
  /\ ReadHello("busy")
  /\ connect_failed' = TRUE
  /\ live' = [live EXCEPT ![dialed] = FALSE]
  /\ AttemptFailed
  /\ UNCHANGED <<fd, last_reply, had_session, session_gone, replay_possible,
                 queued, unacked, issued, told, dialed, up, serverVars>>

(* "The server no longer has our session": final.                          *)
HelloGone ==
  /\ ReadHello("fresh") /\ had_session
  /\ session_gone' = TRUE /\ connect_failed' = TRUE
  /\ live' = [live EXCEPT ![dialed] = FALSE]
  /\ queued' = <<>>
  /\ IF op.n = 0
     THEN /\ unacked' = <<>> /\ op' = Idle
          /\ UNCHANGED <<fd, last_reply, told>>
     ELSE Abandon(<<>>)
  /\ UNCHANGED <<had_session, replay_possible, issued, dialed, up, serverVars>>

Connected == op' = IF op.n = 0 THEN At("queue") ELSE At("flush")

HelloStarted ==
  /\ ReadHello("fresh") /\ ~had_session
  /\ fd' = dialed /\ had_session' = TRUE
  /\ Connected
  /\ UNCHANGED <<last_reply, session_gone, connect_failed, replay_possible,
                 queued, unacked, issued, told, dialed, live, up, serverVars>>

(* Resumed: everything the server has not done is sent again, from the     *)
(* replay buffer and only from there.                                      *)
HelloResumed ==
  /\ ReadHello("resumed")
  /\ LET rest == ForgetAcked(unacked, Head(down[dialed]).n)
     IN /\ unacked' = rest
        /\ \/ /\ WriteSucceeds(dialed, rest)
              /\ fd' = dialed
              /\ Connected
           \/ /\ rest # <<>>
              /\ WriteFails(dialed, rest)
              /\ AttemptFailed
              /\ UNCHANGED fd
  /\ had_session' = TRUE
  /\ queued' = <<>>
  /\ UNCHANGED <<last_reply, session_gone, connect_failed, replay_possible,
                 issued, told, dialed, serverVars>>

-----------------------------------------------------------------------------
(* The client: flush_locked and the reply.                                 *)

Flush ==
  /\ op.pc = "flush"
  /\ WriteSucceeds(fd, queued)
  /\ queued' = <<>>
  /\ IF NoReply(op.n)
     THEN op' = Idle /\ told' = [told EXCEPT ![op.n] = 0]
     ELSE op' = At("recv") /\ UNCHANGED told
  /\ UNCHANGED <<fd, last_reply, had_session, session_gone, connect_failed,
                 replay_possible, unacked, issued, dialed, down, serverVars>>

(* A call_async whose flush fails returns CUDA_ERROR_UNKNOWN, and its      *)
(* frame stays in the replay buffer.                                       *)
FlushFails ==
  /\ op.pc = "flush" /\ queued # <<>>
  /\ WriteFails(fd, queued)
  /\ queued' = <<>>
  /\ IF NoReply(op.n)
     THEN /\ fd' = None /\ op' = Idle
          /\ told' = [told EXCEPT ![op.n] = Unknown]
          /\ UNCHANGED <<unacked, last_reply>>
     ELSE CallBroke
  /\ UNCHANGED <<had_session, session_gone, connect_failed, replay_possible,
                 issued, dialed, down, serverVars>>

(* A reply under another id means the stream desynced: dropped, given up.  *)
RecvReply ==
  /\ op.pc = "recv" /\ down[fd] # <<>>
  /\ down' = [down EXCEPT ![fd] = Tail(@)]
  /\ LET rsp == Head(down[fd])
     IN IF rsp.type = "rsp" /\ rsp.n = op.n
        THEN /\ told' = [told EXCEPT ![op.n] = rsp.result]
             /\ last_reply' = op.n
             /\ unacked' = ForgetAcked(unacked, op.n)
             /\ op' = Idle
             /\ UNCHANGED <<fd, live>>
        ELSE Abandon(unacked) /\ live' = [live EXCEPT ![fd] = FALSE]
  /\ UNCHANGED <<had_session, session_gone, connect_failed, replay_possible,
                 queued, issued, dialed, up, serverVars>>

RecvFails ==
  /\ op.pc = "recv" /\ down[fd] = <<>> /\ ~live[fd]
  /\ CallBroke
  /\ UNCHANGED <<had_session, session_gone, connect_failed, replay_possible,
                 queued, issued, netVars, serverVars>>

-----------------------------------------------------------------------------
(* The network: a connection breaks, and only a prefix of what was written *)
(* each way still arrives.                                                 *)
Break(c) ==
  /\ live[c]
  /\ live' = [live EXCEPT ![c] = FALSE]
  /\ \E i \in 0 .. Len(up[c]), j \in 0 .. Len(down[c]) :
       /\ up' = [up EXCEPT ![c] = SubSeq(@, 1, i)]
       /\ down' = [down EXCEPT ![c] = SubSeq(@, 1, j)]
  /\ UNCHANGED <<dialed, clientVars, serverVars>>

-----------------------------------------------------------------------------
(* The server: the accept thread of connection c (accept_connection).      *)

(* A write by the server; on a connection that is gone it may seem to      *)
(* succeed all the same.                                                   *)
Write(c, msgs) ==
  down' = IF live[c] THEN [down EXCEPT ![c] = @ \o msgs] ELSE down

Close(c) == live' = [live EXCEPT ![c] = FALSE]

HandshakeDone(c) == acc' = [acc EXCEPT ![c].pc = "done"]

\* Mutant of Starting: the kHelloResuming flag is not looked at.
StartingByReplyOnly(c) == acc[c].last = 0

(* A client starting afresh has had no reply and no session.               *)
Starting(c) == acc[c].last = 0 /\ ~acc[c].resuming

InTable == table # None /\ ~sess[table].finished

HelloNeverArrives(c) ==
  /\ acc[c].pc = "hello" /\ ~live[c]
  /\ HandshakeDone(c)
  /\ UNCHANGED <<clientVars, netVars, table, made, sess, held, ran, failed>>

FindSession(c) ==
  /\ acc[c].pc = "hello" /\ InTable
  /\ acc' = [acc EXCEPT ![c].pc = "snapshot", ![c].s = table, ![c].resumed = TRUE]
  /\ UNCHANGED <<clientVars, netVars, table, made, sess, held, ran, failed>>

StartSession(c) ==
  /\ acc[c].pc = "hello" /\ ~InTable /\ Starting(c)
  /\ made < MaxSessions
  /\ made' = made + 1 /\ table' = made + 1
  /\ sess' = [sess EXCEPT ![made + 1].pc = "starting"]
  /\ acc' = [acc EXCEPT ![c].pc = "snapshot", ![c].s = made + 1]
  /\ UNCHANGED <<clientVars, netVars, held, ran, failed>>

(* session_refused: the sessions of other clients fill the table.          *)
RefuseSession(c) ==
  /\ acc[c].pc = "hello" /\ table = None /\ Starting(c)
  /\ Write(c, <<HelloReply("busy", 0)>>)
  /\ Close(c)
  /\ HandshakeDone(c)
  /\ UNCHANGED <<clientVars, dialed, up, table, made, sess, held, ran, failed>>

(* session_gone.                                                           *)
TellGone(c) ==
  /\ acc[c].pc = "hello" /\ ~InTable /\ ~Starting(c)
  /\ Write(c, <<HelloReply("fresh", 0)>>)
  /\ Close(c)
  /\ HandshakeDone(c)
  /\ UNCHANGED <<clientVars, dialed, up, table, made, sess, held, ran, failed>>

\* Mutant of Unanswered: the kept reply is resent whatever the client has had.
AlwaysUnanswered(c, r) == acc[c].resumed /\ r.n # 0

(* Whether the reply kept by the session is one this client has not had.   *)
Unanswered(c, r) ==
  acc[c].resumed /\ r.n # 0 /\ ~AtOrBefore(r.n, acc[c].last)

(* What the session has completed, and the kept reply, read together.      *)
Snapshot(c) ==
  /\ acc[c].pc = "snapshot"
  /\ LET S == sess[acc[c].s]
     IN acc' = [acc EXCEPT ![c].pc = "reply", ![c].snap = S.last_req,
                           ![c].kept = IF Unanswered(c, S.reply)
                                       THEN S.reply ELSE NoneKept]
  /\ UNCHANGED <<clientVars, netVars, table, made, sess, held, ran, failed>>

AfterReply(c) ==
  IF ~acc[c].resumed THEN "start"
  ELSE IF acc[c].kept.n # 0 THEN "resend" ELSE "handover"

WriteHello(c) ==
  /\ acc[c].pc = "reply"
  /\ Write(c, <<HelloReply(IF acc[c].resumed THEN "resumed" ELSE "fresh", acc[c].snap)>>)
  /\ acc' = [acc EXCEPT ![c].pc = AfterReply(c)]
  /\ UNCHANGED <<clientVars, dialed, live, up, table, made, sess, held, ran, failed>>

(* The write fails; a session just made is forgotten (forget_unserved).    *)
WriteHelloFails(c) ==
  /\ acc[c].pc = "reply" /\ ~live[c]
  /\ HandshakeDone(c)
  /\ IF acc[c].resumed THEN UNCHANGED <<table, sess, live>>
     ELSE LET s == acc[c].s
              p == sess[s].pending_fd
          IN /\ table' = IF table = s THEN None ELSE table
             /\ sess' = [sess EXCEPT ![s].finished = TRUE, ![s].pc = "dead",
                                     ![s].pending_fd = None]
             /\ live' = IF p = None THEN live ELSE [live EXCEPT ![p] = FALSE]
  /\ UNCHANGED <<clientVars, dialed, up, down, made, held, ran, failed>>

ResendKept(c) ==
  /\ acc[c].pc = "resend"
  /\ \/ /\ Write(c, <<acc[c].kept>>)
        /\ acc' = [acc EXCEPT ![c].pc = "handover"]
     \/ /\ ~live[c]
        /\ HandshakeDone(c)
        /\ UNCHANGED down
  /\ UNCHANGED <<clientVars, dialed, live, up, table, made, sess, held, ran, failed>>

(* Puts c in the session's hands, closing a connection still waiting there.*)
Pend(s, c, pc) ==
  /\ sess' = [sess EXCEPT ![s].pending_fd = c, ![s].pc = pc]
  /\ live' = IF sess[s].pending_fd = None THEN live
             ELSE [live EXCEPT ![sess[s].pending_fd] = FALSE]

\* Mutant of HandOver: the session is not looked at again under the lock.
HandOverUnchecked(c) ==
  /\ acc[c].pc = "handover"
  /\ HandshakeDone(c)
  /\ Pend(acc[c].s, c, sess[acc[c].s].pc)
  /\ UNCHANGED <<clientVars, dialed, up, down, table, made, held, ran, failed>>

(* The session may have finished since it was found, so it is looked at    *)
(* again in the hold of its lock that hands the connection over.           *)
HandOver(c) ==
  /\ acc[c].pc = "handover"
  /\ HandshakeDone(c)
  /\ LET s == acc[c].s
     IN IF sess[s].finished THEN Close(c) /\ UNCHANGED sess
        ELSE Pend(s, c, sess[s].pc)
  /\ UNCHANGED <<clientVars, dialed, up, down, table, made, held, ran, failed>>

(* A new session gets its first connection, and then its thread.           *)
StartServing(c) ==
  /\ acc[c].pc = "start"
  /\ HandshakeDone(c)
  /\ Pend(acc[c].s, c, "waiting")
  /\ UNCHANGED <<clientVars, dialed, up, down, table, made, held, ran, failed>>

-----------------------------------------------------------------------------
(* The server: the thread serving session s (serve_session and serve).     *)

\* Mutant of TakeUp: the descriptor is cleared before it is copied.
TakeUpNothing(s) ==
  /\ sess[s].pc = "waiting" /\ sess[s].pending_fd # None
  /\ sess' = [sess EXCEPT ![s].pc = "reading", ![s].fd = None, ![s].pending_fd = None]
  /\ UNCHANGED <<clientVars, netVars, acc, table, made, held, ran, failed>>

TakeUp(s) ==
  /\ sess[s].pc = "waiting" /\ sess[s].pending_fd # None
  /\ sess' = [sess EXCEPT ![s].pc = "reading", ![s].fd = sess[s].pending_fd,
                          ![s].pending_fd = None]
  /\ UNCHANGED <<clientVars, netVars, acc, table, made, held, ran, failed>>

(* Nobody came back within the grace period.                               *)
Expire(s) ==
  /\ sess[s].pc = "waiting" /\ sess[s].pending_fd = None
  /\ sess' = [sess EXCEPT ![s].pc = "ended", ![s].finished = TRUE]
  /\ UNCHANGED <<clientVars, netVars, acc, table, made, held, ran, failed>>

(* Its entry goes, if it is still its entry; then everything it held.      *)
Leave(s) ==
  /\ sess[s].pc = "ended"
  /\ sess' = [sess EXCEPT ![s].pc = "dead"]
  /\ table' = IF table = s THEN None ELSE table
  /\ held' = [held EXCEPT ![s] = [t \in Threads |-> 0]]
  /\ UNCHANGED <<clientVars, netVars, acc, made, ran, failed>>

Reading(s) == sess[s].pc = "reading" /\ up[sess[s].fd] # <<>>
Next1(s)   == Head(up[sess[s].fd])
Consume(s) == up' = [up EXCEPT ![sess[s].fd] = Tail(@)]

(* serve returns: the connection is closed, and whatever was left on it is *)
(* never read.                                                             *)
Hangup(s) ==
  /\ sess' = [sess EXCEPT ![s].pc = "waiting", ![s].fd = None]
  /\ live' = [live EXCEPT ![sess[s].fd] = FALSE]

\* Mutant of AlreadyRan: off by one, the last request itself is not a copy.
RanBeforeTheLast(s, n) == n # sess[s].last_req /\ AtOrBefore(n, sess[s].last_req)

(* "At most once": the check of serve, made before anything else.          *)
AlreadyRan(s, n) == AtOrBefore(n, sess[s].last_req)

(* A copy of a request that ran is answered, if the reply kept is its own; *)
(* otherwise it is skipped.  Nothing of the session changes.               *)
AnswerCopy(s) ==
  /\ Reading(s)
  /\ LET n == Next1(s)
     IN /\ AlreadyRan(s, n)
        /\ ~NoReply(n) /\ n = sess[s].reply.n
  /\ \/ /\ Write(sess[s].fd, <<sess[s].reply>>)
        /\ Consume(s)
        /\ UNCHANGED <<sess, live>>
     \/ /\ ~live[sess[s].fd]
        /\ Hangup(s)
        /\ up' = [up EXCEPT ![sess[s].fd] = <<>>]
        /\ UNCHANGED down
  /\ UNCHANGED <<clientVars, dialed, acc, table, made, held, ran, failed>>

SkipCopy(s) ==
  /\ Reading(s)
  /\ LET n == Next1(s)
     IN /\ AlreadyRan(s, n)
        /\ NoReply(n) \/ n # sess[s].reply.n
  /\ Consume(s)
  /\ UNCHANGED <<clientVars, dialed, live, down, serverVars>>

TakeRequest(s) ==
  /\ Reading(s) /\ ~AlreadyRan(s, Next1(s))
  /\ Consume(s)
  /\ sess' = [sess EXCEPT ![s].pc = "run", ![s].cur = Next1(s)]
  /\ UNCHANGED <<clientVars, dialed, live, down, acc, table, made, held, ran, failed>>

(* The driver does it.  Not recorded yet: a handshake may look now.        *)
Run(s) ==
  /\ sess[s].pc = "run"
  /\ ran' = [ran EXCEPT ![s] = Append(@, sess[s].cur)]
  /\ \E fails \in {FALSE, MayFail} :
       /\ failed' = IF fails THEN failed \union {sess[s].cur} ELSE failed
       /\ sess' = [sess EXCEPT ![s].pc = "record",
                               ![s].result = IF fails THEN sess[s].cur ELSE 0]
  /\ UNCHANGED <<clientVars, netVars, acc, table, made, held>>

(* Completed, and its failure held for its thread, in one step.            *)
RecordAsync(s) ==
  LET S == sess[s]
      t == issued[S.cur].thread
  IN
  /\ S.pc = "record" /\ NoReply(S.cur)
  /\ held' = IF S.result # 0 /\ held[s][t] = 0
             THEN [held EXCEPT ![s][t] = S.result] ELSE held
  /\ sess' = [sess EXCEPT ![s].pc = "reading", ![s].last_req = S.cur,
                          ![s].cur = 0, ![s].result = 0]
  /\ UNCHANGED <<clientVars, netVars, acc, table, made, ran, failed>>

\* Mutant of Folds: an older failure replaces the call's own.
FoldsOverOwnFailure(s, t) ==
  held[s][t] # 0 /\ issued[sess[s].cur].kind # "observe"

(* Whether the failure held for thread t rides on the reply to cur.        *)
Folds(s, t) ==
  /\ sess[s].result = 0 /\ held[s][t] # 0
  /\ issued[sess[s].cur].kind # "observe"

\* Mutants of HeldAfterReply.
HeldForEver(s, t)    == held
HeldIsDropped(s, t)  == [held EXCEPT ![s][t] = 0]

HeldAfterReply(s, t) ==
  IF Folds(s, t) THEN [held EXCEPT ![s][t] = 0] ELSE held

(* Completed, and its reply kept, in one step.                             *)
RecordCall(s) ==
  LET S == sess[s]
      t == issued[S.cur].thread
      r == IF Folds(s, t) THEN held[s][t] ELSE S.result
  IN
  /\ S.pc = "record" /\ ~NoReply(S.cur)
  /\ held' = HeldAfterReply(s, t)
  /\ sess' = [sess EXCEPT ![s].pc = "send", ![s].last_req = S.cur,
                          ![s].reply = Response(S.cur, r),
                          ![s].cur = 0, ![s].result = 0]
  /\ UNCHANGED <<clientVars, netVars, acc, table, made, ran, failed>>

SendReply(s) ==
  /\ sess[s].pc = "send"
  /\ \/ /\ Write(sess[s].fd, <<sess[s].reply>>)
        /\ sess' = [sess EXCEPT ![s].pc = "reading"]
        /\ UNCHANGED <<live, up>>
     \/ /\ ~live[sess[s].fd]
        /\ Hangup(s)
        /\ up' = [up EXCEPT ![sess[s].fd] = <<>>]
        /\ UNCHANGED down
  /\ UNCHANGED <<clientVars, dialed, acc, table, made, held, ran, failed>>

(* Nothing more will arrive on the connection.                             *)
EndConnection(s) ==
  /\ sess[s].pc = "reading"
  /\ up[sess[s].fd] = <<>> /\ ~live[sess[s].fd]
  /\ Hangup(s)
  /\ UNCHANGED <<clientVars, dialed, up, down, acc, table, made, held, ran, failed>>

-----------------------------------------------------------------------------
(* The server process dies and is started again: its sessions, its threads *)
(* and its connections are gone.                                           *)
Restart ==
  /\ MayRestart
  /\ \E s \in Sessions : sess[s].pc \notin {"none", "dead"}
  /\ live' = [c \in Conns |-> FALSE]
  /\ up' = [c \in Conns |-> <<>>]
  /\ acc' = [c \in Conns |->
               IF acc[c].pc = "none" THEN acc[c] ELSE [acc[c] EXCEPT !.pc = "done"]]
  /\ table' = None
  /\ sess' = [s \in Sessions |->
                IF sess[s].pc = "none" THEN sess[s]
                ELSE [NoSession EXCEPT !.pc = "dead", !.finished = TRUE]]
  /\ held' = [s \in Sessions |-> [t \in Threads |-> 0]]
  /\ UNCHANGED <<clientVars, dialed, down, made, ran, failed>>

-----------------------------------------------------------------------------
Client ==
  \/ StartConnecting
  \/ \E t \in Threads, k \in Kinds : QueueFrame(t, k)
  \/ Dial \/ Refused \/ GiveUp
  \/ HelloUnanswered \/ HelloBusy \/ HelloGone \/ HelloStarted \/ HelloResumed
  \/ Flush \/ FlushFails
  \/ RecvReply \/ RecvFails

Accept(c) ==
  \/ HelloNeverArrives(c) \/ FindSession(c) \/ StartSession(c)
  \/ RefuseSession(c) \/ TellGone(c)
  \/ Snapshot(c) \/ WriteHello(c) \/ WriteHelloFails(c) \/ ResendKept(c)
  \/ HandOver(c) \/ StartServing(c)

Serve(s) ==
  \/ TakeUp(s) \/ Expire(s) \/ Leave(s)
  \/ AnswerCopy(s) \/ SkipCopy(s) \/ TakeRequest(s)
  \/ Run(s) \/ RecordAsync(s) \/ RecordCall(s) \/ SendReply(s)
  \/ EndConnection(s)

Next ==
  \/ Client
  \/ \E c \in Conns : Accept(c) \/ Break(c)
  \/ \E s \in Sessions : Serve(s)
  \/ Restart

Spec == Init /\ [][Next]_vars

(* What the two programs do by themselves: a client inside a call goes on, *)
(* giving up when its time is over, and the server's threads run.  Nothing *)
(* makes a new call, breaks a connection or ends a session.                *)
Fairness ==
  /\ WF_vars(Dial) /\ WF_vars(GiveUp)
  /\ WF_vars(op.n = 0 /\ Refused)
  /\ WF_vars(\E t \in Threads, k \in Kinds : op.pc = "queue" /\ QueueFrame(t, k))
  /\ WF_vars(HelloUnanswered \/ HelloBusy \/ HelloGone \/ HelloStarted \/ HelloResumed)
  /\ WF_vars(Flush) /\ WF_vars(RecvReply \/ RecvFails)
  /\ \A c \in Conns : WF_vars(Accept(c))
  /\ \A s \in Sessions :
       WF_vars(TakeUp(s) \/ AnswerCopy(s) \/ SkipCopy(s) \/ TakeRequest(s) \/ Run(s)
               \/ RecordAsync(s) \/ RecordCall(s) \/ SendReply(s) \/ EndConnection(s))

FairSpec == Spec /\ Fairness

-----------------------------------------------------------------------------
(* Type invariant.                                                         *)

HandshakePcs == {"none", "hello", "snapshot", "reply", "resend", "handover", "start", "done"}
ServePcs == {"none", "starting", "waiting", "reading", "run", "record", "send",
             "ended", "dead"}
Serving == {"reading", "run", "record", "send"}
Replies == [type : {"rsp"}, n : 0 .. MaxReq, result : Result]

Made    == 1 .. Len(issued)
CallRec == [thread : Threads, kind : Kinds]
OpRec   == [pc : {"idle", "connect", "hello", "queue", "flush", "recv"},
            n : 0 .. MaxReq, again : BOOLEAN]
AcceptRec == [pc : HandshakePcs, last : 0 .. MaxReq, resuming : BOOLEAN,
              s : 0 .. MaxSessions, resumed : BOOLEAN, snap : 0 .. MaxReq,
              kept : Replies]
SessionRec == [pc : ServePcs, finished : BOOLEAN, last_req : 0 .. MaxReq,
               reply : Replies, pending_fd : 0 .. MaxConns, fd : 0 .. MaxConns,
               cur : 0 .. MaxReq, result : Result]

ClientTypeOK ==
  /\ fd \in 0 .. MaxConns /\ last_reply \in 0 .. MaxReq
  /\ had_session \in BOOLEAN /\ session_gone \in BOOLEAN
  /\ connect_failed \in BOOLEAN /\ replay_possible \in BOOLEAN
  /\ queued \in Seq(Made) /\ unacked \in Seq(Made)
  /\ op \in OpRec
  /\ issued \in Seq(CallRec) /\ Len(issued) <= MaxReq
  /\ told \in [Reqs -> 0 .. Untold]
  \* A thread that waits on a connection has it, and the call it makes.
  /\ op.pc = "hello" => dialed # None
  /\ op.pc \in {"queue", "flush", "recv"} => fd # None
  /\ op.pc \in {"flush", "recv"} => op.n # 0
  /\ op.n <= Len(issued)

NetTypeOK ==
  /\ dialed \in 0 .. MaxConns
  /\ live \in [Conns -> BOOLEAN]
  /\ up \in [Conns -> Seq(Made)]
  /\ down \in [Conns -> Seq(Message)]

ServerTypeOK ==
  /\ acc \in [Conns -> AcceptRec]
  /\ table \in 0 .. MaxSessions /\ made \in 0 .. MaxSessions
  /\ sess \in [Sessions -> SessionRec]
  /\ held \in [Sessions -> [Threads -> Result]]
  /\ ran \in [Sessions -> Seq(Reqs)] /\ failed \subseteq Reqs
  \* A handshake that found a session has it; a thread that serves has its
  \* connection, and in its hands a request that the client made.
  /\ \A c \in Conns : acc[c].pc \notin {"none", "hello", "done"} => acc[c].s # None
  /\ \A s \in Sessions :
       /\ sess[s].pc \in Serving => sess[s].fd # None
       /\ sess[s].pc \in {"run", "record"} => sess[s].cur \in Made

(* Every frame, in the client, on a connection or in the hands of the      *)
(* server, is one the client made: Made, not Reqs.                         *)
TypeOK == ClientTypeOK /\ NetTypeOK /\ ServerTypeOK

-----------------------------------------------------------------------------
(* Safety.                                                                 *)

Elems(seq) == {seq[i] : i \in DOMAIN seq}
RanAnywhere == UNION {Elems(ran[s]) : s \in Sessions}
IsCall(n) == ~NoReply(n)

(* A session runs requests in the order the application made them, each at *)
(* most once, through every reconnect, replay and late connection: the     *)
(* at-most-once check of serve.                                            *)
InOrder(seq) == \A i, j \in DOMAIN seq : i < j => seq[i] < seq[j]
RunsInOrder  == \A s \in Sessions : InOrder(ran[s])

(* Why RunsInOrder is inductive.  A session that is not yet served has run *)
(* nothing, has one accept thread that will start serving it, and so gets  *)
(* one serving thread; that thread has run nothing past last_req but the   *)
(* request in its hands.                                                   *)
Founding(c) == acc[c].pc \in {"snapshot", "reply", "start"} /\ ~acc[c].resumed

AcceptInv ==
  /\ table <= made
  /\ \A c \in Conns :
       /\ acc[c].pc \notin {"none", "hello", "done"} => acc[c].s \in 1 .. made
       /\ acc[c].pc = "start" => ~acc[c].resumed
       /\ Founding(c) => sess[acc[c].s].pc = "starting"
  /\ \A c, d \in Conns : Founding(c) /\ Founding(d) /\ acc[c].s = acc[d].s => c = d

SessionInv(s) ==
  /\ s > made => sess[s].pc = "none"
  /\ sess[s].pc \in {"none", "starting"} => ran[s] = <<>>
  /\ sess[s].pc \in {"run", "record"} => sess[s].last_req < sess[s].cur
  /\ sess[s].pc \notin {"record", "dead"} =>
       \A i \in DOMAIN ran[s] : ran[s][i] <= sess[s].last_req
  /\ sess[s].pc = "record" => \A i \in DOMAIN ran[s] : ran[s][i] <= sess[s].cur
  /\ InOrder(ran[s])

OrderInv == AcceptInv /\ \A s \in Sessions : SessionInv(s)

(* All of a client's requests run in one session: none is replayed into an *)
(* empty session made for a client that was coming back to another.        *)
OneSession == \A s, t \in Sessions : ran[s] # <<>> /\ ran[t] # <<>> => s = t

(* When a request runs, every earlier one has run, unless it is a call the *)
(* application was told failed: nothing the application believes is done   *)
(* or queued is skipped.  Promised only while the replay buffer has never  *)
(* overflowed.                                                             *)
NothingSkipped ==
  \A s \in Sessions : \A n \in Elems(ran[s]) : \A m \in 1 .. n - 1 :
    m \in Elems(ran[s]) \/ (IsCall(m) /\ told[m] = Unknown)
NothingSkippedWhileReplayable == replay_possible => NothingSkipped

(* The client never reads a reply that is not for the call that waits: the *)
(* kept reply resent by the handshake and the answer to a copy never both  *)
(* arrive, and never for a call given up.                                  *)
RepliesMatch ==
  op.pc = "recv" /\ down[fd] # <<>> =>
    Head(down[fd]).type = "rsp" /\ Head(down[fd]).n = op.n

(* A call the client gave up is out of the replay buffer and the queue: it *)
(* is not sent again behind the application's back (abandon_call_locked).  *)
GivenUpIsNotSentAgain ==
  \A n \in Elems(unacked) \union Elems(queued) : IsCall(n) => told[n] = Untold

(* What the application is told is true: success only if the call ran and  *)
(* did not fail, its own failure only if it failed, and another request's  *)
(* only if that one is an earlier call_async of the same thread that ran   *)
(* and failed.                                                             *)
AnswersAreTrue ==
  \A n \in Made : IsCall(n) /\ told[n] \in Result =>
    /\ n \in RanAnywhere
    /\ told[n] \in {0, n} => (told[n] = n <=> n \in failed)
    /\ told[n] \notin {0, n} =>
         /\ n \notin failed
         /\ NoReply(told[n]) /\ told[n] < n /\ told[n] \in failed
         /\ issued[told[n]].thread = issued[n].thread
         /\ issued[n].kind # "observe"

(* A failure that had no reply of its own is reported to one call only.    *)
ReportedOnce ==
  \A n, m \in Made :
    n # m /\ IsCall(n) /\ IsCall(m) /\ told[n] = told[m] => told[n] \in {0, Unknown, Untold}

(* A call that may carry a failure and is told of success means that no    *)
(* earlier call_async of its thread failed unreported: the failure, or one *)
(* held before it, was given to a call in between, or went down with one.  *)
NoFailureForgotten ==
  \A n \in Made : issued[n].kind = "call" /\ told[n] = 0 =>
    \A m \in 1 .. n - 1 :
      NoReply(m) /\ m \in failed /\ issued[m].thread = issued[n].thread =>
        \E k \in m + 1 .. n - 1 :
          /\ IsCall(k) /\ issued[k].thread = issued[n].thread
          /\ told[k] \notin {0, k}

(* Once the client knows its session is gone, nothing of it runs any more  *)
(* and the client opens no connection: "final" (ensure_connected_locked).  *)
GoneIsFinal == [][session_gone => ran' = ran /\ dialed' = dialed /\ session_gone']_vars

(* What abandon_call_locked says of the replay buffer (client/rpc.cpp,     *)
(* lines 247-249): the frames that stay in it to be sent again are of      *)
(* "calls sent without a reply, which the application was told succeeded". *)
WhatIsSentAgainSucceeded ==
  \A n \in Elems(unacked) \union Elems(queued) : told[n] # Unknown

(* A call always returns: no reply is waited for on a connection that no   *)
(* thread will read, whatever the order of the hand-overs.                 *)
CallsReturn == op.pc # "idle" ~> op.pc = "idle"
=============================================================================
