-------------------------- MODULE CallStreamProofs ---------------------------
(***************************************************************************)
(* The call stream, for any number of requests, connections, sessions and  *)
(* servers.  First type correctness; then that a session runs requests in  *)
(* the order the client made them, each at most once; then what the client *)
(* may rely on: its requests run in one session, a session it knows to be  *)
(* gone does nothing more, a call it gave up is not sent again, and the    *)
(* reply it reads is the one it waits for.                                 *)
(***************************************************************************)
EXTENDS CallStream, TLAPS, SequenceTheorems, WellFoundedInduction

-----------------------------------------------------------------------------
(* Type correctness: one lemma per process, one step per action.  The      *)
(* lemmas before them say what the operators the actions share do to the   *)
(* types: the replay buffer, a write in each direction, a call that breaks,*)
(* a handshake that moves on, a session's record.                          *)

(* forget_acked_locked leaves the frames from the first one that is past   *)
(* up_to on.                                                               *)
LEMMA ForgetAckedIsRest ==
  ASSUME NEW frames, Len(frames) \in Nat, NEW up_to
  PROVE  \/ /\ ForgetAcked(frames, up_to) = <<>>
            /\ \A i \in 1 .. Len(frames) : AtOrBefore(frames[i], up_to)
         \/ \E first \in 1 .. Len(frames) :
              /\ ForgetAcked(frames, up_to) = SubSeq(frames, first, Len(frames))
              /\ ~AtOrBefore(frames[first], up_to)
              /\ \A i \in 1 .. Len(frames) : ~AtOrBefore(frames[i], up_to) => first <= i
<1> DEFINE kept == {i \in 1 .. Len(frames) : ~AtOrBefore(frames[i], up_to)}
           first == CHOOSE i \in kept : \A j \in kept : i <= j
<1>1. CASE kept = {}
  BY <1>1 DEF ForgetAcked
<1>2. CASE kept # {}
  <2>1. \E i \in kept : \A j \in kept : i <= j
    <3>1. kept \subseteq Nat
      OBVIOUS
    <3>2. PICK i \in kept : \A j \in kept : <<j, i>> \notin OpToRel(<, Nat)
      BY <3>1, <1>2, NatLessThanWellFounded, WFMin
    <3>3. ASSUME NEW j \in kept PROVE i <= j
      <4>1. i \in Nat /\ j \in Nat
        BY <3>1
      <4>2. <<j, i>> \notin {ss \in Nat \X Nat : ss[1] < ss[2]}
        BY <3>2 DEF OpToRel
      <4>3. QED
        BY <4>1, <4>2
    <3> HIDE DEF kept
    <3>4. QED
      BY <3>3
  <2>2. first \in kept /\ \A j \in kept : first <= j
    BY <2>1
  <2>3. ForgetAcked(frames, up_to) = SubSeq(frames, first, Len(frames))
    BY <1>2 DEF ForgetAcked
  <2> HIDE DEF first
  <2>4. QED
    BY <2>2, <2>3
<1>3. QED
  BY <1>1, <1>2

(* They are only frames that were there.                                   *)
LEMMA ForgetAckedIsSuffix ==
  ASSUME NEW S, NEW frames \in Seq(S), NEW up_to
  PROVE  ForgetAcked(frames, up_to) \in Seq(S)
<1>1. Len(frames) \in Nat
  BY LenProperties
<1>2. CASE ForgetAcked(frames, up_to) = <<>>
  BY <1>2
<1>3. CASE \E first \in 1 .. Len(frames) :
             ForgetAcked(frames, up_to) = SubSeq(frames, first, Len(frames))
  BY <1>1, <1>3
<1>4. QED
  BY <1>1, <1>2, <1>3, ForgetAckedIsRest

(* Giving a call up, or writing part of the queue, leaves a prefix.        *)
LEMMA WithoutCallType ==
  ASSUME NEW S, NEW frames \in Seq(S), NEW n
  PROVE  WithoutCall(frames, n) \in Seq(S)
  BY DEF WithoutCall
-----------------------------------------------------------------------------
(* Type correctness, one lemma per process.  Each step first says which    *)
(* of the three groups of variables it leaves alone.                       *)

(* The bounds are natural numbers.                                         *)
LEMMA Bounds == MaxReq \in Nat /\ MaxConns \in Nat /\ MaxSessions \in Nat
  BY CallStreamAssumption

(* The initial states are well typed.                                      *)
LEMMA TypeInit == Init => TypeOK
<1> SUFFICES ASSUME Init PROVE TypeOK
  OBVIOUS
<1> USE Bounds DEF Init, Reqs, Conns, Sessions, None, Result
<1>1. ClientTypeOK
  <2>1. op \in OpRec /\ op.pc = "idle" /\ op.n <= Len(issued)
    BY DEF Idle, OpRec
  <2>2. told \in [Reqs -> 0 .. Untold]
    BY DEF Untold
  <2>3. issued \in Seq(CallRec) /\ queued \in Seq(Made) /\ unacked \in Seq(Made)
    OBVIOUS
  <2>4. fd \in 0 .. MaxConns /\ last_reply \in 0 .. MaxReq /\ Len(issued) <= MaxReq
    OBVIOUS
  <2>5. /\ had_session \in BOOLEAN /\ session_gone \in BOOLEAN
        /\ connect_failed \in BOOLEAN /\ replay_possible \in BOOLEAN
    OBVIOUS
  <2>6. QED
    BY <2>1, <2>2, <2>3, <2>4, <2>5 DEF ClientTypeOK
<1>2. NetTypeOK
  BY DEF NetTypeOK
<1>3. ServerTypeOK
  BY DEF ServerTypeOK, AcceptRec, SessionRec, NoHandshake, NoSession, NoneKept,
         Response, Replies, HandshakePcs, ServePcs, Serving
<1>4. QED
  BY <1>1, <1>2, <1>3 DEF TypeOK

(* The client and its connection count as they were: still well typed.     *)
LEMMA ClientSame ==
  ASSUME ClientTypeOK, UNCHANGED clientVars, dialed' = dialed PROVE ClientTypeOK'
  BY DEF ClientTypeOK, clientVars, Made

(* The network as it was, and no new request: still well typed.            *)
LEMMA NetSame ==
  ASSUME NetTypeOK, UNCHANGED netVars, issued' = issued PROVE NetTypeOK'
  BY DEF NetTypeOK, netVars, Made

(* The server as it was, and no new request: still well typed.             *)
LEMMA ServerSame ==
  ASSUME ServerTypeOK, UNCHANGED serverVars, issued' = issued PROVE ServerTypeOK'
  BY DEF ServerTypeOK, serverVars, Made

(* Where the client may be next. *)
LEMMA OpType ==
  /\ Idle \in OpRec /\ Idle.pc = "idle" /\ Idle.n = 0
  /\ \A o \in OpRec, p \in {"connect", "hello", "queue", "flush", "recv"} :
       /\ [o EXCEPT !.pc = p] \in OpRec
       /\ [o EXCEPT !.pc = p].pc = p /\ [o EXCEPT !.pc = p].n = o.n
  BY Bounds DEF OpRec, Idle

(* queue_frame_locked makes a request: Made grows under every frame.       *)
LEMMA TypeQueueFrame ==
  ASSUME TypeOK, NEW t \in Threads, NEW k \in Kinds, QueueFrame(t, k) PROVE TypeOK'
<1> DEFINE n == Len(issued) + 1
<1>1. /\ issued' \in Seq(CallRec) /\ Len(issued') = n /\ n \in Reqs
      /\ Made \subseteq Made' /\ n \in Made'
  BY DEF QueueFrame, TypeOK, ClientTypeOK, CallRec, Made, Reqs
<1>2. UNCHANGED <<fd, last_reply, had_session, session_gone, connect_failed,
                  dialed, live, up, down, serverVars>>
  BY DEF QueueFrame, netVars
<1>3. \A f : f \in Seq(Made) => f \in Seq(Made') /\ Append(f, n) \in Seq(Made')
  BY <1>1, SeqMonotonic, AppendProperties
<1>4. ClientTypeOK'
  <2>1. queued' \in Seq(Made') /\ unacked' \in Seq(Made')
    BY <1>3, EmptySeq DEF QueueFrame, TypeOK, ClientTypeOK
  <2>2. op' = Idle \/ op' = [pc |-> "flush", n |-> n, again |-> FALSE]
    BY DEF QueueFrame
  <2>3. /\ op' \in OpRec /\ op'.pc \in {"idle", "flush"} /\ op'.n <= n
        /\ op'.pc = "flush" => op'.n # 0
    <3>1. [pc |-> "flush", n |-> n, again |-> FALSE] \in OpRec
      BY <1>1, Bounds DEF OpRec, Reqs
    <3>2. n \in Nat \ {0}
      BY <1>1, Bounds DEF Reqs
    <3>3. CASE op' = Idle
      BY <3>2, <3>3, OpType
    <3>4. CASE op' = [pc |-> "flush", n |-> n, again |-> FALSE]
      BY <3>1, <3>2, <3>4
    <3>5. QED
      BY <2>2, <3>3, <3>4
  <2>4. fd # None
    BY DEF QueueFrame, TypeOK, ClientTypeOK
  <2>5. told' \in [Reqs -> 0 .. Untold]
    <3>1. [told EXCEPT ![n] = 0] \in [Reqs -> 0 .. Untold]
      BY <1>1, Bounds DEF TypeOK, ClientTypeOK, Untold
    <3>2. QED
      BY <3>1 DEF QueueFrame, TypeOK, ClientTypeOK
  <2>6. replay_possible' \in BOOLEAN
    BY DEF QueueFrame
  <2>7. Len(issued') <= MaxReq
    BY <1>1, Bounds DEF Reqs
  <2>8. QED
    BY <1>1, <1>2, <2>1, <2>3, <2>4, <2>5, <2>6, <2>7 DEF TypeOK, ClientTypeOK
<1>5. NetTypeOK'
  <2>1. \A c \in Conns : up[c] \in Seq(Made')
    BY <1>3 DEF TypeOK, NetTypeOK
  <2>2. QED
    BY <1>2, <2>1 DEF TypeOK, NetTypeOK
<1>6. ServerTypeOK'
  BY <1>1, <1>2 DEF TypeOK, ServerTypeOK, serverVars
<1>7. QED
  BY <1>4, <1>5, <1>6 DEF TypeOK

(* Giving a call up (abandon_call_locked) keeps the types.                 *)
LEMMA AbandonType ==
  ASSUME TypeOK, op.n # 0, NEW frames \in Seq(Made), Abandon(frames)
  PROVE  /\ unacked' \in Seq(Made) /\ last_reply' \in 0 .. MaxReq
         /\ told' \in [Reqs -> 0 .. Untold]
         /\ fd' = None /\ op' = Idle
  BY WithoutCallType, Bounds
     DEF Abandon, TypeOK, ClientTypeOK, OpRec, Unknown, Untold, Reqs

(* A write by the client puts frames on a connection, or some of them.     *)
LEMMA ClientWriteType ==
  ASSUME TypeOK, NEW c \in Conns, NEW frames \in Seq(Made),
         WriteSucceeds(c, frames) \/ WriteFails(c, frames)
  PROVE  up' \in [Conns -> Seq(Made)] /\ live' \in [Conns -> BOOLEAN]
<1>1. \A k \in 0 .. Len(frames) : SubSeq(frames, 1, k) \in Seq(Made)
  OBVIOUS
<1>2. \A f \in Seq(Made) : up[c] \o f \in Seq(Made)
  BY ConcatProperties DEF TypeOK, NetTypeOK
<1>3. CASE WriteSucceeds(c, frames)
  BY <1>2, <1>3 DEF WriteSucceeds, TypeOK, NetTypeOK
<1>4. CASE WriteFails(c, frames)
  BY <1>1, <1>2, <1>4 DEF WriteFails, TypeOK, NetTypeOK
<1>5. QED
  BY <1>3, <1>4

(* After a failed attempt the client is idle or tries again.               *)
LEMMA AttemptFailedType ==
  ASSUME TypeOK, AttemptFailed
  PROVE  op' \in OpRec /\ op'.pc \in {"idle", "connect"} /\ op'.n <= Len(issued)
  BY OpType DEF AttemptFailed, At, TypeOK, ClientTypeOK

(* With a connection the client queues its frame or flushes the queue.     *)
LEMMA ConnectedType ==
  ASSUME TypeOK, Connected
  PROVE  /\ op' \in OpRec /\ op'.pc \in {"queue", "flush"} /\ op'.n <= Len(issued)
         /\ op'.pc = "flush" => op'.n # 0
  BY OpType DEF Connected, At, TypeOK, ClientTypeOK

(* A call whose connection broke reconnects or is given up.                *)
LEMMA CallBrokeType ==
  ASSUME TypeOK, op.n # 0, CallBroke
  PROVE  /\ unacked' \in Seq(Made) /\ last_reply' \in 0 .. MaxReq
         /\ told' \in [Reqs -> 0 .. Untold] /\ fd' = None
         /\ op' \in OpRec /\ op'.pc \in {"idle", "connect"} /\ op'.n <= Len(issued)
<1>1. CASE ~op.again /\ replay_possible
  <2>1. op' = [op EXCEPT !.pc = "connect", !.again = TRUE]
    BY <1>1 DEF CallBroke
  <2>2. op' \in OpRec /\ op'.pc = "connect" /\ op'.n = op.n
    BY <2>1, Bounds DEF TypeOK, ClientTypeOK, OpRec
  <2>3. QED
    BY <1>1, <2>2 DEF CallBroke, TypeOK, ClientTypeOK
<1>2. CASE ~(~op.again /\ replay_possible)
  <2>1. unacked \in Seq(Made) /\ Abandon(unacked)
    BY <1>2 DEF CallBroke, TypeOK, ClientTypeOK
  <2>2. QED
    BY <2>1, AbandonType, OpType DEF TypeOK, ClientTypeOK
<1>3. QED
  BY <1>1, <1>2

(* Reading the answer to a handshake takes it off the connection.          *)
LEMMA ReadHelloType ==
  ASSUME TypeOK, NEW type, ReadHello(type)
  PROVE  dialed \in Conns /\ down' \in [Conns -> Seq(Message)]
<1>1. dialed \in Conns
  BY Bounds DEF ReadHello, TypeOK, ClientTypeOK, NetTypeOK, Conns, None
<1>2. Tail(down[dialed]) \in Seq(Message)
  BY <1>1, HeadTailProperties DEF ReadHello, TypeOK, NetTypeOK
<1>3. QED
  BY <1>1, <1>2 DEF ReadHello, TypeOK, NetTypeOK

(* Every step of the client keeps the types.                               *)
LEMMA TypeClient == ASSUME TypeOK, Client PROVE TypeOK'
<1> USE DEF TypeOK
<1>1. ASSUME NEW t \in Threads, NEW k \in Kinds, QueueFrame(t, k) PROVE TypeOK'
  BY <1>1, TypeQueueFrame
<1>2. CASE StartConnecting
  <2>1. NetTypeOK' /\ ServerTypeOK'
    BY <1>2, NetSame, ServerSame DEF StartConnecting
  <2>2. UNCHANGED <<fd, last_reply, had_session, session_gone, connect_failed,
                    replay_possible, queued, unacked, issued, told, dialed>>
    BY <1>2 DEF StartConnecting, netVars
  <2>3. op' \in OpRec /\ op'.pc = "connect" /\ op'.n = 0
    BY <1>2, OpType DEF StartConnecting
  <2>4. QED
    BY <2>1, <2>2, <2>3 DEF ClientTypeOK, Made
<1>3. CASE Dial
  <2>1. UNCHANGED <<fd, last_reply, had_session, session_gone, replay_possible,
                    queued, unacked, issued, told, up, down,
                    table, made, sess, held, ran, failed>>
        /\ connect_failed' = FALSE /\ op.pc = "connect"
    BY <1>3 DEF Dial
  <2>2. op' \in OpRec /\ op'.pc = "hello" /\ op'.n = op.n
    BY <1>3, OpType DEF Dial, At, ClientTypeOK
  <2>3. dialed' \in Conns /\ dialed' # None
    BY <1>3, Bounds DEF Dial, NetTypeOK, Conns, None
  <2>4. ClientTypeOK'
    BY <2>1, <2>2, <2>3 DEF ClientTypeOK, Made
  <2>5. NetTypeOK'
    BY <1>3, <2>1, <2>3, Bounds DEF Dial, NetTypeOK, Made, Conns
  <2>6. acc' \in [Conns -> AcceptRec]
        /\ \A c \in Conns : acc'[c].pc \notin {"none", "hello", "done"} => acc'[c].s # None
    <3> DEFINE h == [NoHandshake EXCEPT !.pc = "hello", !.last = last_reply,
                                        !.resuming = had_session]
    <3>1. h \in AcceptRec /\ h.pc = "hello"
      <4>1. NoHandshake \in AcceptRec
        BY Bounds DEF NoHandshake, AcceptRec, HandshakePcs, None, NoneKept, Response,
           Replies, Result
      <4>2. last_reply \in 0 .. MaxReq /\ had_session \in BOOLEAN
        BY DEF ClientTypeOK
      <4>3. QED
        BY <4>1, <4>2 DEF AcceptRec, HandshakePcs
    <3>2. acc' = [acc EXCEPT ![dialed'] = h]
      BY <1>3 DEF Dial
    <3> HIDE DEF h
    <3>3. QED
      BY <2>3, <3>1, <3>2 DEF ServerTypeOK
  <2>7. QED
    BY <2>1, <2>4, <2>5, <2>6 DEF ServerTypeOK, Made
<1>4. CASE Refused
  <2>1. NetTypeOK' /\ ServerTypeOK'
    BY <1>4, NetSame, ServerSame DEF Refused
  <2>2. UNCHANGED <<fd, last_reply, had_session, session_gone, replay_possible,
                    queued, unacked, issued, told, dialed>>
        /\ connect_failed' = TRUE /\ AttemptFailed
    BY <1>4 DEF Refused, netVars
  <2>3. QED
    BY <2>1, <2>2, AttemptFailedType DEF ClientTypeOK, Made
<1>5. CASE GiveUp
  <2>1. NetTypeOK' /\ ServerTypeOK'
    BY <1>5, NetSame, ServerSame DEF GiveUp
  <2>2. UNCHANGED <<had_session, session_gone, replay_possible, queued, issued>>
        /\ connect_failed' = TRUE
    BY <1>5 DEF GiveUp
  <2>3. unacked \in Seq(Made) /\ op.n # 0 /\ Abandon(unacked)
    BY <1>5 DEF GiveUp, ClientTypeOK
  <2>4. /\ unacked' \in Seq(Made) /\ last_reply' \in 0 .. MaxReq
        /\ told' \in [Reqs -> 0 .. Untold] /\ fd' = None /\ op' = Idle
    BY <2>3, AbandonType
  <2>5. fd' \in 0 .. MaxConns
    BY <2>4, Bounds DEF None
  <2>6. QED
    BY <2>1, <2>2, <2>4, <2>5, OpType DEF ClientTypeOK, Made
<1>6. CASE HelloUnanswered
  <2>1. NetTypeOK' /\ ServerTypeOK'
    BY <1>6, NetSame, ServerSame DEF HelloUnanswered
  <2>2. UNCHANGED <<fd, last_reply, had_session, session_gone, replay_possible,
                    queued, unacked, issued, told, dialed>>
        /\ connect_failed' = TRUE /\ AttemptFailed
    BY <1>6 DEF HelloUnanswered, netVars
  <2>3. QED
    BY <2>1, <2>2, AttemptFailedType DEF ClientTypeOK, Made
<1>7. CASE HelloBusy
  <2>1. UNCHANGED <<fd, last_reply, had_session, session_gone, replay_possible,
                    queued, unacked, issued, told, dialed, up, serverVars>>
        /\ connect_failed' = TRUE /\ AttemptFailed /\ ReadHello("busy")
        /\ live' = [live EXCEPT ![dialed] = FALSE]
    BY <1>7 DEF HelloBusy
  <2>2. ServerTypeOK'
    BY <2>1, ServerSame
  <2>3. NetTypeOK'
    BY <2>1, ReadHelloType DEF NetTypeOK, Made
  <2>4. QED
    BY <2>1, <2>2, <2>3, AttemptFailedType DEF ClientTypeOK, Made
<1>8. CASE HelloGone
  <2>1. UNCHANGED <<had_session, replay_possible, issued, dialed, up, serverVars>>
        /\ session_gone' = TRUE /\ connect_failed' = TRUE /\ queued' = <<>>
        /\ ReadHello("fresh") /\ live' = [live EXCEPT ![dialed] = FALSE]
    BY <1>8 DEF HelloGone
  <2>2. ServerTypeOK'
    BY <2>1, ServerSame
  <2>3. NetTypeOK'
    BY <2>1, ReadHelloType DEF NetTypeOK, Made
  <2>4. <<>> \in Seq(Made)
    BY EmptySeq
  <2>5. /\ unacked' \in Seq(Made) /\ last_reply' \in 0 .. MaxReq
        /\ told' \in [Reqs -> 0 .. Untold] /\ fd' \in 0 .. MaxConns /\ op' = Idle
    <3>1. CASE op.n = 0
      BY <1>8, <2>4, <3>1 DEF HelloGone, ClientTypeOK
    <3>2. CASE op.n # 0
      <4>1. Abandon(<<>>)
        BY <1>8, <3>2 DEF HelloGone
      <4>2. 0 \in 0 .. MaxConns
        BY Bounds
      <4>3. QED
        BY <2>4, <3>2, <4>1, <4>2, AbandonType DEF None
    <3>3. QED
      BY <3>1, <3>2
  <2>6. UNCHANGED <<had_session, replay_possible, issued, dialed>>
        /\ queued' \in Seq(Made) /\ session_gone' = TRUE /\ connect_failed' = TRUE
    BY <2>1, <2>4
  <2>7. ClientTypeOK'
    BY <2>5, <2>6, OpType DEF ClientTypeOK, Made
  <2>8. QED
    BY <2>2, <2>3, <2>7
<1>9. CASE HelloStarted
  <2>1. UNCHANGED <<last_reply, session_gone, connect_failed, replay_possible,
                    queued, unacked, issued, told, dialed, live, up, serverVars>>
        /\ ReadHello("fresh") /\ fd' = dialed /\ had_session' = TRUE /\ Connected
    BY <1>9 DEF HelloStarted
  <2>2. ServerTypeOK'
    BY <2>1, ServerSame
  <2>3. NetTypeOK'
    BY <2>1, ReadHelloType DEF NetTypeOK, Made
  <2>4. fd' \in 0 .. MaxConns /\ fd' # None
    BY <2>1, ReadHelloType, Bounds DEF Conns, None
  <2>5. QED
    BY <2>1, <2>2, <2>3, <2>4, ConnectedType DEF ClientTypeOK, Made
<1>10. CASE HelloResumed
  <2>1. UNCHANGED <<last_reply, session_gone, connect_failed, replay_possible,
                    issued, told, dialed, serverVars>>
        /\ ReadHello("resumed") /\ queued' = <<>> /\ had_session' = TRUE
    BY <1>10 DEF HelloResumed
  <2>2. ServerTypeOK'
    BY <2>1, ServerSame
  <2>3. dialed \in Conns /\ down' \in [Conns -> Seq(Message)]
    BY <2>1, ReadHelloType
  <2>4. PICK rest \in Seq(Made) :
          /\ unacked' = rest
          /\ \/ WriteSucceeds(dialed, rest) /\ fd' = dialed /\ Connected
             \/ WriteFails(dialed, rest) /\ AttemptFailed /\ UNCHANGED fd
    BY <1>10, ForgetAckedIsSuffix DEF HelloResumed, ClientTypeOK
  <2>5. up' \in [Conns -> Seq(Made)] /\ live' \in [Conns -> BOOLEAN]
    BY <2>3, <2>4, ClientWriteType
  <2>6. NetTypeOK'
    BY <2>1, <2>3, <2>5 DEF NetTypeOK, Made
  <2>7. queued' \in Seq(Made)
    BY <2>1, EmptySeq
  <2>8. CASE fd' = dialed /\ Connected
    <3>1. fd' \in 0 .. MaxConns /\ fd' # None
      BY <2>3, <2>8, Bounds DEF Conns, None
    <3>2. QED
      BY <2>1, <2>2, <2>4, <2>6, <2>7, <2>8, <3>1, ConnectedType DEF ClientTypeOK, Made
  <2>9. CASE AttemptFailed /\ UNCHANGED fd
    BY <2>1, <2>2, <2>4, <2>6, <2>7, <2>9, AttemptFailedType DEF ClientTypeOK, Made
  <2>10. QED
    BY <2>4, <2>8, <2>9
<1>11. CASE Flush
  <2>1. UNCHANGED <<fd, last_reply, had_session, session_gone, connect_failed,
                    replay_possible, unacked, issued, dialed, down, serverVars>>
        /\ op.pc = "flush" /\ WriteSucceeds(fd, queued) /\ queued' = <<>>
    BY <1>11 DEF Flush
  <2>2. ServerTypeOK'
    BY <2>1, ServerSame
  <2>3. fd \in Conns /\ op.n # 0 /\ queued \in Seq(Made)
    BY <2>1, Bounds DEF ClientTypeOK, Conns, None
  <2>4. NetTypeOK'
    BY <2>1, <2>3, ClientWriteType DEF NetTypeOK, Made
  <2>5. queued' \in Seq(Made)
    BY <2>1, EmptySeq
  <2>6. CASE op' = Idle /\ told' = [told EXCEPT ![op.n] = 0]
    <3>1. told' \in [Reqs -> 0 .. Untold]
      <4>1. told \in [Reqs -> 0 .. Untold] /\ 0 \in 0 .. Untold
        BY Bounds DEF ClientTypeOK, Untold
      <4>2. QED
        BY <2>6, <4>1
    <3>2. QED
      BY <2>1, <2>2, <2>4, <2>5, <2>6, <3>1, OpType DEF ClientTypeOK, Made
  <2>7. CASE op' = At("recv") /\ UNCHANGED told
    <3>1. op' \in OpRec /\ op'.pc = "recv" /\ op'.n = op.n
      BY <2>7, OpType DEF At, ClientTypeOK
    <3>2. QED
      BY <2>1, <2>2, <2>3, <2>4, <2>5, <2>7, <3>1 DEF ClientTypeOK, Made
  <2>8. QED
    BY <1>11, <2>6, <2>7 DEF Flush
<1>12. CASE FlushFails
  <2>1. UNCHANGED <<had_session, session_gone, connect_failed, replay_possible,
                    issued, dialed, down, serverVars>>
        /\ op.pc = "flush" /\ WriteFails(fd, queued) /\ queued' = <<>>
    BY <1>12 DEF FlushFails
  <2>2. ServerTypeOK'
    BY <2>1, ServerSame
  <2>3. fd \in Conns /\ op.n # 0 /\ queued \in Seq(Made)
    BY <2>1, Bounds DEF ClientTypeOK, Conns, None
  <2>4. NetTypeOK'
    BY <2>1, <2>3, ClientWriteType DEF NetTypeOK, Made
  <2>5. queued' \in Seq(Made)
    BY <2>1, EmptySeq
  <2>6. None \in 0 .. MaxConns
    BY Bounds DEF None
  <2>7. CASE /\ fd' = None /\ op' = Idle /\ told' = [told EXCEPT ![op.n] = Unknown]
             /\ UNCHANGED <<unacked, last_reply>>
    <3>1. told' \in [Reqs -> 0 .. Untold]
      <4>1. told \in [Reqs -> 0 .. Untold] /\ Unknown \in 0 .. Untold
        BY Bounds DEF ClientTypeOK, Untold, Unknown
      <4>2. QED
        BY <2>7, <4>1
    <3>2. QED
      BY <2>1, <2>2, <2>4, <2>5, <2>6, <2>7, <3>1, OpType DEF ClientTypeOK, Made
  <2>8. CASE CallBroke
    BY <2>1, <2>2, <2>3, <2>4, <2>5, <2>6, <2>8, CallBrokeType DEF ClientTypeOK, Made
  <2>9. QED
    BY <1>12, <2>7, <2>8 DEF FlushFails
<1>13. CASE RecvReply
  <2>1. UNCHANGED <<had_session, session_gone, connect_failed, replay_possible,
                    queued, issued, dialed, up, serverVars>>
        /\ op.pc = "recv" /\ down[fd] # <<>> /\ down' = [down EXCEPT ![fd] = Tail(@)]
    BY <1>13 DEF RecvReply
  <2>2. ServerTypeOK'
    BY <2>1, ServerSame
  <2>3. fd \in Conns /\ op.n # 0 /\ op.n \in 0 .. MaxReq /\ unacked \in Seq(Made)
    BY <2>1, Bounds DEF ClientTypeOK, Conns, None, OpRec
  <2>4. down' \in [Conns -> Seq(Message)] /\ Head(down[fd]) \in Message
    BY <2>1, <2>3, HeadTailProperties DEF NetTypeOK
  <2>5. CASE /\ told' = [told EXCEPT ![op.n] = Head(down[fd]).result]
             /\ last_reply' = op.n /\ unacked' = ForgetAcked(unacked, op.n)
             /\ op' = Idle /\ UNCHANGED <<fd, live>>
    <3>1. told' \in [Reqs -> 0 .. Untold]
      <4>1. told \in [Reqs -> 0 .. Untold]
        BY DEF ClientTypeOK
      <4>2. Head(down[fd]).result \in 0 .. Untold
        BY <2>4, Bounds DEF Message, Result, Untold
      <4>3. QED
        BY <2>5, <4>1, <4>2
    <3>2. unacked' \in Seq(Made)
      BY <2>3, <2>5, ForgetAckedIsSuffix
    <3>3. NetTypeOK'
      BY <2>1, <2>4, <2>5 DEF NetTypeOK, Made
    <3>4. QED
      <4>1. /\ last_reply' \in 0 .. MaxReq /\ op' = Idle
            /\ fd' = fd /\ UNCHANGED <<had_session, session_gone, connect_failed,
                                       replay_possible, queued, issued, dialed>>
        BY <2>1, <2>3, <2>5
      <4>2. QED
        BY <2>2, <3>1, <3>2, <3>3, <4>1, OpType DEF ClientTypeOK, Made
  <2>6. CASE Abandon(unacked) /\ live' = [live EXCEPT ![fd] = FALSE]
    <3>1. NetTypeOK'
      <4>1. live' \in [Conns -> BOOLEAN]
        BY <2>6 DEF NetTypeOK
      <4>2. QED
        BY <2>1, <2>4, <4>1 DEF NetTypeOK, Made
    <3>2. /\ unacked' \in Seq(Made) /\ last_reply' \in 0 .. MaxReq
          /\ told' \in [Reqs -> 0 .. Untold] /\ fd' = None /\ op' = Idle
      BY <2>3, <2>6, AbandonType
    <3>3. None \in 0 .. MaxConns
      BY Bounds DEF None
    <3>4. UNCHANGED <<had_session, session_gone, connect_failed, replay_possible,
                      queued, issued, dialed>>
      BY <2>1
    <3>5. QED
      BY <2>2, <3>1, <3>2, <3>3, <3>4, OpType DEF ClientTypeOK, Made
  <2>7. QED
    BY <1>13, <2>5, <2>6 DEF RecvReply
<1>14. CASE RecvFails
  <2>1. UNCHANGED <<had_session, session_gone, connect_failed, replay_possible,
                    queued, issued, dialed>>
        /\ op.pc = "recv" /\ CallBroke
    BY <1>14 DEF RecvFails, netVars
  <2>2. NetTypeOK' /\ ServerTypeOK'
    BY <1>14, NetSame, ServerSame DEF RecvFails
  <2>3. op.n # 0 /\ None \in 0 .. MaxConns
    BY <2>1, Bounds DEF ClientTypeOK, None
  <2>4. QED
    BY <2>1, <2>2, <2>3, CallBrokeType DEF ClientTypeOK, Made
<1>15. QED
  BY <1>1, <1>2, <1>3, <1>4, <1>5, <1>6, <1>7, <1>8, <1>9, <1>10, <1>11, <1>12,
     <1>13, <1>14 DEF Client

(* One accept thread moves on to a well-typed state.                       *)
LEMMA AccUpdate ==
  ASSUME ServerTypeOK, NEW c \in Conns, NEW h \in AcceptRec,
         h.pc \in {"none", "hello", "done"} \/ h.s # None,
         acc' = [acc EXCEPT ![c] = h]
  PROVE  /\ acc' \in [Conns -> AcceptRec]
         /\ \A d \in Conns : acc'[d].pc \notin {"none", "hello", "done"} => acc'[d].s # None
  BY DEF ServerTypeOK

(* An accept thread ends.                                                  *)
LEMMA HandshakeDoneType ==
  ASSUME ServerTypeOK, NEW c \in Conns, HandshakeDone(c)
  PROVE  /\ acc' \in [Conns -> AcceptRec]
         /\ \A d \in Conns : acc'[d].pc \notin {"none", "hello", "done"} => acc'[d].s # None
<1> DEFINE h == [acc[c] EXCEPT !.pc = "done"]
<1>1. h \in AcceptRec /\ h.pc = "done"
  BY DEF ServerTypeOK, AcceptRec, HandshakePcs
<1>2. acc' = [acc EXCEPT ![c] = h]
  BY DEF HandshakeDone
<1> HIDE DEF h
<1>3. QED
  BY <1>1, <1>2, AccUpdate

(* One session gets a well-typed record.                                   *)
LEMMA SessUpdate ==
  ASSUME ServerTypeOK, NEW s \in Sessions, NEW S \in SessionRec,
         S.pc \in Serving => S.fd # None,
         S.pc \in {"run", "record"} => S.cur \in Made,
         sess' = [sess EXCEPT ![s] = S], issued' = issued
  PROVE  /\ sess' \in [Sessions -> SessionRec]
         /\ \A x \in Sessions :
              /\ sess'[x].pc \in Serving => sess'[x].fd # None
              /\ sess'[x].pc \in {"run", "record"} => sess'[x].cur \in Made'
  BY DEF ServerTypeOK, Made

(* Handing a connection to a session keeps the types.                      *)
LEMMA PendType ==
  ASSUME TypeOK, NEW s \in Sessions, NEW c \in Conns, NEW pc \in {sess[s].pc, "waiting"},
         Pend(s, c, pc), issued' = issued
  PROVE  /\ sess' \in [Sessions -> SessionRec]
         /\ \A x \in Sessions :
              /\ sess'[x].pc \in Serving => sess'[x].fd # None
              /\ sess'[x].pc \in {"run", "record"} => sess'[x].cur \in Made'
         /\ live' \in [Conns -> BOOLEAN]
<1> DEFINE S == [sess[s] EXCEPT !.pending_fd = c, !.pc = pc]
<1>1. sess[s] \in SessionRec
  BY DEF TypeOK, ServerTypeOK
<1>2. c \in 0 .. MaxConns /\ pc \in ServePcs
  BY <1>1, Bounds DEF Conns, SessionRec, ServePcs
<1>3. S \in SessionRec /\ S.pc = pc /\ S.fd = sess[s].fd /\ S.cur = sess[s].cur
  BY <1>1, <1>2 DEF SessionRec
<1>4. sess' = [sess EXCEPT ![s] = S]
  BY DEF Pend
<1> HIDE DEF S
<1>5. /\ S.pc \in Serving => S.fd # None
      /\ S.pc \in {"run", "record"} => S.cur \in Made
  BY <1>3 DEF TypeOK, ServerTypeOK, Serving
<1>6. live' \in [Conns -> BOOLEAN]
  BY DEF Pend, TypeOK, NetTypeOK
<1>7. ServerTypeOK
  BY DEF TypeOK
<1>8. QED
  BY <1>3, <1>4, <1>5, <1>6, <1>7, SessUpdate

(* A write by the server puts a message on a connection.                   *)
LEMMA ServerWriteType ==
  ASSUME TypeOK, NEW c \in Conns, NEW m \in Message, Write(c, <<m>>)
  PROVE  down' \in [Conns -> Seq(Message)]
<1>1. down[c] \o <<m>> \in Seq(Message)
  BY ConcatProperties DEF TypeOK, NetTypeOK
<1>2. QED
  BY <1>1 DEF Write, TypeOK, NetTypeOK

(* The answer to a handshake is a message.                                 *)
LEMMA HelloReplyType ==
  ASSUME NEW type \in {"fresh", "resumed", "busy"}, NEW n \in 0 .. MaxReq
  PROVE  HelloReply(type, n) \in Message
  BY Bounds DEF HelloReply, Message, Result

(* So is a reply that a session keeps.                                     *)
LEMMA RepliesAreMessages == Replies \subseteq Message
  BY DEF Replies, Message

(* Every step of an accept thread keeps the types.                         *)
LEMMA TypeAccept == ASSUME TypeOK, NEW c \in Conns, Accept(c) PROVE TypeOK'
<1> USE DEF TypeOK
<1>1. CASE HelloNeverArrives(c)
  <2>1. UNCHANGED <<clientVars, netVars, table, made, sess, held, ran, failed>>
        /\ HandshakeDone(c)
    BY <1>1 DEF HelloNeverArrives
  <2>2. UNCHANGED <<issued, dialed>>
    BY <2>1 DEF clientVars, netVars
  <2>3. ClientTypeOK' /\ NetTypeOK'
    BY <2>1, <2>2, ClientSame, NetSame
  <2>4. ServerTypeOK'
    BY <2>1, <2>2, HandshakeDoneType DEF ServerTypeOK, Made
  <2>5. QED
    BY <2>3, <2>4
<1>2. CASE FindSession(c)
  <2> DEFINE h == [acc[c] EXCEPT !.pc = "snapshot", !.s = table, !.resumed = TRUE]
  <2>1. UNCHANGED <<clientVars, netVars, table, made, sess, held, ran, failed>>
        /\ acc' = [acc EXCEPT ![c] = h] /\ table # None
    BY <1>2 DEF FindSession, InTable
  <2>2. UNCHANGED <<issued, dialed>>
    BY <2>1 DEF clientVars, netVars
  <2>3. ClientTypeOK' /\ NetTypeOK'
    BY <2>1, <2>2, ClientSame, NetSame
  <2>4. h \in AcceptRec /\ h.s = table
    BY DEF ServerTypeOK, AcceptRec, HandshakePcs
  <2> HIDE DEF h
  <2>5. ServerTypeOK'
    BY <2>1, <2>2, <2>4, AccUpdate DEF ServerTypeOK, Made
  <2>6. QED
    BY <2>3, <2>5
<1>3. CASE StartSession(c)
  <2> DEFINE h == [acc[c] EXCEPT !.pc = "snapshot", !.s = made + 1]
             S == [sess[made + 1] EXCEPT !.pc = "starting"]
  <2>1. UNCHANGED <<clientVars, netVars, held, ran, failed>>
        /\ acc' = [acc EXCEPT ![c] = h] /\ sess' = [sess EXCEPT ![made + 1] = S]
        /\ made' = made + 1 /\ table' = made + 1
    BY <1>3 DEF StartSession
  <2>2. UNCHANGED <<issued, dialed>>
    BY <2>1 DEF clientVars, netVars
  <2>3. ClientTypeOK' /\ NetTypeOK'
    BY <2>1, <2>2, ClientSame, NetSame
  <2>4. made + 1 \in Sessions /\ made + 1 \in 0 .. MaxSessions /\ made + 1 # None
    BY <1>3, Bounds DEF StartSession, ServerTypeOK, Sessions, None
  <2>5. h \in AcceptRec /\ h.s # None
    BY <2>4 DEF ServerTypeOK, AcceptRec, HandshakePcs
  <2>6. S \in SessionRec /\ S.pc \notin Serving
    BY <2>4 DEF ServerTypeOK, SessionRec, ServePcs, Serving
  <2> HIDE DEF h, S
  <2>7. /\ acc' \in [Conns -> AcceptRec]
        /\ \A d \in Conns : acc'[d].pc \notin {"none", "hello", "done"} => acc'[d].s # None
    BY <2>1, <2>5, AccUpdate
  <2>8. /\ sess' \in [Sessions -> SessionRec]
        /\ \A x \in Sessions :
             /\ sess'[x].pc \in Serving => sess'[x].fd # None
             /\ sess'[x].pc \in {"run", "record"} => sess'[x].cur \in Made'
    <3>1. S.pc \notin {"run", "record"}
      BY <2>6 DEF Serving
    <3>2. QED
      BY <2>1, <2>2, <2>4, <2>6, <3>1, SessUpdate
  <2>9. ServerTypeOK'
    BY <2>1, <2>4, <2>7, <2>8 DEF ServerTypeOK
  <2>10. QED
    BY <2>3, <2>9
<1>4. CASE RefuseSession(c) \/ TellGone(c)
  <2>1. UNCHANGED <<clientVars, dialed, up, table, made, sess, held, ran, failed>>
        /\ HandshakeDone(c) /\ live' = [live EXCEPT ![c] = FALSE]
    BY <1>4 DEF RefuseSession, TellGone, Close
  <2>2. issued' = issued
    BY <2>1 DEF clientVars
  <2>3. down' \in [Conns -> Seq(Message)]
    <3>1. HelloReply("busy", 0) \in Message /\ HelloReply("fresh", 0) \in Message
      BY HelloReplyType, Bounds
    <3>2. QED
      BY <1>4, <3>1, ServerWriteType DEF RefuseSession, TellGone
  <2>4. live' \in [Conns -> BOOLEAN]
    BY <2>1 DEF NetTypeOK
  <2>5. ClientTypeOK' /\ NetTypeOK'
    BY <2>1, <2>2, <2>3, <2>4, ClientSame DEF NetTypeOK, Made
  <2>6. ServerTypeOK'
    BY <2>1, <2>2, HandshakeDoneType DEF ServerTypeOK, Made
  <2>7. QED
    BY <2>5, <2>6
<1>5. CASE Snapshot(c)
  <2> DEFINE S == sess[acc[c].s]
             kept == IF Unanswered(c, S.reply) THEN S.reply ELSE NoneKept
             h == [acc[c] EXCEPT !.pc = "reply", !.snap = S.last_req, !.kept = kept]
  <2>1. UNCHANGED <<clientVars, netVars, table, made, sess, held, ran, failed>>
        /\ acc' = [acc EXCEPT ![c] = h] /\ acc[c].pc = "snapshot"
    BY <1>5 DEF Snapshot
  <2>2. UNCHANGED <<issued, dialed>>
    BY <2>1 DEF clientVars, netVars
  <2>3. ClientTypeOK' /\ NetTypeOK'
    BY <2>1, <2>2, ClientSame, NetSame
  <2>4. acc[c].s \in Sessions /\ acc[c].s # None /\ acc[c] \in AcceptRec
    <3>1. acc[c] \in AcceptRec /\ acc[c].s # None
      BY <2>1 DEF ServerTypeOK
    <3>2. acc[c].s \in 0 .. MaxSessions
      BY <3>1 DEF AcceptRec
    <3>3. QED
      BY <3>1, <3>2, Bounds DEF Sessions, None
  <2>5. S.last_req \in 0 .. MaxReq /\ S.reply \in Replies
    BY <2>4 DEF ServerTypeOK, SessionRec
  <2>6. kept \in Replies
    BY <2>5, Bounds DEF NoneKept, Response, Replies, Result
  <2> HIDE DEF kept, S
  <2>7. h \in AcceptRec /\ h.s # None
    BY <2>4, <2>5, <2>6 DEF AcceptRec, HandshakePcs
  <2> HIDE DEF h
  <2>8. ServerTypeOK'
    BY <2>1, <2>2, <2>7, AccUpdate DEF ServerTypeOK, Made
  <2>9. QED
    BY <2>3, <2>8
<1>6. CASE WriteHello(c)
  <2> DEFINE h == [acc[c] EXCEPT !.pc = AfterReply(c)]
             m == HelloReply(IF acc[c].resumed THEN "resumed" ELSE "fresh", acc[c].snap)
  <2>1. UNCHANGED <<clientVars, dialed, live, up, table, made, sess, held, ran, failed>>
        /\ acc' = [acc EXCEPT ![c] = h] /\ Write(c, <<m>>) /\ acc[c].pc = "reply"
    BY <1>6 DEF WriteHello
  <2>2. issued' = issued
    BY <2>1 DEF clientVars
  <2>3. acc[c] \in AcceptRec /\ acc[c].s # None /\ acc[c].snap \in 0 .. MaxReq
    BY <2>1 DEF ServerTypeOK, AcceptRec
  <2>4. m \in Message
    BY <2>3, HelloReplyType
  <2>5. AfterReply(c) \in HandshakePcs
    BY DEF AfterReply, HandshakePcs
  <2>6. h \in AcceptRec /\ h.s # None
    BY <2>3, <2>5 DEF AcceptRec
  <2> HIDE DEF h, m
  <2>7. down' \in [Conns -> Seq(Message)]
    BY <2>1, <2>4, ServerWriteType
  <2>8. ClientTypeOK' /\ NetTypeOK'
    BY <2>1, <2>2, <2>7, ClientSame DEF NetTypeOK, Made
  <2>9. ServerTypeOK'
    BY <2>1, <2>2, <2>6, AccUpdate DEF ServerTypeOK, Made
  <2>10. QED
    BY <2>8, <2>9
<1>7. CASE WriteHelloFails(c)
  <2>1. UNCHANGED <<clientVars, dialed, up, down, made, held, ran, failed>>
        /\ HandshakeDone(c) /\ acc[c].pc = "reply"
    BY <1>7 DEF WriteHelloFails
  <2>2. issued' = issued
    BY <2>1 DEF clientVars
  <2>3. CASE UNCHANGED <<table, sess, live>>
    <3>1. ClientTypeOK' /\ NetTypeOK'
      BY <2>1, <2>2, <2>3, ClientSame, NetSame DEF netVars
    <3>2. ServerTypeOK'
      BY <2>1, <2>2, <2>3, HandshakeDoneType DEF ServerTypeOK, Made
    <3>3. QED
      BY <3>1, <3>2
  <2>4. CASE ~acc[c].resumed
    <3> DEFINE s == acc[c].s
               S == [sess[s] EXCEPT !.finished = TRUE, !.pc = "dead", !.pending_fd = None]
    <3>1. s \in Sessions
      <4>1. acc[c] \in AcceptRec /\ s # None
        BY <2>1 DEF ServerTypeOK
      <4>2. s \in 0 .. MaxSessions
        BY <4>1 DEF AcceptRec
      <4>3. QED
        BY <4>1, <4>2, Bounds DEF Sessions, None
    <3>2. /\ table' = IF table = s THEN None ELSE table
          /\ sess' = [sess EXCEPT ![s] = S]
          /\ live' = IF sess[s].pending_fd = None THEN live
                     ELSE [live EXCEPT ![sess[s].pending_fd] = FALSE]
      BY <1>7, <2>4 DEF WriteHelloFails
    <3>3. S \in SessionRec /\ S.pc = "dead"
      <4>1. sess[s] \in SessionRec
        BY <3>1 DEF ServerTypeOK
      <4>2. None \in 0 .. MaxConns
        BY Bounds DEF None
      <4> HIDE DEF s
      <4>3. QED
        BY <4>1, <4>2 DEF SessionRec, ServePcs
    <3> HIDE DEF S, s
    <3>4. S.pc \notin Serving /\ S.pc \notin {"run", "record"}
      BY <3>3 DEF Serving
    <3>5. /\ sess' \in [Sessions -> SessionRec]
          /\ \A x \in Sessions :
               /\ sess'[x].pc \in Serving => sess'[x].fd # None
               /\ sess'[x].pc \in {"run", "record"} => sess'[x].cur \in Made'
      BY <2>2, <3>1, <3>2, <3>3, <3>4, SessUpdate
    <3>6. table' \in 0 .. MaxSessions
      BY <3>2, Bounds DEF ServerTypeOK, None
    <3>7. live' \in [Conns -> BOOLEAN]
      BY <3>2 DEF NetTypeOK
    <3>8. ClientTypeOK' /\ NetTypeOK'
      BY <2>1, <2>2, <3>7, ClientSame DEF NetTypeOK, Made
    <3>9. ServerTypeOK'
      BY <2>1, <3>5, <3>6, HandshakeDoneType DEF ServerTypeOK
    <3>10. QED
      BY <3>8, <3>9
  <2>5. QED
    BY <1>7, <2>3, <2>4 DEF WriteHelloFails
<1>8. CASE ResendKept(c)
  <2>1. UNCHANGED <<clientVars, dialed, live, up, table, made, sess, held, ran, failed>>
        /\ acc[c].pc = "resend"
    BY <1>8 DEF ResendKept
  <2>2. issued' = issued
    BY <2>1 DEF clientVars
  <2>3. acc[c] \in AcceptRec /\ acc[c].s # None /\ acc[c].kept \in Message
    BY <2>1, RepliesAreMessages DEF ServerTypeOK, AcceptRec
  <2>4. CASE Write(c, <<acc[c].kept>>) /\ acc' = [acc EXCEPT ![c].pc = "handover"]
    <3> DEFINE h == [acc[c] EXCEPT !.pc = "handover"]
    <3>1. h \in AcceptRec /\ h.s # None /\ acc' = [acc EXCEPT ![c] = h]
      BY <2>3, <2>4 DEF AcceptRec, HandshakePcs
    <3> HIDE DEF h
    <3>2. down' \in [Conns -> Seq(Message)]
      BY <2>3, <2>4, ServerWriteType
    <3>3. ClientTypeOK' /\ NetTypeOK'
      BY <2>1, <2>2, <3>2, ClientSame DEF NetTypeOK, Made
    <3>4. ServerTypeOK'
      BY <2>1, <2>2, <3>1, AccUpdate DEF ServerTypeOK, Made
    <3>5. QED
      BY <3>3, <3>4
  <2>5. CASE HandshakeDone(c) /\ UNCHANGED down
    <3>1. ClientTypeOK' /\ NetTypeOK'
      BY <2>1, <2>2, <2>5, ClientSame, NetSame DEF netVars
    <3>2. ServerTypeOK'
      BY <2>1, <2>2, <2>5, HandshakeDoneType DEF ServerTypeOK, Made
    <3>3. QED
      BY <3>1, <3>2
  <2>6. QED
    BY <1>8, <2>4, <2>5 DEF ResendKept
<1>9. CASE HandOver(c) \/ StartServing(c)
  <2>1. UNCHANGED <<clientVars, dialed, up, down, table, made, held, ran, failed>>
        /\ HandshakeDone(c) /\ acc[c].pc \in {"handover", "start"}
    BY <1>9 DEF HandOver, StartServing
  <2>2. issued' = issued
    BY <2>1 DEF clientVars
  <2>3. acc[c].s \in Sessions
    <3>1. acc[c] \in AcceptRec /\ acc[c].s # None
      BY <2>1 DEF ServerTypeOK
    <3>2. acc[c].s \in 0 .. MaxSessions
      BY <3>1 DEF AcceptRec
    <3>3. QED
      BY <3>1, <3>2, Bounds DEF Sessions, None
  <2>4. /\ sess' \in [Sessions -> SessionRec]
        /\ \A x \in Sessions :
             /\ sess'[x].pc \in Serving => sess'[x].fd # None
             /\ sess'[x].pc \in {"run", "record"} => sess'[x].cur \in Made'
        /\ live' \in [Conns -> BOOLEAN]
    <3>1. CASE Close(c) /\ UNCHANGED sess
      BY <2>2, <3>1 DEF Close, ServerTypeOK, NetTypeOK, Made
    <3>2. CASE Pend(acc[c].s, c, sess[acc[c].s].pc) \/ Pend(acc[c].s, c, "waiting")
      BY <2>2, <2>3, <3>2, PendType
    <3>3. QED
      BY <1>9, <3>1, <3>2 DEF HandOver, StartServing
  <2>5. ClientTypeOK' /\ NetTypeOK'
    BY <2>1, <2>2, <2>4, ClientSame DEF NetTypeOK, Made
  <2>6. ServerTypeOK'
    BY <2>1, <2>4, HandshakeDoneType DEF ServerTypeOK
  <2>7. QED
    BY <2>5, <2>6
<1>10. QED
  BY <1>1, <1>2, <1>3, <1>4, <1>5, <1>6, <1>7, <1>8, <1>9 DEF Accept

(* Every step of a serving thread keeps the types.                         *)
LEMMA TypeServe == ASSUME TypeOK, NEW s \in Sessions, Serve(s) PROVE TypeOK'
<1> USE DEF TypeOK
<1> DEFINE Fine(S) == /\ S.pc \in Serving => S.fd # None
                      /\ S.pc \in {"run", "record"} => S.cur \in Made
<1>1. sess[s] \in SessionRec /\ Fine(sess[s])
  BY DEF ServerTypeOK
<1>2. None \in 0 .. MaxConns /\ None \in 0 .. MaxSessions /\ 0 \in 0 .. MaxReq
  BY Bounds DEF None
<1>3. sess[s].pc \in Serving => sess[s].fd \in Conns
  <2>1. sess[s].fd \in 0 .. MaxConns
    BY <1>1 DEF SessionRec
  <2>2. QED
    BY <1>1, <2>1, Bounds DEF Conns, None
<1>4. ASSUME sess[s].pc \in Serving
      PROVE  /\ up[sess[s].fd] # <<>> => /\ Next1(s) \in Made
                                         /\ Tail(up[sess[s].fd]) \in Seq(Made)
  <2>1. up[sess[s].fd] \in Seq(Made)
    BY <1>3, <1>4 DEF NetTypeOK
  <2>2. QED
    BY <2>1, HeadTailProperties DEF Next1
\* A step that changes the session's record and nothing else of the types.
<1>5. ASSUME NEW S \in SessionRec, Fine(S), sess' = [sess EXCEPT ![s] = S],
             UNCHANGED <<clientVars, acc, table, made, held, ran, failed>>
      PROVE  issued' = issued /\ ServerTypeOK'
  <2>1. issued' = issued
    BY <1>5 DEF clientVars
  <2>2. /\ sess' \in [Sessions -> SessionRec]
        /\ \A x \in Sessions :
             /\ sess'[x].pc \in Serving => sess'[x].fd # None
             /\ sess'[x].pc \in {"run", "record"} => sess'[x].cur \in Made'
    BY <1>5, <2>1, SessUpdate
  <2>3. QED
    BY <1>5, <2>1, <2>2 DEF ServerTypeOK
<1>6. ASSUME UNCHANGED clientVars, dialed' = dialed, Consume(s),
             sess[s].pc \in Serving, up[sess[s].fd] # <<>>,
             live' \in [Conns -> BOOLEAN], down' \in [Conns -> Seq(Message)]
      PROVE  ClientTypeOK' /\ NetTypeOK'
  <2>1. up' = [up EXCEPT ![sess[s].fd] = Tail(@)]
    BY <1>6 DEF Consume
  <2>2. up' \in [Conns -> Seq(Made)]
    BY <1>4, <1>6, <2>1 DEF NetTypeOK
  <2>3. QED
    BY <1>6, <2>2, ClientSame DEF NetTypeOK, Made, clientVars
<1>7. ASSUME UNCHANGED <<clientVars, dialed, acc, table, made, held, ran, failed>>,
             Hangup(s), up' = up \/ up' = [up EXCEPT ![sess[s].fd] = <<>>],
             UNCHANGED down
      PROVE  TypeOK'
  <2> DEFINE S == [sess[s] EXCEPT !.pc = "waiting", !.fd = None]
  <2>1. S \in SessionRec /\ S.pc = "waiting"
    BY <1>1, <1>2 DEF SessionRec, ServePcs
  <2>2. sess' = [sess EXCEPT ![s] = S] /\ live' = [live EXCEPT ![sess[s].fd] = FALSE]
    BY <1>7 DEF Hangup
  <2> HIDE DEF S
  <2>3. Fine(S)
    BY <2>1 DEF Serving
  <2>4. issued' = issued /\ ServerTypeOK'
    BY <1>5, <1>7, <2>1, <2>2, <2>3
  <2>5. up' \in [Conns -> Seq(Made)]
    BY <1>7, EmptySeq DEF NetTypeOK
  <2>6. ClientTypeOK' /\ NetTypeOK'
    BY <1>7, <2>2, <2>4, <2>5, ClientSame DEF NetTypeOK, Made
  <2>7. QED
    BY <2>4, <2>6
<1>8. ASSUME UNCHANGED <<clientVars, netVars>>
      PROVE  ClientTypeOK' /\ NetTypeOK' /\ Made' = Made
  BY <1>8, ClientSame, NetSame DEF clientVars, netVars, Made
<1> HIDE DEF Fine
<1>9. CASE TakeUp(s)
  <2> DEFINE S == [sess[s] EXCEPT !.pc = "reading", !.fd = sess[s].pending_fd,
                                  !.pending_fd = None]
  <2>1. UNCHANGED <<clientVars, netVars, acc, table, made, held, ran, failed>>
        /\ sess[s].pending_fd # None /\ sess' = [sess EXCEPT ![s] = S]
    BY <1>9 DEF TakeUp
  <2>2. S \in SessionRec /\ S.pc = "reading" /\ S.fd # None
    BY <1>1, <1>2, <2>1 DEF SessionRec, ServePcs
  <2> HIDE DEF S
  <2>3. QED
    BY <1>5, <1>8, <2>1, <2>2 DEF Fine
<1>10. CASE Expire(s)
  <2> DEFINE S == [sess[s] EXCEPT !.pc = "ended", !.finished = TRUE]
  <2>1. UNCHANGED <<clientVars, netVars, acc, table, made, held, ran, failed>>
        /\ sess' = [sess EXCEPT ![s] = S]
    BY <1>10 DEF Expire
  <2>2. S \in SessionRec /\ S.pc = "ended"
    BY <1>1 DEF SessionRec, ServePcs
  <2> HIDE DEF S
  <2>3. Fine(S)
    BY <2>2 DEF Fine, Serving
  <2>4. QED
    BY <1>5, <1>8, <2>1, <2>2, <2>3
<1>11. CASE Leave(s)
  <2> DEFINE S == [sess[s] EXCEPT !.pc = "dead"]
             zero == [t \in Threads |-> 0]
  <2>1. UNCHANGED <<clientVars, netVars, acc, made, ran, failed>>
        /\ sess' = [sess EXCEPT ![s] = S] /\ table' \in {None, table}
    BY <1>11 DEF Leave
  <2>2. held' = [held EXCEPT ![s] = zero]
    BY <1>11 DEF Leave
  <2>3. S \in SessionRec /\ S.pc = "dead"
    BY <1>1 DEF SessionRec, ServePcs
  <2> HIDE DEF S
  <2>4. S.pc \notin Serving /\ S.pc \notin {"run", "record"}
    BY <2>3 DEF Serving
  <2>5. issued' = issued
    BY <2>1 DEF clientVars
  <2>6. /\ sess' \in [Sessions -> SessionRec]
        /\ \A x \in Sessions :
             /\ sess'[x].pc \in Serving => sess'[x].fd # None
             /\ sess'[x].pc \in {"run", "record"} => sess'[x].cur \in Made'
    BY <2>1, <2>3, <2>4, <2>5, SessUpdate
  <2>7. table' \in 0 .. MaxSessions
    BY <1>2, <2>1 DEF ServerTypeOK
  <2>8. held' \in [Sessions -> [Threads -> Result]]
    <3>1. zero \in [Threads -> Result]
      BY <1>2 DEF Result
    <3> HIDE DEF zero
    <3>2. QED
      BY <2>2, <3>1 DEF ServerTypeOK
  <2>9. ServerTypeOK'
    BY <2>1, <2>6, <2>7, <2>8 DEF ServerTypeOK
  <2>10. QED
    BY <1>8, <2>1, <2>9
<1>12. CASE AnswerCopy(s)
  <2>1. UNCHANGED <<clientVars, dialed, acc, table, made, held, ran, failed>>
        /\ sess[s].pc = "reading" /\ up[sess[s].fd] # <<>>
    BY <1>12 DEF AnswerCopy, Reading
  <2>2. sess[s].pc \in Serving
    BY <2>1 DEF Serving
  <2>3. CASE Write(sess[s].fd, <<sess[s].reply>>) /\ Consume(s) /\ UNCHANGED <<sess, live>>
    <3>1. down' \in [Conns -> Seq(Message)]
      <4>1. sess[s].reply \in Message
        BY <1>1, RepliesAreMessages DEF SessionRec
      <4>2. QED
        BY <1>3, <2>2, <2>3, <4>1, ServerWriteType
    <3>2. live' \in [Conns -> BOOLEAN]
      BY <2>3 DEF NetTypeOK
    <3>3. ClientTypeOK' /\ NetTypeOK'
      BY <1>6, <2>1, <2>2, <2>3, <3>1, <3>2
    <3>4. ServerTypeOK'
      BY <2>1, <2>3, ServerSame DEF serverVars, clientVars
    <3>5. QED
      BY <3>3, <3>4
  <2>4. CASE Hangup(s) /\ up' = [up EXCEPT ![sess[s].fd] = <<>>] /\ UNCHANGED down
    BY <1>7, <2>1, <2>4
  <2>5. QED
    BY <1>12, <2>3, <2>4 DEF AnswerCopy
<1>13. CASE SkipCopy(s)
  <2>1. UNCHANGED <<clientVars, dialed, live, down, serverVars>> /\ Consume(s)
        /\ sess[s].pc = "reading" /\ up[sess[s].fd] # <<>>
    BY <1>13 DEF SkipCopy, Reading
  <2>2. live' \in [Conns -> BOOLEAN] /\ down' \in [Conns -> Seq(Message)]
    BY <2>1 DEF NetTypeOK
  <2>3. ClientTypeOK' /\ NetTypeOK'
    BY <1>6, <2>1, <2>2 DEF Serving
  <2>4. ServerTypeOK'
    BY <2>1, ServerSame DEF clientVars
  <2>5. QED
    BY <2>3, <2>4
<1>14. CASE TakeRequest(s)
  <2> DEFINE S == [sess[s] EXCEPT !.pc = "run", !.cur = Next1(s)]
  <2>1. UNCHANGED <<clientVars, dialed, live, down, acc, table, made, held, ran, failed>>
        /\ sess[s].pc = "reading" /\ up[sess[s].fd] # <<>> /\ Consume(s)
        /\ sess' = [sess EXCEPT ![s] = S]
    BY <1>14 DEF TakeRequest, Reading
  <2>2. Next1(s) \in Made /\ Next1(s) \in 0 .. MaxReq
    <3>1. Next1(s) \in Made
      BY <1>4, <2>1 DEF Serving
    <3>2. Made \subseteq 0 .. MaxReq
      BY Bounds DEF Made, ClientTypeOK
    <3>3. QED
      BY <3>1, <3>2
  <2>3. S \in SessionRec /\ S.pc = "run" /\ S.cur = Next1(s) /\ S.fd = sess[s].fd
    BY <1>1, <2>2 DEF SessionRec, ServePcs
  <2> HIDE DEF S
  <2>4. Fine(S)
    BY <1>1, <2>1, <2>2, <2>3 DEF Fine, Serving
  <2>5. ServerTypeOK'
    BY <1>5, <2>1, <2>3, <2>4
  <2>6. ClientTypeOK' /\ NetTypeOK'
    BY <1>6, <2>1 DEF NetTypeOK, Serving
  <2>7. QED
    BY <2>5, <2>6
<1>15. CASE Run(s)
  <2>1. UNCHANGED <<clientVars, netVars, acc, table, made, held>> /\ sess[s].pc = "run"
        /\ ran' = [ran EXCEPT ![s] = Append(@, sess[s].cur)]
    BY <1>15 DEF Run
  <2>2. PICK r \in {0, sess[s].cur} :
          /\ failed' \in {failed, failed \union {sess[s].cur}}
          /\ sess' = [sess EXCEPT ![s].pc = "record", ![s].result = r]
    BY <1>15 DEF Run
  <2> DEFINE S == [sess[s] EXCEPT !.pc = "record", !.result = r]
  <2>3. sess[s].cur \in Made /\ sess[s].cur \in Reqs /\ sess[s].cur \in Result
    <3>1. sess[s].cur \in Made
      BY <1>1, <2>1 DEF Fine
    <3>2. Made \subseteq Reqs /\ Made \subseteq Result
      BY Bounds DEF Made, Reqs, Result, ClientTypeOK
    <3>3. QED
      BY <3>1, <3>2
  <2>4. S \in SessionRec /\ S.pc = "record" /\ S.cur = sess[s].cur /\ S.fd = sess[s].fd
    <3>1. r \in Result
      BY <1>2, <2>3 DEF Result
    <3>2. QED
      BY <1>1, <3>1 DEF SessionRec, ServePcs
  <2>5. sess' = [sess EXCEPT ![s] = S]
    BY <2>2
  <2> HIDE DEF S
  <2>6. S.fd # None
    BY <1>1, <2>1, <2>4 DEF Fine, Serving
  <2>7. issued' = issued
    BY <2>1 DEF clientVars
  <2>8. /\ sess' \in [Sessions -> SessionRec]
        /\ \A x \in Sessions :
             /\ sess'[x].pc \in Serving => sess'[x].fd # None
             /\ sess'[x].pc \in {"run", "record"} => sess'[x].cur \in Made'
    BY <2>3, <2>4, <2>5, <2>6, <2>7, SessUpdate
  <2>9. failed' \subseteq Reqs /\ ran' \in [Sessions -> Seq(Reqs)]
    <3>1. ran[s] \in Seq(Reqs)
      BY DEF ServerTypeOK
    <3>2. Append(ran[s], sess[s].cur) \in Seq(Reqs)
      BY <2>3, <3>1, AppendProperties
    <3>3. QED
      BY <2>1, <2>2, <2>3, <3>2 DEF ServerTypeOK
  <2>10. ServerTypeOK'
    BY <2>1, <2>8, <2>9 DEF ServerTypeOK
  <2>11. QED
    BY <1>8, <2>1, <2>10
<1>16. CASE RecordAsync(s)
  <2> DEFINE S == [sess[s] EXCEPT !.pc = "reading", !.last_req = sess[s].cur,
                                  !.cur = 0, !.result = 0]
             t == issued[sess[s].cur].thread
  <2>1. UNCHANGED <<clientVars, netVars, acc, table, made, ran, failed>>
        /\ sess[s].pc = "record" /\ sess' = [sess EXCEPT ![s] = S]
        /\ held' \in {held, [held EXCEPT ![s][t] = sess[s].result]}
    BY <1>16 DEF RecordAsync
  <2>2. S \in SessionRec /\ S.pc = "reading" /\ S.fd = sess[s].fd
    BY <1>1, <1>2 DEF SessionRec, ServePcs, Result
  <2> HIDE DEF S
  <2>3. S.pc \notin {"run", "record"} /\ S.fd # None
    BY <1>1, <2>1, <2>2 DEF Fine, Serving
  <2>4. issued' = issued
    BY <2>1 DEF clientVars
  <2>5. /\ sess' \in [Sessions -> SessionRec]
        /\ \A x \in Sessions :
             /\ sess'[x].pc \in Serving => sess'[x].fd # None
             /\ sess'[x].pc \in {"run", "record"} => sess'[x].cur \in Made'
    BY <2>1, <2>2, <2>3, <2>4, SessUpdate
  <2>6. held' \in [Sessions -> [Threads -> Result]]
    <3>1. sess[s].result \in Result
      BY <1>1 DEF SessionRec
    <3>2. t \in Threads
      <4>1. sess[s].cur \in Made
        BY <1>1, <2>1 DEF Fine
      <4>2. issued[sess[s].cur] \in CallRec
        BY <4>1, ElementOfSeq DEF ClientTypeOK, Made
      <4>3. QED
        BY <4>2 DEF CallRec
    <3> HIDE DEF t
    <3>3. [held EXCEPT ![s][t] = sess[s].result] \in [Sessions -> [Threads -> Result]]
      BY <3>1, <3>2 DEF ServerTypeOK
    <3>4. QED
      BY <2>1, <3>3 DEF ServerTypeOK
  <2>7. ServerTypeOK'
    BY <2>1, <2>5, <2>6 DEF ServerTypeOK
  <2>8. QED
    BY <1>8, <2>1, <2>7
<1>17. CASE RecordCall(s)
  <2> DEFINE t == issued[sess[s].cur].thread
             r == IF Folds(s, t) THEN held[s][t] ELSE sess[s].result
             S == [sess[s] EXCEPT !.pc = "send", !.last_req = sess[s].cur,
                                  !.reply = Response(sess[s].cur, r),
                                  !.cur = 0, !.result = 0]
  <2>1. UNCHANGED <<clientVars, netVars, acc, table, made, ran, failed>>
        /\ sess[s].pc = "record" /\ sess' = [sess EXCEPT ![s] = S]
        /\ held' = HeldAfterReply(s, t)
    BY <1>17 DEF RecordCall
  <2>2. t \in Threads
    <3>1. sess[s].cur \in Made
      BY <1>1, <2>1 DEF Fine
    <3>2. issued[sess[s].cur] \in CallRec
      BY <3>1, ElementOfSeq DEF ClientTypeOK, Made
    <3>3. QED
      BY <3>2 DEF CallRec
  <2> HIDE DEF t
  <2>3. r \in Result
    BY <1>1, <2>2 DEF SessionRec, ServerTypeOK
  <2> HIDE DEF r
  <2>4. Response(sess[s].cur, r) \in Replies
    BY <1>1, <2>3 DEF Response, Replies, SessionRec
  <2>5. S \in SessionRec /\ S.pc = "send" /\ S.fd = sess[s].fd
    BY <1>1, <1>2, <2>4 DEF SessionRec, ServePcs, Result
  <2> HIDE DEF S
  <2>6. S.pc \notin {"run", "record"} /\ S.fd # None
    BY <1>1, <2>1, <2>5 DEF Fine, Serving
  <2>7. issued' = issued
    BY <2>1 DEF clientVars
  <2>8. /\ sess' \in [Sessions -> SessionRec]
        /\ \A x \in Sessions :
             /\ sess'[x].pc \in Serving => sess'[x].fd # None
             /\ sess'[x].pc \in {"run", "record"} => sess'[x].cur \in Made'
    BY <2>1, <2>5, <2>6, <2>7, SessUpdate
  <2>9. held' \in [Sessions -> [Threads -> Result]]
    BY <1>2, <2>1, <2>2 DEF HeldAfterReply, ServerTypeOK, Result
  <2>10. ServerTypeOK'
    BY <2>1, <2>8, <2>9 DEF ServerTypeOK
  <2>11. QED
    BY <1>8, <2>1, <2>10
<1>18. CASE SendReply(s)
  <2>1. UNCHANGED <<clientVars, dialed, acc, table, made, held, ran, failed>>
        /\ sess[s].pc = "send"
    BY <1>18 DEF SendReply
  <2>2. CASE /\ Write(sess[s].fd, <<sess[s].reply>>)
             /\ sess' = [sess EXCEPT ![s].pc = "reading"] /\ UNCHANGED <<live, up>>
    <3> DEFINE S == [sess[s] EXCEPT !.pc = "reading"]
    <3>1. S \in SessionRec /\ S.pc = "reading" /\ S.fd = sess[s].fd
          /\ sess' = [sess EXCEPT ![s] = S]
      BY <1>1, <2>2 DEF SessionRec, ServePcs
    <3> HIDE DEF S
    <3>2. Fine(S)
      BY <1>1, <2>1, <3>1 DEF Fine, Serving
    <3>3. issued' = issued /\ ServerTypeOK'
      BY <1>5, <2>1, <3>1, <3>2
    <3>4. down' \in [Conns -> Seq(Message)]
      <4>1. sess[s].reply \in Message
        BY <1>1, RepliesAreMessages DEF SessionRec
      <4>2. QED
        BY <1>3, <2>1, <2>2, <4>1, ServerWriteType DEF Serving
    <3>5. ClientTypeOK' /\ NetTypeOK'
      BY <2>1, <2>2, <3>3, <3>4, ClientSame DEF NetTypeOK, Made
    <3>6. QED
      BY <3>3, <3>5
  <2>3. CASE Hangup(s) /\ up' = [up EXCEPT ![sess[s].fd] = <<>>] /\ UNCHANGED down
    BY <1>7, <2>1, <2>3
  <2>4. QED
    BY <1>18, <2>2, <2>3 DEF SendReply
<1>19. CASE EndConnection(s)
  BY <1>19, <1>7 DEF EndConnection
<1>20. QED
  BY <1>9, <1>10, <1>11, <1>12, <1>13, <1>14, <1>15, <1>16, <1>17, <1>18, <1>19 DEF Serve

(* A connection that breaks keeps a prefix of what it carried.             *)
LEMMA TypeBreak == ASSUME TypeOK, NEW c \in Conns, Break(c) PROVE TypeOK'
<1> USE DEF TypeOK
<1>1. UNCHANGED <<dialed, clientVars, serverVars>> /\ live' = [live EXCEPT ![c] = FALSE]
  BY DEF Break
<1>2. PICK i \in 0 .. Len(up[c]), j \in 0 .. Len(down[c]) :
        /\ up' = [up EXCEPT ![c] = SubSeq(@, 1, i)]
        /\ down' = [down EXCEPT ![c] = SubSeq(@, 1, j)]
  BY DEF Break
<1>3. issued' = issued
  BY <1>1 DEF clientVars
<1>4. up[c] \in Seq(Made) /\ down[c] \in Seq(Message)
  BY DEF NetTypeOK
<1>5. SubSeq(up[c], 1, i) \in Seq(Made) /\ SubSeq(down[c], 1, j) \in Seq(Message)
  BY <1>4
<1>6. ClientTypeOK' /\ ServerTypeOK'
  BY <1>1, <1>3, ClientSame, ServerSame
<1>7. live' \in [Conns -> BOOLEAN]
  BY <1>1 DEF NetTypeOK
<1>8. up' \in [Conns -> Seq(Made)] /\ down' \in [Conns -> Seq(Message)]
  BY <1>2, <1>5 DEF NetTypeOK
<1>9. NetTypeOK'
  BY <1>1, <1>3, <1>7, <1>8 DEF NetTypeOK, Made
<1>10. QED
  BY <1>6, <1>9

(* A server started again has no session and no connection.                *)
LEMMA TypeRestart == ASSUME TypeOK, Restart PROVE TypeOK'
<1> USE DEF TypeOK
<1>1. UNCHANGED <<clientVars, dialed, down, made, ran, failed>>
      /\ live' = [c \in Conns |-> FALSE] /\ up' = [c \in Conns |-> <<>>] /\ table' = None
      /\ held' = [s \in Sessions |-> [t \in Threads |-> 0]]
  BY DEF Restart
<1>2. issued' = issued
  BY <1>1 DEF clientVars
<1>3. ClientTypeOK' /\ NetTypeOK'
  <2>1. live' \in [Conns -> BOOLEAN]
    BY <1>1
  <2>2. up' \in [Conns -> Seq(Made)]
    BY <1>1, EmptySeq
  <2>3. QED
    BY <1>1, <1>2, <2>1, <2>2, ClientSame DEF NetTypeOK, Made
<1>4. /\ acc' \in [Conns -> AcceptRec]
      /\ \A c \in Conns : acc'[c].pc \in {"none", "done"}
  <2>1. \A c \in Conns : [acc[c] EXCEPT !.pc = "done"] \in AcceptRec
    BY DEF ServerTypeOK, AcceptRec, HandshakePcs
  <2>2. acc' = [c \in Conns |-> IF acc[c].pc = "none" THEN acc[c]
                                ELSE [acc[c] EXCEPT !.pc = "done"]]
    BY DEF Restart
  <2>3. \A c \in Conns : acc'[c] \in AcceptRec /\ acc'[c].pc \in {"none", "done"}
    BY <2>1, <2>2 DEF ServerTypeOK, AcceptRec
  <2>4. QED
    BY <2>2, <2>3
<1>5. /\ sess' \in [Sessions -> SessionRec]
      /\ \A s \in Sessions : sess'[s].pc \in {"none", "dead"}
  <2> DEFINE D == [NoSession EXCEPT !.pc = "dead", !.finished = TRUE]
  <2>1. D \in SessionRec /\ D.pc = "dead"
    <3>1. NoneKept \in Replies
      BY Bounds DEF NoneKept, Response, Replies, Result
    <3>2. 0 \in 0 .. MaxReq /\ 0 \in 0 .. MaxConns
      BY Bounds
    <3>3. QED
      BY <3>1, <3>2 DEF NoSession, SessionRec, ServePcs, None, Result
  <2>2. sess' = [s \in Sessions |-> IF sess[s].pc = "none" THEN sess[s] ELSE D]
    BY DEF Restart
  <2> HIDE DEF D
  <2>3. QED
    BY <2>1, <2>2 DEF ServerTypeOK
<1>6. table' \in 0 .. MaxSessions /\ held' \in [Sessions -> [Threads -> Result]]
  BY <1>1, Bounds DEF None, Result
<1>7. ServerTypeOK'
  BY <1>1, <1>4, <1>5, <1>6 DEF ServerTypeOK, Serving
<1>8. QED
  BY <1>3, <1>7

(* Every variable keeps its type; a connection in use, a request in hand   *)
(* and a frame anywhere is one that exists.                                *)
THEOREM TypeCorrect == Spec => []TypeOK
<1>1. TypeOK /\ [Next]_vars => TypeOK'
  <2> SUFFICES ASSUME TypeOK, [Next]_vars PROVE TypeOK'
    OBVIOUS
  <2>1. CASE Next
    BY <2>1, TypeClient, TypeAccept, TypeServe, TypeBreak, TypeRestart DEF Next
  <2>2. CASE UNCHANGED vars
    <3>1. UNCHANGED <<clientVars, netVars, serverVars, issued, dialed>>
      BY <2>2 DEF vars, clientVars, netVars
    <3>2. QED
      BY <3>1, ClientSame, NetSame, ServerSame DEF TypeOK
  <2>3. QED
    BY <2>1, <2>2
<1>2. QED
  BY <1>1, TypeInit, PTL DEF Spec

-----------------------------------------------------------------------------
(* Order.  The inductive invariant is OrderInv of CallStream; the          *)
(* arithmetic of the ids, which stands first, comes in once, where serve   *)
(* takes a request past its at-most-once check.                            *)

(* Why the wire's order of request ids is the order of the requests.       *)

(* Every id minted is a word other than 0: minting skips "no request".     *)
LEMMA IdIsAnId ==
  ASSUME NEW first \in Ids, NEW n \in 1 .. Modulus - 1
  PROVE  IdFrom(first, n) \in Ids
  BY HalfAssumption DEF IdFrom, Ids, Word, Modulus, NoReq

(* The counter of mint_req_id_locked, after the n-th request, mints the    *)
(* id IdFrom gives the next one.                                           *)
THEOREM MintFollowsIdFrom ==
  ASSUME NEW first \in Ids, NEW n \in 1 .. Modulus - 2
  PROVE  MintedId(CounterAfter(IdFrom(first, n))) = IdFrom(first, n + 1)
  BY HalfAssumption
     DEF IdFrom, MintedId, CounterAfter, Ids, Word, Modulus, NoReq

(* For requests at most Window apart, req_at_or_before on the ids is the   *)
(* order in which the requests were made, across the wrap and the skipped  *)
(* 0, and with "no request" first.                                         *)
THEOREM OrderOfIds ==
  ASSUME NEW first \in Ids, NEW m \in 0 .. Modulus - 1, NEW n \in 0 .. Modulus - 1,
         m = 0 \/ n = 0 \/ (m <= n + Window /\ n <= m + Window)
  PROVE  ReqAtOrBefore(IdFrom(first, m), IdFrom(first, n)) <=> m <= n
<1>1. CASE m = 0
  BY <1>1, HalfAssumption DEF ReqAtOrBefore, IdFrom, NoReq, Modulus
<1>2. CASE m # 0 /\ n = 0
  <2>1. IdFrom(first, m) # NoReq
    BY <1>2, IdIsAnId DEF Ids
  <2>2. QED
    BY <1>2, <2>1 DEF ReqAtOrBefore, IdFrom, NoReq
<1>3. CASE m # 0 /\ n # 0
  BY <1>3, HalfAssumption
     DEF ReqAtOrBefore, Forward, IdFrom, Ids, Word, NoReq, Modulus, Window
<1>4. QED
  BY <1>1, <1>2, <1>3

(* On the ids of two requests of one process, the comparison both sides    *)
(* make is the order of issue: MaxReq is within the window.                *)
LEMMA AtOrBeforeIsOrder ==
  ASSUME NEW m \in 0 .. MaxReq, NEW n \in 0 .. MaxReq
  PROVE  AtOrBefore(m, n) <=> m <= n
<1>1. m \in 0 .. Modulus - 1 /\ n \in 0 .. Modulus - 1
  BY HalfAssumption, CallStreamAssumption DEF Modulus, Window
<1>2. m <= n + Window /\ n <= m + Window
  BY HalfAssumption, CallStreamAssumption DEF Window
<1>3. QED
  BY <1>1, <1>2, FirstReqAssumption, OrderOfIds DEF AtOrBefore, IdOf
-----------------------------------------------------------------------------
(* The order of execution.                                                 *)

(* At the start nothing is served and nothing has run.                     *)
LEMMA OrderInit == Init => OrderInv
<1> SUFFICES ASSUME Init PROVE OrderInv
  OBVIOUS
<1> USE Bounds DEF Init, None
<1>1. \A c \in Conns : acc[c].pc = "none"
  BY DEF NoHandshake
<1>2. AcceptInv
  BY <1>1 DEF AcceptInv, Founding
<1>3. \A s \in Sessions : sess[s].pc = "none" /\ ran[s] = <<>>
  BY DEF NoSession
<1>4. \A s \in Sessions : SessionInv(s)
  BY <1>3 DEF SessionInv, InOrder
<1>5. QED
  BY <1>2, <1>4 DEF OrderInv

(* OrderInv is about the accept threads, the table and the sessions.       *)
LEMMA OrderSame ==
  ASSUME OrderInv, UNCHANGED <<acc, table, made, sess, ran>> PROVE OrderInv'
  BY DEF OrderInv, AcceptInv, Founding, SessionInv

(* The handshake of c moves on, keeping the session it has and whether it  *)
(* found it; nothing else changes.                                         *)
LEMMA OrderAccept ==
  ASSUME TypeOK, OrderInv, NEW c \in Conns, NEW h,
         acc' = [acc EXCEPT ![c] = h], UNCHANGED <<made, sess, ran>>,
         table' \in {table, None},
         h.pc \notin {"none", "hello", "done"} => h.s \in 1 .. made,
         h.pc = "start" => ~h.resumed,
         h.pc \in {"snapshot", "reply", "start"} /\ ~h.resumed =>
           Founding(c) /\ h.s = acc[c].s
  PROVE  OrderInv'
<1>1. \A d \in Conns : acc'[d] = IF d = c THEN h ELSE acc[d]
  BY DEF TypeOK, ServerTypeOK
<1>2. \A d \in Conns : Founding(d)' => Founding(d) /\ acc'[d].s = acc[d].s
  BY <1>1 DEF Founding
<1>3. table' <= made'
  BY DEF OrderInv, AcceptInv, TypeOK, ServerTypeOK, None
<1>4. AcceptInv'
  BY <1>1, <1>2, <1>3 DEF OrderInv, AcceptInv
<1>5. QED
  BY <1>4 DEF OrderInv, SessionInv

(* A handshake that ends founds nothing.                                   *)
LEMMA OrderDone ==
  ASSUME TypeOK, OrderInv, NEW c \in Conns, HandshakeDone(c),
         UNCHANGED <<table, made, sess, ran>>
  PROVE  OrderInv'
<1> DEFINE h == [acc[c] EXCEPT !.pc = "done"]
<1>1. acc' = [acc EXCEPT ![c] = h] /\ h.pc = "done"
  BY DEF HandshakeDone, TypeOK, ServerTypeOK, AcceptRec
<1> HIDE DEF h
<1>2. QED
  BY <1>1, OrderAccept

(* A session's record changes, and what it ran; a session that is founded  *)
(* by a handshake still waits to be served.                                *)
LEMMA OrderSession ==
  ASSUME TypeOK, OrderInv, NEW s \in Sessions,
         UNCHANGED made, table' \in {table, None},
         \A x \in Sessions \ {s} : sess'[x] = sess[x] /\ ran'[x] = ran[x],
         \A c \in Conns : /\ acc'[c] = acc[c] \/ acc'[c].pc = "done"
                          /\ Founding(c)' /\ acc'[c].s = s => sess'[s].pc = "starting",
         SessionInv(s)'
  PROVE  OrderInv'
<1>1. table' <= made'
  BY DEF OrderInv, AcceptInv, TypeOK, ServerTypeOK, None
<1>2. \A c \in Conns : Founding(c)' => Founding(c) /\ acc'[c] = acc[c]
  BY DEF Founding
<1>3. \A c \in Conns : Founding(c)' => sess'[acc'[c].s].pc = "starting"
  <2> SUFFICES ASSUME NEW c \in Conns, Founding(c)' PROVE sess'[acc'[c].s].pc = "starting"
    OBVIOUS
  <2>1. sess[acc[c].s].pc = "starting" /\ acc'[c] = acc[c] /\ acc[c].s \in 1 .. made
    BY <1>2 DEF OrderInv, AcceptInv, Founding
  <2>2. acc[c].s \in Sessions
    BY <2>1, Bounds DEF Sessions, TypeOK, ServerTypeOK
  <2>3. QED
    BY <2>1, <2>2
<1>4. AcceptInv'
  BY <1>1, <1>2, <1>3 DEF OrderInv, AcceptInv
<1>5. \A x \in Sessions \ {s} : SessionInv(x)'
  BY DEF OrderInv, SessionInv
<1>6. QED
  BY <1>4, <1>5 DEF OrderInv

(* The client changes none of it but by opening a connection.              *)
LEMMA OrderClient == ASSUME TypeOK, OrderInv, Client PROVE OrderInv'
<1>1. CASE UNCHANGED serverVars
  BY <1>1, OrderSame DEF serverVars
<1>2. CASE Dial
  <2> DEFINE h == [NoHandshake EXCEPT !.pc = "hello", !.last = last_reply,
                                      !.resuming = had_session]
  <2>1. acc' = [acc EXCEPT ![dialed + 1] = h] /\ UNCHANGED <<table, made, sess, ran>>
        /\ dialed + 1 \in Conns
    BY <1>2, Bounds DEF Dial, TypeOK, NetTypeOK, Conns
  <2>2. h.pc = "hello"
    BY DEF NoHandshake
  <2> HIDE DEF h
  <2>3. QED
    BY <2>1, <2>2, OrderAccept
<1>3. QED
  BY <1>1, <1>2
     DEF Client, StartConnecting, QueueFrame, Refused, GiveUp, HelloUnanswered, HelloBusy,
         HelloGone, HelloStarted, HelloResumed, Flush, FlushFails, RecvReply, RecvFails

(* Every step of an accept thread keeps OrderInv.                          *)
LEMMA OrderAcceptThread == ASSUME TypeOK, OrderInv, NEW c \in Conns, Accept(c) PROVE OrderInv'
<1>1. acc[c] \in AcceptRec
  BY DEF TypeOK, ServerTypeOK
<1>2. CASE HelloNeverArrives(c) \/ RefuseSession(c) \/ TellGone(c)
  BY <1>2, OrderDone DEF HelloNeverArrives, RefuseSession, TellGone
<1>3. CASE FindSession(c)
  <2> DEFINE h == [acc[c] EXCEPT !.pc = "snapshot", !.s = table, !.resumed = TRUE]
  <2>1. acc' = [acc EXCEPT ![c] = h] /\ UNCHANGED <<table, made, sess, ran>> /\ table # None
    BY <1>3 DEF FindSession, InTable
  <2>2. h.pc = "snapshot" /\ h.s = table /\ h.resumed = TRUE
    BY <1>1 DEF AcceptRec
  <2>3. table \in 1 .. made
    BY <2>1, Bounds DEF OrderInv, AcceptInv, TypeOK, ServerTypeOK, None
  <2> HIDE DEF h
  <2>4. QED
    BY <2>1, <2>2, <2>3, OrderAccept
<1>4. CASE StartSession(c)
  <2> DEFINE s == made + 1
             h == [acc[c] EXCEPT !.pc = "snapshot", !.s = s]
  <2>1. /\ acc' = [acc EXCEPT ![c] = h] /\ sess' = [sess EXCEPT ![s].pc = "starting"]
        /\ made' = s /\ table' = s /\ UNCHANGED ran /\ acc[c].pc = "hello"
    BY <1>4 DEF StartSession
  <2>2. s \in Sessions /\ made \in Nat
    BY <1>4, Bounds DEF StartSession, TypeOK, ServerTypeOK, Sessions
  <2>3. h.s = s
    BY <1>1 DEF AcceptRec
  <2>4. \A d \in Conns : acc'[d] = IF d = c THEN h ELSE acc[d]
    BY <2>1 DEF TypeOK, ServerTypeOK
  <2>5. \A x \in Sessions : /\ x # s => sess'[x] = sess[x]
                            /\ x = s => sess'[x].pc = "starting"
                                        /\ sess'[x].last_req = sess[x].last_req
    BY <2>1, <2>2 DEF TypeOK, ServerTypeOK, SessionRec
  <2>6. \A x \in Sessions : SessionInv(x)'
    <3> SUFFICES ASSUME NEW x \in Sessions PROVE SessionInv(x)'
      OBVIOUS
    <3>1. SessionInv(x) /\ ran'[x] = ran[x] /\ x \in Nat
      BY <2>1, Bounds DEF OrderInv, Sessions
    <3>2. CASE x = s
      <4>1. ran'[x] = <<>>
        BY <2>2, <3>1, <3>2 DEF SessionInv
      <4>2. QED
        BY <2>1, <2>2, <2>5, <3>2, <4>1 DEF SessionInv, InOrder
    <3>3. CASE x # s
      BY <2>1, <2>2, <2>5, <3>1, <3>3 DEF SessionInv
    <3>4. QED
      BY <3>2, <3>3
  <2> HIDE DEF h
  <2>7. AcceptInv'
    <3>1. \A d \in Conns \ {c} : /\ acc'[d] = acc[d] /\ (Founding(d)' <=> Founding(d))
                                 /\ acc[d].pc \notin {"none", "hello", "done"} =>
                                      acc[d].s \in 1 .. made
                                 /\ acc[d].pc = "start" => ~acc[d].resumed
      BY <2>4 DEF OrderInv, AcceptInv, Founding
    <3>2. \A d \in Conns \ {c} : Founding(d) =>
            sess[acc[d].s].pc = "starting" /\ acc[d].s \in 1 .. made
      BY <3>1 DEF OrderInv, AcceptInv, Founding
    <3>3. 1 .. made \subseteq Sessions \ {s}
      BY <2>2, Bounds DEF Sessions
    <3>4. \A d \in Conns : Founding(d)' => sess'[acc'[d].s].pc = "starting"
      BY <2>2, <2>3, <2>4, <2>5, <3>1, <3>2, <3>3
    <3>5. \A d, e \in Conns : Founding(d)' /\ Founding(e)' /\ acc'[d].s = acc'[e].s => d = e
      <4>1. \A d, e \in Conns \ {c} : Founding(d) /\ Founding(e) /\ acc[d].s = acc[e].s => d = e
        BY DEF OrderInv, AcceptInv
      <4>2. \A d \in Conns \ {c} : Founding(d)' => acc'[d].s # acc'[c].s
        BY <2>3, <2>4, <3>1, <3>2, <3>3
      <4>3. QED
        BY <3>1, <4>1, <4>2
    <3>6. \A d \in Conns :
            /\ acc'[d].pc \notin {"none", "hello", "done"} => acc'[d].s \in 1 .. made'
            /\ acc'[d].pc = "start" => ~acc'[d].resumed
      <4>1. h.pc = "snapshot"
        BY <1>1 DEF AcceptRec, h
      <4>2. s \in 1 .. made' /\ 1 .. made \subseteq 1 .. made'
        BY <2>1, <2>2
      <4>3. QED
        BY <2>3, <2>4, <3>1, <4>1, <4>2
    <3>7. QED
      BY <2>1, <2>2, <3>4, <3>5, <3>6 DEF AcceptInv
  <2>8. QED
    BY <2>6, <2>7 DEF OrderInv
<1>5. CASE Snapshot(c)
  <2> DEFINE S == sess[acc[c].s]
             h == [acc[c] EXCEPT !.pc = "reply", !.snap = S.last_req,
                                 !.kept = IF Unanswered(c, S.reply)
                                          THEN S.reply ELSE NoneKept]
  <2>1. acc' = [acc EXCEPT ![c] = h] /\ UNCHANGED <<table, made, sess, ran>>
        /\ acc[c].pc = "snapshot"
    BY <1>5 DEF Snapshot
  <2>2. h.pc = "reply" /\ h.s = acc[c].s /\ h.resumed = acc[c].resumed
    BY <1>1 DEF AcceptRec
  <2> HIDE DEF h
  <2>3. acc[c].s \in 1 .. made
    BY <2>1 DEF OrderInv, AcceptInv
  <2>4. h.pc \in {"snapshot", "reply", "start"} /\ ~h.resumed => Founding(c)
    BY <2>1, <2>2 DEF Founding
  <2>5. QED
    BY <2>1, <2>2, <2>3, <2>4, OrderAccept
<1>6. CASE WriteHello(c)
  <2> DEFINE h == [acc[c] EXCEPT !.pc = AfterReply(c)]
  <2>1. acc' = [acc EXCEPT ![c] = h] /\ UNCHANGED <<table, made, sess, ran>>
        /\ acc[c].pc = "reply"
    BY <1>6 DEF WriteHello
  <2>2. h.pc = AfterReply(c) /\ h.s = acc[c].s /\ h.resumed = acc[c].resumed
    BY <1>1 DEF AcceptRec
  <2> HIDE DEF h
  <2>3. acc[c].s \in 1 .. made
    BY <2>1 DEF OrderInv, AcceptInv
  <2>4. h.pc \in {"snapshot", "reply", "start"} /\ ~h.resumed => Founding(c)
    BY <2>1, <2>2 DEF Founding
  <2>5. h.pc = "start" => ~h.resumed
    BY <2>2 DEF AfterReply
  <2>6. QED
    BY <2>1, <2>2, <2>3, <2>4, <2>5, OrderAccept
<1>7. CASE WriteHelloFails(c)
  <2>1. HandshakeDone(c) /\ UNCHANGED <<made, ran>> /\ acc[c].pc = "reply"
    BY <1>7 DEF WriteHelloFails
  <2>2. CASE UNCHANGED <<table, sess, live>>
    BY <2>1, <2>2, OrderDone
  <2>3. CASE ~acc[c].resumed
    <3>1. PICK s \in Sessions : s = acc[c].s
      BY <2>1, Bounds DEF OrderInv, AcceptInv, Sessions, TypeOK, ServerTypeOK
    <3>2. Founding(c) /\ sess[s].pc = "starting"
      BY <2>1, <2>3, <3>1 DEF Founding, OrderInv, AcceptInv
    <3>3. ran[s] = <<>> /\ SessionInv(s)
      BY <3>2 DEF OrderInv, SessionInv
    <3>4. /\ table' \in {table, None}
          /\ sess' = [sess EXCEPT ![s].finished = TRUE, ![s].pc = "dead",
                                  ![s].pending_fd = None]
      BY <1>7, <2>3, <3>1 DEF WriteHelloFails
    <3>5. \A x \in Sessions \ {s} : sess'[x] = sess[x] /\ ran'[x] = ran[x]
      BY <2>1, <3>4 DEF TypeOK, ServerTypeOK
    <3>6. sess'[s].pc = "dead" /\ made' = made /\ ran' = ran
      BY <2>1, <3>4 DEF TypeOK, ServerTypeOK, SessionRec
    <3>7. SessionInv(s)'
      <4>1. ~(s > made)
        BY <3>2, <3>3 DEF SessionInv
      <4>2. DOMAIN ran'[s] = {} /\ sess'[s].pc = "dead" /\ ~(s > made')
        BY <3>3, <3>6, <4>1
      <4>3. QED
        BY <4>2 DEF SessionInv, InOrder
    <3>8. \A d \in Conns : /\ acc'[d] = acc[d] \/ acc'[d].pc = "done"
                           /\ Founding(d)' /\ acc'[d].s = s => sess'[s].pc = "starting"
      <4>1. acc' = [acc EXCEPT ![c].pc = "done"]
        BY <2>1 DEF HandshakeDone
      <4>2. acc'[c].pc = "done" /\ \A d \in Conns \ {c} : acc'[d] = acc[d]
        BY <1>1, <4>1 DEF TypeOK, ServerTypeOK, AcceptRec
      <4>3. \A d \in Conns \ {c} : ~(Founding(d) /\ acc[d].s = s)
        BY <3>1, <3>2 DEF OrderInv, AcceptInv
      <4>4. QED
        BY <4>2, <4>3 DEF Founding
    <3>9. made' = made /\ table' \in {table, None}
      BY <2>1, <3>4
    <3>10. QED
      BY <3>5, <3>7, <3>8, <3>9, OrderSession
  <2>4. QED
    BY <1>7, <2>2, <2>3 DEF WriteHelloFails
<1>8. CASE ResendKept(c)
  <2>1. UNCHANGED <<table, made, sess, ran>> /\ acc[c].pc = "resend"
    BY <1>8 DEF ResendKept
  <2>2. CASE acc' = [acc EXCEPT ![c].pc = "handover"]
    <3> DEFINE h == [acc[c] EXCEPT !.pc = "handover"]
    <3>1. acc' = [acc EXCEPT ![c] = h] /\ h.pc = "handover" /\ h.s = acc[c].s
      BY <1>1, <2>2 DEF AcceptRec
    <3> HIDE DEF h
    <3>2. acc[c].s \in 1 .. made
      BY <2>1 DEF OrderInv, AcceptInv
    <3>3. QED
      BY <2>1, <3>1, <3>2, OrderAccept
  <2>3. CASE HandshakeDone(c)
    BY <2>1, <2>3, OrderDone
  <2>4. QED
    BY <1>8, <2>2, <2>3 DEF ResendKept
<1>9. CASE HandOver(c) \/ StartServing(c)
  <2>1. UNCHANGED <<table, made, ran>> /\ HandshakeDone(c)
        /\ acc[c].pc \in {"handover", "start"}
    BY <1>9 DEF HandOver, StartServing
  <2>2. PICK s \in Sessions : s = acc[c].s /\ s \in 1 .. made
    <3>1. acc[c].s \in 1 .. made
      BY <2>1 DEF OrderInv, AcceptInv
    <3>2. 1 .. made \subseteq Sessions
      BY Bounds DEF Sessions, TypeOK, ServerTypeOK
    <3>3. QED
      BY <3>1, <3>2
  <2>3. SessionInv(s) /\ s \in 1 .. made
    BY <2>2 DEF OrderInv
  <2>4. acc'[c].pc = "done" /\ \A d \in Conns \ {c} : acc'[d] = acc[d]
    BY <1>1, <2>1 DEF HandshakeDone, TypeOK, ServerTypeOK, AcceptRec
  <2>5. CASE UNCHANGED sess
    BY <2>1, <2>5, OrderDone
  <2>6. ASSUME NEW pc \in ServePcs, Pend(s, c, pc)
        PROVE  /\ \A x \in Sessions \ {s} : sess'[x] = sess[x] /\ ran'[x] = ran[x]
               /\ sess'[s].pc = pc /\ sess'[s].last_req = sess[s].last_req
               /\ sess'[s].cur = sess[s].cur
    BY <2>1, <2>3, <2>6 DEF Pend, TypeOK, ServerTypeOK, SessionRec
  <2>7. sess[s].pc \in ServePcs
    BY <2>3 DEF TypeOK, ServerTypeOK, SessionRec
  <2>8. CASE Pend(s, c, sess[s].pc)
    <3>1. /\ \A x \in Sessions \ {s} : sess'[x] = sess[x] /\ ran'[x] = ran[x]
          /\ sess'[s].pc = sess[s].pc /\ sess'[s].last_req = sess[s].last_req
          /\ sess'[s].cur = sess[s].cur
      BY <2>6, <2>7, <2>8
    <3>2. made' = made /\ ran' = ran /\ table' \in {table, None}
      BY <2>1
    <3>3. SessionInv(s)'
      BY <2>3, <3>1, <3>2 DEF SessionInv
    <3>4. \A d \in Conns : /\ acc'[d] = acc[d] \/ acc'[d].pc = "done"
                           /\ Founding(d)' /\ acc'[d].s = s => sess'[s].pc = "starting"
      <4>1. \A d \in Conns : Founding(d)' => Founding(d) /\ acc'[d] = acc[d]
        BY <2>4 DEF Founding
      <4>2. QED
        BY <2>2, <2>4, <3>1, <4>1 DEF OrderInv, AcceptInv
    <3>5. QED
      BY <2>3, <3>1, <3>2, <3>3, <3>4, OrderSession
  <2>9. CASE Pend(s, c, "waiting") /\ acc[c].pc = "start"
    <3>1. Founding(c) /\ sess[s].pc = "starting" /\ ran[s] = <<>>
      <4>1. Founding(c) /\ sess[s].pc = "starting"
        BY <2>2, <2>9 DEF OrderInv, AcceptInv, Founding
      <4>2. QED
        BY <2>3, <4>1 DEF SessionInv
    <3>2. sess'[s].pc = "waiting" /\ \A x \in Sessions \ {s} : sess'[x] = sess[x] /\ ran'[x] = ran[x]
      BY <2>6, <2>9 DEF ServePcs
    <3>3. made' = made /\ ran' = ran /\ table' \in {table, None}
      BY <2>1
    <3>4. SessionInv(s)'
      <4>1. DOMAIN ran'[s] = {} /\ sess'[s].pc = "waiting" /\ ~(s > made')
        BY <2>3, <3>1, <3>2, <3>3 DEF SessionInv
      <4>2. QED
        BY <4>1 DEF SessionInv, InOrder
    <3>5. \A d \in Conns : /\ acc'[d] = acc[d] \/ acc'[d].pc = "done"
                           /\ Founding(d)' /\ acc'[d].s = s => sess'[s].pc = "starting"
      <4>1. \A d \in Conns \ {c} : ~(Founding(d) /\ acc[d].s = s)
        BY <2>2, <3>1 DEF OrderInv, AcceptInv
      <4>2. QED
        BY <2>4, <4>1 DEF Founding
    <3>6. QED
      BY <2>3, <3>3, <3>2, <3>4, <3>5, OrderSession
  <2>10. QED
    BY <1>9, <2>2, <2>5, <2>8, <2>9 DEF HandOver, StartServing
<1>10. QED
  BY <1>2, <1>3, <1>4, <1>5, <1>6, <1>7, <1>8, <1>9 DEF Accept

(* Every step of a serving thread keeps OrderInv.                          *)
LEMMA OrderServe == ASSUME TypeOK, OrderInv, NEW s \in Sessions, Serve(s) PROVE OrderInv'
<1>1. sess[s] \in SessionRec /\ SessionInv(s) /\ ran[s] \in Seq(Reqs)
  BY DEF TypeOK, ServerTypeOK, OrderInv
<1>2. sess[s].last_req \in Nat /\ sess[s].cur \in Nat /\ s \in Nat /\ made \in Nat
  BY <1>1, Bounds DEF SessionRec, Sessions, TypeOK, ServerTypeOK
<1>3. \A i \in DOMAIN ran[s] : ran[s][i] \in Nat
  BY <1>1, Bounds DEF Reqs
\* A session that is served is not waited for by a handshake any more.
<1>4. ASSUME sess[s].pc \notin {"none", "starting"}, acc' = acc, made' = made,
             table' \in {table, None}, SessionInv(s)',
             \A x \in Sessions \ {s} : sess'[x] = sess[x] /\ ran'[x] = ran[x]
      PROVE  OrderInv'
  <2>1. \A c \in Conns : ~(Founding(c) /\ acc[c].s = s)
    BY <1>4 DEF OrderInv, AcceptInv
  <2>2. \A c \in Conns : /\ acc'[c] = acc[c] \/ acc'[c].pc = "done"
                         /\ Founding(c)' /\ acc'[c].s = s => sess'[s].pc = "starting"
    BY <1>4, <2>1 DEF Founding
  <2>3. QED
    BY <1>4, <2>2, OrderSession
\* A step that leaves what the session ran alone.
<1>5. ASSUME NEW S, sess' = [sess EXCEPT ![s] = S],
             sess[s].pc \notin {"none", "starting"}, S.pc \notin {"none", "starting"},
             ran' = ran, acc' = acc, made' = made, table' \in {table, None},
             S.pc \in {"run", "record"} => S.last_req < S.cur,
             S.pc \notin {"record", "dead"} =>
               \A i \in DOMAIN ran[s] : ran[s][i] <= S.last_req,
             S.pc # "record"
      PROVE  OrderInv'
  <2>1. sess'[s] = S /\ \A x \in Sessions \ {s} : sess'[x] = sess[x] /\ ran'[x] = ran[x]
    BY <1>5 DEF TypeOK, ServerTypeOK
  <2>2. ~(s > made)
    BY <1>1, <1>5 DEF SessionInv
  <2>3. SessionInv(s)'
    BY <1>1, <1>5, <2>1, <2>2 DEF SessionInv
  <2>4. QED
    BY <1>4, <1>5, <2>1, <2>3
<1>6. ASSUME sess[s].pc \notin {"none", "starting", "record", "dead"}
      PROVE  \A i \in DOMAIN ran[s] : ran[s][i] <= sess[s].last_req
  BY <1>1, <1>6 DEF SessionInv
<1>7. CASE TakeUp(s)
  <2> DEFINE S == [sess[s] EXCEPT !.pc = "reading", !.fd = sess[s].pending_fd,
                                  !.pending_fd = None]
  <2>1. sess[s].pc = "waiting" /\ sess' = [sess EXCEPT ![s] = S]
        /\ UNCHANGED <<acc, table, made, ran>>
    BY <1>7 DEF TakeUp
  <2>2. S.pc = "reading" /\ S.last_req = sess[s].last_req
    BY <1>1 DEF SessionRec
  <2> HIDE DEF S
  <2>3. QED
    BY <1>5, <1>6, <2>1, <2>2
<1>8. CASE Expire(s)
  <2> DEFINE S == [sess[s] EXCEPT !.pc = "ended", !.finished = TRUE]
  <2>1. sess[s].pc = "waiting" /\ sess' = [sess EXCEPT ![s] = S]
        /\ UNCHANGED <<acc, table, made, ran>>
    BY <1>8 DEF Expire
  <2>2. S.pc = "ended" /\ S.last_req = sess[s].last_req
    BY <1>1 DEF SessionRec
  <2> HIDE DEF S
  <2>3. QED
    BY <1>5, <1>6, <2>1, <2>2
<1>9. CASE Leave(s)
  <2> DEFINE S == [sess[s] EXCEPT !.pc = "dead"]
  <2>1. sess[s].pc = "ended" /\ sess' = [sess EXCEPT ![s] = S]
        /\ UNCHANGED <<acc, made, ran>> /\ table' \in {table, None}
    BY <1>9 DEF Leave
  <2>2. S.pc = "dead"
    BY <1>1 DEF SessionRec
  <2> HIDE DEF S
  <2>3. QED
    BY <1>5, <2>1, <2>2
<1>10. ASSUME Hangup(s), UNCHANGED <<acc, table, made, ran>>,
              sess[s].pc \in {"reading", "send"}
       PROVE  OrderInv'
  <2> DEFINE S == [sess[s] EXCEPT !.pc = "waiting", !.fd = None]
  <2>1. sess' = [sess EXCEPT ![s] = S]
    BY <1>10 DEF Hangup
  <2>2. S.pc = "waiting" /\ S.last_req = sess[s].last_req
    BY <1>1 DEF SessionRec
  <2> HIDE DEF S
  <2>3. QED
    BY <1>5, <1>6, <1>10, <2>1, <2>2
<1>11. CASE AnswerCopy(s)
  <2>1. UNCHANGED <<acc, table, made, ran>> /\ sess[s].pc = "reading"
    BY <1>11 DEF AnswerCopy, Reading
  <2>2. CASE UNCHANGED sess
    BY <2>1, <2>2, OrderSame
  <2>3. CASE Hangup(s)
    BY <1>10, <2>1, <2>3
  <2>4. QED
    BY <1>11, <2>2, <2>3 DEF AnswerCopy
<1>12. CASE SkipCopy(s)
  BY <1>12, OrderSame DEF SkipCopy, serverVars
<1>13. CASE TakeRequest(s)
  <2> DEFINE S == [sess[s] EXCEPT !.pc = "run", !.cur = Next1(s)]
  <2>1. sess[s].pc = "reading" /\ sess' = [sess EXCEPT ![s] = S]
        /\ UNCHANGED <<acc, table, made, ran>> /\ ~AlreadyRan(s, Next1(s))
        /\ up[sess[s].fd] # <<>>
    BY <1>13 DEF TakeRequest, Reading
  <2>2. S.pc = "run" /\ S.last_req = sess[s].last_req /\ S.cur = Next1(s)
    BY <1>1 DEF SessionRec
  <2>3. Next1(s) \in 0 .. MaxReq
    <3>1. sess[s].fd \in 0 .. MaxConns /\ sess[s].fd # None
      BY <1>1, <2>1 DEF SessionRec, TypeOK, ServerTypeOK, Serving
    <3>2. sess[s].fd \in Conns
      BY <3>1, Bounds DEF Conns, None
    <3>3. up[sess[s].fd] \in Seq(Made)
      BY <3>2 DEF TypeOK, NetTypeOK
    <3>4. Next1(s) \in Made
      BY <2>1, <3>3, HeadTailProperties DEF Next1
    <3>5. Made \subseteq 0 .. MaxReq
      BY Bounds DEF Made, TypeOK, ClientTypeOK
    <3>6. QED
      BY <3>4, <3>5
  <2>4. sess[s].last_req < Next1(s)
    <3>1. sess[s].last_req \in 0 .. MaxReq
      BY <1>1 DEF SessionRec
    <3>2. ~(Next1(s) <= sess[s].last_req)
      BY <2>1, <2>3, <3>1, AtOrBeforeIsOrder DEF AlreadyRan
    <3>3. QED
      BY <2>3, <3>1, <3>2, Bounds
  <2> HIDE DEF S
  <2>5. QED
    BY <1>5, <1>6, <2>1, <2>2, <2>4
<1>14. CASE Run(s)
  <2>1. UNCHANGED <<acc, table, made>> /\ sess[s].pc = "run"
        /\ ran' = [ran EXCEPT ![s] = Append(@, sess[s].cur)]
    BY <1>14 DEF Run
  <2>2. PICK r : sess' = [sess EXCEPT ![s].pc = "record", ![s].result = r]
    BY <1>14 DEF Run
  <2>3. \A x \in Sessions \ {s} : sess'[x] = sess[x] /\ ran'[x] = ran[x]
    BY <2>1, <2>2 DEF TypeOK, ServerTypeOK
  <2>4. sess'[s].pc = "record" /\ sess'[s].last_req = sess[s].last_req
        /\ sess'[s].cur = sess[s].cur
    BY <1>1, <2>2 DEF TypeOK, ServerTypeOK, SessionRec
  <2> DEFINE n == Len(ran[s])
  <2>5. /\ n \in Nat /\ DOMAIN ran[s] = 1 .. n /\ DOMAIN ran'[s] = 1 .. n + 1
        /\ ran'[s][n + 1] = sess[s].cur
        /\ \A i \in 1 .. n : ran'[s][i] = ran[s][i]
    <3>1. ran'[s] = Append(ran[s], sess[s].cur)
      BY <2>1 DEF TypeOK, ServerTypeOK
    <3>2. ran[s] \in Seq(Nat)
      BY <1>1, Bounds, SeqMonotonic DEF Reqs
    <3>3. QED
      BY <1>2, <3>1, <3>2, AppendProperties, LenProperties
  <2>6. sess[s].last_req < sess[s].cur /\ ~(s > made)
    BY <1>1, <2>1 DEF SessionInv
  <2>7. \A i \in 1 .. n : ran[s][i] < sess[s].cur /\ ran[s][i] \in Nat
    BY <1>2, <1>3, <1>6, <2>1, <2>5, <2>6
  <2> HIDE DEF n
  <2>8. \A i \in DOMAIN ran'[s] : ran'[s][i] <= sess'[s].cur
    <3>1. sess[s].cur \in Nat
      BY <1>2
    <3>2. \A i \in DOMAIN ran'[s] : i \in 1 .. n \/ i = n + 1
      BY <2>5
    <3>3. \A i \in DOMAIN ran'[s] : ran'[s][i] <= sess[s].cur
      BY <2>5, <2>7, <3>1, <3>2
    <3>4. QED
      BY <2>4, <3>3
  <2>9. InOrder(ran[s])
    BY <1>1 DEF SessionInv
  <2>10. InOrder(ran'[s])
    <3> SUFFICES ASSUME NEW i \in DOMAIN ran'[s], NEW j \in DOMAIN ran'[s], i < j
                 PROVE  ran'[s][i] < ran'[s][j]
      BY DEF InOrder
    <3>1. i \in 1 .. n
      BY <2>5
    <3>2. CASE j = n + 1
      BY <2>5, <2>7, <3>1, <3>2
    <3>3. CASE j \in 1 .. n
      BY <2>5, <2>9, <3>1, <3>3 DEF InOrder
    <3>4. QED
      BY <2>5, <3>2, <3>3
  <2>11. SessionInv(s)'
    BY <2>1, <2>4, <2>6, <2>8, <2>10 DEF SessionInv
  <2>12. QED
    BY <1>4, <2>1, <2>3, <2>11
<1>15. ASSUME NEW S, sess' = [sess EXCEPT ![s] = S], sess[s].pc = "record",
              UNCHANGED <<acc, table, made, ran>>,
              S.pc \in {"reading", "send"}, S.last_req = sess[s].cur
       PROVE  OrderInv'
  <2>1. \A i \in DOMAIN ran[s] : ran[s][i] <= S.last_req
    BY <1>1, <1>15 DEF SessionInv
  <2>2. QED
    BY <1>5, <1>15, <2>1
<1>16. CASE RecordAsync(s)
  <2> DEFINE S == [sess[s] EXCEPT !.pc = "reading", !.last_req = sess[s].cur,
                                  !.cur = 0, !.result = 0]
  <2>1. sess' = [sess EXCEPT ![s] = S] /\ sess[s].pc = "record"
        /\ UNCHANGED <<acc, table, made, ran>>
    BY <1>16 DEF RecordAsync
  <2>2. S.pc = "reading" /\ S.last_req = sess[s].cur
    BY <1>1 DEF SessionRec
  <2> HIDE DEF S
  <2>3. QED
    BY <1>15, <2>1, <2>2
<1>17. CASE RecordCall(s)
  <2>1. PICK r : sess' = [sess EXCEPT ![s].pc = "send", ![s].last_req = sess[s].cur,
                            ![s].reply = Response(sess[s].cur, r), ![s].cur = 0,
                            ![s].result = 0]
    BY <1>17 DEF RecordCall
  <2> DEFINE S == [sess[s] EXCEPT !.pc = "send", !.last_req = sess[s].cur,
                                  !.reply = Response(sess[s].cur, r), !.cur = 0, !.result = 0]
  <2>2. sess' = [sess EXCEPT ![s] = S]
    BY <2>1
  <2>3. sess[s].pc = "record" /\ UNCHANGED <<acc, table, made, ran>>
    BY <1>17 DEF RecordCall
  <2>4. S.pc = "send" /\ S.last_req = sess[s].cur
    BY <1>1 DEF SessionRec
  <2> HIDE DEF S
  <2>5. QED
    BY <1>15, <2>2, <2>3, <2>4
<1>18. CASE SendReply(s)
  <2>1. UNCHANGED <<acc, table, made, ran>> /\ sess[s].pc = "send"
    BY <1>18 DEF SendReply
  <2>2. CASE sess' = [sess EXCEPT ![s].pc = "reading"]
    <3> DEFINE S == [sess[s] EXCEPT !.pc = "reading"]
    <3>1. sess' = [sess EXCEPT ![s] = S] /\ S.pc = "reading"
          /\ S.last_req = sess[s].last_req
      BY <1>1, <2>2 DEF SessionRec
    <3> HIDE DEF S
    <3>2. QED
      BY <1>5, <1>6, <2>1, <3>1
  <2>3. CASE Hangup(s)
    BY <1>10, <2>1, <2>3
  <2>4. QED
    BY <1>18, <2>2, <2>3 DEF SendReply
<1>19. CASE EndConnection(s)
  BY <1>10, <1>19 DEF EndConnection
<1>20. QED
  BY <1>7, <1>8, <1>9, <1>11, <1>12, <1>13, <1>14, <1>16, <1>17, <1>18, <1>19 DEF Serve

(* A server started again founds nothing and runs nothing.                 *)
LEMMA OrderRestart == ASSUME TypeOK, OrderInv, Restart PROVE OrderInv'
<1>1. table' = None /\ made' = made /\ ran' = ran
  BY DEF Restart
<1>2. \A c \in Conns : acc'[c].pc \in {"none", "done"}
  BY DEF Restart, TypeOK, ServerTypeOK, AcceptRec
<1>3. \A s \in Sessions : \/ sess[s].pc = "none" /\ sess'[s] = sess[s]
                          \/ sess[s].pc # "none" /\ sess'[s].pc = "dead"
  BY DEF Restart, NoSession
<1>4. AcceptInv'
  BY <1>1, <1>2 DEF AcceptInv, Founding, None, TypeOK, ServerTypeOK
<1>5. \A s \in Sessions : SessionInv(s)'
  BY <1>1, <1>3 DEF OrderInv, SessionInv
<1>6. QED
  BY <1>4, <1>5 DEF OrderInv

(* Every step keeps OrderInv.                                              *)
LEMMA OrderStep == ASSUME TypeOK, OrderInv, [Next]_vars PROVE OrderInv'
<1>1. CASE \E c \in Conns : Break(c)
  BY <1>1, OrderSame DEF Break, serverVars
<1>2. CASE UNCHANGED vars
  BY <1>2, OrderSame DEF vars, serverVars
<1>3. QED
  BY <1>1, <1>2, OrderClient, OrderAcceptThread, OrderServe, OrderRestart DEF Next

(* OrderInv: what makes the order of execution inductive.                  *)
THEOREM OrderInvariant == Spec => []OrderInv
<1>1. TypeOK /\ OrderInv /\ [Next]_vars => OrderInv'
  BY OrderStep
<1>2. QED
  BY <1>1, OrderInit, TypeCorrect, PTL DEF Spec

(* A session runs requests in the order the client made them, each at most *)
(* once, through any number of breaks, reconnects, replays, late           *)
(* hand-overs and restarts.                                                *)
THEOREM OrderIsKept == Spec => []RunsInOrder
<1>1. OrderInv => RunsInOrder
  BY DEF OrderInv, SessionInv, RunsInOrder
<1>2. QED
  BY <1>1, OrderInvariant, PTL

-----------------------------------------------------------------------------
(* One session.                                                            *)

(* Only the connection a client opens first may found a session, because   *)
(* without a session it opens no other: a first attempt that fails is its  *)
(* last, and every later handshake says that the client is resuming.       *)
SessionsInv ==
  /\ made <= 1 /\ (made # 0 => dialed # 0) /\ (had_session => dialed # 0)
  /\ \A c \in Conns :
       /\ acc[c].pc # "none" => c <= dialed
       /\ acc[c].pc # "none" /\ c # 1 => acc[c].resuming
       /\ acc[c].pc = "hello" /\ c = 1 => made = 0 /\ Starting(c)
       /\ Founding(c) => c = 1
  /\ op.pc \in {"connect", "hello"} => fd = None
  /\ ~had_session =>
       /\ fd = None /\ last_reply = 0 /\ dialed <= 1
       /\ op.n = 0 /\ op.pc \in {"idle", "connect", "hello"}
       /\ op.pc = "connect" => dialed = 0
       /\ dialed # 0 => op.pc = "hello" \/ connect_failed

(* At the start there is no session and no connection.                     *)
LEMMA SessionsInit == Init => SessionsInv
  BY Bounds DEF Init, SessionsInv, Founding, NoHandshake, Idle, None

(* The steps of the client that open no connection.                        *)
LEMMA SessionsClientSame ==
  ASSUME TypeOK, SessionsInv, UNCHANGED <<acc, made, dialed>>,
         had_session => had_session',
         op'.pc \in {"connect", "hello"} => fd' = None,
         ~had_session' =>
           /\ fd' = None /\ last_reply' = 0 /\ op'.n = 0
           /\ op'.pc \in {"idle", "connect", "hello"}
           /\ op'.pc = "connect" => dialed = 0
           /\ dialed # 0 => op'.pc = "hello" \/ connect_failed',
         had_session' => dialed # 0
  PROVE  SessionsInv'
  BY DEF SessionsInv, Founding, Starting

(* Where the client goes after an attempt, and after giving a call up.     *)
LEMMA OpSteps ==
  ASSUME TypeOK
  PROVE  /\ AttemptFailed => /\ op.n = 0 => op'.pc = "idle" /\ op'.n = 0
                             /\ op.n # 0 => op'.pc = "connect" /\ op'.n = op.n
         /\ Connected => /\ op.n = 0 => op'.pc = "queue" /\ op'.n = 0
                         /\ op.n # 0 => op'.pc = "flush" /\ op'.n = op.n
         /\ \A frames : Abandon(frames) => op'.pc = "idle" /\ op'.n = 0 /\ fd' = None
         /\ CallBroke => /\ fd' = None
                         /\ \/ op'.pc = "connect" /\ op'.n = op.n
                            \/ op'.pc = "idle" /\ op'.n = 0
<1>1. op \in OpRec
  BY DEF TypeOK, ClientTypeOK
<1>2. \A p : At(p).pc = p /\ At(p).n = op.n
  BY <1>1 DEF At, OpRec
<1>3. Idle.pc = "idle" /\ Idle.n = 0
  BY DEF Idle
<1>4. \A frames : Abandon(frames) => op'.pc = "idle" /\ op'.n = 0 /\ fd' = None
  BY <1>3 DEF Abandon
<1>5. CallBroke => /\ fd' = None
                   /\ \/ op'.pc = "connect" /\ op'.n = op.n
                      \/ op'.pc = "idle" /\ op'.n = 0
  BY <1>1, <1>4 DEF CallBroke, OpRec
<1>6. QED
  BY <1>2, <1>3, <1>4, <1>5 DEF AttemptFailed, Connected

(* Every step of the client keeps SessionsInv.                             *)
LEMMA SessionsClient == ASSUME TypeOK, SessionsInv, Client PROVE SessionsInv'
<1>1. CASE Dial
  <2>1. /\ op.pc = "connect" /\ dialed' = dialed + 1 /\ dialed + 1 \in Conns /\ dialed \in Nat
        /\ UNCHANGED <<fd, last_reply, had_session, made>>
        /\ op' = At("hello")
    BY <1>1, Bounds DEF Dial, TypeOK, NetTypeOK, Conns
  <2> DEFINE h == [NoHandshake EXCEPT !.pc = "hello", !.last = last_reply,
                                      !.resuming = had_session]
  <2>2. h.pc = "hello" /\ h.last = last_reply /\ h.resuming = had_session /\ ~h.resumed
    BY DEF NoHandshake
  <2>3. \A c \in Conns : acc'[c] = IF c = dialed + 1 THEN h ELSE acc[c]
    BY <1>1 DEF Dial, TypeOK, ServerTypeOK
  <2> HIDE DEF h
  <2>4. op'.pc = "hello" /\ op'.n = op.n
    BY <2>1 DEF At, TypeOK, ClientTypeOK, OpRec
  <2>5. \A c \in Conns : acc[c].pc # "none" => c <= dialed
    BY DEF SessionsInv
  <2>6. made # 0 => dialed + 1 # 1
    BY <2>1, Bounds DEF SessionsInv, TypeOK, NetTypeOK, ServerTypeOK
  <2>7. dialed + 1 # 1 => had_session
    BY <2>1 DEF SessionsInv
  <2>8. \A c \in Conns :
          /\ acc'[c].pc # "none" => c <= dialed'
          /\ acc'[c].pc # "none" /\ c # 1 => acc'[c].resuming
          /\ acc'[c].pc = "hello" /\ c = 1 => made' = 0 /\ Starting(c)'
          /\ Founding(c)' => c = 1
    <3> SUFFICES ASSUME NEW c \in Conns
                 PROVE  /\ acc'[c].pc # "none" => c <= dialed'
                        /\ acc'[c].pc # "none" /\ c # 1 => acc'[c].resuming
                        /\ acc'[c].pc = "hello" /\ c = 1 => made' = 0 /\ Starting(c)'
                        /\ Founding(c)' => c = 1
      OBVIOUS
    <3>1. CASE c = dialed + 1
      BY <2>1, <2>2, <2>3, <2>6, <2>7, <3>1 DEF SessionsInv, Founding, Starting
    <3>2. CASE c # dialed + 1
      BY <2>1, <2>3, <3>2, Bounds DEF SessionsInv, Founding, Starting, Conns
    <3>3. QED
      BY <3>1, <3>2
  <2>9. QED
    BY <2>1, <2>4, <2>6, <2>8 DEF SessionsInv
<1>2. CASE StartConnecting
  <2>1. op'.pc = "connect" /\ op'.n = 0 /\ op.pc = "idle" /\ MayConnect
    BY <1>2 DEF StartConnecting, Idle
  <2>2. UNCHANGED <<acc, made, dialed, fd, last_reply, had_session, connect_failed>>
    BY <1>2 DEF StartConnecting, netVars, serverVars
  <2>3. QED
    BY <2>1, <2>2, SessionsClientSame DEF SessionsInv, MayConnect
<1>3. ASSUME NEW t \in Threads, NEW k \in Kinds, QueueFrame(t, k) PROVE SessionsInv'
  <2>1. UNCHANGED <<acc, made, dialed, fd, last_reply, had_session, connect_failed>>
    BY <1>3 DEF QueueFrame, netVars, serverVars
  <2>2. op.pc = "queue" \/ (op.pc = "idle" /\ fd # None)
    BY <1>3 DEF QueueFrame
  <2>3. op'.pc \in {"flush", "idle"}
    BY <1>3 DEF QueueFrame, Idle
  <2>4. had_session
    BY <2>2 DEF SessionsInv
  <2>5. QED
    BY <2>1, <2>3, <2>4, SessionsClientSame DEF SessionsInv
<1>4. CASE Refused \/ HelloUnanswered \/ HelloBusy
  <2>1. UNCHANGED <<acc, made, dialed, fd, last_reply, had_session>> /\ connect_failed'
        /\ op.pc \in {"connect", "hello"} /\ AttemptFailed
    BY <1>4 DEF Refused, HelloUnanswered, HelloBusy, ReadHello, netVars, serverVars
  <2>2. QED
    BY <2>1, OpSteps, SessionsClientSame DEF SessionsInv
<1>5. CASE GiveUp \/ HelloGone \/ Flush \/ FlushFails \/ RecvReply \/ RecvFails
  <2>1. UNCHANGED <<acc, made, dialed, had_session>>
    BY <1>5 DEF GiveUp, HelloGone, Flush, FlushFails, RecvReply, RecvFails, netVars, serverVars
  <2>2. had_session
    BY <1>5 DEF GiveUp, HelloGone, Flush, FlushFails, RecvReply, RecvFails, SessionsInv
  <2>3. op'.pc \in {"connect", "hello"} => fd' = None
    <3>1. CASE GiveUp \/ HelloGone
      BY <3>1, OpSteps DEF GiveUp, HelloGone, ReadHello, SessionsInv, Idle
    <3>2. CASE Flush
      BY <3>2 DEF Flush, Idle, At, TypeOK, ClientTypeOK, OpRec
    <3>3. CASE FlushFails \/ RecvFails
      BY <3>3, OpSteps DEF FlushFails, RecvFails
    <3>4. CASE RecvReply
      BY <3>4, OpSteps DEF RecvReply, Idle
    <3>5. QED
      BY <1>5, <3>1, <3>2, <3>3, <3>4
  <2>4. QED
    BY <2>1, <2>2, <2>3, SessionsClientSame DEF SessionsInv
<1>6. CASE HelloStarted \/ HelloResumed
  <2>1. UNCHANGED <<acc, made, dialed>> /\ had_session' /\ op.pc = "hello"
    BY <1>6 DEF HelloStarted, HelloResumed, ReadHello, serverVars
  <2>2. dialed # 0
    BY <2>1 DEF TypeOK, ClientTypeOK, None
  <2>3. op'.pc \in {"connect", "hello"} => fd' = None
    BY <1>6, <2>1, OpSteps DEF HelloStarted, HelloResumed, SessionsInv
  <2>4. QED
    BY <2>1, <2>2, <2>3, SessionsClientSame
<1>7. QED
  BY <1>1, <1>2, <1>3, <1>4, <1>5, <1>6 DEF Client

(* A step of an accept thread moves its own handshake on, and never back   *)
(* to a session that was not found.                                        *)
LEMMA AcceptMoves ==
  ASSUME TypeOK, NEW c \in Conns, Accept(c)
  PROVE  /\ UNCHANGED <<clientVars, dialed>>
         /\ \A d \in Conns \ {c} : acc'[d] = acc[d]
         /\ acc[c].pc \notin {"none", "done"} /\ acc'[c].pc \notin {"none", "hello"}
         /\ acc'[c].resuming = acc[c].resuming /\ acc'[c].last = acc[c].last
         /\ StartSession(c) \/ made' = made
         /\ Founding(c)' => Founding(c) \/ StartSession(c)
<1> USE DEF TypeOK, ServerTypeOK, AcceptRec, Founding, netVars
<1>1. CASE HelloNeverArrives(c) \/ RefuseSession(c) \/ TellGone(c) \/ WriteHelloFails(c)
           \/ HandOver(c) \/ StartServing(c)
  BY <1>1 DEF HelloNeverArrives, RefuseSession, TellGone, WriteHelloFails, HandOver,
              StartServing, HandshakeDone
<1>2. CASE FindSession(c)
  BY <1>2 DEF FindSession
<1>3. CASE StartSession(c)
  BY <1>3 DEF StartSession
<1>4. CASE Snapshot(c)
  <2> DEFINE S == sess[acc[c].s]
             kept == IF Unanswered(c, S.reply) THEN S.reply ELSE NoneKept
  <2>1. /\ acc' = [acc EXCEPT ![c].pc = "reply", ![c].snap = S.last_req, ![c].kept = kept]
        /\ acc[c].pc = "snapshot" /\ UNCHANGED <<clientVars, dialed, made>>
    BY <1>4 DEF Snapshot
  <2> HIDE DEF S, kept
  <2>2. QED
    BY <2>1
<1>5. CASE WriteHello(c)
  BY <1>5 DEF WriteHello, AfterReply
<1>6. CASE ResendKept(c)
  BY <1>6 DEF ResendKept, HandshakeDone
<1>7. QED
  BY <1>1, <1>2, <1>3, <1>4, <1>5, <1>6 DEF Accept

(* Every step of an accept thread keeps SessionsInv.                       *)
LEMMA SessionsAccept == ASSUME TypeOK, SessionsInv, NEW c \in Conns, Accept(c) PROVE SessionsInv'
<1>1. /\ UNCHANGED <<clientVars, dialed>>
      /\ \A d \in Conns \ {c} : acc'[d] = acc[d]
      /\ acc[c].pc \notin {"none", "done"} /\ acc'[c].pc \notin {"none", "hello"}
      /\ acc'[c].resuming = acc[c].resuming /\ acc'[c].last = acc[c].last
      /\ StartSession(c) \/ made' = made
      /\ Founding(c)' => Founding(c) \/ StartSession(c)
  BY AcceptMoves
<1>2. c <= dialed /\ (c # 1 => acc[c].resuming) /\ (Founding(c) => c = 1) /\ c >= 1
  BY <1>1, Bounds DEF SessionsInv, Conns
<1>3. StartSession(c) => c = 1 /\ made' = 1 /\ made = 0
  <2>1. StartSession(c) => acc[c].pc = "hello" /\ Starting(c) /\ made' = made + 1
    BY DEF StartSession
  <2>2. QED
    BY <1>2, <2>1 DEF SessionsInv, Starting
<1>4. made' <= 1 /\ (made' # 0 => dialed' # 0)
  BY <1>1, <1>2, <1>3, Bounds DEF SessionsInv, TypeOK, ServerTypeOK, NetTypeOK
<1>5. \A d \in Conns :
        /\ acc'[d].pc # "none" => d <= dialed'
        /\ acc'[d].pc # "none" /\ d # 1 => acc'[d].resuming
        /\ acc'[d].pc = "hello" /\ d = 1 => made' = 0 /\ Starting(d)'
        /\ Founding(d)' => d = 1
  <2> SUFFICES ASSUME NEW d \in Conns
               PROVE  /\ acc'[d].pc # "none" => d <= dialed'
                      /\ acc'[d].pc # "none" /\ d # 1 => acc'[d].resuming
                      /\ acc'[d].pc = "hello" /\ d = 1 => made' = 0 /\ Starting(d)'
                      /\ Founding(d)' => d = 1
    OBVIOUS
  <2>1. CASE d = c
    BY <1>1, <1>2, <1>3, <2>1
  <2>2. CASE d # c
    BY <1>1, <1>2, <1>3, <2>2 DEF SessionsInv, Founding, Starting
  <2>3. QED
    BY <2>1, <2>2
<1>6. QED
  BY <1>1, <1>4, <1>5 DEF SessionsInv, clientVars

(* SessionsInv is about the client, the accept threads and how many        *)
(* sessions were made: the other steps leave it alone.                     *)
LEMMA SessionsSame ==
  ASSUME SessionsInv, UNCHANGED <<clientVars, dialed, acc, made>> PROVE SessionsInv'
  BY DEF SessionsInv, clientVars, Founding, Starting

(* The sessions' own steps, breaks and a restart keep SessionsInv.         *)
LEMMA SessionsStep == ASSUME TypeOK, SessionsInv, [Next]_vars PROVE SessionsInv'
<1>1. ASSUME NEW s \in Sessions, Serve(s) PROVE SessionsInv'
  <2>1. UNCHANGED <<clientVars, dialed, acc, made>>
    BY <1>1 DEF Serve, TakeUp, Expire, Leave, AnswerCopy, SkipCopy, TakeRequest, Run,
                RecordAsync, RecordCall, SendReply, EndConnection, netVars, serverVars
  <2>2. QED
    BY <2>1, SessionsSame
<1>2. CASE \/ \E c \in Conns : Break(c)
           \/ UNCHANGED vars
  BY <1>2, SessionsSame DEF Break, vars, netVars, serverVars
<1>3. CASE Restart
  <2>1. UNCHANGED <<clientVars, dialed, made>>
    BY <1>3 DEF Restart
  <2>2. \A c \in Conns : \/ acc'[c] = acc[c] /\ acc[c].pc = "none"
                         \/ /\ acc'[c].pc = "done" /\ acc[c].pc # "none"
                            /\ acc'[c].resuming = acc[c].resuming
    BY <1>3 DEF Restart, TypeOK, ServerTypeOK, AcceptRec
  <2>3. \A c \in Conns :
          /\ acc'[c].pc # "none" => c <= dialed'
          /\ acc'[c].pc # "none" /\ c # 1 => acc'[c].resuming
          /\ acc'[c].pc \notin {"hello", "snapshot", "reply", "start"}
    BY <2>1, <2>2 DEF SessionsInv
  <2>4. QED
    BY <2>1, <2>3 DEF SessionsInv, clientVars, Founding
<1>4. QED
  BY <1>1, <1>2, <1>3, SessionsClient, SessionsAccept DEF Next

(* One session at most is ever made for a client.                          *)
THEOREM SessionsHold == Spec => []SessionsInv
<1>1. TypeOK /\ SessionsInv /\ [Next]_vars => SessionsInv'
  BY SessionsStep
<1>2. QED
  BY <1>1, SessionsInit, TypeCorrect, PTL DEF Spec

(* All of a client's requests run in one session: none is replayed into an *)
(* empty session made for a client that was coming back to another         *)
(* (accept_connection's "starting").                                       *)
THEOREM AlwaysOneSession == Spec => []OneSession
<1>1. TypeOK /\ OrderInv /\ SessionsInv => OneSession
  <2> SUFFICES ASSUME TypeOK, OrderInv, SessionsInv PROVE OneSession
    OBVIOUS
  <2>1. ASSUME NEW s \in Sessions, ran[s] # <<>> PROVE s = 1
    <3>1. SessionInv(s) /\ s \in Nat /\ s >= 1
      BY Bounds DEF OrderInv, Sessions
    <3>2. ~(s > made)
      BY <2>1, <3>1 DEF SessionInv
    <3>3. made \in Nat /\ made <= 1
      BY Bounds DEF SessionsInv, TypeOK, ServerTypeOK
    <3>4. QED
      BY <3>1, <3>2, <3>3
  <2>2. QED
    BY <2>1 DEF OneSession
<1>2. QED
  BY <1>1, TypeCorrect, OrderInvariant, SessionsHold, PTL
-----------------------------------------------------------------------------
(* A session that is gone.                                                 *)

(* The session that was made has ended, and so nothing runs any more.      *)
Over == made = 1 /\ \A s \in Sessions : sess[s].pc \in {"none", "ended", "dead"}

(* What the answers to handshakes still on connection c mean: a session    *)
(* was made, and "fresh" on any connection but the first that it is over.  *)
HelloMeans(c) ==
  \A i \in DOMAIN down[c] :
    /\ down[c][i].type \in {"fresh", "resumed"} => made = 1
    /\ down[c][i].type = "fresh" /\ c # 1 => Over

(* A client that knows its session is gone was told so by a handshake that *)
(* found the session finished or out of the table, neither of which it is  *)
(* before it ends.                                                         *)
GoneInv ==
  /\ \A s \in Sessions : sess[s].finished <=> sess[s].pc \in {"ended", "dead"}
  /\ table = None => \A s \in Sessions : sess[s].pc \in {"none", "dead"}
  /\ had_session => made = 1
  /\ had_session /\ op.pc = "hello" => dialed # 1
  /\ \A c \in Conns : HelloMeans(c)
  /\ session_gone => Over /\ op.pc = "idle" /\ fd = None

(* At the start there is no session.                                       *)
LEMMA GoneInit == Init => GoneInv
  BY Bounds DEF Init, GoneInv, HelloMeans, NoSession, Idle, None

(* A step of a serving thread: of its own session, which is served; an     *)
(* ended session only leaves the table.  The client sees replies at most.  *)
LEMMA ServeMoves ==
  ASSUME TypeOK, NEW s \in Sessions, Serve(s),
         sess[s].finished <=> sess[s].pc \in {"ended", "dead"}
  PROVE  /\ UNCHANGED <<clientVars, dialed, acc, made>>
         /\ \A x \in Sessions \ {s} : sess'[x] = sess[x] /\ ran'[x] = ran[x]
         /\ sess[s].pc \notin {"none", "starting", "dead"}
         /\ sess'[s].pc \notin {"none", "starting"}
         /\ sess'[s].finished <=> sess'[s].pc \in {"ended", "dead"}
         /\ sess[s].pc = "ended" => sess'[s].pc = "dead" /\ ran' = ran
         /\ table' = table \/ (table = s /\ table' = None /\ sess'[s].pc = "dead")
         /\ \A c \in Conns : \/ down'[c] = down[c]
                             \/ \E m \in Replies : down'[c] = down[c] \o <<m>>
<1>1. sess[s] \in SessionRec
  BY DEF TypeOK, ServerTypeOK
<1>2. UNCHANGED <<clientVars, dialed, acc, made>>
  BY DEF Serve, TakeUp, Expire, Leave, AnswerCopy, SkipCopy, TakeRequest, Run,
         RecordAsync, RecordCall, SendReply, EndConnection, netVars, serverVars
<1>3. \A c \in Conns : \/ down'[c] = down[c]
                       \/ \E m \in Replies : down'[c] = down[c] \o <<m>>
  <2>1. CASE AnswerCopy(s) \/ SendReply(s)
    <3>1. sess[s].reply \in Replies
      BY <1>1 DEF SessionRec
    <3>2. Write(sess[s].fd, <<sess[s].reply>>) \/ down' = down
      BY <2>1 DEF AnswerCopy, SendReply
    <3>3. QED
      BY <3>1, <3>2 DEF Write, TypeOK, NetTypeOK
  <2>2. CASE down' = down
    BY <2>2
  <2>3. QED
    BY <2>1, <2>2 DEF Serve, TakeUp, Expire, Leave, SkipCopy, TakeRequest, Run,
                      RecordAsync, RecordCall, EndConnection, netVars
\* How the session's record changes, one action at a time.
<1> DEFINE Moves(from, to) ==
      /\ \A x \in Sessions \ {s} : sess'[x] = sess[x] /\ ran'[x] = ran[x]
      /\ sess[s].pc \in from /\ sess'[s].pc \in to
      /\ sess'[s].finished <=> sess'[s].pc \in {"ended", "dead"}
<1> USE DEF SessionRec, TypeOK, ServerTypeOK, serverVars
<1>4. CASE TakeUp(s) \/ TakeRequest(s) \/ RecordAsync(s)
  <2>1. TakeUp(s) => Moves({"waiting"}, {"reading"}) /\ table' = table
    BY <1>1 DEF TakeUp
  <2>2. TakeRequest(s) => Moves({"reading"}, {"run"}) /\ table' = table
    BY <1>1 DEF TakeRequest, Reading
  <2>3. ASSUME RecordAsync(s) PROVE Moves({"record"}, {"reading"}) /\ table' = table
    <3>1. UNCHANGED <<table, ran>> /\ sess[s].pc = "record"
          /\ sess' = [sess EXCEPT ![s].pc = "reading", ![s].last_req = sess[s].cur,
                                  ![s].cur = 0, ![s].result = 0]
      BY <2>3 DEF RecordAsync
    <3>2. QED
      BY <1>1, <3>1
  <2>4. QED
    BY <1>2, <1>3, <1>4, <2>1, <2>2, <2>3
<1>5. CASE Expire(s)
  <2>1. Moves({"waiting"}, {"ended"}) /\ table' = table
    BY <1>1, <1>5 DEF Expire
  <2>2. QED
    BY <1>2, <1>3, <2>1
<1>6. CASE Leave(s)
  <2>1. Moves({"ended"}, {"dead"}) /\ ran' = ran
        /\ (table' = table \/ (table = s /\ table' = None))
    BY <1>1, <1>6 DEF Leave
  <2>2. QED
    BY <1>2, <1>3, <2>1
<1>7. CASE AnswerCopy(s) \/ SkipCopy(s) \/ SendReply(s) \/ EndConnection(s)
  <2>1. UNCHANGED <<table, ran>> /\ sess[s].pc \in {"reading", "send"}
    BY <1>7 DEF AnswerCopy, SkipCopy, SendReply, EndConnection, Reading
  <2>2. \/ sess' = sess /\ sess[s].pc = "reading"
        \/ sess' = [sess EXCEPT ![s].pc = "waiting", ![s].fd = None]
        \/ sess' = [sess EXCEPT ![s].pc = "reading"]
    BY <1>7 DEF AnswerCopy, SkipCopy, SendReply, EndConnection, Hangup, Reading
  <2>3. Moves({"reading", "send"}, {"reading", "waiting"}) /\ table' = table
    <3>1. CASE sess' = sess /\ sess[s].pc = "reading"
      BY <1>1, <2>1, <3>1
    <3>2. CASE sess' = [sess EXCEPT ![s].pc = "waiting", ![s].fd = None]
      BY <1>1, <2>1, <3>2
    <3>3. CASE sess' = [sess EXCEPT ![s].pc = "reading"]
      BY <1>1, <2>1, <3>3
    <3>4. QED
      BY <2>2, <3>1, <3>2, <3>3
  <2>4. QED
    BY <1>2, <1>3, <2>3
<1>8. CASE Run(s)
  <2>1. PICK r : sess' = [sess EXCEPT ![s].pc = "record", ![s].result = r]
    BY <1>8 DEF Run
  <2>2. Moves({"run"}, {"record"}) /\ table' = table
    BY <1>1, <1>8, <2>1 DEF Run
  <2>3. QED
    BY <1>2, <1>3, <2>2
<1>9. CASE RecordCall(s)
  <2>1. PICK r : sess' = [sess EXCEPT ![s].pc = "send", ![s].last_req = sess[s].cur,
                            ![s].reply = r, ![s].cur = 0, ![s].result = 0]
    BY <1>9 DEF RecordCall
  <2>2. UNCHANGED <<table, ran>> /\ sess[s].pc = "record"
    BY <1>9 DEF RecordCall
  <2>3. Moves({"record"}, {"send"}) /\ table' = table
    BY <1>1, <2>1, <2>2
  <2>4. QED
    BY <1>2, <1>3, <2>3
<1>10. QED
  BY <1>4, <1>5, <1>6, <1>7, <1>8, <1>9 DEF Serve

(* A session whose handshake ends in failure is forgotten, and one that    *)
(* was founded is served; no other step of an accept thread moves one.     *)
LEMMA AcceptServes ==
  ASSUME TypeOK, OrderInv, SessionsInv, GoneInv, NEW c \in Conns, Accept(c)
  PROVE  /\ ran' = ran
         /\ \A x \in Sessions :
              /\ sess'[x].finished <=> sess'[x].pc \in {"ended", "dead"}
              /\ \/ sess'[x].pc = sess[x].pc
                 \/ sess[x].pc = "starting" /\ sess'[x].pc \in {"waiting", "dead"}
                 \/ StartSession(c) /\ sess[x].pc = "none" /\ sess'[x].pc = "starting"
         /\ StartSession(c) => table' # None
         /\ table' = None => table = None \/ \A x \in Sessions : sess'[x].pc \in {"none", "dead"}
<1>1. ran' = ran
  BY DEF Accept, HelloNeverArrives, FindSession, StartSession, RefuseSession, TellGone,
         Snapshot, WriteHello, WriteHelloFails, ResendKept, HandOver, StartServing
<1>2. \A x \in Sessions : sess[x] \in SessionRec /\ (sess[x].finished <=> sess[x].pc \in {"ended", "dead"})
  BY DEF TypeOK, ServerTypeOK, GoneInv
<1>3. CASE UNCHANGED <<table, sess>> /\ ~StartSession(c)
  BY <1>1, <1>2, <1>3
<1>4. CASE StartSession(c)
  <2>1. sess' = [sess EXCEPT ![made + 1].pc = "starting"] /\ table' = made + 1
        /\ made + 1 \in Sessions
    BY <1>4, Bounds DEF StartSession, TypeOK, ServerTypeOK, Sessions
  <2>2. sess[made + 1].pc = "none" /\ table' # None
    <3>1. made \in Nat
      BY Bounds DEF TypeOK, ServerTypeOK
    <3>2. SessionInv(made + 1) /\ made + 1 > made
      BY <2>1, <3>1 DEF OrderInv
    <3>3. QED
      BY <2>1, <3>1, <3>2 DEF SessionInv, None
  <2>3. \A x \in Sessions : /\ sess'[x].finished = sess[x].finished
                            /\ x # made + 1 => sess'[x].pc = sess[x].pc
                            /\ x = made + 1 => sess'[x].pc = "starting"
    BY <1>2, <2>1 DEF SessionRec, TypeOK, ServerTypeOK
  <2>4. QED
    BY <1>1, <1>2, <1>4, <2>2, <2>3
<1>5. ASSUME acc[c].pc \in {"reply", "handover", "start"}
      PROVE  /\ acc[c].s \in Sessions /\ \A x \in Sessions : x # acc[c].s => sess[x].pc = "none"
             /\ Founding(c) => sess[acc[c].s].pc = "starting"
  <2>1. acc[c].s \in 1 .. made /\ made \in Nat /\ made <= MaxSessions /\ made <= 1
    BY <1>5, Bounds DEF OrderInv, AcceptInv, SessionsInv, TypeOK, ServerTypeOK
  <2>2. ASSUME NEW x \in Sessions, x # acc[c].s PROVE sess[x].pc = "none"
    <3>1. SessionInv(x) /\ x > made
      BY <2>1, <2>2, Bounds DEF OrderInv, Sessions
    <3>2. QED
      BY <3>1 DEF SessionInv
  <2>3. QED
    BY <2>1, <2>2, Bounds DEF Sessions, OrderInv, AcceptInv
<1>6. CASE WriteHelloFails(c) /\ ~acc[c].resumed
  <2>1. PICK s \in Sessions : s = acc[c].s /\ sess[s].pc = "starting"
                              /\ \A x \in Sessions : x # s => sess[x].pc = "none"
    BY <1>5, <1>6 DEF WriteHelloFails, Founding
  <2>2. sess' = [sess EXCEPT ![s].finished = TRUE, ![s].pc = "dead", ![s].pending_fd = None]
    BY <1>6, <2>1 DEF WriteHelloFails
  <2>3. sess'[s].finished /\ sess'[s].pc = "dead"
        /\ \A x \in Sessions \ {s} : sess'[x] = sess[x]
    BY <1>2, <2>2 DEF SessionRec, TypeOK, ServerTypeOK
  <2>4. \A x \in Sessions : sess'[x].pc \in {"none", "dead"}
    BY <2>1, <2>3
  <2>5. ~StartSession(c)
    BY <1>6 DEF WriteHelloFails, StartSession
  <2>6. QED
    BY <1>1, <1>2, <2>1, <2>3, <2>4, <2>5
<1>7. ASSUME NEW s \in Sessions, NEW pc, Pend(s, c, pc)
      PROVE  /\ sess'[s].pc = pc /\ sess'[s].finished = sess[s].finished
             /\ \A x \in Sessions \ {s} : sess'[x] = sess[x]
  BY <1>2, <1>7 DEF Pend, SessionRec, TypeOK, ServerTypeOK
<1>8. CASE HandOver(c) \/ StartServing(c)
  <2>1. table' = table /\ acc[c].pc \in {"handover", "start"} /\ ~StartSession(c)
    BY <1>8 DEF HandOver, StartServing, StartSession
  <2>2. PICK s \in Sessions : s = acc[c].s
    BY <1>5, <2>1
  <2>3. CASE sess' = sess
    BY <1>3, <2>1, <2>3
  <2>4. CASE Pend(s, c, sess[s].pc)
    BY <1>1, <1>2, <1>7, <2>1, <2>4
  <2>5. CASE acc[c].pc = "start" /\ Pend(s, c, "waiting")
    <3>1. Founding(c)
      BY <2>5 DEF Founding, OrderInv, AcceptInv
    <3>2. sess[s].pc = "starting"
      BY <1>5, <2>2, <2>1, <3>1
    <3>3. sess'[s].pc = "waiting" /\ sess'[s].finished = sess[s].finished
          /\ \A x \in Sessions \ {s} : sess'[x] = sess[x]
      BY <1>7, <2>5
    <3>4. QED
      BY <1>1, <1>2, <2>1, <3>2, <3>3
  <2>6. QED
    BY <1>8, <2>2, <2>3, <2>4, <2>5 DEF HandOver, StartServing
<1>9. QED
  <2>1. Accept(c) /\ ~StartSession(c) /\ ~HandOver(c) /\ ~StartServing(c)
        /\ ~(WriteHelloFails(c) /\ ~acc[c].resumed) => UNCHANGED <<table, sess>>
    BY DEF Accept, HelloNeverArrives, FindSession, RefuseSession, TellGone,
           Snapshot, WriteHello, WriteHelloFails, ResendKept
  <2>2. QED
    BY <1>3, <1>4, <1>6, <1>8, <2>1

(* Replies, and answers that were there already, mean no more than before. *)
LEMMA HelloMeansKept ==
  ASSUME TypeOK, NEW c \in Conns, HelloMeans(c), made = 1 => made' = 1, Over => Over',
         \A i \in DOMAIN down'[c] :
           \/ \E j \in DOMAIN down[c] : down'[c][i] = down[c][j]
           \/ down'[c][i].type \in {"rsp", "busy"}
  PROVE  HelloMeans(c)'
  BY DEF HelloMeans

(* What is left of a sequence whose first element is taken.                *)
LEMMA TailParts ==
  ASSUME NEW S, NEW f \in Seq(S), f # <<>>
  PROVE  /\ Tail(f) \in Seq(S) /\ Len(Tail(f)) = Len(f) - 1
         /\ 1 \in DOMAIN f /\ Head(f) = f[1] /\ f[1] \in S
         /\ \A i \in DOMAIN Tail(f) : /\ i \in Nat /\ i >= 1 /\ i + 1 \in DOMAIN f
                                      /\ Tail(f)[i] = f[i + 1]
<1>1. Len(f) \in Nat /\ Len(f) # 0 /\ DOMAIN f = 1 .. Len(f)
  BY EmptySeq, LenProperties
<1>2. Tail(f) \in Seq(S) /\ Len(Tail(f)) = Len(f) - 1 /\ Head(f) = f[1]
      /\ \A i \in 1 .. Len(Tail(f)) : Tail(f)[i] = f[i + 1]
  BY HeadTailProperties
<1>3. QED
  BY <1>1, <1>2, LenProperties

(* What is left of a sequence whose end is cut off.                        *)
LEMMA PrefixParts ==
  ASSUME NEW S, NEW f \in Seq(S), NEW k \in 0 .. Len(f)
  PROVE  /\ SubSeq(f, 1, k) \in Seq(S) /\ Len(SubSeq(f, 1, k)) = k
         /\ \A i \in DOMAIN SubSeq(f, 1, k) : /\ i \in DOMAIN f /\ i <= k
                                              /\ SubSeq(f, 1, k)[i] = f[i]
  BY LenProperties

(* The elements of two sequences one after the other.                      *)
LEMMA ConcatParts ==
  ASSUME NEW S, NEW f \in Seq(S), NEW g \in Seq(S)
  PROVE  /\ f \o g \in Seq(S) /\ Len(f \o g) = Len(f) + Len(g)
         /\ \A i \in DOMAIN (f \o g) :
              \/ i \in DOMAIN f /\ (f \o g)[i] = f[i]
              \/ /\ i \in Nat /\ i > Len(f) /\ i - Len(f) \in DOMAIN g
                 /\ (f \o g)[i] = g[i - Len(f)]
  BY ConcatProperties, LenProperties

(* The client takes a message off one connection at most.                  *)
LEMMA ClientReads ==
  ASSUME TypeOK, Client
  PROVE  \A c \in Conns : down'[c] = down[c] \/ (down[c] # <<>> /\ down'[c] = Tail(down[c]))
<1>1. CASE down' = down
  BY <1>1
<1>2. CASE \E d : down' = [down EXCEPT ![d] = Tail(@)] /\ down[d] # <<>>
  BY <1>2 DEF TypeOK, NetTypeOK
<1>3. QED
  <2>1. HelloBusy \/ HelloGone \/ HelloStarted \/ HelloResumed =>
          down' = [down EXCEPT ![dialed] = Tail(@)] /\ down[dialed] # <<>>
    BY DEF HelloBusy, HelloGone, HelloStarted, HelloResumed, ReadHello
  <2>2. RecvReply => down' = [down EXCEPT ![fd] = Tail(@)] /\ down[fd] # <<>>
    BY DEF RecvReply
  <2>3. ~(HelloBusy \/ HelloGone \/ HelloStarted \/ HelloResumed \/ RecvReply) => down' = down
    BY DEF Client, StartConnecting, QueueFrame, Dial, Refused, GiveUp, HelloUnanswered,
           Flush, FlushFails, RecvFails, netVars
  <2>4. QED
    BY <1>1, <1>2, <2>1, <2>2, <2>3

(* Every step of the client keeps GoneInv; with the session known to be    *)
(* gone it takes none.                                                     *)
LEMMA GoneClient ==
  ASSUME TypeOK, SessionsInv, GoneInv, Client PROVE GoneInv' /\ ~session_gone
<1>1. UNCHANGED <<table, made, sess>>
  BY DEF Client, StartConnecting, QueueFrame, Dial, Refused, GiveUp, HelloUnanswered, HelloBusy,
         HelloGone, HelloStarted, HelloResumed, Flush, FlushFails, RecvReply, RecvFails,
         serverVars
<1>2. (Over <=> Over') /\ (made = 1 <=> made' = 1)
  BY <1>1 DEF Over
<1>3. \A c \in Conns : HelloMeans(c)'
  <2> SUFFICES ASSUME NEW c \in Conns PROVE HelloMeans(c)'
    OBVIOUS
  <2>1. \A i \in DOMAIN down'[c] : \E j \in DOMAIN down[c] : down'[c][i] = down[c][j]
    <3>1. down[c] \in Seq(Message)
      BY DEF TypeOK, NetTypeOK
    <3>2. CASE down'[c] = down[c]
      BY <3>2
    <3>3. CASE down[c] # <<>> /\ down'[c] = Tail(down[c])
      <4>1. \A i \in DOMAIN Tail(down[c]) :
              i + 1 \in DOMAIN down[c] /\ Tail(down[c])[i] = down[c][i + 1]
        BY <3>1, <3>3, TailParts
      <4>2. QED
        BY <3>3, <4>1
    <3>4. QED
      BY <3>2, <3>3, ClientReads
  <2>2. HelloMeans(c)
    BY DEF GoneInv
  <2>3. QED
    BY <1>2, <2>1, <2>2, HelloMeansKept
<1>4. ~session_gone
  <2>1. session_gone => op.pc = "idle" /\ fd = None
    BY DEF GoneInv
  <2>2. op.pc = "idle" => StartConnecting \/ \E t \in Threads, k \in Kinds : QueueFrame(t, k)
    BY DEF Client, Dial, Refused, GiveUp, HelloUnanswered, HelloBusy, HelloGone, HelloStarted,
           HelloResumed, ReadHello, Flush, FlushFails, RecvReply, RecvFails
  <2>3. StartConnecting => ~session_gone
    BY DEF StartConnecting, MayConnect
  <2>4. ASSUME NEW t \in Threads, NEW k \in Kinds, QueueFrame(t, k)
        PROVE  op.pc = "queue" \/ fd # None
    BY <2>4 DEF QueueFrame
  <2>5. QED
    BY <2>1, <2>2, <2>3, <2>4
\* The answer the client has just read.
<1>5. ASSUME NEW type \in {"fresh", "resumed"}, ReadHello(type)
      PROVE  made = 1 /\ (type = "fresh" /\ had_session => Over)
  <2>1. dialed \in Conns /\ op.pc = "hello" /\ down[dialed] # <<>>
        /\ Head(down[dialed]).type = type
    BY <1>5, ReadHelloType DEF ReadHello
  <2>2. 1 \in DOMAIN down[dialed] /\ down[dialed][1].type = type
    BY <2>1, TailParts DEF TypeOK, NetTypeOK
  <2>3. HelloMeans(dialed) /\ (had_session => dialed # 1)
    BY <2>1 DEF GoneInv
  <2>4. QED
    BY <2>2, <2>3 DEF HelloMeans
<1>6. had_session' => made' = 1
  <2>1. CASE HelloStarted \/ HelloResumed
    BY <1>1, <1>5, <2>1 DEF HelloStarted, HelloResumed
  <2>2. CASE had_session' = had_session
    BY <1>1, <2>2 DEF GoneInv
  <2>3. QED
    BY <2>1, <2>2 DEF Client, StartConnecting, QueueFrame, Dial, Refused, GiveUp, HelloUnanswered,
         HelloBusy, HelloGone, Flush, FlushFails, RecvReply, RecvFails
<1>7. had_session' /\ op'.pc = "hello" => dialed' # 1
  <2>1. CASE Dial
    BY <2>1, Bounds DEF Dial, SessionsInv, TypeOK, NetTypeOK
  <2>2. CASE ~Dial
    <3>1. op'.pc # "hello"
      <4>1. HelloStarted \/ HelloResumed => op'.pc # "hello"
        BY OpSteps DEF HelloStarted, HelloResumed
      <4>2. Refused \/ HelloUnanswered \/ HelloBusy => op'.pc # "hello"
        BY OpSteps DEF Refused, HelloUnanswered, HelloBusy
      <4>3. HelloGone \/ GiveUp => op'.pc # "hello"
        BY OpSteps DEF HelloGone, GiveUp, Idle
      <4>4. FlushFails \/ RecvFails => op'.pc # "hello"
        BY OpSteps DEF FlushFails, RecvFails, Idle
      <4>5. RecvReply => op'.pc # "hello"
        BY OpSteps DEF RecvReply, Idle
      <4>6. Flush => op'.pc # "hello"
        BY DEF Flush, Idle, At, TypeOK, ClientTypeOK, OpRec
      <4>7. StartConnecting => op'.pc # "hello"
        BY DEF StartConnecting, Idle
      <4>8. ASSUME NEW t \in Threads, NEW k \in Kinds, QueueFrame(t, k) PROVE op'.pc # "hello"
        BY <4>8 DEF QueueFrame, Idle
      <4>9. QED
        BY <2>2, <4>1, <4>2, <4>3, <4>4, <4>5, <4>6, <4>7, <4>8 DEF Client
    <3>2. QED
      BY <3>1
  <2>3. QED
    BY <2>1, <2>2
<1>8. session_gone' => Over' /\ op'.pc = "idle" /\ fd' = None
  <2>1. CASE HelloGone
    BY <1>2, <1>5, <2>1, OpSteps DEF HelloGone, ReadHello, SessionsInv, Idle
  <2>2. CASE session_gone' = session_gone
    BY <1>4, <2>2
  <2>3. QED
    BY <2>1, <2>2 DEF Client, StartConnecting, QueueFrame, Dial, Refused, GiveUp, HelloUnanswered,
         HelloBusy, HelloStarted, HelloResumed, Flush, FlushFails, RecvReply, RecvFails
<1>9. QED
  BY <1>1, <1>3, <1>4, <1>6, <1>7, <1>8 DEF GoneInv

(* Every step of an accept thread keeps GoneInv, and runs nothing.         *)
LEMMA GoneAccept ==
  ASSUME TypeOK, OrderInv, SessionsInv, GoneInv, NEW c \in Conns, Accept(c)
  PROVE  GoneInv' /\ ran' = ran
<1>1. /\ UNCHANGED <<clientVars, dialed>> /\ (StartSession(c) \/ made' = made)
      /\ acc[c].pc \notin {"none", "done"}
  BY AcceptMoves
<1>2. /\ ran' = ran
      /\ \A x \in Sessions :
           /\ sess'[x].finished <=> sess'[x].pc \in {"ended", "dead"}
           /\ \/ sess'[x].pc = sess[x].pc
              \/ sess[x].pc = "starting" /\ sess'[x].pc \in {"waiting", "dead"}
              \/ StartSession(c) /\ sess[x].pc = "none" /\ sess'[x].pc = "starting"
      /\ StartSession(c) => table' # None
      /\ table' = None => table = None \/ \A x \in Sessions : sess'[x].pc \in {"none", "dead"}
  BY AcceptServes
<1>3. c <= dialed /\ c \in Nat /\ c >= 1 /\ dialed \in Nat
  BY <1>1, Bounds DEF SessionsInv, Conns, TypeOK, NetTypeOK
<1>4. StartSession(c) => made = 0 /\ made' = 1
  <2>1. StartSession(c) => acc[c].pc = "hello" /\ Starting(c) /\ made' = made + 1
    BY DEF StartSession
  <2>2. acc[c].pc = "hello" /\ Starting(c) => made = 0
    BY DEF SessionsInv, Starting
  <2>3. QED
    BY <2>1, <2>2
<1>5. (Over => Over') /\ (made = 1 => made' = 1)
  BY <1>1, <1>2, <1>4 DEF Over
<1>6. table' = None => \A x \in Sessions : sess'[x].pc \in {"none", "dead"}
  BY <1>2 DEF GoneInv
<1>7. TellGone(c) => Over /\ c # 1
  <2> SUFFICES ASSUME TellGone(c) PROVE Over /\ c # 1
    OBVIOUS
  <2>1. acc[c].pc = "hello" /\ ~InTable /\ ~Starting(c)
    BY DEF TellGone
  <2>2. c # 1
    BY <2>1 DEF SessionsInv
  <2>3. made = 1
    BY <1>3, <2>2 DEF SessionsInv, GoneInv
  <2>4. CASE table = None
    BY <2>2, <2>3, <2>4 DEF Over, GoneInv
  <2>5. CASE table # None
    <3>1. table = 1 /\ sess[table].finished /\ table \in Sessions
      BY <2>1, <2>3, <2>5, Bounds
         DEF InTable, OrderInv, AcceptInv, TypeOK, ServerTypeOK, None, Sessions
    <3>2. ASSUME NEW x \in Sessions, x # 1 PROVE sess[x].pc = "none"
      <4>1. SessionInv(x) /\ x > made
        BY <2>3, <3>2, Bounds DEF OrderInv, Sessions
      <4>2. QED
        BY <4>1 DEF SessionInv
    <3>3. sess[1].pc \in {"ended", "dead"}
      BY <3>1 DEF GoneInv
    <3>4. QED
      BY <2>2, <2>3, <3>2, <3>3 DEF Over
  <2>6. QED
    BY <2>4, <2>5
<1>8. WriteHello(c) => made = 1 /\ (~acc[c].resumed => c = 1)
  <2> SUFFICES ASSUME WriteHello(c) PROVE made = 1 /\ (~acc[c].resumed => c = 1)
    OBVIOUS
  <2>1. acc[c].pc = "reply"
    BY DEF WriteHello
  <2>2. acc[c].s \in 1 .. made /\ made \in Nat /\ made <= 1
    BY <2>1, Bounds DEF OrderInv, AcceptInv, SessionsInv, TypeOK, ServerTypeOK
  <2>3. QED
    BY <2>1, <2>2 DEF SessionsInv, Founding
\* The message written, if any.
<1>9. PICK m : /\ \A d \in Conns : down'[d] = down[d] \/ (d = c /\ down'[d] = down[d] \o <<m>>)
               /\ m \in Message
               /\ m.type \in {"fresh", "resumed"} => made = 1
               /\ m.type = "fresh" /\ c # 1 => Over
  <2>1. CASE WriteHello(c)
    <3> DEFINE m == HelloReply(IF acc[c].resumed THEN "resumed" ELSE "fresh", acc[c].snap)
    <3>1. Write(c, <<m>>)
      BY <2>1 DEF WriteHello
    <3>2. m \in Message /\ m.type = IF acc[c].resumed THEN "resumed" ELSE "fresh"
      BY Bounds DEF TypeOK, ServerTypeOK, AcceptRec, HelloReply, Message, Result
    <3> HIDE DEF m
    <3>3. \A d \in Conns : down'[d] = down[d] \/ (d = c /\ down'[d] = down[d] \o <<m>>)
      BY <3>1 DEF Write, TypeOK, NetTypeOK
    <3>4. QED
      BY <1>8, <2>1, <3>2, <3>3
  <2>2. CASE TellGone(c) \/ RefuseSession(c)
    <3>1. /\ TellGone(c) => Write(c, <<HelloReply("fresh", 0)>>)
          /\ RefuseSession(c) => Write(c, <<HelloReply("busy", 0)>>)
      BY DEF TellGone, RefuseSession
    <3>2. PICK m \in Message : /\ Write(c, <<m>>) /\ m.type \in {"fresh", "busy"}
                               /\ m.type = "fresh" => TellGone(c)
      <4>1. /\ HelloReply("fresh", 0) \in Message /\ HelloReply("fresh", 0).type = "fresh"
            /\ HelloReply("busy", 0) \in Message /\ HelloReply("busy", 0).type = "busy"
        BY Bounds DEF HelloReply, Message, Result
      <4>2. QED
        BY <2>2, <3>1, <4>1
    <3>3. \A d \in Conns : down'[d] = down[d] \/ (d = c /\ down'[d] = down[d] \o <<m>>)
      BY <3>2 DEF Write, TypeOK, NetTypeOK
    <3>4. QED
      BY <1>7, <3>2, <3>3 DEF Over
  <2>3. CASE ResendKept(c)
    <3>1. Write(c, <<acc[c].kept>>) \/ down' = down
      BY <2>3 DEF ResendKept
    <3>2. acc[c].kept \in Replies
      BY DEF TypeOK, ServerTypeOK, AcceptRec
    <3>3. acc[c].kept \in Message /\ acc[c].kept.type = "rsp"
      BY <3>2 DEF Replies, Message
    <3>4. \A d \in Conns : down'[d] = down[d] \/ (d = c /\ down'[d] = down[d] \o <<acc[c].kept>>)
      BY <3>1 DEF Write, TypeOK, NetTypeOK
    <3>5. QED
      BY <3>3, <3>4
  <2>4. CASE down' = down
    <3>1. Response(0, 0) \in Message /\ Response(0, 0).type = "rsp"
      BY Bounds DEF Response, Message, Result
    <3>2. QED
      BY <2>4, <3>1
  <2>5. QED
    BY <2>1, <2>2, <2>3, <2>4
       DEF Accept, HelloNeverArrives, FindSession, StartSession, Snapshot, WriteHelloFails,
           HandOver, StartServing, netVars
<1>10. \A d \in Conns : HelloMeans(d)'
  <2> SUFFICES ASSUME NEW d \in Conns PROVE HelloMeans(d)'
    OBVIOUS
  <2>1. HelloMeans(d) /\ down[d] \in Seq(Message)
    BY DEF GoneInv, TypeOK, NetTypeOK
  <2>2. CASE down'[d] = down[d]
    BY <1>5, <2>1, <2>2 DEF HelloMeans
  <2>3. CASE d = c /\ down'[d] = down[d] \o <<m>>
    <3>1. \A i \in DOMAIN down'[d] :
            down'[d][i] = m \/ (i \in DOMAIN down[d] /\ down'[d][i] = down[d][i])
      <4>1. <<m>> \in Seq(Message) /\ \A i \in DOMAIN <<m>> : <<m>>[i] = m
        BY <1>9
      <4>2. QED
        BY <2>1, <2>3, <4>1, ConcatParts
    <3>2. QED
      BY <1>5, <1>9, <2>1, <2>3, <3>1 DEF HelloMeans
  <2>4. QED
    BY <1>9, <2>2, <2>3
<1>11. GoneInv'
  BY <1>1, <1>2, <1>5, <1>6, <1>10 DEF GoneInv, clientVars
<1>12. QED
  BY <1>2, <1>11

(* Every step of a serving thread keeps GoneInv, and once the session is   *)
(* over runs nothing.                                                      *)
LEMMA GoneServe ==
  ASSUME TypeOK, OrderInv, SessionsInv, GoneInv, NEW s \in Sessions, Serve(s)
  PROVE  GoneInv' /\ (Over => ran' = ran)
<1>1. /\ UNCHANGED <<clientVars, dialed, acc, made>>
      /\ \A x \in Sessions \ {s} : sess'[x] = sess[x] /\ ran'[x] = ran[x]
      /\ sess[s].pc \notin {"none", "starting", "dead"}
      /\ sess'[s].pc \notin {"none", "starting"}
      /\ sess'[s].finished <=> sess'[s].pc \in {"ended", "dead"}
      /\ sess[s].pc = "ended" => sess'[s].pc = "dead" /\ ran' = ran
      /\ table' = table \/ (table = s /\ table' = None /\ sess'[s].pc = "dead")
      /\ \A c \in Conns : \/ down'[c] = down[c]
                          \/ \E m \in Replies : down'[c] = down[c] \o <<m>>
  <2>1. sess[s].finished <=> sess[s].pc \in {"ended", "dead"}
    BY DEF GoneInv
  <2>2. QED
    BY <2>1, ServeMoves
<1>2. Over => Over' /\ ran' = ran
  BY <1>1 DEF Over
<1>3. \A x \in Sessions \ {s} : sess[x].pc = "none"
  <2> SUFFICES ASSUME NEW x \in Sessions \ {s} PROVE sess[x].pc = "none"
    OBVIOUS
  <2>1. SessionInv(x) /\ SessionInv(s) /\ made \in Nat /\ made <= 1
        /\ x \in Nat /\ s \in Nat /\ x >= 1 /\ s >= 1
    BY Bounds DEF OrderInv, SessionsInv, TypeOK, ServerTypeOK, Sessions
  <2>2. ~(s > made)
    BY <1>1, <2>1 DEF SessionInv
  <2>3. x > made
    BY <2>1, <2>2
  <2>4. QED
    BY <2>1, <2>3 DEF SessionInv
<1>4. table' = None => \A x \in Sessions : sess'[x].pc \in {"none", "dead"}
  BY <1>1, <1>3 DEF GoneInv
<1>5. \A c \in Conns : HelloMeans(c)'
  <2> SUFFICES ASSUME NEW c \in Conns PROVE HelloMeans(c)'
    OBVIOUS
  <2>1. HelloMeans(c) /\ down[c] \in Seq(Message)
    BY DEF GoneInv, TypeOK, NetTypeOK
  <2>2. ASSUME NEW m \in Replies, down'[c] = down[c] \o <<m>>
        PROVE  \A i \in DOMAIN down'[c] :
                 down'[c][i] = m \/ (i \in DOMAIN down[c] /\ down'[c][i] = down[c][i])
    <3>1. m \in Message
      BY DEF Replies, Message
    <3>2. <<m>> \in Seq(Message) /\ \A i \in DOMAIN <<m>> : <<m>>[i] = m
      BY <3>1
    <3>3. QED
      BY <2>1, <2>2, <3>2, ConcatParts
  <2>3. \A m \in Replies : m.type = "rsp"
    BY DEF Replies
  <2>4. \A i \in DOMAIN down'[c] : \/ \E j \in DOMAIN down[c] : down'[c][i] = down[c][j]
                                   \/ down'[c][i].type \in {"rsp", "busy"}
    <3>1. CASE down'[c] = down[c]
      BY <3>1
    <3>2. CASE \E m \in Replies : down'[c] = down[c] \o <<m>>
      <4>1. PICK m \in Replies : down'[c] = down[c] \o <<m>>
        BY <3>2
      <4>2. \A i \in DOMAIN down'[c] :
              down'[c][i] = m \/ (i \in DOMAIN down[c] /\ down'[c][i] = down[c][i])
        BY <2>2, <4>1
      <4>3. m.type = "rsp"
        BY <2>3
      <4>4. QED
        BY <4>2, <4>3
    <3>3. QED
      BY <1>1, <3>1, <3>2
  <2>5. QED
    BY <1>1, <1>2, <2>1, <2>4, HelloMeansKept
<1>6. \A x \in Sessions : sess'[x].finished <=> sess'[x].pc \in {"ended", "dead"}
  BY <1>1 DEF GoneInv
<1>7. GoneInv'
  BY <1>1, <1>2, <1>4, <1>5, <1>6 DEF GoneInv, clientVars
<1>8. QED
  BY <1>2, <1>7

(* Breaks and a restart keep GoneInv, and run nothing.                     *)
LEMMA GoneOthers ==
  ASSUME TypeOK, GoneInv, Restart \/ \E c \in Conns : Break(c)
  PROVE  GoneInv' /\ ran' = ran /\ dialed' = dialed /\ session_gone' = session_gone
<1>1. CASE Restart
  <2>1. UNCHANGED <<clientVars, dialed, down, made, ran>>
    BY <1>1 DEF Restart
  <2>2. \A x \in Sessions : \/ sess'[x] = sess[x] /\ sess[x].pc = "none"
                            \/ sess'[x].pc = "dead" /\ sess'[x].finished
    BY <1>1 DEF Restart, NoSession
  <2>3. Over => Over'
    BY <2>1, <2>2 DEF Over
  <2>4. \A c \in Conns : HelloMeans(c)'
    BY <2>1, <2>3 DEF GoneInv, HelloMeans
  <2>5. QED
    BY <2>1, <2>2, <2>3, <2>4 DEF GoneInv, clientVars
<1>2. ASSUME NEW c \in Conns, Break(c)
      PROVE  GoneInv' /\ ran' = ran /\ dialed' = dialed /\ session_gone' = session_gone
  <2>1. UNCHANGED <<clientVars, dialed, serverVars>>
    BY <1>2 DEF Break
  <2>2. PICK j \in 0 .. Len(down[c]) : down' = [down EXCEPT ![c] = SubSeq(@, 1, j)]
    BY <1>2 DEF Break
  <2>3. \A d \in Conns : HelloMeans(d)'
    <3> SUFFICES ASSUME NEW d \in Conns PROVE HelloMeans(d)'
      OBVIOUS
    <3>1. down[d] \in Seq(Message) /\ HelloMeans(d)
      BY DEF TypeOK, NetTypeOK, GoneInv
    <3>2. \A i \in DOMAIN down'[d] : i \in DOMAIN down[d] /\ down'[d][i] = down[d][i]
      <4>1. CASE d = c
        <5>1. down'[d] = SubSeq(down[d], 1, j) /\ j \in 0 .. Len(down[d])
          BY <2>2, <4>1 DEF TypeOK, NetTypeOK
        <5>2. QED
          BY <3>1, <5>1, PrefixParts
      <4>2. CASE d # c
        BY <2>2, <4>2 DEF TypeOK, NetTypeOK
      <4>3. QED
        BY <4>1, <4>2
    <3>3. QED
      BY <2>1, <3>1, <3>2 DEF HelloMeans, Over, serverVars
  <2>4. QED
    BY <2>1, <2>3 DEF GoneInv, Over, clientVars, serverVars
<1>3. QED
  BY <1>1, <1>2

(* Every step keeps GoneInv, and GoneIsFinal holds of it.                  *)
LEMMA GoneStep ==
  ASSUME TypeOK, OrderInv, SessionsInv, GoneInv, [Next]_vars
  PROVE  /\ GoneInv'
         /\ session_gone => ran' = ran /\ dialed' = dialed /\ session_gone'
<1>1. session_gone => Over
  BY DEF GoneInv
<1>2. CASE Client
  BY <1>2, GoneClient
<1>3. ASSUME NEW c \in Conns, Accept(c)
      PROVE  GoneInv' /\ (session_gone => ran' = ran /\ dialed' = dialed /\ session_gone')
  BY <1>3, GoneAccept, AcceptMoves DEF clientVars
<1>4. ASSUME NEW s \in Sessions, Serve(s)
      PROVE  GoneInv' /\ (session_gone => ran' = ran /\ dialed' = dialed /\ session_gone')
  <2>1. UNCHANGED <<clientVars, dialed>>
    BY <1>4, ServeMoves DEF GoneInv
  <2>2. QED
    BY <1>1, <1>4, <2>1, GoneServe DEF clientVars
<1>5. CASE Restart \/ \E c \in Conns : Break(c)
  BY <1>5, GoneOthers
<1>6. CASE UNCHANGED vars
  BY <1>6 DEF vars, clientVars, netVars, serverVars, GoneInv, HelloMeans, Over
<1>7. QED
  BY <1>2, <1>3, <1>4, <1>5, <1>6 DEF Next

(* A client told that its session is gone was told the truth.              *)
THEOREM GoneHolds == Spec => []GoneInv
<1>1. TypeOK /\ OrderInv /\ SessionsInv /\ GoneInv /\ [Next]_vars => GoneInv'
  BY GoneStep
<1>2. QED
  BY <1>1, GoneInit, TypeCorrect, OrderInvariant, SessionsHold, PTL DEF Spec

(* Once the client knows its session is gone, nothing of it runs any more  *)
(* and the client opens no connection: "final" (ensure_connected_locked).  *)
THEOREM GoneStaysGone == Spec => GoneIsFinal
<1>1. TypeOK /\ OrderInv /\ SessionsInv /\ GoneInv /\ [Next]_vars =>
        [session_gone => ran' = ran /\ dialed' = dialed /\ session_gone']_vars
  BY GoneStep
<1>2. QED
  BY <1>1, TypeCorrect, OrderInvariant, SessionsHold, GoneHolds, PTL DEF Spec, GoneIsFinal
-----------------------------------------------------------------------------
(* The frames the client keeps.                                            *)

(* The replay buffer and the queue are in the order of issue, and the only *)
(* call in them is the one under way, which was issued last and of which   *)
(* the application has been told nothing yet.                              *)
FramesInv ==
  /\ InOrder(unacked) /\ InOrder(queued)
  /\ op.pc \in {"idle", "queue"} => op.n = 0
  /\ op.n # 0 => op.n = Len(issued)
  /\ op.n # 0 /\ op.pc # "flush" => queued = <<>>
  /\ \A n \in Elems(unacked) \union Elems(queued) : IsCall(n) => n = op.n
  /\ op.n # 0 /\ IsCall(op.n) => told[op.n] = Untold
  /\ \A n \in Reqs : n > Len(issued) => told[n] = Untold

(* At the start the client keeps nothing.                                  *)
LEMMA FramesInit == Init => FramesInv
  BY DEF Init, FramesInv, InOrder, Elems, Idle

(* What forget_acked_locked leaves of frames in order is past up_to.       *)
LEMMA ForgetAckedParts ==
  ASSUME NEW frames \in Seq(Reqs), InOrder(frames), NEW up_to \in 0 .. MaxReq
  PROVE  /\ ForgetAcked(frames, up_to) \in Seq(Reqs)
         /\ InOrder(ForgetAcked(frames, up_to))
         /\ \A n \in Elems(ForgetAcked(frames, up_to)) : n \in Elems(frames) /\ n > up_to
<1>1. ForgetAcked(frames, up_to) \in Seq(Reqs) /\ Len(frames) \in Nat
  BY ForgetAckedIsSuffix, LenProperties
<1>2. CASE ForgetAcked(frames, up_to) = <<>>
  BY <1>1, <1>2 DEF InOrder, Elems
<1>3. CASE \E first \in 1 .. Len(frames) :
             /\ ForgetAcked(frames, up_to) = SubSeq(frames, first, Len(frames))
             /\ ~AtOrBefore(frames[first], up_to)
  <2>1. PICK first \in 1 .. Len(frames) :
             /\ ForgetAcked(frames, up_to) = SubSeq(frames, first, Len(frames))
             /\ ~AtOrBefore(frames[first], up_to)
    BY <1>3
  <2>2. frames[first] \in Reqs /\ frames[first] > up_to
    <3>1. frames[first] \in Reqs
      BY <2>1
    <3>2. frames[first] \in 0 .. MaxReq /\ frames[first] \in Nat
      BY <3>1, Bounds DEF Reqs
    <3>3. ~(frames[first] <= up_to)
      BY <2>1, <3>2, AtOrBeforeIsOrder
    <3>4. QED
      BY <3>1, <3>2, <3>3, Bounds
  <2>3. PICK rest \in Seq(Reqs) : rest = SubSeq(frames, first, Len(frames))
    BY <1>1, <2>1
  <2>4. \A i \in DOMAIN rest : /\ i \in Nat /\ i >= 1 /\ first + i - 1 \in DOMAIN frames
                               /\ rest[i] = frames[first + i - 1]
    BY <2>1, <2>3, LenProperties
  <2>5. InOrder(rest)
    <3> SUFFICES ASSUME NEW i \in DOMAIN rest, NEW j \in DOMAIN rest, i < j
                 PROVE  rest[i] < rest[j]
      BY DEF InOrder
    <3>1. i \in Nat /\ j \in Nat /\ first \in Nat
      BY <2>1, <2>4
    <3>2. first + i - 1 < first + j - 1
      BY <3>1
    <3>3. QED
      BY <2>4, <3>2 DEF InOrder
  <2>6. ASSUME NEW i \in DOMAIN rest PROVE rest[i] \in Elems(frames) /\ rest[i] > up_to
    <3>1. rest[i] = frames[first + i - 1] /\ first + i - 1 \in DOMAIN frames
      BY <2>4
    <3>2. first + i - 1 = first \/ first < first + i - 1
      BY <2>1, <2>4
    <3>3. frames[first] <= frames[first + i - 1]
      <4>1. PICK k : k = first + i - 1
        OBVIOUS
      <4>2. /\ first \in DOMAIN frames /\ k \in DOMAIN frames
            /\ \A j \in DOMAIN frames : frames[j] \in Nat
        BY <1>1, <3>1, <4>1, LenProperties, Bounds DEF Reqs
      <4>3. k = first \/ first < k
        BY <3>2, <4>1
      <4>4. frames[first] <= frames[k]
        BY <4>2, <4>3 DEF InOrder
      <4>5. QED
        BY <4>1, <4>4
    <3>4. rest[i] \in Nat /\ frames[first] \in Nat
      BY <2>2, Bounds DEF Reqs
    <3>5. QED
      BY <2>2, <3>1, <3>3, <3>4, Bounds DEF Elems
  <2>7. QED
    BY <1>1, <2>1, <2>3, <2>5, <2>6 DEF Elems
<1>4. QED
  BY <1>1, <1>2, <1>3, ForgetAckedIsRest

(* A call that is given up is in none of the frames left, if it is the     *)
(* last of them by order.                                                  *)
LEMMA WithoutCallParts ==
  ASSUME NEW frames \in Seq(Reqs), InOrder(frames), NEW n \in Reqs,
         \A i \in DOMAIN frames : frames[i] <= n
  PROVE  /\ InOrder(WithoutCall(frames, n))
         /\ \A m \in Elems(WithoutCall(frames, n)) : m \in Elems(frames) /\ m # n
<1> DEFINE k == Len(frames)
<1>1. k \in Nat /\ DOMAIN frames = 1 .. k /\ \A i \in 1 .. k : frames[i] \in Nat
  BY LenProperties, Bounds DEF Reqs
<1>2. CASE frames # <<>> /\ frames[k] = n
  <2>1. k >= 1 /\ k - 1 \in 0 .. k
    BY <1>1, <1>2, EmptySeq
  <2>2. WithoutCall(frames, n) = SubSeq(frames, 1, k - 1)
    BY <1>2 DEF WithoutCall
  <2>3. \A i \in DOMAIN SubSeq(frames, 1, k - 1) : /\ i \in DOMAIN frames /\ i <= k - 1
                                                   /\ SubSeq(frames, 1, k - 1)[i] = frames[i]
    BY <2>1, PrefixParts
  <2>4. \A i \in 1 .. k - 1 : frames[i] < n
    BY <1>1, <1>2, <2>1 DEF InOrder
  <2> HIDE DEF k
  <2>5. PICK rest : rest = SubSeq(frames, 1, k - 1)
    OBVIOUS
  <2>6. \A i \in DOMAIN rest : /\ i \in DOMAIN frames /\ i \in 1 .. k - 1
                               /\ rest[i] = frames[i]
    BY <1>1, <2>1, <2>3, <2>5
  <2>7. InOrder(rest)
    BY <2>6 DEF InOrder
  <2>8. \A i \in DOMAIN rest : rest[i] \in Elems(frames) /\ rest[i] # n
    BY <1>1, <2>4, <2>6, Bounds DEF Elems, Reqs
  <2>9. QED
    BY <2>2, <2>5, <2>7, <2>8 DEF Elems
<1>3. CASE ~(frames # <<>> /\ frames[k] = n)
  <2>1. WithoutCall(frames, n) = frames
    BY <1>3 DEF WithoutCall
  <2>2. ASSUME NEW i \in DOMAIN frames PROVE frames[i] # n
    <3>1. frames # <<>> /\ k \in 1 .. k /\ i \in 1 .. k
      BY <1>1, <2>2
    <3>2. frames[k] # n /\ frames[k] <= n
      BY <1>1, <1>3, <3>1
    <3>3. i < k => frames[i] < frames[k]
      BY <1>1, <3>1 DEF InOrder
    <3>4. n \in Nat /\ frames[i] \in Nat /\ frames[k] \in Nat
      BY <1>1, <3>1, Bounds DEF Reqs
    <3> HIDE DEF k
    <3>5. QED
      BY <1>1, <3>1, <3>2, <3>3, <3>4
  <2>3. QED
    BY <2>1, <2>2 DEF Elems
<1>4. QED
  BY <1>2, <1>3

(* A frame added at the end that is past all before it.                    *)
LEMMA AppendParts ==
  ASSUME NEW frames \in Seq(Reqs), InOrder(frames), NEW n \in Reqs,
         \A i \in DOMAIN frames : frames[i] < n
  PROVE  /\ InOrder(Append(frames, n))
         /\ \A m \in Elems(Append(frames, n)) : m \in Elems(frames) \/ m = n
<1> DEFINE k == Len(frames)
<1>1. /\ k \in Nat /\ DOMAIN frames = 1 .. k /\ DOMAIN Append(frames, n) = 1 .. k + 1
      /\ Append(frames, n)[k + 1] = n
      /\ \A i \in 1 .. k : Append(frames, n)[i] = frames[i]
  BY AppendProperties, LenProperties
<1> HIDE DEF k
<1>2. \A i \in 1 .. k + 1 : i \in 1 .. k \/ i = k + 1
  BY <1>1
<1>3. QED
  BY <1>1, <1>2 DEF InOrder, Elems

(* The frames the client keeps are of requests it made.                    *)
LEMMA FramesMade ==
  ASSUME TypeOK
  PROVE  /\ Len(issued) \in Nat /\ Len(issued) <= MaxReq /\ Made \subseteq Reqs
         /\ unacked \in Seq(Reqs) /\ queued \in Seq(Reqs)
         /\ \A n \in Elems(unacked) \union Elems(queued) : n \in Made /\ n \in Nat /\ n # 0
         /\ op.n \in Nat /\ (op.n # 0 => op.n \in Made)
<1>1. Len(issued) \in Nat /\ Len(issued) <= MaxReq
  BY LenProperties DEF TypeOK, ClientTypeOK
<1>2. Made \subseteq Reqs
  BY <1>1, Bounds DEF Made, Reqs
<1>3. unacked \in Seq(Made) /\ queued \in Seq(Made)
  BY DEF TypeOK, ClientTypeOK
<1>4. unacked \in Seq(Reqs) /\ queued \in Seq(Reqs)
  BY <1>2, <1>3, SeqMonotonic
<1>5. \A n \in Elems(unacked) \union Elems(queued) : n \in Made
  BY <1>3 DEF Elems
<1>6. op.n \in Nat /\ op.n <= Len(issued)
  BY Bounds DEF TypeOK, ClientTypeOK, OpRec
<1>7. QED
  BY <1>1, <1>2, <1>4, <1>5, <1>6 DEF Made

(* A step that issues nothing and tells nothing, and keeps or drops.       *)
LEMMA FramesShrink ==
  ASSUME TypeOK, FramesInv, issued' = issued, told' = told, op'.n = op.n,
         op'.pc \in {"idle", "queue"} => op'.n = 0,
         op'.n # 0 /\ op'.pc # "flush" => queued' = <<>>,
         InOrder(unacked'), InOrder(queued'),
         Elems(unacked') \subseteq Elems(unacked), Elems(queued') \subseteq Elems(queued)
  PROVE  FramesInv'
  BY DEF FramesInv, IsCall, NoReply

(* The end of a call: nothing of a call is kept.                           *)
LEMMA FramesEnd ==
  ASSUME TypeOK, FramesInv, issued' = issued, op'.n = 0,
         \A n \in Reqs : n # op.n => told'[n] = told[n],
         op.n # 0, InOrder(unacked'), InOrder(queued'),
         \A n \in Elems(unacked') \union Elems(queued') : ~IsCall(n)
  PROVE  FramesInv'
<1>1. \A n \in Reqs : n > Len(issued) => n # op.n
  BY FramesMade, Bounds DEF FramesInv, Reqs
<1>2. QED
  BY <1>1 DEF FramesInv, IsCall, NoReply

(* Nothing kept is in order.                                               *)
LEMMA NothingKept == InOrder(<<>>) /\ Elems(<<>>) = {}
  BY DEF InOrder, Elems

(* abandon_call_locked leaves the frames that are not of calls.            *)
LEMMA FramesAbandon ==
  ASSUME TypeOK, FramesInv, NEW frames \in {<<>>, unacked}, Abandon(frames),
         op.n # 0, queued' = <<>>, issued' = issued
  PROVE  FramesInv'
<1>1. /\ unacked' = WithoutCall(frames, op.n) /\ op'.n = 0
      /\ told' = [told EXCEPT ![op.n] = Unknown]
  BY DEF Abandon, Idle
<1>2. frames \in Seq(Reqs) /\ InOrder(frames) /\ op.n \in Reqs
      /\ Elems(frames) \subseteq Elems(unacked)
  <2>1. <<>> \in Seq(Reqs) /\ op.n \in Reqs
    BY FramesMade
  <2>2. CASE frames = <<>>
    BY <2>1, <2>2, NothingKept
  <2>3. CASE frames = unacked
    BY <2>1, <2>3, FramesMade DEF FramesInv
  <2>4. QED
    BY <2>2, <2>3
<1>3. \A i \in DOMAIN frames : frames[i] <= op.n
  <2> SUFFICES ASSUME NEW i \in DOMAIN frames PROVE frames[i] <= op.n
    OBVIOUS
  <2>1. frames[i] \in Elems(unacked)
    BY <1>2 DEF Elems
  <2>2. frames[i] \in 1 .. Len(issued)
    BY <2>1, FramesMade DEF Made
  <2>3. QED
    BY <2>2 DEF FramesInv
<1>4. InOrder(unacked') /\ \A m \in Elems(unacked') : m \in Elems(unacked) /\ m # op.n
  BY <1>1, <1>2, <1>3, WithoutCallParts
<1>5. \A n \in Elems(unacked') \union Elems(queued') : ~IsCall(n)
  BY <1>4, NothingKept DEF FramesInv
<1>6. \A n \in Reqs : n # op.n => told'[n] = told[n]
  BY <1>1 DEF TypeOK, ClientTypeOK
<1>7. QED
  BY <1>1, <1>4, <1>5, <1>6, NothingKept, FramesEnd

(* A call whose connection broke.                                          *)
LEMMA FramesCallBroke ==
  ASSUME TypeOK, FramesInv, CallBroke, op.n # 0, queued' = <<>>, issued' = issued
  PROVE  FramesInv'
<1>1. CASE ~op.again /\ replay_possible
  <2>1. op' = [op EXCEPT !.pc = "connect", !.again = TRUE] /\ UNCHANGED <<unacked, told>>
    BY <1>1 DEF CallBroke
  <2>2. op'.pc = "connect" /\ op'.n = op.n
    BY <2>1 DEF TypeOK, ClientTypeOK, OpRec
  <2>3. InOrder(unacked) /\ InOrder(queued') /\ Elems(queued') \subseteq Elems(queued)
    BY NothingKept DEF FramesInv
  <2>4. QED
    BY <2>1, <2>2, <2>3, FramesShrink
<1>2. CASE ~(~op.again /\ replay_possible)
  BY <1>2, FramesAbandon DEF CallBroke
<1>3. QED
  BY <1>1, <1>2

(* A new request, and its frame.                                           *)
LEMMA FramesQueueFrame ==
  ASSUME TypeOK, FramesInv, NEW t \in Threads, NEW k \in Kinds, QueueFrame(t, k)
  PROVE  FramesInv'
<1>1. PICK n : n = Len(issued) + 1
  OBVIOUS
<1>2. /\ n \in Reqs /\ n \in Nat /\ n # 0 /\ n <= MaxReq
      /\ issued' = Append(issued, [thread |-> t, kind |-> k])
      /\ queued' = Append(queued, n)
      /\ unacked' \in {unacked, <<>>, Append(unacked, n)}
      /\ \/ op'.pc = "flush" /\ op'.n = n /\ UNCHANGED told
         \/ k = "async" /\ op'.pc = "idle" /\ op'.n = 0 /\ told' = [told EXCEPT ![n] = 0]
      /\ op.pc \in {"queue", "idle"}
  BY <1>1, FramesMade, Bounds DEF QueueFrame, Reqs, Idle
<1>3. /\ Len(issued') = n /\ \A m \in Made : issued'[m] = issued[m]
      /\ issued'[n].kind = k
  BY <1>1, <1>2 DEF TypeOK, ClientTypeOK, Made
<1>4. \A m \in Elems(unacked) \union Elems(queued) : m \in Made /\ ~IsCall(m) /\ ~IsCall(m)' /\ m < n
  <2> SUFFICES ASSUME NEW m \in Elems(unacked) \union Elems(queued)
               PROVE  m \in Made /\ ~IsCall(m) /\ ~IsCall(m)' /\ m < n
    OBVIOUS
  <2>1. m \in Made /\ m \in Nat /\ m # 0
    BY FramesMade
  <2>2. ~IsCall(m)
    BY <1>2, <2>1 DEF FramesInv
  <2>3. ~IsCall(m)'
    BY <1>3, <2>1, <2>2 DEF IsCall, NoReply
  <2>4. QED
    BY <1>1, <2>1, <2>2, <2>3, FramesMade DEF Made
<1>5. \A i \in DOMAIN queued : queued[i] < n
  BY <1>4 DEF Elems
<1>6. \A i \in DOMAIN unacked : unacked[i] < n
  BY <1>4 DEF Elems
<1>7. InOrder(queued') /\ \A m \in Elems(queued') : m \in Elems(queued) \/ m = n
  BY <1>2, <1>5, FramesMade, AppendParts DEF FramesInv
<1>8. InOrder(unacked') /\ \A m \in Elems(unacked') : m \in Elems(unacked) \/ m = n
  <2>1. CASE unacked' = Append(unacked, n)
    BY <1>2, <1>6, <2>1, FramesMade, AppendParts DEF FramesInv
  <2>2. CASE unacked' \in {unacked, <<>>}
    BY <2>2, NothingKept DEF FramesInv
  <2>3. QED
    BY <1>2, <2>1, <2>2
<1>9. \A m \in Elems(unacked') \union Elems(queued') : m = n \/ ~IsCall(m)'
  BY <1>4, <1>7, <1>8
<1>10. \A m \in Reqs : m > Len(issued') => m # n /\ m > Len(issued)
  BY <1>1, <1>2, <1>3, FramesMade, Bounds DEF Reqs
<1>11. CASE op'.pc = "flush" /\ op'.n = n /\ UNCHANGED told
  <2>1. told'[n] = Untold
    BY <1>1, <1>2, <1>11, FramesMade DEF FramesInv
  <2>2. QED
    BY <1>2, <1>3, <1>7, <1>8, <1>9, <1>10, <1>11, <2>1 DEF FramesInv
<1>12. CASE k = "async" /\ op'.pc = "idle" /\ op'.n = 0 /\ told' = [told EXCEPT ![n] = 0]
  <2>1. ~IsCall(n)'
    BY <1>3, <1>12 DEF IsCall, NoReply
  <2>2. \A m \in Reqs : m # n => told'[m] = told[m]
    BY <1>12 DEF TypeOK, ClientTypeOK
  <2>3. QED
    BY <1>7, <1>8, <1>9, <1>10, <1>12, <2>1, <2>2 DEF FramesInv
<1>13. QED
  BY <1>2, <1>11, <1>12

(* Every step of the client keeps FramesInv.                               *)
LEMMA FramesClient == ASSUME TypeOK, FramesInv, Client PROVE FramesInv'
<1> USE NothingKept
<1>1. InOrder(unacked) /\ InOrder(queued)
  BY DEF FramesInv
<1>2. ASSUME NEW t \in Threads, NEW k \in Kinds, QueueFrame(t, k) PROVE FramesInv'
  BY <1>2, FramesQueueFrame
<1>3. CASE StartConnecting
  <2>1. UNCHANGED <<unacked, queued, told, issued>> /\ op'.pc = "connect" /\ op'.n = 0
        /\ op.pc = "idle"
    BY <1>3 DEF StartConnecting, Idle
  <2>2. op.n = 0
    BY <2>1 DEF FramesInv
  <2>3. QED
    BY <1>1, <2>1, <2>2, FramesShrink
<1>4. CASE Dial
  <2>1. UNCHANGED <<unacked, queued, told, issued>> /\ op.pc = "connect" /\ op' = At("hello")
    BY <1>4 DEF Dial
  <2>2. op'.pc = "hello" /\ op'.n = op.n
    BY <2>1 DEF At, TypeOK, ClientTypeOK, OpRec
  <2>3. op.n # 0 => queued = <<>>
    BY <2>1 DEF FramesInv
  <2>4. QED
    BY <1>1, <2>1, <2>2, <2>3, FramesShrink
<1>5. CASE Refused \/ HelloUnanswered \/ HelloBusy
  <2>1. UNCHANGED <<unacked, queued, told, issued>> /\ op.pc \in {"connect", "hello"}
        /\ AttemptFailed
    BY <1>5 DEF Refused, HelloUnanswered, HelloBusy, ReadHello
  <2>2. op'.n = op.n /\ op'.pc \in {"idle", "connect"} /\ (op'.pc = "idle" => op'.n = 0)
    BY <2>1, OpSteps
  <2>3. op.n # 0 => queued = <<>>
    BY <2>1 DEF FramesInv
  <2>4. QED
    BY <1>1, <2>1, <2>2, <2>3, FramesShrink
<1>6. CASE GiveUp
  <2>1. op.n # 0 /\ Abandon(unacked) /\ UNCHANGED <<queued, issued>> /\ op.pc = "connect"
    BY <1>6 DEF GiveUp
  <2>2. queued' = <<>>
    BY <2>1 DEF FramesInv
  <2>3. QED
    BY <2>1, <2>2, FramesAbandon
<1>7. CASE HelloGone
  <2>1. queued' = <<>> /\ issued' = issued
    BY <1>7 DEF HelloGone
  <2>2. CASE op.n = 0
    <3>1. unacked' = <<>> /\ op' = Idle /\ told' = told
      BY <1>7, <2>2 DEF HelloGone
    <3>2. op'.n = 0
      BY <3>1 DEF Idle
    <3>3. QED
      BY <2>1, <2>2, <3>1, <3>2, FramesShrink
  <2>3. CASE op.n # 0
    BY <1>7, <2>1, <2>3, FramesAbandon DEF HelloGone
  <2>4. QED
    BY <2>2, <2>3
<1>8. CASE HelloStarted
  <2>1. UNCHANGED <<unacked, queued, told, issued>> /\ op.pc = "hello" /\ Connected
    BY <1>8 DEF HelloStarted, ReadHello
  <2>2. op'.n = op.n /\ op'.pc \in {"queue", "flush"} /\ (op'.pc = "queue" => op'.n = 0)
    BY <2>1, OpSteps
  <2>3. QED
    BY <1>1, <2>1, <2>2, FramesShrink
<1>9. CASE HelloResumed
  <2>1. queued' = <<>> /\ UNCHANGED <<told, issued>> /\ (Connected \/ AttemptFailed)
        /\ unacked' = ForgetAcked(unacked, Head(down[dialed]).n)
        /\ dialed \in Conns /\ down[dialed] # <<>>
    BY <1>9, ReadHelloType DEF HelloResumed, ReadHello
  <2>2. op'.n = op.n /\ (op'.pc \in {"idle", "queue"} => op'.n = 0)
    BY <2>1, OpSteps
  <2>3. Head(down[dialed]).n \in 0 .. MaxReq
    <3>1. Head(down[dialed]) \in Message
      BY <2>1, HeadTailProperties DEF TypeOK, NetTypeOK
    <3>2. QED
      BY <3>1 DEF Message
  <2>4. InOrder(unacked') /\ Elems(unacked') \subseteq Elems(unacked)
    BY <1>1, <2>1, <2>3, FramesMade, ForgetAckedParts
  <2>5. QED
    BY <2>1, <2>2, <2>4, FramesShrink
<1>10. CASE Flush
  <2>1. queued' = <<>> /\ UNCHANGED <<unacked, issued>> /\ op.pc = "flush"
    BY <1>10 DEF Flush
  <2>2. op.n # 0
    BY <2>1 DEF TypeOK, ClientTypeOK
  <2>3. CASE NoReply(op.n)
    <3>1. op'.n = 0 /\ told' = [told EXCEPT ![op.n] = 0]
      BY <1>10, <2>3 DEF Flush, Idle
    <3>2. \A n \in Elems(unacked') \union Elems(queued') : ~IsCall(n)
      BY <2>1, <2>3 DEF FramesInv, IsCall
    <3>3. \A n \in Reqs : n # op.n => told'[n] = told[n]
      BY <3>1 DEF TypeOK, ClientTypeOK
    <3>4. QED
      BY <1>1, <2>1, <2>2, <3>1, <3>2, <3>3, FramesEnd
  <2>4. CASE ~NoReply(op.n)
    <3>1. op'.n = op.n /\ op'.pc = "recv" /\ told' = told
      BY <1>10, <2>4 DEF Flush, At, TypeOK, ClientTypeOK, OpRec
    <3>2. QED
      BY <1>1, <2>1, <3>1, FramesShrink
  <2>5. QED
    BY <2>3, <2>4
<1>11. CASE FlushFails
  <2>1. queued' = <<>> /\ UNCHANGED <<issued>> /\ op.pc = "flush"
    BY <1>11 DEF FlushFails
  <2>2. op.n # 0
    BY <2>1 DEF TypeOK, ClientTypeOK
  <2>3. CASE NoReply(op.n)
    <3>1. op'.n = 0 /\ told' = [told EXCEPT ![op.n] = Unknown] /\ unacked' = unacked
      BY <1>11, <2>3 DEF FlushFails, Idle
    <3>2. \A n \in Elems(unacked') \union Elems(queued') : ~IsCall(n)
      BY <2>1, <2>3, <3>1 DEF FramesInv, IsCall
    <3>3. \A n \in Reqs : n # op.n => told'[n] = told[n]
      BY <3>1 DEF TypeOK, ClientTypeOK
    <3>4. QED
      BY <1>1, <2>1, <2>2, <3>1, <3>2, <3>3, FramesEnd
  <2>4. CASE ~NoReply(op.n)
    BY <1>11, <2>1, <2>2, <2>4, FramesCallBroke DEF FlushFails
  <2>5. QED
    BY <2>3, <2>4
<1>12. CASE RecvReply \/ RecvFails
  <2>1. queued' = <<>> /\ issued' = issued /\ op.n # 0 /\ op.pc = "recv"
    BY <1>12 DEF RecvReply, RecvFails, FramesInv, TypeOK, ClientTypeOK
  <2>2. CASE RecvFails
    BY <2>1, <2>2, FramesCallBroke DEF RecvFails
  <2>3. CASE RecvReply /\ Abandon(unacked)
    BY <2>1, <2>3, FramesAbandon
  <2>4. CASE /\ unacked' = ForgetAcked(unacked, op.n) /\ op' = Idle
             /\ \E r : told' = [told EXCEPT ![op.n] = r]
    <3>1. op'.n = 0 /\ \A n \in Reqs : n # op.n => told'[n] = told[n]
      BY <2>4 DEF Idle, TypeOK, ClientTypeOK
    <3>2. op.n \in 0 .. MaxReq
      BY FramesMade, Bounds DEF Reqs
    <3>3. InOrder(unacked') /\ \A n \in Elems(unacked') : n \in Elems(unacked) /\ n > op.n
      BY <1>1, <2>4, <3>2, FramesMade, ForgetAckedParts
    <3>4. \A n \in Elems(unacked) : n <= op.n
      BY <2>1, FramesMade DEF FramesInv, Made
    <3>5. \A n \in Elems(unacked') : FALSE
      BY <3>2, <3>3, <3>4, FramesMade, Bounds
    <3>6. QED
      BY <2>1, <3>1, <3>3, <3>5, FramesEnd
  <2>5. QED
    BY <1>12, <2>2, <2>3, <2>4 DEF RecvReply
<1>13. QED
  BY <1>2, <1>3, <1>4, <1>5, <1>6, <1>7, <1>8, <1>9, <1>10, <1>11, <1>12 DEF Client

(* Every step keeps FramesInv: the server has no part in it.               *)
LEMMA FramesStep == ASSUME TypeOK, FramesInv, [Next]_vars PROVE FramesInv'
<1>1. CASE UNCHANGED clientVars
  BY <1>1 DEF clientVars, FramesInv, IsCall, NoReply
<1>2. ASSUME NEW c \in Conns, Accept(c) PROVE UNCHANGED clientVars
  BY <1>2, AcceptMoves
<1>3. ASSUME NEW s \in Sessions, Serve(s) PROVE UNCHANGED clientVars
  BY <1>3 DEF Serve, TakeUp, Expire, Leave, AnswerCopy, SkipCopy, TakeRequest, Run,
              RecordAsync, RecordCall, SendReply, EndConnection
<1>4. CASE Client
  BY <1>4, FramesClient
<1>5. QED
  BY <1>1, <1>2, <1>3, <1>4 DEF Next, Break, Restart, vars

(* The replay buffer and the queue hold no call but the one under way.     *)
THEOREM FramesHold == Spec => []FramesInv
<1>1. TypeOK /\ FramesInv /\ [Next]_vars => FramesInv'
  BY FramesStep
<1>2. QED
  BY <1>1, FramesInit, TypeCorrect, PTL DEF Spec

(* A call the client gave up is out of the replay buffer and the queue: it *)
(* is not sent again behind the application's back (abandon_call_locked).  *)
THEOREM GivenUpStaysGivenUp == Spec => []GivenUpIsNotSentAgain
<1>1. TypeOK /\ FramesInv => GivenUpIsNotSentAgain
  BY FramesMade DEF FramesInv, GivenUpIsNotSentAgain
<1>2. QED
  BY <1>1, TypeCorrect, FramesHold, PTL
-----------------------------------------------------------------------------
(* The reply the client reads.                                             *)

(* A session's kept reply is for the last call it recorded; one on its way *)
(* to be resent by a handshake is for a call the client has had no reply   *)
(* to and that the handshake says is done.                                 *)
KeptInv ==
  /\ \A s \in Sessions :
       LET r == sess[s].reply.n IN
       /\ r # 0 => r \in Made /\ IsCall(r) /\ r <= sess[s].last_req
       /\ sess[s].pc = "send" => r # 0
  /\ \A c \in Conns :
       LET k == acc[c].kept.n IN
       /\ acc[c].pc \in {"reply", "resend"} /\ k # 0 =>
            k \in Made /\ IsCall(k) /\ acc[c].last < k /\ k <= acc[c].snap
       /\ acc[c].pc = "resend" => k # 0

(* Every call but the one under way was answered or given up; connections  *)
(* that were never opened carry nothing and are nobody's.                  *)
AheadInv ==
  /\ \A n \in Made : IsCall(n) /\ n # op.n => n <= last_reply
  /\ fd <= dialed
  /\ \A c \in Conns : c > dialed => acc[c].pc = "none" /\ up[c] = <<>> /\ down[c] = <<>>
  /\ \A s \in Sessions : sess[s].fd <= dialed /\ sess[s].pending_fd <= dialed

(* Session s has read a call off connection c and has not replied yet.     *)
HoldsCall(s, c) ==
  /\ sess[s].fd = c
  /\ sess[s].pc = "send" \/ (sess[s].pc \in {"run", "record"} /\ IsCall(sess[s].cur))
HeldCall(s) == IF sess[s].pc = "send" THEN sess[s].reply.n ELSE sess[s].cur

(* A handshake under way, on the connection opened last: nothing was sent, *)
(* the answer comes first, and the one reply that may follow it is for the *)
(* call under way, which the answer says is done.                          *)
HelloInv(c) ==
  /\ acc[c].pc # "none" /\ acc[c].last = last_reply
  /\ up[c] = <<>>
  /\ \A s \in Sessions : sess[s].fd = c => sess[s].pc \notin {"run", "record", "send"}
  /\ acc[c].pc \in {"hello", "snapshot", "reply"} => down[c] = <<>>
  /\ acc[c].pc = "resend" => Len(down[c]) <= 1 /\ (live[c] => down[c] # <<>>)
  /\ \A i \in DOMAIN down[c] :
       /\ i <= 2
       /\ down[c][i].type = "rsp" <=> i = 2
       /\ i = 1 /\ acc[c].pc = "resend" => down[c][i].n = acc[c].snap
       /\ i = 2 => /\ op.n # 0 /\ IsCall(op.n)
                   /\ down[c][i].n = op.n /\ op.n <= down[c][1].n

(* The places a reply to the call under way may still come from.           *)
DueQueued  == \E i \in DOMAIN queued : IsCall(queued[i])
DueSent(c) == \E i \in DOMAIN up[c] : IsCall(up[c][i])
DueHeld(c) == \E s \in Sessions : HoldsCall(s, c)
DueKept(c) == acc[c].pc = "resend"
DueBack(c) == down[c] # <<>>

(* The connection in use: all that is on its way is for the call under     *)
(* way, and its reply comes from one place at most.                        *)
OnlineInv(c) ==
  /\ acc[c].pc \in {"resend", "handover", "start", "done"}
  /\ \A i \in DOMAIN down[c] :
       i = 1 /\ down[c][i].type = "rsp" /\ down[c][i].n = op.n /\ op.n # 0 /\ IsCall(op.n)
  /\ \A i \in DOMAIN up[c] : IsCall(up[c][i]) =>
       up[c][i] = op.n /\ \A j \in DOMAIN up[c] : up[c][j] = op.n => i = j
  /\ \A s \in Sessions : HoldsCall(s, c) => HeldCall(s) = op.n
  /\ DueKept(c) => acc[c].kept.n = op.n
  /\ DueQueued => ~DueSent(c) /\ ~DueHeld(c) /\ ~DueKept(c) /\ ~DueBack(c)
  /\ DueSent(c) => ~DueHeld(c) /\ ~DueKept(c) /\ ~DueBack(c)
  /\ DueHeld(c) => ~DueKept(c) /\ ~DueBack(c)
  /\ DueKept(c) => ~DueBack(c)

(* At most one reply is on its way, and it is the one waited for.          *)
RepliesInv ==
  /\ KeptInv /\ AheadInv
  /\ \A c \in Conns : /\ op.pc = "hello" /\ c = dialed => HelloInv(c)
                      /\ c = fd => OnlineInv(c)

(* At the start no reply is kept, and none is waited for.                  *)
LEMMA RepliesInit == Init => RepliesInv
<1> SUFFICES ASSUME Init PROVE RepliesInv
  OBVIOUS
<1> USE Bounds DEF Init, None
<1>1. KeptInv
  BY DEF KeptInv, NoSession, NoHandshake, NoneKept, Response
<1>2. Len(issued) = 0
  OBVIOUS
<1>3. AheadInv
  BY <1>2 DEF AheadInv, Made, NoSession, NoHandshake
<1>4. QED
  BY <1>1, <1>3 DEF RepliesInv, Idle, Conns

(* A request that was made stays made, and stays what it is.               *)
LEMMA IssuedGrows ==
  ASSUME TypeOK, Client
  PROVE  \A m \in Made : m \in Made' /\ (IsCall(m)' <=> IsCall(m))
<1>1. ASSUME NEW t \in Threads, NEW k \in Kinds, QueueFrame(t, k)
      PROVE  \A m \in Made : m \in Made' /\ (IsCall(m)' <=> IsCall(m))
  <2>1. issued' = Append(issued, [thread |-> t, kind |-> k]) /\ issued \in Seq(CallRec)
        /\ [thread |-> t, kind |-> k] \in CallRec
    BY <1>1 DEF QueueFrame, TypeOK, ClientTypeOK, CallRec
  <2>2. /\ Len(issued) \in Nat /\ Len(issued') = Len(issued) + 1
        /\ \A m \in 1 .. Len(issued) : issued'[m] = issued[m]
    BY <2>1, AppendProperties, LenProperties
  <2>3. QED
    BY <2>2 DEF Made, IsCall, NoReply
<1>2. CASE issued' = issued
  BY <1>2 DEF Made, IsCall, NoReply
<1>3. QED
  BY <1>1, <1>2 DEF Client, StartConnecting, Dial, Refused, GiveUp, HelloUnanswered, HelloBusy,
         HelloGone, HelloStarted, HelloResumed, Flush, FlushFails, RecvReply, RecvFails

(* What the client leaves alone: the sessions, and what they ran.          *)
LEMMA ClientLeaves ==
  ASSUME TypeOK, Client
  PROVE  /\ UNCHANGED <<made, sess, ran>>
         /\ replay_possible' => replay_possible
         /\ \A c \in Conns : acc'[c] = acc[c] \/ acc'[c].pc = "hello"
<1>1. UNCHANGED <<made, sess, ran>>
  BY DEF Client, StartConnecting, QueueFrame, Dial, Refused, GiveUp, HelloUnanswered, HelloBusy,
         HelloGone, HelloStarted, HelloResumed, Flush, FlushFails, RecvReply, RecvFails,
         serverVars
<1>2. replay_possible' => replay_possible
  BY DEF Client, StartConnecting, QueueFrame, Dial, Refused, GiveUp, HelloUnanswered, HelloBusy,
         HelloGone, HelloStarted, HelloResumed, Flush, FlushFails, RecvReply, RecvFails
<1>3. \A c \in Conns : acc'[c] = acc[c] \/ acc'[c].pc = "hello"
  <2>1. CASE Dial
    BY <2>1 DEF Dial, NoHandshake, TypeOK, ServerTypeOK
  <2>2. CASE acc' = acc
    BY <2>2
  <2>3. QED
    BY <2>1, <2>2 DEF Client, StartConnecting, QueueFrame, Refused, GiveUp, HelloUnanswered,
         HelloBusy, HelloGone, HelloStarted, HelloResumed, Flush, FlushFails, RecvReply,
         RecvFails, serverVars
<1>4. QED
  BY <1>1, <1>2, <1>3

(* The client keeps KeptInv: a new connection's handshake keeps nothing.   *)
LEMMA KeptClient == ASSUME TypeOK, KeptInv, Client PROVE KeptInv'
  BY ClientLeaves, IssuedGrows DEF KeptInv

(* An accept thread keeps KeptInv: it takes the session's kept reply only  *)
(* when the client has had none past it.                                   *)
LEMMA KeptAccept == ASSUME TypeOK, OrderInv, KeptInv, NEW c \in Conns, Accept(c) PROVE KeptInv'
<1>1. issued' = issued /\ \A d \in Conns \ {c} : acc'[d] = acc[d]
  BY AcceptMoves DEF clientVars
<1>2. \A m \in Made : m \in Made' /\ (IsCall(m)' <=> IsCall(m))
  BY <1>1 DEF Made, IsCall, NoReply
<1>3. acc[c] \in AcceptRec /\ \A x \in Sessions : sess[x] \in SessionRec
  BY DEF TypeOK, ServerTypeOK
<1>4. \A x \in Sessions : /\ sess'[x].reply = sess[x].reply /\ sess'[x].last_req = sess[x].last_req
                          /\ sess'[x].pc = "send" => sess[x].pc = "send"
  <2>1. ASSUME NEW s, NEW pc, Pend(s, c, pc), pc # "send" \/ pc = sess[s].pc
        PROVE  \A x \in Sessions :
                 /\ sess'[x].reply = sess[x].reply /\ sess'[x].last_req = sess[x].last_req
                 /\ sess'[x].pc = "send" => sess[x].pc = "send"
    <3>1. sess' = [sess EXCEPT ![s].pending_fd = c, ![s].pc = pc]
      BY <2>1 DEF Pend
    <3>2. sess \in [Sessions -> SessionRec]
      BY DEF TypeOK, ServerTypeOK
    <3>3. QED
      BY <2>1, <3>1, <3>2 DEF SessionRec
  <2>2. CASE HandOver(c) \/ StartServing(c)
    BY <2>1, <2>2 DEF HandOver, StartServing
  <2>3. CASE WriteHelloFails(c)
    <3>1. \/ sess' = sess
          \/ sess' = [sess EXCEPT ![acc[c].s].finished = TRUE, ![acc[c].s].pc = "dead",
                                  ![acc[c].s].pending_fd = None]
      BY <2>3 DEF WriteHelloFails
    <3>2. PICK s : s = acc[c].s
      OBVIOUS
    <3>3. CASE sess' = sess
      BY <3>3
    <3>4. CASE sess' = [sess EXCEPT ![s].finished = TRUE, ![s].pc = "dead", ![s].pending_fd = None]
      BY <1>3, <3>4 DEF SessionRec, TypeOK, ServerTypeOK
    <3>5. QED
      BY <3>1, <3>2, <3>3, <3>4
  <2>4. CASE StartSession(c)
    BY <1>3, <2>4 DEF StartSession, SessionRec, TypeOK, ServerTypeOK
  <2>5. CASE sess' = sess
    BY <2>5
  <2>6. QED
    BY <2>2, <2>3, <2>4, <2>5 DEF Accept, HelloNeverArrives, FindSession, RefuseSession, TellGone,
           Snapshot, WriteHello, ResendKept
<1>5. LET k == acc'[c].kept.n IN
      /\ acc'[c].pc \in {"reply", "resend"} /\ k # 0 =>
           k \in Made /\ IsCall(k) /\ acc'[c].last < k /\ k <= acc'[c].snap
      /\ acc'[c].pc = "resend" => k # 0
  <2>1. CASE Snapshot(c)
    <3>1. acc[c].pc = "snapshot"
      BY <2>1 DEF Snapshot
    <3>2. acc[c].s \in Sessions
      BY <3>1, Bounds DEF OrderInv, AcceptInv, Sessions, TypeOK, ServerTypeOK
    <3>3. PICK S \in SessionRec : S = sess[acc[c].s]
      BY <1>3, <3>2
    <3>4. PICK kept : kept = IF Unanswered(c, S.reply) THEN S.reply ELSE NoneKept
      OBVIOUS
    <3>5. acc' = [acc EXCEPT ![c].pc = "reply", ![c].snap = S.last_req, ![c].kept = kept]
      BY <2>1, <3>3, <3>4 DEF Snapshot
    <3>6. acc'[c].pc = "reply" /\ acc'[c].snap = S.last_req /\ acc'[c].kept = kept
          /\ acc'[c].last = acc[c].last
      BY <1>3, <3>5 DEF AcceptRec, TypeOK, ServerTypeOK
    <3>7. S.reply.n # 0 => S.reply.n \in Made /\ IsCall(S.reply.n) /\ S.reply.n <= S.last_req
      BY <3>2, <3>3 DEF KeptInv
    <3>8. ASSUME kept.n # 0 PROVE kept = S.reply /\ acc[c].last < S.reply.n
      <4>1. Unanswered(c, S.reply) /\ kept = S.reply
        BY <3>4, <3>8 DEF NoneKept, Response
      <4>2. S.reply.n \in 0 .. MaxReq /\ acc[c].last \in 0 .. MaxReq
        BY <1>3, <3>3 DEF SessionRec, Replies, AcceptRec
      <4>3. ~(S.reply.n <= acc[c].last)
        BY <4>1, <4>2, AtOrBeforeIsOrder DEF Unanswered
      <4>4. QED
        BY <4>1, <4>2, <4>3, Bounds
    <3>9. QED
      BY <3>6, <3>7, <3>8
  <2>2. CASE WriteHello(c)
    <3>1. acc[c].pc = "reply" /\ acc' = [acc EXCEPT ![c].pc = AfterReply(c)]
      BY <2>2 DEF WriteHello
    <3>2. acc'[c].pc = AfterReply(c) /\ acc'[c].kept = acc[c].kept /\ acc'[c].last = acc[c].last
          /\ acc'[c].snap = acc[c].snap
      BY <1>3, <3>1 DEF AcceptRec, TypeOK, ServerTypeOK
    <3>3. QED
      BY <3>1, <3>2 DEF KeptInv, AfterReply
  <2>3. CASE acc'[c].pc \notin {"reply", "resend"}
    BY <2>3
  <2>4. HelloNeverArrives(c) \/ FindSession(c) \/ StartSession(c) \/ RefuseSession(c) \/ TellGone(c)
        \/ WriteHelloFails(c) \/ ResendKept(c) \/ HandOver(c) \/ StartServing(c)
          => acc'[c].pc \notin {"reply", "resend"}
    BY <1>3 DEF HelloNeverArrives, FindSession, StartSession, RefuseSession, TellGone,
           WriteHelloFails, ResendKept, HandOver, StartServing, HandshakeDone, AcceptRec,
           TypeOK, ServerTypeOK
  <2>5. QED
    BY <2>1, <2>2, <2>3, <2>4 DEF Accept
<1>6. ASSUME NEW x \in Sessions
      PROVE  /\ sess'[x].reply.n # 0 =>
                  /\ sess'[x].reply.n \in Made' /\ ~(issued'[sess'[x].reply.n].kind = "async")
                  /\ sess'[x].reply.n <= sess'[x].last_req
             /\ sess'[x].pc = "send" => sess'[x].reply.n # 0
  BY <1>1, <1>4 DEF KeptInv, Made, IsCall, NoReply
<1>7. ASSUME NEW d \in Conns
      PROVE  /\ acc'[d].pc \in {"reply", "resend"} /\ acc'[d].kept.n # 0 =>
                  /\ acc'[d].kept.n \in Made' /\ ~(issued'[acc'[d].kept.n].kind = "async")
                  /\ acc'[d].last < acc'[d].kept.n /\ acc'[d].kept.n <= acc'[d].snap
             /\ acc'[d].pc = "resend" => acc'[d].kept.n # 0
  BY <1>1, <1>5 DEF KeptInv, Made, IsCall, NoReply
<1>8. QED
  BY <1>6, <1>7 DEF KeptInv, IsCall, NoReply

(* A serving thread keeps KeptInv: it keeps the reply to the call it       *)
(* records, and what it records is past what it recorded before.           *)
LEMMA KeptServe == ASSUME TypeOK, OrderInv, KeptInv, NEW s \in Sessions, Serve(s) PROVE KeptInv'
<1>1. UNCHANGED <<issued, acc>>
  BY DEF Serve, TakeUp, Expire, Leave, AnswerCopy, SkipCopy, TakeRequest, Run,
         RecordAsync, RecordCall, SendReply, EndConnection, clientVars, serverVars
<1>2. sess[s] \in SessionRec /\ SessionInv(s)
      /\ (sess[s].pc \in {"run", "record"} => sess[s].cur \in Made)
  BY DEF TypeOK, ServerTypeOK, OrderInv
\* A new record for the session, with a reply that is as it should be.
<1>3. ASSUME NEW S, sess' = [sess EXCEPT ![s] = S],
             S.reply.n # 0 => /\ S.reply.n \in Made /\ IsCall(S.reply.n)
                              /\ S.reply.n <= S.last_req,
             S.pc = "send" => S.reply.n # 0
      PROVE  KeptInv'
  <2>1. sess'[s] = S /\ \A x \in Sessions \ {s} : sess'[x] = sess[x]
    BY <1>3 DEF TypeOK, ServerTypeOK
  <2>2. QED
    BY <1>1, <1>3, <2>1 DEF KeptInv, Made, IsCall, NoReply
<1>4. ASSUME NEW S, sess' = [sess EXCEPT ![s] = S],
             S.reply = sess[s].reply, S.last_req = sess[s].last_req, S.pc # "send"
      PROVE  KeptInv'
  BY <1>3, <1>4 DEF KeptInv
<1>5. CASE TakeUp(s)
  <2> DEFINE S == [sess[s] EXCEPT !.pc = "reading", !.fd = sess[s].pending_fd,
                                  !.pending_fd = None]
  <2>1. sess' = [sess EXCEPT ![s] = S]
    BY <1>5 DEF TakeUp
  <2>2. S.reply = sess[s].reply /\ S.last_req = sess[s].last_req /\ S.pc # "send"
    BY <1>2 DEF SessionRec
  <2> HIDE DEF S
  <2>3. QED
    BY <1>4, <2>1, <2>2
<1>6. CASE Expire(s) \/ Leave(s)
  <2> DEFINE E == [sess[s] EXCEPT !.pc = "ended", !.finished = TRUE]
             L == [sess[s] EXCEPT !.pc = "dead"]
  <2>1. sess' = [sess EXCEPT ![s] = E] \/ sess' = [sess EXCEPT ![s] = L]
    BY <1>6 DEF Expire, Leave
  <2>2. E.reply = sess[s].reply /\ E.last_req = sess[s].last_req /\ E.pc # "send"
    BY <1>2 DEF SessionRec
  <2>3. L.reply = sess[s].reply /\ L.last_req = sess[s].last_req /\ L.pc # "send"
    BY <1>2 DEF SessionRec
  <2> HIDE DEF E, L
  <2>4. QED
    BY <1>4, <2>1, <2>2, <2>3
<1>7. CASE AnswerCopy(s) \/ SkipCopy(s) \/ SendReply(s) \/ EndConnection(s)
  <2> DEFINE H == [sess[s] EXCEPT !.pc = "waiting", !.fd = None]
             R == [sess[s] EXCEPT !.pc = "reading"]
  <2>1. sess' = sess \/ sess' = [sess EXCEPT ![s] = H] \/ sess' = [sess EXCEPT ![s] = R]
    BY <1>7 DEF AnswerCopy, SkipCopy, SendReply, EndConnection, Hangup, serverVars
  <2>2. H.reply = sess[s].reply /\ H.last_req = sess[s].last_req /\ H.pc # "send"
    BY <1>2 DEF SessionRec
  <2>3. R.reply = sess[s].reply /\ R.last_req = sess[s].last_req /\ R.pc # "send"
    BY <1>2 DEF SessionRec
  <2> HIDE DEF H, R
  <2>4. CASE sess' = sess
    BY <1>1, <2>4 DEF KeptInv, Made, IsCall, NoReply
  <2>5. QED
    BY <1>4, <2>1, <2>2, <2>3, <2>4
<1>8. CASE TakeRequest(s)
  <2> DEFINE S == [sess[s] EXCEPT !.pc = "run", !.cur = Next1(s)]
  <2>1. sess' = [sess EXCEPT ![s] = S]
    BY <1>8 DEF TakeRequest
  <2>2. S.reply = sess[s].reply /\ S.last_req = sess[s].last_req /\ S.pc # "send"
    BY <1>2 DEF SessionRec
  <2> HIDE DEF S
  <2>3. QED
    BY <1>4, <2>1, <2>2
<1>9. CASE Run(s)
  <2>1. PICK r : sess' = [sess EXCEPT ![s].pc = "record", ![s].result = r]
    BY <1>9 DEF Run
  <2> DEFINE S == [sess[s] EXCEPT !.pc = "record", !.result = r]
  <2>2. sess' = [sess EXCEPT ![s] = S]
    BY <2>1
  <2>3. S.reply = sess[s].reply /\ S.last_req = sess[s].last_req /\ S.pc # "send"
    BY <1>2 DEF SessionRec
  <2> HIDE DEF S
  <2>4. QED
    BY <1>4, <2>2, <2>3
<1>10. CASE RecordAsync(s)
  <2> DEFINE S == [sess[s] EXCEPT !.pc = "reading", !.last_req = sess[s].cur,
                                  !.cur = 0, !.result = 0]
  <2>1. sess' = [sess EXCEPT ![s] = S] /\ sess[s].pc = "record"
    BY <1>10 DEF RecordAsync
  <2>2. S.pc # "send" /\ S.last_req = sess[s].cur /\ S.reply = sess[s].reply
    BY <1>2 DEF SessionRec
  <2>3. sess[s].last_req < sess[s].cur /\ sess[s].last_req \in Nat /\ sess[s].cur \in Nat
        /\ sess[s].reply.n \in Nat
    BY <1>2, <2>1, Bounds DEF SessionInv, SessionRec, Replies
  <2>4. sess[s].reply.n # 0 => /\ sess[s].reply.n \in Made /\ IsCall(sess[s].reply.n)
                               /\ sess[s].reply.n <= sess[s].last_req
    BY DEF KeptInv
  <2>5. S.reply.n # 0 => /\ S.reply.n \in Made /\ IsCall(S.reply.n) /\ S.reply.n <= S.last_req
    BY <2>2, <2>3, <2>4
  <2> HIDE DEF S
  <2>6. QED
    BY <1>3, <2>1, <2>2, <2>5
<1>11. CASE RecordCall(s)
  <2>1. PICK r : sess' = [sess EXCEPT ![s].pc = "send", ![s].last_req = sess[s].cur,
                            ![s].reply = Response(sess[s].cur, r), ![s].cur = 0,
                            ![s].result = 0]
    BY <1>11 DEF RecordCall
  <2> DEFINE S == [sess[s] EXCEPT !.pc = "send", !.last_req = sess[s].cur,
                                  !.reply = Response(sess[s].cur, r), !.cur = 0, !.result = 0]
  <2>2. sess' = [sess EXCEPT ![s] = S]
    BY <2>1
  <2>3. sess[s].pc = "record" /\ ~NoReply(sess[s].cur)
    BY <1>11 DEF RecordCall
  <2>4. S.last_req = sess[s].cur /\ S.reply.n = sess[s].cur
    BY <1>2 DEF SessionRec, Response
  <2>5. sess[s].cur \in Made /\ sess[s].cur \in Nat /\ sess[s].cur # 0
    BY <1>2, <2>3, FramesMade DEF Made
  <2> HIDE DEF S
  <2>6. S.reply.n \in Made /\ IsCall(S.reply.n) /\ S.reply.n <= S.last_req /\ S.reply.n # 0
    BY <2>3, <2>4, <2>5 DEF IsCall
  <2>7. QED
    BY <1>3, <2>2, <2>6
<1>12. QED
  BY <1>5, <1>6, <1>7, <1>8, <1>9, <1>10, <1>11 DEF Serve

(* Breaks and a restart keep KeptInv.                                      *)
LEMMA KeptStep == ASSUME TypeOK, OrderInv, KeptInv, [Next]_vars PROVE KeptInv'
<1>1. CASE Restart
  <2>1. issued' = issued
    BY <1>1 DEF Restart, clientVars
  <2>2. \A x \in Sessions : sess'[x] = sess[x] \/ (sess'[x].reply.n = 0 /\ sess'[x].pc = "dead")
    BY <1>1 DEF Restart, NoSession, NoneKept, Response
  <2>3. \A c \in Conns : acc'[c].pc \in {"none", "done"}
    BY <1>1 DEF Restart, TypeOK, ServerTypeOK, AcceptRec
  <2>4. QED
    BY <2>1, <2>2, <2>3 DEF KeptInv, Made, IsCall, NoReply
<1>2. CASE UNCHANGED <<issued, acc, sess>>
  BY <1>2 DEF KeptInv, Made, IsCall, NoReply
<1>3. ASSUME NEW c \in Conns, Break(c) PROVE UNCHANGED <<issued, acc, sess>>
  BY <1>3 DEF Break, clientVars, serverVars
<1>4. UNCHANGED vars => UNCHANGED <<issued, acc, sess>>
  BY DEF vars, clientVars, serverVars
<1>5. QED
  BY <1>1, <1>2, <1>3, <1>4, KeptClient, KeptAccept, KeptServe DEF Next

(* What a step of the server does to what is on its way on connection c is *)
(* one of four: nothing new; a request is read; a copy is answered from    *)
(* the kept reply; a reply is sent.                                        *)
Busy == {"run", "record", "send"}

(* Nothing new: what was sent may be lost, a thread may let go of it.      *)
Quiet(c) ==
  /\ up'[c] \in {up[c], <<>>} /\ down'[c] = down[c] /\ (live'[c] => live[c])
  /\ \A x \in Sessions : sess'[x].fd = c /\ sess'[x].pc \in Busy =>
       /\ sess[x].fd = c /\ sess[x].pc \in Busy
       /\ HoldsCall(x, c)' => HoldsCall(x, c) /\ HeldCall(x)' = HeldCall(x)

(* A request is read, by a thread that holds it from then on if it holds   *)
(* it at all.                                                              *)
Takes(c) ==
  /\ up[c] # <<>> /\ up'[c] = Tail(up[c]) /\ down'[c] = down[c]
  /\ \A x \in Sessions : HoldsCall(x, c)' =>
       \/ HoldsCall(x, c) /\ HeldCall(x)' = HeldCall(x)
       \/ IsCall(Head(up[c])) /\ HeldCall(x)' = Head(up[c])

(* A copy of a call is read and answered with what was kept for it.        *)
Answers(c) ==
  /\ up[c] # <<>> /\ up'[c] = Tail(up[c]) /\ IsCall(Head(up[c]))
  /\ \E m \in Replies : m.n = Head(up[c]) /\ down'[c] = down[c] \o <<m>>
  /\ \A x \in Sessions : HoldsCall(x, c)' => HoldsCall(x, c)

(* Session s sends the reply to the call it holds.                         *)
Sends(s, c) ==
  /\ up'[c] = up[c] /\ HoldsCall(s, c) /\ sess[s].pc = "send"
  /\ \E m \in Replies : m.n = HeldCall(s) /\ down'[c] = down[c] \o <<m>>
  /\ \A x \in Sessions : HoldsCall(x, c)' => x # s /\ HoldsCall(x, c)

(* A serving thread does one of these to every connection.                 *)
LEMMA ServeActs ==
  ASSUME TypeOK, NEW s \in Sessions, Serve(s),
         sess[s].finished <=> sess[s].pc \in {"ended", "dead"},
         NEW c \in Conns
  PROVE  Quiet(c) \/ Takes(c) \/ Answers(c) \/ Sends(s, c)
<1>1. /\ issued' = issued /\ \A x \in Sessions \ {s} : sess'[x] = sess[x]
      /\ sess[s] \in SessionRec /\ live \in [Conns -> BOOLEAN]
      /\ up \in [Conns -> Seq(Made)] /\ down \in [Conns -> Seq(Message)]
      /\ sess \in [Sessions -> SessionRec]
  BY ServeMoves DEF TypeOK, ServerTypeOK, NetTypeOK, clientVars
<1>2. \A x \in Sessions \ {s} : /\ HoldsCall(x, c)' <=> HoldsCall(x, c)
                                /\ HeldCall(x)' = HeldCall(x)
  BY <1>1 DEF HoldsCall, HeldCall, IsCall, NoReply
\* A thread that has no request in its hands afterwards, or not of c.
<1>3. ASSUME up'[c] \in {up[c], <<>>}, down'[c] = down[c], live'[c] => live[c],
             sess'[s].pc \notin Busy \/ sess'[s].fd # c
      PROVE  Quiet(c)
  BY <1>1, <1>2, <1>3 DEF Quiet, HoldsCall
<1>4. CASE TakeUp(s) \/ Expire(s) \/ Leave(s) \/ RecordAsync(s)
  <2>1. UNCHANGED <<up, down, live>>
    BY <1>4 DEF TakeUp, Expire, Leave, RecordAsync, netVars
  <2>2. TakeUp(s) \/ Expire(s) \/ Leave(s) => sess'[s].pc \in {"reading", "ended", "dead"}
    BY <1>1 DEF TakeUp, Expire, Leave, SessionRec
  <2>3. ASSUME RecordAsync(s) PROVE sess'[s].pc = "reading"
    <3>1. sess' = [sess EXCEPT ![s].pc = "reading", ![s].last_req = sess[s].cur,
                               ![s].cur = 0, ![s].result = 0]
      BY <2>3 DEF RecordAsync
    <3>2. QED
      BY <1>1, <3>1 DEF SessionRec
  <2>4. sess'[s].pc \notin Busy
    BY <1>4, <2>2, <2>3 DEF Busy
  <2>5. QED
    BY <1>3, <2>1, <2>4
<1>5. CASE Run(s)
  <2>1. PICK r : sess' = [sess EXCEPT ![s].pc = "record", ![s].result = r]
    BY <1>5 DEF Run
  <2>2. UNCHANGED <<up, down, live>> /\ sess[s].pc = "run"
    BY <1>5 DEF Run, netVars
  <2>3. sess'[s].pc = "record" /\ sess'[s].fd = sess[s].fd /\ sess'[s].cur = sess[s].cur
    BY <1>1, <2>1 DEF SessionRec
  <2>4. /\ HoldsCall(s, c)' <=> HoldsCall(s, c)
        /\ HeldCall(s)' = HeldCall(s)
    BY <1>1, <2>2, <2>3 DEF HoldsCall, HeldCall, IsCall, NoReply
  <2>5. QED
    BY <1>1, <1>2, <2>2, <2>3, <2>4 DEF Quiet, Busy
<1>6. CASE RecordCall(s)
  <2>1. PICK r : sess' = [sess EXCEPT ![s].pc = "send", ![s].last_req = sess[s].cur,
                            ![s].reply = Response(sess[s].cur, r), ![s].cur = 0,
                            ![s].result = 0]
    BY <1>6 DEF RecordCall
  <2>2. UNCHANGED <<up, down, live>> /\ sess[s].pc = "record" /\ ~NoReply(sess[s].cur)
    BY <1>6 DEF RecordCall, netVars
  <2>3. sess'[s].pc = "send" /\ sess'[s].fd = sess[s].fd /\ sess'[s].reply.n = sess[s].cur
    BY <1>1, <2>1 DEF SessionRec, Response
  <2>4. /\ HoldsCall(s, c)' => HoldsCall(s, c)
        /\ HeldCall(s)' = HeldCall(s)
    BY <1>1, <2>2, <2>3 DEF HoldsCall, HeldCall, IsCall, NoReply
  <2>5. QED
    BY <1>1, <1>2, <2>2, <2>3, <2>4 DEF Quiet, Busy
<1>7. ASSUME Hangup(s), up' = [up EXCEPT ![sess[s].fd] = <<>>] \/ up' = up, down' = down
      PROVE  Quiet(c)
  <2>1. sess'[s].pc = "waiting"
    BY <1>1, <1>7 DEF Hangup, SessionRec
  <2>2. live' = [live EXCEPT ![sess[s].fd] = FALSE]
    BY <1>7 DEF Hangup
  <2>3. PICK f : f = sess[s].fd
    OBVIOUS
  <2>4. live' = [live EXCEPT ![f] = FALSE]
        /\ (up' = [up EXCEPT ![f] = <<>>] \/ up' = up)
    BY <1>7, <2>2, <2>3
  <2>5. (live'[c] => live[c]) /\ up'[c] \in {up[c], <<>>}
    BY <1>1, <2>4
  <2>6. QED
    BY <1>3, <1>7, <2>1, <2>5 DEF Busy
<1>8. CASE EndConnection(s)
  BY <1>7, <1>8 DEF EndConnection
<1>9. CASE SkipCopy(s) \/ AnswerCopy(s) \/ TakeRequest(s)
  <2>1. sess[s].pc = "reading" /\ up[sess[s].fd] # <<>>
    BY <1>9 DEF SkipCopy, AnswerCopy, TakeRequest, Reading
  <2>2. PICK f : f = sess[s].fd
    OBVIOUS
  <2>3. CASE Consume(s) /\ UNCHANGED <<sess, live, down>>
    <3>1. up' = [up EXCEPT ![f] = Tail(up[f])]
      BY <2>2, <2>3 DEF Consume
    <3>2. CASE c = f
      BY <1>1, <2>1, <2>2, <2>3, <3>1, <3>2
         DEF Takes, HoldsCall, HeldCall, IsCall, NoReply
    <3>3. CASE c # f
      BY <1>1, <1>3, <2>1, <2>2, <2>3, <3>1, <3>3
    <3>4. QED
      BY <3>2, <3>3
  <2>4. CASE AnswerCopy(s) /\ Write(sess[s].fd, <<sess[s].reply>>) /\ Consume(s)
             /\ UNCHANGED <<sess, live>>
    <3>1. up' = [up EXCEPT ![f] = Tail(up[f])]
          /\ down' = IF live[f] THEN [down EXCEPT ![f] = down[f] \o <<sess[s].reply>>] ELSE down
      BY <2>2, <2>4 DEF Consume, Write
    <3>2. sess[s].reply \in Replies /\ ~NoReply(Head(up[f])) /\ sess[s].reply.n = Head(up[f])
      BY <1>1, <2>2, <2>4 DEF AnswerCopy, Next1, SessionRec
    <3>3. CASE c = f /\ live[f]
      <4>1. down'[c] = down[c] \o <<sess[s].reply>> /\ up'[c] = Tail(up[c])
        BY <1>1, <3>1, <3>3
      <4>2. \A x \in Sessions : HoldsCall(x, c)' => HoldsCall(x, c)
        BY <1>1, <2>4 DEF HoldsCall, IsCall, NoReply
      <4>3. QED
        BY <2>1, <2>2, <3>2, <3>3, <4>1, <4>2 DEF Answers, IsCall
    <3>4. CASE ~live[f]
      BY <2>3, <2>4, <3>1, <3>4
    <3>5. CASE c # f
      <4>1. down'[c] = down[c] /\ up'[c] = up[c] /\ live'[c] = live[c] /\ sess'[s].pc = "reading"
        BY <1>1, <2>1, <2>4, <3>1, <3>5
      <4>2. QED
        BY <1>3, <4>1 DEF Busy
    <3>6. QED
      BY <3>3, <3>4, <3>5
  <2>5. CASE AnswerCopy(s) /\ Hangup(s) /\ up' = [up EXCEPT ![sess[s].fd] = <<>>] /\ down' = down
    BY <1>7, <2>5
  <2>6. CASE TakeRequest(s)
    <3>1. /\ up' = [up EXCEPT ![f] = Tail(up[f])] /\ UNCHANGED <<live, down>>
          /\ sess' = [sess EXCEPT ![s].pc = "run", ![s].cur = Next1(s)]
          /\ Next1(s) = Head(up[f])
      BY <2>2, <2>6 DEF TakeRequest, Consume, Next1
    <3>2. sess'[s].pc = "run" /\ sess'[s].cur = Head(up[f]) /\ sess'[s].fd = f
      BY <1>1, <2>2, <3>1 DEF SessionRec
    <3>3. CASE c = f
      <4>1. up'[c] = Tail(up[c]) /\ down'[c] = down[c] /\ up[c] # <<>>
        BY <1>1, <2>1, <2>2, <3>1, <3>3
      <4>2. HoldsCall(s, c)' => IsCall(Head(up[c])) /\ HeldCall(s)' = Head(up[c])
        BY <1>1, <3>2, <3>3 DEF HoldsCall, HeldCall, IsCall, NoReply
      <4>3. QED
        BY <1>2, <4>1, <4>2 DEF Takes
    <3>4. CASE c # f
      BY <1>1, <1>3, <3>1, <3>2, <3>4
    <3>5. QED
      BY <3>3, <3>4
  <2>7. QED
    BY <1>9, <2>3, <2>4, <2>5, <2>6 DEF SkipCopy, AnswerCopy, serverVars
<1>10. CASE SendReply(s)
  <2>1. sess[s].pc = "send"
    BY <1>10 DEF SendReply
  <2>2. PICK f : f = sess[s].fd
    OBVIOUS
  <2>3. CASE Hangup(s) /\ up' = [up EXCEPT ![sess[s].fd] = <<>>] /\ down' = down
    BY <1>7, <2>3
  <2>4. CASE /\ Write(sess[s].fd, <<sess[s].reply>>)
             /\ sess' = [sess EXCEPT ![s].pc = "reading"] /\ UNCHANGED <<live, up>>
    <3>1. down' = IF live[f] THEN [down EXCEPT ![f] = down[f] \o <<sess[s].reply>>] ELSE down
      BY <2>2, <2>4 DEF Write
    <3>2. sess'[s].pc = "reading" /\ sess[s].reply \in Replies
      BY <1>1, <2>4 DEF SessionRec
    <3>3. CASE c = f /\ live[f]
      <4>1. down'[c] = down[c] \o <<sess[s].reply>> /\ up'[c] = up[c]
        BY <1>1, <2>4, <3>1, <3>3
      <4>2. HoldsCall(s, c) /\ HeldCall(s) = sess[s].reply.n /\ ~HoldsCall(s, c)'
        BY <2>1, <2>2, <3>2, <3>3 DEF HoldsCall, HeldCall
      <4>3. QED
        BY <1>2, <2>1, <3>2, <4>1, <4>2 DEF Sends
    <3>4. CASE ~(c = f /\ live[f])
      <4>1. down'[c] = down[c] /\ up'[c] = up[c] /\ live'[c] = live[c]
        BY <1>1, <2>4, <3>1, <3>4
      <4>2. QED
        BY <1>3, <3>2, <4>1 DEF Busy
    <3>5. QED
      BY <3>3, <3>4
  <2>5. QED
    BY <1>10, <2>3, <2>4 DEF SendReply
<1>11. QED
  BY <1>4, <1>5, <1>6, <1>8, <1>9, <1>10 DEF Serve

(* A step of an accept thread sends on its own connection only, reads      *)
(* nothing, and takes nothing out of the hands of a serving thread.        *)
LEMMA AcceptActs ==
  ASSUME TypeOK, NEW d \in Conns, Accept(d)
  PROVE  /\ up' = up
         /\ \A c \in Conns : /\ live'[c] => live[c]
                             /\ c # d => down'[c] = down[c]
         /\ \A x \in Sessions :
              /\ sess'[x].fd = sess[x].fd /\ sess'[x].cur = sess[x].cur
              /\ sess'[x].reply = sess[x].reply
              /\ sess'[x].pending_fd \in {sess[x].pending_fd, None, d}
              /\ sess'[x].pc \in Busy => sess'[x].pc = sess[x].pc
<1> USE DEF netVars
<1>1. /\ live \in [Conns -> BOOLEAN] /\ down \in [Conns -> Seq(Message)]
      /\ \A x \in Sessions : sess[x] \in SessionRec
      /\ sess \in [Sessions -> SessionRec]
  BY DEF TypeOK, ServerTypeOK, NetTypeOK
<1> DEFINE Mine ==
      \A x \in Sessions :
        /\ sess'[x].fd = sess[x].fd /\ sess'[x].cur = sess[x].cur
        /\ sess'[x].reply = sess[x].reply
        /\ sess'[x].pending_fd \in {sess[x].pending_fd, None, d}
        /\ sess'[x].pc \in Busy => sess'[x].pc = sess[x].pc
<1>2. \A s, pc : Pend(s, d, pc) /\ (pc \notin Busy \/ pc = sess[s].pc) => Mine
  <2> SUFFICES ASSUME NEW s, NEW pc, Pend(s, d, pc), pc \notin Busy \/ pc = sess[s].pc
               PROVE  Mine
    OBVIOUS
  <2>1. sess' = [sess EXCEPT ![s].pending_fd = d, ![s].pc = pc]
    BY DEF Pend
  <2>2. QED
    BY <1>1, <2>1 DEF SessionRec
<1>3. \A s, pc : Pend(s, d, pc) => \A c \in Conns : live'[c] => live[c]
  BY <1>1 DEF Pend
<1>4. CASE HandOver(d) \/ StartServing(d)
  <2>1. UNCHANGED <<up, down>>
    BY <1>4 DEF HandOver, StartServing
  <2>2. CASE Close(d) /\ UNCHANGED sess
    BY <1>1, <2>1, <2>2 DEF Close
  <2>3. CASE \E s, pc : Pend(s, d, pc) /\ (pc \notin Busy \/ pc = sess[s].pc)
    BY <1>2, <1>3, <2>1, <2>3
  <2>4. QED
    BY <1>4, <2>2, <2>3 DEF HandOver, StartServing, Busy
<1>5. CASE WriteHelloFails(d)
  <2>1. UNCHANGED <<up, down>>
    BY <1>5 DEF WriteHelloFails
  <2>2. \A c \in Conns : live'[c] => live[c]
    BY <1>1, <1>5 DEF WriteHelloFails
  <2>3. CASE sess' = sess
    BY <2>1, <2>2, <2>3
  <2>4. CASE \E s : sess' = [sess EXCEPT ![s].finished = TRUE, ![s].pc = "dead",
                                         ![s].pending_fd = None]
    <3>1. PICK s : sess' = [sess EXCEPT ![s].finished = TRUE, ![s].pc = "dead",
                                        ![s].pending_fd = None]
      BY <2>4
    <3>2. Mine
      BY <1>1, <3>1 DEF SessionRec, Busy
    <3>3. QED
      BY <2>1, <2>2, <3>2
  <2>5. QED
    BY <1>5, <2>3, <2>4 DEF WriteHelloFails
<1>6. CASE StartSession(d)
  <2>1. UNCHANGED <<up, down, live>>
        /\ sess' = [sess EXCEPT ![made + 1].pc = "starting"]
    BY <1>6 DEF StartSession
  <2>2. Mine
    BY <1>1, <2>1 DEF SessionRec, Busy
  <2>3. QED
    BY <2>1, <2>2
<1>7. CASE RefuseSession(d) \/ TellGone(d) \/ WriteHello(d) \/ ResendKept(d)
  <2>1. UNCHANGED <<up, sess>> /\ (down' = down \/ \E ms : Write(d, ms)) /\ (live' = live \/ Close(d))
    BY <1>7 DEF RefuseSession, TellGone, WriteHello, ResendKept
  <2>2. \A c \in Conns : /\ live'[c] => live[c]
                         /\ c # d => down'[c] = down[c]
    BY <1>1, <2>1 DEF Write, Close
  <2>3. QED
    BY <2>1, <2>2
<1>8. CASE HelloNeverArrives(d) \/ FindSession(d) \/ Snapshot(d)
  BY <1>8 DEF HelloNeverArrives, FindSession, Snapshot
<1>9. QED
  BY <1>4, <1>5, <1>6, <1>7, <1>8 DEF Accept

(* A request is in the hands of one serving thread only: there is only one.*)
LEMMA OneHolds ==
  ASSUME TypeOK, OrderInv, SessionsInv, NEW x \in Sessions, NEW y \in Sessions,
         sess[x].pc # "none", sess[y].pc # "none"
  PROVE  x = y
<1>1. SessionInv(x) /\ SessionInv(y)
  BY DEF OrderInv
<1>2. x <= made /\ y <= made
  BY <1>1, Bounds DEF SessionInv, Sessions, TypeOK, ServerTypeOK
<1>3. QED
  BY <1>2, Bounds DEF SessionsInv, Sessions, TypeOK, ServerTypeOK

(* A connection that was never opened is left alone by the serving threads.*)
LEMMA AheadServe ==
  ASSUME TypeOK, SessionsInv, GoneInv, AheadInv, NEW s \in Sessions, Serve(s)
  PROVE  AheadInv'
<1>1. /\ UNCHANGED <<clientVars, dialed, acc>> /\ \A x \in Sessions \ {s} : sess'[x] = sess[x]
      /\ (sess[s].finished <=> sess[s].pc \in {"ended", "dead"})
  BY ServeMoves DEF GoneInv
<1>2. sess[s] \in SessionRec /\ sess[s].fd <= dialed /\ sess[s].pending_fd <= dialed
  BY DEF TypeOK, ServerTypeOK, AheadInv
<1>3. ASSUME NEW c \in Conns, c > dialed PROVE up'[c] = <<>> /\ down'[c] = <<>>
  <2>1. up[c] = <<>> /\ down[c] = <<>>
    BY <1>3 DEF AheadInv
  <2>2. ~Takes(c) /\ ~Answers(c)
    BY <2>1 DEF Takes, Answers
  <2>3. ~Sends(s, c)
    BY <1>2, <1>3, Bounds DEF Sends, HoldsCall, SessionRec, TypeOK, NetTypeOK, Conns
  <2>4. Quiet(c)
    BY <1>1, <2>2, <2>3, ServeActs
  <2>5. QED
    BY <2>1, <2>4 DEF Quiet
<1>4. sess'[s].fd \in {sess[s].fd, sess[s].pending_fd, None}
      /\ sess'[s].pending_fd \in {sess[s].pending_fd, None}
  <2>1. ASSUME NEW r, sess' = [sess EXCEPT ![s].pc = "record", ![s].result = r]
        PROVE  sess'[s].fd = sess[s].fd /\ sess'[s].pending_fd = sess[s].pending_fd
    BY <1>2, <2>1 DEF SessionRec, TypeOK, ServerTypeOK
  <2>2. ASSUME NEW r, sess' = [sess EXCEPT ![s].pc = "send", ![s].last_req = sess[s].cur,
                                 ![s].reply = r, ![s].cur = 0, ![s].result = 0]
        PROVE  sess'[s].fd = sess[s].fd /\ sess'[s].pending_fd = sess[s].pending_fd
    BY <1>2, <2>2 DEF SessionRec, TypeOK, ServerTypeOK
  <2>3. ASSUME sess' = [sess EXCEPT ![s].pc = "reading", ![s].last_req = sess[s].cur,
                                 ![s].cur = 0, ![s].result = 0]
        PROVE  sess'[s].fd = sess[s].fd /\ sess'[s].pending_fd = sess[s].pending_fd
    BY <1>2, <2>3 DEF SessionRec, TypeOK, ServerTypeOK
  <2>4. ASSUME NEW n, sess' = [sess EXCEPT ![s].pc = "run", ![s].cur = n]
        PROVE  sess'[s].fd = sess[s].fd /\ sess'[s].pending_fd = sess[s].pending_fd
    BY <1>2, <2>4 DEF SessionRec, TypeOK, ServerTypeOK
  <2>5. ASSUME NEW pc, sess' = [sess EXCEPT ![s].pc = pc]
        PROVE  sess'[s].fd = sess[s].fd /\ sess'[s].pending_fd = sess[s].pending_fd
    BY <1>2, <2>5 DEF SessionRec, TypeOK, ServerTypeOK
  <2>6. ASSUME Hangup(s)
        PROVE  sess'[s].fd = None /\ sess'[s].pending_fd = sess[s].pending_fd
    BY <1>2, <2>6 DEF Hangup, SessionRec, TypeOK, ServerTypeOK
  <2>7. CASE TakeUp(s) \/ Expire(s)
    BY <1>2, <2>7 DEF TakeUp, Expire, SessionRec, TypeOK, ServerTypeOK
  <2>8. CASE AnswerCopy(s) \/ SkipCopy(s) \/ SendReply(s) \/ EndConnection(s) \/ Leave(s)
    <3>1. sess' = sess \/ Hangup(s) \/ \E pc : sess' = [sess EXCEPT ![s].pc = pc]
      BY <2>8 DEF AnswerCopy, SkipCopy, SendReply, EndConnection, Leave, serverVars
    <3>2. QED
      BY <2>5, <2>6, <3>1
  <2>9. CASE TakeRequest(s)
    BY <2>4, <2>9 DEF TakeRequest
  <2>10. CASE Run(s)
    BY <2>1, <2>10 DEF Run
  <2>11. CASE RecordAsync(s)
    BY <2>3, <2>11 DEF RecordAsync
  <2>12. CASE RecordCall(s)
    BY <2>2, <2>12 DEF RecordCall
  <2>13. QED
    BY <2>7, <2>8, <2>9, <2>10, <2>11, <2>12 DEF Serve
<1>5. \A x \in Sessions : sess'[x].fd <= dialed /\ sess'[x].pending_fd <= dialed
  BY <1>1, <1>2, <1>4, Bounds DEF AheadInv, None, TypeOK, NetTypeOK
<1>6. QED
  BY <1>1, <1>3, <1>5 DEF AheadInv, Made, IsCall, NoReply, clientVars

(* Nor by an accept thread, which is of a connection that was opened.      *)
LEMMA AheadAccept ==
  ASSUME TypeOK, SessionsInv, AheadInv, NEW d \in Conns, Accept(d)
  PROVE  AheadInv'
<1>1. /\ UNCHANGED <<clientVars, dialed>> /\ \A c \in Conns \ {d} : acc'[c] = acc[c]
      /\ acc[d].pc # "none"
  BY AcceptMoves
<1>2. d <= dialed /\ dialed \in Nat
  BY <1>1, Bounds DEF SessionsInv, TypeOK, NetTypeOK
<1>3. \A c \in Conns : c > dialed => c # d
  BY <1>2, Bounds DEF Conns
<1>4. \A x \in Sessions : sess'[x].fd <= dialed /\ sess'[x].pending_fd <= dialed
  BY <1>2, AcceptActs DEF AheadInv, None
<1>5. \A c \in Conns : c > dialed => acc'[c].pc = "none" /\ up'[c] = <<>> /\ down'[c] = <<>>
  BY <1>1, <1>3, AcceptActs DEF AheadInv
<1>6. QED
  BY <1>1, <1>4, <1>5 DEF AheadInv, Made, IsCall, NoReply, clientVars

(* Nor is it broken; and after a restart the sessions are nobody's.        *)
LEMMA AheadOthers ==
  ASSUME TypeOK, AheadInv, (\E c \in Conns : Break(c)) \/ Restart \/ UNCHANGED vars
  PROVE  AheadInv'
<1>1. UNCHANGED <<fd, last_reply, op, issued, dialed>>
  BY DEF Break, Restart, vars, clientVars, netVars
<1>2. dialed \in Nat /\ up \in [Conns -> Seq(Made)] /\ down \in [Conns -> Seq(Message)]
  BY Bounds DEF TypeOK, NetTypeOK
<1>3. \A x \in Sessions : sess'[x].fd <= dialed /\ sess'[x].pending_fd <= dialed
  <2>1. CASE sess' = sess
    BY <2>1 DEF AheadInv
  <2>2. CASE Restart
    BY <1>2, <2>2 DEF Restart, NoSession, None, AheadInv
  <2>3. QED
    BY <2>1, <2>2 DEF Break, vars, serverVars
<1>4. ASSUME NEW c \in Conns, c > dialed
      PROVE  acc'[c].pc = "none" /\ up'[c] = <<>> /\ down'[c] = <<>>
  <2>1. acc[c].pc = "none" /\ up[c] = <<>> /\ down[c] = <<>>
    BY <1>4 DEF AheadInv
  <2>2. CASE Restart
    BY <2>1, <2>2 DEF Restart
  <2>3. CASE UNCHANGED vars
    BY <2>1, <2>3 DEF vars, netVars, serverVars
  <2>4. CASE \E d \in Conns : Break(d)
    <3>1. PICK d \in Conns : Break(d)
      BY <2>4
    <3>2. PICK i \in 0 .. Len(up[d]), j \in 0 .. Len(down[d]) :
             /\ up' = [up EXCEPT ![d] = SubSeq(up[d], 1, i)]
             /\ down' = [down EXCEPT ![d] = SubSeq(down[d], 1, j)]
      BY <3>1 DEF Break
    <3>3. acc' = acc
      BY <3>1 DEF Break, serverVars
    <3>4. CASE c = d
      <4>1. i = 0 /\ j = 0
        BY <2>1, <3>4
      <4>2. SubSeq(up[d], 1, i) = <<>> /\ SubSeq(down[d], 1, j) = <<>>
        BY <2>1, <3>4, <4>1
      <4>3. QED
        BY <1>2, <2>1, <3>2, <3>3, <3>4, <4>2
    <3>5. CASE c # d
      BY <1>2, <2>1, <3>2, <3>3, <3>5
    <3>6. QED
      BY <3>4, <3>5
  <2>5. QED
    BY <2>2, <2>3, <2>4
<1>5. QED
  BY <1>1, <1>3, <1>4 DEF AheadInv, Made, IsCall, NoReply

(* What a step may do to the call under way: nothing; it needed no reply   *)
(* and is over; it is over and last_reply moved past it.                   *)
CallGoesOn == issued' = issued /\ op'.n = op.n /\ last_reply' = last_reply
CallNeedsNone ==
  /\ issued' = issued /\ op'.n = 0 /\ last_reply' = last_reply
  /\ op.n # 0 /\ NoReply(op.n)
CallIsOver == issued' = issued /\ op'.n = 0 /\ last_reply' = op.n /\ op.n # 0

(* A step of the client does one of these, or makes a request.             *)
LEMMA ClientCalls ==
  ASSUME TypeOK, FramesInv, Client
  PROVE  \/ CallGoesOn \/ CallNeedsNone \/ CallIsOver
         \/ \E t \in Threads, k \in Kinds : QueueFrame(t, k)
<1>1. op \in OpRec /\ Idle.n = 0 /\ \A p : At(p).n = op.n
  BY DEF TypeOK, ClientTypeOK, OpRec, Idle, At
<1>2. AttemptFailed \/ Connected => op'.n = op.n
  BY <1>1, OpSteps
<1>3. \A frames : Abandon(frames) => op'.n = 0 /\ last_reply' = op.n
  BY <1>1 DEF Abandon
<1>4. CallBroke => \/ op'.n = op.n /\ last_reply' = last_reply
                   \/ op'.n = 0 /\ last_reply' = op.n
  BY <1>1, <1>3 DEF CallBroke, OpRec
<1>5. CASE StartConnecting \/ Dial \/ Refused \/ HelloUnanswered \/ HelloBusy
           \/ HelloStarted \/ HelloResumed
  <2>1. issued' = issued /\ last_reply' = last_reply
    BY <1>5 DEF StartConnecting, Dial, Refused, HelloUnanswered, HelloBusy, HelloStarted,
                HelloResumed
  <2>2. CASE StartConnecting
    <3>1. op.pc = "idle" /\ op'.n = 0
      BY <2>2 DEF StartConnecting, Idle
    <3>2. QED
      BY <2>1, <3>1 DEF FramesInv, CallGoesOn
  <2>3. CASE Dial
    BY <1>1, <2>1, <2>3 DEF Dial, CallGoesOn
  <2>4. CASE AttemptFailed \/ Connected
    BY <1>2, <2>1, <2>4 DEF CallGoesOn
  <2>5. QED
    BY <1>5, <2>2, <2>3, <2>4 DEF Refused, HelloUnanswered, HelloBusy, HelloStarted,
                HelloResumed
<1>6. CASE GiveUp
  BY <1>3, <1>6 DEF GiveUp, CallIsOver
<1>7. CASE HelloGone
  <2>1. issued' = issued
    BY <1>7 DEF HelloGone
  <2>2. CASE op.n = 0
    BY <1>1, <1>7, <2>1, <2>2 DEF HelloGone, CallGoesOn
  <2>3. CASE op.n # 0
    BY <1>3, <1>7, <2>1, <2>3 DEF HelloGone, CallIsOver
  <2>4. QED
    BY <2>2, <2>3
<1>8. CASE Flush
  <2>1. issued' = issued /\ last_reply' = last_reply /\ op.n # 0
    BY <1>8 DEF Flush, TypeOK, ClientTypeOK
  <2>2. CASE NoReply(op.n)
    BY <1>1, <1>8, <2>1, <2>2 DEF Flush, CallNeedsNone
  <2>3. CASE ~NoReply(op.n)
    BY <1>1, <1>8, <2>1, <2>3 DEF Flush, CallGoesOn
  <2>4. QED
    BY <2>2, <2>3
<1>9. CASE FlushFails
  <2>1. issued' = issued /\ op.n # 0
    BY <1>9 DEF FlushFails, TypeOK, ClientTypeOK
  <2>2. CASE NoReply(op.n)
    BY <1>1, <1>9, <2>1, <2>2 DEF FlushFails, CallNeedsNone
  <2>3. CASE ~NoReply(op.n)
    BY <1>4, <1>9, <2>1, <2>3 DEF FlushFails, CallGoesOn, CallIsOver
  <2>4. QED
    BY <2>2, <2>3
<1>10. CASE RecvReply
  <2>1. issued' = issued /\ op.n # 0
    BY <1>10 DEF RecvReply, TypeOK, ClientTypeOK
  <2>2. op'.n = 0 /\ last_reply' = op.n
    BY <1>1, <1>3, <1>10 DEF RecvReply
  <2>3. QED
    BY <2>1, <2>2 DEF CallIsOver
<1>11. CASE RecvFails
  <2>1. issued' = issued /\ op.n # 0
    BY <1>11 DEF RecvFails, TypeOK, ClientTypeOK
  <2>2. QED
    BY <1>4, <1>11, <2>1 DEF RecvFails, CallGoesOn, CallIsOver
<1>12. QED
  BY <1>5, <1>6, <1>7, <1>8, <1>9, <1>10, <1>11 DEF Client

(* The client writes to the connection in use, or to the one opened last.  *)
LEMMA ClientWrites ==
  ASSUME TypeOK, Client
  PROVE  \A c \in Conns : c # fd /\ c # dialed => up'[c] = up[c]
<1>1. up \in [Conns -> Seq(Made)]
  BY DEF TypeOK, NetTypeOK
<1>2. \A d, frames : WriteSucceeds(d, frames) \/ WriteFails(d, frames) =>
        \A c \in Conns : c # d => up'[c] = up[c]
  <2> SUFFICES ASSUME NEW d, NEW frames, WriteSucceeds(d, frames) \/ WriteFails(d, frames),
                      NEW c \in Conns, c # d
               PROVE  up'[c] = up[c]
    OBVIOUS
  <2>1. up' = up \/ \E more : up' = [up EXCEPT ![d] = more]
    BY DEF WriteSucceeds, WriteFails
  <2>2. QED
    BY <1>1, <2>1
<1>3. CASE up' = up
  BY <1>3
<1>4. CASE HelloResumed
  <2>1. \E frames : WriteSucceeds(dialed, frames) \/ WriteFails(dialed, frames)
    BY <1>4 DEF HelloResumed
  <2>2. QED
    BY <1>2, <2>1
<1>5. CASE Flush \/ FlushFails
  BY <1>2, <1>5 DEF Flush, FlushFails
<1>6. QED
  BY <1>3, <1>4, <1>5 DEF Client, StartConnecting, QueueFrame, Dial, Refused, GiveUp,
       HelloUnanswered, HelloBusy, HelloGone, HelloStarted, RecvReply, RecvFails, netVars

(* A step of the client keeps AheadInv: a call is over when its reply was  *)
(* read or it was given up, and either moves last_reply up to it.          *)
LEMMA AheadClient ==
  ASSUME TypeOK, FramesInv, AheadInv, Client
  PROVE  AheadInv'
<1>1. /\ dialed \in Nat /\ fd \in Nat /\ fd <= dialed /\ last_reply \in Nat
      /\ acc \in [Conns -> AcceptRec] /\ Len(issued) \in Nat /\ op.n \in Nat
  BY FramesMade, Bounds DEF TypeOK, ClientTypeOK, NetTypeOK, ServerTypeOK, AheadInv
<1>2. /\ sess' = sess /\ fd' \in {fd, None, dialed}
      /\ \/ dialed' = dialed /\ acc' = acc
         \/ Dial
  BY DEF Client, StartConnecting, QueueFrame, Dial, Refused, GiveUp, HelloUnanswered, HelloBusy,
         HelloGone, HelloStarted, HelloResumed, Flush, FlushFails, RecvReply, RecvFails,
         CallBroke, Abandon, serverVars, netVars
<1>3. dialed' \in Nat /\ dialed' >= dialed
      /\ \A c \in Conns : c > dialed' => acc'[c] = acc[c]
  <2>1. Dial => dialed' = dialed + 1 /\ \E h : acc' = [acc EXCEPT ![dialed + 1] = h]
    BY DEF Dial
  <2>2. QED
    BY <1>1, <1>2, <2>1, Bounds DEF Conns
<1>4. \A c \in Conns : c > dialed' => acc'[c].pc = "none" /\ up'[c] = <<>> /\ down'[c] = <<>>
  <2> SUFFICES ASSUME NEW c \in Conns, c > dialed'
               PROVE  acc'[c].pc = "none" /\ up'[c] = <<>> /\ down'[c] = <<>>
    OBVIOUS
  <2>1. c > dialed /\ c # fd /\ c # dialed
    BY <1>1, <1>3, Bounds DEF Conns
  <2>2. acc[c].pc = "none" /\ up[c] = <<>> /\ down[c] = <<>>
    BY <2>1 DEF AheadInv
  <2>3. QED
    BY <1>3, <2>1, <2>2, ClientWrites, ClientReads
<1>5. fd' <= dialed' /\ \A s \in Sessions : sess'[s].fd <= dialed' /\ sess'[s].pending_fd <= dialed'
  <2>1. \A s \in Sessions : /\ sess[s].fd \in Nat /\ sess[s].fd <= dialed
                            /\ sess[s].pending_fd \in Nat /\ sess[s].pending_fd <= dialed
    BY Bounds DEF TypeOK, ServerTypeOK, SessionRec, AheadInv
  <2>2. QED
    BY <1>1, <1>2, <1>3, <2>1 DEF None
<1>6. \A n \in Made' : IsCall(n)' /\ n # op'.n => n <= last_reply'
  <2>1. CASE CallGoesOn \/ CallNeedsNone \/ CallIsOver
    <3>1. Made' = Made /\ \A n \in Made : IsCall(n)' <=> IsCall(n)
      BY <2>1 DEF CallGoesOn, CallNeedsNone, CallIsOver, Made, IsCall, NoReply
    <3>2. \A n \in Made : n \in Nat /\ n # 0 /\ n <= Len(issued)
      BY <1>1 DEF Made
    <3>3. CASE CallGoesOn
      BY <3>1, <3>3 DEF CallGoesOn, AheadInv
    <3>4. CASE CallNeedsNone
      BY <3>1, <3>4 DEF CallNeedsNone, AheadInv, IsCall
    <3>5. CASE CallIsOver
      BY <3>1, <3>2, <3>5 DEF CallIsOver, FramesInv
    <3>6. QED
      BY <2>1, <3>3, <3>4, <3>5
  <2>2. ASSUME NEW t \in Threads, NEW k \in Kinds, QueueFrame(t, k)
        PROVE  \A n \in Made' : IsCall(n)' /\ n # op'.n => n <= last_reply'
    <3>1. /\ issued' = Append(issued, [thread |-> t, kind |-> k]) /\ last_reply' = last_reply
          /\ op'.n = Len(issued) + 1 \/ k = "async"
          /\ op.pc \in {"queue", "idle"}
      BY <2>2 DEF QueueFrame
    <3>2. op.n = 0
      BY <3>1 DEF FramesInv
    <3>3. /\ Len(issued') = Len(issued) + 1 /\ \A m \in Made : issued'[m] = issued[m]
          /\ issued'[Len(issued) + 1].kind = k
      BY <3>1 DEF TypeOK, ClientTypeOK, Made
    <3>4. \A n \in Made' : n \in Made \/ n = Len(issued) + 1
      BY <1>1, <3>3 DEF Made
    <3>5. \A n \in Made : n # 0 /\ (IsCall(n)' <=> IsCall(n))
      BY <3>3 DEF Made, IsCall, NoReply
    <3>6. ASSUME NEW n \in Made', IsCall(n)', n # op'.n PROVE n <= last_reply
      <4>1. n \in Made
        BY <3>1, <3>3, <3>4, <3>6 DEF IsCall, NoReply
      <4>2. QED
        BY <3>2, <3>5, <3>6, <4>1 DEF AheadInv
    <3>7. QED
      BY <3>1, <3>6
  <2>3. QED
    BY <2>1, <2>2, ClientCalls
<1>7. QED
  BY <1>4, <1>5, <1>6 DEF AheadInv

(* Every step keeps AheadInv.                                              *)
LEMMA AheadStep ==
  ASSUME TypeOK, SessionsInv, GoneInv, FramesInv, AheadInv, [Next]_vars PROVE AheadInv'
  BY AheadServe, AheadAccept, AheadClient, AheadOthers DEF Next

(* What a serving thread holds is a call that was made.                    *)
LEMMA HeldIsACall ==
  ASSUME TypeOK, KeptInv, NEW s \in Sessions, NEW c, HoldsCall(s, c)
  PROVE  HeldCall(s) \in Made /\ IsCall(HeldCall(s))
  BY DEF TypeOK, ServerTypeOK, KeptInv, HoldsCall, HeldCall

(* Where the accept thread of a connection in use can be.                  *)
OnlinePcs == {"resend", "handover", "start", "done"}

(* A step after which less is on its way on the connection in use.         *)
LEMMA OnlineShrinks ==
  ASSUME NEW c \in Conns, OnlineInv(c), issued' = issued, op'.n = op.n,
         DueQueued' => DueQueued,
         acc'[c].pc \in OnlinePcs, acc'[c].pc = "resend" => acc'[c] = acc[c],
         NEW k \in Nat,
         \A i \in DOMAIN up'[c] :
           /\ i \in Nat
           /\ IsCall(up'[c][i]) => i + k \in DOMAIN up[c] /\ up'[c][i] = up[c][i + k],
         \A i \in DOMAIN down'[c] : i \in DOMAIN down[c] /\ down'[c][i] = down[c][i],
         down'[c] # <<>> => down[c] # <<>>,
         \A x \in Sessions : HoldsCall(x, c)' => HoldsCall(x, c) /\ HeldCall(x)' = HeldCall(x)
  PROVE  OnlineInv(c)'
<1>1. \A i \in DOMAIN down'[c] :
        i = 1 /\ down'[c][i].type = "rsp" /\ down'[c][i].n = op.n /\ op.n # 0 /\ IsCall(op.n)
  BY DEF OnlineInv
<1>2. ASSUME NEW i \in DOMAIN up'[c], IsCall(up'[c][i])
      PROVE  /\ up'[c][i] = op.n
             /\ \A j \in DOMAIN up'[c] : up'[c][j] = op.n => i = j
  <2>1. i \in Nat /\ i + k \in DOMAIN up[c] /\ up'[c][i] = up[c][i + k] /\ IsCall(up[c][i + k])
    BY <1>2
  <2>2. up[c][i + k] = op.n /\ \A j \in DOMAIN up[c] : up[c][j] = op.n => i + k = j
    BY <2>1 DEF OnlineInv
  <2>3. ASSUME NEW j \in DOMAIN up'[c], up'[c][j] = op.n PROVE i = j
    <3>1. j \in Nat /\ IsCall(up'[c][j])
      BY <2>1, <2>2, <2>3
    <3>2. j + k \in DOMAIN up[c] /\ up[c][j + k] = op.n
      BY <2>3, <3>1
    <3>3. i + k = j + k
      BY <2>2, <3>2
    <3>4. QED
      BY <2>1, <3>1, <3>3
  <2>4. QED
    BY <2>1, <2>2, <2>3
<1>3. \A x \in Sessions : HoldsCall(x, c)' => HeldCall(x)' = op.n
  BY DEF OnlineInv
<1>4. DueKept(c)' => DueKept(c) /\ acc'[c].kept.n = op.n
  BY DEF OnlineInv, DueKept
<1>5. /\ DueSent(c)' => DueSent(c)
      /\ DueHeld(c)' => DueHeld(c)
      /\ DueBack(c)' => DueBack(c)
  <2>1. DueSent(c)' => \E i \in DOMAIN up'[c] : IsCall(up'[c][i])
    BY DEF DueSent, IsCall, NoReply
  <2>2. QED
    BY <2>1 DEF DueSent, DueHeld, DueBack
<1>6. /\ DueQueued' => ~DueSent(c)' /\ ~DueHeld(c)' /\ ~DueKept(c)' /\ ~DueBack(c)'
      /\ DueSent(c)' => ~DueHeld(c)' /\ ~DueKept(c)' /\ ~DueBack(c)'
      /\ DueHeld(c)' => ~DueKept(c)' /\ ~DueBack(c)'
      /\ DueKept(c)' => ~DueBack(c)'
  BY <1>4, <1>5 DEF OnlineInv
<1>7. QED
  BY <1>1, <1>2, <1>3, <1>4, <1>6 DEF OnlineInv, OnlinePcs, IsCall, NoReply

(* A step after which the reply may come from one place only.              *)
LEMMA OnlineSettled ==
  ASSUME NEW c \in Conns, issued' = issued, op'.n = op.n,
         acc'[c].pc \in OnlinePcs \ {"resend"},
         \A i \in DOMAIN down'[c] :
           i = 1 /\ down'[c][i].type = "rsp" /\ down'[c][i].n = op.n /\ op.n # 0 /\ IsCall(op.n),
         \A i \in DOMAIN up'[c] : IsCall(up'[c][i]) =>
           up'[c][i] = op.n /\ \A j \in DOMAIN up'[c] : up'[c][j] = op.n => i = j,
         \A x \in Sessions : HoldsCall(x, c)' => HeldCall(x)' = op.n,
         \/ ~DueSent(c)' /\ ~DueHeld(c)' /\ ~DueBack(c)'
         \/ ~DueQueued' /\ ~DueHeld(c)' /\ ~DueBack(c)'
         \/ ~DueQueued' /\ ~DueSent(c)' /\ ~DueBack(c)'
         \/ ~DueQueued' /\ ~DueSent(c)' /\ ~DueHeld(c)'
  PROVE  OnlineInv(c)'
<1>1. ~DueKept(c)'
  BY DEF DueKept
<1>2. QED
  BY <1>1 DEF OnlineInv, OnlinePcs, IsCall, NoReply

(* The reply to the call under way, on a connection with nothing else.     *)
LEMMA OneBack ==
  ASSUME NEW S, NEW f \in Seq(S), f = <<>>, NEW m
  PROVE  /\ f \o <<m>> # <<>> /\ Len(f \o <<m>>) = 1
         /\ \A i \in DOMAIN (f \o <<m>>) : i = 1 /\ (f \o <<m>>)[i] = m
<1>1. f \o <<m>> = <<m>>
  OBVIOUS
<1>2. QED
  BY <1>1

(* A message sent after others.                                            *)
LEMMA OneMore ==
  ASSUME NEW S, NEW f \in Seq(S), NEW m \in S
  PROVE  /\ Len(f \o <<m>>) = Len(f) + 1
         /\ \A i \in DOMAIN f : (f \o <<m>>)[i] = f[i]
         /\ \A i \in DOMAIN (f \o <<m>>) :
              (i \in DOMAIN f /\ (f \o <<m>>)[i] = f[i]) \/ (i = Len(f) + 1 /\ (f \o <<m>>)[i] = m)
<1>1. f \o <<m>> = Append(f, m)
  BY AppendIsConcat
<1>2. /\ Append(f, m) \in Seq(S) /\ Len(Append(f, m)) = Len(f) + 1
      /\ Append(f, m)[Len(f) + 1] = m
      /\ \A i \in 1 .. Len(f) : Append(f, m)[i] = f[i]
  BY AppendProperties
<1>3. PICK g : g = Append(f, m)
  OBVIOUS
<1>4. Len(f) \in Nat /\ DOMAIN f = 1 .. Len(f) /\ DOMAIN g = 1 .. Len(f) + 1
  BY <1>2, <1>3, LenProperties
<1>5. \A i \in DOMAIN g : i \in DOMAIN f \/ i = Len(f) + 1
  BY <1>4
<1>6. QED
  BY <1>2, <1>1, <1>3, <1>4, <1>5

(* With the first request taken off, the one call there was is gone.       *)
LEMMA TakenOff ==
  ASSUME TypeOK, NEW c \in Conns, OnlineInv(c), up[c] # <<>>, IsCall(Head(up[c]))
  PROVE  /\ DueSent(c) /\ Head(up[c]) = op.n /\ op.n \in Made
         /\ \A i \in DOMAIN Tail(up[c]) : ~IsCall(Tail(up[c])[i])
<1>1. up[c] \in Seq(Made)
  BY DEF TypeOK, NetTypeOK
<1>2. /\ 1 \in DOMAIN up[c] /\ Head(up[c]) = up[c][1] /\ up[c][1] \in Made
      /\ \A i \in DOMAIN Tail(up[c]) : /\ i \in Nat /\ i >= 1 /\ i + 1 \in DOMAIN up[c]
                                       /\ Tail(up[c])[i] = up[c][i + 1]
  BY <1>1, TailParts
<1>3. up[c][1] = op.n /\ \A j \in DOMAIN up[c] : up[c][j] = op.n => 1 = j
  BY <1>2 DEF OnlineInv
<1>4. ASSUME NEW i \in DOMAIN Tail(up[c]), IsCall(Tail(up[c])[i]) PROVE FALSE
  <2>1. i \in Nat /\ i >= 1 /\ i + 1 \in DOMAIN up[c] /\ IsCall(up[c][i + 1])
    BY <1>2, <1>4
  <2>2. up[c][i + 1] = op.n
    BY <2>1 DEF OnlineInv
  <2>3. i + 1 = 1
    BY <1>3, <2>1, <2>2
  <2>4. QED
    BY <2>1, <2>3
<1>5. QED
  BY <1>2, <1>3, <1>4 DEF DueSent

(* A step of a serving thread keeps OnlineInv.                             *)
LEMMA OnlineServe ==
  ASSUME TypeOK, TypeOK', OrderInv, SessionsInv, GoneInv, KeptInv,
         NEW c \in Conns, OnlineInv(c), NEW s \in Sessions, Serve(s)
  PROVE  OnlineInv(c)'
<1>1. UNCHANGED <<op, issued, queued, acc>>
  BY ServeMoves DEF GoneInv, clientVars
<1>2. /\ DueQueued' <=> DueQueued
      /\ DueSent(c)' <=> \E i \in DOMAIN up'[c] : IsCall(up'[c][i])
      /\ acc'[c].pc \in OnlinePcs /\ op'.n = op.n /\ issued' = issued
  BY <1>1 DEF DueQueued, DueSent, IsCall, NoReply, OnlineInv, OnlinePcs
<1>3. /\ up[c] \in Seq(Made) /\ down[c] \in Seq(Message)
      /\ up'[c] \in Seq(Made')
  BY DEF TypeOK, NetTypeOK
<1>4. CASE Quiet(c)
  <2>1. \A i \in DOMAIN up'[c] : /\ i \in Nat
                                 /\ i + 0 \in DOMAIN up[c] /\ up'[c][i] = up[c][i + 0]
    BY <1>3, <1>4, LenProperties DEF Quiet
  <2>2. \A x \in Sessions : HoldsCall(x, c)' => HoldsCall(x, c) /\ HeldCall(x)' = HeldCall(x)
    BY <1>4 DEF Quiet, HoldsCall, Busy
  <2>3. down'[c] = down[c]
    BY <1>4 DEF Quiet
  <2>4. QED
    BY <1>1, <1>2, <2>1, <2>2, <2>3, OnlineShrinks
<1>5. CASE Takes(c)
  <2>1. up[c] # <<>> /\ up'[c] = Tail(up[c]) /\ down'[c] = down[c]
    BY <1>5 DEF Takes
  <2>2. CASE \A x \in Sessions : HoldsCall(x, c)' => HoldsCall(x, c) /\ HeldCall(x)' = HeldCall(x)
    <3>1. \A i \in DOMAIN up'[c] : /\ i \in Nat
                                   /\ i + 1 \in DOMAIN up[c] /\ up'[c][i] = up[c][i + 1]
      BY <1>3, <2>1, TailParts
    <3>2. QED
      BY <1>1, <1>2, <2>1, <2>2, <3>1, OnlineShrinks
  <2>3. CASE ~\A x \in Sessions : HoldsCall(x, c)' => HoldsCall(x, c) /\ HeldCall(x)' = HeldCall(x)
    <3>1. IsCall(Head(up[c]))
      BY <1>5, <2>3 DEF Takes
    <3>2. /\ DueSent(c) /\ Head(up[c]) = op.n
          /\ \A i \in DOMAIN up'[c] : ~IsCall(up'[c][i])
      BY <2>1, <3>1, TakenOff
    <3>3. ~DueQueued /\ ~DueHeld(c) /\ ~DueKept(c) /\ ~DueBack(c)
      BY <3>2 DEF OnlineInv
    <3>4. \A x \in Sessions : HoldsCall(x, c)' => HeldCall(x)' = op.n
      BY <1>1, <1>5, <3>2, <3>3 DEF Takes, DueHeld
    <3>5. ~DueQueued' /\ ~DueSent(c)' /\ ~DueBack(c)'
      BY <1>2, <2>1, <3>2, <3>3 DEF DueSent, DueBack
    <3>6. DOMAIN down'[c] = {}
      BY <2>1, <3>3 DEF DueBack
    <3>7. acc'[c].pc # "resend"
      BY <1>1, <3>3 DEF DueKept
    <3>8. QED
      BY <1>2, <3>2, <3>4, <3>5, <3>6, <3>7, OnlineSettled
  <2>4. QED
    BY <2>2, <2>3
<1>6. CASE Answers(c)
  <2>1. PICK m \in Replies : m.n = Head(up[c]) /\ down'[c] = down[c] \o <<m>>
    BY <1>6 DEF Answers
  <2>2. up[c] # <<>> /\ up'[c] = Tail(up[c]) /\ IsCall(Head(up[c]))
    BY <1>6 DEF Answers
  <2>3. /\ DueSent(c) /\ Head(up[c]) = op.n /\ op.n \in Made
        /\ \A i \in DOMAIN up'[c] : ~IsCall(up'[c][i])
    BY <2>2, TakenOff
  <2>4. ~DueQueued /\ ~DueHeld(c) /\ ~DueKept(c) /\ ~DueBack(c)
    BY <2>3 DEF OnlineInv
  <2>5. ~DueQueued' /\ ~DueSent(c)' /\ ~DueHeld(c)' /\ acc'[c].pc # "resend"
    BY <1>1, <1>2, <1>6, <2>3, <2>4 DEF Answers, DueSent, DueHeld, DueKept
  <2>6. \A i \in DOMAIN down'[c] : i = 1 /\ down'[c][i] = m
    BY <1>3, <2>1, <2>4, OneBack DEF DueBack
  <2>7. m.type = "rsp" /\ m.n = op.n /\ op.n # 0 /\ IsCall(op.n)
    BY <1>1, <1>2, <2>1, <2>2, <2>3, FramesMade DEF Replies, Made
  <2>8. QED
    BY <1>2, <2>3, <2>5, <2>6, <2>7, OnlineSettled DEF DueHeld
<1>7. CASE Sends(s, c)
  <2>1. PICK m \in Replies : m.n = HeldCall(s) /\ down'[c] = down[c] \o <<m>>
    BY <1>7 DEF Sends
  <2>2. up'[c] = up[c] /\ HoldsCall(s, c) /\ sess[s].pc = "send"
    BY <1>7 DEF Sends
  <2>3. HeldCall(s) = op.n /\ op.n \in Made /\ IsCall(op.n) /\ DueHeld(c)
    BY <2>2, HeldIsACall DEF OnlineInv, DueHeld
  <2>4. ~DueQueued /\ ~DueSent(c) /\ ~DueKept(c) /\ ~DueBack(c)
    BY <2>3 DEF OnlineInv
  <2>5. \A x \in Sessions : ~HoldsCall(x, c)'
    <3>1. \A x \in Sessions : HoldsCall(x, c) => sess[x].pc # "none"
      BY DEF HoldsCall
    <3>2. \A x \in Sessions : HoldsCall(x, c) => x = s
      BY <2>2, <3>1, OneHolds
    <3>3. QED
      BY <1>7, <3>2 DEF Sends
  <2>6. ~DueQueued' /\ ~DueSent(c)' /\ ~DueHeld(c)' /\ acc'[c].pc # "resend"
    BY <1>1, <1>2, <2>2, <2>4, <2>5 DEF DueSent, DueHeld, DueKept
  <2>7. \A i \in DOMAIN down'[c] : i = 1 /\ down'[c][i] = m
    BY <1>3, <2>1, <2>4, OneBack DEF DueBack
  <2>8. m.type = "rsp" /\ m.n = op.n /\ op.n # 0 /\ IsCall(op.n)
    BY <1>1, <1>2, <2>1, <2>3, FramesMade DEF Replies, Made
  <2>9. QED
    BY <1>2, <2>5, <2>6, <2>7, <2>8, OnlineSettled DEF DueSent
<1>8. QED
  BY <1>4, <1>5, <1>6, <1>7, ServeActs DEF GoneInv

(* An accept thread takes nothing out of a serving thread's hands.         *)
LEMMA AcceptHolds ==
  ASSUME TypeOK, NEW d \in Conns, Accept(d)
  PROVE  \A x \in Sessions, c \in Conns :
           HoldsCall(x, c)' => HoldsCall(x, c) /\ HeldCall(x)' = HeldCall(x)
<1>1. issued' = issued
  BY AcceptMoves DEF clientVars
<1>2. ASSUME NEW x \in Sessions, NEW c \in Conns, HoldsCall(x, c)'
      PROVE  HoldsCall(x, c) /\ HeldCall(x)' = HeldCall(x)
  <2>1. sess'[x].fd = sess[x].fd /\ sess'[x].cur = sess[x].cur
        /\ sess'[x].reply = sess[x].reply /\ (sess'[x].pc \in Busy => sess'[x].pc = sess[x].pc)
    BY AcceptActs
  <2>2. sess'[x].pc \in Busy
    BY <1>2 DEF HoldsCall, Busy
  <2>3. QED
    BY <1>1, <1>2, <2>1, <2>2 DEF HoldsCall, HeldCall, IsCall, NoReply
<1>3. QED
  BY <1>2

(* What a handshake resends is the reply to the call under way.            *)
LEMMA KeptIsDue ==
  ASSUME TypeOK, KeptInv, AheadInv, NEW c \in Conns, acc[c].pc = "resend",
         acc[c].last = last_reply
  PROVE  /\ acc[c].kept \in Replies /\ acc[c].kept.n = op.n
         /\ op.n \in Made /\ op.n # 0 /\ IsCall(op.n) /\ op.n <= acc[c].snap
<1>1. /\ acc[c].kept.n \in Made /\ IsCall(acc[c].kept.n)
      /\ last_reply < acc[c].kept.n /\ acc[c].kept.n <= acc[c].snap
  BY DEF KeptInv
<1>2. acc[c].kept \in Replies
  BY DEF TypeOK, ServerTypeOK, AcceptRec
<1>3. last_reply \in Nat /\ acc[c].kept.n \in Nat /\ acc[c].kept.n # 0
  BY <1>1, FramesMade, Bounds DEF TypeOK, ClientTypeOK, Made
<1>4. acc[c].kept.n = op.n
  BY <1>1, <1>3 DEF AheadInv
<1>5. QED
  BY <1>1, <1>2, <1>3, <1>4

(* A step of an accept thread keeps OnlineInv: on the connection in use it *)
(* may resend the kept reply, or hand the connection over.                 *)
LEMMA OnlineAccept ==
  ASSUME TypeOK, TypeOK', KeptInv, NEW c \in Conns, OnlineInv(c), NEW d \in Conns, Accept(d)
  PROVE  OnlineInv(c)'
<1>1. /\ UNCHANGED <<op, issued, queued, up>>
      /\ \A e \in Conns \ {d} : acc'[e] = acc[e] /\ down'[e] = down[e]
      /\ \A x \in Sessions : HoldsCall(x, c)' => HoldsCall(x, c) /\ HeldCall(x)' = HeldCall(x)
  BY AcceptMoves, AcceptActs, AcceptHolds DEF clientVars
<1>2. /\ DueQueued' <=> DueQueued
      /\ acc[c].pc \in OnlinePcs /\ op'.n = op.n /\ acc[c] \in AcceptRec
  BY <1>1 DEF DueQueued, IsCall, NoReply, OnlineInv, OnlinePcs, TypeOK, ServerTypeOK
<1>3. up[c] \in Seq(Made) /\ down[c] \in Seq(Message)
  BY DEF TypeOK, NetTypeOK
<1>4. \A i \in DOMAIN up'[c] : i \in Nat /\ i + 0 \in DOMAIN up[c] /\ up'[c][i] = up[c][i + 0]
  BY <1>1, <1>3, LenProperties
<1>5. ASSUME down'[c] = down[c], acc'[c].pc \in OnlinePcs,
             acc'[c].pc = "resend" => acc'[c] = acc[c]
      PROVE  OnlineInv(c)'
  BY <1>1, <1>2, <1>4, <1>5, OnlineShrinks
<1>6. CASE d # c
  BY <1>1, <1>2, <1>5, <1>6
<1>7. CASE d = c
  <2>1. CASE HandOver(c) \/ StartServing(c)
    <3>1. acc' = [acc EXCEPT ![c].pc = "done"] /\ down' = down
      BY <2>1 DEF HandOver, StartServing, HandshakeDone
    <3>2. acc'[c].pc = "done"
      BY <1>2, <3>1 DEF AcceptRec, TypeOK, ServerTypeOK
    <3>3. QED
      BY <1>5, <3>1, <3>2 DEF OnlinePcs
  <2>2. CASE ResendKept(c)
    <3>1. /\ acc[c].pc = "resend"
          /\ \/ acc' = [acc EXCEPT ![c].pc = "handover"] /\ Write(c, <<acc[c].kept>>)
             \/ acc' = [acc EXCEPT ![c].pc = "done"] /\ down' = down
      BY <2>2 DEF ResendKept, HandshakeDone
    <3>2. acc'[c].pc \in {"handover", "done"}
      BY <1>2, <3>1 DEF AcceptRec, TypeOK, ServerTypeOK
    <3>3. CASE down'[c] = down[c]
      BY <1>5, <3>2, <3>3 DEF OnlinePcs
    <3>4. CASE down'[c] = down[c] \o <<acc[c].kept>>
      <4>1. DueKept(c) /\ acc[c].kept.n = op.n /\ acc[c].kept.n # 0 /\ IsCall(op.n)
            /\ acc[c].kept \in Replies
        BY <1>2, <3>1 DEF DueKept, OnlineInv, KeptInv, AcceptRec
      <4>2. ~DueQueued /\ ~DueSent(c) /\ ~DueHeld(c) /\ ~DueBack(c)
        BY <4>1 DEF OnlineInv
      <4>3. \A i \in DOMAIN down'[c] : i = 1 /\ down'[c][i] = acc[c].kept
        BY <1>3, <3>4, <4>2, OneBack DEF DueBack
      <4>4. ~DueQueued' /\ ~DueSent(c)' /\ ~DueHeld(c)'
        BY <1>1, <1>2, <4>2 DEF DueSent, DueHeld, IsCall, NoReply
      <4>5. \A i \in DOMAIN down'[c] :
              i = 1 /\ down'[c][i].type = "rsp" /\ down'[c][i].n = op.n /\ op.n # 0 /\ IsCall(op.n)
        BY <4>1, <4>3 DEF Replies
      <4>6. \A i \in DOMAIN up'[c] : ~IsCall(up'[c][i])
        BY <1>1, <4>2 DEF DueSent
      <4>7. \A x \in Sessions : HoldsCall(x, c)' => HeldCall(x)' = op.n
        BY <4>4 DEF DueHeld
      <4>8. QED
        BY <1>1, <1>2, <3>2, <4>4, <4>5, <4>6, <4>7, OnlineSettled DEF OnlinePcs
    <3>5. QED
      BY <1>1, <1>3, <3>1, <3>3, <3>4 DEF Write, TypeOK, NetTypeOK
  <2>3. QED
    BY <1>2, <1>7, <2>1, <2>2 DEF Accept, OnlinePcs, HelloNeverArrives, FindSession,
       StartSession, RefuseSession, TellGone, Snapshot, WriteHello, WriteHelloFails
<1>8. QED
  BY <1>6, <1>7

(* Breaks and a restart keep OnlineInv: what is on its way gets less.      *)
LEMMA OnlineOthers ==
  ASSUME TypeOK, NEW c \in Conns, OnlineInv(c),
         (\E d \in Conns : Break(d)) \/ Restart \/ UNCHANGED vars
  PROVE  OnlineInv(c)'
<1>1. UNCHANGED <<op, issued, queued>>
  BY DEF Break, Restart, vars, clientVars
<1>2. /\ DueQueued' <=> DueQueued
      /\ acc[c].pc \in OnlinePcs /\ op'.n = op.n /\ acc[c] \in AcceptRec
      /\ up[c] \in Seq(Made) /\ down[c] \in Seq(Message)
  BY <1>1 DEF DueQueued, IsCall, NoReply, OnlineInv, OnlinePcs, TypeOK, ServerTypeOK, NetTypeOK
<1>3. ASSUME sess' = sess
      PROVE  \A x \in Sessions : HoldsCall(x, c)' => HoldsCall(x, c) /\ HeldCall(x)' = HeldCall(x)
  BY <1>1, <1>3 DEF HoldsCall, HeldCall, IsCall, NoReply
<1>4. CASE Restart
  <2>1. up'[c] = <<>> /\ down' = down
    BY <1>4 DEF Restart
  <2>2. acc'[c].pc \in OnlinePcs \ {"resend"}
    BY <1>2, <1>4 DEF Restart, AcceptRec, OnlinePcs
  <2>3. \A x \in Sessions : ~HoldsCall(x, c)'
    BY <1>4 DEF Restart, HoldsCall, NoSession
  <2>4. DOMAIN up'[c] = {}
    BY <2>1
  <2>5. QED
    BY <1>1, <1>2, <2>1, <2>2, <2>3, <2>4, OnlineShrinks
<1>5. CASE UNCHANGED <<acc, sess>> /\ up'[c] = up[c] /\ down'[c] = down[c]
  <2>1. \A i \in DOMAIN up'[c] : i \in Nat /\ i + 0 \in DOMAIN up[c] /\ up'[c][i] = up[c][i + 0]
    BY <1>2, <1>5, LenProperties
  <2>2. QED
    BY <1>1, <1>2, <1>3, <1>5, <2>1, OnlineShrinks
<1>6. ASSUME NEW d \in Conns, Break(d) PROVE OnlineInv(c)'
  <2>1. PICK i \in 0 .. Len(up[d]), j \in 0 .. Len(down[d]) :
           /\ up' = [up EXCEPT ![d] = SubSeq(up[d], 1, i)]
           /\ down' = [down EXCEPT ![d] = SubSeq(down[d], 1, j)]
    BY <1>6 DEF Break
  <2>2. UNCHANGED <<acc, sess>>
    BY <1>6 DEF Break, serverVars
  <2>3. CASE d # c
    BY <1>5, <2>1, <2>2, <2>3 DEF TypeOK, NetTypeOK
  <2>4. CASE d = c
    <3>1. up'[c] = SubSeq(up[c], 1, i) /\ down'[c] = SubSeq(down[c], 1, j)
      BY <2>1, <2>4 DEF TypeOK, NetTypeOK
    <3>2. \A n \in DOMAIN up'[c] : n \in Nat /\ n + 0 \in DOMAIN up[c] /\ up'[c][n] = up[c][n + 0]
      BY <1>2, <2>4, <3>1, PrefixParts, LenProperties
    <3>3. \A n \in DOMAIN down'[c] : n \in DOMAIN down[c] /\ down'[c][n] = down[c][n]
      BY <1>2, <2>4, <3>1, PrefixParts
    <3>4. down'[c] # <<>> => down[c] # <<>>
      <4>1. down[c] = <<>> => j = 0
        BY <2>4
      <4>2. QED
        BY <3>1, <4>1
    <3>5. QED
      BY <1>1, <1>2, <1>3, <2>2, <3>2, <3>3, <3>4, OnlineShrinks
  <2>5. QED
    BY <2>3, <2>4
<1>7. QED
  BY <1>4, <1>5, <1>6 DEF vars, netVars, serverVars

(* A step after which no more is on its way during a handshake, which is   *)
(* where it was, or further.                                               *)
LEMMA HelloShrinks ==
  ASSUME NEW c \in Conns, HelloInv(c), UNCHANGED <<last_reply, op, issued>>,
         acc'[c].last = acc[c].last,
         \/ acc'[c] = acc[c]
         \/ acc'[c].pc \in OnlinePcs \ {"resend"}
         \/ acc'[c].pc \in {"snapshot", "reply"} /\ acc[c].pc \in {"hello", "snapshot"},
         up'[c] = <<>>, live'[c] => live[c],
         \/ down'[c] = down[c]
         \/ /\ ~live'[c] /\ Len(down'[c]) <= Len(down[c]) /\ Len(down[c]) \in Nat
            /\ Len(down'[c]) \in Nat /\ (down[c] = <<>> => down'[c] = <<>>)
            /\ \A i \in DOMAIN down'[c] :
                 i \in DOMAIN down[c] /\ down'[c][i] = down[c][i]
                 /\ (i = 2 => down'[c][1] = down[c][1]),
         \A s \in Sessions : sess'[s].fd = c /\ sess'[s].pc \in Busy =>
           sess[s].fd = c /\ sess[s].pc \in Busy
  PROVE  HelloInv(c)'
<1>1. \A s \in Sessions : sess'[s].fd = c => sess'[s].pc \notin {"run", "record", "send"}
  BY DEF HelloInv, Busy
<1>2. acc'[c].pc # "none" /\ acc'[c].last = last_reply'
  BY DEF HelloInv, OnlinePcs
<1>3. acc'[c].pc \in {"hello", "snapshot", "reply"} => down'[c] = <<>>
  BY DEF HelloInv, OnlinePcs
<1>4. acc'[c].pc = "resend" => acc'[c] = acc[c] /\ Len(down'[c]) <= 1 /\ (live'[c] => down'[c] # <<>>)
  BY DEF HelloInv, OnlinePcs
<1>5. \A i \in DOMAIN down'[c] :
        /\ i <= 2
        /\ down'[c][i].type = "rsp" <=> i = 2
        /\ i = 1 /\ acc'[c].pc = "resend" => down'[c][i].n = acc'[c].snap
        /\ i = 2 => /\ op.n # 0 /\ IsCall(op.n)
                    /\ down'[c][i].n = op.n /\ op.n <= down'[c][1].n
  <2>1. \A i \in DOMAIN down'[c] : i \in DOMAIN down[c] /\ down'[c][i] = down[c][i]
                                   /\ (i = 2 => down'[c][1] = down[c][1])
    OBVIOUS
  <2>2. QED
    BY <1>4, <2>1 DEF HelloInv
<1>6. QED
  BY <1>1, <1>2, <1>3, <1>4, <1>5 DEF HelloInv, IsCall, NoReply

(* During the handshake no serving thread has anything to do with the      *)
(* connection.                                                             *)
LEMMA HelloServe ==
  ASSUME TypeOK, GoneInv, NEW c \in Conns, HelloInv(c), NEW s \in Sessions, Serve(s)
  PROVE  HelloInv(c)'
<1>1. UNCHANGED <<clientVars, acc>>
  BY ServeMoves DEF GoneInv
<1>2. up[c] = <<>> /\ \A x \in Sessions : sess[x].fd = c => sess[x].pc \notin Busy
  BY DEF HelloInv, Busy
<1>3. ~Takes(c) /\ ~Answers(c) /\ ~Sends(s, c)
  BY <1>2 DEF Takes, Answers, Sends, HoldsCall, Busy
<1>4. Quiet(c)
  BY <1>3, ServeActs DEF GoneInv
<1>5. QED
  BY <1>1, <1>2, <1>4, HelloShrinks DEF Quiet, clientVars

(* The handshake itself: one answer, and then the kept reply if it is one  *)
(* the client still waits for.                                             *)
LEMMA HelloAccept ==
  ASSUME TypeOK, TypeOK', KeptInv, AheadInv, NEW c \in Conns, HelloInv(c),
         NEW d \in Conns, Accept(d)
  PROVE  HelloInv(c)'
<1>1. /\ UNCHANGED clientVars /\ up'[c] = <<>> /\ (live'[c] => live[c])
      /\ \A e \in Conns \ {d} : acc'[e] = acc[e] /\ down'[e] = down[e]
      /\ acc'[d].last = acc[d].last /\ acc'[d].pc # "none"
      /\ \A s \in Sessions : sess'[s].fd = c /\ sess'[s].pc \in Busy =>
           sess[s].fd = c /\ sess[s].pc \in Busy
  BY AcceptMoves, AcceptActs DEF HelloInv
<1>2. UNCHANGED <<last_reply, op, issued>>
  BY <1>1 DEF clientVars
<1>3. CASE d # c
  BY <1>1, <1>2, <1>3, HelloShrinks
<1>4. /\ acc \in [Conns -> AcceptRec] /\ down \in [Conns -> Seq(Message)]
      /\ live \in [Conns -> BOOLEAN] /\ acc[c].last = last_reply
  BY DEF TypeOK, ServerTypeOK, NetTypeOK, HelloInv
<1>5. CASE d = c /\ down' = down /\ acc'[c].pc = "done"
  BY <1>1, <1>2, <1>5, HelloShrinks DEF OnlinePcs
<1>6. CASE d = c /\ (HelloNeverArrives(c) \/ WriteHelloFails(c) \/ HandOver(c) \/ StartServing(c))
  BY <1>4, <1>5, <1>6 DEF HelloNeverArrives, WriteHelloFails, HandOver, StartServing,
       HandshakeDone, AcceptRec, netVars
<1>7. CASE d = c /\ (FindSession(c) \/ StartSession(c))
  <2>1. acc'[c].pc = "snapshot" /\ acc[c].pc = "hello" /\ down' = down
    BY <1>4, <1>7 DEF FindSession, StartSession, AcceptRec, netVars
  <2>2. QED
    BY <1>1, <1>2, <1>7, <2>1, HelloShrinks
<1>8. CASE d = c /\ Snapshot(c)
  <2>1. acc[c].pc = "snapshot" /\ down' = down
        /\ \E n, k : acc' = [acc EXCEPT ![c].pc = "reply", ![c].snap = n, ![c].kept = k]
    BY <1>8 DEF Snapshot, netVars
  <2>2. acc'[c].pc = "reply"
    BY <1>4, <2>1 DEF AcceptRec
  <2>3. QED
    BY <1>1, <1>2, <1>8, <2>1, <2>2, HelloShrinks
\* The one answer, where nothing was sent yet.
<1>9. ASSUME NEW m, m.type # "rsp", d = c, down[c] = <<>>,
             down'[c] = down[c] \/ down'[c] = down[c] \o <<m>>,
             acc'[c].pc \in OnlinePcs,
             acc'[c].pc = "resend" => (live'[c] => down'[c] # <<>>) /\ m.n = acc'[c].snap
      PROVE  HelloInv(c)'
  <2>1. \A i \in DOMAIN down'[c] : i = 1 /\ down'[c][i] = m
    BY <1>4, <1>9, OneBack
  <2>2. Len(down'[c]) <= 1
    <3>1. PICK f \in Seq(Message) : f = down[c]
      BY <1>4
    <3>2. Len(f) = 0 /\ f = <<>>
      BY <1>9, <3>1
    <3>3. down'[c] = f \/ down'[c] = f \o <<m>>
      BY <1>9, <3>1
    <3>4. Len(f \o <<m>>) = 1
      BY <3>2, OneBack
    <3>5. PICK n : n = Len(down'[c])
      OBVIOUS
    <3>6. n = 0 \/ n = 1
      BY <3>2, <3>3, <3>4, <3>5
    <3>7. n <= 1
      BY <3>6
    <3>8. QED
      BY <3>5, <3>7
  <2>3. \A s \in Sessions : sess'[s].fd = c => sess'[s].pc \notin {"run", "record", "send"}
    BY <1>1 DEF HelloInv, Busy
  <2>4. QED
    BY <1>1, <1>2, <1>4, <1>9, <2>1, <2>2, <2>3 DEF HelloInv, OnlinePcs, IsCall, NoReply
<1>10. CASE d = c /\ (RefuseSession(c) \/ TellGone(c))
  <2>1. PICK m : m.type # "rsp" /\ Write(c, <<m>>)
    BY <1>10 DEF RefuseSession, TellGone, HelloReply
  <2>2. acc[c].pc = "hello" /\ acc' = [acc EXCEPT ![c].pc = "done"]
    BY <1>10 DEF RefuseSession, TellGone, HandshakeDone
  <2>3. down[c] = <<>> /\ acc'[c].pc = "done"
    BY <1>4, <2>2 DEF HelloInv, AcceptRec
  <2>4. down'[c] = down[c] \/ down'[c] = down[c] \o <<m>>
    BY <1>4, <2>1 DEF Write
  <2>5. QED
    BY <1>9, <1>10, <2>1, <2>3, <2>4 DEF OnlinePcs
<1>11. CASE d = c /\ WriteHello(c)
  <2>1. PICK m : m = HelloReply(IF acc[c].resumed THEN "resumed" ELSE "fresh", acc[c].snap)
    OBVIOUS
  <2>2. m.type # "rsp" /\ m.n = acc[c].snap
    BY <2>1 DEF HelloReply
  <2>3. acc[c].pc = "reply" /\ acc' = [acc EXCEPT ![c].pc = AfterReply(c)] /\ live' = live
        /\ down' = IF live[c] THEN [down EXCEPT ![c] = down[c] \o <<m>>] ELSE down
    BY <1>11, <2>1 DEF WriteHello, Write
  <2>4. down[c] = <<>> /\ acc'[c].pc \in OnlinePcs /\ acc'[c].snap = acc[c].snap
    BY <1>4, <2>3 DEF HelloInv, AcceptRec, AfterReply, OnlinePcs
  <2>5. /\ down'[c] = down[c] \/ down'[c] = down[c] \o <<m>>
        /\ live'[c] => down'[c] # <<>>
    BY <1>4, <2>3, <2>4, OneBack
  <2>6. QED
    BY <1>9, <1>11, <2>2, <2>4, <2>5
<1>12. CASE d = c /\ ResendKept(c)
  <2>1. /\ acc[c].pc = "resend" /\ live' = live
        /\ \/ acc' = [acc EXCEPT ![c].pc = "handover"] /\ Write(c, <<acc[c].kept>>)
           \/ acc' = [acc EXCEPT ![c].pc = "done"] /\ down' = down
    BY <1>12 DEF ResendKept, HandshakeDone
  <2>2. acc'[c].pc \in {"handover", "done"}
    BY <1>4, <2>1 DEF AcceptRec
  <2>3. CASE down'[c] = down[c]
    BY <1>1, <1>2, <1>12, <2>2, <2>3, HelloShrinks DEF OnlinePcs
  <2>4. CASE live[c] /\ down'[c] = down[c] \o <<acc[c].kept>>
    <3>1. /\ acc[c].kept \in Replies /\ acc[c].kept.n = op.n
          /\ op.n # 0 /\ IsCall(op.n) /\ op.n <= acc[c].snap
      BY <1>4, <2>1, KeptIsDue
    <3>2. Len(down[c]) <= 1 /\ down[c] # <<>>
      BY <2>1, <2>4 DEF HelloInv
    <3>3. PICK f \in Seq(Message) : f = down[c]
      BY <1>4
    <3>4. Len(f) = 1 /\ DOMAIN f = 1 .. 1
      <4>1. Len(f) <= 1 /\ f # <<>>
        BY <3>3, <3>2
      <4>2. Len(f) \in Nat /\ Len(f) # 0 /\ DOMAIN f = 1 .. Len(f)
        BY <4>1, EmptySeq, LenProperties
      <4>3. Len(f) = 1
        BY <4>1, <4>2
      <4>4. QED
        BY <4>2, <4>3
    <3>5. down[c][1].type # "rsp" /\ down[c][1].n = acc[c].snap
      BY <2>1, <3>3, <3>4 DEF HelloInv
    <3>6. acc[c].kept \in Message
      BY <3>1, RepliesAreMessages
    <3>7. down'[c] = f \o <<acc[c].kept>>
      BY <2>4, <3>3
    <3>8. \A i \in DOMAIN down'[c] :
            (i = 1 /\ down'[c][i] = down[c][1]) \/ (i = 2 /\ down'[c][i] = acc[c].kept)
      <4>1. \A i \in DOMAIN (f \o <<acc[c].kept>>) :
              \/ i \in 1 .. 1 /\ (f \o <<acc[c].kept>>)[i] = f[i]
              \/ i = Len(f) + 1 /\ (f \o <<acc[c].kept>>)[i] = acc[c].kept
        BY <3>4, <3>6, OneMore
      <4>2. \A i \in 1 .. 1 : i = 1
        OBVIOUS
      <4>3. Len(f) + 1 = 2
        BY <3>4
      <4>4. QED
        BY <3>3, <3>7, <4>1, <4>2, <4>3
    <3>9. down'[c][1] = down[c][1]
      BY <3>3, <3>4, <3>6, <3>7, OneMore
    <3>10. \A s \in Sessions : sess'[s].fd = c => sess'[s].pc \notin {"run", "record", "send"}
      BY <1>1 DEF HelloInv, Busy
    <3>11. acc[c].kept.type = "rsp"
      BY <3>1 DEF Replies
    <3>12. \A i \in DOMAIN down'[c] :
             /\ i <= 2
             /\ down'[c][i].type = "rsp" <=> i = 2
             /\ i = 2 => down'[c][i].n = op.n /\ op.n <= down'[c][1].n
      BY <3>1, <3>5, <3>8, <3>11, <3>9
    <3>13. QED
      BY <1>1, <1>2, <1>4, <1>12, <2>2, <3>1, <3>10, <3>12 DEF HelloInv, IsCall, NoReply
  <2>5. QED
    BY <1>4, <2>1, <2>3, <2>4 DEF Write
<1>13. QED
  BY <1>3, <1>6, <1>7, <1>8, <1>10, <1>11, <1>12 DEF Accept

(* Breaks and a restart keep HelloInv.                                     *)
LEMMA HelloOthers ==
  ASSUME TypeOK, NEW c \in Conns, HelloInv(c),
         (\E d \in Conns : Break(d)) \/ Restart \/ UNCHANGED vars
  PROVE  HelloInv(c)'
<1>1. UNCHANGED <<last_reply, op, issued>>
  BY DEF Break, Restart, vars, clientVars
<1>2. /\ acc[c] \in AcceptRec /\ up[c] = <<>> /\ down[c] \in Seq(Message)
      /\ acc[c].pc # "none"
  BY DEF TypeOK, ServerTypeOK, NetTypeOK, HelloInv
<1>3. CASE Restart
  <2>1. up'[c] = <<>> /\ down' = down /\ ~live'[c]
    BY <1>3 DEF Restart
  <2>2. acc'[c].pc = "done" /\ acc'[c].last = acc[c].last
    BY <1>2, <1>3 DEF Restart, AcceptRec
  <2>3. \A s \in Sessions : sess'[s].pc \notin Busy
    BY <1>3 DEF Restart, NoSession, Busy
  <2>4. QED
    BY <1>1, <2>1, <2>2, <2>3, HelloShrinks DEF OnlinePcs
<1>4. CASE UNCHANGED <<acc, sess>> /\ up'[c] = up[c] /\ down'[c] = down[c] /\ live'[c] = live[c]
  BY <1>1, <1>2, <1>4, HelloShrinks
<1>5. ASSUME NEW d \in Conns, Break(d) PROVE HelloInv(c)'
  <2>1. PICK i \in 0 .. Len(up[d]), j \in 0 .. Len(down[d]) :
           /\ up' = [up EXCEPT ![d] = SubSeq(up[d], 1, i)]
           /\ down' = [down EXCEPT ![d] = SubSeq(down[d], 1, j)]
    BY <1>5 DEF Break
  <2>2. UNCHANGED <<acc, sess>> /\ live' = [live EXCEPT ![d] = FALSE]
    BY <1>5 DEF Break, serverVars
  <2>3. CASE d # c
    BY <1>4, <2>1, <2>2, <2>3 DEF TypeOK, NetTypeOK
  <2>4. CASE d = c
    <3>1. up'[c] = SubSeq(up[c], 1, i) /\ down'[c] = SubSeq(down[c], 1, j) /\ ~live'[c]
      BY <2>1, <2>2, <2>4 DEF TypeOK, NetTypeOK
    <3>2. up'[c] = <<>>
      <4>1. i = 0
        BY <1>2, <2>4
      <4>2. QED
        BY <3>1, <4>1
    <3>3. PICK f \in Seq(Message) : f = SubSeq(down[c], 1, j)
      BY <1>2, <2>4, PrefixParts
    <3>4. /\ Len(f) = j /\ DOMAIN f = 1 .. j /\ j \in Nat /\ j <= Len(down[c])
          /\ \A n \in DOMAIN f : n \in DOMAIN down[c] /\ f[n] = down[c][n]
      BY <1>2, <2>4, <3>3, PrefixParts, LenProperties
    <3>5. \A n \in DOMAIN f : n = 2 => f[1] = down[c][1]
      BY <3>4
    <3>6. down[c] = <<>> => f = <<>>
      BY <3>4, EmptySeq
    <3>7. Len(down[c]) \in Nat
      BY <1>2, LenProperties
    <3>8. QED
      BY <1>1, <2>2, <3>1, <3>2, <3>3, <3>4, <3>5, <3>6, <3>7, HelloShrinks
  <2>5. QED
    BY <2>3, <2>4
<1>6. QED
  BY <1>3, <1>4, <1>5 DEF vars, netVars, serverVars

(* With no call under way, or one that gets no reply, none is due.         *)
LEMMA NothingDue ==
  ASSUME TypeOK, KeptInv, FramesInv, NEW c \in Conns, OnlineInv(c), op.n = 0 \/ NoReply(op.n)
  PROVE  ~DueQueued /\ ~DueSent(c) /\ ~DueHeld(c) /\ ~DueKept(c) /\ ~DueBack(c)
<1>1. ~(op.n # 0 /\ IsCall(op.n))
  BY DEF IsCall
<1>2. ~(op.n \in Made /\ IsCall(op.n))
  BY <1>1, FramesMade DEF Made
<1>3. ~DueQueued
  <2>1. \A i \in DOMAIN queued : queued[i] \in Elems(queued)
    BY DEF Elems
  <2>2. \A n \in Elems(queued) : IsCall(n) => n = op.n /\ n \in Made
    BY FramesMade DEF FramesInv
  <2>3. QED
    BY <1>2, <2>1, <2>2 DEF DueQueued
<1>4. ~DueSent(c)
  <2>1. up[c] \in Seq(Made)
    BY DEF TypeOK, NetTypeOK
  <2>2. \A i \in DOMAIN up[c] : up[c][i] \in Made
    BY <2>1
  <2>3. QED
    BY <1>2, <2>2 DEF DueSent, OnlineInv
<1>5. ~DueHeld(c)
  BY <1>2, HeldIsACall DEF DueHeld, OnlineInv
<1>6. ~DueKept(c)
  BY <1>2 DEF DueKept, OnlineInv, KeptInv
<1>7. ~DueBack(c)
  <2>1. down[c] \in Seq(Message)
    BY DEF TypeOK, NetTypeOK
  <2>2. down[c] # <<>> => 1 \in DOMAIN down[c]
    BY <2>1, TailParts
  <2>3. QED
    BY <1>1, <2>2 DEF DueBack, OnlineInv
<1>8. QED
  BY <1>3, <1>4, <1>5, <1>6, <1>7

(* A step after which no reply is due on the connection in use.            *)
LEMMA OnlineIdle ==
  ASSUME NEW c \in Conns, acc'[c].pc \in OnlinePcs \ {"resend"}, down'[c] = <<>>,
         \A i \in DOMAIN up'[c] : issued'[up'[c][i]].kind = "async",
         \A x \in Sessions : ~HoldsCall(x, c)'
  PROVE  OnlineInv(c)'
<1>1. ~DueSent(c)' /\ ~DueHeld(c)' /\ ~DueKept(c)' /\ ~DueBack(c)'
  BY DEF DueSent, DueHeld, DueKept, DueBack, IsCall, NoReply
<1>2. DOMAIN down'[c] = {}
  OBVIOUS
<1>3. QED
  BY <1>1, <1>2 DEF OnlineInv, OnlinePcs, IsCall, NoReply

(* A frame is in frames that are in order once at most.                    *)
LEMMA OnceInOrder ==
  ASSUME NEW frames \in Seq(Reqs), InOrder(frames), NEW i \in DOMAIN frames,
         NEW j \in DOMAIN frames, frames[i] = frames[j]
  PROVE  i = j
<1>1. i \in Nat /\ j \in Nat
  BY LenProperties
<1>2. frames[i] \in Nat
  BY Bounds, LenProperties DEF Reqs
<1>3. ~(i < j) /\ ~(j < i)
  BY <1>2 DEF InOrder
<1>4. QED
  BY <1>1, <1>3

(* Queueing a frame, with no call under way.                               *)
LEMMA OnlineQueueFrame ==
  ASSUME TypeOK, FramesInv, KeptInv, NEW c \in Conns, OnlineInv(c),
         NEW t \in Threads, NEW k \in Kinds, QueueFrame(t, k)
  PROVE  OnlineInv(c)'
<1>1. UNCHANGED <<acc, sess, up, down>> /\ op.pc \in {"queue", "idle"}
  BY DEF QueueFrame, netVars, serverVars
<1>2. op.n = 0
  BY <1>1 DEF FramesInv
<1>3. ~DueSent(c) /\ ~DueHeld(c) /\ ~DueKept(c) /\ ~DueBack(c)
  BY <1>2, NothingDue
<1>4. \A m \in Made : m \in Made' /\ issued'[m] = issued[m]
  <2>1. issued' = Append(issued, [thread |-> t, kind |-> k]) /\ issued \in Seq(CallRec)
        /\ [thread |-> t, kind |-> k] \in CallRec
    BY DEF QueueFrame, TypeOK, ClientTypeOK, CallRec
  <2>2. /\ Len(issued) \in Nat /\ Len(issued') = Len(issued) + 1
        /\ \A m \in 1 .. Len(issued) : issued'[m] = issued[m]
    BY <2>1, AppendProperties, LenProperties
  <2>3. QED
    BY <2>2 DEF Made
<1>5. \A i \in DOMAIN up'[c] : issued'[up'[c][i]].kind = "async"
  <2>1. \A i \in DOMAIN up[c] : up[c][i] \in Made
    BY DEF TypeOK, NetTypeOK
  <2>2. QED
    BY <1>1, <1>3, <1>4, <2>1 DEF DueSent, IsCall, NoReply
<1>6. ASSUME NEW x \in Sessions PROVE ~HoldsCall(x, c)'
  <2>1. sess[x].pc \in {"run", "record"} => sess[x].cur \in Made
    BY DEF TypeOK, ServerTypeOK
  <2>2. QED
    BY <1>1, <1>3, <1>4, <2>1 DEF DueHeld, HoldsCall, IsCall, NoReply
<1>7. QED
  BY <1>1, <1>3, <1>5, <1>6, OnlineIdle DEF OnlineInv, OnlinePcs, DueKept, DueBack

(* Writing the queue.                                                      *)
LEMMA OnlineFlush ==
  ASSUME TypeOK, TypeOK', FramesInv, KeptInv, NEW c \in Conns, OnlineInv(c), c = fd, Flush
  PROVE  OnlineInv(c)'
<1>1. /\ UNCHANGED <<acc, sess, down, issued>> /\ queued' = <<>> /\ op.n # 0
      /\ WriteSucceeds(c, queued)
  BY DEF Flush, serverVars, TypeOK, ClientTypeOK
<1>2. /\ up[c] \in Seq(Made) /\ queued \in Seq(Made) /\ up'[c] \in Seq(Made')
  BY DEF TypeOK, NetTypeOK, ClientTypeOK
<1>3. \A i \in DOMAIN up'[c] :
        \/ i \in DOMAIN up[c] /\ up'[c][i] = up[c][i]
        \/ i \in Nat /\ i > Len(up[c]) /\ i - Len(up[c]) \in DOMAIN queued
           /\ up'[c][i] = queued[i - Len(up[c])]
  <2>1. up'[c] = up[c] \/ up'[c] = up[c] \o queued
    BY <1>1 DEF WriteSucceeds, TypeOK, NetTypeOK
  <2>2. CASE up'[c] = up[c]
    BY <2>2
  <2>3. CASE up'[c] = up[c] \o queued
    BY <1>2, <2>3, ConcatParts
  <2>4. QED
    BY <2>1, <2>2, <2>3
<1>4. /\ \A x \in Sessions : /\ HoldsCall(x, c)' <=> HoldsCall(x, c)
                             /\ HeldCall(x)' = HeldCall(x)
      /\ DueSent(c)' <=> \E i \in DOMAIN up'[c] : IsCall(up'[c][i])
      /\ ~DueQueued'
  BY <1>1 DEF HoldsCall, HeldCall, IsCall, NoReply, DueSent, DueQueued
<1>5. \A n \in Elems(queued) : IsCall(n) => n = op.n
  BY DEF FramesInv
<1>6. CASE NoReply(op.n)
  <2>1. ~DueQueued /\ ~DueSent(c) /\ ~DueHeld(c) /\ ~DueKept(c) /\ ~DueBack(c)
    BY <1>6, NothingDue
  <2>2. \A i \in DOMAIN up'[c] : ~IsCall(up'[c][i])
    BY <1>3, <2>1 DEF DueSent, DueQueued
  <2>3. \A i \in DOMAIN up'[c] : issued'[up'[c][i]].kind = "async"
    BY <1>1, <2>2 DEF IsCall, NoReply
  <2>4. QED
    BY <1>1, <1>4, <2>1, <2>3, OnlineIdle DEF OnlineInv, OnlinePcs, DueKept, DueBack, DueHeld
<1>7. CASE ~NoReply(op.n)
  <2>1. op'.n = op.n
    BY <1>7 DEF Flush, At, TypeOK, ClientTypeOK, OpRec
  <2>2. CASE DueQueued
    <3>1. ~DueSent(c) /\ ~DueHeld(c) /\ ~DueKept(c) /\ ~DueBack(c)
      BY <2>2 DEF OnlineInv
    <3>2. DOMAIN down'[c] = {}
      BY <1>1, <3>1 DEF DueBack
    <3>3. ASSUME NEW i \in DOMAIN up'[c], IsCall(up'[c][i])
          PROVE  /\ i \in Nat /\ i - Len(up[c]) \in DOMAIN queued
                 /\ up'[c][i] = queued[i - Len(up[c])]
      BY <1>3, <3>1, <3>3 DEF DueSent
    <3>4. ASSUME NEW i \in DOMAIN up'[c], IsCall(up'[c][i])
          PROVE  up'[c][i] = op.n
      BY <1>5, <3>3, <3>4 DEF Elems
    <3>5. ASSUME NEW i \in DOMAIN up'[c], IsCall(up'[c][i]), NEW j \in DOMAIN up'[c],
                 up'[c][j] = op.n
          PROVE  i = j
      <4>1. IsCall(up'[c][j]) /\ up'[c][i] = op.n
        BY <1>7, <3>4, <3>5 DEF IsCall
      <4>2. PICK n : n = Len(up[c])
        OBVIOUS
      <4>3. /\ i \in Nat /\ i - n \in DOMAIN queued /\ queued[i - n] = op.n
            /\ j \in Nat /\ j - n \in DOMAIN queued /\ queued[j - n] = op.n
        BY <3>3, <3>5, <4>1, <4>2
      <4>4. i - n = j - n
        BY <4>3, FramesMade, OnceInOrder DEF FramesInv
      <4>5. n \in Nat
        BY <1>2, <4>2, LenProperties
      <4>6. QED
        BY <4>3, <4>4, <4>5
    <3>6. acc'[c].pc \in OnlinePcs \ {"resend"}
      BY <1>1, <3>1 DEF OnlineInv, OnlinePcs, DueKept
    <3>7. ~DueQueued' /\ ~DueHeld(c)' /\ ~DueBack(c)'
      BY <1>1, <1>4, <3>1 DEF DueHeld, DueBack
    <3>8. \A x \in Sessions : ~HoldsCall(x, c)'
      BY <1>4, <3>1 DEF DueHeld
    <3>9. QED
      BY <1>1, <2>1, <3>2, <3>4, <3>5, <3>6, <3>7, <3>8, OnlineSettled
  <2>3. CASE ~DueQueued
    <3>1. \A i \in DOMAIN up'[c] :
            /\ i \in Nat
            /\ IsCall(up'[c][i]) => i + 0 \in DOMAIN up[c] /\ up'[c][i] = up[c][i + 0]
      <4>1. \A i \in DOMAIN up'[c] : i \in Nat
        BY <1>2, LenProperties
      <4>2. ASSUME NEW i \in DOMAIN up'[c], IsCall(up'[c][i])
            PROVE  i \in DOMAIN up[c] /\ up'[c][i] = up[c][i]
        BY <1>3, <2>3, <4>2 DEF DueQueued
      <4>3. QED
        BY <4>1, <4>2
    <3>2. acc'[c].pc \in OnlinePcs /\ acc'[c] = acc[c] /\ down'[c] = down[c]
      BY <1>1 DEF OnlineInv, OnlinePcs
    <3>3. QED
      BY <1>1, <1>4, <2>1, <3>1, <3>2, OnlineShrinks
  <2>4. QED
    BY <2>2, <2>3
<1>8. QED
  BY <1>6, <1>7

(* The reply the client waits for was read: it was the only one.           *)
LEMMA OnlineRecvReply ==
  ASSUME TypeOK, KeptInv, NEW c \in Conns, OnlineInv(c), c = fd, RecvReply, fd' = fd
  PROVE  OnlineInv(c)'
<1>1. /\ UNCHANGED <<acc, sess, up, issued>>
      /\ down[c] # <<>> /\ down' = [down EXCEPT ![c] = Tail(down[c])]
  BY DEF RecvReply, serverVars
<1>2. down[c] \in Seq(Message) /\ down'[c] = Tail(down[c])
  BY <1>1 DEF TypeOK, NetTypeOK
<1>3. Tail(down[c]) = <<>>
  <2>1. Tail(down[c]) \in Seq(Message)
        /\ \A i \in DOMAIN Tail(down[c]) : i \in Nat /\ i >= 1 /\ i + 1 \in DOMAIN down[c]
    BY <1>1, <1>2, TailParts
  <2>2. \A i \in DOMAIN Tail(down[c]) : FALSE
    BY <2>1 DEF OnlineInv
  <2>3. Tail(down[c]) # <<>> => 1 \in DOMAIN Tail(down[c])
    BY <2>1, TailParts
  <2>4. QED
    BY <2>2, <2>3
<1>4. ~DueSent(c) /\ ~DueHeld(c) /\ ~DueKept(c)
  BY <1>1 DEF OnlineInv, DueBack
<1>5. \A i \in DOMAIN up'[c] : issued'[up'[c][i]].kind = "async"
  BY <1>1, <1>4 DEF DueSent, IsCall, NoReply
<1>6. \A x \in Sessions : ~HoldsCall(x, c)'
  BY <1>1, <1>4 DEF DueHeld, HoldsCall, IsCall, NoReply
<1>7. acc'[c].pc \in OnlinePcs \ {"resend"}
  BY <1>1, <1>4 DEF OnlineInv, OnlinePcs, DueKept
<1>8. down'[c] = <<>>
  BY <1>2, <1>3
<1>9. QED
  BY <1>5, <1>6, <1>7, <1>8, OnlineIdle

(* The answer to a handshake was read: what is left is the reply to the    *)
(* call under way, or nothing; a reply that is still kept is that one.     *)
LEMMA HelloAnswered ==
  ASSUME TypeOK, KeptInv, AheadInv, NEW c \in Conns, HelloInv(c), down[c] # <<>>,
         UNCHANGED <<acc, sess, issued>>, down' = [down EXCEPT ![c] = Tail(down[c])]
  PROVE  /\ acc'[c].pc \in OnlinePcs
         /\ \A x \in Sessions : ~HoldsCall(x, c)'
         /\ \A i \in DOMAIN down'[c] :
              /\ i = 1 /\ down'[c][i].type = "rsp" /\ down'[c][i].n = op.n
              /\ op.n # 0 /\ IsCall(op.n) /\ op.n <= Head(down[c]).n
         /\ down'[c] # <<>> => 1 \in DOMAIN down'[c]
         /\ acc'[c].pc = "resend" =>
              /\ down'[c] = <<>> /\ acc'[c].kept.n = op.n /\ op.n # 0
              /\ op.n <= Head(down[c]).n
<1>1. PICK f \in Seq(Message) : f = down[c]
  BY DEF TypeOK, NetTypeOK
<1>2. down'[c] = Tail(f) /\ f # <<>>
  BY <1>1 DEF TypeOK, NetTypeOK
<1>3. /\ Tail(f) \in Seq(Message) /\ Len(Tail(f)) = Len(f) - 1
      /\ 1 \in DOMAIN f /\ Head(f) = f[1]
      /\ \A i \in DOMAIN Tail(f) : i \in Nat /\ i >= 1 /\ i + 1 \in DOMAIN f /\ Tail(f)[i] = f[i + 1]
  BY <1>2, TailParts
<1>4. acc'[c].pc \in OnlinePcs
  <2>1. acc[c].pc \in HandshakePcs
    BY DEF TypeOK, ServerTypeOK, AcceptRec
  <2>2. QED
    BY <2>1 DEF HelloInv, OnlinePcs, HandshakePcs
<1>5. \A x \in Sessions : ~HoldsCall(x, c)'
  BY DEF HelloInv, HoldsCall
<1>6. ASSUME NEW i \in DOMAIN Tail(f)
      PROVE  /\ i = 1 /\ Tail(f)[i].type = "rsp" /\ Tail(f)[i].n = op.n
             /\ op.n # 0 /\ IsCall(op.n) /\ op.n <= f[1].n
  <2>1. i \in Nat /\ i >= 1 /\ i + 1 \in DOMAIN down[c] /\ Tail(f)[i] = down[c][i + 1]
    BY <1>1, <1>3
  <2>2. i + 1 <= 2
    BY <2>1 DEF HelloInv
  <2>3. i = 1 /\ i + 1 = 2
    BY <2>1, <2>2
  <2>4. QED
    BY <1>1, <2>1, <2>3 DEF HelloInv
<1>7. Tail(f) # <<>> => 1 \in DOMAIN Tail(f)
  BY <1>3, TailParts
<1>8. ASSUME acc[c].pc = "resend"
      PROVE  Tail(f) = <<>> /\ acc[c].kept.n = op.n /\ op.n # 0 /\ op.n <= f[1].n
  <2>1. acc[c].kept.n = op.n /\ op.n # 0 /\ op.n <= acc[c].snap
    BY <1>8, KeptIsDue DEF HelloInv
  <2>2. f[1].n = acc[c].snap
    BY <1>1, <1>3, <1>8 DEF HelloInv
  <2>3. Len(f) <= 1
    BY <1>1, <1>8 DEF HelloInv
  <2>4. Len(f) \in Nat /\ Len(Tail(f)) \in Nat
    BY <1>3, LenProperties
  <2>5. Len(Tail(f)) = 0
    BY <1>3, <2>3, <2>4
  <2>6. Tail(f) = <<>>
    BY <1>3, <2>5, EmptySeq
  <2>7. QED
    BY <2>1, <2>2, <2>6
<1>9. QED
  BY <1>1, <1>2, <1>3, <1>4, <1>5, <1>6, <1>7, <1>8

(* A session was started, and the call that wanted it is not made yet.     *)
LEMMA OnlineStarted ==
  ASSUME TypeOK, SessionsInv, KeptInv, AheadInv, NEW c \in Conns, c = dialed, HelloInv(c),
         HelloStarted
  PROVE  OnlineInv(c)'
<1>1. /\ UNCHANGED <<acc, sess, up, issued>> /\ op.n = 0
      /\ down[c] # <<>> /\ down' = [down EXCEPT ![c] = Tail(down[c])]
  BY DEF HelloStarted, ReadHello, serverVars, SessionsInv
<1>2. /\ acc'[c].pc \in OnlinePcs \ {"resend"} /\ down'[c] = <<>>
      /\ \A x \in Sessions : ~HoldsCall(x, c)'
  BY <1>1, HelloAnswered
<1>3. up'[c] = <<>>
  BY <1>1 DEF HelloInv
<1>4. QED
  BY <1>2, <1>3, OnlineIdle

(* The session was resumed: the call under way is replayed, unless the     *)
(* answer says that it is done, and then its reply is resent.              *)
LEMMA OnlineResumed ==
  ASSUME TypeOK, FramesInv, KeptInv, AheadInv, NEW c \in Conns, c = dialed, HelloInv(c),
         HelloResumed, Connected
  PROVE  OnlineInv(c)'
<1>1. PICK done : done = Head(down[c]).n
  OBVIOUS
<1>2. PICK rest : rest = ForgetAcked(unacked, done)
  OBVIOUS
<1>3. /\ UNCHANGED <<acc, sess, issued>> /\ queued' = <<>>
      /\ down[c] # <<>> /\ down' = [down EXCEPT ![c] = Tail(down[c])]
      /\ WriteSucceeds(c, rest) \/ AttemptFailed
  BY <1>1, <1>2 DEF HelloResumed, ReadHello, serverVars
<1>4. op'.n = op.n /\ op'.pc \in {"queue", "flush"} /\ ~AttemptFailed
  BY OpSteps
<1>5. /\ acc'[c].pc \in OnlinePcs
      /\ \A x \in Sessions : ~HoldsCall(x, c)'
      /\ \A i \in DOMAIN down'[c] :
           /\ i = 1 /\ down'[c][i].type = "rsp" /\ down'[c][i].n = op.n
           /\ op.n # 0 /\ IsCall(op.n) /\ op.n <= done
      /\ down'[c] # <<>> => 1 \in DOMAIN down'[c]
      /\ acc'[c].pc = "resend" =>
           down'[c] = <<>> /\ acc'[c].kept.n = op.n /\ op.n # 0 /\ op.n <= done
  BY <1>1, <1>3, HelloAnswered
<1>6. done \in 0 .. MaxReq
  <2>1. Head(down[c]) \in Message
    BY <1>3, HeadTailProperties DEF TypeOK, NetTypeOK
  <2>2. QED
    BY <1>1, <2>1 DEF Message
<1>7. /\ rest \in Seq(Reqs) /\ InOrder(rest)
      /\ \A n \in Elems(rest) : n \in Elems(unacked) /\ n > done
  BY <1>2, <1>6, FramesMade, ForgetAckedParts DEF FramesInv
<1>8. up'[c] \in {rest, <<>>}
  <2>1. up[c] = <<>> /\ WriteSucceeds(c, rest)
    BY <1>3, <1>4 DEF HelloInv
  <2>2. <<>> \o rest = rest
    BY <1>7, ConcatEmptySeq
  <2>3. QED
    BY <2>1, <2>2 DEF WriteSucceeds, TypeOK, NetTypeOK
<1>9. ASSUME NEW i \in DOMAIN up'[c]
      PROVE  up'[c] = rest /\ i \in DOMAIN rest /\ rest[i] \in Elems(unacked) /\ rest[i] > done
  <2>1. up'[c] = rest
    BY <1>8, <1>9
  <2>2. rest[i] \in Elems(rest)
    BY <1>9, <2>1 DEF Elems
  <2>3. QED
    BY <1>7, <1>9, <2>1, <2>2
<1>10. \A i \in DOMAIN up'[c] : IsCall(up'[c][i]) => up'[c][i] = op.n /\ op.n > done
  BY <1>9 DEF FramesInv
<1>11. ASSUME NEW i \in DOMAIN up'[c], NEW j \in DOMAIN up'[c],
              up'[c][i] = op.n, up'[c][j] = op.n
       PROVE  i = j
  BY <1>7, <1>9, <1>11, OnceInOrder
<1>12. op.n <= done => ~DueSent(c)'
  <2>1. op.n \in Nat /\ done \in Nat
    BY <1>6, FramesMade, Bounds
  <2>2. QED
    BY <1>3, <1>10, <2>1 DEF DueSent, IsCall, NoReply
<1>13. ~DueQueued' /\ ~DueHeld(c)'
  BY <1>3, <1>5 DEF DueQueued, DueHeld
<1>14. down'[c] # <<>> => op.n <= done
  BY <1>5
<1>15. CASE acc'[c].pc = "resend"
  <2>1. ~DueSent(c)' /\ ~DueBack(c)' /\ DOMAIN down'[c] = {}
    BY <1>5, <1>12, <1>15 DEF DueBack
  <2>2. \A i \in DOMAIN up'[c] : ~IsCall(up'[c][i])
    BY <1>3, <2>1 DEF DueSent, IsCall, NoReply
  <2>3. acc'[c].kept.n = op'.n
    BY <1>4, <1>5, <1>15
  <2>4. QED
    BY <1>3, <1>5, <1>13, <1>15, <2>1, <2>2, <2>3 DEF OnlineInv, IsCall, NoReply
<1>16. CASE acc'[c].pc # "resend"
  <2>1. ~DueSent(c)' \/ ~DueBack(c)'
    BY <1>12, <1>14 DEF DueBack
  <2>2. \A i \in DOMAIN up'[c] : IsCall(up'[c][i]) =>
          up'[c][i] = op.n /\ \A j \in DOMAIN up'[c] : up'[c][j] = op.n => i = j
    BY <1>10, <1>11
  <2>3. QED
    BY <1>3, <1>4, <1>5, <1>13, <1>16, <2>1, <2>2, OnlineSettled
<1>17. QED
  BY <1>15, <1>16

(* Opening a connection.                                                   *)
LEMMA HelloDial ==
  ASSUME TypeOK, AheadInv, NEW c \in Conns, Dial, c = dialed'
  PROVE  HelloInv(c)'
<1>1. /\ dialed \in Nat /\ c = dialed + 1 /\ c > dialed
      /\ UNCHANGED <<up, down, sess, last_reply>>
      /\ acc' = [acc EXCEPT ![c] = [NoHandshake EXCEPT !.pc = "hello", !.last = last_reply,
                                                       !.resuming = had_session]]
  BY Bounds DEF Dial, TypeOK, NetTypeOK
<1>2. acc'[c].pc = "hello" /\ acc'[c].last = last_reply
  BY <1>1 DEF NoHandshake, TypeOK, ServerTypeOK
<1>3. up'[c] = <<>> /\ down'[c] = <<>> /\ DOMAIN down'[c] = {}
  BY <1>1 DEF AheadInv
<1>4. ASSUME NEW s \in Sessions PROVE sess'[s].fd # c
  <2>1. sess[s].fd <= dialed /\ sess[s].fd \in Nat
    BY Bounds DEF AheadInv, TypeOK, ServerTypeOK, SessionRec
  <2>2. QED
    BY <1>1, <2>1
<1>5. QED
  BY <1>1, <1>2, <1>3, <1>4 DEF HelloInv

(* The client comes to have a connection by a handshake only, and leaves   *)
(* the one in use alone but for writing its queue and reading its reply.   *)
LEMMA OnlineClient ==
  ASSUME TypeOK, TypeOK', SessionsInv, FramesInv, RepliesInv, Client, NEW c \in Conns, c = fd'
  PROVE  OnlineInv(c)'
<1>1. c # None /\ KeptInv /\ AheadInv
      /\ (c = fd => OnlineInv(c)) /\ (op.pc = "hello" /\ c = dialed => HelloInv(c))
  BY Bounds DEF RepliesInv, None, Conns
<1>2. op.pc \in {"connect", "hello"} => fd = None
  BY DEF SessionsInv
<1>3. CASE fd' = None
  BY <1>1, <1>3
<1>4. CASE StartConnecting \/ Dial \/ Refused \/ HelloUnanswered \/ HelloBusy
  <2>1. fd' = fd /\ fd = None
    BY <1>2, <1>4 DEF StartConnecting, MayConnect, Dial, Refused, HelloUnanswered, HelloBusy,
         ReadHello
  <2>2. QED
    BY <1>3, <2>1
<1>5. CASE GiveUp \/ FlushFails \/ RecvFails
  BY <1>3, <1>5 DEF GiveUp, FlushFails, RecvFails, CallBroke, Abandon
<1>6. CASE HelloGone
  BY <1>2, <1>3, <1>6 DEF HelloGone, ReadHello, Abandon
<1>7. ASSUME NEW t \in Threads, NEW k \in Kinds, QueueFrame(t, k) PROVE OnlineInv(c)'
  <2>1. fd' = fd
    BY <1>7 DEF QueueFrame
  <2>2. QED
    BY <1>1, <1>7, <2>1, OnlineQueueFrame
<1>8. CASE Flush
  <2>1. fd' = fd
    BY <1>8 DEF Flush
  <2>2. QED
    BY <1>1, <1>8, <2>1, OnlineFlush
<1>9. CASE RecvReply
  <2>1. fd' = fd \/ fd' = None
    BY <1>9 DEF RecvReply, Abandon
  <2>2. QED
    BY <1>1, <1>3, <1>9, <2>1, OnlineRecvReply
<1>10. CASE HelloStarted
  <2>1. fd' = dialed /\ op.pc = "hello"
    BY <1>10 DEF HelloStarted, ReadHello
  <2>2. QED
    BY <1>1, <1>10, <2>1, OnlineStarted
<1>11. CASE HelloResumed
  <2>1. op.pc = "hello" /\ ((fd' = dialed /\ Connected) \/ fd' = fd)
    BY <1>11 DEF HelloResumed, ReadHello
  <2>2. QED
    BY <1>1, <1>2, <1>3, <1>11, <2>1, OnlineResumed
<1>12. QED
  BY <1>4, <1>5, <1>6, <1>7, <1>8, <1>9, <1>10, <1>11 DEF Client

(* A handshake begins when a connection is opened.                         *)
LEMMA HelloClient ==
  ASSUME TypeOK, RepliesInv, Client, NEW c \in Conns, op'.pc = "hello", c = dialed'
  PROVE  HelloInv(c)'
<1>1. Dial
  <2>1. op \in OpRec
    BY DEF TypeOK, ClientTypeOK
  <2>2. AttemptFailed \/ Connected \/ CallBroke \/ (\E frames : Abandon(frames)) =>
          op'.pc # "hello"
    BY OpSteps
  <2>3. StartConnecting \/ Flush => op'.pc # "hello"
    BY <2>1 DEF StartConnecting, Flush, Idle, At, OpRec
  <2>4. \A t \in Threads, k \in Kinds : QueueFrame(t, k) => op'.pc # "hello"
    BY DEF QueueFrame, Idle
  <2>5. Idle.pc # "hello"
    BY DEF Idle
  <2>6. QED
    BY <2>2, <2>3, <2>4, <2>5 DEF Client, Refused, GiveUp, HelloUnanswered, HelloBusy,
         HelloGone, HelloStarted, HelloResumed, FlushFails, RecvReply, RecvFails
<1>2. QED
  BY <1>1, HelloDial DEF RepliesInv

(* Every step keeps RepliesInv.                                            *)
LEMMA RepliesStep ==
  ASSUME TypeOK, TypeOK', OrderInv, SessionsInv, GoneInv, FramesInv, RepliesInv, [Next]_vars
  PROVE  RepliesInv'
<1>1. KeptInv' /\ AheadInv'
  BY KeptStep, AheadStep DEF RepliesInv
<1>2. CASE Client
  BY <1>1, <1>2, OnlineClient, HelloClient DEF RepliesInv
<1>3. ASSUME NEW c \in Conns, UNCHANGED <<op, dialed, fd>>,
             HelloInv(c) => HelloInv(c)', OnlineInv(c) => OnlineInv(c)'
      PROVE  /\ op'.pc = "hello" /\ c = dialed' => HelloInv(c)'
             /\ c = fd' => OnlineInv(c)'
  BY <1>3 DEF RepliesInv
<1>4. CASE (\E d \in Conns : Break(d)) \/ Restart \/ UNCHANGED vars
  <2>1. UNCHANGED <<op, dialed, fd>>
    BY <1>4 DEF Break, Restart, vars, clientVars, netVars
  <2>2. \A c \in Conns : (HelloInv(c) => HelloInv(c)') /\ (OnlineInv(c) => OnlineInv(c)')
    BY <1>4, HelloOthers, OnlineOthers
  <2>3. QED
    BY <1>1, <1>3, <2>1, <2>2 DEF RepliesInv
<1>5. ASSUME NEW d \in Conns, Accept(d) PROVE RepliesInv'
  <2>1. UNCHANGED <<op, dialed, fd>>
    BY <1>5, AcceptMoves DEF clientVars
  <2>2. \A c \in Conns : (HelloInv(c) => HelloInv(c)') /\ (OnlineInv(c) => OnlineInv(c)')
    BY <1>5, HelloAccept, OnlineAccept DEF RepliesInv
  <2>3. QED
    BY <1>1, <1>3, <2>1, <2>2 DEF RepliesInv
<1>6. ASSUME NEW s \in Sessions, Serve(s) PROVE RepliesInv'
  <2>1. UNCHANGED <<op, dialed, fd>>
    BY <1>6, ServeMoves DEF GoneInv, clientVars
  <2>2. \A c \in Conns : (HelloInv(c) => HelloInv(c)') /\ (OnlineInv(c) => OnlineInv(c)')
    BY <1>6, HelloServe, OnlineServe DEF RepliesInv
  <2>3. QED
    BY <1>1, <1>3, <2>1, <2>2 DEF RepliesInv
<1>7. QED
  BY <1>2, <1>4, <1>5, <1>6 DEF Next

(* A reply to the call under way comes from one place at most.             *)
THEOREM RepliesHold == Spec => []RepliesInv
<1>1. TypeOK /\ TypeOK' /\ OrderInv /\ SessionsInv /\ GoneInv /\ FramesInv /\ RepliesInv /\ [Next]_vars
        => RepliesInv'
  BY RepliesStep
<1>2. QED
  BY <1>1, RepliesInit, TypeCorrect, OrderInvariant, SessionsHold, GoneHolds, FramesHold, PTL
     DEF Spec

(* The client never reads a reply that is not for the call that waits: the *)
(* kept reply resent by the handshake and the answer to a copy never both  *)
(* arrive, and never for a call given up.                                  *)
THEOREM RepliesAlwaysMatch == Spec => []RepliesMatch
<1>1. TypeOK /\ RepliesInv => RepliesMatch
  <2> SUFFICES ASSUME TypeOK, RepliesInv, op.pc = "recv", down[fd] # <<>>
               PROVE  Head(down[fd]).type = "rsp" /\ Head(down[fd]).n = op.n
    BY DEF RepliesMatch
  <2>1. fd \in Conns
    BY Bounds DEF TypeOK, ClientTypeOK, None, Conns
  <2>2. OnlineInv(fd)
    BY <2>1 DEF RepliesInv
  <2>3. down[fd] \in Seq(Message)
    BY <2>1 DEF TypeOK, NetTypeOK
  <2>4. 1 \in DOMAIN down[fd] /\ Head(down[fd]) = down[fd][1]
    BY <2>3, TailParts
  <2>5. QED
    BY <2>2, <2>4 DEF OnlineInv
<1>2. QED
  BY <1>1, RepliesHold, TypeCorrect, PTL
=============================================================================
