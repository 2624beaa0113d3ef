--------------------------- MODULE OpStreamProofs ----------------------------
(***************************************************************************)
(* The op stream, for any number of messages, connections and sessions:    *)
(* its types; that a session applies each message at most once and in      *)
(* order; that a session that is served is not left to the reaper; that    *)
(* the client is told its session is lost only when it is; that the        *)
(* failure it is told is the first since its last wait; that nothing it    *)
(* made is skipped; and that while it waits on a connection that is        *)
(* served its answer is coming.                                            *)
(***************************************************************************)
EXTENDS OpStream, SequenceTheorems, FiniteSetTheorems, WellFoundedInduction, TLAPS

(* The bounds are natural numbers.                                         *)
LEMMA Bounds == MaxSeq \in Nat /\ MaxConns \in Nat /\ MaxSessions \in Nat
  BY OpStreamAssumption

(* The parts of the type invariant.                                        *)
ClientTyped ==
  /\ cl \in ClientRec /\ op \in OpRec
  /\ issued \in Seq(Kinds \union {"ack"}) /\ Len(issued) = cl.seq
  /\ op.pc = "await" => cl.sock # None
  /\ cl.recovering => cl.had
NetTyped ==
  /\ dialed \in 0 .. MaxConns
  /\ link \in [Conns -> {"none", "open", "cut", "closed"}]
  /\ up \in [Conns -> Seq(Seq(Msgs))] /\ down \in [Conns -> Seq(ReplyRec)]
SessionRec == [last_seq : 0 .. MaxSeq, reply : ReplyRec, err : 0 .. MaxSeq, gen : 0 .. MaxConns]
ServerTyped ==
  /\ made \in 0 .. MaxSessions
  /\ th \in [Conns -> ThreadRec]
  /\ reg \in [s : 0 .. MaxSessions, gen : 0 .. MaxConns, detached : BOOLEAN]
  /\ sess \in [Sessions -> SessionRec]
  /\ ran \in [Sessions -> Seq(Msgs)]
HistoryTyped ==
  /\ told \in [Msgs -> ReplyRec]
  /\ past \in [gave_up : BOOLEAN, lost : BOOLEAN, removed : BOOLEAN, overflowed : BOOLEAN]

(* TypeOK is its four parts.                                               *)
LEMMA TypeParts == TypeOK <=> ClientTyped /\ NetTyped /\ ServerTyped /\ HistoryTyped
  BY DEF TypeOK, ClientTyped, NetTyped, ServerTyped, HistoryTyped, SessionRec

(* A thread that has a session.                                            *)
Active(c) == th[c].pc \in {"attached", "serving"}

(* Who serves has a session; what was not dialed has no thread; each       *)
(* attach is of another connection, so that no generation is past their    *)
(* number.                                                                 *)
Met == {c \in Conns : th[c].pc \notin {"none", "accepted"}}
CountInv ==
  /\ \A c \in Conns : Active(c) => th[c].s \in 1 .. made
  /\ \A c \in Conns : c > dialed => th[c] = NoThread
  /\ reg.s \in {None, made}
  /\ reg.s # None => reg.gen < Cardinality(Met)

(* Where the client is says what it has: no socket while it dials, a       *)
(* session it had when it recovers or has a socket, and room for the       *)
(* message that is to follow an acknowledgement.                           *)
PlaceInv ==
  /\ op.pc \in {"hello", "dial", "retry", "rehello"} => cl.sock = None
  /\ op.pc \in {"hello", "rehello"} => dialed # 0
  /\ op.pc = "idle" => op = Idle
  /\ op.pc \in {"dial", "retry", "rehello"} => cl.had
  /\ cl.sock # None => cl.had
  /\ cl.sock <= dialed
  /\ op.then # "none" => cl.seq + 1 <= MaxSeq

(* The front of a sequence that is dropped, and what is left.              *)
LEMMA RestIsSuffix ==
  ASSUME NEW S, NEW q \in Seq(S), S \subseteq Nat, NEW n \in Nat
  PROVE  \/ /\ Rest(q, n) = <<>>
            /\ \A i \in DOMAIN q : q[i] <= n
         \/ \E first \in DOMAIN q :
              /\ Rest(q, n) = SubSeq(q, first, Len(q))
              /\ q[first] > n
              /\ \A i \in DOMAIN q : i < first => q[i] <= n
<1> DEFINE later == {i \in DOMAIN q : q[i] > n}
           first == Min(later)
<1>1. DOMAIN q = 1 .. Len(q) /\ Len(q) \in Nat /\ \A i \in DOMAIN q : q[i] \in Nat
  BY LenProperties, ElementOfSeq
<1>2. CASE later = {}
  BY <1>1, <1>2 DEF Rest
<1>3. CASE later # {}
  <2>1. \E i \in later : \A j \in later : i <= j
    <3>1. later \subseteq Nat
      BY <1>1
    <3>2. PICK i \in later : \A j \in later : <<j, i>> \notin OpToRel(<, Nat)
      BY <3>1, <1>3, NatLessThanWellFounded, WFMin
    <3>3. ASSUME NEW j \in later PROVE i <= j
      <4>1. i \in Nat /\ j \in Nat
        BY <3>1
      <4>2. <<j, i>> \notin {ss \in Nat \X Nat : ss[1] < ss[2]}
        BY <3>2 DEF OpToRel
      <4>3. QED
        BY <4>1, <4>2
    <3> HIDE DEF later
    <3>4. QED
      BY <3>3
  <2>2. first \in later /\ \A j \in later : first <= j
    BY <2>1 DEF Min
  <2>3. Rest(q, n) = SubSeq(q, first, Len(q))
    BY <1>3 DEF Rest
  <2> HIDE DEF first
  <2>4. \A i \in DOMAIN q : i < first => q[i] <= n
    BY <1>1, <2>2
  <2>5. QED
    BY <2>2, <2>3, <2>4
<1>4. QED
  BY <1>2, <1>3

(* What the popleft loop of _reconnect leaves is a sequence of messages.   *)
LEMMA RestTyped ==
  ASSUME NEW S, NEW q \in Seq(S), S \subseteq Nat, NEW n \in Nat
  PROVE  Rest(q, n) \in Seq(S)
<1>1. Len(q) \in Nat /\ DOMAIN q = 1 .. Len(q) /\ \A i \in DOMAIN q : q[i] \in S
  BY LenProperties, ElementOfSeq
<1>2. CASE Rest(q, n) = <<>>
  BY <1>2
<1>3. CASE \E first \in DOMAIN q : Rest(q, n) = SubSeq(q, first, Len(q))
  BY <1>1, <1>3, SubSeqProperties
<1>4. QED
  BY <1>2, <1>3, RestIsSuffix

(* A prefix of a sequence.                                                 *)
LEMMA PrefixTyped ==
  ASSUME NEW S, NEW q \in Seq(S), NEW i \in 0 .. Len(q)
  PROVE  SubSeq(q, 1, i) \in Seq(S)
  BY LenProperties, ElementOfSeq, SubSeqProperties

(* What the server answers has the type of an answer.                      *)
LEMMA Replies ==
  /\ \A r \in BOOLEAN, n \in 0 .. MaxSeq : Hello(r, n) \in ReplyRec
  /\ \A n, e \in 0 .. MaxSeq : Reply(n, e) \in ReplyRec
  /\ NoReply \in ReplyRec
  BY Bounds DEF Hello, Reply, NoReply, ReplyRec, None

(* A thread that has just been accepted, or is over, has the type of a     *)
(* thread.                                                                 *)
LEMMA NoThreadTyped ==
  /\ NoThread \in ThreadRec /\ [NoThread EXCEPT !.pc = "ended"] \in ThreadRec
  /\ \A n \in 0 .. MaxSeq : [NoThread EXCEPT !.pc = "accepted", !.acked = n] \in ThreadRec
<1>1. 0 \in 0 .. MaxSeq /\ 0 \in 0 .. MaxConns /\ 0 \in 0 .. MaxSessions /\ <<>> \in Seq(Msgs)
  BY Bounds
<1>2. QED
  BY <1>1 DEF NoThread, ThreadRec, None

(* A client that is in no call waits for nothing.                          *)
LEMMA IdleTyped == Idle \in OpRec /\ Idle.wait = None /\ Idle.pc = "idle" /\ Idle.then = "none"
  BY Bounds DEF Idle, OpRec, None

(* A session as Registry.attach makes it has the type of a session.        *)
LEMMA NewSessionTyped == NewSession \in SessionRec
<1>1. 0 \in 0 .. MaxSeq /\ 0 \in 0 .. MaxConns
  BY Bounds
<1>2. QED
  BY <1>1, Replies DEF NewSession, SessionRec, None

(* Every variable starts with a value of its type.                         *)
LEMMA TypeInit == Init => TypeOK /\ CountInv /\ PlaceInv
<1> SUFFICES ASSUME Init PROVE TypeOK /\ CountInv /\ PlaceInv
  OBVIOUS
<1>1. ClientTyped
  BY Bounds, IdleTyped DEF Init, ClientTyped, ClientRec, None
<1>2. NetTyped
  BY Bounds DEF Init, NetTyped
<1>3. ServerTyped
  <2>1. 0 \in 0 .. MaxConns /\ 0 \in 0 .. MaxSessions /\ <<>> \in Seq(Msgs)
    BY Bounds
  <2>2. th = [c \in Conns |-> NoThread] /\ sess = [s \in Sessions |-> NewSession]
        /\ reg = [s |-> None, gen |-> 0, detached |-> FALSE] /\ made = 0
        /\ ran = [s \in Sessions |-> <<>>]
    BY DEF Init
  <2>3. QED
    BY <2>1, <2>2, NewSessionTyped, NoThreadTyped DEF ServerTyped, None
<1>4. HistoryTyped
  BY Replies DEF Init, HistoryTyped, NoReply
<1>5. CountInv
  BY DEF Init, CountInv, Active, NoThread
<1>6. PlaceInv
  BY IdleTyped DEF Init, PlaceInv, None
<1>7. QED
  BY <1>1, <1>2, <1>3, <1>4, <1>5, <1>6, TypeParts

-----------------------------------------------------------------------------
(* What the client's operators do to its record.                           *)

(* A message more: the replay buffer takes it, or overflows.               *)
Longer(q, now) ==
  /\ now \in ClientRec
  /\ now.seq = q.seq + 1
  /\ now.pending = Append(q.pending, q.seq + 1)
  /\ \/ now.replay = q.replay
        /\ now.unacked = IF q.replay THEN Append(q.unacked, q.seq + 1) ELSE q.unacked
     \/ now.replay = FALSE /\ now.unacked = <<>>
  /\ now.last_acked = q.last_acked /\ now.had = q.had /\ now.sock = q.sock
  /\ now.recovering = q.recovering

(* _append makes the record one message longer.                            *)
LEMMA QueuedEffect ==
  ASSUME NEW q \in ClientRec, NEW kinds, q.seq + 1 <= MaxSeq
  PROVE  Longer(q, Queued(q, kinds))
<1> DEFINE n == q.seq + 1
           kept == IF q.replay THEN Append(q.unacked, n) ELSE q.unacked
           over == Bytes(kept, kinds) > MaxUnacked
<1>1. n \in Msgs /\ n \in 0 .. MaxSeq /\ q.pending \in Seq(Msgs) /\ q.unacked \in Seq(Msgs)
      /\ q.replay \in BOOLEAN
  BY Bounds DEF ClientRec, Msgs
<1>2. kept \in Seq(Msgs) /\ Append(q.pending, n) \in Seq(Msgs)
  BY <1>1
<1>3. Queued(q, kinds) =
        [q EXCEPT !.seq = n, !.pending = Append(@, n),
                  !.unacked = IF over THEN <<>> ELSE kept, !.replay = @ /\ ~over]
  BY DEF Queued
<1> HIDE DEF n, over
<1>4. CASE over
  <2>1. Queued(q, kinds) = [q EXCEPT !.seq = n, !.pending = Append(@, n), !.unacked = <<>>, !.replay = FALSE]
    BY <1>1, <1>3, <1>4
  <2>2. <<>> \in Seq(Msgs)
    OBVIOUS
  <2> HIDE DEF kept
  <2>3. QED
    BY <1>1, <1>2, <2>1, <2>2 DEF ClientRec, n, Longer
<1>5. CASE ~over
  <2>1. Queued(q, kinds) = [q EXCEPT !.seq = n, !.pending = Append(@, n), !.unacked = kept, !.replay = @]
    BY <1>1, <1>3, <1>5 DEF ClientRec
  <2>2. kept = IF q.replay THEN Append(q.unacked, n) ELSE q.unacked
    OBVIOUS
  <2> HIDE DEF kept
  <2>3. QED
    BY <1>1, <1>2, <2>1, <2>2 DEF ClientRec, n, Longer
<1>6. QED
  BY <1>4, <1>5

(* What is at or before n is dropped from the replay buffer.               *)
Shorter(q, now, n) ==
  /\ now \in ClientRec
  /\ now.unacked = Rest(q.unacked, n)
  /\ now.replay = (q.replay \/ now.unacked = <<>>)
  /\ now.seq = q.seq /\ now.pending = q.pending
  /\ now.had = q.had /\ now.sock = q.sock

(* _reconnect shortens the replay buffer and changes nothing else.         *)
LEMMA DroppedEffect ==
  ASSUME NEW q \in ClientRec, NEW n \in Nat
  PROVE  /\ Shorter(q, Dropped(q, n), n)
         /\ Dropped(q, n).last_acked = q.last_acked /\ Dropped(q, n).recovering = q.recovering
<1>1. q.unacked \in Seq(Msgs) /\ Msgs \subseteq Nat
  BY Bounds DEF ClientRec, Msgs
<1>2. Rest(q.unacked, n) \in Seq(Msgs)
  BY <1>1, RestTyped
<1>3. QED
  BY <1>2 DEF Dropped, ClientRec, Shorter

(* So does _ack, which also notes what is acknowledged.                    *)
LEMMA AcknowledgedEffect ==
  ASSUME NEW q \in ClientRec, NEW n \in 0 .. MaxSeq
  PROVE  /\ Shorter(q, Acknowledged(q, n), n)
         /\ Acknowledged(q, n).last_acked = n /\ ~Acknowledged(q, n).recovering
<1> DEFINE D == Dropped(q, n)
<1>1. n \in Nat
  BY Bounds
<1> HIDE DEF D
<1>2. Shorter(q, D, n)
  BY <1>1, DroppedEffect DEF D
<1>3. Acknowledged(q, n) = [D EXCEPT !.last_acked = n, !.recovering = FALSE]
  BY DEF Acknowledged, D
<1>4. QED
  BY <1>2, <1>3 DEF ClientRec, Shorter

(* After a message is queued the client flushes, or its call is over.      *)
LEMMA ProceedTyped ==
  ASSUME NEW q \in ClientRec, NEW k
  PROVE  /\ Proceed(q, k) \in OpRec /\ Proceed(q, k).pc \in {"flush", "idle"}
         /\ Proceed(q, k).wait \in {None, q.seq}
         /\ Proceed(q, k).wait # None => Proceed(q, k).pc = "flush" /\ Waits(k)
         /\ Proceed(q, k).pc = "idle" => Proceed(q, k) = Idle
  BY IdleTyped, Bounds DEF Proceed, OpRec, ClientRec, None

(* What a message more does to the client, past and all.                   *)
LEMMA EnqueueEffect ==
  ASSUME ClientTyped, NEW q \in ClientRec, q.seq = cl.seq, cl.seq + 1 <= MaxSeq,
         NEW k \in Kinds \union {"ack"}, Enqueue(q, k)
  PROVE  /\ Longer(q, cl')
         /\ issued' \in Seq(Kinds \union {"ack"}) /\ Len(issued') = cl.seq + 1
         /\ issued'[cl.seq + 1] = k /\ \A n \in 1 .. cl.seq : issued'[n] = issued[n]
<1>1. cl' = Queued(q, Append(issued, k)) /\ issued' = Append(issued, k)
  BY DEF Enqueue
<1>2. issued \in Seq(Kinds \union {"ack"}) /\ Len(issued) = cl.seq
  BY DEF ClientTyped
<1>3. QED
  BY <1>1, <1>2, QueuedEffect, AppendProperties

(* The history notes when the replay limit was passed.                     *)
LEMMA OverflowTyped ==
  ASSUME HistoryTyped, NEW q, NEW k, Enqueue(q, k)
  PROVE  /\ past' \in [gave_up : BOOLEAN, lost : BOOLEAN, removed : BOOLEAN, overflowed : BOOLEAN]
         /\ past'.gave_up = past.gave_up /\ past'.lost = past.lost /\ past'.removed = past.removed
         /\ past'.overflowed = (past.overflowed \/ (q.replay /\ ~cl'.replay))
<1> DEFINE b == q.replay /\ ~cl'.replay
<1>1. past' = [past EXCEPT !.overflowed = @ \/ b] /\ b \in BOOLEAN
  BY DEF Enqueue
<1> HIDE DEF b
<1>2. QED
  BY <1>1 DEF HistoryTyped, b

-----------------------------------------------------------------------------
(* Type correctness.                                                       *)
LEMMA ClientSame == ASSUME ClientTyped, UNCHANGED clientVars PROVE ClientTyped'
  BY DEF ClientTyped, clientVars
(* The types of the network's variables, of a step that leaves them.       *)
LEMMA NetSame == ASSUME NetTyped, UNCHANGED netVars PROVE NetTyped'
  BY DEF NetTyped, netVars
(* The types of the server's variables, of a step that leaves them.        *)
LEMMA ServerSame == ASSUME ServerTyped, UNCHANGED serverVars PROVE ServerTyped'
  BY DEF ServerTyped, serverVars
(* The types of the history, of a step that leaves it.                     *)
LEMMA HistorySame == ASSUME HistoryTyped, UNCHANGED history PROVE HistoryTyped'
  BY DEF HistoryTyped, history
(* What is known of the threads' number, of a step that leaves them.       *)
LEMMA CountSame == ASSUME CountInv, UNCHANGED <<th, reg, made, dialed>> PROVE CountInv'
  BY DEF CountInv, Active, Met

(* A connection is dialed: its thread is not serving yet.                  *)
LEMMA DialTyped ==
  ASSUME ClientTyped, NetTyped, ServerTyped, CountInv, Dial, UNCHANGED <<up, down, made, reg, sess, ran>>
  PROVE  NetTyped' /\ ServerTyped' /\ dialed' \in Conns /\ dialed' = dialed + 1
<1>1. dialed' \in Conns /\ dialed' = dialed + 1 /\ dialed' \in 0 .. MaxConns
  BY Bounds DEF Dial, NetTyped, Conns
<1>2. NetTyped'
  BY <1>1 DEF Dial, NetTyped
<1>3. cl.last_acked \in 0 .. MaxSeq
  BY DEF ClientTyped, ClientRec
<1>4. th' \in [Conns -> ThreadRec]
  BY <1>3, NoThreadTyped DEF Dial, ServerTyped
<1>5. QED
  BY <1>1, <1>2, <1>4 DEF ServerTyped

(* A call that moves on waits for what it waited for.                      *)
LEMMA AtTyped ==
  ASSUME op \in OpRec, NEW pc \in {"idle", "flush", "hello", "dial", "retry", "rehello", "await"}, At(pc)
  PROVE  op' \in OpRec /\ op'.pc = pc /\ op'.wait = op.wait /\ op'.then = op.then
  BY DEF At, OpRec

(* _reconnect begins without a socket, for a client that had a session.    *)
LEMMA RecoverTyped ==
  ASSUME ClientTyped, cl.had, Recover
  PROVE  /\ cl' \in ClientRec /\ op' \in OpRec /\ op'.pc \in {"dial", "retry"}
         /\ cl' = [cl EXCEPT !.sock = None, !.recovering = TRUE]
         /\ op'.wait = op.wait /\ op'.then = op.then
<1>1. cl' = [cl EXCEPT !.sock = None, !.recovering = TRUE] /\ cl \in ClientRec /\ op \in OpRec
  BY DEF Recover, ClientTyped
<1>2. None \in 0 .. MaxConns
  BY Bounds DEF None
<1>3. cl' \in ClientRec
  BY <1>1, <1>2 DEF ClientRec
<1>4. At("retry") \/ At("dial")
  BY DEF Recover
<1>5. QED
  BY <1>1, <1>3, <1>4, AtTyped

(* What is raised ends the call.                                           *)
LEMMA RaiseTyped ==
  ASSUME HistoryTyped, NEW what \in {"gave_up", "lost"}, Raise(what)
  PROVE  /\ past' \in [gave_up : BOOLEAN, lost : BOOLEAN, removed : BOOLEAN, overflowed : BOOLEAN]
         /\ op' = Idle
  BY DEF HistoryTyped, Raise

(* A connection that is closed leaves the links typed.                     *)
LEMMA ClosedTyped ==
  ASSUME NetTyped, NEW c
  PROVE  /\ Closed(c) \in [Conns -> {"none", "open", "cut", "closed"}]
  BY DEF NetTyped, Closed

(* So does one whose replies are thrown away.                              *)
LEMMA EmptyDown ==
  ASSUME NetTyped, NEW c
  PROVE  [down EXCEPT ![c] = <<>>] \in [Conns -> Seq(ReplyRec)]
  BY EmptySeq DEF NetTyped

(* The socket in use is closed, if there is one.                           *)
LEMMA CloseSockTyped ==
  ASSUME NetTyped, CloseSock, UNCHANGED <<dialed, up>> PROVE NetTyped'
  BY ClosedTyped, EmptyDown DEF NetTyped, CloseSock

(* The reply that is read is the first on its way.                         *)
LEMMA TailDown ==
  ASSUME NetTyped, NEW c \in Conns, down[c] # <<>>
  PROVE  /\ [down EXCEPT ![c] = Tail(@)] \in [Conns -> Seq(ReplyRec)]
         /\ Head(down[c]) \in ReplyRec /\ Head(down[c]) = down[c][1]
<1>1. down[c] \in Seq(ReplyRec)
  BY DEF NetTyped
<1>2. Tail(down[c]) \in Seq(ReplyRec) /\ Head(down[c]) \in ReplyRec
  BY <1>1, HeadTailProperties
<1>3. QED
  BY <1>1, <1>2 DEF NetTyped

(* What is written is a batch of messages.                                 *)
LEMMA SentTyped ==
  ASSUME NetTyped, NEW c, NEW batch \in Seq(Msgs), Sent(c, batch)
  PROVE  up' \in [Conns -> Seq(Seq(Msgs))]
<1>1. CASE link[c] = "open" /\ batch # <<>> /\ c \in Conns
  <2>1. up[c] \in Seq(Seq(Msgs))
    BY <1>1 DEF NetTyped
  <2>2. Append(up[c], batch) \in Seq(Seq(Msgs))
    BY <2>1, AppendProperties
  <2>3. QED
    BY <1>1, <2>2 DEF NetTyped, Sent
<1>2. CASE ~(link[c] = "open" /\ batch # <<>>) \/ c \notin Conns
  BY <1>2 DEF NetTyped, Sent
<1>3. QED
  BY <1>1, <1>2

(* After the write a request awaits its reply, and a post is over.         *)
LEMMA WrittenTyped ==
  ASSUME op \in OpRec, Written
  PROVE  op' \in OpRec /\ op'.pc \in {"idle", "await"} /\ (op'.pc = "await" => op.wait # None)
         /\ op'.wait = op.wait
  BY IdleTyped DEF Written, OpRec

(* SessionLost leaves every variable its type.                             *)
LEMMA LostTyped ==
  ASSUME ClientTyped, NetTyped, HistoryTyped, Lost
  PROVE  ClientTyped' /\ NetTyped' /\ HistoryTyped'
<1>1. past' \in [gave_up : BOOLEAN, lost : BOOLEAN, removed : BOOLEAN, overflowed : BOOLEAN] /\ op' = Idle
  BY RaiseTyped DEF Lost
<1>2. HistoryTyped'
  BY <1>1 DEF Lost, HistoryTyped
<1>3. cl' \in ClientRec /\ cl'.seq = cl.seq /\ cl'.had = cl.had /\ (cl'.recovering => cl.recovering)
  <2>1. cl \in ClientRec /\ None \in 0 .. MaxConns
    BY Bounds DEF ClientTyped, None
  <2>2. cl' = [cl EXCEPT !.sock = None, !.recovering = FALSE] \/ cl' = [cl EXCEPT !.sock = None]
    BY <2>1 DEF Lost, ClientRec
  <2>3. QED
    BY <2>1, <2>2 DEF ClientRec
<1>4. ClientTyped'
  BY <1>1, <1>3, IdleTyped DEF ClientTyped, Lost
<1>5. NetTyped'
  BY ClosedTyped, EmptyDown DEF Lost, NetTyped
<1>6. QED
  BY <1>2, <1>4, <1>5

Typed == ClientTyped /\ NetTyped /\ ServerTyped /\ HistoryTyped /\ CountInv
TypeInv == Typed /\ PlaceInv

(* A dialed connection is not met yet.                                     *)
LEMMA DialCounts ==
  ASSUME TypeInv, Dial, UNCHANGED <<up, down, made, reg, sess, ran>>
  PROVE  NetTyped' /\ ServerTyped' /\ CountInv'
<1>1. NetTyped' /\ ServerTyped' /\ dialed' \in Conns /\ dialed' = dialed + 1
  BY DialTyped DEF TypeInv, Typed
<1>2. th' = [th EXCEPT ![dialed'] = [NoThread EXCEPT !.pc = "accepted", !.acked = cl.last_acked]]
  BY DEF Dial
<1>3. th[dialed'].pc = "none" /\ th \in [Conns -> ThreadRec] /\ dialed \in Nat
  BY <1>1, Bounds DEF TypeInv, Typed, CountInv, NoThread, ServerTyped, NetTyped, Conns
<1>4. \A c \in Conns : c # dialed' => th'[c] = th[c]
  BY <1>2, <1>3
<1>5. th'[dialed'].pc = "accepted"
  BY <1>1, <1>2, <1>3 DEF NoThread
<1>6. Met' = Met
  BY <1>3, <1>4, <1>5 DEF Met
<1>7. QED
  BY <1>1, <1>3, <1>4, <1>5, <1>6 DEF TypeInv, Typed, CountInv, Active, Conns

(* The client's steps keep the types: one step per action.                 *)
LEMMA TypeClient == ASSUME TypeInv, Client PROVE Typed'
<1> USE DEF TypeInv, Typed
<1>1. ASSUME NEW k \in Kinds, Call(k) PROVE Typed'
  <2>1. UNCHANGED <<netVars, serverVars, told>>
    BY <1>1 DEF Call
  <2>2. NetTyped' /\ ServerTyped' /\ CountInv'
    BY <2>1, NetSame, ServerSame, CountSame DEF serverVars, netVars
  <2>3. cl \in ClientRec /\ (cl.recovering => cl.had)
    BY DEF ClientTyped
  <2>4. CASE cl.seq + 1 <= MaxSeq /\ Enqueue(cl, k) /\ op' = Proceed(cl', k)
    <3>1. Longer(cl, cl') /\ issued' \in Seq(Kinds \union {"ack"}) /\ Len(issued') = cl.seq + 1
      BY <2>3, <2>4, EnqueueEffect
    <3>2. op' \in OpRec /\ op'.pc \in {"flush", "idle"}
      BY <2>4, <3>1, ProceedTyped DEF Longer
    <3>3. QED
      BY <2>1, <2>2, <2>3, <2>4, <3>1, <3>2, OverflowTyped DEF ClientTyped, Longer, HistoryTyped
  <2>5. CASE cl.seq + 2 <= MaxSeq /\ Enqueue(cl, "ack")
             /\ op' = [pc |-> "flush", wait |-> cl.seq + 1, then |-> k]
    <3>1. cl.seq + 1 <= MaxSeq /\ cl.seq + 1 \in 0 .. MaxSeq
      BY <2>3, <2>5, Bounds DEF ClientRec
    <3>2. Longer(cl, cl') /\ issued' \in Seq(Kinds \union {"ack"}) /\ Len(issued') = cl.seq + 1
      BY <2>3, <2>5, <3>1, EnqueueEffect
    <3>3. op' \in OpRec /\ op'.pc = "flush"
      BY <2>5, <3>1 DEF OpRec
    <3>4. QED
      BY <2>1, <2>2, <2>3, <2>5, <3>2, <3>3, OverflowTyped DEF ClientTyped, Longer, HistoryTyped
  <2>6. QED
    BY <1>1, <2>4, <2>5 DEF Call
<1>2. CASE FlushCall
  BY <1>2, IdleTyped, NetSame, ServerSame, HistorySame, CountSame
     DEF FlushCall, ClientTyped, OpRec, Idle, netVars, serverVars
<1>3. CASE FlushDials \/ Redial
  <2>1. Dial /\ (At("hello") \/ At("rehello"))
        /\ UNCHANGED <<cl, issued, up, down, made, reg, sess, ran, history>>
    BY <1>3 DEF FlushDials, Redial
  <2>2. NetTyped' /\ ServerTyped' /\ CountInv'
    BY <2>1, DialCounts
  <2>3. ClientTyped'
    BY <2>1, AtTyped DEF ClientTyped
  <2>4. QED
    BY <2>1, <2>2, <2>3, HistorySame
<1>4. ASSUME Unreached, UNCHANGED issued PROVE ClientTyped' /\ UNCHANGED past /\ cl'.had = cl.had
  <2>1. CASE cl.had /\ Recover
    BY <2>1, <1>4, RecoverTyped DEF ClientTyped, Unreached, ClientRec
  <2>2. CASE op' = Idle /\ UNCHANGED cl
    BY <2>2, <1>4, IdleTyped DEF ClientTyped, Unreached
  <2>3. QED
    BY <1>4, <2>1, <2>2 DEF Unreached
<1>5. CASE FlushRefused
  BY <1>4, <1>5, NetSame, ServerSame, HistorySame, CountSame DEF FlushRefused, serverVars, history, netVars
<1>6. CASE HelloFails
  <2>1. ClientTyped' /\ UNCHANGED past
    BY <1>4, <1>6 DEF HelloFails
  <2>2. NetTyped'
    BY <1>6, ClosedTyped DEF HelloFails, NetTyped
  <2>3. QED
    BY <1>6, <2>1, <2>2, ServerSame, HistorySame, CountSame DEF HelloFails, serverVars, history
<1>7. CASE Lost
  BY <1>7, LostTyped, ServerSame, CountSame DEF Lost, serverVars
<1>8. CASE HelloFlush
  <2>1. dialed \in Conns /\ dialed \in 0 .. MaxConns
    BY <1>8, Bounds DEF HelloFlush, PlaceInv, NetTyped, Conns
  <2>2. cl' = [cl EXCEPT !.sock = dialed, !.had = TRUE] /\ At("flush") /\ down[dialed] # <<>>
    BY <1>8 DEF HelloFlush, Welcome, Answered
  <2>3. cl' \in ClientRec /\ cl'.seq = cl.seq /\ cl'.had
    BY <2>1, <2>2 DEF ClientTyped, ClientRec
  <2>4. ClientTyped'
    BY <1>8, <2>2, <2>3, AtTyped DEF ClientTyped, HelloFlush
  <2>5. NetTyped'
    BY <1>8, <2>1, <2>2, TailDown DEF NetTyped, HelloFlush
  <2>6. QED
    BY <1>8, <2>4, <2>5, ServerSame, HistorySame, CountSame DEF HelloFlush, serverVars
<1>9. CASE FlushWrites
  <2>1. cl \in ClientRec /\ cl.pending \in Seq(Msgs)
    BY DEF ClientTyped, ClientRec
  <2>2. cl' \in ClientRec /\ cl'.seq = cl.seq /\ cl'.sock = cl.sock /\ cl'.had = cl.had
        /\ cl'.recovering = cl.recovering
    BY <1>9, <2>1, EmptySeq DEF FlushWrites, ClientRec
  <2>3. op' \in OpRec
    BY <1>9, WrittenTyped DEF FlushWrites, ClientTyped
  <2>4. ClientTyped'
    BY <1>9, <2>2, <2>3 DEF ClientTyped, FlushWrites
  <2>5. NetTyped'
    BY <1>9, <2>1, SentTyped DEF NetTyped, FlushWrites
  <2>6. QED
    BY <1>9, <2>4, <2>5, ServerSame, HistorySame, CountSame DEF FlushWrites, serverVars
<1>10. CASE RedialRefused
  BY <1>10, AtTyped, NetSame, ServerSame, HistorySame, CountSame
     DEF RedialRefused, ClientTyped, netVars, serverVars
<1>11. CASE RehelloFails
  <2>1. NetTyped'
    BY <1>11, ClosedTyped DEF RehelloFails, NetTyped
  <2>2. ClientTyped'
    BY <1>11, AtTyped DEF RehelloFails, ClientTyped
  <2>3. QED
    BY <1>11, <2>1, <2>2, ServerSame, HistorySame, CountSame DEF RehelloFails, serverVars
<1>12. CASE GivesUp
  <2>1. cl \in ClientRec /\ cl' = [cl EXCEPT !.recovering = FALSE]
    BY <1>12 DEF GivesUp, ClientTyped
  <2>2. cl' \in ClientRec /\ cl'.seq = cl.seq /\ ~cl'.recovering
    BY <2>1 DEF ClientRec
  <2>3. ClientTyped'
    BY <1>12, <2>2, RaiseTyped, IdleTyped DEF GivesUp, ClientTyped
  <2>4. HistoryTyped'
    BY <1>12, RaiseTyped DEF GivesUp, HistoryTyped
  <2>5. QED
    BY <1>12, <2>3, <2>4, NetSame, ServerSame, CountSame DEF GivesUp, serverVars, netVars
<1>13. CASE Resume
  <2>1. dialed \in Conns /\ dialed \in 0 .. MaxConns /\ down[dialed] # <<>>
    BY <1>13, Bounds DEF Resume, Welcome, Answered, PlaceInv, NetTyped, Conns
  <2>2. Head(down[dialed]) \in ReplyRec /\ Head(down[dialed]).n \in Nat
    BY <2>1, TailDown, Bounds DEF ReplyRec
  <2> DEFINE now == [Dropped(cl, Head(down[dialed]).n) EXCEPT !.pending = <<>>]
  <2>3. cl \in ClientRec /\ None \in 0 .. MaxConns
    BY Bounds DEF ClientTyped, None
  <2>4. /\ now \in ClientRec /\ now.seq = cl.seq /\ now.had = cl.had /\ now.recovering = cl.recovering
        /\ now.unacked \in Seq(Msgs)
    BY <2>2, <2>3, DroppedEffect, EmptySeq DEF ClientRec, Shorter
  <2>5. UNCHANGED <<issued, dialed, serverVars, history>>
    BY <1>13 DEF Resume
  <2>6. CASE cl' = [now EXCEPT !.sock = dialed] /\ Sent(dialed, now.unacked)
             /\ down' = [down EXCEPT ![dialed] = Tail(@)] /\ Written /\ UNCHANGED link
    <3> HIDE DEF now
    <3>1. cl' \in ClientRec /\ cl'.seq = cl.seq /\ cl'.had = cl.had /\ cl'.recovering = cl.recovering
          /\ cl'.sock = dialed
      BY <2>1, <2>4, <2>6 DEF ClientRec
    <3>2. ClientTyped'
      BY <2>1, <2>5, <2>6, <3>1, WrittenTyped DEF ClientTyped, Conns, None
    <3>3. NetTyped'
      BY <2>1, <2>4, <2>5, <2>6, SentTyped, TailDown DEF NetTyped
    <3>4. QED
      BY <2>5, <3>2, <3>3, ServerSame, HistorySame, CountSame DEF serverVars
  <2>7. CASE cl' = now /\ At("retry") /\ link' = Closed(dialed)
             /\ down' = [down EXCEPT ![dialed] = <<>>] /\ UNCHANGED up
    <3> HIDE DEF now
    <3>1. ClientTyped'
      BY <2>4, <2>5, <2>7, AtTyped DEF ClientTyped
    <3>2. NetTyped'
      BY <2>5, <2>7, ClosedTyped, EmptyDown DEF NetTyped
    <3>3. QED
      BY <2>5, <3>1, <3>2, ServerSame, HistorySame, CountSame DEF serverVars
  <2>8. QED
    BY <1>13, <2>6, <2>7 DEF Resume
<1>14. CASE OldReply
  <2>1. NetTyped'
    <3>1. CASE cl.sock \in Conns
      BY <1>14, <3>1, TailDown DEF OldReply, Answered, NetTyped
    <3>2. CASE cl.sock \notin Conns
      BY <1>14, <3>2 DEF OldReply, NetTyped
    <3>3. QED
      BY <3>1, <3>2
  <2>2. QED
    BY <1>14, <2>1, ClientSame, ServerSame, HistorySame, CountSame DEF OldReply, serverVars
<1>15. CASE Receive
  <2>1. cl.sock \in Conns /\ down[cl.sock] # <<>> /\ cl \in ClientRec
    BY <1>15, Bounds DEF Receive, Answered, ClientTyped, ClientRec, None, Conns
  <2> DEFINE r == Head(down[cl.sock])
             q == Acknowledged(cl, r.n)
  <2>2. r \in ReplyRec /\ r.n \in 0 .. MaxSeq /\ op \in OpRec
    BY <2>1, TailDown DEF ReplyRec, ClientTyped
  <2>3. Shorter(cl, q, r.n) /\ ~q.recovering
    BY <2>1, <2>2, AcknowledgedEffect
  <2>4. q \in ClientRec /\ q.seq = cl.seq /\ q.sock = cl.sock
    BY <2>3 DEF Shorter
  <2>5. NetTyped'
    BY <1>15, <2>1, TailDown DEF Receive, NetTyped
  <2>6. told' \in [Msgs -> ReplyRec]
    <3>1. told' = [told EXCEPT ![op.wait] = r]
      BY <1>15 DEF Receive
    <3>2. QED
      BY <3>1, <2>2 DEF HistoryTyped
  <2>7. CASE op.then # "none" /\ Enqueue(q, op.then) /\ op' = Proceed(cl', op.then)
    <3> HIDE DEF q, r
    <3>1. op.then \in Kinds \union {"ack"}
      BY <2>2, <2>7 DEF OpRec
    <3>2. q.seq = cl.seq /\ cl.seq + 1 <= MaxSeq
      BY <2>4, <2>7 DEF PlaceInv
    <3>3. Longer(q, cl') /\ issued' \in Seq(Kinds \union {"ack"}) /\ Len(issued') = cl.seq + 1
      BY <2>4, <2>7, <3>1, <3>2, EnqueueEffect
    <3>4. op' \in OpRec /\ op'.pc \in {"flush", "idle"}
      BY <2>7, <3>3, ProceedTyped DEF Longer
    <3>5. ClientTyped'
      BY <2>3, <2>4, <3>3, <3>4 DEF ClientTyped, Longer
    <3>6. HistoryTyped'
      BY <2>6, <2>7, OverflowTyped DEF HistoryTyped
    <3>7. QED
      BY <1>15, <3>5, <3>6, <2>5, ServerSame, CountSame DEF Receive, serverVars
  <2>8. CASE cl' = q /\ op' = Idle /\ UNCHANGED <<issued, past>>
    <3> HIDE DEF q, r
    <3>1. ClientTyped'
      BY <2>3, <2>4, <2>8, IdleTyped DEF ClientTyped
    <3>2. HistoryTyped'
      BY <2>6, <2>8 DEF HistoryTyped
    <3>3. QED
      BY <1>15, <3>1, <3>2, <2>5, ServerSame, CountSame DEF Receive, serverVars
  <2>9. QED
    BY <1>15, <2>7, <2>8 DEF Receive
<1>16. CASE FlushFails \/ ReceiveFails
  <2>1. CloseSock /\ Recover /\ cl.had /\ UNCHANGED <<issued, dialed, up, serverVars, history>>
    BY <1>16 DEF FlushFails, ReceiveFails, ClientTyped, PlaceInv
  <2>2. cl' \in ClientRec /\ op' \in OpRec /\ op'.pc \in {"dial", "retry"} /\ cl'.seq = cl.seq /\ cl'.had
    BY <2>1, RecoverTyped DEF ClientTyped, ClientRec
  <2>3. ClientTyped'
    BY <2>1, <2>2 DEF ClientTyped
  <2>4. QED
    BY <2>1, <2>3, CloseSockTyped, ServerSame, HistorySame, CountSame DEF serverVars
<1>17. QED
  BY <1>1, <1>2, <1>3, <1>5, <1>6, <1>7, <1>8, <1>9, <1>10, <1>11, <1>12, <1>13, <1>14, <1>15, <1>16
     DEF Client, HelloLost, ResumeMissing

(* The client's steps keep what is known of where it is.                   *)
LEMMA PlaceClient == ASSUME TypeInv, Client PROVE PlaceInv'
<1> USE DEF TypeInv, Typed
<1>1. cl \in ClientRec /\ op \in OpRec /\ dialed \in Nat /\ cl.sock \in Nat /\ cl.seq \in Nat
  BY Bounds DEF ClientTyped, NetTyped, ClientRec
<1>2. ASSUME NEW k \in Kinds, Call(k) PROVE PlaceInv'
  <2>1. CASE cl.seq + 1 <= MaxSeq /\ Enqueue(cl, k) /\ op' = Proceed(cl', k)
    <3>1. Longer(cl, cl')
      BY <1>1, <2>1, EnqueueEffect
    <3>2. op'.pc \in {"flush", "idle"} /\ op'.then = "none" /\ (op'.pc = "idle" => op' = Idle)
      BY <2>1, <3>1, ProceedTyped, IdleTyped DEF Proceed, Longer
    <3>3. QED
      BY <1>2, <3>1, <3>2 DEF PlaceInv, Longer, Call, netVars
  <2>2. CASE cl.seq + 2 <= MaxSeq /\ Enqueue(cl, "ack")
             /\ op' = [pc |-> "flush", wait |-> cl.seq + 1, then |-> k]
    <3>1. cl.seq + 1 <= MaxSeq
      BY <1>1, <2>2, Bounds
    <3>2. Longer(cl, cl')
      BY <1>1, <2>2, <3>1, EnqueueEffect
    <3>3. QED
      BY <1>1, <1>2, <2>2, <3>2, Bounds DEF PlaceInv, Longer, Call, netVars
  <2>3. QED
    BY <1>2, <2>1, <2>2 DEF Call
<1>3. CASE FlushCall
  BY <1>3, IdleTyped DEF FlushCall, PlaceInv, netVars, Idle
<1>4. ASSUME Dial, At("hello") \/ (At("rehello") /\ op.pc \in {"dial", "retry"}), UNCHANGED <<cl, issued>>,
             cl.sock = None
      PROVE  PlaceInv'
  <2>1. dialed' = dialed + 1 /\ op'.then = op.then /\ op'.pc \in {"hello", "rehello"}
        /\ (op'.pc = "rehello" => cl.had)
    BY <1>1, <1>4, AtTyped DEF Dial, PlaceInv
  <2>2. QED
    BY <1>1, <1>4, <2>1 DEF PlaceInv
<1>5. CASE FlushDials \/ Redial
  BY <1>4, <1>5 DEF FlushDials, Redial, PlaceInv
<1>6. ASSUME cl.had, Recover, UNCHANGED dialed PROVE PlaceInv'
  <2>1. cl' = [cl EXCEPT !.sock = None, !.recovering = TRUE] /\ op'.pc \in {"dial", "retry"} /\ op'.then = op.then
    BY <1>6, RecoverTyped DEF ClientTyped
  <2>2. cl'.had = cl.had /\ cl'.sock = None /\ cl'.seq = cl.seq
    BY <1>1, <2>1 DEF ClientRec
  <2>3. QED
    BY <1>1, <1>6, <2>1, <2>2 DEF PlaceInv, None
<1>7. ASSUME Unreached, UNCHANGED dialed PROVE PlaceInv'
  <2>1. CASE op' = Idle /\ UNCHANGED cl
    BY <1>7, <2>1, IdleTyped DEF PlaceInv
  <2>2. QED
    BY <1>6, <1>7, <2>1 DEF Unreached
<1>8. CASE FlushRefused \/ HelloFails
  BY <1>7, <1>8 DEF FlushRefused, HelloFails, netVars
<1>9. CASE Lost
  <2>1. op' = Idle /\ cl'.sock = None /\ dialed' = dialed
    BY <1>1, <1>9 DEF Lost, Raise, ClientRec
  <2>2. QED
    BY <1>1, <2>1, IdleTyped DEF PlaceInv, None
<1>10. CASE HelloFlush
  <2>1. cl' = [cl EXCEPT !.sock = dialed, !.had = TRUE] /\ At("flush") /\ dialed' = dialed
    BY <1>10 DEF HelloFlush
  <2>2. cl'.sock = dialed /\ cl'.had /\ cl'.seq = cl.seq
    BY <1>1, <2>1 DEF ClientRec
  <2>3. op'.pc = "flush" /\ op'.then = op.then
    BY <1>1, <2>1, AtTyped
  <2>4. QED
    BY <1>1, <2>1, <2>2, <2>3 DEF PlaceInv
<1>11. CASE FlushWrites
  <2>1. cl'.sock = cl.sock /\ cl'.had = cl.had /\ cl'.seq = cl.seq /\ dialed' = dialed
    BY <1>1, <1>11 DEF FlushWrites, ClientRec
  <2>2. op' = Idle \/ (op'.pc = "await" /\ op'.then = op.then)
    BY <1>1, <1>11 DEF FlushWrites, Written, OpRec
  <2>3. QED
    BY <2>1, <2>2, IdleTyped DEF PlaceInv
<1>12. CASE RedialRefused \/ RehelloFails
  <2>1. op'.pc = "retry" /\ op'.then = op.then /\ cl' = cl /\ dialed' = dialed
        /\ op.pc \in {"dial", "rehello"}
    BY <1>1, <1>12, AtTyped DEF RedialRefused, RehelloFails, netVars
  <2>2. QED
    BY <2>1 DEF PlaceInv
<1>13. CASE GivesUp
  <2>1. cl'.sock = cl.sock /\ cl'.had = cl.had /\ cl'.seq = cl.seq /\ dialed' = dialed /\ op' = Idle
    BY <1>1, <1>13 DEF GivesUp, ClientRec, Raise, netVars
  <2>2. QED
    BY <2>1, IdleTyped DEF PlaceInv
<1>14. CASE Resume
  <2>1. dialed \in Conns /\ dialed \in 0 .. MaxConns /\ down[dialed] # <<>> /\ dialed' = dialed
    BY <1>14, Bounds DEF Resume, Welcome, Answered, PlaceInv, NetTyped, Conns
  <2>2. Head(down[dialed]).n \in Nat
    BY <2>1, TailDown, Bounds DEF ReplyRec
  <2> DEFINE now == [Dropped(cl, Head(down[dialed]).n) EXCEPT !.pending = <<>>]
  <2>3. now \in ClientRec /\ now.seq = cl.seq /\ now.had = cl.had /\ now.sock = cl.sock
    BY <1>1, <2>2, DroppedEffect, EmptySeq DEF ClientRec, Shorter
  <2>4. CASE cl' = [now EXCEPT !.sock = dialed] /\ Written
    <3> HIDE DEF now
    <3>1. cl'.sock = dialed /\ cl'.seq = cl.seq /\ cl'.had = cl.had
      BY <2>3, <2>4 DEF ClientRec
    <3>2. op' = Idle \/ (op'.pc = "await" /\ op'.then = op.then)
      BY <1>1, <2>4 DEF Written, OpRec
    <3>3. cl.had
      BY <1>14 DEF Resume, PlaceInv
    <3>4. QED
      BY <1>1, <2>1, <3>1, <3>2, <3>3, IdleTyped DEF PlaceInv
  <2>5. CASE cl' = now /\ At("retry")
    <3> HIDE DEF now
    <3>1. op'.pc = "retry" /\ op'.then = op.then
      BY <1>1, <2>5, AtTyped
    <3>2. QED
      BY <1>14, <2>1, <2>3, <2>5, <3>1 DEF PlaceInv, Resume
  <2>6. QED
    BY <1>14, <2>4, <2>5 DEF Resume
<1>15. CASE OldReply
  BY <1>15 DEF OldReply, PlaceInv, clientVars
<1>16. CASE Receive
  <2>1. cl.sock \in Conns /\ down[cl.sock] # <<>>
    BY <1>1, <1>16, Bounds DEF Receive, Answered, ClientTyped, ClientRec, None, Conns
  <2> DEFINE r == Head(down[cl.sock])
             q == Acknowledged(cl, r.n)
  <2>2. r.n \in 0 .. MaxSeq
    BY <2>1, TailDown DEF ReplyRec
  <2>3. q \in ClientRec /\ q.seq = cl.seq /\ q.sock = cl.sock /\ q.had = cl.had
    BY <1>1, <2>2, AcknowledgedEffect DEF Shorter
  <2>4. CASE op.then # "none" /\ Enqueue(q, op.then) /\ op' = Proceed(cl', op.then)
    <3> HIDE DEF q, r
    <3>1. op.then \in Kinds \union {"ack"} /\ q.seq + 1 <= MaxSeq
      BY <1>1, <2>3, <2>4 DEF OpRec, PlaceInv
    <3>2. Longer(q, cl')
      BY <2>3, <2>4, <3>1, EnqueueEffect
    <3>3. op'.pc \in {"flush", "idle"} /\ op'.then = "none" /\ (op'.pc = "idle" => op' = Idle)
      BY <2>4, <3>2, ProceedTyped, IdleTyped DEF Proceed, Longer
    <3>4. QED
      BY <1>16, <2>3, <3>2, <3>3 DEF PlaceInv, Longer, Receive
  <2>5. CASE cl' = q /\ op' = Idle
    <3> HIDE DEF q, r
    <3>1. QED
      BY <1>16, <2>3, <2>5, IdleTyped DEF PlaceInv, Receive
  <2>6. QED
    BY <1>16, <2>4, <2>5 DEF Receive
<1>17. CASE FlushFails \/ ReceiveFails
  BY <1>6, <1>17 DEF FlushFails, ReceiveFails, PlaceInv, ClientTyped
<1>18. QED
  BY <1>2, <1>3, <1>5, <1>8, <1>9, <1>10, <1>11, <1>12, <1>13, <1>14, <1>15, <1>16, <1>17
     DEF Client, HelloLost, ResumeMissing

(* An attached thread is met: the generations are bounded by those met.    *)
LEMMA MetGrows ==
  ASSUME ServerTyped, NEW c \in Conns, th[c].pc \in {"none", "accepted"}, NEW t \in ThreadRec,
         t.pc \notin {"none", "accepted"}, Thread(c, t)
  PROVE  /\ Cardinality(Met) \in Nat /\ Cardinality(Met') \in Nat
         /\ Cardinality(Met') = Cardinality(Met) + 1 /\ Cardinality(Met') <= MaxConns
<1>1. th \in [Conns -> ThreadRec] /\ th' = [th EXCEPT ![c] = t]
  BY DEF ServerTyped, Thread
<1>2. Met' = Met \union {c} /\ c \notin Met
  BY <1>1 DEF Met
<1>3. IsFiniteSet(Conns) /\ Cardinality(Conns) = MaxConns
  BY Bounds, FS_Interval DEF Conns
<1>4. Met \in SUBSET Conns /\ Met' \in SUBSET Conns
  BY DEF Met
<1>5. IsFiniteSet(Met) /\ IsFiniteSet(Met') /\ Cardinality(Met') <= MaxConns
  BY <1>3, <1>4, FS_Subset
<1>6. QED
  BY <1>2, <1>5, FS_AddElement, FS_CardinalityType

(* A thread that goes on, or ends, is met already.                         *)
LEMMA MetKeeps ==
  ASSUME ServerTyped, NEW c \in Conns, th[c].pc \notin {"none", "accepted"}, NEW t \in ThreadRec,
         t.pc \notin {"none", "accepted"}, Thread(c, t)
  PROVE  Met' = Met
  BY DEF ServerTyped, Thread, Met

(* One thread changes, the others do not.                                  *)
LEMMA ThreadTyped ==
  ASSUME ServerTyped, NEW c \in Conns, NEW t \in ThreadRec, Thread(c, t)
  PROVE  th' \in [Conns -> ThreadRec] /\ th'[c] = t /\ \A d \in Conns : d # c => th'[d] = th[d]
  BY DEF ServerTyped, Thread

(* What the server writes to a client is replies.                          *)
LEMMA ToClientTyped ==
  ASSUME NetTyped, NEW c \in Conns, NEW replies \in Seq(ReplyRec), ToClient(c, replies)
  PROVE  down' \in [Conns -> Seq(ReplyRec)]
<1>1. down[c] \o replies \in Seq(ReplyRec)
  BY ConcatProperties DEF NetTyped
<1>2. QED
  BY <1>1 DEF NetTyped, ToClient

(* The session that is attached, and the one made for it.                  *)
LEMMA TypeAttach ==
  ASSUME TypeInv, NEW c \in Conns, Attach(c)
  PROVE  Typed'
<1> USE DEF TypeInv, Typed
<1>1. UNCHANGED <<clientVars, netVars, sess, ran, history>> /\ th[c].pc = "accepted"
  BY DEF Attach
<1>2. ClientTyped' /\ NetTyped' /\ HistoryTyped' /\ dialed' = dialed
  BY <1>1, ClientSame, NetSame, HistorySame DEF netVars
<1>3. th[c] \in ThreadRec /\ made \in Nat /\ c <= dialed /\ made <= MaxSessions /\ dialed \in Nat
  BY <1>1, Bounds DEF ServerTyped, CountInv, NoThread, NetTyped, Conns
<1>4. Cardinality(Met) \in Nat /\ Cardinality(Met) < MaxConns
  <2>1. [th[c] EXCEPT !.pc = "attached"] \in ThreadRec /\ [th[c] EXCEPT !.pc = "attached"].pc = "attached"
    BY <1>3 DEF ThreadRec
  <2> DEFINE t == [th[c] EXCEPT !.pc = "attached"]
  <2>2. IsFiniteSet(Conns) /\ Cardinality(Conns) = MaxConns
    BY Bounds, FS_Interval DEF Conns
  <2>3. Met \in SUBSET Conns /\ Met \union {c} \in SUBSET Conns /\ c \notin Met
    BY <1>1 DEF Met
  <2>4. IsFiniteSet(Met) /\ Cardinality(Met \union {c}) <= MaxConns
    BY <2>2, <2>3, FS_Subset
  <2>5. Cardinality(Met \union {c}) = Cardinality(Met) + 1 /\ Cardinality(Met) \in Nat
    BY <2>3, <2>4, FS_AddElement, FS_CardinalityType
  <2>6. QED
    BY <2>4, <2>5, Bounds
<1>5. ASSUME NEW t \in ThreadRec, Thread(c, t), t.pc = "attached", t.s \in 1 .. made',
             made' \in made .. MaxSessions, reg'.s = made', reg'.gen \in 0 .. Cardinality(Met),
             reg' \in [s : 0 .. MaxSessions, gen : 0 .. MaxConns, detached : BOOLEAN]
      PROVE  Typed'
  <2>1. th' \in [Conns -> ThreadRec] /\ th'[c] = t /\ \A d \in Conns : d # c => th'[d] = th[d]
    BY <1>5, ThreadTyped
  <2>2. ServerTyped'
    BY <1>1, <1>3, <1>5, <2>1 DEF ServerTyped
  <2>3. Cardinality(Met') = Cardinality(Met) + 1
    BY <1>1, <1>5, MetGrows
  <2>4. CountInv'
    <3>1. ASSUME NEW d \in Conns PROVE (Active(d)' => th'[d].s \in 1 .. made') /\ (d > dialed' => th'[d] = NoThread)
      <4>1. CASE d = c
        BY <1>2, <1>3, <1>5, <2>1, <4>1 DEF Conns
      <4>2. CASE d # c
        BY <1>2, <1>3, <1>5, <2>1, <4>2 DEF CountInv, Active
      <4>3. QED
        BY <4>1, <4>2
    <3>2. reg'.s = made' /\ reg'.gen < Cardinality(Met')
      BY <1>4, <1>5, <2>3
    <3>3. QED
      BY <3>1, <3>2 DEF CountInv
  <2>5. QED
    BY <1>2, <2>2, <2>4
<1>6. CASE /\ reg.s # None
           /\ reg' = [reg EXCEPT !.gen = @ + 1, !.detached = FALSE]
           /\ Thread(c, [th[c] EXCEPT !.pc = "attached", !.s = reg.s, !.resumed = TRUE, !.gen = reg.gen + 1])
           /\ UNCHANGED made
  <2>1. reg.s \in 0 .. MaxSessions /\ reg.s = made /\ made # 0 /\ reg.gen < Cardinality(Met) /\ reg.gen \in Nat
    BY <1>6, Bounds DEF ServerTyped, None, CountInv
  <2>2. reg.gen + 1 \in 0 .. MaxConns /\ reg.gen + 1 \in 0 .. Cardinality(Met)
    BY <1>4, <2>1, Bounds
  <2>3. reg' \in [s : 0 .. MaxSessions, gen : 0 .. MaxConns, detached : BOOLEAN] /\ reg'.s = reg.s
        /\ reg'.gen = reg.gen + 1
    BY <1>6, <2>1, <2>2 DEF ServerTyped
  <2> DEFINE t == [th[c] EXCEPT !.pc = "attached", !.s = reg.s, !.resumed = TRUE, !.gen = reg.gen + 1]
  <2>4. t \in ThreadRec /\ t.pc = "attached" /\ t.s = reg.s
    BY <1>3, <2>1, <2>2 DEF ThreadRec
  <2>5. Thread(c, t) /\ made' = made
    BY <1>6
  <2> HIDE DEF t
  <2>6. t.s \in 1 .. made' /\ made' \in made .. MaxSessions /\ reg'.s = made' /\ reg'.gen \in 0 .. Cardinality(Met)
    BY <1>3, <2>1, <2>2, <2>3, <2>4, <2>5
  <2>7. t \in ThreadRec /\ Thread(c, t) /\ t.pc = "attached"
        /\ reg' \in [s : 0 .. MaxSessions, gen : 0 .. MaxConns, detached : BOOLEAN]
    BY <2>3, <2>4, <2>5
  <2>8. QED
    BY ONLY <1>5, <2>6, <2>7
<1>7. CASE /\ made < MaxSessions /\ made' = made + 1
           /\ reg' = [s |-> made', gen |-> 0, detached |-> FALSE]
           /\ Thread(c, [th[c] EXCEPT !.pc = "attached", !.s = made'])
  <2>1. made' \in made .. MaxSessions /\ made' \in 0 .. MaxSessions /\ made' \in 1 .. made' /\ 0 \in 0 .. MaxConns
    BY <1>3, <1>7, Bounds
  <2> DEFINE t == [th[c] EXCEPT !.pc = "attached", !.s = made']
  <2>2. t \in ThreadRec /\ t.pc = "attached" /\ t.s = made'
    BY <1>3, <2>1 DEF ThreadRec
  <2>3. reg' \in [s : 0 .. MaxSessions, gen : 0 .. MaxConns, detached : BOOLEAN] /\ reg'.s = made'
        /\ reg'.gen = 0
    BY <1>7, <2>1
  <2>4. Thread(c, t)
    BY <1>7
  <2> HIDE DEF t
  <2>5. 0 \in 0 .. Cardinality(Met)
    BY <1>4
  <2>6. t.s \in 1 .. made' /\ made' \in made .. MaxSessions /\ reg'.s = made' /\ reg'.gen \in 0 .. Cardinality(Met)
    BY <2>1, <2>2, <2>3, <2>5
  <2>7. QED
    BY ONLY <1>5, <2>2, <2>3, <2>4, <2>6
<1>8. QED
  BY <1>6, <1>7 DEF Attach

(* A thread that ends has no session.                                      *)
LEMMA EndedCounts ==
  ASSUME ServerTyped, CountInv, NEW c \in Conns, th[c].pc # "none",
         Thread(c, [NoThread EXCEPT !.pc = "ended"]), UNCHANGED <<dialed, made>>,
         reg'.s = reg.s, reg'.gen = reg.gen, dialed \in Nat
  PROVE  th' \in [Conns -> ThreadRec] /\ CountInv'
<1> DEFINE t == [NoThread EXCEPT !.pc = "ended"]
<1>1. t \in ThreadRec /\ t.pc = "ended"
  BY NoThreadTyped DEF NoThread
<1> HIDE DEF t
<1>2. Thread(c, t)
  BY DEF t
<1>3. th' \in [Conns -> ThreadRec] /\ th'[c] = t /\ \A d \in Conns : d # c => th'[d] = th[d]
  BY <1>1, <1>2, ThreadTyped
<1>4. Cardinality(Met') >= Cardinality(Met) /\ Cardinality(Met') \in Nat /\ Cardinality(Met) \in Nat
  <2>1. CASE th[c].pc = "accepted"
    BY <1>1, <1>2, <2>1, MetGrows
  <2>2. CASE th[c].pc # "accepted"
    <3>1. Met' = Met
      BY <1>1, <1>2, <2>2, MetKeeps
    <3>2. IsFiniteSet(Conns) /\ Met \in SUBSET Conns
      <4>1. IsFiniteSet(1 .. MaxConns)
        BY Bounds, FS_Interval
      <4>2. QED
        BY <4>1 DEF Conns, Met
    <3>3. QED
      BY <3>1, <3>2, FS_Subset, FS_CardinalityType
  <2>3. QED
    BY <2>1, <2>2
<1>5. c <= dialed
  BY DEF CountInv, NoThread, Conns
<1>6. ASSUME NEW d \in Conns PROVE (Active(d)' => th'[d].s \in 1 .. made') /\ (d > dialed' => th'[d] = NoThread)
  <2>1. CASE d = c
    BY <1>1, <1>3, <1>5, <2>1 DEF Active, Conns
  <2>2. CASE d # c
    BY <1>3, <2>2 DEF CountInv, Active
  <2>3. QED
    BY <2>1, <2>2
<1>7. reg'.s # None => reg'.gen < Cardinality(Met')
  <2>1. reg.gen \in Nat
    BY Bounds DEF ServerTyped
  <2>2. QED
    BY <1>4, <2>1 DEF CountInv
<1>8. QED
  BY <1>3, <1>6, <1>7 DEF CountInv

(* A thread that goes on in the session it has.                            *)
LEMMA GoesOnCounts ==
  ASSUME ServerTyped, CountInv, NEW c \in Conns, Active(c), NEW t \in ThreadRec, Thread(c, t),
         t.pc = "serving", t.s = th[c].s, UNCHANGED <<dialed, made, reg>>, dialed \in Nat
  PROVE  th' \in [Conns -> ThreadRec] /\ CountInv'
<1>1. th' \in [Conns -> ThreadRec] /\ th'[c] = t /\ \A d \in Conns : d # c => th'[d] = th[d]
  BY ThreadTyped
<1>2. Met' = Met
  BY MetKeeps DEF Active
<1>3. c <= dialed
  BY DEF CountInv, NoThread, Conns, Active
<1>4. ASSUME NEW d \in Conns PROVE (Active(d)' => th'[d].s \in 1 .. made') /\ (d > dialed' => th'[d] = NoThread)
  <2>1. CASE d = c
    BY <1>1, <1>3, <2>1 DEF Active, Conns, CountInv
  <2>2. CASE d # c
    BY <1>1, <2>2 DEF CountInv, Active
  <2>3. QED
    BY <2>1, <2>2
<1>5. Cardinality(Met') = Cardinality(Met) /\ reg' = reg /\ made' = made
  BY <1>2
<1>6. QED
  BY <1>1, <1>4, <1>5 DEF CountInv

(* What an execution makes of a session.                                   *)
LEMMA ExecutedTyped ==
  ASSUME NEW s \in SessionRec, NEW n \in Msgs, NEW k
  PROVE  /\ Executed(s, n, k) \in SessionRec
         /\ Executed(s, n, k).last_seq = n /\ Executed(s, n, k).gen = s.gen
         /\ Waits(k) => Executed(s, n, k).reply = Reply(n, s.err) /\ Executed(s, n, k).err = None
         /\ ~Waits(k) => Executed(s, n, k).reply = s.reply
                         /\ Executed(s, n, k).err = IF k = "bad" /\ s.err = None THEN n ELSE s.err
<1>1. n \in 0 .. MaxSeq /\ None \in 0 .. MaxSeq /\ s.err \in 0 .. MaxSeq
  BY Bounds DEF Msgs, None, SessionRec
<1>2. Reply(n, s.err) \in ReplyRec
  BY <1>1, Replies
<1>3. CASE Waits(k)
  <2>1. Executed(s, n, k) = [s EXCEPT !.last_seq = n, !.reply = Reply(n, s.err), !.err = None]
    BY <1>3 DEF Executed
  <2>2. QED
    BY <1>1, <1>2, <1>3, <2>1 DEF SessionRec
<1>4. CASE ~Waits(k)
  <2> DEFINE e == IF k = "bad" /\ s.err = None THEN n ELSE s.err
  <2>1. Executed(s, n, k) = [s EXCEPT !.last_seq = n, !.err = e] /\ e \in 0 .. MaxSeq
    BY <1>1, <1>4 DEF Executed
  <2> HIDE DEF e
  <2>2. Executed(s, n, k) \in SessionRec /\ Executed(s, n, k).last_seq = n /\ Executed(s, n, k).gen = s.gen
        /\ Executed(s, n, k).reply = s.reply /\ Executed(s, n, k).err = e
    BY <1>1, <2>1 DEF SessionRec
  <2>3. QED
    BY <1>4, <2>2 DEF e
<1>5. QED
  BY <1>3, <1>4

(* The server's steps keep the types: one step per action.                 *)
LEMMA TypeServer == ASSUME TypeInv, Server PROVE Typed'
<1> USE DEF TypeInv, Typed
<1>1. dialed \in Nat
  BY Bounds DEF NetTyped
<1>2. ASSUME NEW c \in Conns, NoHello(c) PROVE Typed'
  <2>1. UNCHANGED <<clientVars, netVars, reg, sess, made, ran, history>> /\ th[c].pc # "none"
        /\ Thread(c, [NoThread EXCEPT !.pc = "ended"])
    BY <1>2 DEF NoHello
  <2>2. th' \in [Conns -> ThreadRec] /\ CountInv'
    BY <1>1, <2>1, EndedCounts DEF netVars
  <2>3. QED
    BY <2>1, <2>2, ClientSame, NetSame, HistorySame DEF ServerTyped
<1>3. ASSUME NEW c \in Conns, Snapshot(c) PROVE Typed'
  <2> DEFINE i == th[c].s
             s == sess[i]
             t == [th[c] EXCEPT !.pc = "serving"]
  <2>1. /\ th[c].pc = "attached" /\ Thread(c, t)
        /\ UNCHANGED <<clientVars, dialed, link, up, reg, made, ran, history>>
        /\ sess' = [sess EXCEPT ![i] = TakenOver(s, th[c].gen)]
        /\ ToClient(c, <<Hello(th[c].resumed, s.last_seq)>> \o Kept(c, s))
    BY <1>3 DEF Snapshot
  <2>2. i \in Sessions /\ th[c] \in ThreadRec
    BY <2>1, Bounds DEF CountInv, Active, ServerTyped, Sessions
  <2>3. s \in SessionRec
    BY <2>2 DEF ServerTyped
  <2>4. t \in ThreadRec /\ t.pc = "serving" /\ t.s = th[c].s
    BY <2>2 DEF ThreadRec
  <2> HIDE DEF t, s
  <2>5. th' \in [Conns -> ThreadRec] /\ CountInv'
    BY <1>1, <2>1, <2>4, GoesOnCounts DEF Active
  <2>6. TakenOver(s, th[c].gen) \in SessionRec
    BY <2>2, <2>3 DEF TakenOver, SessionRec, ThreadRec
  <2>7. ServerTyped'
    BY <2>1, <2>2, <2>5, <2>6 DEF ServerTyped
  <2>8. Hello(th[c].resumed, s.last_seq) \in ReplyRec /\ s.reply \in ReplyRec
    BY <2>2, <2>3, Replies DEF SessionRec, ThreadRec
  <2>9. <<Hello(th[c].resumed, s.last_seq)>> \in Seq(ReplyRec) /\ Kept(c, s) \in Seq(ReplyRec)
    BY <2>8 DEF Kept
  <2>10. down' \in [Conns -> Seq(ReplyRec)]
    BY <2>1, <2>9, ConcatProperties, ToClientTyped
  <2>11. NetTyped'
    BY <2>1, <2>10 DEF NetTyped
  <2>12. QED
    BY <2>1, <2>5, <2>7, <2>11, ClientSame, HistorySame
<1>4. ASSUME NEW c \in Conns, TakeBatch(c) PROVE Typed'
  <2> DEFINE t == [th[c] EXCEPT !.batch = Head(up[c])]
  <2>1. /\ th[c].pc = "serving" /\ Thread(c, t) /\ up[c] # <<>>
        /\ UNCHANGED <<clientVars, dialed, link, down, reg, sess, made, ran, history>>
        /\ up' = [up EXCEPT ![c] = Tail(@)]
    BY <1>4 DEF TakeBatch
  <2>2. up[c] \in Seq(Seq(Msgs)) /\ th[c] \in ThreadRec
    BY DEF NetTyped, ServerTyped
  <2>3. Head(up[c]) \in Seq(Msgs) /\ Tail(up[c]) \in Seq(Seq(Msgs))
    BY <2>1, <2>2, HeadTailProperties
  <2>4. t \in ThreadRec /\ t.pc = "serving" /\ t.s = th[c].s
    BY <2>1, <2>2, <2>3 DEF ThreadRec
  <2> HIDE DEF t
  <2>5. th' \in [Conns -> ThreadRec] /\ CountInv'
    BY <1>1, <2>1, <2>4, GoesOnCounts DEF Active
  <2>6. QED
    BY <2>1, <2>3, <2>5, ClientSame, HistorySame DEF NetTyped, ServerTyped
<1>5. ASSUME NEW c \in Conns, Execute(c) PROVE Typed'
  <2> DEFINE i == th[c].s
             n == Head(th[c].batch)
             t == [th[c] EXCEPT !.batch = Tail(@)]
             now == Executed(sess[i], n, issued[n])
  <2>1. /\ th[c].pc = "serving" /\ Thread(c, t) /\ th[c].batch # <<>>
        /\ UNCHANGED <<clientVars, dialed, link, up, reg, made, history>>
    BY <1>5 DEF Execute
  <2>2. i \in Sessions /\ th[c] \in ThreadRec
    BY <2>1, Bounds DEF CountInv, Active, ServerTyped, Sessions
  <2>3. n \in Msgs /\ Tail(th[c].batch) \in Seq(Msgs)
    BY <2>1, <2>2, HeadTailProperties DEF ThreadRec
  <2>4. t \in ThreadRec /\ t.pc = "serving" /\ t.s = th[c].s
    BY <2>1, <2>2, <2>3 DEF ThreadRec
  <2> HIDE DEF t
  <2>5. th' \in [Conns -> ThreadRec] /\ CountInv'
    BY <1>1, <2>1, <2>4, GoesOnCounts DEF Active
  <2>6. sess[i] \in SessionRec
    BY <2>2 DEF ServerTyped
  <2>7. now \in SessionRec
    BY <2>3, <2>6, ExecutedTyped
  <2> HIDE DEF n, i
  <2>8. CASE UNCHANGED <<sess, ran, down>>
    BY <2>1, <2>5, <2>8, ClientSame, HistorySame DEF NetTyped, ServerTyped
  <2>9. CASE /\ sess' = [sess EXCEPT ![i] = now] /\ ran' = [ran EXCEPT ![i] = Append(@, n)]
             /\ ToClient(c, IF Waits(issued[n]) THEN <<now.reply>> ELSE <<>>)
    <3> HIDE DEF now
    <3>1. Append(ran[i], n) \in Seq(Msgs)
      BY <2>2, <2>3, AppendProperties DEF ServerTyped
    <3>2. ServerTyped'
      BY <2>1, <2>2, <2>5, <2>7, <2>9, <3>1 DEF ServerTyped
    <3>3. now.reply \in ReplyRec
      BY <2>7 DEF SessionRec
    <3>4. (IF Waits(issued[n]) THEN <<now.reply>> ELSE <<>>) \in Seq(ReplyRec)
      BY <3>3
    <3>5. down' \in [Conns -> Seq(ReplyRec)]
      BY <2>9, <3>4, ToClientTyped
    <3>6. QED
      BY <2>1, <2>5, <3>2, <3>5, ClientSame, HistorySame DEF NetTyped
  <2>10. QED
    BY <1>5, <2>8, <2>9 DEF Execute, i, n
<1>6. ASSUME NEW c \in Conns, Leave(c) PROVE Typed'
  <2>1. /\ th[c].pc # "none" /\ Thread(c, [NoThread EXCEPT !.pc = "ended"])
        /\ link' = [link EXCEPT ![c] = IF @ = "open" THEN "cut" ELSE @]
        /\ up' = [up EXCEPT ![c] = <<>>]
        /\ reg' = IF Detached(c) THEN [reg EXCEPT !.detached = TRUE] ELSE reg
        /\ UNCHANGED <<clientVars, dialed, down, sess, made, ran, history>>
    BY <1>6 DEF Leave
  <2>2. reg' \in [s : 0 .. MaxSessions, gen : 0 .. MaxConns, detached : BOOLEAN]
        /\ reg'.s = reg.s /\ reg'.gen = reg.gen
    BY <2>1 DEF ServerTyped
  <2>3. th' \in [Conns -> ThreadRec] /\ CountInv'
    BY <1>1, <2>1, <2>2, EndedCounts
  <2>4. NetTyped'
    BY <2>1, EmptySeq DEF NetTyped
  <2>5. QED
    BY <2>1, <2>2, <2>3, <2>4, ClientSame, HistorySame DEF ServerTyped
<1>7. ASSUME Removed, UNCHANGED told PROVE HistoryTyped'
  BY <1>7 DEF Removed, HistoryTyped
<1>8. ASSUME reg' = [s |-> None, gen |-> 0, detached |-> FALSE]
      PROVE  reg' \in [s : 0 .. MaxSessions, gen : 0 .. MaxConns, detached : BOOLEAN] /\ reg'.s = None
  BY <1>8, Bounds DEF None
<1>9. CASE Reap
  BY <1>7, <1>8, <1>9, ClientSame, NetSame DEF Reap, ServerTyped, CountInv, Active, netVars
<1>10. CASE Restart
  <2>1. /\ th' = [c \in Conns |-> IF th[c].pc = "none" THEN th[c] ELSE [NoThread EXCEPT !.pc = "ended"]]
        /\ link' = [c \in Conns |-> IF link[c] = "open" THEN "cut" ELSE link[c]]
        /\ up' = [c \in Conns |-> <<>>]
        /\ UNCHANGED <<clientVars, dialed, down, sess, made, ran, told>>
    BY <1>10 DEF Restart
  <2>2. th' \in [Conns -> ThreadRec]
    BY <2>1, NoThreadTyped DEF ServerTyped
  <2>3. NetTyped'
    BY <2>1, EmptySeq DEF NetTyped
  <2>4. CountInv'
    <3>1. ASSUME NEW c \in Conns PROVE ~Active(c)' /\ (c > dialed' => th'[c] = NoThread)
      <4>1. CASE th[c].pc = "none"
        BY <2>1, <4>1 DEF CountInv, Active
      <4>2. CASE th[c].pc # "none"
        BY <2>1, <4>2 DEF CountInv, Active, NoThread
      <4>3. QED
        BY <4>1, <4>2
    <3>2. reg'.s = None
      BY <1>8, <1>10 DEF Restart
    <3>3. QED
      BY <3>1, <3>2 DEF CountInv
  <2>5. QED
    BY <1>7, <1>8, <1>10, <2>1, <2>2, <2>3, <2>4, ClientSame DEF ServerTyped, Restart
<1>11. QED
  BY <1>2, <1>3, <1>4, <1>5, <1>6, <1>9, <1>10, TypeAttach DEF Server

(* Where the client is, of a step of another.                              *)
LEMMA PlaceSame == ASSUME PlaceInv, UNCHANGED <<clientVars, dialed>> PROVE PlaceInv'
  BY DEF PlaceInv, clientVars

(* A connection that is lost keeps the types.                              *)
LEMMA TypeCut == ASSUME TypeInv, NEW c \in Conns, Cut(c) PROVE TypeInv'
<1> USE DEF TypeInv, Typed
<1>1. PICK i \in 0 .. Len(up[c]) : up' = [up EXCEPT ![c] = SubSeq(@, 1, i)]
  BY DEF Cut
<1>2. PICK j \in 0 .. Len(down[c]) : down' = [down EXCEPT ![c] = SubSeq(@, 1, j)]
  BY DEF Cut
<1>3. SubSeq(up[c], 1, i) \in Seq(Seq(Msgs)) /\ SubSeq(down[c], 1, j) \in Seq(ReplyRec)
  BY PrefixTyped DEF NetTyped
<1>4. NetTyped'
  BY <1>1, <1>2, <1>3 DEF NetTyped, Cut
<1>5. QED
  BY <1>4, ClientSame, ServerSame, HistorySame, CountSame, PlaceSame DEF Cut, serverVars

(* The type invariant is inductive.                                        *)
LEMMA TypeStep == TypeInv /\ [Next]_vars => TypeInv'
<1> SUFFICES ASSUME TypeInv, [Next]_vars PROVE TypeInv'
  OBVIOUS
<1>1. CASE Client
  BY <1>1, TypeClient, PlaceClient DEF TypeInv
<1>2. CASE Server
  <2>1. UNCHANGED <<clientVars, dialed>>
    BY <1>2 DEF Server, Attach, NoHello, Snapshot, TakeBatch, Execute, Leave, Reap, Restart, netVars
  <2>2. QED
    BY <1>2, <2>1, TypeServer, PlaceSame DEF TypeInv
<1>3. CASE UNCHANGED vars
  BY <1>3, ClientSame, NetSame, ServerSame, HistorySame, CountSame, PlaceSame
     DEF vars, TypeInv, Typed, netVars, serverVars
<1>4. QED
  BY <1>1, <1>2, <1>3, TypeCut DEF Next

(* Every variable keeps its type; a socket is in use where one is read,    *)
(* and what is recovered was had.  (Connection, serve_connection and       *)
(* Registry.)                                                              *)
THEOREM OpStreamTyped == Spec => []TypeOK
<1>1. Init => TypeInv
  BY TypeInit, TypeParts DEF TypeInv, Typed
<1>2. TypeInv => TypeOK
  BY TypeParts DEF TypeInv, Typed
<1>3. QED
  BY <1>1, <1>2, TypeStep, PTL DEF Spec

-----------------------------------------------------------------------------
(* Sessions.                                                               *)

(* A message that is applied, and not passed over.                         *)
Applies(c) == Execute(c) /\ ~AlreadyApplied(sess[th[c].s], Head(th[c].batch))

(* What a session applied, and what it says of it, as it was.              *)
SessionsKeep ==
  /\ ran' = ran
  /\ \A s \in Sessions : /\ sess'[s].last_seq = sess[s].last_seq /\ sess'[s].reply = sess[s].reply
                         /\ sess'[s].err = sess[s].err

(* What the client's steps leave alone on the server: all but the thread   *)
(* of a connection that is dialed.                                         *)
LEMMA ClientServer ==
  ASSUME TypeInv, Client
  PROVE  /\ UNCHANGED <<reg, sess, made, ran>> /\ past'.removed = past.removed
         /\ UNCHANGED <<th, dialed>> \/ (Dial /\ UNCHANGED <<cl, issued, up, down, past>>)
<1> USE DEF TypeInv, Typed
<1>1. ASSUME NEW k \in Kinds, Call(k) PROVE UNCHANGED <<netVars, serverVars>> /\ past'.removed = past.removed
  BY <1>1, OverflowTyped DEF Call
<1>2. ASSUME Unreached PROVE past' = past
  BY <1>2 DEF Unreached
<1>3. ASSUME NEW what \in {"gave_up", "lost"}, Raise(what) PROVE past'.removed = past.removed
  BY <1>3 DEF Raise, HistoryTyped
<1>4. ASSUME Receive PROVE UNCHANGED <<dialed, serverVars>> /\ past'.removed = past.removed
  BY <1>4, OverflowTyped DEF Receive
<1>5. CASE Lost
  BY <1>3, <1>5 DEF Lost, serverVars
<1>6. CASE FlushDials \/ Redial
  BY <1>6 DEF FlushDials, Redial, history
<1>7. QED
  BY <1>1, <1>2, <1>3, <1>4, <1>5, <1>6
     DEF Client, FlushCall, FlushRefused, FlushWrites, FlushFails, HelloFails, HelloLost, HelloFlush,
         RedialRefused, RehelloFails, GivesUp, ResumeMissing, Resume, OldReply, ReceiveFails,
         netVars, serverVars, history

(* A session changes only when a thread applies a message.                 *)
LEMMA SessionStep ==
  ASSUME TypeInv, [Next]_vars
  PROVE  SessionsKeep \/ \E c \in Conns : Applies(c)
<1>1. CASE Client
  BY <1>1, ClientServer DEF SessionsKeep
<1>2. ASSUME UNCHANGED <<sess, ran>> PROVE SessionsKeep
  BY <1>2 DEF SessionsKeep
<1>3. ASSUME NEW c \in Conns, Snapshot(c) PROVE SessionsKeep
  <2>1. sess' = [sess EXCEPT ![th[c].s] = TakenOver(sess[th[c].s], th[c].gen)] /\ ran' = ran
    BY <1>3 DEF Snapshot
  <2>2. \A s \in Sessions : sess[s] \in SessionRec
    BY DEF TypeInv, Typed, ServerTyped
  <2>3. QED
    BY <2>1, <2>2 DEF SessionsKeep, TakenOver, SessionRec, TypeInv, Typed, ServerTyped
<1>4. ASSUME NEW c \in Conns, Execute(c) PROVE Applies(c) \/ SessionsKeep
  BY <1>2, <1>4 DEF Execute, Applies
<1>5. CASE Server
  BY <1>2, <1>3, <1>4, <1>5 DEF Server, Attach, NoHello, TakeBatch, Leave, Reap, Restart
<1>6. CASE UNCHANGED vars \/ \E c \in Conns : Cut(c)
  BY <1>2, <1>6 DEF vars, Cut, serverVars
<1>7. QED
  BY <1>1, <1>5, <1>6 DEF Next

(* Message n is applied in session i by the thread of c.                   *)
Applied(c, i, n) ==
  /\ i \in Sessions /\ n \in Msgs /\ sess[i] \in SessionRec
  /\ i = th[c].s /\ n = Head(th[c].batch)
  /\ th[c].pc = "serving" /\ th[c].batch # <<>> /\ MayServe(c) /\ sess[i].last_seq < n
  /\ sess'[i] = Executed(sess[i], n, issued[n]) /\ ran'[i] = Append(ran[i], n)
  /\ \A s \in Sessions \ {i} : sess'[s] = sess[s] /\ ran'[s] = ran[s]
  /\ Thread(c, [th[c] EXCEPT !.batch = Tail(@)])
  /\ ToClient(c, IF Waits(issued[n]) THEN <<sess'[i].reply>> ELSE <<>>)
  /\ UNCHANGED <<clientVars, dialed, link, up, reg, made, history>>

(* Session.execute, of a message that is not passed over.                  *)
LEMMA AppliesEffect ==
  ASSUME TypeInv, NEW c \in Conns, Applies(c)
  PROVE  Applied(c, th[c].s, Head(th[c].batch))
<1> USE DEF TypeInv, Typed
<1> DEFINE i == th[c].s
           n == Head(th[c].batch)
           now == Executed(sess[i], n, issued[n])
<1>1. /\ th[c].pc = "serving" /\ th[c].batch # <<>> /\ MayServe(c)
      /\ Thread(c, [th[c] EXCEPT !.batch = Tail(@)])
      /\ UNCHANGED <<clientVars, dialed, link, up, reg, made, history>>
  BY DEF Applies, Execute
<1>2. i \in Sessions /\ th[c] \in ThreadRec
  BY <1>1, Bounds DEF CountInv, Active, ServerTyped, Sessions
<1>3. n \in Msgs
  BY <1>1, <1>2, HeadTailProperties DEF ThreadRec
<1>4. sess[i] \in SessionRec
  BY <1>2 DEF ServerTyped
<1>5. sess[i].last_seq < n
  BY <1>3, <1>4, Bounds DEF Applies, AlreadyApplied, SessionRec, Msgs
<1>6. /\ sess' = [sess EXCEPT ![i] = now] /\ ran' = [ran EXCEPT ![i] = Append(@, n)]
      /\ ToClient(c, IF Waits(issued[n]) THEN <<now.reply>> ELSE <<>>)
  BY DEF Applies, Execute
<1> HIDE DEF now
<1>7. sess'[i] = now /\ ran'[i] = Append(ran[i], n)
      /\ \A s \in Sessions \ {i} : sess'[s] = sess[s] /\ ran'[s] = ran[s]
  BY <1>2, <1>6 DEF ServerTyped
<1>8. QED
  BY <1>1, <1>2, <1>3, <1>4, <1>5, <1>6, <1>7 DEF now, Applied

(* What a session applied rises, and ends with what it counts as applied.  *)
Rising(q)  == \A i, j \in DOMAIN q : i < j => q[i] < q[j]
UpTo(q, n) == \A i \in DOMAIN q : q[i] <= n
RanInv ==
  \A s \in Sessions :
    /\ Rising(ran[s]) /\ UpTo(ran[s], sess[s].last_seq)
    /\ sess[s].last_seq # 0 => \E i \in DOMAIN ran[s] : ran[s][i] = sess[s].last_seq

(* A rising sequence with a later message rises.                           *)
LEMMA RisingAppend ==
  ASSUME NEW q \in Seq(Msgs), NEW m \in Nat, NEW n \in Msgs, Rising(q), UpTo(q, m), m < n
  PROVE  Rising(Append(q, n)) /\ UpTo(Append(q, n), n) /\ \E i \in DOMAIN Append(q, n) : Append(q, n)[i] = n
<1>1. Len(q) \in Nat /\ DOMAIN q = 1 .. Len(q) /\ \A i \in DOMAIN q : q[i] \in Nat
  BY LenProperties, ElementOfSeq, Bounds DEF Msgs
<1>2. DOMAIN Append(q, n) = 1 .. Len(q) + 1 /\ Append(q, n)[Len(q) + 1] = n
      /\ \A i \in 1 .. Len(q) : Append(q, n)[i] = q[i]
  BY <1>1, AppendProperties
<1>3. n \in Nat
  BY Bounds DEF Msgs
<1>4. ASSUME NEW i \in DOMAIN Append(q, n) PROVE i = Len(q) + 1 \/ (i \in DOMAIN q /\ i < Len(q) + 1)
  BY <1>1, <1>2
<1>5. Rising(Append(q, n))
  BY <1>1, <1>2, <1>3, <1>4 DEF Rising, UpTo
<1>6. QED
  BY <1>1, <1>2, <1>3, <1>4, <1>5 DEF UpTo

(* At-most-once: what a session applied rises, whichever thread applies.   *)
LEMMA RanStep == TypeInv /\ RanInv /\ [Next]_vars => RanInv'
<1> SUFFICES ASSUME TypeInv, RanInv, [Next]_vars PROVE RanInv'
  OBVIOUS
<1>1. CASE SessionsKeep
  BY <1>1 DEF SessionsKeep, RanInv
<1>2. ASSUME NEW c \in Conns, Applies(c) PROVE RanInv'
  <2> DEFINE i == th[c].s
             n == Head(th[c].batch)
  <2>1. Applied(c, i, n)
    BY <1>2, AppliesEffect
  <2> HIDE DEF i, n
  <2>2. sess'[i].last_seq = n /\ n \in Msgs /\ sess[i].last_seq \in Nat /\ ran[i] \in Seq(Msgs)
    BY <2>1, ExecutedTyped, Bounds DEF Applied, TypeInv, Typed, ServerTyped, SessionRec
  <2>3. Rising(ran'[i]) /\ UpTo(ran'[i], n) /\ \E j \in DOMAIN ran'[i] : ran'[i][j] = n
    <3>1. Rising(ran[i]) /\ UpTo(ran[i], sess[i].last_seq) /\ ran'[i] = Append(ran[i], n) /\ sess[i].last_seq < n
      BY <2>1 DEF Applied, RanInv
    <3>2. Rising(Append(ran[i], n)) /\ UpTo(Append(ran[i], n), n)
          /\ \E j \in DOMAIN Append(ran[i], n) : Append(ran[i], n)[j] = n
      BY <2>2, <3>1, RisingAppend
    <3>3. QED
      BY <3>1, <3>2
  <2>4. ASSUME NEW s \in Sessions
        PROVE  /\ Rising(ran'[s]) /\ UpTo(ran'[s], sess'[s].last_seq)
               /\ sess'[s].last_seq # 0 => \E j \in DOMAIN ran'[s] : ran'[s][j] = sess'[s].last_seq
    <3>1. CASE s = i
      BY <2>2, <2>3, <3>1
    <3>2. CASE s # i
      BY <2>1, <3>2 DEF Applied, RanInv
    <3>3. QED
      BY <3>1, <3>2
  <2>5. QED
    BY <2>4 DEF RanInv, Rising, UpTo
<1>3. QED
  BY <1>1, <1>2, SessionStep

(* No session has applied anything yet.                                    *)
LEMMA RanInit == Init => RanInv
<1> SUFFICES ASSUME Init PROVE RanInv
  OBVIOUS
<1>1. \A s \in Sessions : ran[s] = <<>> /\ sess[s].last_seq = 0
  BY DEF Init, NewSession
<1>2. QED
  BY <1>1 DEF RanInv, Rising, UpTo

(* A session applies each message at most once and in the order they were  *)
(* made, whichever of its connections bring them.  (Session.execute and    *)
(* the generation check of serve_connection.)                              *)
THEOREM AppliedInOrder == Spec => []RunsInOrder
<1>1. Init => TypeInv /\ RanInv
  BY TypeInit, TypeParts, RanInit DEF TypeInv, Typed
<1>2. TypeInv /\ RanInv /\ [Next]_vars => (TypeInv /\ RanInv)'
  BY TypeStep, RanStep
<1>3. RanInv => RunsInOrder
  BY DEF RanInv, RunsInOrder, Rising
<1>4. QED
  BY <1>1, <1>2, <1>3, PTL DEF Spec

-----------------------------------------------------------------------------
(* Which session a connection serves, and which generation of it.          *)

(* A thread that had a session before the step has the same, of the same   *)
(* generation.                                                             *)
Stays(c) ==
  Active(c)' => /\ Active(c) /\ th'[c].s = th[c].s /\ th'[c].gen = th[c].gen
                /\ th'[c].pc = th[c].pc \/ Snapshot(c)

(* Only Registry.attach gives a thread a session.                          *)
LEMMA StaysStep ==
  ASSUME TypeInv, [Next]_vars, \A c \in Conns : ~Attach(c)
  PROVE  \A c \in Conns : Stays(c)
<1> USE DEF TypeInv, Typed
<1>1. CASE UNCHANGED th
  BY <1>1 DEF Stays, Active
<1>2. ASSUME Dial PROVE \A c \in Conns : Stays(c)
  BY <1>2 DEF Stays, Active, Dial, ServerTyped, NoThread
<1>3. ASSUME NEW d \in Conns, Thread(d, [NoThread EXCEPT !.pc = "ended"]) PROVE \A c \in Conns : Stays(c)
  BY <1>3 DEF Stays, Active, Thread, ServerTyped, NoThread
<1>4. ASSUME NEW d \in Conns, NEW t, Thread(d, t), t.s = th[d].s, t.gen = th[d].gen, Active(d),
             t.pc = th[d].pc \/ Snapshot(d)
      PROVE  \A c \in Conns : Stays(c)
  BY <1>4 DEF Stays, Active, Thread, ServerTyped
<1>5. ASSUME NEW d \in Conns PROVE th[d] \in ThreadRec
  BY DEF ServerTyped
<1>6. ASSUME NEW d \in Conns, Snapshot(d) \/ TakeBatch(d) \/ Execute(d) PROVE \A c \in Conns : Stays(c)
  <2>1. CASE Snapshot(d)
    BY <1>4, <1>5, <2>1 DEF Snapshot, Active, ThreadRec
  <2>2. CASE TakeBatch(d)
    BY <1>4, <1>5, <2>2 DEF TakeBatch, Active, ThreadRec
  <2>3. CASE Execute(d)
    BY <1>4, <1>5, <2>3 DEF Execute, Active, ThreadRec
  <2>4. QED
    BY <1>6, <2>1, <2>2, <2>3
<1>7. CASE Restart
  BY <1>7 DEF Restart, Stays, Active, NoThread
<1>8. CASE Server
  BY <1>1, <1>3, <1>6, <1>7, <1>8 DEF Server, NoHello, Leave, Reap
<1>9. CASE Client
  BY <1>1, <1>2, <1>9, ClientServer
<1>10. CASE UNCHANGED vars \/ \E c \in Conns : Cut(c)
  BY <1>1, <1>10 DEF vars, Cut, serverVars
<1>11. QED
  BY <1>8, <1>9, <1>10 DEF Next

(* The registry's entry as it was, or detached by a thread that leaves; or *)
(* none, of a session that is removed.                                     *)
Entry ==
  \/ UNCHANGED reg /\ past'.removed = past.removed
  \/ /\ past'.removed = past.removed /\ reg'.s = reg.s /\ reg'.gen = reg.gen
     /\ \E c \in Conns : /\ th[c].pc = "serving" /\ Detached(c) /\ ~Active(c)'
                         /\ UNCHANGED sess /\ \A d \in Conns \ {c} : th'[d] = th[d]
  \/ reg'.s = None /\ past'.removed

(* What the other steps do to the registry's entry.                        *)
LEMMA EntryStep ==
  ASSUME TypeInv, [Next]_vars, \A c \in Conns : ~Attach(c)
  PROVE  Entry /\ made' = made
<1> USE DEF TypeInv, Typed
<1>1. CASE Client
  BY <1>1, ClientServer DEF Entry
<1>2. ASSUME NEW c \in Conns, Leave(c) PROVE Entry /\ made' = made
  <2>1. CASE Detached(c)
    <3>1. reg'.s = reg.s /\ reg'.gen = reg.gen /\ past' = past
      BY <1>2, <2>1 DEF Leave, ServerTyped, history
    <3>2. ~Active(c)' /\ \A d \in Conns \ {c} : th'[d] = th[d]
      BY <1>2 DEF Leave, Thread, Active, NoThread, ServerTyped
    <3>3. QED
      BY <1>2, <2>1, <3>1, <3>2 DEF Entry, Leave
  <2>2. CASE ~Detached(c)
    BY <1>2, <2>2 DEF Entry, Leave, history
  <2>3. QED
    BY <2>1, <2>2
<1>3. CASE Reap \/ Restart
  BY <1>3 DEF Reap, Restart, Removed, Entry, HistoryTyped
<1>4. CASE Server
  BY <1>2, <1>3, <1>4 DEF Server, NoHello, Snapshot, TakeBatch, Execute, history, Entry
<1>5. CASE UNCHANGED vars \/ \E c \in Conns : Cut(c)
  BY <1>5 DEF vars, Cut, serverVars, history, Entry
<1>6. QED
  BY <1>1, <1>4, <1>5 DEF Next

(* The generation of each session as it was, but for that of the session   *)
(* whose snapshot is taken.                                                *)
LEMMA GenStep ==
  ASSUME TypeInv, [Next]_vars, \A c \in Conns : ~Snapshot(c)
  PROVE  \A s \in Sessions : sess'[s].gen = sess[s].gen
<1> USE DEF TypeInv, Typed
<1>1. CASE UNCHANGED sess
  BY <1>1
<1>2. ASSUME NEW c \in Conns, Execute(c) PROVE \A s \in Sessions : sess'[s].gen = sess[s].gen
  <2>1. CASE Applies(c)
    <3> DEFINE i == th[c].s
               n == Head(th[c].batch)
    <3>1. Applied(c, i, n)
      BY <2>1, AppliesEffect
    <3> HIDE DEF i, n
    <3>2. QED
      BY <3>1, ExecutedTyped DEF Applied
  <2>2. CASE ~Applies(c)
    BY <1>1, <1>2, <2>2 DEF Applies, Execute
  <2>3. QED
    BY <2>1, <2>2
<1>3. CASE Client
  BY <1>1, <1>3, ClientServer
<1>4. CASE Server
  BY <1>1, <1>2, <1>4 DEF Server, Attach, NoHello, TakeBatch, Leave, Reap, Restart
<1>5. CASE UNCHANGED vars \/ \E c \in Conns : Cut(c)
  BY <1>1, <1>5 DEF vars, Cut, serverVars
<1>6. QED
  BY <1>3, <1>4, <1>5 DEF Next

(* The thread that takes its snapshot serves from then on, and the session *)
(* is its, unless a newer one took it.                                     *)
Snapped(c) ==
  /\ th[c].pc = "attached" /\ th'[c].pc = "serving"
  /\ th'[c].s = th[c].s /\ th'[c].gen = th[c].gen /\ th'[c].resumed = th[c].resumed
  /\ th'[c].batch = th[c].batch /\ th'[c].acked = th[c].acked
  /\ \A d \in Conns : d # c => th'[d] = th[d]
  /\ th[c].s \in Sessions
  /\ \A s \in Sessions : s # th[c].s => sess'[s] = sess[s]
  /\ sess'[th[c].s].gen = IF th[c].gen > sess[th[c].s].gen THEN th[c].gen ELSE sess[th[c].s].gen

(* The snapshot of serve_connection takes the session over.                *)
LEMMA SnapshotEffect ==
  ASSUME TypeInv, NEW c \in Conns, Snapshot(c)
  PROVE  Snapped(c)
<1> USE DEF TypeInv, Typed
<1>1. th[c].pc = "attached" /\ th' = [th EXCEPT ![c] = [th[c] EXCEPT !.pc = "serving"]]
      /\ sess' = [sess EXCEPT ![th[c].s] = TakenOver(sess[th[c].s], th[c].gen)]
  BY DEF Snapshot, Thread
<1>2. th[c].s \in Sessions
  BY <1>1, Bounds DEF CountInv, Active, ServerTyped, Sessions
<1>3. sess[th[c].s] \in SessionRec
  BY <1>2 DEF ServerTyped
<1>4. QED
  BY <1>1, <1>2, <1>3 DEF ServerTyped, TakenOver, SessionRec, ThreadRec, Snapped

(* A new thread of the session, of a new generation; or of a new session.  *)
Attached(c) ==
  /\ th[c].pc = "accepted" /\ th'[c].pc = "attached"
  /\ \A d \in Conns : d # c => th'[d] = th[d]
  /\ th'[c].batch = th[c].batch /\ th'[c].acked = th[c].acked
  /\ \/ /\ reg.s # None /\ th'[c].s = reg.s /\ th'[c].gen = reg.gen + 1 /\ th'[c].resumed
        /\ reg'.s = reg.s /\ reg'.gen = reg.gen + 1 /\ ~reg'.detached /\ made' = made
     \/ /\ reg.s = None /\ th'[c].s = made + 1 /\ made' = made + 1 /\ th'[c].gen = th[c].gen
        /\ th'[c].resumed = th[c].resumed
        /\ reg'.s = made + 1 /\ reg'.gen = 0 /\ ~reg'.detached
  /\ UNCHANGED <<clientVars, netVars, sess, ran, history>>

(* Registry.attach resumes the session, or makes one.                      *)
LEMMA AttachEffect ==
  ASSUME TypeInv, NEW c \in Conns, Attach(c)
  PROVE  Attached(c)
<1> USE DEF TypeInv, Typed, Attached
<1>1. th[c] \in ThreadRec /\ th \in [Conns -> ThreadRec]
  BY DEF ServerTyped
<1>2. CASE /\ reg.s # None
           /\ reg' = [reg EXCEPT !.gen = @ + 1, !.detached = FALSE]
           /\ Thread(c, [th[c] EXCEPT !.pc = "attached", !.s = reg.s, !.resumed = TRUE, !.gen = reg.gen + 1])
           /\ UNCHANGED made
  BY <1>1, <1>2 DEF Attach, Thread, ThreadRec, ServerTyped
<1>3. CASE /\ reg.s = None /\ made' = made + 1
           /\ reg' = [s |-> made', gen |-> 0, detached |-> FALSE]
           /\ Thread(c, [th[c] EXCEPT !.pc = "attached", !.s = made'])
  BY <1>1, <1>3 DEF Attach, Thread, ThreadRec
<1>4. QED
  BY <1>2, <1>3 DEF Attach

(* A thread without a session has nothing; only one that serves has a      *)
(* batch.                                                                  *)
FreshInv ==
  \A c \in Conns : /\ ~Active(c) => th[c].gen = 0 /\ ~th[c].resumed
                   /\ th[c].pc # "serving" => th[c].batch = <<>>

(* A thread without a session goes on having nothing.                      *)
LEMMA FreshStep == TypeInv /\ FreshInv /\ [Next]_vars => FreshInv'
<1> SUFFICES ASSUME TypeInv, FreshInv, [Next]_vars PROVE FreshInv'
  OBVIOUS
<1> USE DEF TypeInv, Typed
<1>1. CASE UNCHANGED th
  BY <1>1 DEF FreshInv, Active
<1>2. ASSUME Dial PROVE FreshInv'
  BY <1>2 DEF FreshInv, Active, Dial, ServerTyped, NoThread
<1>3. ASSUME NEW d \in Conns, Thread(d, [NoThread EXCEPT !.pc = "ended"]) PROVE FreshInv'
  BY <1>3 DEF FreshInv, Active, Thread, ServerTyped, NoThread
<1>4. ASSUME NEW d \in Conns, NEW t, Thread(d, t), t.pc = "serving" PROVE FreshInv'
  BY <1>4 DEF FreshInv, Active, Thread, ServerTyped
<1>5. ASSUME NEW d \in Conns PROVE th[d] \in ThreadRec
  BY DEF ServerTyped
<1>6. ASSUME NEW d \in Conns, Snapshot(d) \/ TakeBatch(d) \/ Execute(d) PROVE FreshInv'
  <2>1. CASE Snapshot(d)
    BY <1>4, <1>5, <2>1 DEF Snapshot, ThreadRec
  <2>2. CASE TakeBatch(d)
    BY <1>4, <1>5, <2>2 DEF TakeBatch, ThreadRec
  <2>3. CASE Execute(d)
    BY <1>4, <1>5, <2>3 DEF Execute, ThreadRec
  <2>4. QED
    BY <1>6, <2>1, <2>2, <2>3
<1>7. CASE Restart
  BY <1>7 DEF Restart, FreshInv, Active, NoThread
<1>8. ASSUME NEW d \in Conns, Attach(d) PROVE FreshInv'
  BY <1>8, AttachEffect DEF FreshInv, Active, Attached
<1>9. CASE Server
  BY <1>1, <1>3, <1>6, <1>7, <1>8, <1>9 DEF Server, NoHello, Leave, Reap
<1>10. CASE Client
  BY <1>1, <1>2, <1>10, ClientServer
<1>11. CASE UNCHANGED vars \/ \E c \in Conns : Cut(c)
  BY <1>1, <1>11 DEF vars, Cut, serverVars
<1>12. QED
  BY <1>9, <1>10, <1>11 DEF Next

(* The threads of a session are of different generations, none newer than  *)
(* the registry's, nor than the session's once they serve.                 *)
GenInv ==
  /\ \A c, d \in Conns :
       Active(c) /\ Active(d) /\ th[c].s = th[d].s /\ th[c].gen = th[d].gen => c = d
  /\ \A c \in Conns : Active(c) /\ th[c].s = reg.s => th[c].gen <= reg.gen
  /\ reg.s # None => sess[reg.s].gen <= reg.gen
  /\ \A c \in Conns : th[c].pc = "serving" => th[c].gen <= sess[th[c].s].gen
  /\ \A s \in Sessions : s > made => sess[s] = NewSession /\ ran[s] = <<>>

(* A session that is not made yet stays as it is.                          *)
LEMMA NewSessions ==
  ASSUME TypeInv, GenInv, [Next]_vars
  PROVE  \A s \in Sessions : s > made' => sess'[s] = NewSession /\ ran'[s] = <<>>
<1> USE DEF TypeInv, Typed
<1>1. made \in Nat
  BY Bounds DEF ServerTyped
<1>2. ASSUME UNCHANGED <<sess, ran>>, made' \in {made, made + 1}
      PROVE  \A s \in Sessions : s > made' => sess'[s] = NewSession /\ ran'[s] = <<>>
  BY <1>1, <1>2, Bounds DEF GenInv, Sessions
<1>3. ASSUME NEW c \in Conns, Attach(c) PROVE UNCHANGED <<sess, ran>> /\ made' \in {made, made + 1}
  BY <1>3, AttachEffect DEF Attached
<1>4. ASSUME NEW c \in Conns, Snapshot(c)
      PROVE  \A s \in Sessions : s > made' => sess'[s] = NewSession /\ ran'[s] = <<>>
  <2>1. Snapped(c) /\ made' = made /\ ran' = ran
    BY <1>4, SnapshotEffect DEF Snapshot
  <2>2. th[c].s <= made
    BY <2>1 DEF CountInv, Active, Snapped
  <2>3. ASSUME NEW s \in Sessions, s > made' PROVE s # th[c].s
    BY <1>1, <2>1, <2>2, <2>3, Bounds DEF Sessions, Snapped
  <2>4. QED
    BY <2>1, <2>3 DEF GenInv, Snapped
<1>5. ASSUME NEW c \in Conns, Applies(c)
      PROVE  \A s \in Sessions : s > made' => sess'[s] = NewSession /\ ran'[s] = <<>>
  <2> DEFINE i == th[c].s
             n == Head(th[c].batch)
  <2>1. Applied(c, i, n)
    BY <1>5, AppliesEffect
  <2>2. i <= made /\ made' = made
    BY <2>1 DEF CountInv, Active, Applied
  <2> HIDE DEF i, n
  <2>3. i \in Sessions /\ \A s \in Sessions \ {i} : sess'[s] = sess[s] /\ ran'[s] = ran[s]
    BY <2>1 DEF Applied
  <2>4. ASSUME NEW s \in Sessions, s > made' PROVE s # i
    BY <1>1, <2>2, <2>3, <2>4, Bounds DEF Sessions
  <2>5. QED
    BY <2>2, <2>3, <2>4 DEF GenInv
<1>6. ASSUME NEW c \in Conns, Execute(c), ~Applies(c) PROVE UNCHANGED <<sess, ran, made>>
  BY <1>6 DEF Execute, Applies
<1>7. CASE Client
  BY <1>2, <1>7, ClientServer
<1>8. CASE Server
  BY <1>2, <1>3, <1>4, <1>5, <1>6, <1>8 DEF Server, NoHello, TakeBatch, Leave, Reap, Restart
<1>9. CASE UNCHANGED vars \/ \E c \in Conns : Cut(c)
  BY <1>2, <1>9 DEF vars, Cut, serverVars
<1>10. QED
  BY <1>7, <1>8, <1>9 DEF Next

(* The types of generations, and of a thread's session.                    *)
LEMMA GenTypes ==
  ASSUME TypeInv
  PROVE  /\ \A c \in Conns : th[c].gen \in Nat /\ th[c] \in ThreadRec
         /\ \A c \in Conns : Active(c) => th[c].s \in Sessions /\ th[c].s <= made /\ th[c].s # None
         /\ reg.gen \in Nat /\ made \in Nat /\ reg.s \in {None, made}
         /\ \A s \in Sessions : sess[s].gen \in Nat /\ sess[s].last_seq \in Nat
         /\ reg.s # None => reg.s \in Sessions
         /\ past.removed \in BOOLEAN /\ reg.detached \in BOOLEAN
<1> USE DEF TypeInv, Typed
<1>1. \A c \in Conns : th[c].gen \in Nat /\ th[c] \in ThreadRec
  BY Bounds DEF ServerTyped, ThreadRec
<1>2. made \in Nat /\ made <= MaxSessions /\ reg.gen \in Nat /\ reg.s \in 0 .. MaxSessions /\ reg.detached \in BOOLEAN
  BY Bounds DEF ServerTyped
<1>3. \A s \in Sessions : sess[s].gen \in Nat /\ sess[s].last_seq \in Nat
  BY Bounds DEF ServerTyped, SessionRec
<1>4. ASSUME NEW c \in Conns, Active(c) PROVE th[c].s \in Sessions /\ th[c].s <= made /\ th[c].s # None
  BY <1>2, <1>4, Bounds DEF CountInv, Sessions, None
<1>5. reg.s # None => reg.s \in Sessions
  BY <1>2, Bounds DEF None, Sessions
<1>6. QED
  BY <1>1, <1>2, <1>3, <1>4, <1>5 DEF CountInv, HistoryTyped

(* Generations stay distinct, and none is newer than the registry's.       *)
LEMMA GenStepInv == TypeInv /\ FreshInv /\ GenInv /\ [Next]_vars => GenInv'
<1> SUFFICES ASSUME TypeInv, FreshInv, GenInv, [Next]_vars PROVE GenInv'
  OBVIOUS
<1>0. TypeInv' /\ \A s \in Sessions : s > made' => sess'[s] = NewSession /\ ran'[s] = <<>>
  BY TypeStep, NewSessions
<1>1. ASSUME NEW c \in Conns, Attach(c) PROVE GenInv'
  <2>1. \A d \in Conns : d # c => (Active(d)' <=> Active(d)) /\ th'[d] = th[d]
    BY <1>1, AttachEffect DEF Active, Attached
  <2>2. ~Active(c) /\ th'[c].pc = "attached" /\ sess' = sess
    BY <1>1, AttachEffect DEF Active, Attached
  <2>3. CASE /\ reg.s # None /\ th'[c].s = reg.s /\ th'[c].gen = reg.gen + 1
             /\ reg'.s = reg.s /\ reg'.gen = reg.gen + 1
    <3>1. \A d \in Conns : d # c /\ Active(d) /\ th[d].s = reg.s => th[d].gen < th'[c].gen /\ th[d].gen \in Nat
      BY <2>3, GenTypes DEF GenInv
    <3>2. sess[reg.s].gen <= reg.gen + 1
      BY <2>3, GenTypes DEF GenInv
    <3>3. \A d, e \in Conns :
            Active(d)' /\ Active(e)' /\ th'[d].s = th'[e].s /\ th'[d].gen = th'[e].gen => d = e
      <4>1. ASSUME NEW d \in Conns, Active(d)', d # c, th'[d].s = th'[c].s PROVE th'[d].gen < th'[c].gen /\ th'[d].gen \in Nat
        BY <2>1, <2>3, <3>1, <4>1
      <4>2. th'[c].gen \in Nat
        BY <2>3, GenTypes
      <4>3. QED
        BY <2>1, <4>1, <4>2 DEF GenInv
    <3>4. \A d \in Conns : Active(d)' /\ th'[d].s = reg'.s => th'[d].gen <= reg'.gen
      BY <2>1, <2>3, <3>1, GenTypes
    <3>5. \A d \in Conns : th'[d].pc = "serving" => th'[d].gen <= sess'[th'[d].s].gen
      BY <2>1, <2>2 DEF GenInv
    <3>6. reg'.s # None => sess'[reg'.s].gen <= reg'.gen
      BY <2>2, <2>3, <3>2
    <3>7. QED
      BY <1>0, <3>3, <3>4, <3>5, <3>6 DEF GenInv
  <2>4. CASE /\ reg.s = None /\ th'[c].s = made + 1 /\ made' = made + 1 /\ reg'.s = made + 1 /\ reg'.gen = 0
             /\ th'[c].gen = th[c].gen
    <3>1. \A d \in Conns : d # c /\ Active(d) => th[d].s # made + 1
      BY GenTypes
    <3>2. th[c].gen = 0
      BY <2>2 DEF FreshInv
    <3>3. made + 1 \in Sessions /\ sess[made + 1].gen = 0
      <4>1. reg'.s \in Sessions /\ reg'.s # None
        BY <1>0, <2>4, GenTypes DEF TypeInv, Typed, ServerTyped, Sessions, None
      <4>2. QED
        BY <2>4, <4>1, GenTypes DEF GenInv, NewSession
    <3>4. QED
      BY <1>0, <2>1, <2>2, <2>4, <3>1, <3>2, <3>3, GenTypes DEF GenInv
  <2>5. QED
    BY <1>1, <2>3, <2>4, AttachEffect DEF Attached
<1>2. CASE \A c \in Conns : ~Attach(c)
  <2>1. \A c \in Conns : Stays(c)
    BY <1>2, StaysStep
  <2>2. Entry /\ made' = made
    BY <1>2, EntryStep
  <2>3. reg'.s # None => reg'.s = reg.s /\ reg'.gen = reg.gen
    BY <2>2 DEF Entry
  <2>4. \A c, d \in Conns :
          Active(c)' /\ Active(d)' /\ th'[c].s = th'[d].s /\ th'[c].gen = th'[d].gen => c = d
    BY <2>1 DEF Stays, GenInv
  <2>5. ASSUME NEW c \in Conns, Active(c)', th'[c].s = reg'.s PROVE th'[c].gen <= reg'.gen
    <3>1. Active(c) /\ th'[c].s = th[c].s /\ th'[c].gen = th[c].gen
      BY <2>1, <2>5 DEF Stays
    <3>2. reg'.s # None
      BY <2>5, <3>1, GenTypes
    <3>3. QED
      BY <2>3, <2>5, <3>1, <3>2 DEF GenInv
  <2>6. \A s \in Sessions : sess'[s].gen >= sess[s].gen /\ sess'[s].gen \in Nat
    <3>1. CASE \A c \in Conns : ~Snapshot(c)
      BY <3>1, GenStep, GenTypes
    <3>2. ASSUME NEW c \in Conns, Snapshot(c), NEW s \in Sessions
          PROVE  sess'[s].gen >= sess[s].gen /\ sess'[s].gen \in Nat
      <4>1. CASE s = th[c].s
        BY <3>2, <4>1, SnapshotEffect, GenTypes DEF Snapped
      <4>2. CASE s # th[c].s
        BY <3>2, <4>2, SnapshotEffect, GenTypes DEF Snapped
      <4>3. QED
        BY <4>1, <4>2
    <3>3. QED
      BY <3>1, <3>2
  <2>7. ASSUME reg'.s # None PROVE sess'[reg'.s].gen <= reg'.gen
    <3>1. reg'.s = reg.s /\ reg'.gen = reg.gen /\ reg.s # None /\ reg.s \in Sessions
      BY <2>3, <2>7, GenTypes
    <3>2. CASE \A c \in Conns : ~Snapshot(c)
      BY <3>1, <3>2, GenStep DEF GenInv
    <3>3. ASSUME NEW c \in Conns, Snapshot(c) PROVE sess'[reg.s].gen <= reg.gen
      <4>1. CASE reg.s = th[c].s
        BY <3>1, <3>3, <4>1, SnapshotEffect DEF GenInv, Active, Snapped
      <4>2. CASE reg.s # th[c].s
        BY <3>1, <3>3, <4>2, SnapshotEffect DEF GenInv, Snapped
      <4>3. QED
        BY <4>1, <4>2
    <3>4. QED
      BY <3>1, <3>2, <3>3
  <2>8. ASSUME NEW c \in Conns, th'[c].pc = "serving" PROVE th'[c].gen <= sess'[th'[c].s].gen
    <3>1. Active(c) /\ th'[c].s = th[c].s /\ th'[c].gen = th[c].gen /\ th[c].s \in Sessions
      BY <2>1, <2>8, GenTypes DEF Stays, Active
    <3>2. CASE th[c].pc = "serving"
      BY <2>6, <3>1, <3>2, GenTypes DEF GenInv
    <3>3. CASE th[c].pc = "attached"
      <4>1. Snapshot(c)
        BY <2>1, <2>8, <3>3 DEF Stays, Active
      <4>2. QED
        BY <3>1, <4>1, SnapshotEffect, GenTypes DEF Snapped
    <3>4. QED
      BY <3>1, <3>2, <3>3 DEF Active
  <2>9. QED
    BY <1>0, <2>4, <2>5, <2>7, <2>8 DEF GenInv
<1>3. QED
  BY <1>1, <1>2

(* As long as no session is removed there is one, every thread serves it,  *)
(* and while it is detached its newest generation is over.                 *)
AttachInv ==
  ~past.removed =>
    /\ made # 0 => reg.s # None
    /\ \A c \in Conns : Active(c) => th[c].s = reg.s
    /\ made <= 1
    /\ reg.detached => /\ reg.s # None /\ sess[reg.s].gen = reg.gen
                       /\ \A c \in Conns : Active(c) => th[c].gen # reg.gen

(* While no session is removed, the threads serve the one there is.        *)
LEMMA AttachInvStep == TypeInv /\ FreshInv /\ GenInv /\ AttachInv /\ [Next]_vars => AttachInv'
<1> SUFFICES ASSUME TypeInv, FreshInv, GenInv, AttachInv, [Next]_vars, ~past'.removed PROVE AttachInv'
  BY DEF AttachInv
<1>1. ASSUME NEW c \in Conns, Attach(c) PROVE AttachInv'
  <2>1. Attached(c)
    BY <1>1, AttachEffect
  <2>2. \A d \in Conns : d # c => (Active(d)' <=> Active(d)) /\ th'[d] = th[d]
    BY <2>1 DEF Active, Attached
  <2>3. ~past.removed /\ ~reg'.detached
    BY <2>1 DEF Attached, history
  <2>4. CASE reg.s # None /\ th'[c].s = reg.s /\ reg'.s = reg.s /\ made' = made
    BY <2>2, <2>3, <2>4 DEF AttachInv
  <2>5. CASE reg.s = None /\ th'[c].s = made + 1 /\ made' = made + 1 /\ reg'.s = made + 1
    <3>1. made = 0
      BY <2>3, <2>5 DEF AttachInv
    <3>2. \A d \in Conns : ~Active(d)
      BY <3>1 DEF TypeInv, Typed, CountInv
    <3>3. QED
      BY <2>2, <2>3, <2>5, <3>1, <3>2 DEF AttachInv, None
  <2>6. QED
    BY <2>1, <2>4, <2>5 DEF Attached
<1>2. CASE \A c \in Conns : ~Attach(c)
  <2>1. \A c \in Conns : Stays(c)
    BY <1>2, StaysStep
  <2>2. Entry /\ made' = made
    BY <1>2, EntryStep
  <2>3. ~past.removed /\ reg'.s = reg.s /\ reg'.gen = reg.gen
    BY <2>2 DEF Entry
  <2>4. (made' # 0 => reg'.s # None) /\ made' <= 1 /\ \A c \in Conns : Active(c)' => th'[c].s = reg'.s
    BY <2>1, <2>2, <2>3 DEF AttachInv, Stays
  <2>5. CASE UNCHANGED reg
    <3>1. ASSUME reg.detached PROVE sess'[reg.s].gen = reg.gen
      <4>1. reg.s # None /\ sess[reg.s].gen = reg.gen /\ reg.s \in Sessions
        BY <2>3, <3>1, GenTypes DEF AttachInv
      <4>2. CASE \A c \in Conns : ~Snapshot(c)
        BY <4>1, <4>2, GenStep
      <4>3. ASSUME NEW c \in Conns, Snapshot(c) PROVE sess'[reg.s].gen = reg.gen
        <5>1. Snapped(c)
          BY <4>3, SnapshotEffect
        <5>2. th[c].s = reg.s /\ th[c].gen <= reg.gen /\ th[c].gen \in Nat
          BY <2>3, <5>1, GenTypes DEF AttachInv, GenInv, Snapped, Active
        <5>3. QED
          BY <4>1, <5>1, <5>2, GenTypes DEF Snapped
      <4>4. QED
        BY <4>2, <4>3
    <3>2. QED
      BY <2>1, <2>3, <2>4, <2>5, <3>1 DEF AttachInv, Stays
  <2>6. ASSUME NEW c \in Conns, th[c].pc = "serving", Detached(c), ~Active(c)', UNCHANGED sess,
               \A d \in Conns \ {c} : th'[d] = th[d]
        PROVE  AttachInv'
    <3>1. Active(c) /\ th[c].s = reg.s /\ th[c].gen = reg.gen /\ reg.s # None /\ reg.s \in Sessions
      BY <2>3, <2>6, GenTypes DEF Active, AttachInv, Detached
    <3>2. sess[reg.s].gen = reg.gen
      <4>1. sess[reg.s].gen <= reg.gen /\ reg.gen <= sess[reg.s].gen
        BY <2>6, <3>1 DEF GenInv
      <4>2. QED
        BY <3>1, <4>1, GenTypes
    <3>3. ASSUME NEW d \in Conns, Active(d)' PROVE th'[d].gen # reg.gen
      <4>1. d # c /\ Active(d) /\ th'[d] = th[d] /\ th[d].s = reg.s
        BY <2>1, <2>3, <2>6, <3>3 DEF Stays, AttachInv
      <4>2. QED
        BY <3>1, <4>1 DEF GenInv
    <3>4. QED
      BY <2>3, <2>4, <2>6, <3>1, <3>2, <3>3 DEF AttachInv
  <2>7. QED
    BY <2>2, <2>5, <2>6 DEF Entry
<1>3. QED
  BY <1>1, <1>2

AttachedInv == TypeInv /\ FreshInv /\ GenInv /\ AttachInv

(* There is no session and no thread yet.                                  *)
LEMMA AttachedInit == Init => AttachedInv
<1> SUFFICES ASSUME Init PROVE AttachedInv
  OBVIOUS
<1>1. TypeInv
  BY TypeInit, TypeParts DEF TypeInv, Typed
<1>2. FreshInv /\ \A c \in Conns : ~Active(c) /\ th[c].pc = "none"
  BY DEF Init, FreshInv, Active, NoThread
<1>3. GenInv
  BY <1>2, Bounds DEF GenInv, Init
<1>4. AttachInv
  BY <1>2 DEF Init, AttachInv
<1>5. QED
  BY <1>1, <1>2, <1>3, <1>4 DEF AttachedInv

(* The invariant of sessions and their threads is inductive.               *)
LEMMA AttachedStep == AttachedInv /\ [Next]_vars => AttachedInv'
  BY TypeStep, FreshStep, GenStepInv, AttachInvStep DEF AttachedInv

(* A session whose connection is being served is not left to the reaper by *)
(* another connection that ends, as long as no session was removed.        *)
(* (Registry.detach.)                                                      *)
THEOREM NotLeftToTheReaper == Spec => []ServedIsAttached
<1>1. ASSUME AttachedInv PROVE ServedIsAttached
  BY <1>1 DEF AttachedInv, AttachInv, ServedIsAttached, MayServe, Active
<1>2. QED
  BY <1>1, AttachedInit, AttachedStep, PTL DEF Spec

-----------------------------------------------------------------------------
(* Connections: which is in use, and what may be on its way.               *)

InHello == op.pc \in {"hello", "rehello"}

(* The connection the client reads: the one it has, or the one it dials.   *)
InUse(c) == c = cl.sock \/ (InHello /\ c = dialed)

(* The client's steps, as far as connections see them.                     *)
Rests == cl'.sock = cl.sock /\ (InHello' <=> InHello) /\ dialed' = dialed
Others(c, f, g) == \A d \in Conns : d # c => f[d] = g[d]

Dials ==
  /\ ~InHello /\ InHello' /\ cl.sock = None /\ cl'.sock = None /\ Dial /\ UNCHANGED <<up, down>>
Drops(c) ==
  /\ c \in Conns /\ InUse(c) /\ cl'.sock = None /\ ~InHello' /\ dialed' = dialed
  /\ link' = Closed(c) /\ down'[c] = <<>> /\ Others(c, down', down) /\ UNCHANGED <<up, th>>
Takes ==
  /\ dialed \in Conns /\ InHello /\ ~InHello' /\ cl.sock = None /\ cl'.sock = dialed /\ dialed' = dialed
  /\ down[dialed] # <<>> /\ down'[dialed] = Tail(down[dialed]) /\ Others(dialed, down', down)
  /\ up' = up \/ Sent(dialed, cl'.unacked)
  /\ UNCHANGED <<link, th>>
WritesPending ==
  /\ Rests /\ cl.sock \in Conns /\ ~InHello /\ Sent(cl.sock, cl.pending) /\ UNCHANGED <<link, down, th>>
Reads ==
  /\ Rests /\ cl.sock \in Conns /\ down[cl.sock] # <<>> /\ UNCHANGED <<link, up, th>>
  /\ down'[cl.sock] = Tail(down[cl.sock]) /\ Others(cl.sock, down', down)
Elsewhere == Rests /\ UNCHANGED <<netVars, th>>

ClientMoves ==
  \/ Dials \/ Takes \/ WritesPending \/ Reads \/ Elsewhere \/ \E c \in Conns : Drops(c)

(* The types the client's steps turn on.                                   *)
LEMMA MoveTypes ==
  ASSUME TypeInv
  PROVE  /\ cl \in ClientRec /\ op \in OpRec /\ dialed \in 0 .. MaxConns /\ dialed \in Nat /\ cl.sock \in 0 .. MaxConns
         /\ down \in [Conns -> Seq(ReplyRec)] /\ link \in [Conns -> {"none", "open", "cut", "closed"}]
         /\ cl.sock # None => cl.sock \in Conns
         /\ InHello => dialed \in Conns /\ cl.sock = None
<1> USE DEF TypeInv, Typed
<1>1. /\ cl \in ClientRec /\ op \in OpRec /\ dialed \in 0 .. MaxConns /\ dialed \in Nat /\ cl.sock \in 0 .. MaxConns
      /\ down \in [Conns -> Seq(ReplyRec)] /\ link \in [Conns -> {"none", "open", "cut", "closed"}]
  BY Bounds DEF ClientTyped, NetTyped, ClientRec
<1>2. cl.sock # None => cl.sock \in Conns
  BY <1>1, Bounds DEF None, Conns
<1>3. InHello => dialed \in Conns /\ cl.sock = None
  BY <1>1, Bounds DEF InHello, PlaceInv, Conns
<1>4. QED
  BY <1>1, <1>2, <1>3

(* A message that is made leaves the connections alone.                    *)
LEMMA CallMoves ==
  ASSUME TypeInv, NEW k \in Kinds, Call(k) PROVE Elsewhere
<1> USE DEF TypeInv, Typed
<1>1. /\ cl \in ClientRec /\ op \in OpRec /\ dialed \in 0 .. MaxConns /\ dialed \in Nat /\ cl.sock \in 0 .. MaxConns
      /\ down \in [Conns -> Seq(ReplyRec)] /\ link \in [Conns -> {"none", "open", "cut", "closed"}]
  BY MoveTypes
<1>2. cl.sock # None => cl.sock \in Conns
  BY MoveTypes
<1>3. InHello => dialed \in Conns /\ cl.sock = None
  BY MoveTypes
<1>4. Elsewhere
  <2>1. CASE cl.seq + 1 <= MaxSeq /\ Enqueue(cl, k) /\ op' = Proceed(cl', k)
    <3>1. Longer(cl, cl')
      BY <1>1, <2>1, EnqueueEffect
    <3>2. op'.pc \in {"flush", "idle"} /\ op.pc = "idle"
      BY <2>1, <3>1, ProceedTyped DEF Longer, Call
    <3>3. QED
      BY <3>1, <3>2 DEF Elsewhere, Rests, Longer, Call, netVars, serverVars, InHello
  <2>2. CASE cl.seq + 2 <= MaxSeq /\ Enqueue(cl, "ack")
             /\ op' = [pc |-> "flush", wait |-> cl.seq + 1, then |-> k]
    <3>1. cl.seq + 1 <= MaxSeq
      BY <1>1, <2>2, Bounds DEF ClientRec
    <3>2. Longer(cl, cl')
      BY <1>1, <2>2, <3>1, EnqueueEffect
    <3>3. QED
      BY <2>2, <3>2 DEF Elsewhere, Rests, Longer, Call, netVars, serverVars, InHello
  <2>3. QED
    BY <2>1, <2>2 DEF Call
<1>5. QED
  BY <1>4

(* _flush writes what is pending, on the socket it has.                    *)
LEMMA WriteMoves ==
  ASSUME TypeInv, FlushWrites PROVE WritesPending
<1> USE DEF TypeInv, Typed
<1>1. /\ cl \in ClientRec /\ op \in OpRec /\ dialed \in 0 .. MaxConns /\ dialed \in Nat /\ cl.sock \in 0 .. MaxConns
      /\ down \in [Conns -> Seq(ReplyRec)] /\ link \in [Conns -> {"none", "open", "cut", "closed"}]
  BY MoveTypes
<1>2. cl.sock # None => cl.sock \in Conns
  BY MoveTypes
<1>3. InHello => dialed \in Conns /\ cl.sock = None
  BY MoveTypes
<1>4. WritesPending
  <2>1. cl'.sock = cl.sock /\ ~InHello /\ cl.sock \in Conns
    BY <1>1, <1>2 DEF FlushWrites, ClientRec, InHello
  <2>2. ~InHello'
    BY <1>1, WrittenTyped DEF FlushWrites, InHello
  <2>3. QED
    BY <2>1, <2>2 DEF WritesPending, Rests, FlushWrites, serverVars
<1>5. QED
  BY <1>4

(* _connect takes the connection whose hello is answered.                  *)
LEMMA HelloMoves ==
  ASSUME TypeInv, HelloFlush PROVE Takes /\ up' = up
<1> USE DEF TypeInv, Typed
<1>1. /\ cl \in ClientRec /\ op \in OpRec /\ dialed \in 0 .. MaxConns /\ dialed \in Nat /\ cl.sock \in 0 .. MaxConns
      /\ down \in [Conns -> Seq(ReplyRec)] /\ link \in [Conns -> {"none", "open", "cut", "closed"}]
  BY MoveTypes
<1>2. cl.sock # None => cl.sock \in Conns
  BY MoveTypes
<1>3. InHello => dialed \in Conns /\ cl.sock = None
  BY MoveTypes
<1>4. Takes /\ up' = up
  <2>1. InHello
    BY DEF HelloFlush, InHello
  <2>2. cl' = [cl EXCEPT !.sock = dialed, !.had = TRUE] /\ At("flush") /\ down[dialed] # <<>>
        /\ down' = [down EXCEPT ![dialed] = Tail(@)] /\ UNCHANGED <<up, link, th, dialed>>
    BY DEF HelloFlush, Welcome, Answered, serverVars
  <2>3. cl'.sock = dialed /\ ~InHello'
    BY <1>1, <2>2, AtTyped DEF ClientRec, InHello
  <2>4. down'[dialed] = Tail(down[dialed]) /\ Others(dialed, down', down)
    BY <1>1, <1>3, <2>1, <2>2 DEF Others
  <2>5. QED
    BY <1>3, <2>1, <2>2, <2>3, <2>4 DEF Takes
<1>5. QED
  BY <1>4

(* The session is picked up, or the new connection is gone again.          *)
LEMMA ResumeMoves ==
  ASSUME TypeInv, Resume PROVE (Takes /\ Sent(dialed, cl'.unacked)) \/ Drops(dialed)
<1> USE DEF TypeInv, Typed
<1>1. /\ cl \in ClientRec /\ op \in OpRec /\ dialed \in 0 .. MaxConns /\ dialed \in Nat /\ cl.sock \in 0 .. MaxConns
      /\ down \in [Conns -> Seq(ReplyRec)] /\ link \in [Conns -> {"none", "open", "cut", "closed"}]
  BY MoveTypes
<1>2. cl.sock # None => cl.sock \in Conns
  BY MoveTypes
<1>3. InHello => dialed \in Conns /\ cl.sock = None
  BY MoveTypes
<1>4. (Takes /\ Sent(dialed, cl'.unacked)) \/ Drops(dialed)
  <2>1. InHello /\ down[dialed] # <<>>
    BY DEF Resume, InHello, Welcome, Answered
  <2>2. dialed \in Conns /\ Head(down[dialed]).n \in Nat
    BY <1>3, <2>1, TailDown, Bounds DEF ReplyRec
  <2> DEFINE now == [Dropped(cl, Head(down[dialed]).n) EXCEPT !.pending = <<>>]
  <2>3. now \in ClientRec /\ now.sock = cl.sock
    BY <1>1, <2>2, DroppedEffect, EmptySeq DEF ClientRec, Shorter
  <2>4. CASE cl' = [now EXCEPT !.sock = dialed] /\ Sent(dialed, now.unacked)
             /\ down' = [down EXCEPT ![dialed] = Tail(@)] /\ Written /\ UNCHANGED link
    <3> HIDE DEF now
    <3>1. cl'.sock = dialed /\ cl'.unacked = now.unacked
      BY <2>3, <2>4 DEF ClientRec
    <3>2. ~InHello'
      BY <1>1, <2>4, WrittenTyped DEF InHello
    <3>3. down'[dialed] = Tail(down[dialed]) /\ Others(dialed, down', down) /\ UNCHANGED <<link, th, dialed>>
      BY <1>1, <2>2, <2>4 DEF Others, Resume, serverVars
    <3>4. QED
      BY <1>3, <2>1, <2>2, <2>4, <3>1, <3>2, <3>3 DEF Takes
  <2>5. CASE cl' = now /\ At("retry") /\ link' = Closed(dialed)
             /\ down' = [down EXCEPT ![dialed] = <<>>] /\ UNCHANGED up
    <3> HIDE DEF now
    <3>1. cl'.sock = None /\ op'.pc = "retry" /\ UNCHANGED <<th, dialed>>
      BY <1>1, <1>3, <2>1, <2>3, <2>5, AtTyped DEF Resume, serverVars
    <3>2. down'[dialed] = <<>> /\ Others(dialed, down', down)
      BY <1>1, <2>2, <2>5 DEF Others
    <3>3. Drops(dialed)
      BY <2>1, <2>2, <2>5, <3>1, <3>2 DEF Drops, InUse, InHello
    <3>4. QED
      BY <3>3
  <2>6. QED
    BY <2>4, <2>5 DEF Resume
<1>5. QED
  BY <1>4

(* _await reads the first reply on the socket in use.                      *)
LEMMA ReadMoves ==
  ASSUME TypeInv, OldReply \/ Receive PROVE Reads
<1> USE DEF TypeInv, Typed
<1>1. /\ cl \in ClientRec /\ op \in OpRec /\ dialed \in 0 .. MaxConns /\ dialed \in Nat /\ cl.sock \in 0 .. MaxConns
      /\ down \in [Conns -> Seq(ReplyRec)] /\ link \in [Conns -> {"none", "open", "cut", "closed"}]
  BY MoveTypes
<1>2. cl.sock # None => cl.sock \in Conns
  BY MoveTypes
<1>3. InHello => dialed \in Conns /\ cl.sock = None
  BY MoveTypes
<1>4. Reads
  <2>1. op.pc = "await" /\ down[cl.sock] # <<>> /\ down' = [down EXCEPT ![cl.sock] = Tail(@)]
        /\ UNCHANGED <<dialed, link, up, th>>
    BY DEF OldReply, Receive, Answered, serverVars
  <2>2. cl.sock \in Conns /\ ~InHello
    BY <1>2, <2>1 DEF ClientTyped, InHello
  <2>3. cl'.sock = cl.sock /\ ~InHello'
    <3>1. CASE OldReply
      BY <2>2, <3>1 DEF OldReply, clientVars, InHello
    <3>2. CASE Receive
      <4> DEFINE r == Head(down[cl.sock])
                 q == Acknowledged(cl, r.n)
      <4>1. r.n \in 0 .. MaxSeq
        BY <2>1, <2>2, TailDown DEF ReplyRec
      <4>2. q \in ClientRec /\ q.seq = cl.seq /\ q.sock = cl.sock
        BY <1>1, <4>1, AcknowledgedEffect DEF Shorter
      <4>3. CASE op.then # "none" /\ Enqueue(q, op.then) /\ op' = Proceed(cl', op.then)
        <5> HIDE DEF q, r
        <5>1. op.then \in Kinds \union {"ack"} /\ q.seq + 1 <= MaxSeq
          BY <1>1, <4>2, <4>3 DEF OpRec, PlaceInv
        <5>2. Longer(q, cl')
          BY <4>2, <4>3, <5>1, EnqueueEffect
        <5>3. op'.pc \in {"flush", "idle"}
          BY <4>3, <5>2, ProceedTyped DEF Longer
        <5>4. QED
          BY <4>2, <5>2, <5>3 DEF Longer, InHello
      <4>4. CASE cl' = q /\ op' = Idle
        BY <4>2, <4>4, IdleTyped DEF InHello
      <4>5. QED
        BY <3>2, <4>3, <4>4 DEF Receive
    <3>3. QED
      BY <3>1, <3>2
  <2>4. down'[cl.sock] = Tail(down[cl.sock]) /\ Others(cl.sock, down', down)
    BY <1>1, <2>1, <2>2 DEF Others
  <2>5. QED
    BY <2>1, <2>2, <2>3, <2>4 DEF Reads, Rests
<1>5. QED
  BY <1>4

(* Every step of the client is of one of these kinds.                      *)
LEMMA Moves == ASSUME TypeInv, Client PROVE ClientMoves
<1> USE DEF TypeInv, Typed
<1>1. /\ cl \in ClientRec /\ op \in OpRec /\ dialed \in 0 .. MaxConns /\ dialed \in Nat /\ cl.sock \in 0 .. MaxConns
      /\ down \in [Conns -> Seq(ReplyRec)] /\ link \in [Conns -> {"none", "open", "cut", "closed"}]
  BY MoveTypes
<1>2. cl.sock # None => cl.sock \in Conns
  BY MoveTypes
<1>3. InHello => dialed \in Conns /\ cl.sock = None
  BY MoveTypes
<1>5. CASE FlushCall
  BY <1>5, IdleTyped DEF FlushCall, Elsewhere, Rests, netVars, serverVars, Idle, InHello, ClientMoves
<1>6. CASE FlushDials \/ Redial
  <2>1. Dial /\ op'.pc \in {"hello", "rehello"} /\ UNCHANGED <<cl, up, down>>
    BY <1>1, <1>6, AtTyped DEF FlushDials, Redial
  <2>2. cl.sock = None /\ ~InHello
    BY <1>6 DEF FlushDials, Redial, PlaceInv, InHello
  <2>3. QED
    BY <2>1, <2>2 DEF ClientMoves, Dials, InHello
<1>7. ASSUME cl.had, Recover PROVE cl'.sock = None /\ ~InHello'
  <2>1. cl' = [cl EXCEPT !.sock = None, !.recovering = TRUE] /\ op'.pc \in {"dial", "retry"}
    BY <1>7, RecoverTyped
  <2>2. QED
    BY <1>1, <2>1 DEF ClientRec, InHello
<1>8. ASSUME Unreached, cl.sock = None PROVE cl'.sock = None /\ ~InHello'
  BY <1>7, <1>8, IdleTyped DEF Unreached, InHello
<1>9. CASE FlushRefused
  <2>1. cl.sock = None /\ ~InHello /\ Unreached /\ UNCHANGED <<netVars, th>>
    BY <1>9 DEF FlushRefused, serverVars, InHello
  <2>2. cl'.sock = None /\ ~InHello'
    BY <1>8, <2>1
  <2>3. QED
    BY <2>1, <2>2 DEF Elsewhere, Rests, netVars, ClientMoves
<1>10. CASE HelloFails
  <2>1. InHello
    BY <1>10 DEF HelloFails, InHello
  <2>2. Drops(dialed)
    BY <1>3, <1>8, <1>10, <2>1 DEF HelloFails, Broken, Drops, InUse, Others, serverVars
  <2>3. QED
    BY <1>3, <2>1, <2>2 DEF ClientMoves
<1>11. CASE Lost /\ InHello
  <2>1. op' = Idle /\ cl'.sock = None
    BY <1>1, <1>11 DEF Lost, Raise, ClientRec
  <2>2. down'[dialed] = <<>> /\ Others(dialed, down', down) /\ link' = Closed(dialed) /\ UNCHANGED <<up, th, dialed>>
    BY <1>1, <1>3, <1>11 DEF Lost, Others, serverVars
  <2>3. Drops(dialed)
    BY <1>3, <1>11, <2>1, <2>2, IdleTyped DEF Drops, InUse, InHello
  <2>4. QED
    BY <1>3, <1>11, <2>3 DEF ClientMoves
<1>14. CASE RedialRefused
  <2>1. op'.pc = "retry"
    BY <1>1, <1>14, AtTyped DEF RedialRefused
  <2>2. QED
    BY <1>14, <2>1 DEF ClientMoves, Elsewhere, Rests, RedialRefused, netVars, serverVars, InHello
<1>15. CASE RehelloFails
  <2>1. op'.pc = "retry" /\ InHello
    BY <1>1, <1>15, AtTyped DEF RehelloFails, InHello
  <2>2. Drops(dialed)
    BY <1>3, <1>15, <2>1 DEF RehelloFails, Broken, Drops, InUse, Others, serverVars, InHello
  <2>3. QED
    BY <1>3, <2>1, <2>2 DEF ClientMoves
<1>16. CASE GivesUp
  <2>1. cl'.sock = cl.sock /\ op' = Idle
    BY <1>1, <1>16 DEF GivesUp, Raise, ClientRec
  <2>2. QED
    BY <1>16, <2>1, IdleTyped DEF ClientMoves, Elsewhere, Rests, GivesUp, netVars, serverVars, InHello
<1>19. CASE FlushFails \/ ReceiveFails
  <2>1. CloseSock /\ Recover /\ cl.sock \in Conns /\ UNCHANGED <<dialed, up, th>>
    BY <1>2, <1>19 DEF FlushFails, ReceiveFails, ClientTyped, serverVars
  <2>2. cl'.sock = None /\ ~InHello'
    BY <1>2, <1>7, <2>1, Bounds DEF PlaceInv, Conns, None
  <2>3. link' = Closed(cl.sock) /\ down'[cl.sock] = <<>> /\ Others(cl.sock, down', down)
    BY <1>1, <2>1, Bounds DEF CloseSock, Others, Conns, None
  <2>4. Drops(cl.sock)
    BY <2>1, <2>2, <2>3 DEF Drops, InUse
  <2>5. QED
    BY <2>1, <2>4 DEF ClientMoves
<1>20. QED
  BY <1>3, <1>5, <1>6, <1>9, <1>10, <1>11, <1>14, <1>15, <1>16, <1>19,
     CallMoves, WriteMoves, HelloMoves, ResumeMoves, ReadMoves
     DEF Client, HelloLost, ResumeMissing, InHello, ClientMoves, Resume

(* Connections are dialed one after another; the one in use is the only    *)
(* one that is not closed, and whose replies are read; nothing is sent     *)
(* before the answer to the hello is read, which is the first of all.      *)
ConnInv(c) ==
  /\ c > dialed => link[c] = "none" /\ up[c] = <<>> /\ down[c] = <<>>
  /\ c <= dialed => link[c] # "none" /\ th[c].pc # "none"
  /\ link[c] = "open" => th[c].pc # "ended"
  /\ ~InUse(c) => link[c] \notin {"open", "cut"} /\ down[c] = <<>>
  /\ th[c].pc \in {"none", "accepted", "attached"} => up[c] = <<>> /\ down[c] = <<>>
  /\ c = cl.sock => th[c].pc \in {"serving", "ended"}
  /\ InHello /\ c = dialed => up[c] = <<>> /\ th[c].batch = <<>>
  /\ \A i \in DOMAIN down[c] : down[c][i].type = IF c # cl.sock /\ i = 1 THEN "hello" ELSE "reply"

NetInv == /\ \A c \in Conns : ConnInv(c)
          /\ \A s \in Sessions : sess[s].reply.type = "reply"

(* What is known of a connection, of a step that leaves all it is about.   *)
LEMMA SameConn ==
  ASSUME NEW c \in Conns, ConnInv(c), link'[c] = link[c], up'[c] = up[c], down'[c] = down[c],
         th'[c].pc = th[c].pc, th'[c].batch = th[c].batch,
         InUse(c)' <=> InUse(c), c = cl'.sock <=> c = cl.sock, c > dialed' <=> c > dialed,
         c <= dialed' <=> c <= dialed, (InHello' /\ c = dialed') <=> (InHello /\ c = dialed)
  PROVE  ConnInv(c)'
  BY DEF ConnInv

(* The same, of a step that leaves the client where it is.                 *)
LEMMA SameConnAtRest ==
  ASSUME NEW c \in Conns, ConnInv(c), link'[c] = link[c], up'[c] = up[c], down'[c] = down[c],
         th'[c].pc = th[c].pc, th'[c].batch = th[c].batch, Rests
  PROVE  ConnInv(c)'
  BY DEF ConnInv, Rests, InUse

(* The types of what is on its way on a connection.                        *)
LEMMA NetTypes ==
  ASSUME TypeInv
  PROVE  /\ \A c \in Conns : up[c] \in Seq(Seq(Msgs)) /\ down[c] \in Seq(ReplyRec) /\ th[c] \in ThreadRec
         /\ \A c \in Conns : link[c] \in {"none", "open", "cut", "closed"}
         /\ \A c \in Conns : c \in Nat /\ c # 0
         /\ dialed \in Nat /\ cl.sock \in Nat /\ cl.sock <= dialed
         /\ cl.sock # None => cl.sock \in Conns
         /\ InHello => dialed \in Conns /\ cl.sock = None
         /\ \A c \in Conns : th[c].pc # "none" => c <= dialed
<1>1. \A c \in Conns : up[c] \in Seq(Seq(Msgs)) /\ down[c] \in Seq(ReplyRec) /\ th[c] \in ThreadRec
  BY DEF TypeInv, Typed, NetTyped, ServerTyped
<1>2. \A c \in Conns : link[c] \in {"none", "open", "cut", "closed"}
  BY DEF TypeInv, Typed, NetTyped
<1>3. \A c \in Conns : c \in Nat /\ c # 0
  BY Bounds DEF Conns
<1>4. dialed \in 0 .. MaxConns /\ cl.sock \in 0 .. MaxConns /\ cl.sock <= dialed
  BY DEF TypeInv, Typed, NetTyped, ClientTyped, ClientRec, PlaceInv
<1>5. InHello => dialed # 0 /\ cl.sock = None
  BY DEF TypeInv, PlaceInv, InHello
<1>6. \A c \in Conns : c > dialed => th[c].pc = "none"
  BY DEF TypeInv, Typed, CountInv, NoThread
<1>7. QED
  BY <1>1, <1>2, <1>3, <1>4, <1>5, <1>6, Bounds DEF Conns, None

(* What is left of the replies when one is read, or a prefix arrives.      *)
LEMMA TailOf ==
  ASSUME NEW S, NEW q \in Seq(S), q # <<>>
  PROVE  /\ DOMAIN Tail(q) = 1 .. Len(q) - 1 /\ DOMAIN q = 1 .. Len(q) /\ Len(q) \in Nat \ {0}
         /\ \A i \in DOMAIN Tail(q) : Tail(q)[i] = q[i + 1] /\ i + 1 \in DOMAIN q /\ i + 1 # 1
         /\ q[1] = Head(q) /\ 1 \in DOMAIN q /\ Head(q) \in S
         /\ Tail(q) \in Seq(S)
<1>1. Len(q) \in Nat \ {0} /\ DOMAIN q = 1 .. Len(q) /\ Len(Tail(q)) = Len(q) - 1 /\ Tail(q) \in Seq(S)
      /\ Head(q) \in S /\ \A i \in 1 .. Len(Tail(q)) : Tail(q)[i] = q[i + 1]
  BY HeadTailProperties, LenProperties, EmptySeq
<1>2. QED
  BY <1>1, LenProperties

(* A prefix has the elements of the sequence, at their places.             *)
LEMMA PrefixOf ==
  ASSUME NEW S, NEW q \in Seq(S), NEW i \in 0 .. Len(q)
  PROVE  /\ SubSeq(q, 1, i) \in Seq(S) /\ DOMAIN SubSeq(q, 1, i) = 1 .. i
         /\ \A j \in DOMAIN SubSeq(q, 1, i) : j \in DOMAIN q /\ SubSeq(q, 1, i)[j] = q[j]
  BY LenProperties, ElementOfSeq, SubSeqProperties

(* The client's steps keep what is known of each connection.               *)
LEMMA NetClient == ASSUME TypeInv, NetInv, Client PROVE \A c \in Conns : ConnInv(c)'
<1>1. ASSUME Dials PROVE \A c \in Conns : ConnInv(c)'
  <2>0. dialed \in Nat /\ MaxConns \in Nat
    BY NetTypes, Bounds
  <2>1. dialed' = dialed + 1 /\ dialed' \in Conns /\ cl.sock = None /\ cl'.sock = None /\ ~InHello /\ InHello'
        /\ UNCHANGED <<up, down>>
    BY <1>1, <2>0 DEF Dials, Dial, Conns
  <2>2. \A c \in Conns : c # dialed' => link'[c] = link[c] /\ th'[c] = th[c]
    BY <1>1 DEF Dials, Dial, TypeInv, Typed, NetTyped, ServerTyped
  <2>3. link'[dialed'] = "open" /\ th'[dialed'].pc = "accepted" /\ th'[dialed'].batch = <<>>
    BY <1>1, <2>1 DEF Dials, Dial, TypeInv, Typed, NetTyped, ServerTyped, NoThread
  <2>4. up[dialed'] = <<>> /\ down[dialed'] = <<>>
    BY <2>1, NetTypes DEF NetInv, ConnInv
  <2>5. ASSUME NEW c \in Conns, c = dialed' PROVE ConnInv(c)'
    BY <2>1, <2>3, <2>4, <2>5, NetTypes DEF ConnInv, InUse, None
  <2>6. ASSUME NEW c \in Conns, c # dialed' PROVE ConnInv(c)'
    BY <2>1, <2>2, <2>6, SameConn, NetTypes DEF NetInv, InUse
  <2>7. QED
    BY <2>1, <2>5, <2>6
<1>2. ASSUME NEW c \in Conns, Drops(c) PROVE \A d \in Conns : ConnInv(d)'
  <2>1. /\ InUse(c) /\ cl'.sock = None /\ ~InHello' /\ dialed' = dialed
        /\ link' = Closed(c) /\ down'[c] = <<>> /\ UNCHANGED <<up, th>>
        /\ \A d \in Conns : d # c => down'[d] = down[d] /\ link'[d] = link[d]
    BY <1>2 DEF Drops, Others, Closed, TypeInv, Typed, NetTyped
  <2>2. link'[c] = IF link[c] = "none" THEN "none" ELSE "closed"
    BY <2>1, NetTypes DEF Closed, TypeInv, Typed, NetTyped
  <2>3. ConnInv(c)'
    BY <2>1, <2>2, NetTypes DEF ConnInv, NetInv, None
  <2>4. ASSUME NEW d \in Conns, d # c PROVE ConnInv(d)'
    <3>1. ~InUse(d) /\ ~InUse(d)'
      BY <2>1, <2>4, NetTypes DEF InUse, None
    <3>2. QED
      BY <2>1, <2>4, <3>1, SameConn DEF NetInv, InUse
  <2>5. QED
    BY <2>3, <2>4
<1>3. ASSUME Takes PROVE \A c \in Conns : ConnInv(c)'
  <2>1. /\ dialed \in Conns /\ InHello /\ ~InHello' /\ cl.sock = None /\ cl'.sock = dialed /\ dialed' = dialed
        /\ down[dialed] # <<>> /\ down'[dialed] = Tail(down[dialed])
        /\ \A d \in Conns : d # dialed => down'[d] = down[d] /\ up'[d] = up[d]
        /\ UNCHANGED <<link, th>>
    BY <1>3 DEF Takes, Others, Sent, TypeInv, Typed, NetTyped
  <2>2. th[dialed].pc \in {"serving", "ended"} /\ link[dialed] # "none"
    BY <2>1, NetTypes DEF NetInv, ConnInv, ThreadRec
  <2>3. \A i \in DOMAIN down'[dialed] : down'[dialed][i].type = "reply"
    BY <2>1, NetTypes, TailOf DEF NetInv, ConnInv
  <2>4. ASSUME NEW d \in Conns, d = dialed PROVE ConnInv(d)'
    BY <2>1, <2>2, <2>3, <2>4, NetTypes DEF ConnInv, NetInv, InUse
  <2>5. ASSUME NEW d \in Conns, d # dialed PROVE ConnInv(d)'
    BY <2>1, <2>5, SameConn, NetTypes DEF NetInv, InUse, None
  <2>6. QED
    BY <2>4, <2>5
<1>4. ASSUME WritesPending PROVE \A c \in Conns : ConnInv(c)'
  <2>1. /\ Rests /\ cl.sock \in Conns /\ ~InHello /\ ~InHello' /\ UNCHANGED <<link, down, th>>
        /\ \A d \in Conns : d # cl.sock => up'[d] = up[d]
    BY <1>4 DEF WritesPending, Sent, TypeInv, Typed, NetTyped, Rests
  <2>2. ConnInv(cl.sock) /\ th[cl.sock].pc \in {"serving", "ended"} /\ cl.sock <= dialed
    BY <2>1, NetTypes DEF NetInv, ConnInv
  <2>3. ASSUME NEW d \in Conns, d = cl.sock PROVE ConnInv(d)'
    BY <2>1, <2>2, <2>3, NetTypes DEF ConnInv, Rests, InUse
  <2>4. ASSUME NEW d \in Conns, d # cl.sock PROVE ConnInv(d)'
    BY <2>1, <2>4, SameConnAtRest DEF NetInv
  <2>5. QED
    BY <2>3, <2>4
<1>5. ASSUME Reads PROVE \A c \in Conns : ConnInv(c)'
  <2>1. /\ Rests /\ cl.sock \in Conns /\ down[cl.sock] # <<>> /\ UNCHANGED <<link, up, th>>
        /\ down'[cl.sock] = Tail(down[cl.sock]) /\ \A d \in Conns : d # cl.sock => down'[d] = down[d]
    BY <1>5 DEF Reads, Others
  <2>2. \A i \in DOMAIN down'[cl.sock] : down'[cl.sock][i].type = "reply"
    BY <2>1, NetTypes, TailOf DEF NetInv, ConnInv
  <2>3. ASSUME NEW d \in Conns, d = cl.sock PROVE ConnInv(d)'
    BY <2>1, <2>2, <2>3, NetTypes DEF ConnInv, NetInv, Rests, InUse
  <2>4. ASSUME NEW d \in Conns, d # cl.sock PROVE ConnInv(d)'
    BY <2>1, <2>4, SameConnAtRest DEF NetInv
  <2>5. QED
    BY <2>3, <2>4
<1>6. ASSUME Elsewhere PROVE \A c \in Conns : ConnInv(c)'
  BY <1>6, SameConnAtRest DEF Elsewhere, NetInv, netVars
<1>7. QED
  BY <1>1, <1>2, <1>3, <1>4, <1>5, <1>6, Moves DEF ClientMoves

(* What a thread says first: what the session applied, and the kept reply  *)
(* if there is one the client may not have had.                            *)
Greets(c) ==
  LET s == sess[th[c].s] IN
  /\ Others(c, down', down)
  /\ IF link[c] = "open"
     THEN /\ down'[c][1] = Hello(th[c].resumed, s.last_seq)
          /\ \/ Kept(c, s) = <<>> /\ Len(down'[c]) = 1
             \/ Kept(c, s) = <<s.reply>> /\ Len(down'[c]) = 2 /\ down'[c][2] = s.reply
                /\ s.reply # NoReply /\ s.reply.n > th[c].acked
     ELSE down'[c] = down[c]

(* The first and the second of two.                                        *)
LEMMA PairOf ==
  ASSUME NEW a, NEW b, NEW q, q = <<>> \o (<<a>> \o <<b>>)
  PROVE  Len(q) = 2 /\ q[1] = a /\ q[2] = b
<1>1. <<a>> \in Seq({a, b}) /\ <<b>> \in Seq({a, b}) /\ Len(<<a>>) = 1 /\ Len(<<b>>) = 1
      /\ <<a>>[1] = a /\ <<b>>[1] = b
  OBVIOUS
<1>2. <<a>> \o <<b>> \in Seq({a, b}) /\ Len(<<a>> \o <<b>>) = 2 /\ (<<a>> \o <<b>>)[1] = a /\ (<<a>> \o <<b>>)[2] = b
  BY <1>1, ConcatProperties
<1>3. q = <<a>> \o <<b>>
  BY <1>2, ConcatEmptySeq
<1>4. QED
  BY <1>2, <1>3

(* The snapshot's answer is the first on its connection.                   *)
LEMMA SnapshotGreets ==
  ASSUME TypeInv, NEW c \in Conns, down[c] = <<>>, Snapshot(c)
  PROVE  Greets(c)
<1> DEFINE s == sess[th[c].s]
           h == Hello(th[c].resumed, s.last_seq)
<1>1. ToClient(c, <<h>> \o Kept(c, s)) /\ down \in [Conns -> Seq(ReplyRec)]
  BY DEF Snapshot, TypeInv, Typed, NetTyped
<1>2. Others(c, down', down)
  BY <1>1 DEF ToClient, Others
<1>3. CASE link[c] # "open"
  BY <1>1, <1>2, <1>3 DEF ToClient, Greets
<1>4. CASE link[c] = "open"
  <2> HIDE DEF h
  <2>1. down'[c] = <<>> \o (<<h>> \o Kept(c, s))
    BY <1>1, <1>4 DEF ToClient
  <2>2. CASE Kept(c, s) = <<>>
    <3>1. down'[c] = <<h>>
      BY <2>1, <2>2
    <3>2. QED
      BY <1>2, <1>4, <2>2, <3>1 DEF Greets, h
  <2>3. CASE Kept(c, s) = <<s.reply>> /\ s.reply # NoReply /\ s.reply.n > th[c].acked
    <3>1. Len(down'[c]) = 2 /\ down'[c][1] = h /\ down'[c][2] = s.reply
      BY <2>1, <2>3, PairOf
    <3>2. QED
      BY <1>2, <1>4, <2>3, <3>1 DEF Greets, h
  <2>4. QED
    BY <2>2, <2>3 DEF Kept
<1>5. QED
  BY <1>3, <1>4

(* What the session says of itself then.                                   *)
LEMMA AppliedSession ==
  ASSUME TypeInv, NEW c \in Conns, NEW i, NEW n, Applied(c, i, n)
  PROVE  /\ sess'[i] \in SessionRec /\ sess'[i].last_seq = n /\ sess'[i].gen = sess[i].gen
         /\ Waits(issued[n]) => sess'[i].reply = Reply(n, sess[i].err) /\ sess'[i].err = None
         /\ ~Waits(issued[n]) => /\ sess'[i].reply = sess[i].reply
                                 /\ sess'[i].err = IF issued[n] = "bad" /\ sess[i].err = None THEN n ELSE sess[i].err
<1>1. sess[i] \in SessionRec /\ n \in Msgs /\ sess'[i] = Executed(sess[i], n, issued[n])
  BY DEF Applied
<1>2. QED
  BY <1>1, ExecutedTyped

(* The reply to a message, if one waits for it.                            *)
Answers(c, i, n) ==
  /\ Others(c, down', down)
  /\ down'[c] = IF link[c] = "open" /\ Waits(issued[n]) THEN Append(down[c], sess'[i].reply) ELSE down[c]

(* A message that is waited for is answered on the thread's connection.    *)
LEMMA AppliedAnswers ==
  ASSUME TypeInv, NEW c \in Conns, NEW i, NEW n, Applied(c, i, n)
  PROVE  Answers(c, i, n)
<1>1. /\ ToClient(c, IF Waits(issued[n]) THEN <<sess'[i].reply>> ELSE <<>>)
      /\ down \in [Conns -> Seq(ReplyRec)] /\ sess'[i] \in SessionRec
  BY AppliedSession DEF Applied, TypeInv, Typed, NetTyped
<1>2. sess'[i].reply \in ReplyRec /\ down[c] \in Seq(ReplyRec)
  BY <1>1 DEF SessionRec
<1>3. down[c] \o <<>> = down[c] /\ down[c] \o <<sess'[i].reply>> = Append(down[c], sess'[i].reply)
  BY <1>2, ConcatEmptySeq, AppendIsConcat
<1>4. QED
  BY <1>1, <1>3 DEF ToClient, Others, Answers

(* The server's steps keep what is known of each connection.               *)
LEMMA NetServer == ASSUME TypeInv, FreshInv, NetInv, Server PROVE \A c \in Conns : ConnInv(c)'
<1>1. UNCHANGED <<clientVars, dialed>>
  BY DEF Server, Attach, NoHello, Snapshot, TakeBatch, Execute, Leave, Reap, Restart, netVars
<1>2. Rests
  BY <1>1 DEF Rests, InHello, clientVars
<1>3. ASSUME NEW c \in Conns, ConnInv(c)', UNCHANGED <<th, netVars>> \/
             \A d \in Conns : d # c => link'[d] = link[d] /\ up'[d] = up[d] /\ down'[d] = down[d] /\ th'[d] = th[d]
      PROVE  \A d \in Conns : ConnInv(d)'
  BY <1>2, <1>3, SameConnAtRest DEF NetInv, netVars
<1>4. ASSUME NEW c \in Conns, Attach(c) PROVE \A d \in Conns : ConnInv(d)'
  <2>1. Attached(c)
    BY <1>4, AttachEffect
  <2>2. ConnInv(c) /\ th[c].pc = "accepted" /\ th'[c].pc = "attached" /\ th'[c].batch = th[c].batch
        /\ link' = link /\ up' = up /\ down' = down
    BY <2>1 DEF NetInv, Attached, netVars
  <2>3. ConnInv(c)'
    BY <1>2, <2>2 DEF ConnInv, Rests, InUse
  <2>4. QED
    BY <1>3, <2>1, <2>2, <2>3 DEF Attached
<1>5. ASSUME NEW c \in Conns, Thread(c, [NoThread EXCEPT !.pc = "ended"])
      PROVE  th'[c].pc = "ended" /\ th'[c].batch = <<>> /\ \A d \in Conns : d # c => th'[d] = th[d]
  BY <1>5 DEF Thread, NoThread, TypeInv, Typed, ServerTyped
<1>6. ASSUME NEW c \in Conns, NoHello(c) PROVE \A d \in Conns : ConnInv(d)'
  <2>1. ConnInv(c) /\ th[c].pc = "accepted" /\ th'[c].pc = "ended" /\ link[c] # "open" /\ UNCHANGED netVars
        /\ th'[c].batch = <<>> /\ \A d \in Conns : d # c => th'[d] = th[d]
    BY <1>5, <1>6 DEF NetInv, NoHello
  <2>2. ConnInv(c)'
    BY <1>2, <2>1 DEF ConnInv, Rests, InUse, netVars
  <2>3. QED
    BY <1>3, <2>1, <2>2 DEF netVars
<1>7. ASSUME NEW c \in Conns, Snapshot(c) PROVE \A d \in Conns : ConnInv(d)'
  <2>1. Snapped(c) /\ ConnInv(c) /\ UNCHANGED <<link, up>>
    BY <1>7, SnapshotEffect DEF NetInv, Snapshot
  <2>2. down[c] = <<>> /\ up[c] = <<>> /\ c # cl.sock /\ th'[c].pc = "serving" /\ th'[c].batch = th[c].batch
        /\ th[c].pc = "attached" /\ \A d \in Conns : d # c => th'[d] = th[d]
    BY <2>1 DEF ConnInv, Snapped
  <2>3. Greets(c)
    BY <1>7, <2>2, SnapshotGreets
  <2>4. \A d \in Conns : d # c => down'[d] = down[d]
    BY <2>3 DEF Greets, Others
  <2>5. \A i \in DOMAIN down'[c] : down'[c][i].type = IF i = 1 THEN "hello" ELSE "reply"
    <3>1. CASE link[c] # "open"
      BY <2>2, <2>3, <3>1 DEF Greets
    <3>2. CASE link[c] = "open"
      <4>1. down'[c] \in Seq(ReplyRec) /\ th[c].s \in Sessions
        BY <2>1, TypeStep, NetTypes DEF Next, TypeInv, Typed, NetTyped, Snapped
      <4>2. Len(down'[c]) = 1 \/ (Len(down'[c]) = 2 /\ down'[c][2] = sess[th[c].s].reply)
        BY <2>3, <3>2 DEF Greets
      <4>3. down'[c][1].type = "hello"
        BY <2>3, <3>2 DEF Greets, Hello
      <4>4. QED
        BY <4>1, <4>2, <4>3, LenProperties DEF NetInv
    <3>3. QED
      BY <3>1, <3>2
  <2>6. link[c] # "open" => down'[c] = <<>>
    BY <2>2, <2>3 DEF Greets
  <2>7. ConnInv(c)'
    <3>1. c <= dialed /\ (~InUse(c) => link[c] \notin {"open", "cut"})
      BY <2>1, <2>2, NetTypes DEF ConnInv, Snapped
    <3>2. QED
      BY <1>2, <2>1, <2>2, <2>5, <2>6, <3>1, NetTypes DEF ConnInv, Rests, InUse
  <2>8. QED
    BY <1>3, <2>1, <2>2, <2>4, <2>7
<1>8. ASSUME NEW c \in Conns, TakeBatch(c) PROVE \A d \in Conns : ConnInv(d)'
  <2>1. /\ th[c].pc = "serving" /\ up[c] # <<>> /\ ConnInv(c) /\ UNCHANGED <<link, down>>
        /\ th'[c].pc = "serving" /\ \A d \in Conns : d # c => th'[d] = th[d] /\ up'[d] = up[d]
    BY <1>8, NetTypes DEF TakeBatch, Thread, NetInv, ThreadRec, TypeInv, Typed, ServerTyped, NetTyped
  <2>2. ~(InHello /\ c = dialed) /\ c <= dialed
    BY <2>1, NetTypes DEF ConnInv
  <2>3. ConnInv(c)'
    BY <1>2, <2>1, <2>2, NetTypes DEF ConnInv, Rests, InUse
  <2>4. QED
    BY <1>3, <2>1, <2>3
<1>9. ASSUME NEW c \in Conns, Execute(c) PROVE \A d \in Conns : ConnInv(d)'
  <2>1. /\ th[c].pc = "serving" /\ th[c].batch # <<>> /\ ConnInv(c) /\ UNCHANGED <<link, up>>
        /\ th'[c].pc = "serving" /\ \A d \in Conns : d # c => th'[d] = th[d]
    BY <1>9, NetTypes DEF Execute, Thread, NetInv, ThreadRec, TypeInv, Typed, ServerTyped
  <2>2. ~(InHello /\ c = dialed) /\ c <= dialed
    BY <2>1, NetTypes DEF ConnInv
  <2>3. CASE UNCHANGED down
    <3>1. ConnInv(c)'
      BY <1>2, <2>1, <2>2, <2>3, NetTypes DEF ConnInv, Rests, InUse
    <3>2. QED
      BY <1>3, <2>1, <2>3, <3>1
  <2>4. CASE Applies(c)
    <3> DEFINE i == th[c].s
               n == Head(th[c].batch)
    <3>1. Applied(c, i, n) /\ Answers(c, i, n)
      BY <2>4, AppliesEffect, AppliedAnswers
    <3> HIDE DEF i, n
    <3>2. CASE link[c] = "open" /\ Waits(issued[n])
      <4>1. c = cl.sock
        BY <2>1, <2>2, <3>2 DEF ConnInv, InUse
      <4>0. sess'[i].reply = Reply(n, sess[i].err)
        BY <3>1, <3>2, AppliedSession
      <4>2. sess'[i].reply.type = "reply" /\ down'[c] = Append(down[c], sess'[i].reply)
        BY <3>1, <3>2, <4>0 DEF Answers, Reply
      <4>3. down[c] \in Seq(ReplyRec) /\ \A j \in DOMAIN down[c] : down[c][j].type = "reply"
        BY <2>1, <4>1, NetTypes DEF ConnInv
      <4>4. \A j \in DOMAIN down'[c] : down'[c][j].type = "reply"
        BY <4>2, <4>3, LenProperties, AppendProperties
      <4>5. ConnInv(c)'
        BY <1>2, <2>1, <2>2, <4>1, <4>4, NetTypes DEF ConnInv, Rests, InUse
      <4>6. QED
        BY <1>3, <2>1, <3>1, <4>5 DEF Answers, Others
    <3>3. CASE ~(link[c] = "open" /\ Waits(issued[n]))
      <4>1. \A d \in Conns : down'[d] = down[d]
        BY <3>1, <3>3 DEF Answers, Others
      <4>2. ConnInv(c)'
        BY <1>2, <2>1, <2>2, <4>1, NetTypes DEF ConnInv, Rests, InUse
      <4>3. QED
        BY <1>3, <2>1, <4>1, <4>2
    <3>4. QED
      BY <3>2, <3>3
  <2>5. QED
    BY <1>9, <2>3, <2>4 DEF Execute, Applies
<1>10. ASSUME NEW c \in Conns, Leave(c) PROVE \A d \in Conns : ConnInv(d)'
  <2>1. /\ th[c].pc = "serving" /\ th'[c].pc = "ended" /\ th'[c].batch = <<>> /\ ConnInv(c) /\ UNCHANGED down
        /\ \A d \in Conns : d # c => th'[d] = th[d] /\ link'[d] = link[d] /\ up'[d] = up[d]
    BY <1>5, <1>10 DEF Leave, NetInv, TypeInv, Typed, NetTyped
  <2>2. link'[c] = IF link[c] = "open" THEN "cut" ELSE link[c]
    BY <1>10 DEF Leave, TypeInv, Typed, NetTyped
  <2>3. c <= dialed /\ up'[c] = <<>>
    BY <2>1, <1>10, NetTypes DEF ConnInv, Leave, TypeInv, Typed, NetTyped
  <2>4. ConnInv(c)'
    BY <1>2, <2>1, <2>2, <2>3, NetTypes DEF ConnInv, Rests, InUse
  <2>5. QED
    BY <1>3, <2>1, <2>4
<1>11. CASE Reap
  BY <1>2, <1>11, SameConnAtRest DEF Reap, NetInv, netVars
<1>12. CASE Restart
  <2>1. ASSUME NEW c \in Conns PROVE ConnInv(c)'
    <3>1. /\ IF th[c].pc = "none" THEN th'[c] = th[c] ELSE th'[c].pc = "ended" /\ th'[c].batch = <<>>
          /\ link'[c] = IF link[c] = "open" THEN "cut" ELSE link[c]
      BY <1>12 DEF Restart, NoThread
    <3>2. up'[c] = <<>> /\ down' = down /\ ConnInv(c) /\ FreshInv
      BY <1>12 DEF Restart, NetInv
    <3>3. link'[c] = IF link[c] = "open" THEN "cut" ELSE link[c]
      BY <1>12 DEF Restart
    <3>4. QED
      BY <1>2, <3>1, <3>2, <3>3, NetTypes DEF ConnInv, Rests, InUse, FreshInv
  <2>2. QED
    BY <2>1
<1>13. QED
  BY <1>4, <1>6, <1>7, <1>8, <1>9, <1>10, <1>11, <1>12 DEF Server

(* So does a connection that is lost.                                      *)
LEMMA NetCut == ASSUME TypeInv, NetInv, NEW c \in Conns, Cut(c) PROVE \A d \in Conns : ConnInv(d)'
<1>1. PICK i \in 0 .. Len(up[c]) : up' = [up EXCEPT ![c] = SubSeq(@, 1, i)]
  BY DEF Cut
<1>2. PICK j \in 0 .. Len(down[c]) : down' = [down EXCEPT ![c] = SubSeq(@, 1, j)]
  BY DEF Cut
<1>3. /\ up'[c] = SubSeq(up[c], 1, i) /\ down'[c] = SubSeq(down[c], 1, j) /\ link'[c] = "cut" /\ link[c] = "open"
      /\ \A d \in Conns : d # c => link'[d] = link[d] /\ up'[d] = up[d] /\ down'[d] = down[d]
  BY <1>1, <1>2 DEF Cut, TypeInv, Typed, NetTyped
<1>4. Rests /\ UNCHANGED th
  BY DEF Cut, Rests, clientVars, serverVars, InHello
<1>5. up[c] \in Seq(Seq(Msgs)) /\ down[c] \in Seq(ReplyRec) /\ ConnInv(c)
  BY NetTypes DEF NetInv
<1>6. up[c] = <<>> => up'[c] = <<>>
  <2>1. ASSUME up[c] = <<>> PROVE Len(up[c]) = 0
    BY <2>1
  <2>2. QED
    BY <1>3, <1>5, <2>1, PrefixOf, LenProperties, EmptySeq
<1>7. down[c] = <<>> => down'[c] = <<>>
  <2>1. ASSUME down[c] = <<>> PROVE Len(down[c]) = 0
    BY <2>1
  <2>2. QED
    BY <1>3, <1>5, <2>1, PrefixOf, LenProperties, EmptySeq
<1>8. \A k \in DOMAIN down'[c] : k \in DOMAIN down[c] /\ down'[c][k] = down[c][k]
  BY <1>3, <1>5, PrefixOf
<1>9. ConnInv(c)'
  BY <1>3, <1>4, <1>5, <1>6, <1>7, <1>8, NetTypes DEF ConnInv, Rests, InUse
<1>10. QED
  BY <1>3, <1>4, <1>9, SameConnAtRest DEF NetInv

(* What is known of connections is inductive.                              *)
LEMMA NetStep == TypeInv /\ FreshInv /\ NetInv /\ [Next]_vars => NetInv'
<1> SUFFICES ASSUME TypeInv, FreshInv, NetInv, [Next]_vars PROVE NetInv'
  OBVIOUS
<1>1. \A c \in Conns : ConnInv(c)'
  <2>1. CASE UNCHANGED vars
    <3>1. Rests /\ UNCHANGED <<th, netVars>>
      BY <2>1 DEF vars, Rests, clientVars, serverVars, netVars, InHello
    <3>2. QED
      BY <3>1, SameConnAtRest DEF NetInv, netVars
  <2>2. QED
    BY <2>1, NetClient, NetServer, NetCut DEF Next
<1>2. \A s \in Sessions : sess'[s].reply.type = "reply"
  <2>1. CASE SessionsKeep
    BY <2>1 DEF SessionsKeep, NetInv
  <2>2. ASSUME NEW c \in Conns, Applies(c) PROVE \A s \in Sessions : sess'[s].reply.type = "reply"
    <3> DEFINE i == th[c].s
               n == Head(th[c].batch)
    <3>1. Applied(c, i, n)
      BY <2>2, AppliesEffect
    <3> HIDE DEF i, n
    <3>0. sess'[i].reply = Reply(n, sess[i].err) \/ sess'[i].reply = sess[i].reply
      BY <3>1, AppliedSession
    <3>2. sess'[i].reply.type = "reply"
      BY <3>0, <3>1 DEF Applied, Reply, NetInv
    <3>3. QED
      BY <3>1, <3>2 DEF Applied, NetInv
  <2>3. QED
    BY <2>1, <2>2, SessionStep
<1>3. QED
  BY <1>1, <1>2 DEF NetInv

(* No connection is dialed yet.                                            *)
LEMMA NetInit == Init => NetInv
<1> SUFFICES ASSUME Init PROVE NetInv
  OBVIOUS
<1>1. ASSUME NEW c \in Conns PROVE ConnInv(c)
  <2>1. /\ link[c] = "none" /\ up[c] = <<>> /\ down[c] = <<>> /\ th[c].pc = "none" /\ dialed = 0 /\ cl.sock = 0
        /\ op.pc = "idle" /\ c \in Nat /\ c > 0
    BY Bounds, IdleTyped DEF Init, NoThread, None, Conns
  <2>2. QED
    BY <2>1 DEF ConnInv, InUse, InHello
<1>2. QED
  BY <1>1 DEF Init, NewSession, NoReply, Reply, NetInv

-----------------------------------------------------------------------------
(* The client's steps, as far as its record of messages goes.              *)

SameRecord ==
  /\ cl'.seq = cl.seq /\ cl'.unacked = cl.unacked /\ cl'.replay = cl.replay /\ cl'.last_acked = cl.last_acked
  /\ issued' = issued /\ past'.overflowed = past.overflowed

(* Message q.seq + 1 is made, and is of kind k.                            *)
Queues(q, k) ==
  /\ q \in ClientRec /\ q.seq + 1 <= MaxSeq /\ Longer(q, cl')
  /\ issued'[q.seq + 1] = k /\ \A n \in 1 .. q.seq : issued'[n] = issued[n]
  /\ op'.pc \in {"flush", "idle"} /\ (op'.pc = "idle" => op' = Idle)
  /\ op'.wait \in {None, q.seq + 1} /\ (op'.wait # None => Waits(k) /\ op'.pc = "flush")
  /\ past'.gave_up = past.gave_up /\ past'.lost = past.lost
  /\ past'.overflowed = (past.overflowed \/ (q.replay /\ ~cl'.replay))

Calls == Elsewhere /\ op.pc = "idle" /\ told' = told /\ \E k \in Kinds \union {"ack"} : Queues(cl, k)

Receives ==
  LET r == Head(down[cl.sock]) IN
  /\ Reads /\ op.pc = "await" /\ r.n >= op.wait /\ r.n \in 0 .. MaxSeq
  /\ told' = [told EXCEPT ![op.wait] = r]
  /\ \E q \in ClientRec :
       /\ Shorter(cl, q, r.n) /\ q.last_acked = r.n
       /\ \/ cl' = q /\ op' = Idle /\ UNCHANGED <<issued, past>>
          \/ \E k \in Kinds \union {"ack"} : Queues(q, k)

Writes ==
  /\ WritesPending /\ SameRecord /\ cl'.pending = <<>> /\ cl'.had = cl.had /\ Written /\ op.pc = "flush"
  /\ UNCHANGED history

Resumes ==
  LET h == Head(down[dialed]) IN
  /\ op.pc = "rehello" /\ dialed \in Conns /\ Welcome(dialed) /\ ~Missing(h.n) /\ h.n \in 0 .. MaxSeq
  /\ cl'.unacked = Rest(cl.unacked, h.n) /\ cl'.replay = (cl.replay \/ cl'.unacked = <<>>)
  /\ cl'.seq = cl.seq /\ cl'.pending = <<>> /\ cl'.last_acked = cl.last_acked /\ cl'.had = cl.had
  /\ UNCHANGED <<issued, history>>
  /\ \/ Takes /\ Sent(dialed, cl'.unacked) /\ Written
     \/ Drops(dialed) /\ op'.pc = "retry" /\ op'.wait = op.wait

(* Every other step leaves the record as it is: the call goes on, or is    *)
(* over.                                                                   *)
Keeps ==
  /\ SameRecord /\ cl'.pending = cl.pending /\ told' = told
  /\ op'.wait \in {op.wait, None} /\ (op'.pc = "await" => op.pc = "await" /\ op'.wait = op.wait)
  /\ op'.pc \in {"flush", "hello"} /\ op'.wait # None => op.pc \in {"flush", "hello"}

ClientTurns == Calls \/ Receives \/ Writes \/ Resumes \/ Keeps

(* The session is picked up.                                               *)
LEMMA ResumeTurn == ASSUME TypeInv, Resume PROVE Resumes
<1> USE DEF TypeInv, Typed
<1>0. /\ cl \in ClientRec /\ op \in OpRec /\ cl.seq \in Nat
      /\ cl.sock # None => cl.sock \in Conns
      /\ InHello => dialed \in Conns /\ cl.sock = None
  BY MoveTypes, Bounds DEF ClientRec
<1>1. InHello /\ down[dialed] # <<>> /\ dialed \in Conns
  BY <1>0 DEF Resume, InHello, Welcome, Answered
<1>2. Head(down[dialed]).n \in 0 .. MaxSeq /\ Head(down[dialed]).n \in Nat
  BY <1>1, TailDown, Bounds DEF ReplyRec
<1> DEFINE h == Head(down[dialed])
           now == [Dropped(cl, h.n) EXCEPT !.pending = <<>>]
<1>3. Shorter(cl, Dropped(cl, h.n), h.n) /\ Dropped(cl, h.n).last_acked = cl.last_acked
  BY <1>0, <1>2, DroppedEffect
<1>4. /\ now \in ClientRec /\ now.unacked = Rest(cl.unacked, h.n) /\ now.replay = (cl.replay \/ now.unacked = <<>>)
      /\ now.seq = cl.seq /\ now.pending = <<>> /\ now.last_acked = cl.last_acked /\ now.had = cl.had
      /\ now.sock = cl.sock
  BY <1>3, EmptySeq DEF ClientRec, Shorter
<1>5. CASE cl' = [now EXCEPT !.sock = dialed] /\ Sent(dialed, now.unacked)
           /\ down' = [down EXCEPT ![dialed] = Tail(@)] /\ Written /\ UNCHANGED link
  <2>1. UNCHANGED <<issued, history>> /\ op.pc = "rehello" /\ Welcome(dialed) /\ ~Missing(h.n)
    BY DEF Resume
  <2> HIDE DEF now, h
  <2>2. /\ cl'.sock = dialed /\ cl'.unacked = now.unacked /\ cl'.replay = now.replay /\ cl'.seq = now.seq
        /\ cl'.pending = now.pending /\ cl'.last_acked = now.last_acked /\ cl'.had = now.had
    BY <1>4, <1>5 DEF ClientRec
  <2>3. Takes
    <3>1. dialed # None
      BY <1>1, NetTypes DEF None
    <3>2. ~Drops(dialed)
      BY <1>0, <1>1, <2>2, <3>1 DEF Drops
    <3>3. QED
      BY <3>2, ResumeMoves
  <2>4. Sent(dialed, cl'.unacked)
    BY <1>5, <2>2
  <2>5. QED
    BY <1>1, <1>2, <1>4, <1>5, <2>1, <2>2, <2>3, <2>4 DEF Resumes, h
<1>6. CASE cl' = now /\ At("retry") /\ link' = Closed(dialed)
           /\ down' = [down EXCEPT ![dialed] = <<>>] /\ UNCHANGED up
  <2>1. UNCHANGED <<issued, history>> /\ op.pc = "rehello" /\ Welcome(dialed) /\ ~Missing(h.n)
    BY DEF Resume
  <2> HIDE DEF now, h
  <2>2. op'.pc = "retry" /\ op'.wait = op.wait
    BY <1>0, <1>6, AtTyped
  <2>3. Drops(dialed)
    <3>1. dialed # None
      BY <1>1, NetTypes DEF None
    <3>2. ~Takes
      BY <1>0, <1>1, <1>4, <1>6, <3>1 DEF Takes
    <3>3. QED
      BY <3>2, ResumeMoves
  <2>4. QED
    BY <1>1, <1>2, <1>4, <1>6, <2>1, <2>2, <2>3 DEF Resumes, h
<1>7. QED
  BY <1>5, <1>6 DEF Resume

(* Every step of the client does one of these to its record.               *)
LEMMA Turns == ASSUME TypeInv, Client PROVE ClientTurns
<1> USE DEF TypeInv, Typed
<1>1. /\ cl \in ClientRec /\ op \in OpRec /\ cl.seq \in Nat
      /\ cl.sock # None => cl.sock \in Conns
      /\ InHello => dialed \in Conns /\ cl.sock = None
  BY MoveTypes, Bounds DEF ClientRec
<1>2. op.pc = "idle" => op.wait = None
  BY IdleTyped DEF PlaceInv
<1>3. ASSUME NEW k \in Kinds, Call(k) PROVE Calls
  <2>1. Elsewhere /\ op.pc = "idle" /\ told' = told
    BY <1>3, CallMoves DEF Call
  <2>2. CASE cl.seq + 1 <= MaxSeq /\ Enqueue(cl, k) /\ op' = Proceed(cl', k)
    <3>1. Longer(cl, cl') /\ issued'[cl.seq + 1] = k /\ \A n \in 1 .. cl.seq : issued'[n] = issued[n]
      BY <1>1, <2>2, EnqueueEffect
    <3>2. cl' \in ClientRec /\ cl'.seq = cl.seq + 1
      BY <3>1 DEF Longer
    <3>3. op'.pc \in {"flush", "idle"} /\ (op'.pc = "idle" => op' = Idle) /\ op'.wait \in {None, cl.seq + 1}
          /\ (op'.wait # None => Waits(k) /\ op'.pc = "flush")
      BY <2>2, <3>2, ProceedTyped
    <3>4. /\ past'.gave_up = past.gave_up /\ past'.lost = past.lost
          /\ past'.overflowed = (past.overflowed \/ (cl.replay /\ ~cl'.replay))
      BY <2>2, OverflowTyped
    <3>5. QED
      BY <1>1, <2>1, <2>2, <3>1, <3>3, <3>4 DEF Calls, Queues
  <2>3. CASE cl.seq + 2 <= MaxSeq /\ Enqueue(cl, "ack")
             /\ op' = [pc |-> "flush", wait |-> cl.seq + 1, then |-> k]
    <3>0. cl.seq + 1 <= MaxSeq
      BY <1>1, <2>3, Bounds
    <3>1. Longer(cl, cl') /\ issued'[cl.seq + 1] = "ack" /\ \A n \in 1 .. cl.seq : issued'[n] = issued[n]
      BY <1>1, <2>3, <3>0, EnqueueEffect
    <3>2. op'.pc = "flush" /\ op'.wait = cl.seq + 1 /\ Waits("ack")
      BY <2>3 DEF Waits
    <3>3. /\ past'.gave_up = past.gave_up /\ past'.lost = past.lost
          /\ past'.overflowed = (past.overflowed \/ (cl.replay /\ ~cl'.replay))
      BY <2>3, OverflowTyped
    <3>4. QED
      BY <1>1, <2>1, <3>0, <3>1, <3>2, <3>3 DEF Calls, Queues
  <2>4. QED
    BY <1>3, <2>2, <2>3 DEF Call
<1>4. CASE FlushWrites
  <2>1. WritesPending /\ Written /\ op.pc = "flush" /\ UNCHANGED <<issued, history>> /\ cl' = [cl EXCEPT !.pending = <<>>]
    BY <1>4, WriteMoves DEF FlushWrites
  <2>2. SameRecord /\ cl'.pending = <<>> /\ cl'.had = cl.had
    BY <1>1, <2>1 DEF ClientRec, SameRecord, history
  <2>3. QED
    BY <2>1, <2>2 DEF Writes, ClientTurns
<1>5. CASE Resume
  BY <1>5, ResumeTurn DEF ClientTurns
<1>6. CASE Receive
  <2>1. Reads /\ op.pc = "await" /\ down[cl.sock] # <<>> /\ cl.sock \in Conns
    BY <1>1, <1>6, ReadMoves DEF Receive, Answered, ClientTyped
  <2> DEFINE r == Head(down[cl.sock])
             q == Acknowledged(cl, r.n)
  <2>2. r.n \in 0 .. MaxSeq /\ r.n >= op.wait /\ told' = [told EXCEPT ![op.wait] = r]
    BY <1>6, <2>1, TailDown DEF ReplyRec, Receive
  <2>3. q \in ClientRec /\ Shorter(cl, q, r.n) /\ q.last_acked = r.n /\ q.seq = cl.seq
    BY <1>1, <2>2, AcknowledgedEffect DEF Shorter
  <2>4. CASE op.then # "none" /\ Enqueue(q, op.then) /\ op' = Proceed(cl', op.then)
    <3> HIDE DEF q, r
    <3>1. op.then \in Kinds \union {"ack"} /\ q.seq + 1 <= MaxSeq /\ cl.seq + 1 <= MaxSeq
      BY <1>1, <2>3, <2>4 DEF OpRec, PlaceInv
    <3>2. Longer(q, cl') /\ issued'[q.seq + 1] = op.then /\ \A n \in 1 .. q.seq : issued'[n] = issued[n]
      BY <2>3, <2>4, <3>1, EnqueueEffect
    <3>3. cl' \in ClientRec /\ cl'.seq = q.seq + 1
      BY <3>2 DEF Longer
    <3>4. op'.pc \in {"flush", "idle"} /\ (op'.pc = "idle" => op' = Idle) /\ op'.wait \in {None, q.seq + 1}
          /\ (op'.wait # None => Waits(op.then) /\ op'.pc = "flush")
      BY <2>4, <3>3, ProceedTyped
    <3>5. /\ past'.gave_up = past.gave_up /\ past'.lost = past.lost
          /\ past'.overflowed = (past.overflowed \/ (q.replay /\ ~cl'.replay))
      BY <2>4, OverflowTyped
    <3>6. Queues(q, op.then)
      BY <2>3, <3>1, <3>2, <3>4, <3>5 DEF Queues
    <3>7. QED
      BY <2>1, <2>2, <2>3, <3>1, <3>6 DEF Receives, ClientTurns, r
  <2>5. CASE cl' = q /\ op' = Idle /\ UNCHANGED <<issued, past>>
    <3> HIDE DEF q
    <3>1. QED
      BY <2>1, <2>2, <2>3, <2>5 DEF Receives, ClientTurns
  <2>6. QED
    BY <1>6, <2>4, <2>5 DEF Receive
<1>7. ASSUME Recover, cl.had PROVE /\ cl'.seq = cl.seq /\ cl'.unacked = cl.unacked /\ cl'.replay = cl.replay
                                   /\ cl'.last_acked = cl.last_acked /\ cl'.pending = cl.pending
                                   /\ op'.wait = op.wait /\ op'.pc \in {"dial", "retry"}
  <2>1. cl' = [cl EXCEPT !.sock = None, !.recovering = TRUE] /\ op'.wait = op.wait /\ op'.pc \in {"dial", "retry"}
    BY <1>7, RecoverTyped
  <2>2. QED
    BY <1>1, <2>1 DEF ClientRec
<1>8. ASSUME Unreached, UNCHANGED <<issued, told>> PROVE Keeps
  <2>1. past' = past
    BY <1>8 DEF Unreached
  <2>2. CASE cl.had /\ Recover
    BY <1>7, <1>8, <2>1, <2>2 DEF Keeps, SameRecord
  <2>3. CASE op' = Idle /\ UNCHANGED cl
    BY <1>8, <2>1, <2>3, IdleTyped DEF Keeps, SameRecord
  <2>4. QED
    BY <1>8, <2>2, <2>3 DEF Unreached
<1>9. CASE FlushRefused \/ HelloFails
  BY <1>8, <1>9 DEF FlushRefused, HelloFails, ClientTurns
<1>10. CASE FlushFails \/ ReceiveFails
  BY <1>7, <1>10 DEF FlushFails, ReceiveFails, ClientTurns, Keeps, SameRecord, history, PlaceInv, ClientTyped
<1>11. CASE FlushCall
  BY <1>11, IdleTyped DEF FlushCall, ClientTurns, Keeps, SameRecord, history, Idle
<1>12. CASE FlushDials \/ Redial
  BY <1>1, <1>12, AtTyped DEF FlushDials, Redial, ClientTurns, Keeps, SameRecord, history
<1>13. CASE RedialRefused \/ RehelloFails
  BY <1>1, <1>13, AtTyped DEF RedialRefused, RehelloFails, ClientTurns, Keeps, SameRecord, history
<1>14. CASE Lost
  <2>1. op' = Idle /\ past'.overflowed = past.overflowed
    BY <1>14 DEF Lost, Raise, HistoryTyped
  <2>2. /\ cl'.seq = cl.seq /\ cl'.unacked = cl.unacked /\ cl'.replay = cl.replay
        /\ cl'.last_acked = cl.last_acked /\ cl'.pending = cl.pending
    BY <1>1, <1>14 DEF Lost, ClientRec
  <2>3. QED
    BY <1>14, <2>1, <2>2, IdleTyped DEF Lost, ClientTurns, Keeps, SameRecord
<1>15. CASE GivesUp
  <2>1. op' = Idle /\ past'.overflowed = past.overflowed
    BY <1>15 DEF GivesUp, Raise, HistoryTyped
  <2>2. /\ cl'.seq = cl.seq /\ cl'.unacked = cl.unacked /\ cl'.replay = cl.replay
        /\ cl'.last_acked = cl.last_acked /\ cl'.pending = cl.pending
    BY <1>1, <1>15 DEF GivesUp, ClientRec
  <2>3. QED
    BY <1>15, <2>1, <2>2, IdleTyped DEF GivesUp, ClientTurns, Keeps, SameRecord
<1>16. CASE HelloFlush
  <2>1. op'.wait = op.wait /\ op'.pc = "flush" /\ op.pc = "hello" /\ UNCHANGED <<issued, history>>
    BY <1>1, <1>16, AtTyped DEF HelloFlush
  <2>2. /\ cl'.seq = cl.seq /\ cl'.unacked = cl.unacked /\ cl'.replay = cl.replay
        /\ cl'.last_acked = cl.last_acked /\ cl'.pending = cl.pending
    BY <1>1, <1>16 DEF HelloFlush, ClientRec
  <2>3. QED
    BY <2>1, <2>2, IdleTyped DEF ClientTurns, Keeps, SameRecord, history
<1>17. CASE OldReply
  BY <1>17 DEF OldReply, ClientTurns, Keeps, SameRecord, clientVars, history
<1>18. QED
  BY <1>3, <1>4, <1>5, <1>6, <1>9, <1>10, <1>11, <1>12, <1>13, <1>14, <1>15, <1>16, <1>17
     DEF Client, HelloLost, ResumeMissing, ClientTurns

-----------------------------------------------------------------------------
(* The replay buffer: while it replays, it holds the last messages made,   *)
(* without a gap; what is gone from it is what comes before.               *)

Buffer(q) ==
  /\ q.replay => \A i \in DOMAIN q.unacked : q.unacked[i] = (q.seq + i) - Len(q.unacked)
  /\ ~q.replay => q.unacked = <<>>
Gone(q) == q.seq - Len(q.unacked)

(* How many messages the replay buffer no longer holds.                    *)
LEMMA GoneBounds ==
  ASSUME NEW q \in ClientRec, Buffer(q)
  PROVE  /\ Gone(q) \in 0 .. q.seq /\ q.seq \in Nat /\ Len(q.unacked) \in Nat
         /\ q.unacked = <<>> <=> Gone(q) = q.seq
         /\ q.unacked # <<>> => Head(q.unacked) = Gone(q) + 1
<1>1. q.unacked \in Seq(Msgs) /\ q.seq \in Nat /\ q.replay \in BOOLEAN
  BY Bounds DEF ClientRec
<1>2. Len(q.unacked) \in Nat /\ DOMAIN q.unacked = 1 .. Len(q.unacked)
      /\ \A i \in DOMAIN q.unacked : q.unacked[i] \in Nat /\ q.unacked[i] >= 1
  BY <1>1, LenProperties, ElementOfSeq, Bounds DEF Msgs
<1>3. CASE q.unacked = <<>>
  BY <1>1, <1>3 DEF Gone
<1>4. CASE q.unacked # <<>>
  <2>1. Len(q.unacked) >= 1 /\ 1 \in DOMAIN q.unacked /\ Head(q.unacked) = q.unacked[1]
    BY <1>1, <1>2, <1>4, EmptySeq, TailOf
  <2>2. q.unacked[1] = (q.seq + 1) - Len(q.unacked)
    BY <1>1, <1>4, <2>1 DEF Buffer
  <2>3. Gone(q) \in Int /\ Head(q.unacked) = Gone(q) + 1 /\ Gone(q) # q.seq
    BY <1>1, <1>2, <2>1, <2>2 DEF Gone
  <2>4. Gone(q) + 1 >= 1 /\ Gone(q) <= q.seq
    BY <1>1, <1>2, <2>1, <2>3 DEF Gone
  <2>5. Gone(q) \in 0 .. q.seq
    BY <1>1, <2>3, <2>4
  <2>6. QED
    BY <1>1, <1>2, <1>4, <2>3, <2>5
<1>5. QED
  BY <1>1, <1>2, <1>3, <1>4

(* What is at or before n leaves from the front.                           *)
LEMMA RestBuffer ==
  ASSUME NEW q \in ClientRec, Buffer(q), NEW n \in Nat, NEW now,
         now.unacked = Rest(q.unacked, n), now.replay = (q.replay \/ now.unacked = <<>>), now.seq = q.seq
  PROVE  /\ Buffer(now) /\ Gone(now) \in Nat /\ Gone(now) >= Gone(q)
         /\ Gone(now) = Gone(q) \/ Gone(now) <= n
         /\ q.replay => now.replay
         /\ \A i \in DOMAIN now.unacked : now.unacked[i] > n /\ \E j \in DOMAIN q.unacked : q.unacked[j] = now.unacked[i]
<1>1. q.unacked \in Seq(Msgs) /\ q.seq \in Nat /\ q.replay \in BOOLEAN /\ Gone(q) \in 0 .. q.seq
  BY Bounds, GoneBounds DEF ClientRec
<1>2. Len(q.unacked) \in Nat /\ DOMAIN q.unacked = 1 .. Len(q.unacked)
      /\ \A i \in DOMAIN q.unacked : q.unacked[i] \in Nat
  BY <1>1, LenProperties, ElementOfSeq, Bounds DEF Msgs
<1>3. CASE now.unacked = <<>> /\ \A i \in DOMAIN q.unacked : q.unacked[i] <= n
  <2>0. now.replay
    BY <1>3
  <2>1. Len(now.unacked) = 0 /\ Gone(now) = q.seq /\ now.replay
    <3>1. Len(now.unacked) = 0 /\ now.seq = q.seq
      BY <1>3
    <3>2. QED
      BY <1>1, <2>0, <3>1 DEF Gone
  <2>2. CASE q.unacked = <<>>
    BY <1>1, <1>3, <2>1, <2>2 DEF Gone, Buffer
  <2>3. CASE q.unacked # <<>>
    <3>1. Len(q.unacked) \in DOMAIN q.unacked /\ q.replay
      BY <1>1, <1>2, <2>3, EmptySeq DEF Buffer
    <3>2. q.unacked[Len(q.unacked)] = q.seq
      BY <1>1, <1>2, <3>1 DEF Buffer
    <3>3. QED
      BY <1>1, <1>3, <2>1, <3>1, <3>2 DEF Buffer
  <2>4. QED
    BY <2>2, <2>3
<1>4. ASSUME NEW first \in DOMAIN q.unacked, now.unacked = SubSeq(q.unacked, first, Len(q.unacked)),
             q.unacked[first] > n, \A i \in DOMAIN q.unacked : i < first => q.unacked[i] <= n
      PROVE  /\ Buffer(now) /\ Gone(now) \in Nat /\ Gone(now) >= Gone(q)
             /\ Gone(now) = Gone(q) \/ Gone(now) <= n
             /\ q.replay => now.replay
             /\ \A i \in DOMAIN now.unacked : now.unacked[i] > n /\ \E j \in DOMAIN q.unacked : q.unacked[j] = now.unacked[i]
  <2>1. q.replay /\ now.replay /\ first \in Nat /\ first >= 1 /\ first <= Len(q.unacked) /\ now.seq = q.seq
    BY <1>1, <1>2, <1>4 DEF Buffer
  <2>2. /\ now.unacked \in Seq(Msgs) /\ Len(now.unacked) = Len(q.unacked) - first + 1
        /\ \A i \in 1 .. Len(now.unacked) : now.unacked[i] = q.unacked[first + i - 1]
    BY <1>1, <1>2, <1>4, SubSeqProperties
  <2>3. DOMAIN now.unacked = 1 .. Len(now.unacked)
    BY <2>2, LenProperties
  <2>4. ASSUME NEW i \in DOMAIN now.unacked
        PROVE  /\ now.unacked[i] = (now.seq + i) - Len(now.unacked)
               /\ first + i - 1 \in DOMAIN q.unacked /\ q.unacked[first + i - 1] = now.unacked[i]
               /\ now.unacked[i] > n
    <3>1. first + i - 1 \in DOMAIN q.unacked /\ now.unacked[i] = q.unacked[first + i - 1] /\ i \in Nat /\ i >= 1
      BY <1>2, <2>2, <2>3
    <3> DEFINE k == first + i - 1
    <3>0. k \in DOMAIN q.unacked /\ now.unacked[i] = q.unacked[k] /\ k = first + i - 1 /\ k \in Nat
      BY <1>2, <3>1
    <3> HIDE DEF k
    <3>2. q.unacked[k] = (q.seq + k) - Len(q.unacked)
      BY <2>1, <3>0 DEF Buffer
    <3>3. q.unacked[first] = (q.seq + first) - Len(q.unacked)
      BY <2>1 DEF Buffer
    <3> DEFINE x == now.unacked[i]
               y == q.unacked[first]
               l == Len(q.unacked)
               m == Len(now.unacked)
               s == q.seq
    <3>4. /\ x = (s + k) - l /\ y = (s + first) - l /\ m = l - first + 1 /\ k = first + i - 1
          /\ s \in Nat /\ l \in Nat /\ first \in Nat /\ i \in Nat /\ i >= 1 /\ m \in Nat
      BY <1>1, <1>2, <2>1, <2>2, <3>0, <3>1, <3>2, <3>3, LenProperties
    <3> HIDE DEF x, y, l, m, s
    <3>5. x = (s + i) - m /\ x >= y
      BY ONLY <3>4
    <3>6. now.unacked[i] = (now.seq + i) - Len(now.unacked)
      BY <2>1, <3>5 DEF x, l, m, s
    <3>7. now.unacked[i] > n
      <4>0. y > n
        BY <1>4 DEF y
      <4>1. y \in Int /\ x \in Int
        BY ONLY <3>4
      <4>2. x > n
        BY ONLY <3>5, <4>0, <4>1, n \in Nat
      <4>3. QED
        BY <4>2 DEF x
    <3>8. QED
      BY <3>1, <3>6, <3>7
  <2>5. Buffer(now)
    BY <2>1, <2>4 DEF Buffer
  <2>6. Gone(now) = Gone(q) + (first - 1)
    BY <1>1, <1>2, <2>1, <2>2 DEF Gone
  <2>7. Gone(now) = Gone(q) \/ Gone(now) <= n
    <3>1. CASE first = 1
      BY <1>1, <2>6, <3>1
    <3>2. CASE first # 1
      <4>1. first - 1 \in DOMAIN q.unacked /\ q.unacked[first - 1] <= n
        BY <1>2, <1>4, <2>1, <3>2
      <4>2. q.unacked[first - 1] = (q.seq + (first - 1)) - Len(q.unacked)
        BY <2>1, <4>1 DEF Buffer
      <4>3. QED
        BY <1>1, <1>2, <2>6, <4>1, <4>2 DEF Gone
    <3>3. QED
      BY <3>1, <3>2
  <2>8. QED
    BY <1>1, <1>2, <2>1, <2>4, <2>5, <2>6, <2>7
<1>5. CASE \E first \in DOMAIN q.unacked :
              /\ Rest(q.unacked, n) = SubSeq(q.unacked, first, Len(q.unacked))
              /\ q.unacked[first] > n
              /\ \A i \in DOMAIN q.unacked : i < first => q.unacked[i] <= n
  BY <1>4, <1>5
<1>6. CASE Rest(q.unacked, n) = <<>> /\ \A i \in DOMAIN q.unacked : q.unacked[i] <= n
  BY <1>3, <1>6
<1>7. Msgs \subseteq Nat
  BY Bounds DEF Msgs
<1>8. QED
  BY <1>1, <1>5, <1>6, <1>7, RestIsSuffix

(* A message more: nothing is gone, unless the buffer overflows.           *)
LEMMA LongerBuffer ==
  ASSUME NEW q \in ClientRec, Buffer(q), NEW now, Longer(q, now)
  PROVE  /\ Buffer(now) /\ (now.replay => q.replay /\ Gone(now) = Gone(q))
         /\ \A i \in DOMAIN now.unacked : now.unacked[i] = q.seq + 1 \/ \E j \in DOMAIN q.unacked : q.unacked[j] = now.unacked[i]
<1>1. q.unacked \in Seq(Msgs) /\ q.seq \in Nat /\ q.replay \in BOOLEAN /\ now.seq = q.seq + 1
      /\ now.unacked \in Seq(Msgs)
  BY Bounds DEF ClientRec, Longer
<1>2. Len(q.unacked) \in Nat /\ DOMAIN q.unacked = 1 .. Len(q.unacked)
  BY <1>1, LenProperties
<1>3. CASE now.replay = FALSE /\ now.unacked = <<>>
  BY <1>3 DEF Buffer
<1>4. CASE now.replay = q.replay /\ q.replay /\ now.unacked = Append(q.unacked, q.seq + 1)
  <2>1. q.seq + 1 \in Msgs
    BY <1>1, Bounds DEF Longer, ClientRec, Msgs
  <2>2. /\ Len(now.unacked) = Len(q.unacked) + 1 /\ DOMAIN now.unacked = 1 .. Len(q.unacked) + 1
        /\ now.unacked[Len(q.unacked) + 1] = q.seq + 1
        /\ \A i \in 1 .. Len(q.unacked) : now.unacked[i] = q.unacked[i]
    BY <1>1, <1>2, <1>4, <2>1, AppendProperties
  <2>3. ASSUME NEW i \in DOMAIN now.unacked PROVE now.unacked[i] = (now.seq + i) - Len(now.unacked)
    <3>1. CASE i = Len(q.unacked) + 1
      BY <1>1, <1>2, <2>2, <3>1
    <3>2. CASE i \in DOMAIN q.unacked
      BY <1>1, <1>2, <1>4, <2>2, <3>2 DEF Buffer
    <3>3. QED
      BY <1>2, <2>2, <3>1, <3>2
  <2>4. Gone(now) = Gone(q)
    BY <1>1, <1>2, <2>2 DEF Gone
  <2>5. QED
    BY <1>2, <1>4, <2>2, <2>3, <2>4 DEF Buffer
<1>5. CASE now.replay = q.replay /\ ~q.replay /\ now.unacked = q.unacked
  BY <1>5 DEF Buffer
<1>6. QED
  BY <1>1, <1>3, <1>4, <1>5 DEF Longer

(* The client's record is its own: the server and the network leave it.    *)
LEMMA ClientOnly ==
  ASSUME TypeInv, [Next]_vars, ~Client
  PROVE  UNCHANGED clientVars /\ told' = told /\ dialed' = dialed
         /\ past'.overflowed = past.overflowed /\ past'.gave_up = past.gave_up /\ past'.lost = past.lost
<1>0. past \in [gave_up : BOOLEAN, lost : BOOLEAN, removed : BOOLEAN, overflowed : BOOLEAN]
  BY DEF TypeInv, Typed, HistoryTyped
<1>1. CASE Server
  <2>1. UNCHANGED clientVars /\ told' = told /\ dialed' = dialed /\ (past' = past \/ Removed)
    BY <1>1 DEF Server, Attach, NoHello, Snapshot, TakeBatch, Execute, Leave, Reap, Restart, netVars, history
  <2>2. QED
    BY <1>0, <2>1 DEF Removed
<1>2. CASE \E c \in Conns : Cut(c)
  BY <1>2 DEF Cut, history
<1>3. CASE UNCHANGED vars
  BY <1>3 DEF vars, history, netVars
<1>4. QED
  BY <1>1, <1>2, <1>3 DEF Next

BufferInv == Buffer(cl) /\ (~past.overflowed => cl.replay)

(* The replay buffer stays without a gap through _append, _ack and         *)
(* _reconnect.                                                             *)
LEMMA BufferStep == TypeInv /\ BufferInv /\ [Next]_vars => BufferInv'
<1> SUFFICES ASSUME TypeInv, BufferInv, [Next]_vars PROVE BufferInv'
  OBVIOUS
<1>0. /\ cl \in ClientRec /\ cl.replay \in BOOLEAN /\ cl.seq \in Nat /\ past.overflowed \in BOOLEAN
      /\ down \in [Conns -> Seq(ReplyRec)]
  BY Bounds DEF TypeInv, Typed, ClientTyped, ClientRec, HistoryTyped, NetTyped
<1>1. ASSUME NEW q \in ClientRec, Buffer(q), cl.replay => q.replay, NEW k, Queues(q, k)
      PROVE  BufferInv'
  <2>1. Longer(q, cl') /\ past'.overflowed = (past.overflowed \/ (q.replay /\ ~cl'.replay))
    BY <1>1 DEF Queues
  <2>2. Buffer(cl') /\ q.replay \in BOOLEAN /\ cl'.replay \in BOOLEAN
    BY <1>1, <2>1, LongerBuffer DEF Longer, ClientRec
  <2>3. ~past'.overflowed => cl'.replay
    BY <1>0, <1>1, <2>1, <2>2 DEF BufferInv
  <2>4. QED
    BY <2>2, <2>3 DEF BufferInv, Buffer
<1>2. CASE Calls
  <2>1. PICK k : Queues(cl, k)
    BY <1>2 DEF Calls
  <2>2. QED
    BY <1>0, <1>1, <2>1 DEF BufferInv
<1>3. CASE Receives
  <2> DEFINE n == Head(down[cl.sock]).n
  <2>1. n \in Nat
    BY <1>3, Bounds DEF Receives
  <2>2. PICK q \in ClientRec :
          /\ Shorter(cl, q, n)
          /\ (cl' = q /\ past' = past) \/ \E k \in Kinds \union {"ack"} : Queues(q, k)
    BY <1>3 DEF Receives
  <2> HIDE DEF n
  <2>3. q.unacked = Rest(cl.unacked, n) /\ q.replay = (cl.replay \/ q.unacked = <<>>) /\ q.seq = cl.seq
    BY <2>2 DEF Shorter
  <2>4. Buffer(q) /\ (cl.replay => q.replay)
    BY <1>0, <2>1, <2>3, RestBuffer DEF BufferInv
  <2>5. CASE cl' = q /\ past' = past
    BY <2>4, <2>5 DEF BufferInv, Buffer
  <2>6. QED
    BY <1>1, <2>2, <2>4, <2>5
<1>4. CASE Resumes
  <2> DEFINE n == Head(down[dialed]).n
  <2>1. n \in Nat /\ cl'.unacked = Rest(cl.unacked, n) /\ cl'.replay = (cl.replay \/ cl'.unacked = <<>>)
        /\ cl'.seq = cl.seq /\ past' = past
    BY <1>4, Bounds DEF Resumes, history
  <2> HIDE DEF n
  <2>2. Buffer(cl') /\ (cl.replay => cl'.replay)
    BY <1>0, <2>1, RestBuffer DEF BufferInv
  <2>3. QED
    BY <2>1, <2>2 DEF BufferInv, Buffer
<1>5. ASSUME SameRecord PROVE BufferInv'
  BY <1>5 DEF SameRecord, BufferInv, Buffer
<1>6. CASE Writes \/ Keeps
  BY <1>5, <1>6 DEF Writes, Keeps
<1>7. CASE ~Client
  BY <1>5, <1>7, ClientOnly DEF SameRecord, clientVars
<1>8. QED
  BY <1>2, <1>3, <1>4, <1>6, <1>7, Turns DEF ClientTurns

-----------------------------------------------------------------------------
(* What is on its way to the client: what was, the greeting of a thread,   *)
(* or the reply to what it applied.                                        *)
From(now, q) == \A i \in DOMAIN now : \E j \in DOMAIN q : now[i] = q[j]

(* What a step leaves on its way to the client.                            *)
LEMMA DownStep ==
  ASSUME TypeInv, FreshInv, NetInv, [Next]_vars
  PROVE  \A c \in Conns :
           \/ From(down'[c], down[c])
           \/ Snapshot(c) /\ Snapped(c) /\ Greets(c) /\ down[c] = <<>>
           \/ \E i, n : Applied(c, i, n) /\ Answers(c, i, n)
<1> TAKE c \in Conns
<1>1. down[c] \in Seq(ReplyRec)
  BY NetTypes
<1>2. CASE down'[c] = down[c] \/ down'[c] = <<>>
  BY <1>2 DEF From
<1>3. CASE down[c] # <<>> /\ down'[c] = Tail(down[c])
  BY <1>1, <1>3, TailOf DEF From
<1>4. CASE Client
  BY <1>2, <1>3, <1>4, Moves DEF ClientMoves, Dials, Drops, Takes, WritesPending, Reads, Elsewhere, Others, netVars
<1>5. ASSUME NEW d \in Conns, Attach(d) \/ NoHello(d) \/ TakeBatch(d) \/ Leave(d) PROVE down' = down
  BY <1>5 DEF Attach, NoHello, TakeBatch, Leave, netVars
<1>6. CASE Reap \/ Restart \/ UNCHANGED vars
  BY <1>2, <1>6 DEF Reap, Restart, vars, netVars
<1>7. ASSUME NEW d \in Conns, Snapshot(d)
      PROVE  Snapped(d) /\ Greets(d) /\ down[d] = <<>>
  <2>1. Snapped(d)
    BY <1>7, SnapshotEffect
  <2>2. down[d] = <<>>
    BY <2>1 DEF NetInv, ConnInv, Snapped
  <2>3. QED
    BY <1>7, <2>1, <2>2, SnapshotGreets
<1>8. ASSUME NEW d \in Conns, Execute(d)
      PROVE  down' = down \/ \E i, n : Applied(d, i, n) /\ Answers(d, i, n)
  <2>1. CASE Applies(d)
    BY <2>1, AppliesEffect, AppliedAnswers
  <2>2. QED
    BY <1>8, <2>1 DEF Execute, Applies
<1>9. CASE \E d \in Conns : Cut(d)
  <2>1. PICK d \in Conns : Cut(d)
    BY <1>9
  <2>2. PICK i \in 0 .. Len(down[d]) : down' = [down EXCEPT ![d] = SubSeq(@, 1, i)]
    BY <2>1 DEF Cut
  <2>3. CASE c = d
    <3>1. down'[c] = SubSeq(down[c], 1, i)
      BY <2>2, <2>3 DEF TypeInv, Typed, NetTyped
    <3>2. QED
      BY <1>1, <2>2, <2>3, <3>1, PrefixOf DEF From
  <2>4. QED
    BY <1>2, <2>2, <2>3 DEF TypeInv, Typed, NetTyped
<1>10. CASE \E d \in Conns : Snapshot(d)
  <2>1. PICK d \in Conns : Snapshot(d)
    BY <1>10
  <2>2. Snapped(d) /\ Greets(d) /\ down[d] = <<>>
    BY <1>7, <2>1
  <2>3. d # c => down'[c] = down[c]
    BY <2>2 DEF Greets, Others
  <2>4. QED
    BY <1>2, <2>1, <2>2, <2>3
<1>11. CASE \E d \in Conns : Execute(d)
  <2>1. PICK d \in Conns : Execute(d)
    BY <1>11
  <2>2. CASE \E i, n : Applied(d, i, n) /\ Answers(d, i, n)
    <3>1. d # c => down'[c] = down[c]
      BY <2>2 DEF Answers, Others
    <3>2. QED
      BY <1>2, <2>2, <3>1
  <2>3. QED
    BY <1>2, <1>8, <2>1, <2>2
<1>12. QED
  BY <1>2, <1>4, <1>5, <1>6, <1>9, <1>10, <1>11 DEF Next, Server

(* What is on its way to a thread or in its hands: it stays, its next      *)
(* message goes, a batch is taken in, some of it is lost, or the client    *)
(* sends more.                                                             *)
Holds(c)     == up'[c] = up[c] /\ th'[c].batch = th[c].batch
Works(c)     == Execute(c) /\ up'[c] = up[c] /\ th[c].batch # <<>> /\ th'[c].batch = Tail(th[c].batch)
TakesIn(c)   == /\ th[c].batch = <<>> /\ up[c] # <<>>
                /\ th'[c].batch = Head(up[c]) /\ up'[c] = Tail(up[c])
Ends(c)      == up'[c] = <<>> /\ th'[c].batch = <<>> /\ th'[c].pc # "serving"
IsCut(c)     == /\ link'[c] # "open" /\ th'[c].batch = th[c].batch
                /\ \E i \in 0 .. Len(up[c]) : up'[c] = SubSeq(up[c], 1, i)
Sends(c, q)  == link[c] = "open" /\ q # <<>> /\ up'[c] = Append(up[c], q) /\ th'[c].batch = th[c].batch
SendsOut(c)  == \/ WritesPending /\ c = cl.sock /\ Sends(c, cl.pending)
                \/ Takes /\ Sent(dialed, cl'.unacked) /\ c = dialed /\ Sends(c, cl'.unacked)
Load(c) == Holds(c) \/ Works(c) \/ TakesIn(c) \/ Ends(c) \/ IsCut(c) \/ SendsOut(c)

(* What a step leaves on its way to a thread and in its hands.             *)
LEMMA LoadStep ==
  ASSUME TypeInv, FreshInv, NetInv, [Next]_vars
  PROVE  \A c \in Conns : Load(c)
<1> TAKE c \in Conns
<1>0. /\ up \in [Conns -> Seq(Seq(Msgs))] /\ th \in [Conns -> ThreadRec] /\ th[c] \in ThreadRec
      /\ link \in [Conns -> {"none", "open", "cut", "closed"}]
  BY DEF TypeInv, Typed, NetTyped, ServerTyped
<1>1. CASE up'[c] = up[c] /\ th'[c] = th[c]
  BY <1>1 DEF Load, Holds
<1>2. CASE Dials
  <2>1. dialed \in Nat /\ dialed' = dialed + 1 /\ dialed' \in Conns /\ up' = up
    BY <1>2, Bounds, NetTypes DEF Dials, Dial, Conns
  <2>2. CASE c = dialed'
    <3>1. th[c].batch = <<>>
      BY <2>1, <2>2 DEF TypeInv, Typed, CountInv, NoThread
    <3>2. th'[c].batch = <<>>
      BY <1>0, <1>2, <2>1, <2>2 DEF Dials, Dial, NoThread
    <3>3. QED
      BY <2>1, <3>1, <3>2 DEF Load, Holds
  <2>3. CASE c # dialed'
    BY <1>0, <1>1, <1>2, <2>1, <2>3 DEF Dials, Dial
  <2>4. QED
    BY <2>2, <2>3
<1>3. CASE Takes
  <2>1. CASE Sent(dialed, cl'.unacked) /\ c = dialed /\ link[c] = "open" /\ cl'.unacked # <<>>
    <3>1. Sends(c, cl'.unacked)
      BY <1>0, <1>3, <2>1 DEF Sends, Sent, Takes
    <3>2. QED
      BY <1>3, <2>1, <3>1 DEF Load, SendsOut
  <2>2. QED
    BY <1>0, <1>1, <1>3, <2>1 DEF Takes, Sent
<1>4. CASE WritesPending
  <2>1. CASE c = cl.sock /\ link[c] = "open" /\ cl.pending # <<>>
    <3>1. Sends(c, cl.pending)
      BY <1>0, <1>4, <2>1 DEF Sends, Sent, WritesPending
    <3>2. QED
      BY <1>4, <2>1, <3>1 DEF Load, SendsOut
  <2>2. QED
    BY <1>0, <1>1, <1>4, <2>1 DEF WritesPending, Sent
<1>5. CASE Client
  BY <1>1, <1>2, <1>3, <1>4, <1>5, Moves DEF ClientMoves, Drops, Reads, Elsewhere, netVars
<1>6. ASSUME NEW d \in Conns, d # c, Attach(d) \/ NoHello(d) \/ TakeBatch(d) \/ Leave(d) \/ Snapshot(d) \/ Execute(d)
      PROVE  Load(c)
  BY <1>0, <1>1, <1>6 DEF Attach, NoHello, TakeBatch, Leave, Snapshot, Execute, Thread, netVars
<1>7. CASE Attach(c)
  BY <1>0, <1>7, AttachEffect DEF Attached, netVars, Load, Holds
<1>8. CASE NoHello(c)
  <2>1. th[c].pc = "accepted" /\ th'[c].batch = <<>> /\ up' = up
    BY <1>0, <1>8 DEF NoHello, Thread, NoThread, netVars
  <2>2. th[c].batch = <<>>
    BY <2>1 DEF FreshInv
  <2>3. QED
    BY <2>1, <2>2 DEF Load, Holds
<1>9. CASE Snapshot(c)
  BY <1>9, SnapshotEffect DEF Snapped, Snapshot, Load, Holds
<1>10. CASE TakeBatch(c)
  BY <1>0, <1>10 DEF TakeBatch, Thread, ThreadRec, Load, TakesIn
<1>11. CASE Execute(c)
  BY <1>0, <1>11 DEF Execute, Thread, ThreadRec, Load, Works
<1>12. CASE Leave(c)
  BY <1>0, <1>12 DEF Leave, Thread, NoThread, Load, Ends
<1>13. CASE Restart
  <2>2. th'[c].batch = <<>> /\ th'[c].pc # "serving"
    <3>1. CASE th[c].pc = "none"
      BY <1>13, <3>1 DEF Restart, FreshInv
    <3>2. CASE th[c].pc # "none"
      BY <1>13, <3>2 DEF Restart, NoThread
    <3>3. QED
      BY <3>1, <3>2
  <2>3. up'[c] = <<>>
    BY <1>13 DEF Restart
  <2>4. QED
    BY <2>2, <2>3 DEF Load, Ends
<1>14. CASE Reap \/ UNCHANGED vars
  BY <1>1, <1>14 DEF Reap, vars, netVars, serverVars
<1>15. ASSUME NEW d \in Conns, Cut(d) PROVE Load(c)
  <2>1. PICK i \in 0 .. Len(up[d]) : up' = [up EXCEPT ![d] = SubSeq(@, 1, i)]
    BY <1>15 DEF Cut
  <2>2. th' = th
    BY <1>15 DEF Cut, serverVars
  <2>3. CASE c = d
    <3>1. up'[c] = SubSeq(up[c], 1, i)
      BY <1>0, <2>1, <2>3
    <3>2. link'[c] # "open"
      BY <1>0, <1>15, <2>3 DEF Cut
    <3>3. QED
      BY <2>1, <2>2, <2>3, <3>1, <3>2 DEF Load, IsCut
  <2>4. QED
    BY <1>0, <1>1, <2>1, <2>2, <2>3
<1>16. QED
  BY <1>5, <1>6, <1>7, <1>8, <1>9, <1>10, <1>11, <1>12, <1>13, <1>14, <1>15 DEF Next, Server

-----------------------------------------------------------------------------
(* Message n is in the hands of the server's thread of c or on its way.    *)
In(q, n) == \E i \in DOMAIN q : q[i] = n
Among(batch, batches, n) == In(batch, n) \/ \E i \in DOMAIN batches : In(batches[i], n)
Coming(c, n) == Among(th[c].batch, up[c], n)

(* The client sends n on c.                                                *)
SentOn(c, n) ==
  /\ SendsOut(c)
  /\ \/ WritesPending /\ c = cl.sock /\ link[c] = "open" /\ In(cl.pending, n)
     \/ Takes /\ Sent(dialed, cl'.unacked) /\ c = dialed /\ link[c] = "open" /\ In(cl'.unacked, n)

(* What is among the batches when one is sent, taken in, lost or worked    *)
(* on.                                                                     *)
LEMMA InSeqs ==
  ASSUME NEW q \in Seq(Seq(Msgs)), NEW b \in Seq(Msgs), NEW n
  PROVE  /\ Among(b, Append(q, <<>>), n) <=> Among(b, q, n)
         /\ \A a \in Seq(Msgs) : Among(b, Append(q, a), n) <=> Among(b, q, n) \/ In(a, n)
         /\ q # <<>> => (Among(Head(q), Tail(q), n) <=> Among(<<>>, q, n))
         /\ \A i \in 0 .. Len(q) : Among(b, SubSeq(q, 1, i), n) => Among(b, q, n)
         /\ b # <<>> => /\ Among(Tail(b), q, n) => Among(b, q, n)
                        /\ Among(b, q, n) => Among(Tail(b), q, n) \/ n = Head(b)
<1>0. \A a \in Seq(Msgs) : Among(b, Append(q, a), n) <=> Among(b, q, n) \/ In(a, n)
  <2> TAKE a \in Seq(Msgs)
  <2> DEFINE z == Append(q, a)
  <2>1. /\ Len(q) \in Nat /\ DOMAIN q = 1 .. Len(q) /\ DOMAIN z = 1 .. Len(q) + 1 /\ z[Len(q) + 1] = a
        /\ \A i \in 1 .. Len(q) : z[i] = q[i]
    BY AppendProperties, LenProperties
  <2> HIDE DEF z
  <2>2. ASSUME Among(b, z, n) PROVE Among(b, q, n) \/ In(a, n)
    <3>1. CASE In(b, n)
      BY <3>1 DEF Among
    <3>2. CASE \E i \in DOMAIN z : In(z[i], n)
      <4>1. PICK i \in DOMAIN z : In(z[i], n)
        BY <3>2
      <4>2. CASE i = Len(q) + 1
        BY <2>1, <4>1, <4>2
      <4>3. CASE i # Len(q) + 1
        <5>1. i \in DOMAIN q /\ z[i] = q[i]
          BY <2>1, <4>3
        <5>2. QED
          BY <4>1, <5>1 DEF Among
      <4>4. QED
        BY <4>2, <4>3
    <3>3. QED
      BY <2>2, <3>1, <3>2 DEF Among
  <2>3. ASSUME Among(b, q, n) PROVE Among(b, z, n)
    <3>1. \A i \in DOMAIN q : i \in DOMAIN z /\ z[i] = q[i]
      BY <2>1
    <3>2. QED
      BY <2>3, <3>1 DEF Among
  <2>4. ASSUME In(a, n) PROVE Among(b, z, n)
    <3>1. Len(q) + 1 \in DOMAIN z
      BY <2>1
    <3>2. QED
      BY <2>1, <2>4, <3>1 DEF Among
  <2>5. QED
    BY <2>2, <2>3, <2>4 DEF z
<1>1. Among(b, Append(q, <<>>), n) <=> Among(b, q, n)
  <2>1. <<>> \in Seq(Msgs) /\ ~In(<<>>, n)
    BY DEF In
  <2>2. QED
    BY <1>0, <2>1
<1>2. ASSUME q # <<>> PROVE Among(Head(q), Tail(q), n) <=> Among(<<>>, q, n)
  <2>1. /\ DOMAIN Tail(q) = 1 .. Len(q) - 1 /\ DOMAIN q = 1 .. Len(q) /\ Len(q) \in Nat \ {0}
        /\ \A i \in DOMAIN Tail(q) : Tail(q)[i] = q[i + 1] /\ i + 1 \in DOMAIN q /\ i + 1 # 1
        /\ q[1] = Head(q) /\ 1 \in DOMAIN q
        /\ \A i \in 1 .. Len(q) - 1 : Tail(q)[i] = q[i + 1]
    BY <1>2, TailOf
  <2>2. ASSUME Among(<<>>, q, n) PROVE Among(Head(q), Tail(q), n)
    <3>1. PICK i \in DOMAIN q : In(q[i], n)
      BY <2>2 DEF Among, In
    <3>2. CASE i = 1
      BY <2>1, <3>1, <3>2 DEF Among
    <3>3. CASE i # 1
      <4>1. i - 1 \in DOMAIN Tail(q) /\ (i - 1) + 1 = i
        BY <2>1, <3>3
      <4>2. Tail(q)[i - 1] = q[i]
        BY <2>1, <4>1
      <4>3. QED
        BY <3>1, <4>1, <4>2 DEF Among
    <3>4. QED
      BY <3>2, <3>3
  <2>3. ASSUME Among(Head(q), Tail(q), n) PROVE Among(<<>>, q, n)
    BY <2>1, <2>3 DEF Among
  <2>4. QED
    BY <2>2, <2>3
<1>3. ASSUME NEW i \in 0 .. Len(q), Among(b, SubSeq(q, 1, i), n) PROVE Among(b, q, n)
  <2>1. \A j \in DOMAIN SubSeq(q, 1, i) : j \in DOMAIN q /\ SubSeq(q, 1, i)[j] = q[j]
    BY PrefixOf
  <2>2. QED
    BY <1>3, <2>1 DEF Among
<1>4. ASSUME b # <<>>
      PROVE  /\ Among(Tail(b), q, n) => Among(b, q, n)
             /\ Among(b, q, n) => Among(Tail(b), q, n) \/ n = Head(b)
  <2>1. /\ DOMAIN Tail(b) = 1 .. Len(b) - 1 /\ DOMAIN b = 1 .. Len(b) /\ Len(b) \in Nat \ {0}
        /\ \A i \in DOMAIN Tail(b) : Tail(b)[i] = b[i + 1] /\ i + 1 \in DOMAIN b /\ i + 1 # 1
        /\ b[1] = Head(b) /\ 1 \in DOMAIN b
        /\ \A i \in 1 .. Len(b) - 1 : Tail(b)[i] = b[i + 1]
    BY <1>4, TailOf
  <2>2. ASSUME In(b, n) PROVE In(Tail(b), n) \/ n = Head(b)
    <3>1. PICK i \in DOMAIN b : b[i] = n
      BY <2>2 DEF In
    <3>2. CASE i = 1
      BY <2>1, <3>1, <3>2
    <3>3. CASE i # 1
      <4>1. i - 1 \in DOMAIN Tail(b) /\ (i - 1) + 1 = i
        BY <2>1, <3>3
      <4>2. Tail(b)[i - 1] = b[i]
        BY <2>1, <4>1
      <4>3. QED
        BY <3>1, <4>1, <4>2 DEF In
    <3>4. QED
      BY <3>2, <3>3
  <2>3. In(Tail(b), n) => In(b, n)
    BY <2>1 DEF In
  <2>4. QED
    BY <2>2, <2>3 DEF Among
<1>5. QED
  BY <1>0, <1>1, <1>2, <1>3, <1>4

(* What is on its way is a message.                                        *)
LEMMA AmongTyped ==
  ASSUME NEW b \in Seq(Msgs), NEW q \in Seq(Seq(Msgs)), NEW n, Among(b, q, n) PROVE n \in Msgs
<1>1. \A a \in Seq(Msgs) : In(a, n) => n \in Msgs
  BY ElementOfSeq, LenProperties DEF In
<1>2. \A i \in DOMAIN q : q[i] \in Seq(Msgs)
  BY ElementOfSeq, LenProperties
<1>3. QED
  BY <1>1, <1>2 DEF Among

(* The types of what a step leaves.                                        *)
LEMMA TypesNext ==
  ASSUME TypeInv'
  PROVE  /\ cl' \in ClientRec /\ cl'.seq \in Nat /\ cl'.last_acked \in Nat /\ op' \in OpRec
         /\ \A c \in Conns : down'[c] \in Seq(ReplyRec) /\ th'[c] \in ThreadRec
         /\ \A c \in Conns : th'[c].batch \in Seq(Msgs) /\ up'[c] \in Seq(Seq(Msgs))
         /\ \A s \in Sessions : sess'[s] \in SessionRec /\ sess'[s].reply \in ReplyRec /\ sess'[s].last_seq \in Nat
<1>1. cl' \in ClientRec /\ cl'.seq \in Nat /\ cl'.last_acked \in Nat /\ op' \in OpRec
  BY Bounds DEF TypeInv, Typed, ClientTyped, ClientRec
<1>2. \A c \in Conns : down'[c] \in Seq(ReplyRec) /\ th'[c] \in ThreadRec
  BY DEF TypeInv, Typed, NetTyped, ServerTyped
<1>3. \A c \in Conns : th'[c].batch \in Seq(Msgs) /\ up'[c] \in Seq(Seq(Msgs))
  BY <1>2 DEF TypeInv, Typed, NetTyped, ThreadRec
<1>4. \A s \in Sessions : sess'[s] \in SessionRec
  BY DEF TypeInv, Typed, ServerTyped
<1>5. QED
  BY <1>1, <1>2, <1>3, <1>4, Bounds DEF SessionRec

(* What is coming was coming, or is sent now.                              *)
LEMMA ComingStep ==
  ASSUME TypeInv, FreshInv, NetInv, [Next]_vars
  PROVE  \A c \in Conns : \A n : Coming(c, n)' => Coming(c, n) \/ SentOn(c, n)
<1> TAKE c \in Conns
<1> TAKE n
<1>0. th[c].batch \in Seq(Msgs) /\ up[c] \in Seq(Seq(Msgs)) /\ cl.pending \in Seq(Msgs) /\ cl'.unacked \in Seq(Msgs)
  BY NetTypes, TypeStep DEF ThreadRec, TypeInv, Typed, ClientTyped, ClientRec
<1>1. CASE Holds(c)
  BY <1>1 DEF Holds, Coming
<1>2. CASE Works(c)
  BY <1>0, <1>2, InSeqs DEF Works, Coming
<1>3. CASE TakesIn(c)
  BY <1>0, <1>3, InSeqs DEF TakesIn, Coming
<1>4. CASE Ends(c)
  BY <1>4 DEF Ends, Coming, Among, In
<1>5. CASE IsCut(c)
  BY <1>0, <1>5, InSeqs DEF IsCut, Coming
<1>6. CASE SendsOut(c)
  <2>1. ASSUME NEW q \in Seq(Msgs), Sends(c, q), Coming(c, n)' PROVE Coming(c, n) \/ In(q, n)
    BY <1>0, <2>1, InSeqs DEF Sends, Coming
  <2>2. QED
    BY <1>0, <1>6, <2>1 DEF SendsOut, SentOn, Sends
<1>7. QED
  BY <1>1, <1>2, <1>3, <1>4, <1>5, <1>6, LoadStep DEF Load

(* What is coming stays, unless it is executed, or the connection breaks.  *)
LEMMA ComingStays ==
  ASSUME TypeInv, FreshInv, NetInv, [Next]_vars
  PROVE  \A c \in Conns : \A n : Coming(c, n) =>
           Coming(c, n)' \/ (Works(c) /\ n = Head(th[c].batch)) \/ Ends(c) \/ IsCut(c)
<1> TAKE c \in Conns
<1> TAKE n
<1>0. th[c].batch \in Seq(Msgs) /\ up[c] \in Seq(Seq(Msgs)) /\ cl.pending \in Seq(Msgs) /\ cl'.unacked \in Seq(Msgs)
  BY NetTypes, TypeStep DEF ThreadRec, TypeInv, Typed, ClientTyped, ClientRec
<1>1. CASE Holds(c)
  BY <1>1 DEF Holds, Coming
<1>2. CASE Works(c)
  BY <1>0, <1>2, InSeqs DEF Works, Coming
<1>3. CASE TakesIn(c)
  BY <1>0, <1>3, InSeqs DEF TakesIn, Coming
<1>4. CASE Ends(c) \/ IsCut(c)
  BY <1>4
<1>6. CASE SendsOut(c)
  <2>1. ASSUME NEW q \in Seq(Msgs), Sends(c, q), Coming(c, n) PROVE Coming(c, n)'
    BY <1>0, <2>1, InSeqs DEF Sends, Coming
  <2>2. QED
    BY <1>0, <1>6, <2>1 DEF SendsOut
<1>7. QED
  BY <1>1, <1>2, <1>3, <1>4, <1>6, LoadStep DEF Load

-----------------------------------------------------------------------------
(* The client's record of messages, step by step.                          *)
OrMade(now, q) == \A n : In(now, n) => In(q, n) \/ (n = cl.seq + 1 /\ cl'.seq = n)
Recorded ==
  /\ cl'.seq \in {cl.seq, cl.seq + 1}
  /\ OrMade(cl'.pending, cl.pending) /\ OrMade(cl'.unacked, cl.unacked)
  /\ \A n \in 1 .. cl.seq : issued'[n] = issued[n]
  /\ cl'.last_acked = cl.last_acked \/ (Receives /\ cl'.last_acked = Head(down[cl.sock]).n)

(* What a longer record holds it held, or is the message made.             *)
LEMMA LongerRecord ==
  ASSUME NEW q \in ClientRec, NEW now, Longer(q, now), NEW n
  PROVE  /\ In(now.pending, n) => In(q.pending, n) \/ n = q.seq + 1
         /\ In(now.unacked, n) => In(q.unacked, n) \/ n = q.seq + 1
         /\ In(q.pending, n) \/ n = q.seq + 1 => In(now.pending, n)
<1>1. q.pending \in Seq(Msgs) /\ q.unacked \in Seq(Msgs) /\ q.seq \in Nat /\ now.pending \in Seq(Msgs)
      /\ now.seq = q.seq + 1 /\ now.seq \in 0 .. MaxSeq
  BY Bounds DEF ClientRec, Longer
<1>2. q.seq + 1 \in Msgs
  BY <1>1, Bounds DEF Msgs
<1>3. ASSUME NEW s \in Seq(Msgs), NEW z, z = Append(s, q.seq + 1)
      PROVE  In(z, n) <=> In(s, n) \/ n = q.seq + 1
  <2>1. /\ Len(s) \in Nat /\ DOMAIN s = 1 .. Len(s) /\ DOMAIN z = 1 .. Len(s) + 1 /\ z[Len(s) + 1] = q.seq + 1
        /\ \A i \in 1 .. Len(s) : z[i] = s[i]
    BY <1>2, <1>3, AppendProperties, LenProperties
  <2>2. In(z, n) => In(s, n) \/ n = q.seq + 1
    BY <2>1 DEF In
  <2>3. In(s, n) => In(z, n)
    BY <2>1 DEF In
  <2>4. n = q.seq + 1 => In(z, n)
    BY <2>1 DEF In
  <2>5. QED
    BY <2>2, <2>3, <2>4
<1>4. In(now.pending, n) <=> In(q.pending, n) \/ n = q.seq + 1
  BY <1>1, <1>3 DEF Longer
<1>5. In(now.unacked, n) => In(q.unacked, n) \/ n = q.seq + 1
  <2>1. now.unacked = Append(q.unacked, q.seq + 1) \/ now.unacked = q.unacked \/ now.unacked = <<>>
    BY DEF Longer
  <2>2. ~In(<<>>, n)
    BY DEF In
  <2>3. CASE now.unacked = Append(q.unacked, q.seq + 1)
    BY <1>1, <1>3, <2>3
  <2>4. QED
    BY <2>1, <2>2, <2>3
<1>6. QED
  BY <1>4, <1>5

(* What is left of the replay buffer was in it.                            *)
LEMMA RestIn ==
  ASSUME NEW q \in Seq(Msgs), NEW n \in Nat, NEW m, In(Rest(q, n), m)
  PROVE  In(q, m)
<1>1. Msgs \subseteq Nat /\ Len(q) \in Nat /\ DOMAIN q = 1 .. Len(q) /\ \A i \in DOMAIN q : q[i] \in Nat
  BY Bounds, ElementOfSeq, LenProperties DEF Msgs
<1>2. Rest(q, n) # <<>>
  BY DEF In
<1>3. PICK first \in DOMAIN q : /\ Rest(q, n) = SubSeq(q, first, Len(q)) /\ q[first] > n
  BY <1>1, <1>2, RestIsSuffix
<1>4. \A i \in DOMAIN Rest(q, n) : \E k \in DOMAIN q : Rest(q, n)[i] = q[k]
  <2> DEFINE z == Rest(q, n)
  <2>1. /\ Len(z) = Len(q) - first + 1 /\ z \in Seq(Msgs)
        /\ \A i \in 1 .. Len(z) : z[i] = q[first + i - 1]
    BY <1>1, <1>3, SubSeqProperties
  <2>2. DOMAIN z = 1 .. Len(z)
    BY <2>1, LenProperties
  <2> HIDE DEF z
  <2>3. ASSUME NEW i \in DOMAIN z PROVE first + i - 1 \in DOMAIN q
    BY <1>1, <1>3, <2>1, <2>2
  <2>4. QED
    BY <2>1, <2>2, <2>3 DEF z
<1>5. QED
  BY <1>4 DEF In

(* Every step keeps what was made, and its kind.                           *)
LEMMA RecordStep ==
  ASSUME TypeInv, [Next]_vars
  PROVE  Recorded
<1>0. /\ cl \in ClientRec /\ cl.seq \in Nat /\ cl.unacked \in Seq(Msgs)
  BY Bounds DEF TypeInv, Typed, ClientTyped, ClientRec
<1>1. ASSUME NEW q \in ClientRec, q.seq = cl.seq, q.pending = cl.pending, \A n : In(q.unacked, n) => In(cl.unacked, n),
             NEW k, Queues(q, k)
      PROVE  /\ cl'.seq \in {cl.seq, cl.seq + 1} /\ \A n \in 1 .. cl.seq : issued'[n] = issued[n]
             /\ OrMade(cl'.pending, cl.pending) /\ OrMade(cl'.unacked, cl.unacked)
             /\ cl'.last_acked = q.last_acked
  <2>1. Longer(q, cl') /\ \A n \in 1 .. cl.seq : issued'[n] = issued[n]
    BY <1>1 DEF Queues
  <2>2. cl'.seq = cl.seq + 1 /\ cl'.last_acked = q.last_acked
    BY <1>1, <2>1 DEF Longer
  <2>3. ASSUME NEW n
        PROVE  /\ In(cl'.pending, n) => In(cl.pending, n) \/ n = cl.seq + 1
               /\ In(cl'.unacked, n) => In(cl.unacked, n) \/ n = cl.seq + 1
    BY <1>1, <2>1, LongerRecord
  <2>4. QED
    BY <2>1, <2>2, <2>3 DEF OrMade
<1>2. CASE Calls
  <2>1. PICK k : Queues(cl, k)
    BY <1>2 DEF Calls
  <2>2. QED
    BY <1>0, <1>1, <2>1 DEF Recorded
<1>3. CASE Receives
  <2> DEFINE n == Head(down[cl.sock]).n
  <2>1. n \in Nat
    BY <1>3, Bounds DEF Receives
  <2>2. PICK q \in ClientRec :
          /\ Shorter(cl, q, n) /\ q.last_acked = n
          /\ (cl' = q /\ UNCHANGED <<issued, past>>) \/ \E k \in Kinds \union {"ack"} : Queues(q, k)
    BY <1>3 DEF Receives
  <2>3. q.unacked = Rest(cl.unacked, n) /\ q.seq = cl.seq /\ q.pending = cl.pending
    BY <2>2 DEF Shorter
  <2>4. \A m : In(q.unacked, m) => In(cl.unacked, m)
    BY <1>0, <2>1, <2>3, RestIn
  <2> HIDE DEF n
  <2>5. CASE cl' = q /\ UNCHANGED <<issued, past>>
    BY <1>3, <2>2, <2>3, <2>4, <2>5 DEF Recorded, OrMade, n
  <2>6. CASE \E k \in Kinds \union {"ack"} : Queues(q, k)
    <3>1. /\ cl'.seq \in {cl.seq, cl.seq + 1} /\ \A m \in 1 .. cl.seq : issued'[m] = issued[m]
          /\ OrMade(cl'.pending, cl.pending) /\ OrMade(cl'.unacked, cl.unacked)
          /\ cl'.last_acked = q.last_acked
      BY <1>1, <2>3, <2>4, <2>6
    <3>2. QED
      BY <1>3, <2>2, <3>1 DEF Recorded, n
  <2>7. QED
    BY <2>2, <2>5, <2>6
<1>4. CASE Writes
  <2>1. OrMade(<<>>, cl.pending) /\ OrMade(cl.unacked, cl.unacked)
    BY DEF OrMade, In
  <2>2. QED
    BY <1>4, <2>1 DEF Writes, SameRecord, Recorded
<1>5. CASE Resumes
  <2> DEFINE n == Head(down[dialed]).n
  <2>1. n \in Nat /\ cl'.unacked = Rest(cl.unacked, n) /\ cl'.seq = cl.seq /\ cl'.pending = <<>>
        /\ cl'.last_acked = cl.last_acked /\ issued' = issued
    BY <1>5, Bounds DEF Resumes
  <2> HIDE DEF n
  <2>2. OrMade(<<>>, cl.pending)
    BY DEF OrMade, In
  <2>3. OrMade(cl'.unacked, cl.unacked)
    BY <1>0, <2>1, RestIn DEF OrMade
  <2>4. QED
    BY <2>1, <2>2, <2>3 DEF Recorded
<1>6. CASE Keeps
  <2>1. OrMade(cl.pending, cl.pending) /\ OrMade(cl.unacked, cl.unacked)
    BY DEF OrMade, In
  <2>2. QED
    BY <1>6, <2>1 DEF Keeps, SameRecord, Recorded
<1>7. CASE ~Client
  <2>1. OrMade(cl.pending, cl.pending) /\ OrMade(cl.unacked, cl.unacked)
    BY DEF OrMade, In
  <2>2. QED
    BY <1>7, <2>1, ClientOnly DEF clientVars, Recorded
<1>8. QED
  BY <1>2, <1>3, <1>4, <1>5, <1>6, <1>7, Turns DEF ClientTurns

(* What is in the replay buffer was made.                                  *)
LEMMA UnackedMade ==
  ASSUME NEW q \in ClientRec, Buffer(q), NEW n, In(q.unacked, n) PROVE n <= q.seq /\ n \in Msgs
<1>1. q.unacked \in Seq(Msgs) /\ q.seq \in Nat /\ q.replay \in BOOLEAN
  BY Bounds DEF ClientRec
<1>2. PICK i \in DOMAIN q.unacked : q.unacked[i] = n
  BY DEF In
<1>3. Len(q.unacked) \in Nat /\ DOMAIN q.unacked = 1 .. Len(q.unacked) /\ n \in Msgs
  BY <1>1, <1>2, LenProperties, ElementOfSeq
<1>4. q.replay
  BY <1>1, <1>3 DEF Buffer
<1>5. q.unacked[i] = (q.seq + i) - Len(q.unacked)
  BY <1>4 DEF Buffer
<1>6. QED
  BY <1>1, <1>2, <1>3, <1>5

(* What a thread was told the client had: nothing, or what it had then.    *)
LEMMA AckedStep ==
  ASSUME TypeInv, [Next]_vars
  PROVE  \A c \in Conns : th'[c].acked \in {th[c].acked, 0, cl.last_acked}
<1> TAKE c \in Conns
<1>0. th \in [Conns -> ThreadRec] /\ dialed \in Nat
  BY NetTypes DEF TypeInv, Typed, ServerTyped
<1>1. CASE UNCHANGED th
  BY <1>1
<1>2. CASE Dial
  BY <1>0, <1>2 DEF Dial, NoThread
<1>3. CASE Client
  BY <1>1, <1>2, <1>3, ClientServer
<1>4. CASE \E d \in Conns : Attach(d)
  BY <1>4, AttachEffect DEF Attached
<1>5. CASE \E d \in Conns : Snapshot(d)
  BY <1>5, SnapshotEffect DEF Snapped
<1>6. ASSUME NEW d \in Conns, NoHello(d) \/ Leave(d) PROVE th'[c].acked \in {th[c].acked, 0}
  BY <1>0, <1>6 DEF NoHello, Leave, Thread, NoThread
<1>7. ASSUME NEW d \in Conns, TakeBatch(d) \/ Execute(d) PROVE th'[c].acked = th[c].acked
  <2>1. PICK b : Thread(d, [th[d] EXCEPT !.batch = b])
    BY <1>7 DEF TakeBatch, Execute
  <2>2. [th[d] EXCEPT !.batch = b].acked = th[d].acked
    BY <1>0 DEF ThreadRec
  <2> DEFINE t == [th[d] EXCEPT !.batch = b]
  <2> HIDE DEF t
  <2>3. th' = [th EXCEPT ![d] = t] /\ t.acked = th[d].acked
    BY <2>1, <2>2 DEF Thread, t
  <2>4. QED
    BY <1>0, <2>3
<1>8. CASE Restart
  BY <1>8 DEF Restart, NoThread
<1>9. CASE Reap \/ (\E d \in Conns : Cut(d)) \/ UNCHANGED vars
  BY <1>1, <1>9 DEF Reap, Cut, vars, serverVars
<1>10. QED
  BY <1>3, <1>4, <1>5, <1>6, <1>7, <1>8, <1>9 DEF Next, Server

-----------------------------------------------------------------------------
(* Nothing is waited for, pending, on its way, applied or answered before  *)
(* it was made; the client waits for the last message it made.             *)
OpInv ==
  /\ op.wait # None => op.wait = cl.seq /\ Waits(issued[cl.seq]) /\ cl.last_acked < cl.seq
  /\ op.pc = "await" => op.wait # None
MadeInv ==
  /\ \A n : In(cl.pending, n) => n <= cl.seq
  /\ \A c \in Conns : \A n : Coming(c, n) => n <= cl.seq
  /\ \A s \in Sessions : sess[s].last_seq <= cl.seq /\ sess[s].reply.n <= sess[s].last_seq
  /\ cl.last_acked <= cl.seq
  /\ \A c \in Conns : th[c].acked <= cl.last_acked
  /\ \A c \in Conns : \A i \in DOMAIN down[c] : down[c][i].n <= cl.seq

(* The types of sequence numbers, wherever they are.                       *)
LEMMA MadeTypes ==
  ASSUME TypeInv
  PROVE  /\ cl.seq \in Nat /\ cl.last_acked \in Nat /\ op.wait \in Nat
         /\ \A s \in Sessions : sess[s].last_seq \in Nat /\ sess[s].reply \in ReplyRec
         /\ \A c \in Conns : th[c].acked \in Nat
         /\ \A r \in ReplyRec : r.n \in Nat
         /\ \A c \in Conns : down[c] \in Seq(ReplyRec) /\ \A i \in DOMAIN down[c] : down[c][i] \in ReplyRec
<1>1. cl.seq \in Nat /\ cl.last_acked \in Nat /\ op.wait \in Nat
  BY Bounds DEF TypeInv, Typed, ClientTyped, ClientRec, OpRec
<1>2. \A s \in Sessions : sess[s].last_seq \in Nat /\ sess[s].reply \in ReplyRec
  BY Bounds DEF TypeInv, Typed, ServerTyped, SessionRec
<1>3. \A c \in Conns : th[c].acked \in Nat
  BY Bounds DEF TypeInv, Typed, ServerTyped, ThreadRec
<1>4. \A r \in ReplyRec : r.n \in Nat
  BY Bounds DEF ReplyRec
<1>5. \A c \in Conns : down[c] \in Seq(ReplyRec) /\ \A i \in DOMAIN down[c] : down[c][i] \in ReplyRec
  BY NetTypes, ElementOfSeq, LenProperties
<1>6. QED
  BY <1>1, <1>2, <1>3, <1>4, <1>5

(* The reply that is taken is to the last message made.                    *)
LEMMA ReceivedLast ==
  ASSUME TypeInv, OpInv, MadeInv, Receives
  PROVE  /\ op.wait = cl.seq /\ op.wait # None /\ Waits(issued[cl.seq]) /\ cl.last_acked < cl.seq
         /\ Head(down[cl.sock]).n = cl.seq
         /\ cl.sock \in Conns /\ down[cl.sock] # <<>> /\ Head(down[cl.sock]) = down[cl.sock][1] /\ 1 \in DOMAIN down[cl.sock]
<1>1. cl.sock \in Conns /\ down[cl.sock] # <<>> /\ op.pc = "await" /\ Head(down[cl.sock]).n >= op.wait
  BY DEF Receives, Reads
<1>2. op.wait # None /\ op.wait = cl.seq /\ Waits(issued[cl.seq]) /\ cl.last_acked < cl.seq
  BY <1>1 DEF OpInv
<1>3. Head(down[cl.sock]) = down[cl.sock][1] /\ 1 \in DOMAIN down[cl.sock]
  BY <1>1, MadeTypes, TailOf
<1>4. Head(down[cl.sock]).n <= cl.seq /\ Head(down[cl.sock]).n \in Nat
  BY <1>1, <1>3, MadeTypes DEF MadeInv
<1>5. QED
  BY <1>1, <1>2, <1>3, <1>4, MadeTypes

(* The client goes on waiting for the last message it made.                *)
LEMMA OpStep == TypeInv /\ OpInv /\ MadeInv /\ [Next]_vars => OpInv'
<1> SUFFICES ASSUME TypeInv, OpInv, MadeInv, [Next]_vars PROVE OpInv'
  OBVIOUS
<1>0. op \in OpRec /\ cl.seq \in Nat /\ cl.last_acked \in Nat /\ None \in Nat
  BY MadeTypes DEF TypeInv, Typed, ClientTyped, None
<1>1. ASSUME NEW q \in ClientRec, q.seq = cl.seq, q.last_acked <= cl.seq, NEW k, Queues(q, k) PROVE OpInv'
  <2>1. /\ cl'.seq = cl.seq + 1 /\ cl'.last_acked = q.last_acked /\ issued'[cl.seq + 1] = k
        /\ op'.pc # "await" /\ op'.wait \in {None, cl.seq + 1} /\ (op'.wait # None => Waits(k))
    BY <1>1 DEF Queues, Longer
  <2>2. q.last_acked \in Nat
    BY <1>1, Bounds DEF ClientRec
  <2>3. QED
    BY <1>0, <1>1, <2>1, <2>2 DEF OpInv
<1>2. CASE Calls
  BY <1>1, <1>2 DEF Calls, MadeInv, TypeInv, Typed, ClientTyped
<1>3. CASE Receives
  <2> DEFINE n == Head(down[cl.sock]).n
  <2>1. n = cl.seq
    BY <1>3, ReceivedLast
  <2>2. PICK q \in ClientRec :
          /\ Shorter(cl, q, n) /\ q.last_acked = n
          /\ (cl' = q /\ op' = Idle) \/ \E k \in Kinds \union {"ack"} : Queues(q, k)
    BY <1>3 DEF Receives
  <2> HIDE DEF n
  <2>3. q.seq = cl.seq
    BY <2>2 DEF Shorter
  <2>4. CASE op' = Idle
    BY <2>4, IdleTyped DEF OpInv
  <2>5. QED
    BY <1>0, <1>1, <2>1, <2>2, <2>3, <2>4
<1>4. ASSUME Written, UNCHANGED issued, cl'.seq = cl.seq, cl'.last_acked = cl.last_acked PROVE OpInv'
  BY <1>0, <1>4, WrittenTyped, IdleTyped DEF OpInv
<1>5. CASE Writes
  BY <1>4, <1>5 DEF Writes, SameRecord
<1>6. CASE Resumes
  <2>1. UNCHANGED issued /\ cl'.seq = cl.seq /\ cl'.last_acked = cl.last_acked
        /\ (Written \/ (op'.pc = "retry" /\ op'.wait = op.wait))
    BY <1>6 DEF Resumes
  <2>2. QED
    BY <1>4, <2>1 DEF OpInv
<1>7. CASE Keeps
  BY <1>7 DEF Keeps, SameRecord, OpInv
<1>8. CASE ~Client
  BY <1>8, ClientOnly DEF clientVars, OpInv
<1>9. QED
  BY <1>2, <1>3, <1>5, <1>6, <1>7, <1>8, Turns DEF ClientTurns

(* Nothing gets ahead of what was made.                                    *)
LEMMA MadeStep == TypeInv /\ FreshInv /\ NetInv /\ BufferInv /\ OpInv /\ MadeInv /\ [Next]_vars => MadeInv'
<1> SUFFICES ASSUME TypeInv, FreshInv, NetInv, BufferInv, OpInv, MadeInv, [Next]_vars PROVE MadeInv'
  OBVIOUS
<1>0. TypeInv' /\ BufferInv' /\ Recorded
  BY TypeStep, BufferStep, RecordStep
<1>1. cl.seq \in Nat /\ cl'.seq \in Nat /\ cl'.seq >= cl.seq /\ cl'.seq \in {cl.seq, cl.seq + 1}
  BY <1>0, MadeTypes DEF Recorded
<1>2. ASSUME NEW n, In(cl'.pending, n) PROVE n <= cl'.seq
  <2>1. In(cl.pending, n) => n \in Nat /\ n <= cl.seq
    <3>1. cl.pending \in Seq(Msgs) /\ Msgs \subseteq Nat
      BY Bounds DEF TypeInv, Typed, ClientTyped, ClientRec, Msgs
    <3>2. QED
      BY <3>1, ElementOfSeq, LenProperties DEF In, MadeInv
  <2>2. QED
    BY <1>0, <1>1, <1>2, <2>1 DEF Recorded, OrMade
<1>3. ASSUME NEW c \in Conns, NEW n, Coming(c, n)' PROVE n <= cl'.seq
  <2>1. n \in Msgs /\ n \in Nat
    BY <1>0, <1>3, TypesNext, AmongTyped, Bounds DEF Msgs, Coming
  <2>2. CASE Coming(c, n)
    BY <1>1, <2>1, <2>2 DEF MadeInv
  <2>3. CASE In(cl.pending, n)
    BY <1>1, <2>1, <2>3 DEF MadeInv
  <2>4. CASE In(cl'.unacked, n)
    BY <1>0, <2>4, TypesNext, UnackedMade DEF BufferInv, Buffer
  <2>5. QED
    BY <1>3, <2>2, <2>3, <2>4, ComingStep DEF SentOn
<1>4. ASSUME NEW s \in Sessions PROVE sess'[s].last_seq <= cl'.seq /\ sess'[s].reply.n <= sess'[s].last_seq
  <2>0. sess[s].last_seq <= cl.seq /\ sess[s].reply.n <= sess[s].last_seq /\ sess[s].last_seq \in Nat
        /\ sess[s].reply.n \in Nat
    BY MadeTypes DEF MadeInv
  <2>1. CASE SessionsKeep
    BY <1>1, <2>0, <2>1 DEF SessionsKeep
  <2>2. ASSUME NEW c \in Conns, NEW i, NEW n, Applied(c, i, n) PROVE sess'[s].last_seq <= cl'.seq /\ sess'[s].reply.n <= sess'[s].last_seq
    <3>1. n \in Nat /\ n <= cl.seq /\ cl'.seq = cl.seq /\ sess[i].last_seq < n /\ i \in Sessions
      <4>1. n = Head(th[c].batch) /\ th[c].batch # <<>> /\ n \in Msgs /\ cl'.seq = cl.seq /\ sess[i].last_seq < n /\ i \in Sessions
        BY <2>2 DEF Applied, clientVars
      <4>2. In(th[c].batch, n)
        BY <4>1, TailOf, NetTypes DEF In, ThreadRec
      <4>3. QED
        BY <4>1, <4>2, Bounds DEF Msgs, Coming, Among, MadeInv
    <3>2. CASE s = i
      <4>1. sess'[s].last_seq = n
        BY <2>2, <3>2, AppliedSession
      <4>2. sess'[s].reply.n = n \/ sess'[s].reply = sess[s].reply
        <5>1. CASE Waits(issued[n])
          <6>1. sess'[s].reply = Reply(n, sess[i].err)
            BY <2>2, <3>2, <5>1, AppliedSession
          <6>2. QED
            BY <6>1 DEF Reply
        <5>2. CASE ~Waits(issued[n])
          BY <2>2, <3>2, <5>2, AppliedSession
        <5>3. QED
          BY <5>1, <5>2
      <4>3. QED
        BY <1>1, <2>0, <3>1, <3>2, <4>1, <4>2
    <3>3. CASE s # i
      BY <2>0, <2>2, <3>1, <3>3 DEF Applied
    <3>4. QED
      BY <3>2, <3>3
  <2>3. QED
    BY <2>1, <2>2, SessionStep, AppliesEffect
<1>5. cl'.last_acked <= cl'.seq /\ cl'.last_acked >= cl.last_acked /\ cl'.last_acked \in Nat
  <2>1. CASE cl'.last_acked = cl.last_acked
    BY <1>1, <2>1, MadeTypes DEF MadeInv
  <2>2. CASE Receives /\ cl'.last_acked = Head(down[cl.sock]).n
    BY <1>1, <2>2, ReceivedLast, MadeTypes
  <2>3. QED
    BY <1>0, <2>1, <2>2 DEF Recorded
<1>6. ASSUME NEW c \in Conns PROVE th'[c].acked <= cl'.last_acked
  <2>1. th[c].acked \in Nat /\ th[c].acked <= cl.last_acked /\ cl.last_acked \in Nat
    BY MadeTypes DEF MadeInv
  <2>2. th'[c].acked \in {th[c].acked, 0, cl.last_acked}
    BY AckedStep
  <2>3. QED
    BY <1>5, <2>1, <2>2
<1>7. ASSUME NEW c \in Conns, NEW i \in DOMAIN down'[c] PROVE down'[c][i].n <= cl'.seq
  <2>0. down'[c] \in Seq(ReplyRec) /\ down[c] \in Seq(ReplyRec) /\ \A j \in DOMAIN down[c] : down[c][j].n \in Nat
    BY <1>0, TypesNext, MadeTypes
  <2>1. CASE From(down'[c], down[c])
    <3>1. PICK j \in DOMAIN down[c] : down'[c][i] = down[c][j]
      BY <2>1 DEF From
    <3>2. QED
      BY <1>1, <2>0, <3>1 DEF MadeInv
  <2>2. CASE Snapshot(c) /\ Snapped(c) /\ Greets(c) /\ down[c] = <<>>
    <3>1. th[c].s \in Sessions
      BY <2>2 DEF Snapped
    <3>2. sess[th[c].s].last_seq <= cl.seq /\ sess[th[c].s].reply.n <= cl.seq
      BY <1>1, <3>1, MadeTypes DEF MadeInv
    <3>3. link[c] = "open"
      BY <2>0, <2>2 DEF Greets
    <3>4. i = 1 \/ (i = 2 /\ down'[c][2] = sess[th[c].s].reply)
      BY <2>0, <2>2, <3>3, LenProperties DEF Greets
    <3>5. down'[c][1].n = sess[th[c].s].last_seq
      BY <2>2, <3>3 DEF Greets, Hello
    <3>6. QED
      BY <1>1, <3>1, <3>2, <3>4, <3>5, MadeTypes
  <2>3. ASSUME NEW a, NEW n, Applied(c, a, n), Answers(c, a, n) PROVE down'[c][i].n <= cl'.seq
    <3>1. a \in Sessions /\ sess'[a].reply.n <= cl'.seq
      <4>1. a \in Sessions
        BY <2>3 DEF Applied
      <4>2. sess'[a].last_seq <= cl'.seq /\ sess'[a].reply.n <= sess'[a].last_seq
        BY <1>4, <4>1
      <4>3. sess'[a].last_seq \in Nat /\ sess'[a].reply.n \in Nat
        BY <1>0, <4>1, TypesNext, MadeTypes
      <4>4. QED
        BY <1>1, <4>1, <4>2, <4>3
    <3>2. CASE down'[c] = down[c]
      BY <1>1, <2>0, <3>2 DEF MadeInv
    <3>3. CASE down'[c] = Append(down[c], sess'[a].reply)
      <4>1. sess'[a].reply \in ReplyRec
        BY <1>0, <3>1, TypesNext
      <4>2. i \in 1 .. Len(down[c]) + 1 /\ DOMAIN down[c] = 1 .. Len(down[c]) /\ Len(down[c]) \in Nat
        BY <2>0, <3>3, <4>1, AppendProperties, LenProperties
      <4>3. CASE i = Len(down[c]) + 1
        BY <2>0, <3>1, <3>3, <4>1, <4>3, AppendProperties
      <4>4. CASE i \in DOMAIN down[c]
        <5>1. down'[c][i] = down[c][i]
          BY <2>0, <3>3, <4>1, <4>2, <4>4, AppendProperties
        <5>2. QED
          BY <1>1, <2>0, <4>4, <5>1 DEF MadeInv
      <4>5. QED
        BY <4>2, <4>3, <4>4
    <3>4. QED
      BY <2>3, <3>2, <3>3 DEF Answers
  <2>4. QED
    BY <2>1, <2>2, <2>3, DownStep
<1>8. QED
  BY <1>2, <1>3, <1>4, <1>5, <1>6, <1>7 DEF MadeInv

-----------------------------------------------------------------------------
(* What the server lacks is in the replay buffer: only a removed session,  *)
(* or a buffer that overflowed, is lost.                                   *)

(* A step that is taken in a hello ends it.                                *)
LEMMA HelloEnds == ASSUME TypeInv, Client, InHello PROVE ~InHello' /\ (cl'.had # cl.had => HelloFlush)
<1>0. cl \in ClientRec /\ op \in OpRec
  BY DEF TypeInv, Typed, ClientTyped
<1>1. HelloFails \/ HelloLost \/ HelloFlush \/ RehelloFails \/ ResumeMissing \/ Resume
  BY DEF Client, Call, FlushCall, FlushDials, FlushRefused, FlushWrites, FlushFails, Redial, RedialRefused, GivesUp,
         OldReply, Receive, ReceiveFails, InHello
<1>2. CASE HelloFails
  <2>1. CASE cl.had /\ Recover
    <3>1. op'.pc \in {"dial", "retry"} /\ cl' = [cl EXCEPT !.sock = None, !.recovering = TRUE]
      BY <2>1, RecoverTyped DEF TypeInv, Typed
    <3>2. QED
      BY <1>0, <3>1 DEF InHello, ClientRec
  <2>2. CASE op' = Idle /\ UNCHANGED cl
    BY <2>2, IdleTyped DEF InHello
  <2>3. QED
    BY <1>2, <2>1, <2>2 DEF HelloFails, Unreached
<1>3. CASE HelloLost \/ ResumeMissing
  <2>1. Lost
    BY <1>3 DEF HelloLost, ResumeMissing
  <2>2. QED
    BY <1>0, <2>1, IdleTyped DEF Lost, Raise, InHello, ClientRec
<1>4. CASE HelloFlush
  BY <1>0, <1>4, AtTyped DEF HelloFlush, InHello
<1>5. CASE RehelloFails
  BY <1>0, <1>5, AtTyped DEF RehelloFails, InHello
<1>6. CASE Resume
  <2>2. ~InHello'
    <3>1. CASE Written
      BY <1>0, <3>1, WrittenTyped DEF InHello
    <3>2. CASE At("retry")
      BY <1>0, <3>2, AtTyped DEF InHello
    <3>3. QED
      BY <1>6, <3>1, <3>2 DEF Resume
  <2>3. cl'.had = cl.had
    <3> DEFINE n == Head(down[dialed]).n
    <3>1. dialed \in Conns /\ down[dialed] # <<>>
      BY <1>6, MoveTypes DEF Resume, Welcome, Answered
    <3>2. n \in Nat
      BY <3>1, TailDown, Bounds DEF TypeInv, Typed, ReplyRec
    <3>3. Dropped(cl, n) \in ClientRec /\ Dropped(cl, n).had = cl.had
      BY <1>0, <3>2, DroppedEffect DEF Shorter
    <3> HIDE DEF n
    <3> DEFINE d == Dropped(cl, n)
    <3>4. cl' = [d EXCEPT !.pending = <<>>, !.sock = dialed] \/ cl' = [d EXCEPT !.pending = <<>>]
      BY <1>6 DEF Resume, n
    <3> HIDE DEF d
    <3>5. QED
      BY <3>3, <3>4 DEF ClientRec, d
  <2>4. QED
    BY <2>2, <2>3
<1>7. QED
  BY <1>1, <1>2, <1>3, <1>4, <1>5, <1>6

(* A client has a session when a hello was answered, and keeps it.         *)
LEMMA HadStep == ASSUME TypeInv, [Next]_vars PROVE cl'.had = cl.had \/ HelloFlush
<1>0. cl \in ClientRec /\ op \in OpRec
  BY DEF TypeInv, Typed, ClientTyped
<1>1. CASE ~Client
  BY <1>1, ClientOnly DEF clientVars
<1>2. CASE Client /\ InHello
  BY <1>2, HelloEnds
<1>6. CASE Client /\ ~InHello
  <2>1. CASE \E k \in Kinds : Call(k)
    <3>1. PICK k \in Kinds : Call(k)
      BY <2>1
    <3>2. cl.seq + 1 <= MaxSeq
      BY <3>1, <1>0, Bounds DEF Call, ClientRec
    <3>3. cl' = Queued(cl, Append(issued, k)) \/ cl' = Queued(cl, Append(issued, "ack"))
      BY <3>1 DEF Call, Enqueue
    <3>4. Longer(cl, cl')
      BY <1>0, <3>2, <3>3, QueuedEffect
    <3>5. QED
      BY <3>4 DEF Longer
  <2>2. CASE FlushCall \/ FlushDials \/ Redial \/ RedialRefused \/ OldReply
    BY <2>2 DEF FlushCall, FlushDials, Redial, RedialRefused, OldReply, clientVars
  <2>3. CASE FlushRefused \/ FlushFails \/ FlushWrites \/ GivesUp \/ ReceiveFails
    <3>1. CASE Recover
      BY <1>0, <3>1 DEF Recover, ClientRec
    <3>2. CASE UNCHANGED cl
      BY <3>2
    <3>3. QED
      BY <1>0, <2>3, <3>1, <3>2 DEF FlushRefused, FlushFails, FlushWrites, GivesUp, ReceiveFails, Unreached, ClientRec
  <2>4. CASE Receive
    <3>1. cl.sock \in Conns /\ down[cl.sock] # <<>> /\ op.pc = "await"
      BY <2>4, MoveTypes DEF Receive, Answered, TypeInv, Typed, ClientTyped
    <3> DEFINE n == Head(down[cl.sock]).n
               q == Acknowledged(cl, n)
    <3>2. n \in 0 .. MaxSeq
      BY <3>1, TailDown DEF TypeInv, Typed, ReplyRec
    <3>3. q \in ClientRec /\ q.had = cl.had /\ q.seq = cl.seq
      BY <1>0, <3>2, AcknowledgedEffect DEF Shorter
    <3>4. cl' = q \/ (op.then # "none" /\ cl' = Queued(q, Append(issued, op.then)))
      BY <2>4 DEF Receive, Enqueue
    <3> HIDE DEF q
    <3>5. op.then # "none" => q.seq + 1 <= MaxSeq
      BY <3>3 DEF TypeInv, PlaceInv
    <3>6. cl' = q \/ Longer(q, cl')
      BY <3>3, <3>4, <3>5, QueuedEffect
    <3>7. QED
      BY <3>3, <3>6 DEF Longer
  <2>5. QED
    BY <1>6, <2>1, <2>2, <2>3, <2>4
       DEF Client, HelloFails, HelloLost, HelloFlush, RehelloFails, ResumeMissing, Resume, InHello
<1>7. QED
  BY <1>1, <1>2, <1>6

(* What a thread said of its session it goes on to say.                    *)
LEMMA ResumedStep ==
  ASSUME TypeInv, [Next]_vars
  PROVE  \A c \in Conns : Active(c)' => Attach(c) \/ (Active(c) /\ th'[c].resumed = th[c].resumed)
<1> TAKE c \in Conns
<1>0. th \in [Conns -> ThreadRec] /\ dialed \in Nat
  BY NetTypes DEF TypeInv, Typed, ServerTyped
<1>1. CASE UNCHANGED th
  BY <1>1 DEF Active
<1>2. CASE Dial
  BY <1>0, <1>2 DEF Dial, NoThread, Active
<1>3. CASE Client
  BY <1>1, <1>2, <1>3, ClientServer
<1>4. CASE \E d \in Conns : Attach(d)
  BY <1>4, AttachEffect DEF Attached, Active
<1>5. CASE \E d \in Conns : Snapshot(d)
  BY <1>5, SnapshotEffect DEF Snapped, Active
<1>6. ASSUME NEW d \in Conns, NoHello(d) \/ Leave(d) PROVE IF c = d THEN ~Active(c)' ELSE th'[c] = th[c]
  BY <1>0, <1>6 DEF NoHello, Leave, Thread, NoThread, Active
<1>7. ASSUME NEW d \in Conns, TakeBatch(d) \/ Execute(d) PROVE th'[c].resumed = th[c].resumed /\ th'[c].pc = th[c].pc
  <2>1. PICK b : Thread(d, [th[d] EXCEPT !.batch = b])
    BY <1>7 DEF TakeBatch, Execute
  <2> DEFINE t == [th[d] EXCEPT !.batch = b]
  <2>2. t.resumed = th[d].resumed /\ t.pc = th[d].pc
    BY <1>0 DEF ThreadRec
  <2> HIDE DEF t
  <2>3. th' = [th EXCEPT ![d] = t]
    BY <2>1 DEF Thread, t
  <2>4. QED
    BY <1>0, <2>2, <2>3
<1>8. CASE Restart
  BY <1>8 DEF Restart, NoThread, Active
<1>9. CASE Reap \/ (\E d \in Conns : Cut(d)) \/ UNCHANGED vars
  BY <1>1, <1>9 DEF Reap, Cut, vars, serverVars
<1>10. QED
  BY <1>3, <1>4, <1>5, <1>6, <1>7, <1>8, <1>9 DEF Next, Server, Active

(* As long as no session is removed, the client's is the one there is.     *)
LEMMA RegStays ==
  ASSUME TypeInv, [Next]_vars, ~past'.removed
  PROVE  /\ ~past.removed
         /\ reg.s # None => reg'.s = reg.s
         /\ \A s \in Sessions : sess'[s].last_seq >= sess[s].last_seq
<1>1. ~past.removed /\ (reg.s # None => reg'.s = reg.s)
  <2>1. CASE \E c \in Conns : Attach(c)
    <3>1. PICK c \in Conns : Attached(c)
      BY <2>1, AttachEffect
    <3>2. past' = past
      BY <3>1 DEF Attached, history
    <3>3. QED
      BY <3>1, <3>2 DEF Attached
  <2>2. CASE \A c \in Conns : ~Attach(c)
    BY <2>2, EntryStep DEF Entry
  <2>3. QED
    BY <2>1, <2>2
<1>2. ASSUME NEW s \in Sessions PROVE sess'[s].last_seq >= sess[s].last_seq
  <2>0. sess[s].last_seq \in Nat
    BY MadeTypes
  <2>1. CASE SessionsKeep
    BY <2>0, <2>1 DEF SessionsKeep
  <2>2. ASSUME NEW c \in Conns, NEW i, NEW n, Applied(c, i, n) PROVE sess'[s].last_seq >= sess[s].last_seq
    <3>1. sess[i].last_seq < n /\ n \in Nat
      BY <2>2, Bounds DEF Applied, Msgs
    <3>2. CASE s = i
      BY <2>0, <2>2, <3>1, <3>2, AppliedSession
    <3>3. CASE s # i
      BY <2>0, <2>2, <3>3 DEF Applied
    <3>4. QED
      BY <3>2, <3>3
  <2>3. QED
    BY <2>1, <2>2, SessionStep, AppliesEffect
<1>3. QED
  BY <1>1, <1>2

(* The session the registry has applied all up to n.                       *)
Attests(n)     == reg.s # None /\ n <= sess[reg.s].last_seq
AttestsNext(n) == reg'.s # None /\ n <= sess'[reg'.s].last_seq

(* The client has a session only if the server has; what was said of it    *)
(* holds of it; what is gone from the replay buffer it applied; and a new  *)
(* connection of a client that has a session is told so, and of all that   *)
(* is gone.                                                                *)
LostInv ==
  ~past.removed =>
    /\ cl.had => reg.s # None
    /\ \A c \in Conns : \A i \in DOMAIN down[c] : Attests(down[c][i].n)
    /\ ~past.overflowed => Gone(cl) = 0 \/ Attests(Gone(cl))
    /\ InHello /\ cl.had =>
         /\ Active(dialed) => th[dialed].resumed
         /\ down[dialed] # <<>> => /\ down[dialed][1].resumed
                                   /\ ~past.overflowed => down[dialed][1].n >= Gone(cl)

BaseInv == AttachedInv /\ NetInv /\ BufferInv /\ OpInv /\ MadeInv

(* The common part of the invariants is inductive.                         *)
LEMMA BaseStep == BaseInv /\ [Next]_vars => BaseInv'
  BY AttachedStep, NetStep, BufferStep, OpStep, MadeStep DEF BaseInv, AttachedInv

(* A session that is not removed forgets nothing it applied.               *)
LEMMA AttestsStays ==
  ASSUME TypeInv, [Next]_vars, ~past'.removed, NEW n \in Nat, Attests(n)
  PROVE  AttestsNext(n)
<1>1. reg.s \in Sessions /\ reg'.s = reg.s /\ reg.s # None
  BY RegStays, GenTypes DEF Attests
<1>2. sess'[reg.s].last_seq >= sess[reg.s].last_seq /\ sess[reg.s].last_seq \in Nat /\ sess'[reg.s].last_seq \in Nat
  BY <1>1, RegStays, MadeTypes, TypesNext, TypeStep
<1>3. QED
  BY <1>1, <1>2 DEF Attests, AttestsNext

(* What is on its way to the client is attested.                           *)
LEMMA AttestedDown ==
  ASSUME BaseInv, LostInv, [Next]_vars, ~past'.removed, NEW c \in Conns, NEW i \in DOMAIN down'[c]
  PROVE  AttestsNext(down'[c][i].n)
<1>0. TypeInv /\ FreshInv /\ NetInv /\ MadeInv /\ AttachInv /\ TypeInv' /\ ~past.removed /\ BaseInv'
  BY BaseStep, RegStays DEF BaseInv, AttachedInv
<1>1. down'[c] \in Seq(ReplyRec) /\ down[c] \in Seq(ReplyRec) /\ \A j \in DOMAIN down[c] : down[c][j].n \in Nat
  BY <1>0, TypesNext, MadeTypes
<1>2. ASSUME NEW j \in DOMAIN down[c] PROVE AttestsNext(down[c][j].n)
  <2>1. Attests(down[c][j].n) /\ down[c][j].n \in Nat
    BY <1>0, <1>1 DEF LostInv
  <2>2. QED
    BY <1>0, <2>1, AttestsStays
<1>3. CASE From(down'[c], down[c])
  BY <1>2, <1>3 DEF From
<1>4. CASE Snapshot(c) /\ Snapped(c) /\ Greets(c) /\ down[c] = <<>>
  <2>1. th[c].s \in Sessions /\ th[c].s = reg.s /\ reg.s # None
    <3>1. Active(c)
      BY <1>4 DEF Snapped, Active
    <3>2. QED
      BY <1>0, <3>1, GenTypes DEF AttachInv
  <2>2. link[c] = "open"
    BY <1>1, <1>4 DEF Greets
  <2>3. i = 1 \/ (i = 2 /\ down'[c][2] = sess[reg.s].reply)
    BY <1>1, <1>4, <2>1, <2>2, LenProperties DEF Greets
  <2>4. down'[c][1].n = sess[reg.s].last_seq
    BY <1>4, <2>1, <2>2 DEF Greets, Hello
  <2>5. /\ sess[reg.s].reply.n <= sess[reg.s].last_seq /\ sess[reg.s].last_seq \in Nat /\ sess[reg.s].reply.n \in Nat
        /\ sess'[reg.s].last_seq \in Nat /\ sess'[reg.s].last_seq >= sess[reg.s].last_seq /\ reg'.s = reg.s
    BY <1>0, <2>1, MadeTypes, TypesNext, RegStays DEF MadeInv
  <2>6. QED
    BY <2>1, <2>3, <2>4, <2>5 DEF AttestsNext
<1>5. ASSUME NEW a, NEW n, Applied(c, a, n), Answers(c, a, n) PROVE AttestsNext(down'[c][i].n)
  <2>1. a = reg.s /\ reg.s # None /\ reg.s \in Sessions /\ reg'.s = reg.s
    <3>1. Active(c) /\ a = th[c].s
      BY <1>5 DEF Applied, Active
    <3>2. QED
      BY <1>0, <3>1, GenTypes, RegStays DEF AttachInv
  <2>2. sess'[a].reply.n <= sess'[a].last_seq /\ sess'[a].reply \in ReplyRec
    BY <1>0, <2>1, TypesNext DEF BaseInv, MadeInv
  <2>3. CASE down'[c] = down[c]
    BY <1>2, <2>3
  <2>4. CASE down'[c] = Append(down[c], sess'[a].reply)
    <3>1. i \in 1 .. Len(down[c]) + 1 /\ DOMAIN down[c] = 1 .. Len(down[c]) /\ Len(down[c]) \in Nat
      BY <1>1, <2>2, <2>4, AppendProperties, LenProperties
    <3>2. CASE i = Len(down[c]) + 1
      <4>1. down'[c][i] = sess'[a].reply
        BY <1>1, <2>2, <2>4, <3>2, AppendProperties
      <4>2. QED
        BY <2>1, <2>2, <4>1 DEF AttestsNext
    <3>3. CASE i \in DOMAIN down[c]
      <4>1. down'[c][i] = down[c][i]
        BY <1>1, <2>2, <2>4, <3>1, <3>3, AppendProperties
      <4>2. QED
        BY <1>2, <3>3, <4>1
    <3>4. QED
      BY <3>1, <3>2, <3>3
  <2>5. QED
    BY <1>5, <2>3, <2>4 DEF Answers
<1>6. QED
  BY <1>0, <1>3, <1>4, <1>5, DownStep

(* What is gone from the replay buffer is attested.                        *)
LEMMA AttestedGone ==
  ASSUME BaseInv, LostInv, [Next]_vars, ~past'.removed, ~past'.overflowed
  PROVE  Gone(cl') = 0 \/ AttestsNext(Gone(cl'))
<1>0. TypeInv /\ FreshInv /\ NetInv /\ BufferInv /\ TypeInv' /\ ~past.removed /\ BufferInv'
  BY BaseStep, RegStays DEF BaseInv, AttachedInv
<1>1. cl'.replay /\ cl' \in ClientRec /\ cl \in ClientRec /\ cl.replay \in BOOLEAN /\ past.overflowed \in BOOLEAN
  BY <1>0, TypesNext DEF BufferInv, TypeInv, Typed, ClientTyped, HistoryTyped, ClientRec
<1>2. ~past.overflowed => /\ cl.replay /\ Gone(cl) \in Nat
                          /\ Gone(cl) = 0 \/ Attests(Gone(cl))
  BY <1>0, <1>1, GoneBounds DEF LostInv, BufferInv
<1>3. ~past.overflowed => Gone(cl) = 0 \/ AttestsNext(Gone(cl))
  BY <1>0, <1>2, AttestsStays
<1>4. ASSUME NEW c \in Conns, down[c] # <<>> PROVE Head(down[c]).n \in Nat /\ AttestsNext(Head(down[c]).n)
  <2>1. Head(down[c]) = down[c][1] /\ 1 \in DOMAIN down[c] /\ Head(down[c]).n \in Nat
    BY <1>0, <1>4, MadeTypes, TailOf
  <2>2. Attests(Head(down[c]).n)
    BY <1>0, <2>1 DEF LostInv
  <2>3. QED
    BY <1>0, <2>1, <2>2, AttestsStays
<1>5. ASSUME NEW m \in Nat, NEW n \in Nat, AttestsNext(n), m <= n PROVE AttestsNext(m)
  <2>1. reg'.s \in Sessions
    <3>1. reg'.s \in 0 .. MaxSessions /\ reg'.s # 0
      BY <1>0, <1>5 DEF AttestsNext, None, TypeInv, Typed, ServerTyped
    <3>2. QED
      BY <3>1, Bounds DEF Sessions
  <2>2. sess'[reg'.s].last_seq \in Nat
    BY <1>0, <2>1, TypesNext
  <2>3. QED
    BY <1>5, <2>2 DEF AttestsNext
<1>6. ASSUME NEW q \in ClientRec, Buffer(q), Gone(q) = 0 \/ AttestsNext(Gone(q)), NEW k, Queues(q, k)
      PROVE  Gone(cl') = 0 \/ AttestsNext(Gone(cl'))
  <2>1. Longer(q, cl')
    BY <1>6 DEF Queues
  <2>2. Gone(cl') = Gone(q)
    BY <1>1, <1>6, <2>1, LongerBuffer
  <2>3. QED
    BY <1>6, <2>2
<1>7. ASSUME NEW q, NEW n \in Nat, AttestsNext(n), Gone(q) \in Nat, Gone(cl) = 0 \/ AttestsNext(Gone(cl)),
             Gone(q) = Gone(cl) \/ Gone(q) <= n
      PROVE  Gone(q) = 0 \/ AttestsNext(Gone(q))
  BY <1>5, <1>7
<1>8. CASE Calls
  <2>1. PICK k : Queues(cl, k)
    BY <1>8 DEF Calls
  <2>2. past'.overflowed = (past.overflowed \/ (cl.replay /\ ~cl'.replay))
    BY <2>1 DEF Queues
  <2>3. ~past.overflowed
    BY <2>2
  <2>4. QED
    BY <1>0, <1>1, <1>3, <1>6, <2>1, <2>3 DEF BufferInv
<1>9. CASE Receives
  <2> DEFINE n == Head(down[cl.sock]).n
  <2>1. n \in Nat /\ AttestsNext(n)
    BY <1>4, <1>9 DEF Receives, Reads
  <2>2. PICK q \in ClientRec :
          /\ Shorter(cl, q, n)
          /\ (cl' = q /\ past' = past) \/ \E k \in Kinds \union {"ack"} : Queues(q, k)
    BY <1>9 DEF Receives
  <2>3. ~past.overflowed
    BY <2>2 DEF Queues
  <2> HIDE DEF n
  <2>4. q.unacked = Rest(cl.unacked, n) /\ q.replay = (cl.replay \/ q.unacked = <<>>) /\ q.seq = cl.seq
    BY <2>2 DEF Shorter
  <2>5. Buffer(q) /\ Gone(q) \in Nat /\ (Gone(q) = Gone(cl) \/ Gone(q) <= n)
    BY <1>0, <1>1, <2>1, <2>4, RestBuffer DEF BufferInv
  <2>6. Gone(q) = 0 \/ AttestsNext(Gone(q))
    BY <1>3, <1>7, <2>1, <2>3, <2>5
  <2>7. CASE cl' = q
    BY <2>6, <2>7
  <2>8. QED
    BY <1>6, <2>2, <2>5, <2>6, <2>7
<1>10. CASE Resumes
  <2> DEFINE n == Head(down[dialed]).n
  <2>1. n \in Nat /\ AttestsNext(n)
    BY <1>4, <1>10 DEF Resumes, Welcome, Answered
  <2>2. cl'.unacked = Rest(cl.unacked, n) /\ cl'.replay = (cl.replay \/ cl'.unacked = <<>>) /\ cl'.seq = cl.seq
        /\ past' = past
    BY <1>10 DEF Resumes, history
  <2> HIDE DEF n
  <2>3. Gone(cl') \in Nat /\ (Gone(cl') = Gone(cl) \/ Gone(cl') <= n)
    BY <1>0, <1>1, <2>1, <2>2, RestBuffer DEF BufferInv
  <2>4. QED
    BY <1>3, <1>7, <2>1, <2>2, <2>3
<1>11. ASSUME SameRecord PROVE Gone(cl') = 0 \/ AttestsNext(Gone(cl'))
  BY <1>3, <1>11 DEF SameRecord, Gone
<1>12. CASE Writes \/ Keeps
  BY <1>11, <1>12 DEF Writes, Keeps
<1>13. CASE ~Client
  BY <1>0, <1>11, <1>13, ClientOnly DEF SameRecord, clientVars
<1>14. QED
  BY <1>0, <1>8, <1>9, <1>10, <1>12, <1>13, Turns DEF ClientTurns

(* A connection that is dialed for a session is told of it.                *)
LEMMA HelloStays ==
  ASSUME BaseInv, LostInv, [Next]_vars, ~past'.removed, InHello', cl'.had
  PROVE  /\ Active(dialed)' => th'[dialed'].resumed
         /\ down'[dialed'] # <<>> => /\ down'[dialed'][1].resumed
                                     /\ ~past'.overflowed => down'[dialed'][1].n >= Gone(cl')
<1>0. TypeInv /\ FreshInv /\ NetInv /\ BufferInv /\ MadeInv /\ AttachInv /\ ~past.removed /\ TypeInv' /\ NetInv'
  BY BaseStep, RegStays DEF BaseInv, AttachedInv
<1>1. CASE Dials
  <2>1. dialed' = dialed + 1 /\ dialed' \in Conns /\ UNCHANGED down /\ dialed \in Nat
    BY <1>0, <1>1, Bounds, NetTypes DEF Dials, Dial, Conns
  <2>2. th'[dialed'].pc = "accepted"
    BY <1>0, <1>1, <2>1 DEF Dials, Dial, TypeInv, Typed, ServerTyped, NoThread
  <2>3. down[dialed'] = <<>>
    BY <1>0, <2>1 DEF NetInv, ConnInv
  <2>4. QED
    BY <2>1, <2>2, <2>3 DEF Active
<1>2. CASE Client /\ ~Dials
  <2>1. ~InHello
    BY <1>0, <1>2, HelloEnds
  <2>2. QED
    BY <1>0, <1>2, <2>1, Moves DEF ClientMoves, Drops, Takes, WritesPending, Reads, Elsewhere, Rests
<1>3. CASE ~Client
  <2>1. /\ InHello /\ cl.had /\ dialed' = dialed /\ cl' = cl /\ cl.sock = None /\ past'.overflowed = past.overflowed
        /\ dialed \in Conns /\ InHello'
    BY <1>0, <1>3, ClientOnly, NetTypes DEF clientVars, InHello
  <2>2. /\ reg.s # None /\ (Active(dialed) => th[dialed].resumed)
        /\ down[dialed] # <<>> => /\ down[dialed][1].resumed
                                  /\ ~past.overflowed => down[dialed][1].n >= Gone(cl)
    BY <1>0, <2>1 DEF LostInv
  <2>3. ASSUME NEW c \in Conns, c = dialed, Active(c)' PROVE th'[c].resumed
    <3>1. CASE Attach(c)
      BY <2>2, <3>1, AttachEffect, <1>0 DEF Attached
    <3>2. QED
      BY <1>0, <2>2, <2>3, <3>1, ResumedStep
  <2>4. ASSUME NEW c \in Conns, c = dialed, down'[c] # <<>>
        PROVE  down'[c][1].resumed /\ (~past.overflowed => down'[c][1].n >= Gone(cl))
    <3>1. down'[c] \in Seq(ReplyRec) /\ down[c] \in Seq(ReplyRec) /\ 1 \in DOMAIN down'[c] /\ c # cl.sock
      BY <1>0, <2>1, <2>4, TypesNext, NetTypes, TailOf DEF None
    <3>2. CASE From(down'[c], down[c])
      <4>1. PICK j \in DOMAIN down[c] : down'[c][1] = down[c][j]
        BY <3>1, <3>2 DEF From
      <4>2. down'[c][1].type = "hello"
        <5>1. ConnInv(c)' /\ cl'.sock = cl.sock
          BY <1>0, <2>1 DEF NetInv
        <5>2. QED
          BY <3>1, <5>1 DEF ConnInv
      <4>3. j = 1
        BY <1>0, <3>1, <4>1, <4>2 DEF NetInv, ConnInv
      <4>4. down[c] # <<>>
        BY <4>1, EmptySeq, LenProperties
      <4>5. down[dialed] # <<>> /\ down'[c][1] = down[dialed][1]
        BY <2>4, <4>1, <4>3, <4>4
      <4>6. down[dialed][1].resumed
        BY <2>2, <4>5
      <4>8. ~past.overflowed => down[dialed][1].n >= Gone(cl)
        BY <2>2, <4>5
      <4>7. QED
        BY <4>5, <4>6, <4>8
    <3>3. CASE Snapshot(c) /\ Snapped(c) /\ Greets(c) /\ down[c] = <<>>
      <4>1. Active(c) /\ th[c].s = reg.s /\ th[c].resumed /\ link[c] = "open"
        BY <1>0, <2>2, <2>4, <3>3 DEF Snapped, Active, AttachInv, Greets
      <4>2. down'[c][1] = Hello(th[c].resumed, sess[reg.s].last_seq)
        BY <3>3, <4>1 DEF Greets
      <4>3. down'[c][1].resumed /\ down'[c][1].n = sess[reg.s].last_seq
        BY <4>1, <4>2 DEF Hello
      <4>4. ~past.overflowed => Gone(cl) = 0 \/ Attests(Gone(cl))
        BY <1>0 DEF LostInv
      <4>5. sess[reg.s].last_seq \in Nat
        BY <1>0, <2>2, GenTypes, MadeTypes
      <4>6. QED
        BY <4>3, <4>4, <4>5 DEF Attests
    <3>4. ASSUME NEW a, NEW n, Applied(c, a, n) PROVE FALSE
      <4>1. th[c].batch # <<>>
        BY <3>4 DEF Applied
      <4>2. QED
        BY <1>0, <2>1, <2>4, <4>1 DEF NetInv, ConnInv
    <3>5. QED
      BY <1>0, <3>2, <3>3, <3>4, DownStep
  <2>5. QED
    BY <2>1, <2>3, <2>4 DEF Active
<1>4. QED
  BY <1>1, <1>2, <1>3

(* While no session is removed, what is gone from the replay buffer was    *)
(* applied.                                                                *)
LEMMA LostStep == BaseInv /\ LostInv /\ [Next]_vars => LostInv'
<1> SUFFICES ASSUME BaseInv, LostInv, [Next]_vars, ~past'.removed PROVE LostInv'
  BY DEF LostInv
<1>0. TypeInv /\ NetInv /\ ~past.removed
  BY RegStays DEF BaseInv, AttachedInv
<1>1. cl'.had => reg'.s # None
  <2>1. CASE HelloFlush
    <3>1. dialed \in Conns /\ down[dialed] # <<>>
      BY <1>0, <2>1, NetTypes DEF HelloFlush, Welcome, Answered, InHello
    <3>2. 1 \in DOMAIN down[dialed]
      BY <1>0, <3>1, NetTypes, TailOf
    <3>3. reg.s # None
      BY <1>0, <3>1, <3>2 DEF LostInv, Attests
    <3>4. QED
      BY <1>0, <3>3, RegStays
  <2>2. CASE cl'.had = cl.had
    BY <1>0, <2>2, RegStays DEF LostInv
  <2>3. QED
    BY <1>0, <2>1, <2>2, HadStep
<1>2. \A c \in Conns : \A i \in DOMAIN down'[c] : AttestsNext(down'[c][i].n)
  BY AttestedDown
<1>3. ~past'.overflowed => Gone(cl') = 0 \/ AttestsNext(Gone(cl'))
  BY AttestedGone
<1>4. InHello' /\ cl'.had =>
         /\ Active(dialed)' => th'[dialed'].resumed
         /\ down'[dialed'] # <<>> => /\ down'[dialed'][1].resumed
                                     /\ ~past'.overflowed => down'[dialed'][1].n >= Gone(cl')
  BY HelloStays
<1>5. QED
  BY <1>1, <1>2, <1>3, <1>4 DEF LostInv, Attests, AttestsNext, Active, Gone

(* SessionLost is raised for a session that is not the one the client had, *)
(* or for messages that are neither there nor here.                        *)
LEMMA LostRaised ==
  ASSUME BaseInv, LostInv, LostIsTrue, [Next]_vars
  PROVE  LostIsTrue'
<1>0. /\ TypeInv /\ NetInv /\ BufferInv
      /\ past \in [gave_up : BOOLEAN, lost : BOOLEAN, removed : BOOLEAN, overflowed : BOOLEAN]
  BY DEF BaseInv, AttachedInv, TypeInv, Typed, HistoryTyped
<1>1. SUFFICES ASSUME past'.lost, ~past'.removed, ~past'.overflowed PROVE FALSE
  BY DEF LostIsTrue
<1>2. ~past.removed
  BY <1>0, <1>1, RegStays
<1>3. CASE Lost /\ (HelloLost \/ ResumeMissing)
  <2>1. /\ InHello /\ dialed \in Conns /\ down[dialed] # <<>> /\ cl.had /\ ~past.overflowed
        /\ Head(down[dialed]) = down[dialed][1] /\ Head(down[dialed]).n \in Nat
    <3>1. InHello /\ down[dialed] # <<>> /\ cl.had /\ dialed \in Conns
      BY <1>0, <1>3, NetTypes DEF HelloLost, ResumeMissing, Welcome, Answered, InHello, TypeInv, PlaceInv
    <3>2. ~past.overflowed
      BY <1>0, <1>1, <1>3 DEF Lost, Raise
    <3>3. Head(down[dialed]) = down[dialed][1] /\ 1 \in DOMAIN down[dialed]
      BY <1>0, <3>1, NetTypes, TailOf
    <3>4. QED
      BY <1>0, <3>1, <3>2, <3>3, MadeTypes
  <2>2. Head(down[dialed]).resumed /\ Head(down[dialed]).n >= Gone(cl)
    BY <1>2, <2>1 DEF LostInv
  <2>3. CASE HelloLost
    BY <2>2, <2>3 DEF HelloLost
  <2>4. CASE Missing(Head(down[dialed]).n)
    <3>1. cl \in ClientRec /\ Buffer(cl) /\ cl.replay
      BY <1>0, <2>1 DEF BufferInv, TypeInv, Typed, ClientTyped
    <3>2. CASE cl.unacked = <<>>
      <4>1. Gone(cl) = cl.seq /\ cl.seq \in Nat
        BY <3>1, <3>2, GoneBounds
      <4>2. Head(down[dialed]).n < cl.seq
        BY <2>4 DEF Missing
      <4>3. QED
        BY <2>1, <2>2, <4>1, <4>2
    <3>3. CASE cl.unacked # <<>>
      <4>1. Head(cl.unacked) = Gone(cl) + 1 /\ Gone(cl) \in Nat
        BY <3>1, <3>3, GoneBounds
      <4>2. Head(cl.unacked) > Head(down[dialed]).n + 1
        BY <2>4, <3>1, <3>3 DEF Missing
      <4>3. QED
        BY <2>1, <2>2, <4>1, <4>2
    <3>4. QED
      BY <3>2, <3>3
  <2>5. QED
    BY <1>3, <2>3, <2>4 DEF ResumeMissing
<1>4. CASE past'.lost = past.lost
  <2>1. past.overflowed
    BY <1>1, <1>2, <1>4 DEF LostIsTrue
  <2>2. past'.overflowed
    <3>1. CASE ~Client
      BY <1>0, <2>1, <3>1, ClientOnly
    <3>2. CASE Client
      BY <1>0, <2>1, <3>2, Turns
         DEF ClientTurns, Calls, Receives, Writes, Resumes, Keeps, Queues, SameRecord, history
    <3>3. QED
      BY <3>1, <3>2
  <2>3. QED
    BY <1>1, <2>2
<1>5. CASE Client /\ ~HelloLost /\ ~ResumeMissing
  <2>1. past'.lost = past.lost
    <3>1. \A k \in Kinds : Call(k) => past'.lost = past.lost
      BY <1>0, OverflowTyped DEF Call, TypeInv, Typed
    <3>2. Receive => past'.lost = past.lost
      BY <1>0, OverflowTyped DEF Receive, TypeInv, Typed
    <3>3. GivesUp => past'.lost = past.lost
      BY <1>0 DEF GivesUp, Raise
    <3>4. FlushRefused \/ HelloFails => past' = past
      BY DEF FlushRefused, HelloFails, Unreached
    <3>5. FlushCall \/ FlushDials \/ FlushWrites \/ FlushFails \/ HelloFlush \/ Redial \/ RedialRefused \/ RehelloFails
            \/ Resume \/ OldReply \/ ReceiveFails => past' = past
      BY DEF FlushCall, FlushDials, FlushWrites, FlushFails, HelloFlush, Redial, RedialRefused, RehelloFails,
             Resume, OldReply, ReceiveFails, history
    <3>6. QED
      BY <1>5, <3>1, <3>2, <3>3, <3>4, <3>5 DEF Client
  <2>2. QED
    BY <1>4, <2>1
<1>6. CASE ~Client
  BY <1>0, <1>4, <1>6, ClientOnly
<1>7. QED
  BY <1>3, <1>5, <1>6 DEF HelloLost, ResumeMissing

(* The common part of the invariants holds at the start.                   *)
LEMMA BaseInit == Init => BaseInv
<1> SUFFICES ASSUME Init PROVE BaseInv
  OBVIOUS
<1>1. AttachedInv /\ NetInv
  BY AttachedInit, NetInit
<1>2. cl.seq = 0 /\ cl.unacked = <<>> /\ cl.pending = <<>> /\ cl.replay /\ cl.last_acked = 0 /\ op = Idle
      /\ th = [c \in Conns |-> NoThread] /\ up = [c \in Conns |-> <<>>] /\ down = [c \in Conns |-> <<>>]
      /\ sess = [s \in Sessions |-> NewSession] /\ ~past.overflowed
  BY DEF Init
<1>3. BufferInv
  BY <1>2 DEF BufferInv, Buffer
<1>4. OpInv
  BY <1>2, IdleTyped DEF OpInv
<1>5. MadeInv
  <2>1. \A n : ~In(<<>>, n)
    BY DEF In
  <2>2. NoThread.batch = <<>> /\ NoThread.acked = 0 /\ NewSession.last_seq = 0 /\ NewSession.reply.n = 0
    BY DEF NoThread, NewSession, NoReply, Reply, None
  <2>3. QED
    BY <1>2, <2>1, <2>2 DEF MadeInv, Coming, Among
<1>6. QED
  BY <1>1, <1>3, <1>4, <1>5 DEF BaseInv

(* The client is told that its session is lost only when the server did    *)
(* remove it, or the replay limit was passed.  (_connect, _reconnect.)     *)
THEOREM LostOnlyWhenItIs == Spec => []LostIsTrue
<1>1. Init => BaseInv /\ LostInv /\ LostIsTrue
  <2>1. Init => LostInv
    <3> SUFFICES ASSUME Init PROVE LostInv
      OBVIOUS
    <3>1. ~cl.had /\ down = [c \in Conns |-> <<>>] /\ cl.seq = 0 /\ cl.unacked = <<>>
      BY DEF Init
    <3>2. Len(<<>>) = 0
      OBVIOUS
    <3>3. Gone(cl) = 0
      <4>1. cl \in ClientRec /\ Buffer(cl)
        BY BaseInit DEF BaseInv, BufferInv, AttachedInv, TypeInv, Typed, ClientTyped
      <4>2. Gone(cl) = cl.seq
        BY <3>1, <4>1, GoneBounds
      <4>3. QED
        BY <3>1, <4>2
    <3>4. QED
      BY <3>1, <3>3 DEF LostInv
  <2>2. Init => LostIsTrue
    BY DEF Init, LostIsTrue
  <2>3. QED
    BY <2>1, <2>2, BaseInit
<1>2. BaseInv /\ LostInv /\ LostIsTrue /\ [Next]_vars => (BaseInv /\ LostInv /\ LostIsTrue)'
  BY BaseStep, LostStep, LostRaised
<1>3. QED
  BY <1>1, <1>2, PTL DEF Spec

-----------------------------------------------------------------------------
(* Failures: in terms of the set of messages a session applied.            *)
First(S) == IF S = {} THEN None ELSE Min(S)
FailuresOf(R, kinds, w) ==
  {n \in R : n < w /\ kinds[n] = "bad" /\ \A m \in R : n <= m /\ m < w => ~Waits(kinds[m])}
UntoldOf(R, kinds) ==
  {n \in R : kinds[n] = "bad" /\ \A m \in R : n <= m => ~Waits(kinds[m])}

(* A set of numbers has a least one.                                       *)
LEMMA LeastOf ==
  ASSUME NEW S, S \subseteq Nat, S # {}
  PROVE  Min(S) \in S /\ \A j \in S : Min(S) <= j
<1>1. PICK i \in S : \A j \in S : <<j, i>> \notin OpToRel(<, Nat)
  BY NatLessThanWellFounded, WFMin
<1>2. ASSUME NEW j \in S PROVE i <= j
  <2>1. i \in Nat /\ j \in Nat
    OBVIOUS
  <2>2. <<j, i>> \notin {ss \in Nat \X Nat : ss[1] < ss[2]}
    BY <1>1 DEF OpToRel
  <2>3. QED
    BY <2>1, <2>2
<1>3. QED
  BY <1>2 DEF Min

(* The first of a set does not change when a later one joins it.           *)
LEMMA FirstOneMore ==
  ASSUME NEW S, S \subseteq Nat \ {0}, NEW n \in Nat \ {0}, \A m \in S : m < n
  PROVE  First(S \union {n}) = IF First(S) = None THEN n ELSE First(S)
<1>1. First(S \union {n}) = Min(S \union {n}) /\ Min(S \union {n}) \in S \union {n}
      /\ \A j \in S \union {n} : Min(S \union {n}) <= j
  BY LeastOf DEF First
<1>2. CASE S = {}
  BY <1>1, <1>2 DEF First
<1>3. CASE S # {}
  <2>1. First(S) = Min(S) /\ Min(S) \in S /\ \A j \in S : Min(S) <= j
    BY <1>3, LeastOf DEF First
  <2>2. Min(S \union {n}) = Min(S)
    <3> DEFINE a == Min(S \union {n})
               b == Min(S)
    <3>1. a \in S \union {n} /\ (\A j \in S \union {n} : a <= j) /\ b \in S /\ (\A j \in S : b <= j)
      BY <1>1, <2>1
    <3> HIDE DEF a, b
    <3>2. a <= b /\ b < n /\ a \in Nat /\ b \in Nat
      BY <3>1
    <3>3. a \in S
      BY <3>1, <3>2
    <3>4. b <= a
      BY <3>1, <3>3
    <3>5. a = b
      BY <3>2, <3>4
    <3>6. QED
      BY <3>5 DEF a, b
  <2>3. QED
    BY <1>1, <2>1, <2>2 DEF None
<1>4. QED
  BY <1>2, <1>3

(* The failures a wait is told are of the messages its session applied.    *)
LEMMA FailuresAre ==
  ASSUME NEW s
  PROVE  /\ \A w : Failures(s, w) = FailuresOf(ToSet(ran[s]), issued, w)
         /\ \A w : Failures(s, w)' = FailuresOf(ToSet(ran'[s]), issued', w)
  BY DEF Failures, Since, FailuresOf

(* The kinds of messages made are not changed.                             *)
LEMMA SameKinds ==
  ASSUME NEW R, NEW kinds, NEW later, \A n \in R : later[n] = kinds[n]
  PROVE  /\ \A w : FailuresOf(R, later, w) = FailuresOf(R, kinds, w)
         /\ UntoldOf(R, later) = UntoldOf(R, kinds)
  BY DEF FailuresOf, UntoldOf

(* A message more that is applied.                                         *)
LEMMA OneMore ==
  ASSUME NEW R, R \subseteq Nat, NEW kinds, NEW n \in Nat, \A m \in R : m < n
  PROVE  /\ \A w \in R : FailuresOf(R \union {n}, kinds, w) = FailuresOf(R, kinds, w)
         /\ Waits(kinds[n]) => /\ FailuresOf(R \union {n}, kinds, n) = UntoldOf(R, kinds)
                               /\ UntoldOf(R \union {n}, kinds) = {}
         /\ ~Waits(kinds[n]) =>
              UntoldOf(R \union {n}, kinds) = UntoldOf(R, kinds) \union (IF kinds[n] = "bad" THEN {n} ELSE {})
<1>1. ASSUME NEW w \in R PROVE FailuresOf(R \union {n}, kinds, w) = FailuresOf(R, kinds, w)
  <2>1. w \in Nat /\ w < n
    OBVIOUS
  <2>2. ~(n < w)
    BY <2>1
  <2>3. QED
    BY <2>2 DEF FailuresOf
<1>2. ASSUME Waits(kinds[n])
      PROVE  FailuresOf(R \union {n}, kinds, n) = UntoldOf(R, kinds) /\ UntoldOf(R \union {n}, kinds) = {}
  <2>1. ~(n < n) /\ n <= n /\ \A m \in R : m <= n
    OBVIOUS
  <2>2. FailuresOf(R \union {n}, kinds, n) = UntoldOf(R, kinds)
    BY <2>1 DEF FailuresOf, UntoldOf
  <2>3. UntoldOf(R \union {n}, kinds) = {}
    BY <1>2, <2>1 DEF UntoldOf
  <2>4. QED
    BY <2>2, <2>3
<1>3. ASSUME ~Waits(kinds[n])
      PROVE  UntoldOf(R \union {n}, kinds) = UntoldOf(R, kinds) \union (IF kinds[n] = "bad" THEN {n} ELSE {})
  <2>1. n <= n /\ \A m \in R : ~(n <= m)
    OBVIOUS
  <2>2. QED
    BY <1>3, <2>1 DEF UntoldOf
<1>4. QED
  BY <1>1, <1>2, <1>3

(* What a session applied when it has applied one more.                    *)
LEMMA AppendSet ==
  ASSUME NEW q \in Seq(Msgs), NEW n \in Msgs
  PROVE  ToSet(Append(q, n)) = ToSet(q) \union {n} /\ ToSet(q) \subseteq Msgs
<1> DEFINE z == Append(q, n)
<1>1. /\ Len(q) \in Nat /\ DOMAIN q = 1 .. Len(q) /\ DOMAIN z = 1 .. Len(q) + 1 /\ z[Len(q) + 1] = n
      /\ \A i \in 1 .. Len(q) : z[i] = q[i]
  BY AppendProperties, LenProperties
<1> HIDE DEF z
<1>2. ASSUME NEW m, m \in ToSet(z) PROVE m \in ToSet(q) \union {n}
  <2>1. PICK i \in DOMAIN z : z[i] = m
    BY <1>2 DEF ToSet
  <2>2. i = Len(q) + 1 \/ i \in DOMAIN q
    BY <1>1, <2>1
  <2>3. QED
    BY <1>1, <2>1, <2>2 DEF ToSet
<1>3. ASSUME NEW m, m \in ToSet(q) \union {n} PROVE m \in ToSet(z)
  <2>1. CASE m = n
    <3>1. Len(q) + 1 \in DOMAIN z
      BY <1>1
    <3>2. QED
      BY <1>1, <2>1, <3>1 DEF ToSet
  <2>2. CASE m \in ToSet(q)
    <3>1. PICK i \in DOMAIN q : q[i] = m
      BY <2>2 DEF ToSet
    <3>2. i \in DOMAIN z /\ z[i] = m
      BY <1>1, <3>1
    <3>3. QED
      BY <3>2 DEF ToSet
  <2>3. QED
    BY <1>3, <2>1, <2>2
<1>4. ToSet(q) \subseteq Msgs
  BY ElementOfSeq, <1>1 DEF ToSet
<1>5. QED
  BY <1>2, <1>3, <1>4 DEF z

(* What r says is so: the first failure since the last message waited for, *)
(* of messages R applied.                                                  *)
Says(r, R, kinds) == r.n \in R /\ Waits(kinds[r.n]) /\ r.err = First(FailuresOf(R, kinds, r.n))
Stated(r)         == \E s \in Sessions : Says(r, ToSet(ran[s]), issued)
StatedNext(r)     == \E s \in Sessions : Says(r, ToSet(ran'[s]), issued')

(* The kept reply is so, and no message waited for is past it; what is     *)
(* kept of failures is the first one nobody was told; what is on its way   *)
(* to the client, and what it was told, is so.                             *)
TruthInv ==
  /\ \A s \in Sessions :
       /\ sess[s].reply # NoReply => Says(sess[s].reply, ToSet(ran[s]), issued)
       /\ \A m \in ToSet(ran[s]) : Waits(issued[m]) => m <= sess[s].reply.n
       /\ sess[s].err = First(UntoldOf(ToSet(ran[s]), issued))
  /\ \A c \in Conns : \A i \in DOMAIN down[c] : down[c][i].type = "reply" => Stated(down[c][i])
  /\ \A w \in Msgs : told[w] # NoReply => told[w].n = w /\ Stated(told[w])

(* What a session applied was made, and is not past what it counts.        *)
LEMMA AppliedBounds ==
  ASSUME TypeInv, RanInv, MadeInv, NEW s \in Sessions, NEW m \in ToSet(ran[s])
  PROVE  m \in Msgs /\ m \in Nat \ {0} /\ m <= sess[s].last_seq /\ m \in 1 .. cl.seq
<1>1. PICK i \in DOMAIN ran[s] : ran[s][i] = m
  BY DEF ToSet
<1>2. ran[s] \in Seq(Msgs)
  BY DEF TypeInv, Typed, ServerTyped
<1>3. m \in Msgs /\ m <= sess[s].last_seq /\ sess[s].last_seq <= cl.seq
  BY <1>1, <1>2, ElementOfSeq, LenProperties DEF RanInv, UpTo, MadeInv
<1>4. QED
  BY <1>3, MadeTypes, Bounds DEF Msgs

(* What the session that applies a message more says of it.                *)
LEMMA AppliedTruth ==
  ASSUME TypeInv, RanInv, MadeInv, TruthInv, NEW c \in Conns, NEW i, NEW n, Applied(c, i, n)
  PROVE  /\ i \in Sessions /\ issued' = issued /\ n \in Msgs
         /\ ToSet(ran'[i]) = ToSet(ran[i]) \union {n} /\ \A m \in ToSet(ran[i]) : m < n
         /\ \A r : Says(r, ToSet(ran[i]), issued) => Says(r, ToSet(ran'[i]), issued)
         /\ sess'[i].reply # NoReply => Says(sess'[i].reply, ToSet(ran'[i]), issued)
         /\ \A m \in ToSet(ran'[i]) : Waits(issued[m]) => m <= sess'[i].reply.n
         /\ sess'[i].err = First(UntoldOf(ToSet(ran'[i]), issued))
<1> DEFINE R == ToSet(ran[i])
           U == UntoldOf(R, issued)
<1>1. i \in Sessions /\ n \in Msgs /\ n \in Nat \ {0} /\ sess[i].last_seq < n /\ issued' = issued /\ ran'[i] = Append(ran[i], n)
  BY Bounds DEF Applied, Msgs, clientVars
<1>2. ToSet(ran'[i]) = R \union {n} /\ R \subseteq Nat \ {0} /\ \A m \in R : m < n
  <2>1. ran[i] \in Seq(Msgs)
    BY <1>1 DEF TypeInv, Typed, ServerTyped
  <2>2. ASSUME NEW m \in R PROVE m < n /\ m \in Nat \ {0}
    <3>1. m \in Nat \ {0} /\ m <= sess[i].last_seq
      BY <1>1, AppliedBounds
    <3>2. sess[i].last_seq \in Nat
      BY <1>1, MadeTypes
    <3> DEFINE last == sess[i].last_seq
    <3>3. m \in Nat /\ last \in Nat /\ n \in Nat /\ m <= last /\ last < n
      BY <1>1, <3>1, <3>2
    <3> HIDE DEF last
    <3>4. m < n
      BY ONLY <3>3
    <3>5. QED
      BY <3>1, <3>4
  <2>3. QED
    BY <1>1, <2>1, <2>2, AppendSet
<1>3. /\ sess[i].reply # NoReply => Says(sess[i].reply, R, issued)
      /\ \A m \in R : Waits(issued[m]) => m <= sess[i].reply.n
      /\ sess[i].err = First(U)
  BY <1>1 DEF TruthInv
<1> HIDE DEF R
<1>4. /\ \A w \in R : FailuresOf(R \union {n}, issued, w) = FailuresOf(R, issued, w)
      /\ Waits(issued[n]) => /\ FailuresOf(R \union {n}, issued, n) = U
                             /\ UntoldOf(R \union {n}, issued) = {}
      /\ ~Waits(issued[n]) => UntoldOf(R \union {n}, issued) = U \union (IF issued[n] = "bad" THEN {n} ELSE {})
  <2>1. R \subseteq Nat /\ n \in Nat /\ \A m \in R : m < n
    BY <1>1, <1>2
  <2>2. QED
    BY <2>1, OneMore
<1>5. U \subseteq R
  BY DEF UntoldOf
<1> HIDE DEF U
<1>6. ASSUME NEW r, Says(r, R, issued) PROVE Says(r, R \union {n}, issued)
  BY <1>4, <1>6 DEF Says
<1>7. CASE Waits(issued[n])
  <2>1. sess'[i].reply = Reply(n, sess[i].err) /\ sess'[i].err = None
    BY <1>7, AppliedSession
  <2>2. sess'[i].reply.n = n /\ sess'[i].reply.err = First(U)
    BY <1>3, <2>1 DEF Reply
  <2>3. Says(sess'[i].reply, R \union {n}, issued)
    BY <1>4, <1>7, <2>2 DEF Says
  <2>4. \A m \in R \union {n} : m <= n
    BY <1>1, <1>2
  <2>5. sess'[i].err = First(UntoldOf(R \union {n}, issued))
    BY <1>4, <1>7, <2>1 DEF First
  <2>6. QED
    BY <1>1, <1>2, <1>6, <2>2, <2>3, <2>4, <2>5 DEF R
<1>8. CASE ~Waits(issued[n])
  <2>1. sess'[i].reply = sess[i].reply /\ sess'[i].err = IF issued[n] = "bad" /\ sess[i].err = None THEN n ELSE sess[i].err
    BY <1>8, AppliedSession
  <2>2. sess'[i].reply # NoReply => Says(sess'[i].reply, R \union {n}, issued)
    BY <1>3, <1>6, <2>1
  <2>3. \A m \in R \union {n} : Waits(issued[m]) => m <= sess'[i].reply.n
    BY <1>3, <1>8, <2>1
  <2>4. sess'[i].err = First(UntoldOf(R \union {n}, issued))
    <3>1. CASE issued[n] = "bad"
      <4>1. U \subseteq Nat \ {0} /\ \A m \in U : m < n
        BY <1>2, <1>5
      <4>2. First(U \union {n}) = IF First(U) = None THEN n ELSE First(U)
        BY <1>1, <4>1, FirstOneMore
      <4>3. QED
        BY <1>3, <1>4, <1>8, <2>1, <3>1, <4>2
    <3>2. CASE issued[n] # "bad"
      <4>1. UntoldOf(R \union {n}, issued) = U
        BY <1>4, <1>8, <3>2
      <4>2. QED
        BY <1>3, <2>1, <3>2, <4>1
    <3>3. QED
      BY <3>1, <3>2
  <2>5. QED
    BY <1>1, <1>2, <1>6, <2>2, <2>3, <2>4 DEF R
<1>9. QED
  BY <1>7, <1>8

(* What was so stays so: what comes later is not counted.                  *)
LEMMA SessionTruth ==
  ASSUME TypeInv, RanInv, MadeInv, TruthInv, [Next]_vars, NEW s \in Sessions
  PROVE  /\ \A r : Says(r, ToSet(ran[s]), issued) => Says(r, ToSet(ran'[s]), issued')
         /\ sess'[s].reply # NoReply => Says(sess'[s].reply, ToSet(ran'[s]), issued')
         /\ \A m \in ToSet(ran'[s]) : Waits(issued'[m]) => m <= sess'[s].reply.n
         /\ sess'[s].err = First(UntoldOf(ToSet(ran'[s]), issued'))
<1> DEFINE R == ToSet(ran[s])
<1>0. /\ sess[s].reply # NoReply => Says(sess[s].reply, R, issued)
      /\ \A m \in R : Waits(issued[m]) => m <= sess[s].reply.n
      /\ sess[s].err = First(UntoldOf(R, issued))
  BY DEF TruthInv
<1>1. \A m \in R : issued'[m] = issued[m]
  BY RecordStep, AppliedBounds DEF Recorded
<1> HIDE DEF R
<1>2. /\ \A w : FailuresOf(R, issued', w) = FailuresOf(R, issued, w)
      /\ UntoldOf(R, issued') = UntoldOf(R, issued)
  BY <1>1, SameKinds
<1>3. \A r : Says(r, R, issued) => Says(r, R, issued')
  BY <1>1, <1>2 DEF Says
<1>4. CASE ran'[s] = ran[s] /\ sess'[s].reply = sess[s].reply /\ sess'[s].err = sess[s].err
  <2>1. ToSet(ran'[s]) = R
    BY <1>4 DEF R
  <2>2. sess'[s].reply # NoReply => Says(sess'[s].reply, R, issued')
    BY <1>0, <1>3, <1>4
  <2>3. \A m \in R : Waits(issued'[m]) => m <= sess'[s].reply.n
    BY <1>0, <1>1, <1>4
  <2>4. sess'[s].err = First(UntoldOf(R, issued'))
    BY <1>0, <1>2, <1>4
  <2>5. QED
    BY <1>3, <2>1, <2>2, <2>3, <2>4 DEF R
<1>5. CASE SessionsKeep
  BY <1>4, <1>5 DEF SessionsKeep
<1>6. ASSUME NEW c \in Conns, NEW i, NEW n, Applied(c, i, n), s = i
      PROVE  /\ \A r : Says(r, ToSet(ran[s]), issued) => Says(r, ToSet(ran'[s]), issued')
             /\ sess'[s].reply # NoReply => Says(sess'[s].reply, ToSet(ran'[s]), issued')
             /\ \A m \in ToSet(ran'[s]) : Waits(issued'[m]) => m <= sess'[s].reply.n
             /\ sess'[s].err = First(UntoldOf(ToSet(ran'[s]), issued'))
  <2>1. issued' = issued
    BY <1>6, AppliedTruth
  <2>2. /\ \A r : Says(r, ToSet(ran[s]), issued) => Says(r, ToSet(ran'[s]), issued)
        /\ sess'[s].reply # NoReply => Says(sess'[s].reply, ToSet(ran'[s]), issued)
        /\ \A m \in ToSet(ran'[s]) : Waits(issued[m]) => m <= sess'[s].reply.n
        /\ sess'[s].err = First(UntoldOf(ToSet(ran'[s]), issued))
    BY <1>6, AppliedTruth
  <2>3. QED
    BY <2>1, <2>2
<1>7. ASSUME NEW c \in Conns, NEW i, NEW n, Applied(c, i, n), s # i
      PROVE  ran'[s] = ran[s] /\ sess'[s].reply = sess[s].reply /\ sess'[s].err = sess[s].err
  BY <1>7 DEF Applied
<1>8. QED
  BY <1>4, <1>5, <1>6, <1>7, SessionStep, AppliesEffect

(* What was so of a session, of some session, is so after the step.        *)
LEMMA StatedStays ==
  ASSUME TypeInv, RanInv, MadeInv, TruthInv, [Next]_vars, NEW r, Stated(r)
  PROVE  StatedNext(r)
<1>1. PICK s \in Sessions : Says(r, ToSet(ran[s]), issued)
  BY DEF Stated
<1>2. Says(r, ToSet(ran'[s]), issued')
  BY <1>1, SessionTruth
<1>3. QED
  BY <1>2 DEF StatedNext

(* The kept reply of a session after a step is so.                         *)
LEMMA KeptStated ==
  ASSUME TypeInv, RanInv, MadeInv, TruthInv, [Next]_vars, NEW s \in Sessions, sess'[s].reply # NoReply
  PROVE  StatedNext(sess'[s].reply)
<1>1. Says(sess'[s].reply, ToSet(ran'[s]), issued')
  BY SessionTruth
<1>2. QED
  BY <1>1 DEF StatedNext

(* What is on its way to the client after the step is so.                  *)
LEMMA DownTruth ==
  ASSUME BaseInv, RanInv, TruthInv, [Next]_vars, NEW c \in Conns, NEW i \in DOMAIN down'[c],
         down'[c][i].type = "reply"
  PROVE  StatedNext(down'[c][i])
<1>0. TypeInv /\ FreshInv /\ NetInv /\ MadeInv /\ OpInv
  BY DEF BaseInv, AttachedInv
<1>1. \A j \in DOMAIN down[c] : down[c][j].type = "reply" => StatedNext(down[c][j])
  BY <1>0, StatedStays DEF TruthInv
<1>2. CASE From(down'[c], down[c])
  BY <1>1, <1>2 DEF From
<1>3. CASE Snapshot(c) /\ Snapped(c) /\ Greets(c) /\ down[c] = <<>>
  <2>1. th[c].s \in Sessions
    BY <1>3 DEF Snapped
  <2> DEFINE s == th[c].s
  <2>2. sess[s].reply # NoReply => StatedNext(sess[s].reply)
    <3>1. sess[s].reply # NoReply => Stated(sess[s].reply)
      BY <2>1 DEF TruthInv, Stated
    <3>2. QED
      BY <1>0, <3>1, StatedStays
  <2>3. down'[c] \in Seq(ReplyRec)
    <3>1. TypeInv'
      BY <1>0, TypeStep
    <3>2. QED
      BY <3>1, TypesNext
  <2>4. CASE link[c] = "open"
    <3>1. /\ down'[c][1] = Hello(th[c].resumed, sess[s].last_seq)
          /\ \/ Len(down'[c]) = 1
             \/ Len(down'[c]) = 2 /\ down'[c][2] = sess[s].reply /\ sess[s].reply # NoReply
      BY <1>3, <2>4 DEF Greets
    <3>2. i # 1
      BY <3>1 DEF Hello
    <3>3. i = 2 /\ down'[c][2] = sess[s].reply /\ sess[s].reply # NoReply
      BY <2>3, <3>1, <3>2, LenProperties
    <3>4. QED
      BY <2>2, <3>3
  <2>5. CASE link[c] # "open"
    <3>1. down'[c] = down[c]
      BY <1>3, <2>5 DEF Greets
    <3>2. QED
      BY <1>1, <3>1
  <2>6. QED
    BY <2>4, <2>5
<1>4. ASSUME NEW s, NEW n, Applied(c, s, n), Answers(c, s, n) PROVE StatedNext(down'[c][i])
  <2>1. CASE link[c] = "open" /\ Waits(issued[n])
    <3>1. down'[c] = Append(down[c], sess'[s].reply) /\ down[c] \in Seq(ReplyRec)
      BY <1>0, <1>4, <2>1, NetTypes DEF Answers
    <3>2. s \in Sessions /\ n \in Msgs
      BY <1>4 DEF Applied
    <3>3. sess'[s].reply.n = n
      <4>1. sess'[s].reply = Reply(n, sess[s].err)
        BY <1>0, <1>4, <2>1, AppliedSession
      <4>2. QED
        BY <4>1 DEF Reply
    <3>4. sess'[s].reply # NoReply
      BY <3>2, <3>3, Bounds DEF NoReply, Reply, None, Msgs
    <3>5. StatedNext(sess'[s].reply)
      BY <1>0, <3>2, <3>4, KeptStated
    <3>6. \/ down'[c][i] = sess'[s].reply
          \/ i \in DOMAIN down[c] /\ down'[c][i] = down[c][i]
      <4> DEFINE q == down[c]
                 r == sess'[s].reply
      <4>1. q \in Seq(ReplyRec) /\ i \in DOMAIN Append(q, r) /\ down'[c] = Append(q, r)
        BY <3>1
      <4>2. r \in ReplyRec
        BY <1>0, <3>2, TypeStep, TypesNext
      <4> HIDE DEF q, r
      <4>3. Append(q, r)[i] = r \/ (i \in DOMAIN q /\ Append(q, r)[i] = q[i])
        BY <4>1, <4>2, AppendProperties, LenProperties
      <4>4. QED
        BY <4>1, <4>3 DEF q, r
    <3>7. QED
      BY <1>1, <3>5, <3>6
  <2>2. CASE ~(link[c] = "open" /\ Waits(issued[n]))
    <3>1. down'[c] = down[c]
      BY <1>4, <2>2 DEF Answers
    <3>2. QED
      BY <1>1, <3>1
  <2>3. QED
    BY <2>1, <2>2
<1>5. QED
  BY <1>0, <1>2, <1>3, <1>4, DownStep

(* What a wait was told is so.                                             *)
LEMMA ToldTruth ==
  ASSUME BaseInv, RanInv, TruthInv, [Next]_vars, NEW w \in Msgs, told'[w] # NoReply
  PROVE  told'[w].n = w /\ StatedNext(told'[w])
<1>0. TypeInv /\ FreshInv /\ NetInv /\ MadeInv /\ OpInv
  BY DEF BaseInv, AttachedInv
<1>1. told[w] # NoReply => told[w].n = w /\ StatedNext(told[w])
  BY <1>0, StatedStays DEF TruthInv
<1>2. CASE Receives
  <2> DEFINE r == Head(down[cl.sock])
  <2>1. told' = [told EXCEPT ![op.wait] = r]
    BY <1>2 DEF Receives
  <2>2. r.n = op.wait /\ cl.sock \in Conns /\ r = down[cl.sock][1] /\ 1 \in DOMAIN down[cl.sock]
    BY <1>0, <1>2, ReceivedLast
  <2>3. r.type = "reply"
    BY <1>0, <2>2 DEF NetInv, ConnInv
  <2>4. StatedNext(r)
    <3>1. Stated(r)
      BY <2>2, <2>3 DEF TruthInv
    <3>2. QED
      BY <1>0, <3>1, StatedStays
  <2>5. told \in [Msgs -> ReplyRec]
    BY <1>0 DEF TypeInv, Typed, HistoryTyped
  <2> HIDE DEF r
  <2>6. CASE w = op.wait
    <3>1. told'[w] = r
      BY <2>1, <2>5, <2>6
    <3>2. QED
      BY <2>2, <2>4, <2>6, <3>1
  <2>7. CASE w # op.wait
    <3>1. told'[w] = told[w]
      BY <2>1, <2>5, <2>7
    <3>2. QED
      BY <1>1, <3>1
  <2>8. QED
    BY <2>6, <2>7
<1>3. CASE told' = told
  BY <1>1, <1>3
<1>4. Receives \/ told' = told
  <2>1. CASE Client
    BY <1>0, <2>1, Turns DEF ClientTurns, Calls, Writes, Resumes, Keeps, history
  <2>2. CASE ~Client
    BY <1>0, <2>2, ClientOnly
  <2>3. QED
    BY <2>1, <2>2
<1>5. QED
  BY <1>2, <1>3, <1>4

(* What is kept, on its way or told goes on being so.                      *)
LEMMA TruthStep == BaseInv /\ RanInv /\ TruthInv /\ [Next]_vars => TruthInv'
<1> SUFFICES ASSUME BaseInv, RanInv, TruthInv, [Next]_vars PROVE TruthInv'
  OBVIOUS
<1>0. TypeInv /\ MadeInv
  BY DEF BaseInv, AttachedInv
<1>1. \A s \in Sessions :
        /\ sess'[s].reply # NoReply => Says(sess'[s].reply, ToSet(ran'[s]), issued')
        /\ \A m \in ToSet(ran'[s]) : Waits(issued'[m]) => m <= sess'[s].reply.n
        /\ sess'[s].err = First(UntoldOf(ToSet(ran'[s]), issued'))
  BY <1>0, SessionTruth
<1>2. \A c \in Conns : \A i \in DOMAIN down'[c] : down'[c][i].type = "reply" => StatedNext(down'[c][i])
  BY DownTruth
<1>3. \A w \in Msgs : told'[w] # NoReply => told'[w].n = w /\ StatedNext(told'[w])
  BY ToldTruth
<1>4. \A r : StatedNext(r) <=> \E s \in Sessions : Says(r, ToSet(ran'[s]), issued')
  BY DEF StatedNext
<1>5. QED
  BY <1>1, <1>2, <1>3, <1>4 DEF TruthInv, Stated

(* Nothing is kept, on its way or told yet.                                *)
LEMMA TruthInit == Init => TruthInv
<1> SUFFICES ASSUME Init PROVE TruthInv
  OBVIOUS
<1>1. ASSUME NEW s \in Sessions
      PROVE  sess[s].reply = NoReply /\ sess[s].err = None /\ ran[s] = <<>>
  BY DEF Init, NewSession
<1>2. ToSet(<<>>) = {}
  BY DEF ToSet
<1>3. \A kinds : First(UntoldOf({}, kinds)) = None
  BY DEF First, UntoldOf
<1>4. \A c \in Conns : DOMAIN down[c] = {}
  BY DEF Init
<1>5. \A w \in Msgs : told[w] = NoReply
  BY DEF Init, NoReply, None
<1>6. QED
  BY <1>1, <1>2, <1>3, <1>4, <1>5 DEF TruthInv

(* What a wait is told is the first failure since the last message that    *)
(* was waited for, in a session that applied both: neither told twice, nor *)
(* missed, nor another's.  (first_error and last_reply of Session.)        *)
THEOREM ToldTheTruth == Spec => []AnswersAreTrue
<1>1. Init => BaseInv /\ RanInv /\ TruthInv
  BY BaseInit, RanInit, TruthInit
<1>2. BaseInv /\ RanInv /\ TruthInv /\ [Next]_vars => (BaseInv /\ RanInv /\ TruthInv)'
  BY BaseStep, RanStep, TruthStep DEF BaseInv, AttachedInv
<1>3. TruthInv => AnswersAreTrue
  <2> SUFFICES ASSUME TruthInv, NEW w \in Msgs, told[w] # NoReply
               PROVE  /\ told[w].n = w
                      /\ \E s \in Sessions :
                           /\ w \in ToSet(ran[s])
                           /\ told[w].err = IF Failures(s, w) = {} THEN None ELSE Min(Failures(s, w))
    BY DEF AnswersAreTrue
  <2>1. told[w].n = w /\ Stated(told[w])
    BY DEF TruthInv
  <2>2. PICK s \in Sessions : Says(told[w], ToSet(ran[s]), issued)
    BY <2>1 DEF Stated
  <2>3. w \in ToSet(ran[s]) /\ told[w].err = First(Failures(s, w))
    BY <2>1, <2>2, FailuresAre DEF Says
  <2>4. QED
    BY <2>1, <2>3 DEF First
<1>4. QED
  BY <1>1, <1>2, <1>3, PTL DEF Spec

-----------------------------------------------------------------------------
(* Order: what is in a thread's hands comes before what is on its way, and *)
(* both rise.                                                              *)
Before(a, b)  == \A m, n : In(a, m) /\ In(b, n) => m < n
Ordered(b, q) ==
  /\ Rising(b) /\ \A i \in DOMAIN q : Rising(q[i]) /\ Before(b, q[i])
  /\ \A i, j \in DOMAIN q : i < j => Before(q[i], q[j])

(* Nothing is in order.                                                    *)
LEMMA NoneOrdered == Ordered(<<>>, <<>>) /\ Rising(<<>>) /\ \A n : ~In(<<>>, n)
  BY DEF Ordered, Rising, Before, In

(* What is worked off comes before the rest.                               *)
LEMMA TailOrdered ==
  ASSUME NEW b \in Seq(Msgs), NEW q \in Seq(Seq(Msgs)), Ordered(b, q), b # <<>>
  PROVE  /\ Ordered(Tail(b), q)
         /\ \A n : Among(Tail(b), q, n) => Head(b) < n
<1> DEFINE t == Tail(b)
<1>1. /\ DOMAIN t = 1 .. Len(b) - 1 /\ DOMAIN b = 1 .. Len(b) /\ Len(b) \in Nat \ {0}
      /\ \A i \in DOMAIN t : t[i] = b[i + 1] /\ i + 1 \in DOMAIN b /\ i + 1 # 1
      /\ b[1] = Head(b) /\ 1 \in DOMAIN b
  BY TailOf
<1> HIDE DEF t
<1>2. \A i, j \in DOMAIN b : i < j => b[i] < b[j]
  BY DEF Ordered, Rising
<1>3. \A i, j \in DOMAIN t : i < j => i + 1 < j + 1
  BY <1>1
<1>4. Rising(t)
  BY <1>1, <1>2, <1>3 DEF Rising
<1>5. \A n : In(t, n) => In(b, n) /\ Head(b) < n
  <2> SUFFICES ASSUME NEW n, NEW i \in DOMAIN t, t[i] = n PROVE In(b, n) /\ Head(b) < n
    BY DEF In
  <2>1. i + 1 \in DOMAIN b /\ 1 \in DOMAIN b /\ 1 < i + 1 /\ n = b[i + 1] /\ b[1] = Head(b)
    BY <1>1
  <2>2. QED
    BY <1>2, <2>1 DEF In
<1>6. \A i \in DOMAIN q : Before(t, q[i])
  BY <1>5 DEF Ordered, Before
<1>7. Ordered(t, q)
  BY <1>4, <1>6 DEF Ordered
<1>8. In(b, Head(b))
  BY <1>1 DEF In
<1>9. ASSUME NEW n, Among(t, q, n) PROVE Head(b) < n
  <2>1. CASE In(t, n)
    BY <1>5, <2>1
  <2>2. ASSUME NEW i \in DOMAIN q, In(q[i], n) PROVE Head(b) < n
    BY <1>8, <2>2 DEF Ordered, Before
  <2>3. QED
    BY <1>9, <2>1, <2>2 DEF Among
<1>10. QED
  BY <1>7, <1>9 DEF t

(* The batch that is taken in comes before the rest.                       *)
LEMMA NextOrdered ==
  ASSUME NEW q \in Seq(Seq(Msgs)), Ordered(<<>>, q), q # <<>>
  PROVE  Ordered(Head(q), Tail(q))
<1> DEFINE t == Tail(q)
<1>1. /\ DOMAIN t = 1 .. Len(q) - 1 /\ DOMAIN q = 1 .. Len(q) /\ Len(q) \in Nat \ {0}
      /\ \A i \in DOMAIN t : t[i] = q[i + 1] /\ i + 1 \in DOMAIN q /\ i + 1 # 1
      /\ q[1] = Head(q) /\ 1 \in DOMAIN q
  BY TailOf
<1> HIDE DEF t
<1>2. \A i, j \in DOMAIN t : i < j => i + 1 < j + 1
  BY <1>1
<1>3. \A i \in DOMAIN t : 1 < i + 1
  BY <1>1
<1>4. \A i, j \in DOMAIN q : i < j => Before(q[i], q[j])
  BY DEF Ordered
<1>5. \A i \in DOMAIN q : Rising(q[i])
  BY DEF Ordered
<1>6. \A i, j \in DOMAIN t : i < j => Before(t[i], t[j])
  <2> SUFFICES ASSUME NEW i \in DOMAIN t, NEW j \in DOMAIN t, i < j PROVE Before(t[i], t[j])
    OBVIOUS
  <2>1. Before(q[i + 1], q[j + 1])
    BY <1>1, <1>2, <1>4
  <2>2. QED
    BY <1>1, <2>1
<1>7. \A i \in DOMAIN t : Rising(t[i]) /\ Before(q[1], t[i])
  <2> SUFFICES ASSUME NEW i \in DOMAIN t PROVE Rising(t[i]) /\ Before(q[1], t[i])
    OBVIOUS
  <2>1. Rising(q[i + 1]) /\ Before(q[1], q[i + 1])
    BY <1>1, <1>3, <1>4, <1>5
  <2>2. QED
    BY <1>1, <2>1
<1>8. Rising(q[1])
  BY <1>1, <1>5
<1>9. QED
  BY <1>1, <1>6, <1>7, <1>8 DEF Ordered, t

(* What arrives of what was on its way is what comes before the rest.      *)
LEMMA PrefixOrdered ==
  ASSUME NEW b \in Seq(Msgs), NEW q \in Seq(Seq(Msgs)), Ordered(b, q), NEW k \in 0 .. Len(q)
  PROVE  /\ Ordered(b, SubSeq(q, 1, k))
         /\ \A m, n : Among(b, q, m) /\ Among(b, SubSeq(q, 1, k), n) /\ m < n => Among(b, SubSeq(q, 1, k), m)
<1> DEFINE p == SubSeq(q, 1, k)
<1>1. DOMAIN p = 1 .. k /\ (\A j \in DOMAIN p : j \in DOMAIN q /\ p[j] = q[j]) /\ DOMAIN q = 1 .. Len(q) /\ Len(q) \in Nat
  BY PrefixOf, LenProperties
<1> HIDE DEF p
<1>2. Ordered(b, p)
  BY <1>1 DEF Ordered
<1>3. ASSUME NEW m, NEW n, Among(b, q, m), Among(b, p, n), m < n PROVE Among(b, p, m)
  <2>1. m \in Nat /\ n \in Nat
    <3>1. Among(b, q, n)
      BY <1>1, <1>3 DEF Among
    <3>2. m \in Msgs /\ n \in Msgs
      BY <1>3, <3>1, AmongTyped
    <3>3. QED
      BY <3>2 DEF Msgs
  <2>2. CASE In(b, m)
    BY <2>2 DEF Among
  <2>3. ASSUME NEW i \in DOMAIN q, In(q[i], m), i \notin DOMAIN p PROVE FALSE
    <3>1. CASE In(b, n)
      <4>1. n < m
        BY <2>3, <3>1 DEF Ordered, Before
      <4>2. QED
        BY <1>3, <2>1, <4>1
    <3>2. ASSUME NEW j \in DOMAIN p, In(p[j], n) PROVE FALSE
      <4>1. j \in DOMAIN q /\ p[j] = q[j] /\ j < i
        BY <1>1, <2>3, <3>2
      <4>2. n < m
        BY <2>3, <3>2, <4>1 DEF Ordered, Before
      <4>3. QED
        BY <1>3, <2>1, <4>2
    <3>3. QED
      BY <1>3, <3>1, <3>2 DEF Among
  <2>4. QED
    BY <1>1, <1>3, <2>2, <2>3 DEF Among
<1>4. QED
  BY <1>2, <1>3 DEF p

(* What is sent comes after all that is on its way.                        *)
LEMMA SentOrdered ==
  ASSUME NEW b \in Seq(Msgs), NEW q \in Seq(Seq(Msgs)), Ordered(b, q), NEW a \in Seq(Msgs), Rising(a),
         \A m, n : Among(b, q, m) /\ In(a, n) => m < n
  PROVE  Ordered(b, Append(q, a))
<1> DEFINE p == Append(q, a)
<1>1. /\ DOMAIN p = 1 .. Len(q) + 1 /\ DOMAIN q = 1 .. Len(q) /\ Len(q) \in Nat
      /\ p[Len(q) + 1] = a /\ \A i \in DOMAIN q : p[i] = q[i]
  BY AppendProperties, LenProperties
<1> HIDE DEF p
<1>2. \A i \in DOMAIN p : i \in DOMAIN q \/ p[i] = a
  BY <1>1
<1>3. \A i, j \in DOMAIN p : i < j => i \in DOMAIN q
  BY <1>1
<1>4. Before(b, a) /\ \A i \in DOMAIN q : Before(q[i], a)
  BY DEF Before, Among
<1>5. \A i \in DOMAIN p : Rising(p[i]) /\ Before(b, p[i])
  BY <1>1, <1>2, <1>4 DEF Ordered
<1>6. \A i, j \in DOMAIN p : i < j => Before(p[i], p[j])
  BY <1>1, <1>2, <1>3, <1>4 DEF Ordered
<1>7. QED
  BY <1>5, <1>6 DEF Ordered, p

-----------------------------------------------------------------------------
(* Threads that serve, and what they count as applied.                     *)
LEMMA ServingStays ==
  ASSUME TypeInv, [Next]_vars
  PROVE  \A c \in Conns : th'[c].pc = "serving" =>
           /\ th[c].pc = "serving" \/ Snapshot(c)
           /\ Active(c) /\ th'[c].s = th[c].s /\ th'[c].gen = th[c].gen /\ th[c].s \in Sessions
<1> SUFFICES ASSUME NEW c \in Conns, th'[c].pc = "serving"
             PROVE  /\ th[c].pc = "serving" \/ Snapshot(c)
                    /\ Active(c) /\ th'[c].s = th[c].s /\ th'[c].gen = th[c].gen /\ th[c].s \in Sessions
  OBVIOUS
<1>1. (th[c].pc = "serving" \/ Snapshot(c)) /\ Active(c) /\ th'[c].s = th[c].s /\ th'[c].gen = th[c].gen
  <2>1. CASE \A d \in Conns : ~Attach(d)
    <3>1. Stays(c)
      BY <2>1, StaysStep
    <3>2. QED
      BY <3>1 DEF Stays, Active
  <2>2. ASSUME NEW d \in Conns, Attach(d)
        PROVE  th[c].pc = "serving" /\ th'[c].s = th[c].s /\ th'[c].gen = th[c].gen
    <3>1. Attached(d)
      BY <2>2, AttachEffect
    <3>2. c # d /\ th'[c] = th[c]
      BY <3>1 DEF Attached
    <3>3. QED
      BY <3>2
  <2>3. QED
    BY <2>1, <2>2 DEF Active
<1>2. th[c].s \in Sessions
  BY <1>1, GenTypes
<1>3. QED
  BY <1>1, <1>2

(* A session never counts fewer messages as applied than before.           *)
LEMMA LastRises ==
  ASSUME TypeInv, [Next]_vars
  PROVE  \A s \in Sessions : /\ sess[s].last_seq \in Nat /\ sess'[s].last_seq \in Nat
                             /\ sess'[s].last_seq >= sess[s].last_seq
<1> SUFFICES ASSUME NEW s \in Sessions
             PROVE  /\ sess[s].last_seq \in Nat /\ sess'[s].last_seq \in Nat
                    /\ sess'[s].last_seq >= sess[s].last_seq
  OBVIOUS
<1>1. sess[s].last_seq \in Nat
  BY MadeTypes
<1>2. CASE SessionsKeep
  BY <1>1, <1>2 DEF SessionsKeep
<1>3. ASSUME NEW c \in Conns, Applies(c) PROVE sess'[s].last_seq \in Nat /\ sess'[s].last_seq >= sess[s].last_seq
  <2> DEFINE i == th[c].s
             n == Head(th[c].batch)
  <2>1. Applied(c, i, n)
    BY <1>3, AppliesEffect
  <2> HIDE DEF i, n
  <2>2. n \in Nat /\ sess[i].last_seq < n /\ sess'[i].last_seq = n
    <3>1. n \in Msgs /\ sess[i].last_seq < n
      BY <2>1 DEF Applied
    <3>2. sess'[i].last_seq = n
      BY <2>1, AppliedSession
    <3>3. QED
      BY <3>1, <3>2, Bounds DEF Msgs
  <2>3. CASE s = i
    BY <1>1, <2>2, <2>3
  <2>4. CASE s # i
    BY <1>1, <2>1, <2>4 DEF Applied
  <2>5. QED
    BY <2>3, <2>4
<1>4. QED
  BY <1>1, <1>2, <1>3, SessionStep

(* Who may serve after a step might before, if it did at all.              *)
LEMMA ServesStays ==
  ASSUME TypeInv, FreshInv, GenInv, [Next]_vars,
         NEW c \in Conns, th[c].pc = "serving", th'[c].pc = "serving", sess'[th'[c].s].gen = th'[c].gen
  PROVE  MayServe(c)
<1>1. th'[c].s = th[c].s /\ th'[c].gen = th[c].gen /\ th[c].s \in Sessions
  BY ServingStays
<1> DEFINE s == th[c].s
<1>2. sess'[s].gen = th[c].gen /\ th[c].gen <= sess[s].gen /\ th[c].gen \in Nat /\ sess[s].gen \in Nat
  BY <1>1, GenTypes DEF GenInv
<1>3. CASE \A d \in Conns : ~Snapshot(d)
  <2>1. sess'[s].gen = sess[s].gen
    BY <1>1, <1>3, GenStep
  <2>2. QED
    BY <1>2, <2>1 DEF MayServe
<1>4. ASSUME NEW d \in Conns, Snapshot(d) PROVE MayServe(c)
  <2>1. Snapped(d)
    BY <1>4, SnapshotEffect
  <2>2. CASE th[d].s # s
    BY <1>1, <1>2, <2>1, <2>2 DEF Snapped, MayServe
  <2>3. CASE th[d].s = s
    <3>1. sess'[s].gen = IF th[d].gen > sess[s].gen THEN th[d].gen ELSE sess[s].gen
      BY <2>1, <2>3 DEF Snapped
    <3>2. th[d].gen \in Nat
      BY GenTypes
    <3>3. CASE th[d].gen > sess[s].gen
      BY <1>2, <3>1, <3>2, <3>3
    <3>4. CASE ~(th[d].gen > sess[s].gen)
      BY <1>2, <3>1, <3>4 DEF MayServe
    <3>5. QED
      BY <3>3, <3>4
  <2>4. QED
    BY <2>2, <2>3
<1>5. QED
  BY <1>3, <1>4

(* Only a flush and a session picked up send, and nothing is pending then. *)
LEMMA Lengthens ==
  ASSUME TypeInv, [Next]_vars, NEW c \in Conns, SendsOut(c)
  PROVE  /\ up[c] \in Seq(Seq(Msgs)) /\ up'[c] \in Seq(Seq(Msgs)) /\ up'[c] # up[c]
         /\ Len(up'[c]) = Len(up[c]) + 1
         /\ (WritesPending /\ up'[c] = Append(up[c], cl.pending) /\ cl.pending \in Seq(Msgs))
              \/ (Takes /\ c = dialed /\ up'[c] = Append(up[c], cl'.unacked) /\ cl'.unacked \in Seq(Msgs))
<1>1. cl.pending \in Seq(Msgs) /\ cl'.unacked \in Seq(Msgs)
  <2>1. cl \in ClientRec
    BY NetTypes DEF TypeInv, Typed, ClientTyped
  <2>2. cl' \in ClientRec
    BY TypeStep, TypesNext
  <2>3. QED
    BY <2>1, <2>2 DEF ClientRec
<1>2. up[c] \in Seq(Seq(Msgs))
  BY NetTypes
<1>3. PICK q \in Seq(Msgs) :
        /\ up'[c] = Append(up[c], q)
        /\ (WritesPending /\ q = cl.pending) \/ (Takes /\ c = dialed /\ q = cl'.unacked)
  BY <1>1 DEF SendsOut, Sends
<1>4. Append(up[c], q) \in Seq(Seq(Msgs)) /\ Len(Append(up[c], q)) = Len(up[c]) + 1
  <2> DEFINE p == up[c]
  <2>1. p \in Seq(Seq(Msgs)) /\ q \in Seq(Msgs)
    BY <1>2
  <2> HIDE DEF p
  <2>2. Append(p, q) \in Seq(Seq(Msgs)) /\ Len(Append(p, q)) = Len(p) + 1
    BY <2>1, AppendProperties
  <2>3. QED
    BY <2>2 DEF p
<1>5. Len(up[c]) \in Nat
  BY <1>2, LenProperties
<1>6. up'[c] # up[c]
  BY <1>3, <1>4, <1>5
<1>7. QED
  BY <1>1, <1>2, <1>3, <1>4, <1>6

(* Only _flush and _reconnect send, and nothing is pending afterwards.     *)
LEMMA Senders ==
  ASSUME TypeInv, [Next]_vars, NEW c \in Conns, SendsOut(c)
  PROVE  (FlushWrites \/ Resume) /\ cl'.pending = <<>>
<1>0. /\ up \in [Conns -> Seq(Seq(Msgs))] /\ up[c] \in Seq(Seq(Msgs)) /\ up'[c] # up[c]
      /\ Len(up'[c]) = Len(up[c]) + 1 /\ Len(up[c]) \in Nat
  BY Lengthens, LenProperties DEF TypeInv, Typed, NetTyped
<1>1. ASSUME NEW d \in Conns, Attach(d) \/ NoHello(d) \/ Snapshot(d) \/ Execute(d) PROVE FALSE
  BY <1>0, <1>1 DEF Attach, NoHello, Snapshot, Execute, netVars
<1>2. ASSUME NEW d \in Conns, TakeBatch(d) PROVE FALSE
  <2>1. up[d] # <<>> /\ up' = [up EXCEPT ![d] = Tail(@)]
    BY <1>2 DEF TakeBatch
  <2>2. d = c /\ up'[c] = Tail(up[c])
    BY <1>0, <2>1
  <2>3. Len(Tail(up[c])) < Len(up[c])
    BY <1>0, <2>1, <2>2, HeadTailProperties
  <2>4. QED
    BY <1>0, <2>2, <2>3
<1>3. ASSUME NEW d \in Conns, Leave(d) PROVE FALSE
  <2>1. up'[c] = <<>>
    BY <1>0, <1>3 DEF Leave
  <2>2. QED
    BY <1>0, <2>1, EmptySeq
<1>4. CASE Reap \/ UNCHANGED vars
  BY <1>0, <1>4 DEF Reap, vars, netVars
<1>5. CASE Restart
  <2>1. up'[c] = <<>>
    BY <1>5 DEF Restart
  <2>2. QED
    BY <1>0, <2>1, EmptySeq
<1>6. ASSUME NEW d \in Conns, Cut(d) PROVE FALSE
  <2>1. PICK i \in 0 .. Len(up[d]) : up' = [up EXCEPT ![d] = SubSeq(@, 1, i)]
    BY <1>6 DEF Cut
  <2>2. d = c /\ up'[c] = SubSeq(up[c], 1, i) /\ i \in 0 .. Len(up[c])
    BY <1>0, <2>1
  <2>3. Len(SubSeq(up[c], 1, i)) <= Len(up[c])
    <3> DEFINE q == up[c]
    <3>1. q \in Seq(Seq(Msgs)) /\ i \in 0 .. Len(q)
      BY <1>0, <2>2
    <3> HIDE DEF q
    <3>2. Len(SubSeq(q, 1, i)) = i /\ Len(q) \in Nat
      BY <3>1, PrefixOf, LenProperties
    <3>3. QED
      BY <3>1, <3>2 DEF q
  <2>4. QED
    BY <1>0, <2>2, <2>3
<1>7. CASE Client
  <2>1. FlushWrites \/ Resume
    BY <1>0, <1>7 DEF Client, Call, FlushCall, FlushDials, FlushRefused, FlushFails, HelloFails, HelloLost, HelloFlush,
       Redial, RedialRefused, RehelloFails, GivesUp, ResumeMissing, Lost, OldReply, Receive, ReceiveFails, netVars
  <2>2. CASE FlushWrites
    <3>1. cl \in ClientRec
      BY DEF TypeInv, Typed, ClientTyped
    <3>2. cl' = [cl EXCEPT !.pending = <<>>]
      BY <2>2 DEF FlushWrites
    <3>3. QED
      BY <2>1, <3>1, <3>2 DEF ClientRec
  <2>3. CASE Resume
    BY <2>1, <2>3, ResumeTurn DEF Resumes
  <2>4. QED
    BY <2>1, <2>2, <2>3
<1>8. QED
  BY <1>1, <1>2, <1>3, <1>4, <1>5, <1>6, <1>7 DEF Next, Server

-----------------------------------------------------------------------------
(* What is pending rises, and comes after all that is on its way or        *)
(* applied; the message that is waited for is pending until it is sent.    *)
Unseen(n) ==
  /\ \A s \in Sessions : sess[s].last_seq < n
  /\ \A c \in Conns : \A m : Coming(c, m) => m < n
PendingInv ==
  /\ Rising(cl.pending)
  /\ \A n : In(cl.pending, n) => Unseen(n)
  /\ op.wait # None /\ op.pc \in {"flush", "hello"} => In(cl.pending, cl.seq)

(* What is pending after a step.                                           *)
LEMMA PendingIs ==
  ASSUME TypeInv, [Next]_vars
  PROVE  \/ cl'.pending \in {cl.pending, <<>>}
         \/ Client /\ cl'.seq = cl.seq + 1 /\ cl'.pending = Append(cl.pending, cl.seq + 1)
<1>1. CASE ~Client
  BY <1>1, ClientOnly DEF clientVars
<1>2. CASE Client
  <2>1. CASE Calls
    BY <1>2, <2>1 DEF Calls, Queues, Longer
  <2>2. CASE Receives
    <3>1. PICK q \in ClientRec :
            /\ q.pending = cl.pending /\ q.seq = cl.seq
            /\ cl' = q \/ \E k \in Kinds \union {"ack"} : Queues(q, k)
      BY <2>2 DEF Receives, Shorter
    <3>2. QED
      BY <1>2, <3>1 DEF Queues, Longer
  <2>3. QED
    BY <1>2, <2>1, <2>2, Turns DEF ClientTurns, Writes, Resumes, Keeps
<1>3. QED
  BY <1>1, <1>2

(* What is pending goes on rising.                                         *)
LEMMA PendingRises == ASSUME BaseInv, PendingInv, [Next]_vars PROVE Rising(cl'.pending)
<1>0. TypeInv /\ MadeInv
  BY DEF BaseInv, AttachedInv
<1> DEFINE q == cl.pending
           m == cl.seq
<1>1. CASE cl'.pending = q
  BY <1>1 DEF PendingInv
<1>2. CASE cl'.pending = <<>>
  BY <1>2, NoneOrdered
<1>3. CASE cl'.seq = m + 1 /\ cl'.pending = Append(q, m + 1)
  <2>1. q \in Seq(Msgs) /\ m \in Nat /\ Rising(q)
    BY <1>0, MadeTypes DEF TypeInv, Typed, ClientTyped, ClientRec, PendingInv
  <2>2. m + 1 \in Msgs
    <3>1. cl' \in ClientRec
      BY <1>0, TypeStep, TypesNext
    <3>2. QED
      BY <1>3, <2>1, <3>1, Bounds DEF ClientRec, Msgs
  <2>3. UpTo(q, m)
    BY <1>0 DEF MadeInv, In, UpTo
  <2> HIDE DEF q, m
  <2>4. Rising(Append(q, m + 1))
    BY <2>1, <2>2, <2>3, RisingAppend
  <2>5. QED
    BY <1>3, <2>4
<1>4. QED
  BY <1>0, <1>1, <1>2, <1>3, PendingIs

(* What is pending after a step no session has applied.                    *)
LEMMA PendingUnseen ==
  ASSUME BaseInv, PendingInv, [Next]_vars, NEW n, In(cl'.pending, n)
  PROVE  /\ \A s \in Sessions : sess'[s].last_seq < n
         /\ \A c \in Conns : \A m : Coming(c, m)' => m < n
<1>0. TypeInv /\ FreshInv /\ NetInv /\ MadeInv
  BY DEF BaseInv, AttachedInv
<1>1. \A c \in Conns : \A m : Coming(c, m)' => Coming(c, m)
  <2> SUFFICES ASSUME NEW c \in Conns, NEW m, Coming(c, m)', SentOn(c, m) PROVE FALSE
    BY <1>0, ComingStep
  <2>1. SendsOut(c)
    BY DEF SentOn
  <2>2. cl'.pending = <<>>
    BY <1>0, <2>1, Senders
  <2>3. QED
    BY <2>2 DEF In
<1>2. \A c \in Conns : \A m : Coming(c, m) => m \in Msgs
  BY <1>0, AmongTyped, NetTypes DEF Coming, ThreadRec
<1>3. CASE In(cl.pending, n)
  <2>1. Unseen(n)
    BY <1>3 DEF PendingInv
  <2>2. CASE SessionsKeep
    BY <1>1, <2>1, <2>2 DEF Unseen, SessionsKeep
  <2>3. ASSUME NEW c \in Conns, Applies(c), NEW s \in Sessions PROVE sess'[s].last_seq < n
    <3> DEFINE i == th[c].s
               h == Head(th[c].batch)
    <3>1. Applied(c, i, h)
      BY <1>0, <2>3, AppliesEffect
    <3>2. Coming(c, h)
      <4>1. th[c].batch \in Seq(Msgs) /\ th[c].batch # <<>>
        BY <1>0, <3>1, NetTypes DEF Applied, ThreadRec
      <4> DEFINE b == th[c].batch
      <4>2. b[1] = Head(b) /\ 1 \in DOMAIN b
        BY <4>1, TailOf
      <4>3. QED
        BY <4>2 DEF Coming, Among, In
    <3> HIDE DEF i, h
    <3>3. CASE s = i
      <4>1. sess'[i].last_seq = h
        BY <1>0, <3>1, AppliedSession
      <4>2. QED
        BY <2>1, <3>2, <3>3, <4>1 DEF Unseen
    <3>4. CASE s # i
      BY <2>1, <3>1, <3>4 DEF Applied, Unseen
    <3>5. QED
      BY <3>3, <3>4
  <2>4. QED
    BY <1>0, <1>1, <2>1, <2>2, <2>3, SessionStep DEF Unseen
<1>4. CASE Client /\ n = cl.seq + 1
  <2>1. sess' = sess
    BY <1>0, <1>4, ClientServer
  <2>2. cl.seq \in Nat /\ \A s \in Sessions : sess[s].last_seq \in Nat /\ sess[s].last_seq <= cl.seq
    BY <1>0, MadeTypes DEF MadeInv
  <2>3. \A s \in Sessions : sess'[s].last_seq < n
    BY <1>4, <2>1, <2>2
  <2>4. ASSUME NEW c \in Conns, NEW m, Coming(c, m)' PROVE m < n
    <3>1. m \in Msgs /\ m <= cl.seq
      BY <1>0, <1>1, <1>2, <2>4 DEF MadeInv
    <3>2. QED
      BY <1>4, <2>2, <3>1, Bounds DEF Msgs
  <2>5. QED
    BY <2>3, <2>4
<1>5. In(cl.pending, n) \/ (Client /\ n = cl.seq + 1)
  <2>1. CASE cl'.pending = cl.pending
    BY <2>1
  <2>2. CASE cl'.pending = <<>>
    BY <2>2 DEF In
  <2>3. CASE Client /\ cl'.pending = Append(cl.pending, cl.seq + 1)
    <3> DEFINE q == cl.pending
               m == cl.seq + 1
    <3>1. q \in Seq(Msgs)
      BY <1>0 DEF TypeInv, Typed, ClientTyped, ClientRec
    <3>2. cl'.pending \in Seq(Msgs)
      <4>1. cl' \in ClientRec
        BY <1>0, TypeStep, TypesNext
      <4>2. QED
        BY <4>1 DEF ClientRec
    <3>3. PICK i \in DOMAIN Append(q, m) : Append(q, m)[i] = n
      BY <2>3 DEF In
    <3> HIDE DEF q, m
    <3>4. (i \in DOMAIN q /\ Append(q, m)[i] = q[i]) \/ Append(q, m)[i] = m
      BY <3>1, <3>3, LenProperties
    <3>5. QED
      BY <2>3, <3>3, <3>4 DEF In, q, m
  <2>4. QED
    BY <1>0, <2>1, <2>2, <2>3, PendingIs
<1>6. QED
  BY <1>3, <1>4, <1>5

(* What is pending goes on coming after all the server has seen.           *)
LEMMA PendingStep == BaseInv /\ PendingInv /\ [Next]_vars => PendingInv'
<1> SUFFICES ASSUME BaseInv, PendingInv, [Next]_vars PROVE PendingInv'
  OBVIOUS
<1>0. TypeInv /\ MadeInv /\ OpInv
  BY DEF BaseInv, AttachedInv
<1>1. Rising(cl'.pending)
  BY PendingRises
<1>2. \A n : In(cl'.pending, n) => /\ \A s \in Sessions : sess'[s].last_seq < n
                                   /\ \A c \in Conns : \A m : Coming(c, m)' => m < n
  BY PendingUnseen
<1>3. op'.wait # None /\ op'.pc \in {"flush", "hello"} => In(cl'.pending, cl'.seq)
  <2> SUFFICES ASSUME op'.wait # None, op'.pc \in {"flush", "hello"} PROVE In(cl'.pending, cl'.seq)
    OBVIOUS
  <2>1. ASSUME NEW q \in ClientRec, NEW k, Queues(q, k) PROVE In(cl'.pending, cl'.seq)
    <3>1. q \in ClientRec /\ Longer(q, cl') /\ cl'.seq = q.seq + 1
      BY <2>1 DEF Queues, Longer
    <3>2. In(cl'.pending, q.seq + 1)
      BY <3>1, LongerRecord
    <3>3. QED
      BY <3>1, <3>2
  <2>2. cl \in ClientRec
    BY <1>0 DEF TypeInv, Typed, ClientTyped
  <2>3. CASE ~Client
    BY <1>0, <2>3, ClientOnly DEF clientVars, PendingInv
  <2>4. CASE Calls
    BY <2>1, <2>2, <2>4 DEF Calls
  <2>5. CASE Receives
    BY <2>1, <2>5, IdleTyped DEF Receives
  <2>6. CASE Writes \/ Resumes
    BY <1>0, <2>6, WrittenTyped DEF Writes, Resumes, TypeInv, Typed, ClientTyped
  <2>7. CASE Keeps
    BY <2>7 DEF Keeps, SameRecord, PendingInv
  <2>8. QED
    BY <1>0, <2>3, <2>4, <2>5, <2>6, <2>7, Turns DEF ClientTurns
<1>4. \A n : In(cl'.pending, n) => Unseen(n)'
  BY <1>2 DEF Unseen
<1>5. QED
  BY <1>1, <1>3, <1>4 DEF PendingInv

(* What is on its way to a thread is in order.                             *)
OrderInv == \A c \in Conns : Ordered(th[c].batch, up[c])

(* What is on its way to a thread goes on being in order.                  *)
LEMMA OrderStep == BaseInv /\ PendingInv /\ OrderInv /\ [Next]_vars => OrderInv'
<1> SUFFICES ASSUME BaseInv, PendingInv, OrderInv, [Next]_vars, NEW c \in Conns
             PROVE  Ordered(th'[c].batch, up'[c])
  BY DEF OrderInv
<1>0. TypeInv /\ FreshInv /\ NetInv /\ MadeInv /\ BufferInv
  BY DEF BaseInv, AttachedInv
<1> DEFINE b == th[c].batch
           q == up[c]
<1>1. b \in Seq(Msgs) /\ q \in Seq(Seq(Msgs)) /\ Ordered(b, q)
  BY <1>0, NetTypes DEF OrderInv, ThreadRec
<1>2. CASE Holds(c)
  BY <1>1, <1>2 DEF Holds
<1>3. CASE Works(c)
  <2>1. b # <<>> /\ th'[c].batch = Tail(b) /\ up'[c] = q
    BY <1>3 DEF Works
  <2> HIDE DEF b, q
  <2>2. QED
    BY <1>1, <2>1, TailOrdered
<1>4. CASE TakesIn(c)
  <2>1. b = <<>> /\ q # <<>> /\ th'[c].batch = Head(q) /\ up'[c] = Tail(q)
    BY <1>4 DEF TakesIn
  <2> HIDE DEF b, q
  <2>2. QED
    BY <1>1, <2>1, NextOrdered
<1>5. CASE Ends(c)
  BY <1>5, NoneOrdered DEF Ends
<1>6. CASE IsCut(c)
  <2>1. PICK k \in 0 .. Len(q) : up'[c] = SubSeq(q, 1, k) /\ th'[c].batch = b
    BY <1>6 DEF IsCut
  <2> HIDE DEF b, q
  <2>2. QED
    BY <1>1, <2>1, PrefixOrdered
<1>7. CASE SendsOut(c)
  <2>1. th'[c].batch = b
    BY <1>7 DEF SendsOut, Sends
  <2>2. CASE WritesPending /\ up'[c] = Append(q, cl.pending) /\ cl.pending \in Seq(Msgs)
    <3> DEFINE a == cl.pending
    <3>1. a \in Seq(Msgs) /\ Rising(a) /\ up'[c] = Append(q, a) /\ \A m, n : Among(b, q, m) /\ In(a, n) => m < n
      BY <2>2 DEF PendingInv, Unseen, Coming
    <3> HIDE DEF a, b, q
    <3>2. QED
      BY <1>1, <2>1, <3>1, SentOrdered
  <2>3. CASE Takes /\ c = dialed /\ up'[c] = Append(q, cl'.unacked) /\ cl'.unacked \in Seq(Msgs)
    <3>1. InHello
      BY <2>3 DEF Takes
    <3>2. b = <<>> /\ q = <<>>
      BY <1>0, <2>3, <3>1 DEF NetInv, ConnInv
    <3> DEFINE a == cl'.unacked
    <3>3. Rising(a)
      <4>1. BufferInv'
        BY <1>0, BufferStep
      <4>2. Buffer(cl')
        BY <4>1 DEF BufferInv, Buffer
      <4>3. cl' \in ClientRec
        BY <1>0, TypeStep, TypesNext
      <4> DEFINE p == cl'
      <4> SUFFICES Rising(p.unacked)
        OBVIOUS
      <4>4. p \in ClientRec /\ Buffer(p)
        BY <4>2, <4>3
      <4> HIDE DEF p
      <4>5. CASE p.replay
        <5>1. p.seq \in Nat /\ Len(p.unacked) \in Nat /\ DOMAIN p.unacked = 1 .. Len(p.unacked)
          BY <4>4, Bounds, LenProperties DEF ClientRec
        <5>2. \A i \in DOMAIN p.unacked : p.unacked[i] = (p.seq + i) - Len(p.unacked)
          BY <4>4, <4>5 DEF Buffer
        <5>3. QED
          BY <5>1, <5>2 DEF Rising
      <4>6. CASE ~p.replay
        BY <4>4, <4>6, NoneOrdered DEF Buffer
      <4>7. QED
        BY <4>5, <4>6
    <3>4. \A m : ~Among(b, q, m)
      BY <3>2 DEF Among, In
    <3>5. a \in Seq(Msgs) /\ up'[c] = Append(q, a)
      BY <2>3
    <3> HIDE DEF a, b, q
    <3>6. QED
      BY <1>1, <2>1, <3>3, <3>4, <3>5, SentOrdered
  <2>4. QED
    BY <1>0, <1>7, <2>2, <2>3, Lengthens
<1>8. QED
  BY <1>0, <1>2, <1>3, <1>4, <1>5, <1>6, <1>7, LoadStep DEF Load

-----------------------------------------------------------------------------
(* What a connection's first answer says the session applied it did.       *)
HelloInv ==
  \A c \in Conns : th[c].pc = "serving" =>
    \A i \in DOMAIN down[c] : down[c][i].type = "hello" => down[c][i].n <= sess[th[c].s].last_seq

(* What the answer to a hello says the session applied stays applied.      *)
LEMMA HelloStep == BaseInv /\ HelloInv /\ [Next]_vars => HelloInv'
<1> SUFFICES ASSUME BaseInv, HelloInv, [Next]_vars, NEW c \in Conns, th'[c].pc = "serving",
                    NEW i \in DOMAIN down'[c], down'[c][i].type = "hello"
             PROVE  down'[c][i].n <= sess'[th'[c].s].last_seq
  BY DEF HelloInv
<1>0. TypeInv /\ FreshInv /\ NetInv
  BY DEF BaseInv, AttachedInv
<1> DEFINE s == th[c].s
<1>1. (th[c].pc = "serving" \/ Snapshot(c)) /\ th'[c].s = s /\ s \in Sessions
  BY <1>0, ServingStays
<1>2. sess[s].last_seq \in Nat /\ sess'[s].last_seq \in Nat /\ sess'[s].last_seq >= sess[s].last_seq
  BY <1>0, <1>1, LastRises
<1>3. \A j \in DOMAIN down[c] : down[c][j].type = "hello" =>
         /\ down[c][j].n <= sess[s].last_seq /\ down[c][j].n \in Nat
  <2> SUFFICES ASSUME NEW j \in DOMAIN down[c], down[c][j].type = "hello"
               PROVE  down[c][j].n <= sess[s].last_seq /\ down[c][j].n \in Nat
    OBVIOUS
  <2>1. down[c][j].n \in Nat
    BY <1>0, MadeTypes
  <2>2. CASE th[c].pc = "serving"
    BY <2>1, <2>2 DEF HelloInv
  <2>3. CASE Snapshot(c)
    BY <1>0, <2>3 DEF Snapshot, NetInv, ConnInv
  <2>4. QED
    BY <1>1, <2>1, <2>2, <2>3
<1> HIDE DEF s
<1>4. CASE \E j \in DOMAIN down[c] : down'[c][i] = down[c][j]
  <2>1. PICK j \in DOMAIN down[c] : down'[c][i] = down[c][j]
    BY <1>4
  <2>2. down'[c][i].n <= sess[s].last_seq /\ down'[c][i].n \in Nat
    BY <1>3, <2>1
  <2> DEFINE k == down'[c][i].n
             l == sess[s].last_seq
             m == sess'[s].last_seq
  <2>3. k \in Nat /\ l \in Nat /\ m \in Nat /\ k <= l /\ l <= m
    BY <1>2, <2>2
  <2> HIDE DEF k, l, m
  <2>4. k <= m
    BY ONLY <2>3
  <2>5. QED
    BY <1>1, <2>4 DEF k, m
<1>5. CASE From(down'[c], down[c])
  BY <1>4, <1>5 DEF From
<1>6. CASE Snapshot(c) /\ Snapped(c) /\ Greets(c) /\ down[c] = <<>>
  <2>1. CASE link[c] = "open"
    <3>1. /\ down'[c][1] = Hello(th[c].resumed, sess[s].last_seq)
          /\ \/ Len(down'[c]) = 1
             \/ Len(down'[c]) = 2 /\ down'[c][2] = sess[s].reply
      BY <1>6, <2>1 DEF Greets, s
    <3>2. sess[s].reply.type = "reply"
      BY <1>0, <1>1 DEF NetInv
    <3>3. down'[c] \in Seq(ReplyRec)
      <4>1. TypeInv'
        BY <1>0, TypeStep
      <4>2. QED
        BY <4>1, TypesNext
    <3>4. i = 1
      BY <3>1, <3>2, <3>3, LenProperties
    <3>5. down'[c][i].n = sess[s].last_seq
      BY <3>1, <3>4 DEF Hello
    <3>6. QED
      BY <1>1, <1>2, <3>5
  <2>2. CASE link[c] # "open"
    BY <1>4, <1>6, <2>2 DEF Greets
  <2>3. QED
    BY <2>1, <2>2
<1>7. ASSUME NEW k, NEW n, Applied(c, k, n), Answers(c, k, n)
      PROVE  down'[c][i].n <= sess'[th'[c].s].last_seq
  <2>1. CASE link[c] = "open" /\ Waits(issued[n])
    <3> DEFINE q == down[c]
               r == sess'[k].reply
    <3>1. q \in Seq(ReplyRec) /\ down'[c] = Append(q, r)
      BY <1>0, <1>7, <2>1, NetTypes DEF Answers
    <3>2. k \in Sessions
      BY <1>7 DEF Applied
    <3>3. r \in ReplyRec
      BY <1>0, <3>2, TypeStep, TypesNext
    <3>4. r.type = "reply"
      <4>1. NetInv'
        BY <1>0, NetStep
      <4>2. QED
        BY <3>2, <4>1 DEF NetInv
    <3>5. i \in DOMAIN Append(q, r) /\ Append(q, r)[i].type = "hello"
      BY <3>1
    <3> HIDE DEF q, r
    <3>6. i \in DOMAIN q /\ Append(q, r)[i] = q[i]
      BY <3>1, <3>3, <3>4, <3>5, AppendProperties, LenProperties
    <3>7. QED
      BY <1>4, <3>1, <3>6 DEF q
  <2>2. CASE ~(link[c] = "open" /\ Waits(issued[n]))
    BY <1>4, <1>7, <2>2 DEF Answers
  <2>3. QED
    BY <2>1, <2>2
<1>8. QED
  BY <1>0, <1>5, <1>6, <1>7, DownStep

-----------------------------------------------------------------------------
(* Nothing is skipped: a session has applied all up to its last message;   *)
(* what comes before a message on its way is applied or on its way too;    *)
(* and what is made is applied, on its way or pending, as long as the      *)
(* connection is.                                                          *)
Dense(s) == DOMAIN ran[s] = 1 .. sess[s].last_seq /\ \A i \in DOMAIN ran[s] : ran[s][i] = i
There(c, m) == m <= sess[th[c].s].last_seq \/ Coming(c, m)
Unbroken(c) == \A n : Coming(c, n) => \A m \in 1 .. n : There(c, m)
AllSent ==
  cl.sock # None /\ link[cl.sock] = "open" =>
    \A m \in 1 .. cl.seq : There(cl.sock, m) \/ In(cl.pending, m)
Holding ==
  /\ ~cl.had => \A m \in 1 .. cl.seq : In(cl.pending, m)
  /\ cl.had /\ cl.sock = None => op.pc \in {"dial", "retry", "rehello"}
Faultless == ~past.gave_up /\ ~past.lost
SkipInv ==
  Faultless =>
    /\ \A s \in Sessions : Dense(s)
    /\ \A c \in Conns : th[c].pc = "serving" => Unbroken(c)
    /\ AllSent
    /\ Holding

(* What was raised stays in the history.                                   *)
LEMMA FaultsStay == ASSUME TypeInv, [Next]_vars, Faultless' PROVE Faultless
<1>0. past \in [gave_up : BOOLEAN, lost : BOOLEAN, removed : BOOLEAN, overflowed : BOOLEAN] /\ HistoryTyped
  BY DEF TypeInv, Typed, HistoryTyped
<1>1. CASE ~Client
  BY <1>1, ClientOnly DEF Faultless
<1>2. ASSUME NEW q, NEW k, Enqueue(q, k) PROVE Faultless
  BY <1>0, <1>2, OverflowTyped DEF Faultless
<1>3. ASSUME NEW what \in {"gave_up", "lost"}, Raise(what) PROVE FALSE
  BY <1>0, <1>3 DEF Raise, Faultless
<1>4. CASE Lost \/ GivesUp
  BY <1>3, <1>4 DEF Lost, GivesUp
<1>5. CASE past' = past
  BY <1>5 DEF Faultless
<1>6. CASE Client
  <2>1. ASSUME NEW k \in Kinds, Call(k) PROVE Faultless
    BY <1>2, <2>1 DEF Call
  <2>2. CASE Receive
    BY <1>2, <1>5, <2>2 DEF Receive
  <2>3. QED
    BY <1>4, <1>5, <1>6, <2>1, <2>2 DEF Client, FlushCall, FlushDials, FlushRefused, FlushWrites, FlushFails, HelloFails,
       HelloLost, HelloFlush, Redial, RedialRefused, RehelloFails, ResumeMissing, Resume, OldReply, ReceiveFails,
       Unreached, history
<1>7. QED
  BY <1>1, <1>6

(* The message that is executed is the next one.                           *)
LEMMA NextOne ==
  ASSUME BaseInv, OrderInv, SkipInv, Faultless, NEW c \in Conns, NEW i, NEW n, Applied(c, i, n)
  PROVE  n = sess[i].last_seq + 1
<1>0. TypeInv
  BY DEF BaseInv, AttachedInv
<1> DEFINE b == th[c].batch
           q == up[c]
           l == sess[i].last_seq
<1>1. b \in Seq(Msgs) /\ q \in Seq(Seq(Msgs)) /\ Ordered(b, q)
  BY <1>0, NetTypes DEF OrderInv, ThreadRec
<1>2. b # <<>> /\ n = Head(b) /\ i = th[c].s /\ l < n /\ n \in Nat /\ l \in Nat /\ i \in Sessions
  <2>1. b # <<>> /\ n = Head(b) /\ i = th[c].s /\ l < n /\ n \in Msgs /\ i \in Sessions
    BY DEF Applied
  <2>2. l \in Nat
    BY <1>0, <2>1, MadeTypes
  <2>3. QED
    BY <2>1, <2>2, Bounds DEF Msgs
<1>3. Among(b, q, n)
  <2> HIDE DEF b
  <2>1. b[1] = Head(b) /\ 1 \in DOMAIN b
    BY <1>1, <1>2, TailOf
  <2>2. QED
    BY <1>2, <2>1 DEF Among, In
<1>4. l + 1 \in 1 .. n
  <2> HIDE DEF l
  <2>1. QED
    BY <1>2
<1>5. There(c, l + 1)
  <2>1. Unbroken(c)
    BY DEF SkipInv, Applied
  <2>2. Coming(c, n)
    BY <1>3 DEF Coming
  <2>3. QED
    BY <1>4, <2>1, <2>2 DEF Unbroken
<1>6. Among(b, q, l + 1)
  <2>1. ~(l + 1 <= l)
    <3> HIDE DEF l
    <3>1. QED
      BY <1>2
  <2>2. QED
    BY <1>2, <1>5, <2>1 DEF There, Coming
<1> HIDE DEF b, q, l
<1>7. l + 1 = n \/ Among(Tail(b), q, l + 1)
  BY <1>1, <1>2, <1>6, InSeqs
<1>8. Among(Tail(b), q, l + 1) => n < l + 1
  BY <1>1, <1>2, TailOrdered
<1>9. QED
  BY <1>2, <1>4, <1>7, <1>8 DEF l

(* A session goes on having applied all up to its last message.            *)
LEMMA DenseStep ==
  ASSUME BaseInv, OrderInv, SkipInv, [Next]_vars, Faultless', NEW s \in Sessions
  PROVE  DOMAIN ran'[s] = 1 .. sess'[s].last_seq /\ \A i \in DOMAIN ran'[s] : ran'[s][i] = i
<1>0. TypeInv
  BY DEF BaseInv, AttachedInv
<1>1. Faultless
  BY <1>0, FaultsStay
<1>2. Dense(s)
  BY <1>1 DEF SkipInv
<1>3. CASE ran'[s] = ran[s] /\ sess'[s].last_seq = sess[s].last_seq
  BY <1>2, <1>3 DEF Dense
<1>4. CASE SessionsKeep
  BY <1>3, <1>4 DEF SessionsKeep
<1>5. ASSUME NEW c \in Conns, NEW i, NEW n, Applied(c, i, n)
      PROVE  DOMAIN ran'[s] = 1 .. sess'[s].last_seq /\ \A j \in DOMAIN ran'[s] : ran'[s][j] = j
  <2>1. CASE s # i
    BY <1>3, <1>5, <2>1 DEF Applied
  <2>2. CASE s = i
    <3> DEFINE q == ran[s]
               l == sess[s].last_seq
    <3>1. n = l + 1 /\ sess'[s].last_seq = n /\ ran'[s] = Append(q, n) /\ n \in Msgs
      BY <1>0, <1>1, <1>5, <2>2, NextOne, AppliedSession DEF Applied
    <3>2. q \in Seq(Msgs) /\ l \in Nat /\ DOMAIN q = 1 .. l /\ \A j \in DOMAIN q : q[j] = j
      BY <1>0, <1>2, MadeTypes DEF Dense, TypeInv, Typed, ServerTyped
    <3> HIDE DEF q, l
    <3>3. Len(q) = l
      BY <3>2, LenProperties
    <3>4. DOMAIN Append(q, n) = 1 .. n /\ \A j \in DOMAIN Append(q, n) : Append(q, n)[j] = j
      BY <3>1, <3>2, <3>3, AppendProperties, LenProperties
    <3>5. QED
      BY <3>1, <3>4
  <2>3. QED
    BY <2>1, <2>2
<1>6. QED
  BY <1>0, <1>4, <1>5, SessionStep, AppliesEffect

(* What is there stays, or is applied; or the connection breaks.           *)
ThereNext(c, m) == m <= sess'[th'[c].s].last_seq \/ Coming(c, m)'

(* The message a thread executes is applied afterwards.                    *)
LEMMA WorkedOff ==
  ASSUME TypeInv, NEW c \in Conns, Execute(c)
  PROVE  Head(th[c].batch) <= sess'[th[c].s].last_seq
<1> DEFINE i == th[c].s
           n == Head(th[c].batch)
<1>1. CASE AlreadyApplied(sess[i], n)
  <2>1. sess' = sess
    BY <1>1 DEF Execute
  <2>2. QED
    BY <1>1, <2>1 DEF AlreadyApplied
<1>2. CASE ~AlreadyApplied(sess[i], n)
  <2>1. Applied(c, i, n)
    BY <1>2, AppliesEffect DEF Applies
  <2> HIDE DEF i, n
  <2>2. sess'[i].last_seq = n
    BY <2>1, AppliedSession
  <2>3. n \in Nat
    BY <2>1, Bounds DEF Applied, Msgs
  <2>4. QED
    BY <2>2, <2>3 DEF i, n
<1>3. QED
  BY <1>1, <1>2

(* What a session applied, or will, it goes on having, while the           *)
(* connection lasts.                                                       *)
LEMMA ThereStays ==
  ASSUME TypeInv, FreshInv, NetInv, [Next]_vars, NEW c \in Conns, th'[c].pc = "serving", NEW m \in Nat, There(c, m)
  PROVE  ThereNext(c, m) \/ (IsCut(c) /\ Coming(c, m))
<1>1. th'[c].s = th[c].s /\ th[c].s \in Sessions
  BY ServingStays
<1> DEFINE l == sess[th[c].s].last_seq
           k == sess'[th[c].s].last_seq
<1>2. l \in Nat /\ k \in Nat /\ k >= l
  BY <1>1, LastRises
<1> HIDE DEF l, k
<1>3. CASE m <= l
  <2>1. m <= k
    BY <1>2, <1>3
  <2>2. QED
    BY <1>1, <2>1 DEF ThereNext, k
<1>4. CASE Coming(c, m)
  <2>1. CASE Works(c) /\ m = Head(th[c].batch)
    BY <1>1, <2>1, WorkedOff DEF Works, ThereNext
  <2>2. ~Ends(c)
    BY DEF Ends
  <2>3. QED
    BY <1>4, <2>1, <2>2, ComingStays DEF ThereNext
<1>5. QED
  BY <1>3, <1>4 DEF There, l

(* A link that is open was, unless it is dialed now.                       *)
LEMMA OpenWas ==
  ASSUME TypeInv, [Next]_vars, NEW c \in Conns, link'[c] = "open"
  PROVE  link[c] = "open" \/ (Dials /\ c = dialed')
<1>0. link \in [Conns -> {"none", "open", "cut", "closed"}]
  BY DEF TypeInv, Typed, NetTyped
<1>1. CASE link'[c] = link[c]
  BY <1>1
<1>2. CASE Client
  <2>1. CASE Dials
    <3>1. link' = [link EXCEPT ![dialed'] = "open"]
      BY <2>1 DEF Dials, Dial
    <3>2. QED
      BY <1>0, <1>1, <2>1, <3>1
  <2>2. ASSUME NEW d \in Conns, Drops(d) PROVE link[c] = "open"
    BY <1>0, <2>2 DEF Drops, Closed
  <2>3. QED
    BY <1>1, <1>2, <2>1, <2>2, Moves DEF ClientMoves, Takes, WritesPending, Reads, Elsewhere, netVars
<1>3. ASSUME NEW d \in Conns, Attach(d) \/ NoHello(d) \/ TakeBatch(d) \/ Snapshot(d) \/ Execute(d) PROVE link[c] = "open"
  BY <1>1, <1>3 DEF Attach, NoHello, TakeBatch, Snapshot, Execute, netVars
<1>4. ASSUME NEW d \in Conns, Leave(d) PROVE link[c] = "open"
  BY <1>0, <1>4 DEF Leave
<1>5. ASSUME NEW d \in Conns, Cut(d) PROVE link[c] = "open"
  BY <1>0, <1>5 DEF Cut
<1>6. CASE Reap \/ UNCHANGED vars
  BY <1>1, <1>6 DEF Reap, vars, netVars
<1>7. CASE Restart
  BY <1>0, <1>7 DEF Restart
<1>8. QED
  BY <1>2, <1>3, <1>4, <1>5, <1>6, <1>7 DEF Next, Server

(* What is sent is on its way.                                             *)
LEMMA SentComes ==
  ASSUME TypeInv, [Next]_vars, NEW c \in Conns, SendsOut(c), NEW m
  PROVE  (WritesPending /\ In(cl.pending, m)) \/ (Takes /\ In(cl'.unacked, m)) => Coming(c, m)'
<1>1. /\ up[c] \in Seq(Seq(Msgs))
      /\ (WritesPending /\ up'[c] = Append(up[c], cl.pending) /\ cl.pending \in Seq(Msgs))
           \/ (Takes /\ c = dialed /\ up'[c] = Append(up[c], cl'.unacked) /\ cl'.unacked \in Seq(Msgs))
  BY Lengthens
<1>2. th[c].batch \in Seq(Msgs) /\ th'[c].batch = th[c].batch
  BY NetTypes DEF ThreadRec, SendsOut, Sends
<1>3. ASSUME NEW a \in Seq(Msgs), up'[c] = Append(up[c], a), In(a, m) PROVE Coming(c, m)'
  <2> DEFINE q == up[c]
             b == th[c].batch
  <2>1. q \in Seq(Seq(Msgs)) /\ b \in Seq(Msgs)
    BY <1>1, <1>2
  <2> HIDE DEF q, b
  <2>2. Among(b, Append(q, a), m)
    BY <1>3, <2>1, InSeqs
  <2>3. QED
    BY <1>2, <1>3, <2>2 DEF Coming, q, b
<1>4. ~(WritesPending /\ Takes)
  <2>1. None \notin Conns
    BY Bounds DEF None, Conns
  <2>2. QED
    BY <2>1 DEF WritesPending, Takes
<1>5. QED
  BY <1>1, <1>3, <1>4

(* What is past n is left in the replay buffer.                            *)
LEMMA RestHas ==
  ASSUME NEW q \in Seq(Msgs), NEW n \in Nat, NEW m, In(q, m), m > n
  PROVE  In(Rest(q, n), m)
<1>1. PICK i \in DOMAIN q : q[i] = m
  BY DEF In
<1>2. q \in Seq(Msgs) /\ Msgs \subseteq Nat /\ DOMAIN q = 1 .. Len(q) /\ Len(q) \in Nat /\ m \in Nat
  BY <1>1, Bounds, LenProperties, ElementOfSeq DEF Msgs
<1>3. ~(m <= n)
  BY <1>2
<1>4. PICK first \in DOMAIN q :
        Rest(q, n) = SubSeq(q, first, Len(q)) /\ \A j \in DOMAIN q : j < first => q[j] <= n
  BY <1>1, <1>2, <1>3, RestIsSuffix
<1>5. ~(i < first)
  BY <1>1, <1>3, <1>4
<1> DEFINE r == SubSeq(q, first, Len(q))
<1>6. DOMAIN r = 1 .. (Len(q) - first + 1) /\ \A j \in DOMAIN r : r[j] = q[first + j - 1]
  BY <1>2, <1>4, SubSeqProperties, LenProperties
<1>7. i - first + 1 \in 1 .. (Len(q) - first + 1) /\ first + (i - first + 1) - 1 = i
  BY <1>1, <1>2, <1>4, <1>5
<1> HIDE DEF r
<1>8. r[i - first + 1] = m
  BY <1>1, <1>6, <1>7
<1>9. QED
  BY <1>4, <1>6, <1>7, <1>8 DEF In, r

(* A session that is picked up: what it did not apply is sent again.       *)
LEMMA ResumedAll ==
  ASSUME BaseInv, HelloInv, Resumes, link[dialed] = "open", NEW m \in 1 .. cl.seq
  PROVE  /\ th[dialed].pc = "serving" /\ th[dialed].s \in Sessions
         /\ m <= sess[th[dialed].s].last_seq \/ In(cl'.unacked, m)
<1>0. TypeInv /\ NetInv /\ BufferInv
  BY DEF BaseInv, AttachedInv
<1> DEFINE h == Head(down[dialed])
<1>1. /\ op.pc = "rehello" /\ dialed \in Conns /\ down[dialed] # <<>> /\ ~Missing(h.n) /\ h.n \in 0 .. MaxSeq
      /\ cl'.unacked = Rest(cl.unacked, h.n)
  BY DEF Resumes, Welcome, Answered
<1>2. InHello /\ cl.sock = None /\ dialed # None
  BY <1>0, <1>1, NetTypes DEF InHello, None
<1>3. h = down[dialed][1] /\ 1 \in DOMAIN down[dialed]
  <2> DEFINE q == down[dialed]
  <2>1. q \in Seq(ReplyRec) /\ q # <<>>
    BY <1>0, <1>1, NetTypes
  <2> HIDE DEF q
  <2>2. q[1] = Head(q) /\ 1 \in DOMAIN q
    BY <2>1, TailOf
  <2>3. QED
    BY <2>2 DEF q
<1>4. th[dialed].pc = "serving" /\ h.type = "hello"
  <2>1. ConnInv(dialed)
    BY <1>0, <1>1 DEF NetInv
  <2>2. h.type = "hello"
    BY <1>2, <1>3, <2>1 DEF ConnInv
  <2>3. th[dialed].pc \notin {"none", "accepted", "attached", "ended"}
    BY <1>1, <2>1 DEF ConnInv
  <2>4. th[dialed] \in ThreadRec
    BY <1>0, <1>1, NetTypes
  <2>5. QED
    BY <2>2, <2>3, <2>4 DEF ThreadRec
<1>5. th[dialed].s \in Sessions
  BY <1>0, <1>1, <1>4, GenTypes DEF Active
<1> DEFINE l == sess[th[dialed].s].last_seq
<1>6. l \in Nat /\ h.n <= l
  BY <1>0, <1>1, <1>3, <1>4, <1>5, MadeTypes DEF HelloInv
<1>7. h.n \in Nat /\ m \in Nat /\ m >= 1 /\ m <= cl.seq /\ cl.seq \in Nat
  BY <1>0, <1>1, MadeTypes, Bounds
<1> HIDE DEF h, l
<1>8. CASE m <= h.n
  <2>1. m <= l
    BY <1>6, <1>7, <1>8
  <2>2. QED
    BY <1>4, <1>5, <2>1 DEF l
<1>9. CASE m > h.n
  <2> DEFINE q == cl.unacked
             n == h.n
             seq == cl.seq
  <2>1. n < seq
    BY <1>7, <1>9
  <2>2. cl.replay /\ q # <<>> /\ ~(Head(q) > n + 1)
    BY <1>1, <2>1 DEF Missing
  <2>3. q \in Seq(Msgs) /\ seq \in Nat /\ n \in Nat /\ \A i \in DOMAIN q : q[i] = (seq + i) - Len(q)
    BY <1>0, <1>7, <2>2 DEF BufferInv, Buffer, TypeInv, Typed, ClientTyped, ClientRec
  <2>4. m \in Nat /\ m <= seq /\ m > n
    BY <1>7, <1>9
  <2>5. In(q, m)
    <3> HIDE DEF q, n, seq
    <3>1. Len(q) \in Nat /\ DOMAIN q = 1 .. Len(q) /\ 1 \in DOMAIN q /\ Head(q) = q[1] /\ Len(q) >= 1
      BY <2>2, <2>3, TailOf
    <3>2. Head(q) = (seq + 1) - Len(q)
      BY <2>3, <3>1
    <3> DEFINE k == Len(q)
    <3>3. (seq + 1) - k <= n + 1 /\ k \in Nat
      BY <2>2, <2>3, <3>1, <3>2
    <3> HIDE DEF k
    <3>4. m - (seq - k) \in 1 .. k /\ (seq + (m - (seq - k))) - k = m
      BY <2>3, <2>4, <3>3
    <3>5. q[m - (seq - k)] = m
      BY <2>3, <3>1, <3>4 DEF k
    <3>6. QED
      BY <3>1, <3>4, <3>5 DEF In, k
  <2> HIDE DEF q, n, seq
  <2>6. In(Rest(q, n), m)
    BY <2>3, <2>4, <2>5, RestHas
  <2>7. QED
    BY <1>1, <1>4, <1>5, <2>6 DEF q, n, h
<1>10. QED
  BY <1>7, <1>8, <1>9

(* What comes before a message on its way goes on being applied or on its  *)
(* way.                                                                    *)
LEMMA UnbrokenStep ==
  ASSUME BaseInv, HelloInv, OrderInv, PendingInv, SkipInv, [Next]_vars, Faultless', NEW c \in Conns,
         th'[c].pc = "serving", NEW n, Coming(c, n)', NEW m \in 1 .. n
  PROVE  ThereNext(c, m)
<1>0. TypeInv /\ FreshInv /\ NetInv /\ MadeInv /\ BufferInv
  BY DEF BaseInv, AttachedInv
<1>1. Faultless /\ (th[c].pc = "serving" \/ Snapshot(c))
  BY <1>0, FaultsStay, ServingStays
<1>2. n \in Msgs /\ n \in Nat /\ m \in Nat /\ m >= 1 /\ m <= n
  <2>1. n \in Msgs
    <3>1. th'[c].batch \in Seq(Msgs) /\ up'[c] \in Seq(Seq(Msgs))
      BY <1>0, TypeStep, TypesNext
    <3>2. QED
      BY <3>1, AmongTyped DEF Coming
  <2>2. QED
    BY <2>1, Bounds DEF Msgs
<1>3. th[c].batch \in Seq(Msgs) /\ up[c] \in Seq(Seq(Msgs)) /\ Ordered(th[c].batch, up[c])
  BY <1>0, NetTypes DEF ThreadRec, OrderInv
<1>4. CASE Coming(c, n)
  <2>1. th[c].pc = "serving"
    <3>1. CASE Snapshot(c)
      <4>1. th[c].pc = "attached"
        BY <3>1 DEF Snapshot
      <4>2. th[c].batch = <<>> /\ up[c] = <<>>
        BY <1>0, <4>1 DEF FreshInv, NetInv, ConnInv
      <4>3. QED
        BY <1>4, <4>2 DEF Coming, Among, In
    <3>2. QED
      BY <1>1, <3>1
  <2>2. There(c, m)
    BY <1>1, <1>4, <2>1 DEF SkipInv, Unbroken
  <2>3. CASE ThereNext(c, m)
    BY <2>3
  <2>4. CASE IsCut(c) /\ Coming(c, m)
    <3>1. PICK k \in 0 .. Len(up[c]) : up'[c] = SubSeq(up[c], 1, k) /\ th'[c].batch = th[c].batch
      BY <2>4 DEF IsCut
    <3>2. CASE m = n
      BY <3>2 DEF ThereNext
    <3>3. CASE m # n
      <4> DEFINE b == th[c].batch
                 q == up[c]
      <4>1. m < n
        BY <1>2, <3>3
      <4>2. Among(b, q, m) /\ Among(b, SubSeq(q, 1, k), n) /\ k \in 0 .. Len(q)
        BY <2>4, <3>1 DEF Coming
      <4>3. b \in Seq(Msgs) /\ q \in Seq(Seq(Msgs)) /\ Ordered(b, q)
        BY <1>3
      <4> HIDE DEF b, q
      <4>4. Among(b, SubSeq(q, 1, k), m)
        BY <4>1, <4>2, <4>3, PrefixOrdered
      <4>5. Coming(c, m)'
        BY <3>1, <4>4 DEF Coming, b, q
      <4>6. QED
        BY <4>5 DEF ThereNext
    <3>4. QED
      BY <3>2, <3>3
  <2>5. QED
    BY <1>0, <1>2, <2>2, <2>3, <2>4, ThereStays
<1>5. CASE SentOn(c, n)
  <2>1. SendsOut(c) /\ link[c] = "open"
    BY <1>5 DEF SentOn
  <2>2. ~IsCut(c)
    BY <2>1 DEF IsCut, SendsOut, WritesPending, Takes
  <2>3. There(c, m) => ThereNext(c, m)
    BY <1>0, <1>2, <2>2, ThereStays
  <2>4. CASE WritesPending /\ c = cl.sock /\ In(cl.pending, n)
    <3>1. n <= cl.seq /\ cl.seq \in Nat
      BY <1>0, <2>4, MadeTypes DEF MadeInv
    <3>2. m \in 1 .. cl.seq
      BY <1>2, <3>1
    <3>3. There(c, m) \/ In(cl.pending, m)
      <4>1. AllSent
        BY <1>1 DEF SkipInv
      <4>2. cl.sock # None
        BY <1>0, <2>4, NetTypes DEF None
      <4>3. QED
        BY <2>1, <2>4, <3>2, <4>1, <4>2 DEF AllSent
    <3>4. In(cl.pending, m) => Coming(c, m)'
      BY <1>0, <2>1, <2>4, SentComes
    <3>5. QED
      BY <2>3, <3>3, <3>4 DEF ThereNext
  <2>5. CASE Takes /\ c = dialed /\ In(cl'.unacked, n)
    <3>1. Resumes
      <4>1. FlushWrites \/ Resume
        BY <1>0, <2>1, Senders
      <4>2. ~FlushWrites
        BY <2>5 DEF FlushWrites, Takes, InHello
      <4>3. QED
        BY <1>0, <4>1, <4>2, ResumeTurn
    <3>2. n <= cl.seq
      <4> DEFINE p == cl'
      <4>1. p \in ClientRec
        BY <1>0, TypeStep, TypesNext
      <4>2. Buffer(p)
        <5>1. BufferInv'
          BY <1>0, BufferStep
        <5>2. QED
          BY <5>1 DEF BufferInv, Buffer
      <4>3. In(p.unacked, n) /\ p.seq = cl.seq
        BY <2>5, <3>1 DEF Resumes
      <4> HIDE DEF p
      <4>4. QED
        BY <4>1, <4>2, <4>3, UnackedMade
    <3>3. m \in 1 .. cl.seq
      BY <1>0, <1>2, <3>2, MadeTypes
    <3>4. There(c, m) \/ In(cl'.unacked, m)
      BY <2>1, <2>5, <3>1, <3>3, ResumedAll DEF There
    <3>5. In(cl'.unacked, m) => Coming(c, m)'
      BY <1>0, <2>1, <2>5, SentComes
    <3>6. QED
      BY <2>3, <3>4, <3>5 DEF ThereNext
  <2>6. QED
    BY <1>5, <2>4, <2>5 DEF SentOn
<1>6. QED
  BY <1>0, <1>4, <1>5, ComingStep

(* What is made stays pending until it is sent.                            *)
LEMMA QueuedPending ==
  ASSUME NEW q \in ClientRec, NEW k, Queues(q, k), q.pending = cl.pending, q.seq = cl.seq, NEW m \in 1 .. cl'.seq
  PROVE  /\ In(cl.pending, m) => In(cl'.pending, m)
         /\ m \in 1 .. cl.seq \/ In(cl'.pending, m)
<1>1. Longer(q, cl') /\ cl'.seq = q.seq + 1 /\ q.seq \in Nat
  BY Bounds DEF Queues, Longer, ClientRec
<1>2. In(q.pending, m) \/ m = q.seq + 1 => In(cl'.pending, m)
  BY <1>1, LongerRecord
<1>3. m \in 1 .. q.seq \/ m = q.seq + 1
  BY <1>1
<1>4. QED
  BY <1>2, <1>3

(* A client that has a connection and takes up none keeps what it has.     *)
LEMMA SameSent ==
  ASSUME BaseInv, SkipInv, Faultless, [Next]_vars, cl'.sock = cl.sock, cl.sock # None,
         link'[cl.sock] = "open", th'[cl.sock].pc = "serving", NEW m \in 1 .. cl.seq
  PROVE  ThereNext(cl.sock, m) \/ In(cl.pending, m)
<1>0. TypeInv /\ FreshInv /\ NetInv
  BY DEF BaseInv, AttachedInv
<1> DEFINE c == cl.sock
<1>1. c \in Conns
  BY <1>0, NetTypes
<1>2. link[c] = "open"
  <2>1. ~Dials
    BY DEF Dials
  <2>2. QED
    BY <1>0, <1>1, <2>1, OpenWas
<1>3. There(c, m) \/ In(cl.pending, m)
  BY <1>2 DEF SkipInv, AllSent
<1>4. ~IsCut(c)
  BY DEF IsCut
<1>5. There(c, m) => ThereNext(c, m)
  BY <1>0, <1>1, <1>4, ThereStays
<1>6. QED
  BY <1>3, <1>5

(* On the socket in use all that was made goes on being there or pending.  *)
LEMMA AllSentStep ==
  ASSUME BaseInv, HelloInv, SkipInv, [Next]_vars, Faultless', NEW c \in Conns, cl'.sock = c, link'[c] = "open",
         NEW m \in 1 .. cl'.seq
  PROVE  ThereNext(c, m) \/ In(cl'.pending, m)
<1>0. TypeInv /\ FreshInv /\ NetInv /\ cl \in ClientRec
  BY DEF BaseInv, AttachedInv, TypeInv, Typed, ClientTyped
<1>1. Faultless
  BY <1>0, FaultsStay
<1>2. c \in Conns /\ c # None
  BY <1>0, NetTypes DEF None
<1>3. th'[c].pc = "serving"
  <2>1. NetInv'
    BY <1>0, NetStep
  <2>2. th'[c].pc \in {"serving", "ended"} /\ (link'[c] = "open" => th'[c].pc # "ended")
    BY <1>2, <2>1 DEF NetInv, ConnInv
  <2>3. QED
    BY <2>2
<1>4. ASSUME cl'.sock = cl.sock, m \in 1 .. cl.seq PROVE ThereNext(c, m) \/ In(cl.pending, m)
  BY <1>1, <1>2, <1>3, <1>4, SameSent
<1>5. CASE ~Client
  <2>1. cl' = cl
    BY <1>0, <1>5, ClientOnly DEF clientVars
  <2>2. QED
    BY <1>4, <2>1
<1>6. CASE Calls \/ Receives
  <2>1. cl'.sock = cl.sock
    BY <1>6 DEF Calls, Receives, Elsewhere, Reads, Rests
  <2>2. PICK q \in ClientRec : /\ q.pending = cl.pending /\ q.seq = cl.seq
                               /\ cl' = q \/ \E k \in Kinds \union {"ack"} : Queues(q, k)
    BY <1>0, <1>6 DEF Calls, Receives, Shorter
  <2>3. CASE cl' = q
    BY <1>4, <2>1, <2>2, <2>3
  <2>4. ASSUME NEW k, Queues(q, k) PROVE ThereNext(c, m) \/ In(cl'.pending, m)
    <3>1. (In(cl.pending, m) => In(cl'.pending, m)) /\ (m \in 1 .. cl.seq \/ In(cl'.pending, m))
      BY <2>2, <2>4, QueuedPending
    <3>2. QED
      BY <1>4, <2>1, <3>1
  <2>5. QED
    BY <2>2, <2>3, <2>4
<1>7. CASE Writes
  <2>1. cl'.sock = cl.sock /\ cl'.seq = cl.seq /\ WritesPending /\ link' = link /\ Sent(cl.sock, cl.pending)
    BY <1>7 DEF Writes, WritesPending, Rests, SameRecord
  <2>2. In(cl.pending, m) => Coming(c, m)'
    <3> SUFFICES ASSUME In(cl.pending, m) PROVE Coming(c, m)'
      OBVIOUS
    <3>1. cl.pending # <<>>
      BY DEF In
    <3>2. Sends(c, cl.pending)
      BY <1>0, <1>2, <2>1, <3>1 DEF Sends, Sent, WritesPending, TypeInv, Typed, NetTyped
    <3>3. SendsOut(c)
      BY <2>1, <3>2 DEF SendsOut
    <3>4. QED
      BY <1>0, <1>2, <2>1, <3>3, SentComes
  <2>3. QED
    BY <1>4, <2>1, <2>2 DEF ThereNext
<1>8. CASE Resumes
  <2>1. cl'.seq = cl.seq /\ Takes /\ Sent(dialed, cl'.unacked) /\ c = dialed /\ link' = link
    BY <1>2, <1>8 DEF Resumes, Drops, Takes
  <2>2. There(c, m) \/ In(cl'.unacked, m)
    BY <1>8, <2>1, ResumedAll DEF There
  <2>3. ~IsCut(c)
    BY DEF IsCut
  <2>4. There(c, m) => ThereNext(c, m)
    <3>1. m \in Nat
      BY <1>0, <2>1, MadeTypes
    <3>2. QED
      BY <1>0, <1>2, <1>3, <2>3, <3>1, ThereStays
  <2>5. In(cl'.unacked, m) => Coming(c, m)'
    <3> SUFFICES ASSUME In(cl'.unacked, m) PROVE Coming(c, m)'
      OBVIOUS
    <3>1. cl'.unacked # <<>>
      BY DEF In
    <3>2. Sends(c, cl'.unacked)
      BY <1>0, <1>2, <2>1, <3>1 DEF Sends, Sent, Takes, TypeInv, Typed, NetTyped
    <3>3. SendsOut(c)
      BY <2>1, <3>2 DEF SendsOut
    <3>4. QED
      BY <1>0, <1>2, <2>1, <3>3, SentComes
  <2>6. QED
    BY <2>2, <2>4, <2>5 DEF ThereNext
<1>9. CASE Client /\ Keeps /\ ~Resumes
  <2>1. cl'.pending = cl.pending /\ cl'.seq = cl.seq
    BY <1>9 DEF Keeps, SameRecord
  <2>2. CASE cl'.sock = cl.sock
    BY <1>4, <2>1, <2>2
  <2>3. CASE cl'.sock # cl.sock
    <3>1. Takes
      BY <1>0, <1>2, <1>9, <2>3, Moves DEF ClientMoves, Dials, WritesPending, Reads, Elsewhere, Rests, Drops
    <3>2. ~Resume
      BY <1>0, <1>9, ResumeTurn
    <3>3. HelloFlush
      <4>1. ASSUME Recover, cl.had PROVE FALSE
        <5>1. cl' = [cl EXCEPT !.sock = None, !.recovering = TRUE]
          BY <4>1 DEF Recover
        <5>2. QED
          BY <1>0, <1>2, <5>1 DEF ClientRec
      <4>2. ASSUME cl' = cl PROVE FALSE
        BY <2>3, <4>2
      <4>3. ASSUME Lost PROVE FALSE
        BY <1>0, <1>2, <4>3 DEF Lost, ClientRec
      <4>4. HelloFails => FALSE
        BY <4>1, <4>2 DEF HelloFails, Unreached
      <4>5. HelloLost \/ ResumeMissing => FALSE
        BY <4>3 DEF HelloLost, ResumeMissing
      <4>6. op.pc \in {"hello", "rehello"}
        BY <3>1 DEF Takes, InHello
      <4>7. QED
        BY <1>9, <3>2, <4>2, <4>4, <4>5, <4>6 DEF Client, Call, FlushCall, FlushDials, FlushRefused, FlushWrites,
           FlushFails, Redial, RedialRefused, RehelloFails, GivesUp, OldReply, Receive, ReceiveFails
    <3>4. op.pc = "hello" /\ cl.sock = None
      BY <3>1, <3>3 DEF HelloFlush, Takes
    <3>5. ~cl.had
      BY <1>1, <3>4 DEF SkipInv, Holding
    <3>6. In(cl.pending, m)
      BY <1>1, <2>1, <3>5 DEF SkipInv, Holding
    <3>7. QED
      BY <2>1, <3>6
  <2>4. QED
    BY <2>2, <2>3
<1>10. QED
  BY <1>0, <1>5, <1>6, <1>7, <1>8, <1>9, Turns DEF ClientTurns

(* A client that never had a session holds all it made; one that has lost  *)
(* its connection is at getting another.                                   *)
LEMMA HoldingStep ==
  ASSUME BaseInv, SkipInv, [Next]_vars, Faultless'
  PROVE  /\ ~cl'.had => \A m \in 1 .. cl'.seq : In(cl'.pending, m)
         /\ cl'.had /\ cl'.sock = None => op'.pc \in {"dial", "retry", "rehello"}
<1>0. TypeInv /\ cl \in ClientRec /\ op \in OpRec
  BY DEF BaseInv, AttachedInv, TypeInv, Typed, ClientTyped
<1>1. Faultless /\ Holding
  BY <1>0, FaultsStay DEF SkipInv
<1>2. ~Raise("lost") /\ ~Raise("gave_up")
  BY <1>0 DEF Raise, Faultless, TypeInv, Typed, HistoryTyped
<1>3. CASE ~Client
  BY <1>0, <1>1, <1>3, ClientOnly DEF clientVars, Holding
<1>4. CASE Client
  <2>1. ASSUME ~cl'.had, NEW m \in 1 .. cl'.seq PROVE In(cl'.pending, m)
    <3>1. ~cl.had
      <4>1. HelloFlush => cl'.had
        BY <1>0 DEF HelloFlush, ClientRec
      <4>2. QED
        BY <1>0, <2>1, <4>1, HadStep
    <3>2. \A n \in 1 .. cl.seq : In(cl.pending, n)
      BY <1>1, <3>1 DEF Holding
    <3>3. CASE Calls \/ Receives
      <4>1. PICK q \in ClientRec : /\ q.pending = cl.pending /\ q.seq = cl.seq
                                   /\ cl' = q \/ \E k \in Kinds \union {"ack"} : Queues(q, k)
        BY <1>0, <3>3 DEF Calls, Receives, Shorter
      <4>2. CASE cl' = q
        BY <2>1, <3>2, <4>1, <4>2
      <4>3. ASSUME NEW k, Queues(q, k) PROVE In(cl'.pending, m)
        BY <2>1, <3>2, <4>1, <4>3, QueuedPending
      <4>4. QED
        BY <4>1, <4>2, <4>3
    <3>4. CASE Writes
      <4>1. cl.sock \in Conns /\ cl.sock # None
        BY <1>0, <3>4, NetTypes DEF Writes, WritesPending, None
      <4>2. QED
        BY <1>0, <3>1, <4>1 DEF TypeInv, PlaceInv
    <3>5. CASE Resumes
      BY <1>0, <3>1, <3>5 DEF Resumes, TypeInv, PlaceInv
    <3>6. CASE Keeps
      BY <2>1, <3>2, <3>6 DEF Keeps, SameRecord
    <3>7. QED
      BY <1>0, <1>4, <3>3, <3>4, <3>5, <3>6, Turns DEF ClientTurns
  <2>2. ASSUME cl'.had, cl'.sock = None PROVE op'.pc \in {"dial", "retry", "rehello"}
    <3> DEFINE Away == {"dial", "retry", "rehello"}
    <3>1. ASSUME op.pc \notin Away, cl'.sock = cl.sock, cl'.had = cl.had PROVE FALSE
      BY <1>1, <2>2, <3>1 DEF Holding
    <3>2. ASSUME Recover, cl.had PROVE op'.pc \in Away
      BY <1>0, <3>2, RecoverTyped DEF TypeInv, Typed
    <3>3. ASSUME Unreached, op.pc \notin Away PROVE op'.pc \in Away
      BY <3>1, <3>2, <3>3 DEF Unreached
    <3>4. ASSUME NEW q \in ClientRec, NEW k, Enqueue(q, k), q.sock = cl.sock, q.had = cl.had
          PROVE  cl'.sock = cl.sock /\ cl'.had = cl.had
      BY <3>4 DEF Enqueue, Queued, ClientRec
    <3>5. ASSUME NEW k \in Kinds, Call(k) PROVE FALSE
      <4>1. op.pc \notin Away /\ cl'.sock = cl.sock /\ cl'.had = cl.had
        BY <1>0, <3>4, <3>5 DEF Call
      <4>2. QED
        BY <3>1, <4>1
    <3>6. CASE Receive
      <4> DEFINE n == Head(down[cl.sock]).n
                 q == Acknowledged(cl, n)
      <4>1. n \in 0 .. MaxSeq
        <5>1. cl.sock \in Conns /\ down[cl.sock] # <<>>
          BY <1>0, <3>6, MoveTypes DEF Receive, Answered, TypeInv, Typed, ClientTyped
        <5>2. Head(down[cl.sock]) \in ReplyRec
          BY <1>0, <5>1, TailDown DEF TypeInv, Typed
        <5>3. QED
          BY <5>2 DEF ReplyRec
      <4>2. q \in ClientRec /\ q.sock = cl.sock /\ q.had = cl.had
        BY <1>0, <4>1, AcknowledgedEffect DEF Shorter
      <4>3. cl' = q \/ Enqueue(q, op.then)
        BY <3>6 DEF Receive
      <4> HIDE DEF q
      <4>4. cl'.sock = cl.sock /\ cl'.had = cl.had
        BY <3>4, <4>2, <4>3
      <4>5. op.pc \notin Away
        BY <3>6 DEF Receive
      <4>6. QED
        BY <3>1, <4>4, <4>5
    <3>7. CASE FlushWrites
      <4>1. cl'.sock = cl.sock /\ cl'.had = cl.had /\ op.pc \notin Away
        BY <1>0, <3>7 DEF FlushWrites, ClientRec
      <4>2. QED
        BY <3>1, <4>1
    <3>8. CASE FlushCall \/ FlushDials \/ OldReply
      BY <3>1, <3>8 DEF FlushCall, FlushDials, OldReply, clientVars
    <3>9. CASE FlushRefused \/ HelloFails
      BY <3>3, <3>9 DEF FlushRefused, HelloFails
    <3>10. CASE FlushFails \/ ReceiveFails
      <4>1. cl.sock # None
        BY <1>0, <3>10 DEF FlushFails, ReceiveFails, TypeInv, Typed, ClientTyped
      <4>2. cl.had
        BY <1>0, <4>1 DEF TypeInv, PlaceInv
      <4>3. QED
        BY <3>2, <3>10, <4>2 DEF FlushFails, ReceiveFails
    <3>11. CASE HelloLost \/ ResumeMissing \/ GivesUp
      BY <1>2, <3>11 DEF HelloLost, ResumeMissing, Lost, GivesUp
    <3>12. CASE HelloFlush
      <4>1. cl'.sock = dialed
        BY <1>0, <3>12 DEF HelloFlush, ClientRec
      <4>2. dialed # None
        BY <1>0, <3>12 DEF HelloFlush, TypeInv, PlaceInv, None
      <4>3. QED
        BY <2>2, <4>1, <4>2
    <3>13. CASE Redial \/ RedialRefused \/ RehelloFails
      BY <1>0, <3>13, AtTyped DEF Redial, RedialRefused, RehelloFails
    <3>14. CASE Resume
      <4>1. Resumes
        BY <1>0, <3>14, ResumeTurn
      <4>2. dialed \in Conns /\ dialed # None
        BY <1>0, <4>1, NetTypes DEF Resumes, None
      <4>3. CASE Takes
        BY <2>2, <4>2, <4>3 DEF Takes
      <4>4. CASE op'.pc = "retry"
        BY <4>4
      <4>5. QED
        BY <4>1, <4>3, <4>4 DEF Resumes
    <3>15. QED
      BY <1>4, <3>5, <3>6, <3>7, <3>8, <3>9, <3>10, <3>11, <3>12, <3>13, <3>14 DEF Client
  <2>3. QED
    BY <2>1, <2>2
<1>5. QED
  BY <1>3, <1>4

(* Nothing is skipped by any step.                                         *)
LEMMA SkipStep ==
  BaseInv /\ HelloInv /\ OrderInv /\ PendingInv /\ SkipInv /\ [Next]_vars => SkipInv'
<1> SUFFICES ASSUME BaseInv, HelloInv, OrderInv, PendingInv, SkipInv, [Next]_vars, Faultless'
             PROVE  /\ \A s \in Sessions : Dense(s)'
                    /\ \A c \in Conns : th'[c].pc = "serving" => Unbroken(c)'
                    /\ AllSent'
                    /\ Holding'
  BY DEF SkipInv
<1>1. \A s \in Sessions : Dense(s)'
  BY DenseStep DEF Dense
<1>2. ASSUME NEW c \in Conns, th'[c].pc = "serving" PROVE Unbroken(c)'
  <2>1. ASSUME NEW n, Coming(c, n)', NEW m \in 1 .. n PROVE There(c, m)'
    <3>1. ThereNext(c, m)
      BY <1>2, <2>1, UnbrokenStep
    <3>2. QED
      BY <3>1 DEF ThereNext, There
  <2>2. QED
    BY <2>1 DEF Unbroken
<1>3. AllSent'
  <2> SUFFICES ASSUME NEW c, c = cl'.sock, c # None, link'[c] = "open", NEW m \in 1 .. cl'.seq
               PROVE  There(c, m)' \/ In(cl'.pending, m)
    BY DEF AllSent, There
  <2>1. c \in Conns
    <3>1. cl' \in ClientRec
      BY TypeStep, TypesNext DEF BaseInv, AttachedInv
    <3>2. c \in 0 .. MaxConns /\ c # 0
      BY <3>1 DEF ClientRec, None
    <3>3. QED
      BY <3>2, Bounds DEF Conns
  <2>2. ThereNext(c, m) \/ In(cl'.pending, m)
    BY <2>1, AllSentStep
  <2>3. QED
    BY <2>2 DEF ThereNext, There
<1>4. Holding'
  BY HoldingStep DEF Holding
<1>5. QED
  BY <1>1, <1>2, <1>3, <1>4

(* Nothing is made yet.                                                    *)
LEMMA SkipInit == Init => HelloInv /\ OrderInv /\ PendingInv /\ SkipInv
<1> SUFFICES ASSUME Init PROVE HelloInv /\ OrderInv /\ PendingInv /\ SkipInv
  OBVIOUS
<1>1. /\ cl.pending = <<>> /\ cl.seq = 0 /\ ~cl.had /\ cl.sock = None /\ op.wait = None
      /\ \A c \in Conns : th[c].pc = "none" /\ th[c].batch = <<>> /\ up[c] = <<>>
      /\ \A s \in Sessions : sess[s].last_seq = 0 /\ ran[s] = <<>>
  BY IdleTyped DEF Init, NoThread, NewSession
<1>2. HelloInv /\ OrderInv
  BY <1>1, NoneOrdered DEF HelloInv, OrderInv
<1>3. PendingInv
  BY <1>1, NoneOrdered DEF PendingInv
<1>4. \A s \in Sessions : Dense(s)
  BY <1>1 DEF Dense
<1>5. AllSent /\ Holding
  BY <1>1 DEF AllSent, Holding
<1>6. QED
  BY <1>1, <1>2, <1>3, <1>4, <1>5 DEF SkipInv

(* Unless the client raised that the server is out of reach or the session *)
(* lost, what a session applied is everything made so far, from the first  *)
(* message on, without a gap.  (_append, _reconnect, _ack, execute.)       *)
THEOREM AppliedWithoutGap == Spec => []NothingSkipped
<1> DEFINE I == BaseInv /\ HelloInv /\ OrderInv /\ PendingInv /\ SkipInv
<1>1. Init => I
  BY BaseInit, SkipInit
<1>2. I /\ [Next]_vars => I'
  BY BaseStep, HelloStep, OrderStep, PendingStep, SkipStep
<1>3. I => NothingSkipped
  BY DEF SkipInv, Faultless, Dense, NothingSkipped
<1> HIDE DEF I
<1>4. QED
  BY <1>1, <1>2, <1>3, PTL DEF Spec

-----------------------------------------------------------------------------
(* The answer to the last message is on its way when it has to be.         *)
Brings(c, n)     == \E i \in DOMAIN down[c] : down[c][i].type = "reply" /\ down[c][i].n = n
BringsNext(c, n) == \E i \in DOMAIN down'[c] : down'[c][i].type = "reply" /\ down'[c][i].n = n

(* A hello that is answered by who may serve says how far the session is,  *)
(* and the reply comes with it if that is as far as the client; and while  *)
(* the client awaits the reply it comes, or its message is yet to be run.  *)
GreetInv ==
  InHello /\ link[dialed] = "open" /\ down[dialed] # <<>> /\ MayServe(dialed) =>
    LET h == down[dialed][1] IN
    /\ h.n = sess[th[dialed].s].last_seq
    /\ h.resumed /\ op.wait # None /\ h.n = cl.seq => Brings(dialed, cl.seq)
Served(c) == Brings(c, cl.seq) \/ (sess[th[c].s].last_seq < cl.seq /\ Coming(c, cl.seq))
AwaitInv == op.pc = "await" /\ link[cl.sock] = "open" /\ MayServe(cl.sock) => Served(cl.sock)

(* Only the thread that may serve a session takes it further.              *)
LEMMA LastStays ==
  ASSUME TypeInv, FreshInv, GenInv, [Next]_vars,
         NEW c \in Conns, th[c].pc = "serving", th'[c].pc = "serving", MayServe(c)
  PROVE  \/ sess'[th[c].s].last_seq = sess[th[c].s].last_seq
         \/ Applied(c, th[c].s, Head(th[c].batch))
<1>1. th[c].s \in Sessions
  BY GenTypes DEF Active
<1>2. CASE SessionsKeep
  BY <1>1, <1>2 DEF SessionsKeep
<1>3. ASSUME NEW d \in Conns, Applies(d)
      PROVE  \/ sess'[th[c].s].last_seq = sess[th[c].s].last_seq
             \/ Applied(c, th[c].s, Head(th[c].batch))
  <2>1. Applied(d, th[d].s, Head(th[d].batch))
    BY <1>3, AppliesEffect
  <2>2. CASE th[d].s # th[c].s
    BY <1>1, <2>1, <2>2 DEF Applied
  <2>3. CASE th[d].s = th[c].s
    <3>1. th[d].pc = "serving" /\ sess[th[d].s].gen = th[d].gen
      BY <2>1 DEF Applied, MayServe
    <3>2. th[d].gen = th[c].gen
      BY <2>3, <3>1 DEF MayServe
    <3>3. c = d
      BY <2>3, <3>1, <3>2 DEF GenInv, Active
    <3>4. QED
      BY <2>1, <3>3
  <2>4. QED
    BY <2>2, <2>3
<1>4. QED
  BY <1>2, <1>3, SessionStep

(* What is on its way to the client on a connection that stays open.       *)
LEMMA DownServer ==
  ASSUME TypeInv, FreshInv, NetInv, [Next]_vars, ~Client, NEW c \in Conns, link'[c] = "open"
  PROVE  \/ down'[c] = down[c]
         \/ Snapshot(c) /\ Snapped(c) /\ Greets(c) /\ down[c] = <<>>
         \/ \E i, n : Applied(c, i, n) /\ Answers(c, i, n)
<1>0. down \in [Conns -> Seq(ReplyRec)] /\ link \in [Conns -> {"none", "open", "cut", "closed"}]
  BY DEF TypeInv, Typed, NetTyped
<1>1. ASSUME NEW d \in Conns, Snapshot(d)
      PROVE  down'[c] = down[c] \/ (Snapshot(c) /\ Snapped(c) /\ Greets(c) /\ down[c] = <<>>)
  <2>1. down[d] = <<>> /\ Snapped(d)
    BY <1>1, SnapshotEffect DEF Snapshot, NetInv, ConnInv
  <2>2. Greets(d)
    BY <1>1, <2>1, SnapshotGreets
  <2>3. QED
    BY <1>1, <2>1, <2>2 DEF Greets, Others
<1>2. ASSUME NEW d \in Conns, Execute(d)
      PROVE  down'[c] = down[c] \/ \E i, n : Applied(c, i, n) /\ Answers(c, i, n)
  <2>1. CASE Applies(d)
    <3>1. Applied(d, th[d].s, Head(th[d].batch))
      BY <2>1, AppliesEffect
    <3>2. Answers(d, th[d].s, Head(th[d].batch))
      BY <3>1, AppliedAnswers
    <3>3. QED
      BY <3>1, <3>2 DEF Answers, Others
  <2>2. CASE ~Applies(d)
    BY <1>2, <2>2 DEF Execute, Applies
  <2>3. QED
    BY <2>1, <2>2
<1>3. ASSUME NEW d \in Conns, Cut(d) PROVE down'[c] = down[c]
  <2>1. d # c
    BY <1>0, <1>3 DEF Cut
  <2>2. QED
    BY <1>0, <1>3, <2>1 DEF Cut
<1>4. ASSUME NEW d \in Conns, Attach(d) \/ NoHello(d) \/ TakeBatch(d) \/ Leave(d) PROVE down'[c] = down[c]
  BY <1>4 DEF Attach, NoHello, TakeBatch, Leave, netVars
<1>5. CASE Reap \/ Restart \/ UNCHANGED vars
  BY <1>5 DEF Reap, Restart, vars, netVars
<1>6. QED
  BY <1>1, <1>2, <1>3, <1>4, <1>5 DEF Next, Server

(* The greeting of who may serve brings the reply the client lacks.        *)
LEMMA GreetsAll ==
  ASSUME BaseInv, RanInv, TruthInv, NEW c \in Conns, Snapshot(c), Greets(c), link[c] = "open",
         down'[c] \in Seq(ReplyRec)
  PROVE  /\ down'[c][1].n = sess'[th[c].s].last_seq
         /\ down'[c][1].resumed /\ op.wait # None /\ down'[c][1].n = cl.seq => BringsNext(c, cl.seq)
<1>0. TypeInv /\ NetInv /\ OpInv /\ MadeInv
  BY DEF BaseInv, AttachedInv
<1> DEFINE s == th[c].s
           k == sess[s]
<1>1. s \in Sessions /\ sess \in [Sessions -> SessionRec]
  BY <1>0, GenTypes DEF Snapshot, Active, TypeInv, Typed, ServerTyped
<1>2. sess'[s].last_seq = k.last_seq
  <2>1. k \in SessionRec /\ sess' = [sess EXCEPT ![s] = TakenOver(k, th[c].gen)]
    BY <1>1 DEF Snapshot
  <2> HIDE DEF k, s
  <2>2. sess'[s] = TakenOver(k, th[c].gen)
    BY <1>1, <2>1
  <2>3. QED
    BY <2>1, <2>2 DEF TakenOver, SessionRec
<1>3. /\ down'[c][1] = Hello(th[c].resumed, k.last_seq)
      /\ \/ Kept(c, k) = <<>> /\ Len(down'[c]) = 1
         \/ Len(down'[c]) = 2 /\ down'[c][2] = k.reply
  BY DEF Greets
<1>4. down'[c][1].n = k.last_seq /\ down'[c][1].resumed = th[c].resumed
  BY <1>3 DEF Hello
<1>5. ASSUME th[c].resumed, op.wait # None, k.last_seq = cl.seq PROVE BringsNext(c, cl.seq)
  <2>1. cl.seq \in Nat /\ cl.seq # 0 /\ Waits(issued[cl.seq]) /\ cl.last_acked < cl.seq
    BY <1>0, <1>5, MadeTypes DEF OpInv, None
  <2>2. k.reply.n = cl.seq
    <3>1. PICK i \in DOMAIN ran[s] : ran[s][i] = cl.seq
      BY <1>1, <1>5, <2>1 DEF RanInv
    <3>2. cl.seq \in ToSet(ran[s])
      BY <3>1 DEF ToSet
    <3>3. cl.seq <= k.reply.n
      BY <1>1, <2>1, <3>2 DEF TruthInv
    <3>4. k.reply.n <= cl.seq /\ k.reply.n \in Nat
      BY <1>0, <1>1, <1>5, MadeTypes DEF MadeInv
    <3>5. QED
      BY <2>1, <3>3, <3>4
  <2>3. k.reply # NoReply /\ k.reply.n > th[c].acked
    <3>1. th[c].acked \in Nat /\ th[c].acked <= cl.last_acked /\ cl.last_acked \in Nat
      BY <1>0, MadeTypes DEF MadeInv
    <3>2. k.reply.n # 0 /\ NoReply.n = 0
      BY <2>1, <2>2 DEF NoReply, Reply, None
    <3>3. QED
      BY <2>1, <2>2, <3>1, <3>2
  <2>4. Kept(c, k) # <<>>
    BY <1>5, <2>3 DEF Kept
  <2>5. Len(down'[c]) = 2 /\ down'[c][2] = k.reply
    BY <1>3, <2>4
  <2>6. 2 \in DOMAIN down'[c]
    BY <2>5, LenProperties
  <2>7. k.reply.type = "reply"
    BY <1>0, <1>1 DEF NetInv
  <2>8. QED
    BY <2>2, <2>5, <2>6, <2>7 DEF BringsNext
<1>6. QED
  BY <1>2, <1>4, <1>5

(* The answer to a hello goes on saying how far the session is.            *)
LEMMA GreetStep ==
  ASSUME BaseInv, RanInv, TruthInv, GreetInv, [Next]_vars, InHello', NEW c \in Conns, c = dialed',
         link'[c] = "open", down'[c] # <<>>, sess'[th'[c].s].gen = th'[c].gen
  PROVE  /\ down'[c][1].n = sess'[th'[c].s].last_seq
         /\ down'[c][1].resumed /\ op'.wait # None /\ down'[c][1].n = cl'.seq => BringsNext(c, cl'.seq)
<1>0. TypeInv /\ FreshInv /\ GenInv /\ NetInv
  BY DEF BaseInv, AttachedInv
<1>1. ~Client
  <2> SUFFICES ASSUME Client PROVE FALSE
    OBVIOUS
  <2>1. ~InHello
    BY <1>0, HelloEnds
  <2>2. Dials
    BY <1>0, <2>1, Moves DEF ClientMoves, Takes, WritesPending, Reads, Elsewhere, Rests, Drops
  <2>3. dialed' = dialed + 1 /\ down' = down /\ dialed \in Nat
    BY <1>0, <2>2, NetTypes DEF Dials, Dial
  <2>4. c > dialed
    BY <2>3
  <2>5. down[c] = <<>>
    BY <1>0, <2>4 DEF NetInv, ConnInv
  <2>6. QED
    BY <2>3, <2>5
<1>2. UNCHANGED <<cl, op>> /\ c = dialed /\ InHello
  BY <1>0, <1>1, ClientOnly DEF clientVars, InHello
<1>3. link[c] = "open"
  BY <1>0, <1>2, OpenWas DEF Dials
<1>4. up[c] = <<>> /\ th[c].batch = <<>>
  BY <1>0, <1>2 DEF NetInv, ConnInv
<1>5. th'[c].pc = "serving"
  <2>1. NetInv' /\ TypeInv'
    BY <1>0, NetStep, TypeStep
  <2>2. th'[c].pc \notin {"none", "accepted", "attached", "ended"}
    BY <2>1 DEF NetInv, ConnInv
  <2>3. th'[c] \in ThreadRec
    BY <2>1, TypesNext
  <2>4. QED
    BY <2>2, <2>3 DEF ThreadRec
<1>6. CASE Snapshot(c) /\ Snapped(c) /\ Greets(c) /\ down[c] = <<>>
  <2>1. down'[c] \in Seq(ReplyRec)
    <3>1. TypeInv'
      BY <1>0, TypeStep
    <3>2. QED
      BY <3>1, TypesNext
  <2>2. th'[c].s = th[c].s
    BY <1>6 DEF Snapped
  <2>3. QED
    BY <1>2, <1>3, <1>6, <2>1, <2>2, GreetsAll
<1>7. CASE down'[c] = down[c]
  <2>1. th[c].pc = "serving"
    BY <1>0, <1>5, <1>7, ServingStays DEF Snapshot, NetInv, ConnInv
  <2>2. MayServe(c)
    BY <1>0, <1>5, <2>1, ServesStays
  <2>3. sess'[th[c].s].last_seq = sess[th[c].s].last_seq /\ th'[c].s = th[c].s
    <3>1. ~Applied(c, th[c].s, Head(th[c].batch))
      BY <1>4 DEF Applied
    <3>2. QED
      BY <1>0, <1>5, <2>1, <2>2, <3>1, LastStays, ServingStays
  <2>4. /\ down[c][1].n = sess[th[c].s].last_seq
        /\ down[c][1].resumed /\ op.wait # None /\ down[c][1].n = cl.seq => Brings(c, cl.seq)
    BY <1>2, <1>3, <1>7, <2>2 DEF GreetInv
  <2>5. Brings(c, cl.seq) => BringsNext(c, cl.seq)
    BY <1>7 DEF Brings, BringsNext
  <2>6. QED
    BY <1>2, <1>7, <2>3, <2>4, <2>5
<1>8. ASSUME NEW i, NEW n, Applied(c, i, n) PROVE FALSE
  BY <1>4, <1>8 DEF Applied
<1>9. QED
  BY <1>0, <1>1, <1>6, <1>7, <1>8, DownServer

(* A message that is waited for is answered when it is applied.            *)
ServedNext(c, n) == BringsNext(c, n) \/ (sess'[th'[c].s].last_seq < n /\ Coming(c, n)')

(* The reply to a message that is applied is on its way.                   *)
LEMMA AppliedBrings ==
  ASSUME TypeInv, NEW c \in Conns, NEW i, NEW n, Applied(c, i, n), Waits(issued[n]), link[c] = "open"
  PROVE  BringsNext(c, n)
<1>1. Answers(c, i, n) /\ sess'[i].reply = Reply(n, sess[i].err)
  BY AppliedAnswers, AppliedSession
<1>2. down'[c] = Append(down[c], Reply(n, sess[i].err))
  BY <1>1 DEF Answers
<1>3. down[c] \in Seq(ReplyRec)
  BY NetTypes
<1>4. Len(down[c]) + 1 \in DOMAIN down'[c] /\ down'[c][Len(down[c]) + 1] = Reply(n, sess[i].err)
  BY <1>2, <1>3
<1>5. QED
  BY <1>4 DEF BringsNext, Reply

(* It stays on its way when another is sent after it.                      *)
LEMMA BringsStays ==
  ASSUME TypeInv, NEW c \in Conns, NEW i, NEW n, NEW m, Answers(c, i, m), Brings(c, n)
  PROVE  BringsNext(c, n)
<1>1. down[c] \in Seq(ReplyRec)
  BY NetTypes
<1>2. CASE down'[c] = down[c]
  BY <1>2 DEF Brings, BringsNext
<1>3. CASE down'[c] = Append(down[c], sess'[i].reply)
  <2>1. \A j \in DOMAIN down[c] : j \in DOMAIN down'[c] /\ down'[c][j] = down[c][j]
    BY <1>1, <1>3
  <2>2. QED
    BY <2>1 DEF Brings, BringsNext
<1>4. QED
  BY <1>2, <1>3 DEF Answers

(* The reply that is awaited stays on its way, or its message does.        *)
LEMMA AwaitServer ==
  ASSUME BaseInv, AwaitInv, [Next]_vars, ~Client, op'.pc = "await",
         NEW c \in Conns, c = cl'.sock, link'[c] = "open", th'[c].pc = "serving",
         sess'[th'[c].s].gen = th'[c].gen, NEW n, n = cl'.seq
  PROVE  ServedNext(c, n)
<1>0. TypeInv /\ FreshInv /\ GenInv /\ NetInv /\ OpInv /\ MadeInv
  BY DEF BaseInv, AttachedInv
<1>1. UNCHANGED <<cl, op, issued>>
  BY <1>0, ClientOnly DEF clientVars
<1>2. link[c] = "open"
  BY <1>0, OpenWas DEF Dials, InHello
<1>3. th[c].pc = "serving"
  BY <1>0, <1>1, <1>2 DEF NetInv, ConnInv
<1>4. MayServe(c) /\ th'[c].s = th[c].s /\ th[c].s \in Sessions
  BY <1>0, <1>3, ServesStays, ServingStays
<1>5. Brings(c, n) \/ (sess[th[c].s].last_seq < n /\ Coming(c, n))
  BY <1>1, <1>2, <1>4 DEF AwaitInv, Served
<1>6. n = cl.seq /\ Waits(issued[n]) /\ n \in Nat
  BY <1>0, <1>1, MadeTypes DEF OpInv
<1>7. down'[c] = down[c] \/ \E i, m : Applied(c, i, m) /\ Answers(c, i, m)
  BY <1>0, <1>3, DownServer DEF Snapshot
<1>8. CASE Brings(c, n)
  <2>1. CASE down'[c] = down[c]
    BY <1>8, <2>1 DEF Brings, BringsNext, ServedNext
  <2>2. ASSUME NEW i, NEW m, Answers(c, i, m) PROVE ServedNext(c, n)
    BY <1>0, <1>8, <2>2, BringsStays DEF ServedNext
  <2>3. QED
    BY <1>7, <2>1, <2>2
<1>9. CASE sess[th[c].s].last_seq < n /\ Coming(c, n)
  <2>1. CASE Applied(c, th[c].s, n)
    BY <1>0, <1>2, <1>6, <2>1, AppliedBrings DEF ServedNext
  <2>2. CASE Works(c) /\ n = Head(th[c].batch)
    <3>1. Applies(c)
      <4>1. sess[th[c].s].last_seq \in Nat
        BY <1>0, <1>4, MadeTypes
      <4>2. ~(n <= sess[th[c].s].last_seq)
        BY <4>1, <1>6, <1>9
      <4>3. QED
        BY <2>2, <4>2 DEF Works, Applies, AlreadyApplied
    <3>2. QED
      BY <1>0, <2>1, <2>2, <3>1, AppliesEffect
  <2>3. CASE Coming(c, n)'
    <3>1. CASE sess'[th[c].s].last_seq = sess[th[c].s].last_seq
      BY <1>4, <1>9, <2>3, <3>1 DEF ServedNext
    <3>2. CASE Applied(c, th[c].s, Head(th[c].batch))
      <4> DEFINE h == Head(th[c].batch)
      <4>1. sess'[th[c].s].last_seq = h
        BY <1>0, <3>2, AppliedSession
      <4>2. h \in Nat /\ th[c].batch # <<>>
        <5>1. h \in Msgs /\ th[c].batch # <<>>
          BY <3>2 DEF Applied
        <5>2. QED
          BY <5>1, Bounds DEF Msgs
      <4>3. th[c].batch \in Seq(Msgs)
        BY <1>0, NetTypes DEF ThreadRec
      <4>4. Coming(c, h)
        <5>1. 1 \in DOMAIN th[c].batch /\ th[c].batch[1] = h
          BY <4>2, <4>3
        <5>2. QED
          BY <5>1 DEF Coming, Among, In
      <4>5. h <= n
        BY <1>0, <1>6, <4>4 DEF MadeInv
      <4>6. CASE h = n
        BY <2>1, <3>2, <4>6
      <4>7. CASE h < n
        BY <1>4, <2>3, <4>1, <4>7 DEF ServedNext
      <4>8. QED
        BY <1>6, <4>2, <4>5, <4>6, <4>7
    <3>3. QED
      BY <1>0, <1>3, <1>4, <3>1, <3>2, LastStays
  <2>4. ~Ends(c) /\ ~IsCut(c)
    BY DEF Ends, IsCut
  <2>5. QED
    BY <1>0, <1>9, <2>2, <2>3, <2>4, ComingStays
<1>10. QED
  BY <1>5, <1>8, <1>9

(* A client that comes to wait, or goes on waiting, has its answer coming. *)
LEMMA AwaitWrites ==
  ASSUME BaseInv, PendingInv, [Next]_vars, Writes, op'.pc = "await",
         NEW c \in Conns, c = cl'.sock, link'[c] = "open", th'[c].pc = "serving", NEW n, n = cl'.seq
  PROVE  ServedNext(c, n)
<1>0. TypeInv /\ OpInv
  BY DEF BaseInv, AttachedInv
<1>1. c = cl.sock /\ link[c] = "open" /\ UNCHANGED th /\ n = cl.seq
  BY DEF Writes, WritesPending, Rests, SameRecord
<1>2. op.wait # None /\ op.pc = "flush"
  BY <1>0, WrittenTyped DEF Writes, TypeInv, Typed, ClientTyped
<1>3. In(cl.pending, n)
  BY <1>1, <1>2 DEF PendingInv
<1>4. Unseen(n)
  BY <1>3 DEF PendingInv
<1>5. th[c].s \in Sessions
  BY <1>0, <1>1, GenTypes DEF Active
<1>6. sess'[th'[c].s].last_seq < n
  <2>1. Client
    <3>1. cl' # cl
      <4>1. cl.pending # <<>> /\ cl'.pending = <<>>
        BY <1>3 DEF In, Writes
      <4>2. QED
        BY <4>1
    <3>2. QED
      BY <1>0, <3>1, ClientOnly DEF clientVars
  <2>2. sess' = sess
    BY <1>0, <2>1, ClientServer
  <2>3. QED
    BY <1>1, <1>4, <1>5, <2>2 DEF Unseen
<1>7. Coming(c, n)'
  <2>1. cl.pending # <<>> /\ cl.pending \in Seq(Msgs)
    BY <1>0, <1>3, MoveTypes DEF In, ClientRec
  <2>2. up'[c] = Append(up[c], cl.pending)
    <3>1. up[c] \in Seq(Seq(Msgs)) /\ up \in [Conns -> Seq(Seq(Msgs))]
      BY <1>0 DEF TypeInv, Typed, NetTyped
    <3>2. Sent(c, cl.pending)
      BY <1>1 DEF Writes, WritesPending
    <3>3. QED
      BY <1>1, <2>1, <3>1, <3>2 DEF Sent
  <2>3. SendsOut(c)
    BY <1>1, <2>1, <2>2 DEF SendsOut, Sends, Writes
  <2>4. QED
    BY <1>0, <1>3, <2>3, SentComes DEF Writes
<1>8. QED
  BY <1>6, <1>7 DEF ServedNext

(* A client that waits again once _reconnect has replayed.                 *)
LEMMA AwaitResumes ==
  ASSUME BaseInv, HelloInv, GreetInv, [Next]_vars, Client, Resumes, op'.pc = "await",
         NEW c \in Conns, c = cl'.sock, link'[c] = "open", th'[c].pc = "serving",
         sess'[th'[c].s].gen = th'[c].gen, NEW n, n = cl'.seq
  PROVE  ServedNext(c, n)
<1>0. TypeInv /\ NetInv /\ OpInv /\ MadeInv
  BY DEF BaseInv, AttachedInv
<1>1. Takes /\ Sent(dialed, cl'.unacked) /\ Written
  BY DEF Resumes
<1>2. /\ c = dialed /\ link[c] = "open" /\ UNCHANGED <<link, th>> /\ n = cl.seq /\ InHello /\ dialed \in Conns
      /\ down[c] # <<>> /\ down'[c] = Tail(down[c])
  BY <1>1 DEF Takes, Resumes
<1>3. op.wait # None
  BY <1>0, <1>1, WrittenTyped DEF TypeInv, Typed, ClientTyped
<1>4. n \in Msgs /\ n \in 1 .. cl.seq
  <2>1. n \in 0 .. MaxSeq /\ n # 0
    BY <1>0, <1>2, <1>3, MoveTypes, MadeTypes DEF OpInv, None, ClientRec
  <2>2. QED
    BY <1>2, <2>1, Bounds DEF Msgs
<1>5. sess' = sess /\ th[c].s \in Sessions /\ MayServe(c)
  <2>1. sess' = sess
    BY <1>0, ClientServer
  <2>2. QED
    BY <1>0, <1>2, <2>1, GenTypes DEF Active, MayServe
<1> DEFINE h == down[c][1]
<1>6. down[c] \in Seq(ReplyRec) /\ h = Head(down[c]) /\ h \in ReplyRec /\ h.type = "hello"
  <2>1. down[c] \in Seq(ReplyRec)
    BY <1>0, NetTypes
  <2>2. h = Head(down[c]) /\ h \in ReplyRec /\ 1 \in DOMAIN down[c]
    BY <1>2, <2>1, TailOf
  <2>3. c # cl.sock
    BY <1>1, <1>2, <1>0, NetTypes DEF Takes, None
  <2>4. h.type = "hello"
    BY <1>0, <2>2, <2>3 DEF NetInv, ConnInv
  <2>5. QED
    BY <2>1, <2>2, <2>4
<1>7. h.n = sess[th[c].s].last_seq /\ (h.resumed /\ op.wait # None /\ h.n = cl.seq => Brings(c, cl.seq))
  BY <1>2, <1>5 DEF GreetInv
<1>8. h.resumed
  BY <1>0, <1>2, <1>6 DEF Resumes, Welcome, PlaceInv, TypeInv
<1>9. CASE h.n = n
  <2>1. Brings(c, n)
    BY <1>2, <1>3, <1>7, <1>8, <1>9
  <2>2. PICK i \in DOMAIN down[c] : down[c][i].type = "reply" /\ down[c][i].n = n
    BY <2>1 DEF Brings
  <2>3. i # 1
    BY <1>6, <2>2
  <2>4. i \in 1 .. Len(down[c]) /\ Len(down[c]) \in Nat
    BY <1>6, LenProperties
  <2>5. i - 1 \in 1 .. Len(down[c]) - 1
    BY <2>3, <2>4
  <2>6. DOMAIN Tail(down[c]) = 1 .. Len(down[c]) - 1 /\ \A j \in DOMAIN Tail(down[c]) : Tail(down[c])[j] = down[c][j + 1]
    BY <1>2, <1>6, TailOf
  <2>7. i - 1 \in DOMAIN down'[c] /\ down'[c][i - 1] = down[c][i]
    <3>1. (i - 1) + 1 = i
      BY <2>4
    <3>2. i - 1 \in DOMAIN Tail(down[c])
      BY <2>5, <2>6
    <3>3. Tail(down[c])[i - 1] = down[c][(i - 1) + 1]
      BY <2>6, <3>2
    <3>4. QED
      BY <1>2, <3>1, <3>2, <3>3
  <2>8. QED
    BY <2>2, <2>7 DEF ServedNext, BringsNext
<1>10. CASE h.n # n
  <2>1. sess[th[c].s].last_seq < n
    <3>1. h.n <= cl.seq
      BY <1>0, <1>2, <1>6, TailOf DEF MadeInv
    <3>2. h.n \in Nat /\ n \in Nat
      BY <1>0, <1>2, <1>6, MadeTypes
    <3>3. h.n < n
      BY <1>2, <1>10, <3>1, <3>2
    <3>4. QED
      BY <1>7, <3>3
  <2>2. In(cl'.unacked, n)
    <3>1. n <= sess[th[c].s].last_seq \/ In(cl'.unacked, n)
      BY <1>2, <1>4, ResumedAll
    <3>2. sess[th[c].s].last_seq \in Nat /\ n \in Nat
      BY <1>0, <1>2, <1>5, MadeTypes
    <3>3. QED
      BY <2>1, <3>1, <3>2
  <2>3. SendsOut(c)
    <3>1. cl'.unacked # <<>>
      BY <2>2 DEF In
    <3>2. up[c] \in Seq(Seq(Msgs)) /\ up \in [Conns -> Seq(Seq(Msgs))] /\ th'[c] = th[c]
      BY <1>0, <1>2 DEF TypeInv, Typed, NetTyped
    <3>3. up'[c] = Append(up[c], cl'.unacked)
      BY <1>1, <1>2, <3>1, <3>2 DEF Sent
    <3>4. QED
      BY <1>1, <1>2, <3>1, <3>2, <3>3 DEF SendsOut, Sends
  <2>4. Coming(c, n)'
    BY <1>0, <1>1, <2>2, <2>3, SentComes
  <2>5. QED
    BY <1>2, <1>5, <2>1, <2>4 DEF ServedNext
<1>11. QED
  BY <1>9, <1>10

(* A client that goes on waiting past a reply it already had.              *)
LEMMA AwaitKeeps ==
  ASSUME BaseInv, AwaitInv, [Next]_vars, Client, Keeps, op'.pc = "await",
         NEW c \in Conns, c = cl'.sock, link'[c] = "open", th'[c].pc = "serving",
         sess'[th'[c].s].gen = th'[c].gen, NEW n, n = cl'.seq
  PROVE  ServedNext(c, n)
<1>0. TypeInv /\ NetInv /\ OpInv
  BY DEF BaseInv, AttachedInv
<1>1. op.pc = "await" /\ n = cl.seq
  BY DEF Keeps, SameRecord
<1>2. OldReply
  <2>1. ~FlushDials /\ ~FlushRefused /\ ~FlushWrites /\ ~FlushFails /\ ~FlushCall
    BY <1>1 DEF FlushDials, FlushRefused, FlushWrites, FlushFails, FlushCall
  <2>2. ~HelloFails /\ ~HelloLost /\ ~HelloFlush /\ ~RehelloFails
    BY <1>1 DEF HelloFails, HelloLost, HelloFlush, RehelloFails
  <2>3. ~Redial /\ ~RedialRefused /\ ~GivesUp /\ ~ResumeMissing /\ ~Resume /\ \A k : ~Call(k)
    BY <1>1 DEF Redial, RedialRefused, GivesUp, ResumeMissing, Resume, Call
  <2>4. ~ReceiveFails
    BY <1>0 DEF ReceiveFails, Recover, At, TypeInv, Typed, ClientTyped, OpRec
  <2>5. ~Receive
    <3> SUFFICES ASSUME Receive PROVE FALSE
      OBVIOUS
    <3>1. CASE op' = Idle
      BY <3>1, IdleTyped
    <3>2. CASE op' = Proceed(cl', op.then)
      BY <3>2 DEF Proceed, Idle
    <3>3. QED
      BY <3>1, <3>2 DEF Receive
  <2>6. QED
    BY <2>1, <2>2, <2>3, <2>4, <2>5 DEF Client
<1>3. /\ c = cl.sock /\ UNCHANGED <<cl, link, up, th, sess>> /\ down[c] # <<>> /\ Head(down[c]).n < op.wait
      /\ down' = [down EXCEPT ![c] = Tail(@)]
  BY <1>2 DEF OldReply, Answered, clientVars, serverVars
<1>4. MayServe(c)
  BY <1>3 DEF MayServe
<1>5. Served(c)
  BY <1>1, <1>3, <1>4 DEF AwaitInv
<1>6. CASE Brings(c, n)
  <2>1. PICK i \in DOMAIN down[c] : down[c][i].type = "reply" /\ down[c][i].n = n
    BY <1>6 DEF Brings
  <2>2. down[c] \in Seq(ReplyRec) /\ down \in [Conns -> Seq(ReplyRec)]
    BY <1>0, NetTypes DEF TypeInv, Typed, NetTyped
  <2>3. i # 1
    <3>1. down[c][1] = Head(down[c]) /\ down[c][1] \in ReplyRec
      BY <1>3, <2>2, TailOf
    <3>2. op.wait = n /\ op.wait \in Nat /\ Head(down[c]).n \in Nat
      BY <1>0, <1>1, <3>1, MadeTypes DEF OpInv
    <3>3. Head(down[c]).n # n
      BY <1>3, <3>2
    <3>4. QED
      BY <2>1, <3>1, <3>3
  <2>4. i \in 1 .. Len(down[c]) /\ Len(down[c]) \in Nat
    BY <2>2, LenProperties
  <2>5. (i - 1) + 1 = i /\ i - 1 \in 1 .. Len(down[c]) - 1
    BY <2>3, <2>4
  <2>6. DOMAIN Tail(down[c]) = 1 .. Len(down[c]) - 1 /\ \A j \in DOMAIN Tail(down[c]) : Tail(down[c])[j] = down[c][j + 1]
    BY <1>3, <2>2, TailOf
  <2>7. i - 1 \in DOMAIN Tail(down[c]) /\ Tail(down[c])[i - 1] = down[c][i]
    <3>1. i - 1 \in DOMAIN Tail(down[c])
      BY <2>5, <2>6
    <3>2. Tail(down[c])[i - 1] = down[c][(i - 1) + 1]
      BY <2>6, <3>1
    <3>3. QED
      BY <2>5, <3>1, <3>2
  <2>8. down'[c] = Tail(down[c])
    BY <1>3, <2>2
  <2>9. QED
    BY <2>1, <2>7, <2>8 DEF ServedNext, BringsNext
<1>7. CASE sess[th[c].s].last_seq < n /\ Coming(c, n)
  BY <1>3, <1>7 DEF ServedNext, Coming
<1>8. QED
  BY <1>1, <1>5, <1>6, <1>7 DEF Served

(* Whatever the step, who awaits has the answer coming.                    *)
LEMMA AwaitStep ==
  ASSUME BaseInv, RanInv, HelloInv, PendingInv, GreetInv, AwaitInv, [Next]_vars, op'.pc = "await",
         NEW c \in Conns, c = cl'.sock, link'[c] = "open", sess'[th'[c].s].gen = th'[c].gen, NEW n, n = cl'.seq
  PROVE  ServedNext(c, n)
<1>0. TypeInv /\ NetInv'
  BY BaseStep DEF BaseInv, AttachedInv
<1>1. th'[c].pc = "serving"
  BY <1>0 DEF NetInv, ConnInv
<1>2. CASE ~Client
  BY <1>1, <1>2, AwaitServer
<1>3. CASE Client
  <2>1. ~Calls
    BY DEF Calls, Queues
  <2>2. ~Receives
    BY IdleTyped DEF Receives, Queues
  <2>3. CASE Writes
    BY <1>1, <2>3, AwaitWrites
  <2>4. CASE Resumes
    BY <1>1, <1>3, <2>4, AwaitResumes
  <2>5. CASE Keeps
    BY <1>1, <1>3, <2>5, AwaitKeeps
  <2>6. QED
    BY <1>0, <1>3, <2>1, <2>2, <2>3, <2>4, <2>5, Turns DEF ClientTurns
<1>4. QED
  BY <1>2, <1>3

(* The whole of what is known while the client waits.                      *)
WaitInv == BaseInv /\ RanInv /\ TruthInv /\ HelloInv /\ PendingInv /\ GreetInv /\ AwaitInv

(* What is known while the client waits is inductive.                      *)
LEMMA WaitStep == WaitInv /\ [Next]_vars => WaitInv'
<1> SUFFICES ASSUME WaitInv, [Next]_vars PROVE WaitInv'
  OBVIOUS
<1>0. BaseInv /\ RanInv /\ TruthInv /\ HelloInv /\ PendingInv /\ GreetInv /\ AwaitInv /\ TypeInv
  BY DEF WaitInv, BaseInv, AttachedInv
<1>1. BaseInv' /\ RanInv' /\ TruthInv' /\ HelloInv' /\ PendingInv'
  BY <1>0, BaseStep, RanStep, TruthStep, HelloStep, PendingStep
<1>2. TypeInv'
  BY <1>1 DEF BaseInv, AttachedInv
<1>3. GreetInv'
  <2> SUFFICES ASSUME NEW c, c = dialed', InHello', link'[c] = "open", down'[c] # <<>>, sess'[th'[c].s].gen = th'[c].gen
               PROVE  /\ down'[c][1].n = sess'[th'[c].s].last_seq
                      /\ down'[c][1].resumed /\ op'.wait # None /\ down'[c][1].n = cl'.seq => BringsNext(c, cl'.seq)
    BY DEF GreetInv, MayServe, Brings, BringsNext
  <2>1. c \in Conns
    BY <1>2, Bounds DEF TypeInv, Typed, NetTyped, PlaceInv, InHello, Conns, None
  <2>2. QED
    BY <1>0, <2>1, GreetStep
<1>4. AwaitInv'
  <2> SUFFICES ASSUME op'.pc = "await", NEW c, c = cl'.sock, link'[c] = "open", sess'[th'[c].s].gen = th'[c].gen,
                      NEW n, n = cl'.seq
               PROVE  ServedNext(c, n)
    BY DEF AwaitInv, MayServe, Served, ServedNext, Brings, BringsNext, Coming
  <2>1. c \in Conns
    BY <1>2, Bounds DEF TypeInv, Typed, ClientTyped, ClientRec, Conns, None
  <2>2. QED
    BY <1>0, <2>1, AwaitStep
<1>5. QED
  BY <1>1, <1>3, <1>4 DEF WaitInv

(* The client waits for nothing yet.                                       *)
LEMMA WaitInit == Init => WaitInv
<1> SUFFICES ASSUME Init PROVE WaitInv
  OBVIOUS
<1>1. BaseInv /\ RanInv /\ TruthInv /\ HelloInv /\ PendingInv
  BY BaseInit, RanInit, TruthInit, SkipInit
<1>2. GreetInv /\ AwaitInv
  BY DEF Init, GreetInv, AwaitInv, InHello, Idle
<1>3. QED
  BY <1>1, <1>2 DEF WaitInv

(* While the client waits on a connection that is served, its answer is on *)
(* the way, or the message is and will be answered: it never waits for the *)
(* timeout of a peer that has nothing to say.  (serve_connection's resend  *)
(* of the kept reply, _reconnect's replay, and who may serve.)             *)
THEOREM AnsweredOrComing == Spec => []NeverWaitsInVain
<1>1. WaitInv => NeverWaitsInVain
  <2> SUFFICES ASSUME WaitInv, op.pc = "await", NEW c, c = cl.sock, link[c] = "open", MayServe(c)
               PROVE  \/ \E r \in ToSet(down[c]) : r.n = op.wait
                      \/ /\ ~AlreadyApplied(sess[th[c].s], op.wait)
                         /\ op.wait \in ToSet(th[c].batch) \union UNION {ToSet(b) : b \in ToSet(up[c])}
    BY DEF NeverWaitsInVain
  <2>1. TypeInv /\ OpInv /\ NetInv /\ AwaitInv
    BY DEF WaitInv, BaseInv, AttachedInv
  <2>2. op.wait = cl.seq
    BY <2>1 DEF OpInv
  <2>3. Served(c)
    BY <2>1 DEF AwaitInv
  <2>4. CASE Brings(c, cl.seq)
    BY <2>2, <2>4 DEF Brings, ToSet
  <2>5. CASE sess[th[c].s].last_seq < cl.seq /\ Coming(c, cl.seq)
    <3>1. c \in Conns
      BY <2>1, Bounds DEF TypeInv, Typed, ClientTyped, ClientRec, Conns, None
    <3>2. th[c].pc = "serving"
      BY <2>1, <3>1 DEF NetInv, ConnInv
    <3>3. sess[th[c].s].last_seq \in Nat /\ cl.seq \in Nat
      BY <2>1, <3>1, <3>2, GenTypes, MadeTypes DEF Active
    <3>4. ~AlreadyApplied(sess[th[c].s], op.wait)
      BY <2>2, <2>5, <3>3 DEF AlreadyApplied
    <3>5. op.wait \in ToSet(th[c].batch) \union UNION {ToSet(b) : b \in ToSet(up[c])}
      BY <2>2, <2>5 DEF Coming, Among, In, ToSet
    <3>6. QED
      BY <3>4, <3>5
  <2>6. QED
    BY <2>3, <2>4, <2>5 DEF Served
<1>2. QED
  BY <1>1, WaitInit, WaitStep, PTL DEF Spec
==============================================================================
