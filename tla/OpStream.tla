------------------------------ MODULE OpStream -------------------------------
(***************************************************************************)
(* The message stream of the operation path: Connection of                 *)
(* rgpu/session.py on one side, serve_connection, Registry and             *)
(* Session.execute of rgpu/server on the other, and the connections        *)
(* between them, which break.                                              *)
(*                                                                         *)
(* The client works under one lock, so it is one process here, with a step *)
(* for each wait on the network.  Each connection has a serving thread;    *)
(* several may serve one session, and its generation says which may go on. *)
(* A message is its sequence number.                                       *)
(***************************************************************************)
EXTENDS Naturals, Sequences, SequencesExt

CONSTANTS
  Kinds,        \* the messages the application makes, out of AllKinds
  FlushOps,     \* RGPU_FLUSH_OPS
  AckAt,        \* REPLAY_ACK_AT, in messages of ordinary size
  MaxUnacked,   \* MAX_UNACKED, likewise
  MayRestart,   \* whether the server may die and be started again
  MaxSeq,       \* bound: messages
  MaxConns,     \* bound: connections
  MaxSessions   \* bound: sessions made under the client's id

(* What nothing waits for: an operation, one that fails on the server, and *)
(* one over the replay limit by itself.  What the client waits for.        *)
AllKinds == {"post", "bad", "big", "wait"}

ASSUME OpStreamAssumption ==
  /\ Kinds \subseteq AllKinds /\ MayRestart \in BOOLEAN
  /\ FlushOps \in Nat \ {0} /\ AckAt \in Nat /\ MaxUnacked \in Nat /\ AckAt <= MaxUnacked
  /\ MaxSeq \in Nat /\ MaxConns \in Nat /\ MaxSessions \in Nat

Msgs     == 1 .. MaxSeq
Conns    == 1 .. MaxConns
Sessions == 1 .. MaxSessions
None     == 0

VARIABLES
  cl,       \* the client's Connection
  op,       \* where the thread holding its lock is
  issued,   \* the kind of each message
  dialed,   \* how many connections the client has opened
  link,     \* each connection: open, cut, or closed by the client
  up,       \* batches on their way to the server
  down,     \* replies on their way to the client
  th,       \* the serving thread of each connection
  reg,      \* the registry's entry for the client's id
  sess,     \* each Session
  made,     \* how many sessions were made under the client's id
  ran,      \* history: what each session applied, in order
  told,     \* history: what each wait that returned was told
  past      \* history: what went wrong beyond what is repaired
clientVars == <<cl, op, issued>>
netVars    == <<dialed, link, up, down>>
serverVars == <<th, reg, sess, made, ran>>
history    == <<told, past>>
vars == <<clientVars, netVars, serverVars, history>>

-----------------------------------------------------------------------------
(* Hello is the answer to a handshake; what it says of the session is in n *)
(* and resumed.  A reply to message n names the failure it reports in err. *)
Hello(resumed, n) == [type |-> "hello", resumed |-> resumed, n |-> n, err |-> None]
Reply(n, err)     == [type |-> "reply", resumed |-> FALSE, n |-> n, err |-> err]
NoReply           == Reply(None, None)

Idle == [pc |-> "idle", wait |-> None, then |-> "none"]
At(pc) == op' = [op EXCEPT !.pc = pc]

NoThread  == [pc |-> "none", gen |-> 0, s |-> None, resumed |-> FALSE, acked |-> 0, batch |-> <<>>]
NewSession == [last_seq |-> 0, reply |-> NoReply, err |-> None, gen |-> 0]

Init ==
  /\ cl = [seq |-> 0, pending |-> <<>>, unacked |-> <<>>, replay |-> TRUE,
           last_acked |-> 0, had |-> FALSE, sock |-> None, recovering |-> FALSE]
  /\ op = Idle /\ issued = <<>>
  /\ dialed = 0
  /\ link = [c \in Conns |-> "none"]
  /\ up = [c \in Conns |-> <<>>] /\ down = [c \in Conns |-> <<>>]
  /\ th = [c \in Conns |-> NoThread]
  /\ reg = [s |-> None, gen |-> 0, detached |-> FALSE]
  /\ sess = [s \in Sessions |-> NewSession] /\ made = 0
  /\ ran = [s \in Sessions |-> <<>>]
  /\ told = [n \in Msgs |-> Reply(None, None)]
  /\ past = [gave_up |-> FALSE, lost |-> FALSE, removed |-> FALSE, overflowed |-> FALSE]

-----------------------------------------------------------------------------
(* The client: queueing.                                                   *)

Waits(k)   == k \in {"wait", "ack"}
Size(k)    == IF k = "big" THEN MaxUnacked + 1 ELSE 1
Bytes(q, kinds) == FoldSeq(LAMBDA n, sum : sum + Size(kinds[n]), 0, q)

(* _append: ask for an acknowledgement before the replay queue is full.    *)
NeedsAck(k) ==
  /\ cl.replay /\ cl.unacked # <<>>
  /\ Bytes(cl.unacked, issued) + Size(k) > AckAt

(* _append, of the message that comes last in kinds.                       *)
Queued(q, kinds) ==
  LET n    == q.seq + 1
      kept == IF q.replay THEN Append(q.unacked, n) ELSE q.unacked
      over == Bytes(kept, kinds) > MaxUnacked
  IN  [q EXCEPT !.seq = n, !.pending = Append(@, n),
                !.unacked = IF over THEN <<>> ELSE kept,
                !.replay = @ /\ ~over]

(* What post and request do once the message is queued.                    *)
Proceed(q, k) ==
  IF Waits(k) THEN [pc |-> "flush", wait |-> q.seq, then |-> "none"]
  ELSE IF Len(q.pending) >= FlushOps THEN [pc |-> "flush", wait |-> None, then |-> "none"]
  ELSE Idle

Enqueue(q, k) ==
  LET now == Queued(q, Append(issued, k))
  IN  /\ issued' = Append(issued, k)
      /\ cl' = now
      /\ past' = [past EXCEPT !.overflowed = @ \/ (q.replay /\ ~now.replay)]

(* post and request: at once, or after an acknowledgement.                 *)
Call(k) ==
  /\ op.pc = "idle"
  /\ \/ /\ ~NeedsAck(k) /\ cl.seq + 1 <= MaxSeq
        /\ Enqueue(cl, k)
        /\ op' = Proceed(cl', k)
     \/ /\ NeedsAck(k) /\ cl.seq + 2 <= MaxSeq
        /\ Enqueue(cl, "ack")
        /\ op' = [pc |-> "flush", wait |-> cl.seq + 1, then |-> k]
  /\ UNCHANGED <<netVars, serverVars, told>>

(* flush, of the application's own accord.                                 *)
FlushCall ==
  /\ op.pc = "idle" /\ cl.pending # <<>>
  /\ op' = [Idle EXCEPT !.pc = "flush"]
  /\ UNCHANGED <<cl, issued, netVars, serverVars, history>>

-----------------------------------------------------------------------------
(* The client: the socket.                                                 *)

(* The client closes: what is on its way to the server may still arrive.   *)
Closed(c)  == [link EXCEPT ![c] = IF @ = "none" THEN @ ELSE "closed"]
CloseSock  == IF cl.sock = None THEN UNCHANGED <<link, down>>
              ELSE link' = Closed(cl.sock) /\ down' = [down EXCEPT ![cl.sock] = <<>>]

(* A connection is made, and the hello is on its way.                      *)
Dial ==
  /\ dialed < MaxConns /\ dialed' = dialed + 1
  /\ link' = [link EXCEPT ![dialed'] = "open"]
  /\ th' = [th EXCEPT ![dialed'] = [NoThread EXCEPT !.pc = "accepted", !.acked = cl.last_acked]]

(* Whatever was raised leaves the call.                                    *)
Raise(what) == op' = Idle /\ past' = [past EXCEPT ![what] = TRUE]

(* The start of _reconnect: the first attempt of a recovery is made at     *)
(* once, the others after a look at the clock.                             *)
Recover ==
  /\ cl' = [cl EXCEPT !.sock = None, !.recovering = TRUE]
  /\ At(IF cl.recovering THEN "retry" ELSE "dial")

(* _flush without a socket.                                                *)
FlushDials ==
  /\ op.pc = "flush" /\ cl.sock = None
  /\ Dial /\ At("hello")
  /\ UNCHANGED <<cl, issued, up, down, made, reg, sess, ran, history>>

\* Mutant of Unreached: a connection that never was is recovered.
UnreachedRecovers == Recover /\ UNCHANGED past

(* _flush could not connect: with no session yet there is none to recover. *)
Unreached ==
  IF cl.had THEN Recover /\ UNCHANGED past
  ELSE op' = Idle /\ UNCHANGED <<cl, past>>

FlushRefused ==
  /\ op.pc = "flush" /\ cl.sock = None
  /\ Unreached
  /\ UNCHANGED <<issued, netVars, serverVars, told>>

Answered(c) == down[c] # <<>>
Broken(c)   == link[c] # "open" /\ down[c] = <<>>

(* The hello of _flush's connection breaks.                                *)
HelloFails ==
  /\ op.pc = "hello" /\ Broken(dialed)
  /\ Unreached
  /\ link' = Closed(dialed)
  /\ UNCHANGED <<issued, dialed, up, down, serverVars, told>>

(* SessionLost: the new connection is closed.                              *)
Lost ==
  /\ Raise("lost")
  /\ cl' = [cl EXCEPT !.sock = None, !.recovering = IF op.pc = "rehello" THEN FALSE ELSE @]
  /\ link' = Closed(dialed) /\ down' = [down EXCEPT ![dialed] = <<>>]
  /\ UNCHANGED <<issued, dialed, up, serverVars, told>>

(* _connect finds that the session is another one.                         *)
HelloLost ==
  /\ op.pc \in {"hello", "rehello"} /\ Answered(dialed)
  /\ cl.had /\ ~Head(down[dialed]).resumed
  /\ Lost

Welcome(c) == Answered(c) /\ (Head(down[c]).resumed \/ ~cl.had)

(* _connect succeeds, for _flush, which has yet to write.                  *)
HelloFlush ==
  /\ op.pc = "hello" /\ Welcome(dialed)
  /\ cl' = [cl EXCEPT !.sock = dialed, !.had = TRUE]
  /\ down' = [down EXCEPT ![dialed] = Tail(@)]
  /\ At("flush")
  /\ UNCHANGED <<issued, dialed, link, up, serverVars, history>>

(* After the write: a request awaits its reply.                            *)
Written ==
  op' = IF op.wait = None THEN Idle ELSE [op EXCEPT !.pc = "await"]

(* A write on a connection that is gone may seem to succeed.               *)
Sent(c, batch) == up' = IF link[c] = "open" /\ batch # <<>>
                        THEN [up EXCEPT ![c] = Append(@, batch)] ELSE up

FlushWrites ==
  /\ op.pc = "flush" /\ cl.sock # None
  /\ Sent(cl.sock, cl.pending)
  /\ cl' = [cl EXCEPT !.pending = <<>>]
  /\ Written
  /\ UNCHANGED <<issued, dialed, link, down, serverVars, history>>

FlushFails ==
  /\ op.pc = "flush" /\ cl.sock # None /\ link[cl.sock] # "open"
  /\ CloseSock /\ Recover
  /\ UNCHANGED <<issued, dialed, up, serverVars, history>>

(* _reconnect: an attempt.                                                 *)
Redial ==
  /\ op.pc \in {"dial", "retry"}
  /\ Dial /\ At("rehello")
  /\ UNCHANGED <<cl, issued, up, down, made, reg, sess, ran, history>>

RedialRefused ==
  /\ op.pc = "dial" /\ At("retry")
  /\ UNCHANGED <<cl, issued, netVars, serverVars, history>>

RehelloFails ==
  /\ op.pc = "rehello" /\ Broken(dialed)
  /\ At("retry") /\ link' = Closed(dialed)
  /\ UNCHANGED <<cl, issued, dialed, up, down, serverVars, history>>

(* The deadline, which the attempts of a recovery share.                   *)
GivesUp ==
  /\ op.pc = "retry"
  /\ Raise("gave_up") /\ cl' = [cl EXCEPT !.recovering = FALSE]
  /\ UNCHANGED <<issued, netVars, serverVars, told>>

\* Mutants of Missing: a buffer that holds anything is taken for complete,
\* or one that starts with the next message is not.
MissingEarly(server_seq) ==
  /\ server_seq < cl.seq
  /\ \/ ~cl.replay
     \/ cl.unacked = <<>>
     \/ (cl.unacked # <<>> /\ Head(cl.unacked) > server_seq)

MissingNever(server_seq) == server_seq < cl.seq /\ cl.unacked = <<>>

(* The server lacks messages that are not here to be sent again.           *)
Missing(server_seq) ==
  /\ server_seq < cl.seq
  /\ \/ ~cl.replay
     \/ cl.unacked = <<>>
     \/ (cl.unacked # <<>> /\ Head(cl.unacked) > server_seq + 1)

ResumeMissing ==
  /\ op.pc = "rehello" /\ Welcome(dialed) /\ Missing(Head(down[dialed]).n)
  /\ Lost

(* What is applied is dropped from the front of the replay buffer.         *)
Rest(q, n) ==
  LET later == {i \in DOMAIN q : q[i] > n}
  IN  IF later = {} THEN <<>> ELSE SubSeq(q, Min(later), Len(q))

Dropped(q, n) ==
  LET left == Rest(q.unacked, n)
  IN  [q EXCEPT !.unacked = left, !.replay = @ \/ left = <<>>]

(* The session is picked up, and what is left is sent again: the pending   *)
(* messages are among it.  The write may fail.                             *)
Resume ==
  /\ op.pc = "rehello" /\ Welcome(dialed) /\ ~Missing(Head(down[dialed]).n)
  /\ LET now == [Dropped(cl, Head(down[dialed]).n) EXCEPT !.pending = <<>>]
     IN \/ /\ cl' = [now EXCEPT !.sock = dialed]
           /\ Sent(dialed, now.unacked)
           /\ down' = [down EXCEPT ![dialed] = Tail(@)]
           /\ Written /\ UNCHANGED link
        \/ /\ link[dialed] # "open" /\ now.unacked # <<>>
           /\ cl' = now /\ At("retry")
           /\ link' = Closed(dialed)
           /\ down' = [down EXCEPT ![dialed] = <<>>] /\ UNCHANGED up
  /\ UNCHANGED <<issued, dialed, serverVars, history>>

(* _await: a reply it already had.                                         *)
OldReply ==
  /\ op.pc = "await" /\ Answered(cl.sock) /\ Head(down[cl.sock]).n < op.wait
  /\ down' = [down EXCEPT ![cl.sock] = Tail(@)]
  /\ UNCHANGED <<clientVars, dialed, link, up, serverVars, history>>

(* _ack.                                                                   *)
Acknowledged(q, n) == [Dropped(q, n) EXCEPT !.last_acked = n, !.recovering = FALSE]

(* _await: the reply.  An acknowledgement asked for by _append is followed *)
(* by the message that asked, unless it brings a failure.                  *)
Receive ==
  /\ op.pc = "await" /\ Answered(cl.sock) /\ Head(down[cl.sock]).n >= op.wait
  /\ LET r == Head(down[cl.sock])
     IN /\ told' = [told EXCEPT ![op.wait] = r]
        /\ IF op.then # "none" /\ r.err = None
           THEN Enqueue(Acknowledged(cl, r.n), op.then) /\ op' = Proceed(cl', op.then)
           ELSE cl' = Acknowledged(cl, r.n) /\ op' = Idle /\ UNCHANGED <<issued, past>>
  /\ down' = [down EXCEPT ![cl.sock] = Tail(@)]
  /\ UNCHANGED <<dialed, link, up, serverVars>>

ReceiveFails ==
  /\ op.pc = "await" /\ Broken(cl.sock)
  /\ CloseSock /\ Recover
  /\ UNCHANGED <<issued, dialed, up, serverVars, history>>

(* A connection is lost, or so slow that recv times out: a prefix of what  *)
(* is on its way arrives.                                                  *)
Cut(c) ==
  /\ link[c] = "open"
  /\ link' = [link EXCEPT ![c] = "cut"]
  /\ \E i \in 0 .. Len(up[c]) : up' = [up EXCEPT ![c] = SubSeq(@, 1, i)]
  /\ \E i \in 0 .. Len(down[c]) : down' = [down EXCEPT ![c] = SubSeq(@, 1, i)]
  /\ UNCHANGED <<clientVars, dialed, serverVars, history>>

-----------------------------------------------------------------------------
(* The server.                                                             *)

Thread(c, t) == th' = [th EXCEPT ![c] = t]
ToClient(c, replies) == down' = IF link[c] = "open" THEN [down EXCEPT ![c] = @ \o replies] ELSE down

(* Registry.attach, whenever the hello arrives.                            *)
Attach(c) ==
  /\ th[c].pc = "accepted"
  /\ \/ /\ reg.s # None
        /\ reg' = [reg EXCEPT !.gen = @ + 1, !.detached = FALSE]
        /\ Thread(c, [th[c] EXCEPT !.pc = "attached", !.s = reg.s, !.resumed = TRUE, !.gen = reg.gen + 1])
        /\ UNCHANGED made
     \/ /\ reg.s = None /\ made < MaxSessions /\ made' = made + 1
        /\ reg' = [s |-> made', gen |-> 0, detached |-> FALSE]
        /\ Thread(c, [th[c] EXCEPT !.pc = "attached", !.s = made'])
  /\ UNCHANGED <<clientVars, netVars, sess, ran, history>>

(* The hello never arrives.                                                *)
NoHello(c) ==
  /\ th[c].pc = "accepted" /\ link[c] # "open"
  /\ Thread(c, [NoThread EXCEPT !.pc = "ended"])
  /\ UNCHANGED <<clientVars, netVars, reg, sess, made, ran, history>>

(* The kept reply, for a client that says it has not had it.               *)
Kept(c, s) ==
  IF th[c].resumed /\ s.reply # NoReply /\ s.reply.n > th[c].acked THEN <<s.reply>> ELSE <<>>

(* The newest attach wins, in whatever order they come.                    *)
TakenOver(s, gen) == [s EXCEPT !.gen = IF gen > @ THEN gen ELSE @]

(* serve_connection, from the snapshot through the resend.                 *)
Snapshot(c) ==
  /\ th[c].pc = "attached"
  /\ LET s == sess[th[c].s]
     IN /\ sess' = [sess EXCEPT ![th[c].s] = TakenOver(s, th[c].gen)]
        /\ ToClient(c, <<Hello(th[c].resumed, s.last_seq)>> \o Kept(c, s))
  /\ Thread(c, [th[c] EXCEPT !.pc = "serving"])
  /\ UNCHANGED <<clientVars, dialed, link, up, reg, made, ran, history>>

TakeBatch(c) ==
  /\ th[c].pc = "serving" /\ th[c].batch = <<>> /\ up[c] # <<>>
  /\ Thread(c, [th[c] EXCEPT !.batch = Head(up[c])])
  /\ up' = [up EXCEPT ![c] = Tail(@)]
  /\ UNCHANGED <<clientVars, dialed, link, down, reg, sess, made, ran, history>>

\* Mutants of Executed: the failure told is not forgotten, or only what is
\* waited for is counted as applied.
ExecutedCountsWaits(s, n, k) ==
  IF Waits(k) THEN [s EXCEPT !.last_seq = n, !.reply = Reply(n, s.err), !.err = None]
  ELSE [s EXCEPT !.err = IF k = "bad" /\ @ = None THEN n ELSE @]

ExecutedKeepsError(s, n, k) ==
  IF Waits(k) THEN [s EXCEPT !.last_seq = n, !.reply = Reply(n, s.err)]
  ELSE [s EXCEPT !.last_seq = n, !.err = IF k = "bad" /\ @ = None THEN n ELSE @]

(* Session.execute, of a message not applied before.                       *)
Executed(s, n, k) ==
  IF Waits(k) THEN [s EXCEPT !.last_seq = n, !.reply = Reply(n, s.err), !.err = None]
  ELSE [s EXCEPT !.last_seq = n, !.err = IF k = "bad" /\ @ = None THEN n ELSE @]

AlreadyApplied(s, n) == n <= s.last_seq

\* Mutant of MayServe: a connection serves for as long as it has messages.
ServesOn(c) == TRUE

(* The check of the generation, under the session's lock.                  *)
MayServe(c) == sess[th[c].s].gen = th[c].gen

(* One message of the batch, under the session's lock, and its reply.      *)
Execute(c) ==
  /\ th[c].pc = "serving" /\ th[c].batch # <<>> /\ MayServe(c)
  /\ LET i == th[c].s
         n == Head(th[c].batch)
     IN IF AlreadyApplied(sess[i], n)
        THEN UNCHANGED <<sess, ran, down>>
        ELSE LET now == Executed(sess[i], n, issued[n])
             IN /\ sess' = [sess EXCEPT ![i] = now]
                /\ ran' = [ran EXCEPT ![i] = Append(@, n)]
                /\ ToClient(c, IF Waits(issued[n]) THEN <<now.reply>> ELSE <<>>)
  /\ Thread(c, [th[c] EXCEPT !.batch = Tail(@)])
  /\ UNCHANGED <<clientVars, dialed, link, up, reg, made, history>>

\* Mutant of Detached: whoever leaves detaches the session.
DetachedByAny(c) == reg.s = th[c].s

(* Registry.detach.                                                        *)
Detached(c) == reg.s # None /\ reg.gen = th[c].gen

(* The thread ends: superseded, its peer gone, a write that failed, or     *)
(* RGPU_DROP_AFTER.                                                        *)
Leave(c) ==
  /\ th[c].pc = "serving"
  /\ Thread(c, [NoThread EXCEPT !.pc = "ended"])
  /\ link' = [link EXCEPT ![c] = IF @ = "open" THEN "cut" ELSE @]
  /\ up' = [up EXCEPT ![c] = <<>>]
  /\ reg' = IF Detached(c) THEN [reg EXCEPT !.detached = TRUE] ELSE reg
  /\ UNCHANGED <<clientVars, dialed, down, sess, made, ran, history>>

Removed == past' = [past EXCEPT !.removed = TRUE]

(* Registry.reap, the grace period over.                                   *)
Reap ==
  /\ reg.s # None /\ reg.detached
  /\ reg' = [s |-> None, gen |-> 0, detached |-> FALSE]
  /\ Removed
  /\ UNCHANGED <<clientVars, netVars, th, sess, made, ran, told>>

(* The server process dies, and is started again.                          *)
Restart ==
  /\ MayRestart /\ reg.s # None
  /\ reg' = [s |-> None, gen |-> 0, detached |-> FALSE]
  /\ th' = [c \in Conns |-> IF th[c].pc = "none" THEN th[c] ELSE [NoThread EXCEPT !.pc = "ended"]]
  /\ link' = [c \in Conns |-> IF link[c] = "open" THEN "cut" ELSE link[c]]
  /\ up' = [c \in Conns |-> <<>>]
  /\ Removed
  /\ UNCHANGED <<clientVars, dialed, down, sess, made, ran, told>>

-----------------------------------------------------------------------------
Client ==
  \/ \E k \in Kinds : Call(k)
  \/ FlushCall \/ FlushDials \/ FlushRefused \/ FlushWrites \/ FlushFails
  \/ HelloFails \/ HelloLost \/ HelloFlush
  \/ Redial \/ RedialRefused \/ RehelloFails \/ GivesUp \/ ResumeMissing \/ Resume
  \/ OldReply \/ Receive \/ ReceiveFails

Server ==
  \/ \E c \in Conns : Attach(c) \/ NoHello(c) \/ Snapshot(c) \/ TakeBatch(c) \/ Execute(c) \/ Leave(c)
  \/ Reap \/ Restart

Next == Client \/ Server \/ \E c \in Conns : Cut(c)

Spec == Init /\ [][Next]_vars

-----------------------------------------------------------------------------
(* Type invariant.  A socket is in use where one is read, and what is      *)
(* recovered was had.                                                      *)
ClientRec == [seq : 0 .. MaxSeq, pending : Seq(Msgs), unacked : Seq(Msgs), replay : BOOLEAN,
              last_acked : 0 .. MaxSeq, had : BOOLEAN, sock : 0 .. MaxConns, recovering : BOOLEAN]
OpRec     == [pc : {"idle", "flush", "hello", "dial", "retry", "rehello", "await"},
              wait : 0 .. MaxSeq, then : Kinds \union {"none"}]
ReplyRec  == [type : {"hello", "reply"}, resumed : BOOLEAN, n : 0 .. MaxSeq, err : 0 .. MaxSeq]
ThreadRec == [pc : {"none", "accepted", "attached", "serving", "ended"}, gen : 0 .. MaxConns,
              s : 0 .. MaxSessions, resumed : BOOLEAN, acked : 0 .. MaxSeq, batch : Seq(Msgs)]

TypeOK ==
  /\ cl \in ClientRec /\ op \in OpRec
  /\ issued \in Seq(Kinds \union {"ack"}) /\ Len(issued) = cl.seq
  /\ dialed \in 0 .. MaxConns /\ made \in 0 .. MaxSessions
  /\ link \in [Conns -> {"none", "open", "cut", "closed"}]
  /\ up \in [Conns -> Seq(Seq(Msgs))] /\ down \in [Conns -> Seq(ReplyRec)]
  /\ th \in [Conns -> ThreadRec]
  /\ reg \in [s : 0 .. MaxSessions, gen : 0 .. MaxConns, detached : BOOLEAN]
  /\ sess \in [Sessions -> [last_seq : 0 .. MaxSeq, reply : ReplyRec, err : 0 .. MaxSeq,
                            gen : 0 .. MaxConns]]
  /\ ran \in [Sessions -> Seq(Msgs)]
  /\ told \in [Msgs -> ReplyRec]
  /\ past \in [gave_up : BOOLEAN, lost : BOOLEAN, removed : BOOLEAN, overflowed : BOOLEAN]
  /\ op.pc = "await" => cl.sock # None
  /\ cl.recovering => cl.had

-----------------------------------------------------------------------------
(* Safety.                                                                 *)

(* A session applies each message at most once and in the order they were  *)
(* made, whichever of its connections bring them.  (Session.execute and    *)
(* the generation check of serve_connection.)                              *)
RunsInOrder ==
  \A s \in Sessions : \A i, j \in DOMAIN ran[s] : i < j => ran[s][i] < ran[s][j]

(* Unless the client raised that the server is out of reach or the session *)
(* lost, what a session applied is everything made so far, from the first  *)
(* message on, without a gap: the replay buffer, its limit and the         *)
(* acknowledgements it asks for lose nothing.  (_append, _reconnect.)      *)
NothingSkipped ==
  ~past.gave_up /\ ~past.lost
    => \A s \in Sessions : \A i \in DOMAIN ran[s] : ran[s][i] = i

(* Also when a recovery was given up, and the call that was waiting raised  *)
(* it: "the server applies them in order, so an op sent without waiting    *)
(* still runs after everything before it" (session.py), as far as what     *)
(* comes before was itself sent without waiting.                           *)
AppliedAfterEverythingBefore ==
  ~past.lost => \A s \in Sessions : \A m \in ToSet(ran[s]) :
    \A n \in 1 .. m : ~Waits(issued[n]) => n \in ToSet(ran[s])

(* What a wait is told is the first failure since the last message that    *)
(* was waited for, in a session that applied both: neither told twice, nor *)
(* missed, nor another's.  (first_error, last_reply.)                      *)
Since(s, w)    == {n \in ToSet(ran[s]) : n < w /\ \A m \in ToSet(ran[s]) : n <= m /\ m < w => ~Waits(issued[m])}
Failures(s, w) == {n \in Since(s, w) : issued[n] = "bad"}

AnswersAreTrue ==
  \A w \in Msgs : told[w] # NoReply =>
    /\ told[w].n = w
    /\ \E s \in Sessions :
         /\ w \in ToSet(ran[s])
         /\ told[w].err = IF Failures(s, w) = {} THEN None ELSE Min(Failures(s, w))

(* While the client waits on a connection that is served, its answer is on *)
(* the way, or the message is and will be answered: it never waits for the *)
(* timeout of a peer that has nothing to say.  (The kept reply, what is    *)
(* replayed, and who may serve.)                                           *)
NeverWaitsInVain ==
  op.pc = "await" /\ link[cl.sock] = "open" /\ MayServe(cl.sock) =>
    \/ \E r \in ToSet(down[cl.sock]) : r.n = op.wait
    \/ /\ ~AlreadyApplied(sess[th[cl.sock].s], op.wait)
       /\ op.wait \in ToSet(th[cl.sock].batch) \union UNION {ToSet(b) : b \in ToSet(up[cl.sock])}

(* A session whose connection is being served is not left to the reaper by *)
(* another connection that ends, as long as no session was removed.        *)
(* (Registry.detach.)                                                      *)
ServedIsAttached ==
  ~past.removed => \A c \in Conns : th[c].pc = "serving" /\ MayServe(c) => ~reg.detached

(* The client is told that its session is lost only when the server did    *)
(* remove it, or the replay limit was passed.  (_connect, _reconnect.)     *)
LostIsTrue == past.lost => past.removed \/ past.overflowed
=============================================================================
