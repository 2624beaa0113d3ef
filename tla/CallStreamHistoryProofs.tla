------------------------ MODULE CallStreamHistoryProofs ----------------------
(***************************************************************************)
(* What has run, and what the application is told of it.                   *)
(*                                                                         *)
(* Nothing is skipped: when a request runs, every earlier one has run or   *)
(* was reported lost.  The inductive invariant is SkipsInv.  It follows    *)
(* every request that is not done yet through the places it may be in: in  *)
(* the replay buffer at any rate, and on a connection that works in the    *)
(* queue or on its way too, ahead of every later one.                      *)
(*                                                                         *)
(* And what is told is true, told once, and nothing is forgotten.  The     *)
(* invariant is TruthInv.  What a call is answered is a function of what   *)
(* ran, was made and failed (AnswerTo); a session holds for each thread    *)
(* the first failure it was not told of, and every reply, wherever it is,  *)
(* is the answer to its call.                                              *)
(***************************************************************************)
EXTENDS CallStreamProofs

(* A session that may still run something; how far it got, with what it    *)
(* has in its hands; a call the application was told failed.               *)
Alive(s) == sess[s].pc \notin {"none", "ended", "dead"}
GotTo(s) == IF sess[s].pc \in {"run", "record"} THEN sess[s].cur ELSE sess[s].last_req
Lost(m)  == IsCall(m) /\ told[m] = Unknown

(* A session has done all it got to, but for what was lost, and tells of   *)
(* nothing else that it is done.                                           *)
DoneInv(s) ==
  /\ \A m \in 1 .. GotTo(s) :
       m \in Elems(ran[s]) \/ Lost(m) \/ (sess[s].pc = "run" /\ m = sess[s].cur)
  /\ \A c \in Conns :
       /\ acc[c].pc \in {"reply", "resend"} => acc[c].snap <= GotTo(s)
       /\ \A i \in DOMAIN down[c] : down[c][i].n <= GotTo(s)

(* Before a request on a connection is every one that is not done yet.     *)
GapFree(s, c) ==
  \A i \in DOMAIN up[c] : \A m \in 1 .. up[c][i] - 1 :
    m <= GotTo(s) \/ Lost(m) \/ m \in Elems(up[c])

(* The client still has all that is not done, and on a connection that     *)
(* works, all of it was sent or is queued.                                 *)
KeepsRest(s)   == \A m \in Made : m <= GotTo(s) \/ Lost(m) \/ m \in Elems(unacked)
SentRest(s, c) == live[c] =>
  \A m \in Made : m <= GotTo(s) \/ Lost(m) \/ m \in Elems(up[c]) \/ m \in Elems(queued)

(* Requests are on a connection in order, and queued after those sent.     *)
SentInOrder(c) ==
  /\ InOrder(up[c])
  /\ c = fd => \A i \in DOMAIN up[c], j \in DOMAIN queued : up[c][i] < queued[j]

(* Without a session nothing was asked for or told; only for a call does   *)
(* the client connect again, or wait.                                      *)
FirstInv ==
  /\ ~had_session => issued = <<>>
  /\ made = 0 => \A c \in Conns : \A i \in DOMAIN down[c] : down[c][i].n = 0
  /\ \A s \in Sessions : sess[s].pc = "none" => sess[s].last_req = 0
  /\ op.n # 0 /\ op.pc \in {"connect", "hello", "recv"} => IsCall(op.n)

NoneSkipped(s) ==
  /\ DoneInv(s) /\ KeepsRest(s)
  /\ \A c \in Conns : GapFree(s, c) /\ (c = fd => SentRest(s, c))

SkipsInv ==
  /\ FirstInv
  /\ \A c \in Conns : SentInOrder(c)
  /\ replay_possible =>
       NothingSkipped /\ \A s \in Sessions : Alive(s) => NoneSkipped(s)

(* At the start nothing was asked for.                                     *)
LEMMA SkipsInit == Init => SkipsInv
<1> SUFFICES ASSUME Init PROVE SkipsInv
  OBVIOUS
<1>1. /\ issued = <<>> /\ made = 0 /\ op.n = 0
      /\ \A c \in Conns : up[c] = <<>> /\ down[c] = <<>>
      /\ \A s \in Sessions : sess[s].pc = "none" /\ sess[s].last_req = 0 /\ ran[s] = <<>>
  BY DEF Init, Idle, NoSession
<1>2. DOMAIN <<>> = {}
  OBVIOUS
<1>3. NothingSkipped
  BY <1>1, <1>2 DEF NothingSkipped, Elems
<1>4. QED
  BY <1>1, <1>2, <1>3 DEF SkipsInv, FirstInv, SentInOrder, InOrder, Alive

-----------------------------------------------------------------------------
(* Frames in order, and what is left of them.                              *)

(* forget_acked_locked keeps what is past up_to.                           *)
LEMMA ForgetAckedKeeps ==
  ASSUME NEW frames \in Seq(Reqs), NEW up_to \in 0 .. MaxReq,
         NEW n \in Elems(frames), n > up_to
  PROVE  n \in Elems(ForgetAcked(frames, up_to))
<1>1. PICK i \in DOMAIN frames : frames[i] = n
  BY DEF Elems
<1>2. i \in 1 .. Len(frames) /\ n \in Reqs /\ Len(frames) \in Nat
  BY <1>1, LenProperties
<1>3. ~AtOrBefore(n, up_to)
  BY <1>2, AtOrBeforeIsOrder, Bounds DEF Reqs
<1>4. PICK first \in 1 .. Len(frames) :
         /\ ForgetAcked(frames, up_to) = SubSeq(frames, first, Len(frames))
         /\ first <= i
  BY <1>1, <1>2, <1>3, ForgetAckedIsRest
<1>5. /\ i - first + 1 \in DOMAIN SubSeq(frames, first, Len(frames))
      /\ SubSeq(frames, first, Len(frames))[i - first + 1] = frames[i]
  BY <1>2, <1>4, LenProperties
<1>6. QED
  BY <1>1, <1>4, <1>5 DEF Elems

(* abandon_call_locked keeps all but the call.                             *)
LEMMA WithoutCallKeeps ==
  ASSUME NEW frames \in Seq(Reqs), NEW n, NEW m \in Elems(frames), m # n
  PROVE  m \in Elems(WithoutCall(frames, n))
<1>1. PICK i \in DOMAIN frames : frames[i] = m
  BY DEF Elems
<1>2. PICK k : k = Len(frames)
  OBVIOUS
<1>3. k \in Nat /\ i \in 1 .. k
  BY <1>2, LenProperties
<1>4. CASE frames # <<>> /\ frames[k] = n
  <2>1. WithoutCall(frames, n) = SubSeq(frames, 1, k - 1) /\ i \in 1 .. k - 1
    BY <1>1, <1>2, <1>3, <1>4 DEF WithoutCall
  <2>2. i \in DOMAIN SubSeq(frames, 1, k - 1) /\ SubSeq(frames, 1, k - 1)[i] = frames[i]
    BY <1>2, <1>3, <2>1, LenProperties
  <2>3. QED
    BY <1>1, <2>1, <2>2 DEF Elems
<1>5. CASE ~(frames # <<>> /\ frames[k] = n)
  BY <1>2, <1>5 DEF WithoutCall
<1>6. QED
  BY <1>4, <1>5

(* The elements of a sequence, one after another, and of its parts.        *)
LEMMA ElemsOfParts ==
  ASSUME NEW f \in Seq(Reqs), NEW g \in Seq(Reqs)
  PROVE  /\ Elems(f \o g) = Elems(f) \union Elems(g)
         /\ f # <<>> => Elems(f) = {Head(f)} \union Elems(Tail(f))
         /\ \A n \in Reqs : Elems(Append(f, n)) = Elems(f) \union {n}
<1>1. PICK k, l : k = Len(f) /\ l = Len(g)
  OBVIOUS
<1>2. k \in Nat /\ l \in Nat /\ DOMAIN f = 1 .. k /\ DOMAIN g = 1 .. l
  BY <1>1, LenProperties
<1>3. Elems(f \o g) = Elems(f) \union Elems(g)
  <2>1. PICK h : h = f \o g
    OBVIOUS
  <2>2. /\ DOMAIN h = 1 .. k + l
        /\ \A i \in 1 .. k : h[i] = f[i]
        /\ \A j \in 1 .. l : k + j \in DOMAIN h /\ h[k + j] = g[j]
        /\ \A i \in 1 .. k + l : i > k => i - k \in 1 .. l /\ h[i] = g[i - k]
    BY <1>1, <1>2, <2>1, ConcatProperties, LenProperties
  <2>3. \A i \in 1 .. k + l : i > k \/ i \in 1 .. k
    BY <1>2
  <2>4. 1 .. k \subseteq 1 .. k + l
    BY <1>2
  <2>5. Elems(h) \subseteq Elems(f) \union Elems(g)
    BY <1>2, <2>2, <2>3 DEF Elems
  <2>6. Elems(f) \union Elems(g) \subseteq Elems(h)
    BY <1>2, <2>2, <2>4 DEF Elems
  <2>7. QED
    BY <2>1, <2>5, <2>6
<1>4. f # <<>> => Elems(f) = {Head(f)} \union Elems(Tail(f))
  <2> SUFFICES ASSUME f # <<>> PROVE Elems(f) = {Head(f)} \union Elems(Tail(f))
    OBVIOUS
  <2>1. PICK r : r = Tail(f)
    OBVIOUS
  <2>2. k # 0 /\ Head(f) = f[1]
    BY <1>1, EmptySeq
  <2>3. DOMAIN r = 1 .. k - 1 /\ \A i \in 1 .. k - 1 : r[i] = f[i + 1]
    BY <1>1, <1>2, <2>1, <2>2, TailParts, LenProperties
  <2>4. \A i \in 1 .. k : i = 1 \/ (i - 1 \in 1 .. k - 1 /\ (i - 1) + 1 = i)
    BY <1>2
  <2>5. \A i \in 1 .. k - 1 : i + 1 \in 1 .. k
    BY <1>2
  <2>6. 1 \in 1 .. k
    BY <1>2, <2>2
  <2>7. Elems(f) \subseteq {f[1]} \union Elems(r)
    <3> SUFFICES ASSUME NEW i \in 1 .. k PROVE f[i] \in {f[1]} \union Elems(r)
      BY <1>2 DEF Elems
    <3>1. CASE i = 1
      BY <3>1
    <3>2. CASE i - 1 \in 1 .. k - 1
      <4>1. r[i - 1] = f[i]
        BY <2>3, <2>4, <3>2
      <4>2. QED
        BY <2>3, <3>2, <4>1 DEF Elems
    <3>3. QED
      BY <2>4, <3>1, <3>2
  <2>8. {f[1]} \union Elems(r) \subseteq Elems(f)
    BY <1>2, <2>3, <2>5, <2>6 DEF Elems
  <2>9. QED
    BY <2>1, <2>2, <2>7, <2>8
<1>5. ASSUME NEW n \in Reqs PROVE Elems(Append(f, n)) = Elems(f) \union {n}
  <2>1. PICK h : h = Append(f, n)
    OBVIOUS
  <2>2. DOMAIN h = 1 .. k + 1 /\ h[k + 1] = n /\ \A i \in 1 .. k : h[i] = f[i]
    BY <1>1, <1>2, <2>1, AppendProperties, LenProperties
  <2>3. /\ \A i \in 1 .. k + 1 : i = k + 1 \/ i \in 1 .. k
        /\ 1 .. k \subseteq 1 .. k + 1 /\ k + 1 \in 1 .. k + 1
    BY <1>2
  <2>4. QED
    BY <1>2, <2>1, <2>2, <2>3 DEF Elems
<1>6. QED
  BY <1>3, <1>4, <1>5

(* A first part of requests in order is in order, and has every request of *)
(* theirs that is before one it has.                                       *)
LEMMA PrefixInOrder ==
  ASSUME NEW f \in Seq(Reqs), InOrder(f), NEW k \in 0 .. Len(f)
  PROVE  LET g == SubSeq(f, 1, k) IN
         /\ g \in Seq(Reqs) /\ InOrder(g) /\ Elems(g) \subseteq Elems(f)
         /\ \A n \in Elems(g), m \in Elems(f) : m < n => m \in Elems(g)
<1>1. PICK g : g = SubSeq(f, 1, k)
  OBVIOUS
<1>2. /\ g \in Seq(Reqs) /\ k \in Nat /\ DOMAIN g = 1 .. k
      /\ \A i \in DOMAIN g : i \in DOMAIN f /\ i <= k /\ g[i] = f[i]
      /\ \A i \in DOMAIN f : i \in Nat /\ i >= 1 /\ f[i] \in Nat
  <2>1. k \in Nat
    BY LenProperties
  <2>2. QED
    BY <1>1, <2>1, PrefixParts, LenProperties, Bounds DEF Reqs
<1>3. InOrder(g) /\ Elems(g) \subseteq Elems(f)
  BY <1>2 DEF InOrder, Elems
<1>4. ASSUME NEW n \in Elems(g), NEW m \in Elems(f), m < n PROVE m \in Elems(g)
  <2>1. PICK i \in DOMAIN g : g[i] = n
    BY DEF Elems
  <2>2. PICK j \in DOMAIN f : f[j] = m
    BY DEF Elems
  <2>3. i \in DOMAIN f /\ f[i] = n /\ i <= k
    BY <1>2, <2>1
  <2>4. ~(i < j) /\ i # j
    BY <1>2, <1>4, <2>2, <2>3 DEF InOrder
  <2>5. j \in DOMAIN g
    BY <1>2, <2>2, <2>3, <2>4
  <2>6. QED
    BY <1>2, <2>2, <2>5 DEF Elems
<1>5. QED
  BY <1>1, <1>2, <1>3, <1>4

-----------------------------------------------------------------------------
(* What a step leaves on a connection.                                     *)

(* What becomes of a connection, but for what is sent on it: its end is    *)
(* cut off, or its first request is read.                                  *)
Cut(c)  == \E k \in 0 .. Len(up[c]) : up'[c] = SubSeq(up[c], 1, k)
Read(c) == up[c] # <<>> /\ up'[c] = Tail(up[c])
Same(c) == up'[c] = up[c] \/ Cut(c)

(* What is left of a connection is still in order, and all of it that is   *)
(* before a request that is left is left, but for the one that was read.   *)
LEMMA LeftInOrder ==
  ASSUME TypeOK, NEW c \in Conns, InOrder(up[c]), Same(c) \/ Read(c)
  PROVE  /\ InOrder(up'[c])
         /\ \A i \in DOMAIN up'[c] :
              /\ \E j \in DOMAIN up[c] : up[c][j] = up'[c][i]
              /\ up'[c][i] \in Reqs
              /\ \A m \in Elems(up[c]) :
                   m < up'[c][i] => m \in Elems(up'[c]) \/ (m = Head(up[c]) /\ ~Same(c))
<1>1. PICK f, g : f = up[c] /\ g = up'[c]
  OBVIOUS
<1>2. f \in Seq(Reqs) /\ InOrder(f)
  <2>1. f \in Seq(Made) /\ Made \subseteq Reqs
    BY <1>1, FramesMade DEF TypeOK, NetTypeOK
  <2>2. QED
    BY <1>1, <2>1
<1>3. \A i \in DOMAIN f : i \in Nat /\ i >= 1 /\ f[i] \in Reqs /\ f[i] \in Nat
  BY <1>2, LenProperties, Bounds DEF Reqs
<1>4. CASE g = f
  BY <1>1, <1>2, <1>3, <1>4 DEF Elems
<1>5. CASE Cut(c)
  <2>1. PICK k \in 0 .. Len(f) : g = SubSeq(f, 1, k)
    BY <1>1, <1>5 DEF Cut
  <2>2. /\ g \in Seq(Reqs) /\ InOrder(g) /\ Elems(g) \subseteq Elems(f)
        /\ \A n \in Elems(g), m \in Elems(f) : m < n => m \in Elems(g)
    BY <1>2, <2>1, PrefixInOrder
  <2>3. \A i \in DOMAIN g : g[i] \in Elems(g)
    BY DEF Elems
  <2>4. \A i \in DOMAIN g : \E j \in DOMAIN f : f[j] = g[i]
    BY <2>2, <2>3 DEF Elems
  <2>5. QED
    BY <1>1, <1>3, <2>2, <2>3, <2>4
<1>6. CASE Read(c) /\ ~Same(c)
  <2>1. f # <<>> /\ g = Tail(f)
    BY <1>1, <1>6 DEF Read
  <2>2. /\ Head(f) = f[1] /\ 1 \in DOMAIN f
        /\ \A i \in DOMAIN g : i \in Nat /\ i >= 1 /\ i + 1 \in DOMAIN f /\ g[i] = f[i + 1]
    BY <1>2, <2>1, TailParts
  <2>3. InOrder(g)
    <3> SUFFICES ASSUME NEW i \in DOMAIN g, NEW j \in DOMAIN g, i < j PROVE g[i] < g[j]
      BY DEF InOrder
    <3>1. i + 1 < j + 1
      BY <2>2
    <3>2. QED
      BY <1>2, <2>2, <3>1 DEF InOrder
  <2>4. Elems(f) = {Head(f)} \union Elems(g)
    BY <1>2, <2>1, ElemsOfParts
  <2>5. QED
    BY <1>1, <1>3, <1>6, <2>2, <2>3, <2>4
<1>7. QED
  BY <1>1, <1>4, <1>5, <1>6 DEF Same

(* A step that sends nothing on connection c leaves it in order.           *)
LEMMA InOrderKept ==
  ASSUME TypeOK, NEW c \in Conns, SentInOrder(c), Same(c) \/ Read(c),
         c = fd' => c = fd /\ queued' \in {queued, <<>>}
  PROVE  SentInOrder(c)'
<1>1. InOrder(up'[c]) /\ \A i \in DOMAIN up'[c] : \E j \in DOMAIN up[c] : up[c][j] = up'[c][i]
  BY LeftInOrder DEF SentInOrder
<1>2. DOMAIN <<>> = {}
  OBVIOUS
<1>3. QED
  BY <1>1, <1>2 DEF SentInOrder

(* Nor does it leave a gap.                                                *)
LEMMA GapKept ==
  ASSUME TypeOK, NEW s \in Sessions, NEW c \in Conns, InOrder(up[c]), GapFree(s, c),
         GotTo(s) \in Nat, GotTo(s)' \in Nat, GotTo(s) <= GotTo(s)',
         \A m \in Reqs : Lost(m) => Lost(m)',
         Same(c) \/ (Read(c) /\ Head(up[c]) <= GotTo(s)')
  PROVE  GapFree(s, c)'
<1> SUFFICES ASSUME NEW i \in DOMAIN up'[c], NEW m \in 1 .. up'[c][i] - 1
             PROVE  m <= GotTo(s)' \/ Lost(m)' \/ m \in Elems(up'[c])
  BY DEF GapFree
<1>1. Same(c) \/ Read(c)
  OBVIOUS
<1>2. PICK j \in DOMAIN up[c] : up[c][j] = up'[c][i]
  BY <1>1, LeftInOrder
<1>3. /\ up'[c][i] \in Reqs
      /\ m \in Elems(up[c]) /\ m < up'[c][i] =>
           m \in Elems(up'[c]) \/ (m = Head(up[c]) /\ ~Same(c))
  BY <1>1, LeftInOrder
<1>4. m \in Reqs /\ m \in Nat /\ m < up'[c][i]
  BY <1>3, Bounds DEF Reqs
<1>5. m <= GotTo(s) \/ Lost(m) \/ m \in Elems(up[c])
  BY <1>2 DEF GapFree
<1>6. CASE m <= GotTo(s)
  BY <1>4, <1>6
<1>7. CASE Lost(m)
  BY <1>4, <1>7
<1>8. CASE m \in Elems(up[c])
  BY <1>3, <1>4, <1>8
<1>9. QED
  BY <1>5, <1>6, <1>7, <1>8

(* Nor does a connection that works lose anything that is not done.        *)
LEMMA SentKept ==
  ASSUME TypeOK, NEW s \in Sessions, NEW c \in Conns, SentRest(s, c),
         GotTo(s) \in Nat, GotTo(s)' \in Nat, GotTo(s) <= GotTo(s)',
         issued' = issued, queued' = queued, told' = told,
         live'[c] => live[c] /\ (up'[c] = up[c] \/ (Read(c) /\ Head(up[c]) <= GotTo(s)'))
  PROVE  SentRest(s, c)'
<1> SUFFICES ASSUME live'[c], NEW m \in Made
             PROVE  m <= GotTo(s)' \/ Lost(m)' \/ m \in Elems(up'[c]) \/ m \in Elems(queued')
  BY DEF SentRest, Made
<1>1. Made \subseteq Reqs /\ m \in Nat /\ up[c] \in Seq(Reqs)
  <2>1. Made \subseteq Reqs
    BY FramesMade
  <2>2. up[c] \in Seq(Made)
    BY DEF TypeOK, NetTypeOK
  <2>3. QED
    BY <2>1, <2>2, Bounds DEF Reqs
<1>2. m <= GotTo(s) \/ Lost(m) \/ m \in Elems(up[c]) \/ m \in Elems(queued)
  BY DEF SentRest
<1>3. Lost(m)' <=> Lost(m)
  BY DEF Lost, IsCall, NoReply
<1>4. m \in Elems(up[c]) => m \in Elems(up'[c]) \/ m <= GotTo(s)'
  BY <1>1, ElemsOfParts DEF Read
<1>5. QED
  BY <1>1, <1>2, <1>3, <1>4

-----------------------------------------------------------------------------
(* The serving threads.                                                    *)

(* How a serving thread goes on, and what it does to the connections.      *)
LEMMA ServeGoes ==
  ASSUME TypeOK, OrderInv, KeptInv, NEW s \in Sessions, Serve(s)
  PROVE  /\ GotTo(s) \in Nat /\ GotTo(s)' \in Nat
         /\ Alive(s)' => Alive(s) /\ GotTo(s) <= GotTo(s)'
         /\ \A c \in Conns : \/ up'[c] = up[c] /\ (live'[c] => live[c])
                             \/ Cut(c) /\ ~live'[c]
                             \/ /\ Read(c) /\ (live'[c] => live[c])
                                /\ Head(up[c]) <= GotTo(s)'
         /\ \A c \in Conns : \/ down'[c] = down[c]
                             \/ \E m \in Replies : /\ m.n <= GotTo(s)' /\ m.n \in Nat
                                                   /\ down'[c] = down[c] \o <<m>>
         /\ \/ /\ ran' = ran /\ sess[s].pc # "run" /\ sess'[s].pc # "run"
               /\ Alive(s)' => GotTo(s)' = GotTo(s)
            \/ TakeRequest(s) \/ Run(s)
<1>1. /\ sess \in [Sessions -> SessionRec] /\ live \in [Conns -> BOOLEAN]
      /\ up \in [Conns -> Seq(Made)] /\ down \in [Conns -> Seq(Message)]
      /\ sess[s] \in SessionRec
  BY DEF TypeOK, ServerTypeOK, NetTypeOK
<1>2. sess[s].last_req \in Nat /\ sess[s].cur \in Nat /\ sess[s].reply.n \in Nat
      /\ sess[s].reply \in Replies
  BY <1>1, Bounds DEF SessionRec, Replies
<1>3. sess[s].pc \in {"run", "record"} => sess[s].last_req < sess[s].cur
  BY DEF OrderInv, SessionInv
<1>4. sess[s].reply.n <= sess[s].last_req
  BY <1>2 DEF KeptInv
<1>5. PICK f : f = sess[s].fd
  OBVIOUS
\* A step that leaves the connections alone.
<1>6. ASSUME UNCHANGED <<up, down, live>>
      PROVE  /\ \A c \in Conns : up'[c] = up[c] /\ (live'[c] => live[c])
             /\ \A c \in Conns : down'[c] = down[c]
  BY <1>6
\* The connection is given up.
<1>7. ASSUME Hangup(s), up' = [up EXCEPT ![f] = <<>>] \/ up' = up
      PROVE  /\ sess'[s].pc = "waiting" /\ sess'[s].last_req = sess[s].last_req
             /\ sess'[s].cur = sess[s].cur
             /\ \A c \in Conns : \/ up'[c] = up[c] /\ (live'[c] => live[c])
                                 \/ Cut(c) /\ ~live'[c]
  <2>1. sess'[s].pc = "waiting" /\ sess'[s].last_req = sess[s].last_req
        /\ sess'[s].cur = sess[s].cur
    BY <1>1, <1>7 DEF Hangup, SessionRec
  <2>2. live' = [live EXCEPT ![f] = FALSE]
    BY <1>5, <1>7 DEF Hangup
  <2>3. ASSUME NEW c \in Conns
        PROVE  (up'[c] = up[c] /\ (live'[c] => live[c])) \/ (Cut(c) /\ ~live'[c])
    <3>1. CASE up'[c] = up[c]
      BY <1>1, <2>2, <3>1
    <3>2. CASE up'[c] # up[c]
      <4>1. c = f /\ up'[c] = <<>>
        BY <1>1, <1>7, <3>2
      <4>2. <<>> = SubSeq(up[c], 1, 0) /\ 0 \in 0 .. Len(up[c])
        BY <1>1, LenProperties
      <4>3. QED
        BY <1>1, <2>2, <4>1, <4>2 DEF Cut
    <3>3. QED
      BY <3>1, <3>2
  <2>4. QED
    BY <2>1, <2>3
\* A message is sent on the connection, which may be lost.
<1>8. ASSUME Write(f, <<sess[s].reply>>)
      PROVE  \A c \in Conns : \/ down'[c] = down[c]
                              \/ \E m \in Replies : /\ m.n <= sess[s].last_req /\ m.n \in Nat
                                                    /\ down'[c] = down[c] \o <<m>>
  <2>1. down' = IF live[f] THEN [down EXCEPT ![f] = @ \o <<sess[s].reply>>] ELSE down
    BY <1>8 DEF Write
  <2>2. \A c \in Conns : down'[c] = down[c] \/ down'[c] = down[c] \o <<sess[s].reply>>
    BY <1>1, <2>1
  <2>3. QED
    BY <1>2, <1>4, <2>2
\* The first request on the connection is read.
<1>9. ASSUME Reading(s), Consume(s), UNCHANGED live, Head(up[f]) <= GotTo(s)'
      PROVE  \A c \in Conns : \/ up'[c] = up[c] /\ (live'[c] => live[c])
                              \/ /\ Read(c) /\ (live'[c] => live[c])
                                 /\ Head(up[c]) <= GotTo(s)'
  <2>1. up' = [up EXCEPT ![f] = Tail(@)] /\ up[f] # <<>>
    BY <1>5, <1>9 DEF Consume, Reading
  <2>2. QED
    BY <1>1, <1>9, <2>1 DEF Read
<1>10. CASE TakeUp(s) \/ Expire(s) \/ Leave(s)
  <2>1. UNCHANGED <<up, down, live, ran>> /\ sess[s].pc \in {"waiting", "ended"}
    BY <1>10 DEF TakeUp, Expire, Leave, netVars
  <2>2. /\ sess'[s].pc \in {"reading", "ended", "dead"} /\ sess'[s].last_req = sess[s].last_req
        /\ sess'[s].pc = "reading" => sess[s].pc = "waiting"
    BY <1>1, <1>10 DEF TakeUp, Expire, Leave, SessionRec
  <2>3. QED
    BY <1>2, <1>6, <2>1, <2>2 DEF GotTo, Alive
<1>11. CASE RecordAsync(s) \/ RecordCall(s)
  <2>1. UNCHANGED <<up, down, live, ran>> /\ sess[s].pc = "record"
    BY <1>11 DEF RecordAsync, RecordCall, netVars
  <2>2. PICK pc, r : sess' = [sess EXCEPT ![s].pc = pc, ![s].last_req = sess[s].cur,
                            ![s].reply = r, ![s].cur = 0, ![s].result = 0]
                     /\ pc \in {"reading", "send"}
    <3>1. CASE RecordAsync(s)
      <4>1. sess' = [sess EXCEPT ![s].pc = "reading", ![s].last_req = sess[s].cur,
                                 ![s].cur = 0, ![s].result = 0]
        BY <3>1 DEF RecordAsync
      <4>2. sess' = [sess EXCEPT ![s].pc = "reading", ![s].last_req = sess[s].cur,
                            ![s].reply = sess[s].reply, ![s].cur = 0, ![s].result = 0]
        BY <1>1, <4>1 DEF SessionRec
      <4>3. QED
        BY <4>2
    <3>2. CASE RecordCall(s)
      BY <3>2 DEF RecordCall
    <3>3. QED
      BY <1>11, <3>1, <3>2
  <2>3. sess'[s].pc \in {"reading", "send"} /\ sess'[s].last_req = sess[s].cur
    BY <1>1, <2>2 DEF SessionRec
  <2>4. QED
    BY <1>2, <1>6, <2>1, <2>3 DEF GotTo, Alive
<1>12. CASE Run(s)
  <2>1. UNCHANGED <<up, down, live>> /\ sess[s].pc = "run"
    BY <1>12 DEF Run, netVars
  <2>2. PICK r : sess' = [sess EXCEPT ![s].pc = "record", ![s].result = r]
    BY <1>12 DEF Run
  <2>3. sess'[s].pc = "record" /\ sess'[s].cur = sess[s].cur
    BY <1>1, <2>2 DEF SessionRec
  <2>4. QED
    BY <1>2, <1>6, <1>12, <2>1, <2>3 DEF GotTo, Alive
<1>13. CASE EndConnection(s)
  <2>1. UNCHANGED <<up, down, ran>> /\ sess[s].pc = "reading" /\ Hangup(s)
    BY <1>13 DEF EndConnection
  <2>2. QED
    BY <1>2, <1>7, <2>1 DEF GotTo, Alive
<1>14. CASE SendReply(s)
  <2>1. sess[s].pc = "send" /\ ran' = ran
    BY <1>14 DEF SendReply
  <2>2. CASE Hangup(s) /\ up' = [up EXCEPT ![f] = <<>>] /\ UNCHANGED down
    BY <1>2, <1>7, <2>1, <2>2 DEF GotTo, Alive
  <2>3. CASE Write(f, <<sess[s].reply>>) /\ sess' = [sess EXCEPT ![s].pc = "reading"]
             /\ UNCHANGED <<live, up>>
    <3>1. sess'[s].pc = "reading" /\ sess'[s].last_req = sess[s].last_req
      BY <1>1, <2>3 DEF SessionRec
    <3>2. GotTo(s) = sess[s].last_req /\ GotTo(s)' = sess[s].last_req
      BY <2>1, <3>1 DEF GotTo
    <3>3. \A c \in Conns : \/ down'[c] = down[c]
                           \/ \E m \in Replies : /\ m.n <= GotTo(s)' /\ m.n \in Nat
                                                 /\ down'[c] = down[c] \o <<m>>
      BY <1>8, <2>3, <3>2
    <3>4. GotTo(s) \in Nat /\ GotTo(s)' \in Nat /\ GotTo(s) = GotTo(s)' /\ Alive(s)
          /\ sess[s].pc # "run" /\ sess'[s].pc # "run"
      BY <1>2, <2>1, <3>1, <3>2 DEF Alive
    <3>5. \A c \in Conns : up'[c] = up[c] /\ (live'[c] => live[c])
      BY <2>3
    <3>6. GotTo(s) <= GotTo(s)'
      BY <3>4
    <3>7. QED
      BY <2>1, <3>3, <3>4, <3>5, <3>6
  <2>4. QED
    BY <1>5, <1>14, <2>2, <2>3 DEF SendReply
<1>15. Reading(s) => /\ sess[s].pc = "reading" /\ up[f] # <<>> /\ Head(up[f]) = Next1(s)
                     /\ Next1(s) \in 0 .. MaxReq /\ Next1(s) \in Nat
                     /\ (AlreadyRan(s, Next1(s)) <=> Next1(s) <= sess[s].last_req)
  <2> SUFFICES ASSUME Reading(s)
               PROVE  /\ sess[s].pc = "reading" /\ up[f] # <<>> /\ Head(up[f]) = Next1(s)
                      /\ Next1(s) \in 0 .. MaxReq /\ Next1(s) \in Nat
                      /\ (AlreadyRan(s, Next1(s)) <=> Next1(s) <= sess[s].last_req)
    OBVIOUS
  <2>1. sess[s].pc = "reading" /\ up[f] # <<>> /\ Next1(s) = Head(up[f])
    BY <1>5 DEF Reading, Next1
  <2>2. f \in Conns
    <3>1. sess[s].fd # None
      BY <2>1 DEF TypeOK, ServerTypeOK, Serving
    <3>2. sess[s].fd \in 0 .. MaxConns
      BY <1>1 DEF SessionRec
    <3>3. QED
      BY <1>5, <3>1, <3>2, Bounds DEF None, Conns
  <2>3. Head(up[f]) \in Made /\ Made \subseteq Reqs
    BY <1>1, <2>1, <2>2, FramesMade, TailParts
  <2>4. sess[s].last_req \in 0 .. MaxReq
    BY <1>1 DEF SessionRec
  <2>5. Next1(s) \in 1 .. MaxReq
    BY <2>1, <2>3 DEF Reqs
  <2>6. Next1(s) \in 0 .. MaxReq /\ Next1(s) \in Nat
    BY <2>5, Bounds
  <2>7. QED
    BY <2>1, <2>4, <2>6, AtOrBeforeIsOrder DEF AlreadyRan
<1>16. CASE SkipCopy(s) \/ AnswerCopy(s)
  <2>1. /\ Reading(s) /\ ran' = ran /\ AlreadyRan(s, Next1(s))
    BY <1>16 DEF SkipCopy, AnswerCopy, serverVars
  <2>2. CASE Consume(s) /\ UNCHANGED <<sess, live>>
             /\ (UNCHANGED down \/ Write(f, <<sess[s].reply>>))
    <3>1. GotTo(s)' = sess[s].last_req /\ GotTo(s) = sess[s].last_req
      BY <1>15, <2>1, <2>2 DEF GotTo
    <3>2. Head(up[f]) <= GotTo(s)'
      BY <1>15, <2>1, <3>1
    <3>3. \A c \in Conns : \/ down'[c] = down[c]
                           \/ \E m \in Replies : /\ m.n <= GotTo(s)' /\ m.n \in Nat
                                                 /\ down'[c] = down[c] \o <<m>>
      BY <1>8, <2>2, <3>1
    <3>4. \A c \in Conns : \/ up'[c] = up[c] /\ (live'[c] => live[c])
                           \/ /\ Read(c) /\ (live'[c] => live[c])
                              /\ Head(up[c]) <= GotTo(s)'
      BY <1>9, <2>1, <2>2, <3>2
    <3>5. GotTo(s) \in Nat /\ GotTo(s)' \in Nat /\ GotTo(s) = GotTo(s)' /\ Alive(s)
          /\ sess[s].pc # "run" /\ sess'[s].pc # "run"
      BY <1>2, <1>15, <2>1, <2>2, <3>1 DEF Alive
    <3>6. GotTo(s) <= GotTo(s)'
      BY <3>5
    <3>7. QED
      BY <2>1, <3>3, <3>4, <3>5, <3>6
  <2>3. CASE Hangup(s) /\ up' = [up EXCEPT ![f] = <<>>] /\ UNCHANGED down
    BY <1>2, <1>7, <1>15, <2>1, <2>3 DEF GotTo, Alive
  <2>4. QED
    BY <1>5, <1>16, <2>2, <2>3 DEF SkipCopy, AnswerCopy, serverVars
<1>17. CASE TakeRequest(s)
  <2>1. /\ Reading(s) /\ ~AlreadyRan(s, Next1(s)) /\ Consume(s) /\ UNCHANGED <<live, down>>
        /\ sess' = [sess EXCEPT ![s].pc = "run", ![s].cur = Next1(s)]
    BY <1>17 DEF TakeRequest
  <2>2. sess'[s].pc = "run" /\ sess'[s].cur = Next1(s)
    BY <1>1, <2>1 DEF SessionRec
  <2>3. GotTo(s)' = Head(up[f]) /\ GotTo(s) = sess[s].last_req
    BY <1>15, <2>1, <2>2 DEF GotTo
  <2>4. QED
    BY <1>2, <1>9, <1>15, <1>17, <2>1, <2>2, <2>3 DEF Alive
<1>18. QED
  BY <1>10, <1>11, <1>12, <1>13, <1>14, <1>16, <1>17 DEF Serve

(* A message sent tells of nothing that is not done.                       *)
LEMMA ToldOfDone ==
  ASSUME NEW k \in Nat, NEW k1 \in Nat, k <= k1, NEW f \in Seq(Message), NEW g,
         \A i \in DOMAIN f : f[i].n <= k,
         g = f \/ \E m \in Message : m.n <= k1 /\ g = f \o <<m>>
  PROVE  \A i \in DOMAIN g : g[i].n <= k1
<1>1. ASSUME NEW i \in DOMAIN f PROVE f[i].n \in Nat
  <2>1. f[i] \in Message
    BY LenProperties
  <2>2. QED
    BY <2>1, Bounds DEF Message
<1>2. CASE g = f
  BY <1>1, <1>2
<1>3. CASE \E m \in Message : m.n <= k1 /\ g = f \o <<m>>
  <2>1. PICK m \in Message : m.n <= k1 /\ g = f \o <<m>>
    BY <1>3
  <2>2. \A i \in DOMAIN g : (i \in DOMAIN f /\ g[i] = f[i]) \/ g[i] = m
    BY <2>1, OneMore
  <2>3. QED
    BY <1>1, <2>1, <2>2
<1>4. QED
  BY <1>2, <1>3

(* A session that runs a request has run all before it that is not lost.   *)
LEMMA DoneServe ==
  ASSUME TypeOK, OrderInv, KeptInv, NEW s \in Sessions, Serve(s), Alive(s)',
         sess[s].finished <=> sess[s].pc \in {"ended", "dead"},
         DoneInv(s), \A c \in Conns : InOrder(up[c]) /\ GapFree(s, c)
  PROVE  DoneInv(s)'
<1>1. /\ UNCHANGED <<clientVars, acc>> /\ GotTo(s) \in Nat /\ GotTo(s)' \in Nat
      /\ Alive(s) /\ GotTo(s) <= GotTo(s)'
      /\ \A c \in Conns : \/ down'[c] = down[c]
                          \/ \E m \in Replies : /\ m.n <= GotTo(s)' /\ m.n \in Nat
                                                /\ down'[c] = down[c] \o <<m>>
  BY ServeMoves, ServeGoes
<1>2. \A m : Lost(m)' <=> Lost(m)
  BY <1>1 DEF Lost, IsCall, NoReply, clientVars
<1>3. ASSUME NEW m \in 1 .. GotTo(s)'
      PROVE  m \in Elems(ran'[s]) \/ Lost(m)' \/ (sess'[s].pc = "run" /\ m = sess'[s].cur)
  <2>1. m <= GotTo(s) => m \in Elems(ran[s]) \/ Lost(m) \/ (sess[s].pc = "run" /\ m = sess[s].cur)
    BY <1>1 DEF DoneInv
  <2>2. CASE ran' = ran /\ sess[s].pc # "run" /\ GotTo(s)' = GotTo(s)
    BY <1>1, <1>2, <2>1, <2>2
  <2>3. CASE TakeRequest(s)
    <3>1. /\ Reading(s) /\ ran' = ran
          /\ sess' = [sess EXCEPT ![s].pc = "run", ![s].cur = Next1(s)]
      BY <2>3 DEF TakeRequest
    <3>2. PICK d : d = sess[s].fd
      OBVIOUS
    <3>3. d \in Conns
      <4>1. d # None
        BY <3>1, <3>2 DEF Reading, TypeOK, ServerTypeOK, Serving
      <4>2. d \in 0 .. MaxConns
        BY <3>2 DEF TypeOK, ServerTypeOK, SessionRec
      <4>3. QED
        BY <4>1, <4>2, Bounds DEF None, Conns
    <3>4. InOrder(up[d]) /\ GapFree(s, d)
      BY <3>3
    <3>5. sess'[s].pc = "run" /\ sess'[s].cur = Head(up[d]) /\ up[d] # <<>>
          /\ sess[s].pc = "reading"
      BY <3>1, <3>2 DEF Next1, Reading, TypeOK, ServerTypeOK, SessionRec
    <3>6. GotTo(s)' = Head(up[d])
      BY <3>5 DEF GotTo
    <3>7. up[d] \in Seq(Reqs)
      <4>1. up[d] \in Seq(Made) /\ Made \subseteq Reqs
        BY <3>3, FramesMade DEF TypeOK, NetTypeOK
      <4>2. QED
        BY <4>1
    <3>8. 1 \in DOMAIN up[d] /\ Head(up[d]) = up[d][1]
      BY <3>5, <3>7, TailParts
    <3>9. \A n \in Elems(up[d]) : n \in Nat /\ n >= up[d][1]
      <4> SUFFICES ASSUME NEW j \in DOMAIN up[d] PROVE up[d][j] \in Nat /\ up[d][j] >= up[d][1]
        BY DEF Elems
      <4>1. j \in Nat /\ j >= 1 /\ up[d][j] \in Reqs /\ up[d][1] \in Reqs
        BY <3>7, <3>8, LenProperties
      <4>2. up[d][j] \in Nat /\ up[d][1] \in Nat
        BY <4>1, Bounds DEF Reqs
      <4>3. j = 1 \/ 1 < j
        BY <4>1
      <4>4. QED
        BY <3>8, <3>4, <4>2, <4>3 DEF InOrder
    <3>10. CASE m = up[d][1]
      BY <3>5, <3>8, <3>10
    <3>11. CASE m # up[d][1]
      <4>1. up[d][1] \in Nat /\ m \in Nat /\ m <= up[d][1] /\ m >= 1
        BY <1>1, <3>6, <3>8
      <4>2. m \in 1 .. up[d][1] - 1
        BY <3>11, <4>1
      <4>3. m <= GotTo(s) \/ Lost(m) \/ m \in Elems(up[d])
        BY <3>8, <3>4, <4>2 DEF GapFree
      <4>4. m \notin Elems(up[d])
        BY <3>9, <3>11, <4>1
      <4>5. QED
        BY <1>2, <2>1, <3>1, <3>5, <4>3, <4>4
    <3>12. QED
      BY <3>10, <3>11
  <2>4. CASE Run(s)
    <3>1. PICK r : sess' = [sess EXCEPT ![s].pc = "record", ![s].result = r]
      BY <2>4 DEF Run
    <3>2. sess[s].pc = "run" /\ ran' = [ran EXCEPT ![s] = Append(@, sess[s].cur)]
      BY <2>4 DEF Run
    <3>3. sess'[s].pc = "record" /\ sess'[s].cur = sess[s].cur
      BY <3>1 DEF TypeOK, ServerTypeOK, SessionRec
    <3>4. sess[s].cur \in Reqs /\ ran[s] \in Seq(Reqs)
          /\ ran'[s] = Append(ran[s], sess[s].cur)
      BY <3>2, FramesMade DEF TypeOK, ServerTypeOK
    <3>5. Elems(ran'[s]) = Elems(ran[s]) \union {sess[s].cur}
      BY <3>4, ElemsOfParts
    <3>6. GotTo(s)' = sess[s].cur /\ GotTo(s) = sess[s].cur
      BY <3>2, <3>3 DEF GotTo
    <3>7. QED
      BY <1>1, <1>2, <2>1, <3>5, <3>6
  <2>5. QED
    BY <2>2, <2>3, <2>4, ServeGoes
<1>4. ASSUME NEW c \in Conns
      PROVE  /\ acc'[c].pc \in {"reply", "resend"} => acc'[c].snap <= GotTo(s)'
             /\ \A i \in DOMAIN down'[c] : down'[c][i].n <= GotTo(s)'
  <2>1. acc[c].snap \in Nat /\ down[c] \in Seq(Message)
    BY Bounds DEF TypeOK, ServerTypeOK, NetTypeOK, AcceptRec
  <2>2. acc[c].pc \in {"reply", "resend"} => acc[c].snap <= GotTo(s)
    BY DEF DoneInv
  <2>3. \A i \in DOMAIN down[c] : down[c][i].n <= GotTo(s)
    BY DEF DoneInv
  <2>4. down'[c] = down[c] \/ \E m \in Message : m.n <= GotTo(s)' /\ down'[c] = down[c] \o <<m>>
    BY <1>1, RepliesAreMessages
  <2>5. \A i \in DOMAIN down'[c] : down'[c][i].n <= GotTo(s)'
    <3>1. PICK k, k1, f, g : k = GotTo(s) /\ k1 = GotTo(s)' /\ f = down[c] /\ g = down'[c]
      OBVIOUS
    <3>2. /\ k \in Nat /\ k1 \in Nat /\ k <= k1 /\ f \in Seq(Message)
          /\ \A i \in DOMAIN f : f[i].n <= k
          /\ g = f \/ \E m \in Message : m.n <= k1 /\ g = f \o <<m>>
      BY <1>1, <2>1, <2>3, <2>4, <3>1
    <3>3. \A i \in DOMAIN g : g[i].n <= k1
      BY <3>2, ToldOfDone
    <3>4. QED
      BY <3>1, <3>3
  <2>6. QED
    BY <1>1, <2>1, <2>2, <2>5
<1>5. QED
  BY <1>3, <1>4 DEF DoneInv

(* What a session runs is the first it was not asked for before.           *)
LEMMA RunsNext ==
  ASSUME TypeOK, NothingSkipped, NEW s \in Sessions, Run(s), DoneInv(s), OrderInv,
         \A m : Lost(m)' <=> Lost(m)
  PROVE  NothingSkipped'
<1>1. /\ sess[s].pc = "run" /\ sess[s].cur \in Reqs /\ ran \in [Sessions -> Seq(Reqs)]
      /\ ran' = [ran EXCEPT ![s] = Append(@, sess[s].cur)]
  BY FramesMade DEF Run, TypeOK, ServerTypeOK
<1>2. Elems(ran'[s]) = Elems(ran[s]) \union {sess[s].cur}
  BY <1>1, ElemsOfParts
<1>3. \A x \in Sessions : Elems(ran[x]) \subseteq Elems(ran'[x])
  BY <1>1, <1>2
<1>4. \A x \in Sessions : \A n \in Elems(ran'[x]) :
        n \in Elems(ran[x]) \/ (x = s /\ n = sess[s].cur)
  BY <1>1, <1>2
<1>5. \A m \in 1 .. sess[s].cur - 1 : m \in Elems(ran[s]) \/ Lost(m)
  <2>1. sess[s].cur \in Nat /\ GotTo(s) = sess[s].cur
    BY <1>1, Bounds DEF GotTo, Reqs
  <2>2. QED
    BY <1>1, <2>1 DEF DoneInv
<1>6. \A x \in Sessions : \A n \in Elems(ran'[x]) : \A m \in 1 .. n - 1 :
        m \in Elems(ran[x]) \/ Lost(m)
  BY <1>4, <1>5 DEF NothingSkipped, Lost
<1>7. QED
  BY <1>3, <1>6 DEF NothingSkipped, Lost

(* A step of a serving thread keeps SkipsInv.                              *)
LEMMA SkipsServe ==
  ASSUME TypeOK, OrderInv, SessionsInv, GoneInv, KeptInv, SkipsInv, NEW s \in Sessions, Serve(s)
  PROVE  SkipsInv'
<1>1. /\ sess[s].finished <=> sess[s].pc \in {"ended", "dead"}
      /\ UNCHANGED <<clientVars, dialed, acc, made>>
      /\ \A x \in Sessions \ {s} : sess'[x] = sess[x] /\ ran'[x] = ran[x]
      /\ sess[s].pc # "none" /\ sess'[s].pc # "none"
  BY ServeMoves DEF GoneInv
<1>2. \A m : Lost(m)' <=> Lost(m)
  BY <1>1 DEF Lost, IsCall, NoReply, clientVars
<1>3. \A c \in Conns : SentInOrder(c)'
  <2>1. \A c \in Conns : Same(c) \/ Read(c)
    BY ServeGoes DEF Same
  <2>2. fd' = fd /\ queued' = queued
    BY <1>1 DEF clientVars
  <2>3. QED
    BY <2>1, <2>2, InOrderKept DEF SkipsInv
<1>4. FirstInv'
  <2>1. made # 0
    <3>1. SessionInv(s)
      BY DEF OrderInv
    <3>2. ~(s > made) /\ s \in Nat /\ s >= 1 /\ made \in Nat
      BY <1>1, <3>1, Bounds DEF SessionInv, Sessions, TypeOK, ServerTypeOK
    <3>3. QED
      BY <3>2
  <2>2. \A x \in Sessions : sess'[x].pc = "none" => sess'[x].last_req = 0
    BY <1>1 DEF SkipsInv, FirstInv
  <2>3. QED
    BY <1>1, <2>1, <2>2 DEF SkipsInv, FirstInv, clientVars, IsCall, NoReply
<1>5. ASSUME replay_possible' PROVE NothingSkipped'
  <2>1. replay_possible /\ NothingSkipped
    BY <1>1, <1>5 DEF SkipsInv, clientVars
  <2>2. CASE ran' = ran
    BY <1>2, <2>1, <2>2 DEF NothingSkipped, Lost
  <2>3. CASE Run(s)
    <3>1. DoneInv(s)
      BY <2>1, <2>3 DEF SkipsInv, NoneSkipped, Alive, Run
    <3>2. QED
      BY <1>2, <2>1, <2>3, <3>1, RunsNext
  <2>4. CASE TakeRequest(s)
    BY <1>2, <2>1, <2>4 DEF NothingSkipped, Lost, TakeRequest
  <2>5. QED
    BY <2>2, <2>3, <2>4, ServeGoes
<1>6. ASSUME replay_possible', NEW x \in Sessions, Alive(x)'
      PROVE  NoneSkipped(x)'
  <2>1. x = s
    BY <1>1, <1>6, OneHolds DEF Alive
  <2>2. /\ GotTo(s) \in Nat /\ GotTo(s)' \in Nat /\ Alive(s) /\ GotTo(s) <= GotTo(s)'
        /\ \A c \in Conns : \/ up'[c] = up[c] /\ (live'[c] => live[c])
                            \/ Cut(c) /\ ~live'[c]
                            \/ /\ Read(c) /\ (live'[c] => live[c])
                               /\ Head(up[c]) <= GotTo(s)'
    BY <1>6, <2>1, ServeGoes
  <2>3. NoneSkipped(s) /\ \A c \in Conns : InOrder(up[c])
    BY <1>1, <1>6, <2>2 DEF SkipsInv, SentInOrder, clientVars
  <2>4. DoneInv(s)'
    BY <1>1, <1>6, <2>1, <2>3, DoneServe DEF NoneSkipped
  <2>5. KeepsRest(s)'
    <3>1. \A m \in Made : m \in Nat
      BY FramesMade, Bounds DEF Reqs
    <3>2. QED
      BY <1>1, <1>2, <2>2, <2>3, <3>1 DEF KeepsRest, NoneSkipped, Made, clientVars
  <2>6. ASSUME NEW c \in Conns PROVE GapFree(s, c)' /\ (c = fd' => SentRest(s, c)')
    <3>1. GapFree(s, c) /\ (c = fd => SentRest(s, c)) /\ InOrder(up[c])
      BY <2>3 DEF NoneSkipped
    <3>2. Same(c) \/ (Read(c) /\ Head(up[c]) <= GotTo(s)')
      BY <2>2 DEF Same
    <3>3. GapFree(s, c)'
      BY <1>2, <2>2, <3>1, <3>2, GapKept
    <3>4. live'[c] => live[c] /\ (up'[c] = up[c] \/ (Read(c) /\ Head(up[c]) <= GotTo(s)'))
      BY <2>2
    <3>5. UNCHANGED <<issued, queued, told, fd>>
      BY <1>1 DEF clientVars
    <3>6. QED
      BY <2>2, <3>1, <3>3, <3>4, <3>5, SentKept
  <2>7. QED
    BY <2>1, <2>4, <2>5, <2>6 DEF NoneSkipped
<1>7. QED
  BY <1>3, <1>4, <1>5, <1>6 DEF SkipsInv

-----------------------------------------------------------------------------
(* The accept threads, breaks and restarts.                                *)

(* An accept thread tells of what its snapshot says is done, and takes the *)
(* snapshot of what is done.                                               *)
LEMMA AcceptTells ==
  ASSUME TypeOK, KeptInv, NEW d \in Conns, Accept(d)
  PROVE  /\ \/ down'[d] = down[d]
            \/ \E m \in Message :
                 /\ down'[d] = down[d] \o <<m>>
                 /\ m.n = 0 \/ (acc[d].pc \in {"reply", "resend"} /\ m.n <= acc[d].snap)
         /\ acc'[d].pc \in {"reply", "resend"} =>
              \/ acc[d].pc = "snapshot" /\ acc'[d].snap = sess[acc[d].s].last_req
              \/ acc[d].pc \in {"reply", "resend"} /\ acc'[d].snap = acc[d].snap
         /\ \A x \in Sessions : sess'[x].last_req = sess[x].last_req
<1>1. /\ acc \in [Conns -> AcceptRec] /\ acc[d] \in AcceptRec
      /\ live \in [Conns -> BOOLEAN] /\ down \in [Conns -> Seq(Message)]
      /\ sess \in [Sessions -> SessionRec] /\ \A x \in Sessions : sess[x] \in SessionRec
  BY DEF TypeOK, ServerTypeOK, NetTypeOK
<1>2. \A m : Write(d, <<m>>) => down'[d] = down[d] \/ down'[d] = down[d] \o <<m>>
  BY <1>1 DEF Write
<1>3. HandshakeDone(d) => acc'[d].pc = "done"
  BY <1>1 DEF HandshakeDone, AcceptRec
<1>4. CASE HelloNeverArrives(d) \/ FindSession(d) \/ Snapshot(d)
  <2>1. down' = down /\ sess' = sess
    BY <1>4 DEF HelloNeverArrives, FindSession, Snapshot, netVars
  <2>2. CASE HelloNeverArrives(d)
    BY <1>3, <2>1, <2>2 DEF HelloNeverArrives
  <2>3. CASE FindSession(d)
    <3>1. acc'[d].pc = "snapshot"
      BY <1>1, <2>3 DEF FindSession, AcceptRec
    <3>2. QED
      BY <2>1, <3>1
  <2>4. CASE Snapshot(d)
    <3>1. PICK k : acc' = [acc EXCEPT ![d].pc = "reply", ![d].snap = sess[acc[d].s].last_req,
                                      ![d].kept = k]
      BY <2>4 DEF Snapshot
    <3>2. acc'[d].pc = "reply" /\ acc'[d].snap = sess[acc[d].s].last_req
      BY <1>1, <3>1 DEF AcceptRec
    <3>3. acc[d].pc = "snapshot"
      BY <2>4 DEF Snapshot
    <3>4. QED
      BY <2>1, <3>2, <3>3
  <2>5. QED
    BY <1>4, <2>2, <2>3, <2>4
<1>5. CASE StartSession(d)
  <2>1. /\ down' = down /\ sess' = [sess EXCEPT ![made + 1].pc = "starting"]
        /\ acc' = [acc EXCEPT ![d].pc = "snapshot", ![d].s = made + 1]
    BY <1>5 DEF StartSession, netVars
  <2>2. acc'[d].pc = "snapshot" /\ \A x \in Sessions : sess'[x].last_req = sess[x].last_req
    BY <1>1, <2>1 DEF AcceptRec, SessionRec
  <2>3. QED
    BY <2>1, <2>2
<1>6. CASE RefuseSession(d) \/ TellGone(d)
  <2>1. sess' = sess /\ acc'[d].pc = "done"
    BY <1>3, <1>6 DEF RefuseSession, TellGone
  <2>2. \E m \in Message : m.n = 0 /\ Write(d, <<m>>)
    <3>1. HelloReply("busy", 0) \in Message /\ HelloReply("fresh", 0) \in Message
          /\ HelloReply("busy", 0).n = 0 /\ HelloReply("fresh", 0).n = 0
      BY Bounds, HelloReplyType DEF HelloReply
    <3>2. QED
      BY <1>6, <3>1 DEF RefuseSession, TellGone
  <2>3. QED
    BY <1>2, <2>1, <2>2
<1>7. CASE WriteHello(d)
  <2>1. sess' = sess /\ acc[d].pc = "reply" /\ acc' = [acc EXCEPT ![d].pc = AfterReply(d)]
    BY <1>7 DEF WriteHello
  <2>2. acc'[d].snap = acc[d].snap
    BY <1>1, <2>1 DEF AcceptRec
  <2>3. PICK m : /\ m = HelloReply(IF acc[d].resumed THEN "resumed" ELSE "fresh", acc[d].snap)
                 /\ Write(d, <<m>>)
    BY <1>7 DEF WriteHello
  <2>4. acc[d].snap \in 0 .. MaxReq
    BY <1>1 DEF AcceptRec
  <2>5. m \in Message /\ m.n = acc[d].snap
    BY <2>3, <2>4, HelloReplyType DEF HelloReply
  <2>6. m.n <= acc[d].snap
    BY <2>4, <2>5, Bounds
  <2>7. QED
    BY <1>2, <2>1, <2>2, <2>3, <2>5, <2>6
<1>8. CASE ResendKept(d)
  <2>1. sess' = sess /\ acc[d].pc = "resend"
    BY <1>8 DEF ResendKept
  <2>2. acc' = [acc EXCEPT ![d].pc = "handover"] \/ HandshakeDone(d)
    BY <1>8 DEF ResendKept
  <2>3. acc'[d].pc \in {"handover", "done"}
    BY <1>1, <1>3, <2>2 DEF AcceptRec
  <2>4. acc[d].kept \in Message /\ acc[d].kept.n <= acc[d].snap
    BY <1>1, <2>1, RepliesAreMessages DEF KeptInv, AcceptRec
  <2>5. down' = down \/ Write(d, <<acc[d].kept>>)
    BY <1>8 DEF ResendKept
  <2>6. QED
    BY <1>2, <2>1, <2>3, <2>4, <2>5
<1>9. CASE WriteHelloFails(d)
  <2>1. down' = down /\ acc'[d].pc = "done"
    BY <1>3, <1>9 DEF WriteHelloFails
  <2>2. sess' = sess \/ \E s : sess' = [sess EXCEPT ![s].finished = TRUE, ![s].pc = "dead",
                                                    ![s].pending_fd = None]
    BY <1>9 DEF WriteHelloFails
  <2>3. \A x \in Sessions : sess'[x].last_req = sess[x].last_req
    <3>1. CASE sess' = sess
      BY <3>1
    <3>2. CASE sess' # sess
      <4>1. PICK s : sess' = [sess EXCEPT ![s].finished = TRUE, ![s].pc = "dead",
                                          ![s].pending_fd = None]
        BY <2>2, <3>2
      <4>2. QED
        BY <1>1, <4>1 DEF SessionRec
    <3>3. QED
      BY <3>1, <3>2
  <2>4. QED
    BY <2>1, <2>3
<1>10. CASE HandOver(d) \/ StartServing(d)
  <2>1. down' = down /\ acc'[d].pc = "done"
    BY <1>3, <1>10 DEF HandOver, StartServing
  <2>2. sess' = sess \/ \E s, pc : sess' = [sess EXCEPT ![s].pending_fd = d, ![s].pc = pc]
    BY <1>10 DEF HandOver, StartServing, Pend
  <2>3. \A x \in Sessions : sess'[x].last_req = sess[x].last_req
    <3>1. CASE sess' = sess
      BY <3>1
    <3>2. CASE sess' # sess
      <4>1. PICK s, pc : sess' = [sess EXCEPT ![s].pending_fd = d, ![s].pc = pc]
        BY <2>2, <3>2
      <4>2. QED
        BY <1>1, <4>1 DEF SessionRec
    <3>3. QED
      BY <3>1, <3>2
  <2>4. QED
    BY <2>1, <2>3
<1>11. QED
  BY <1>4, <1>5, <1>6, <1>7, <1>8, <1>9, <1>10 DEF Accept

(* How an accept thread leaves the sessions that can run something.        *)
LEMMA AcceptGoes ==
  ASSUME TypeOK, OrderInv, SessionsInv, GoneInv, KeptInv, NEW d \in Conns, Accept(d),
         NEW s \in Sessions, Alive(s)'
  PROVE  /\ GotTo(s)' = GotTo(s) /\ GotTo(s) \in Nat
         /\ sess'[s].pc = "run" <=> sess[s].pc = "run"
         /\ sess'[s].cur = sess[s].cur
         /\ sess[s].last_req <= GotTo(s)
         /\ Alive(s) \/ (StartSession(d) /\ sess[s].pc = "none")
<1>1. /\ sess'[s].last_req = sess[s].last_req /\ sess'[s].cur = sess[s].cur
      /\ \/ sess'[s].pc = sess[s].pc
         \/ sess[s].pc = "starting" /\ sess'[s].pc \in {"waiting", "dead"}
         \/ StartSession(d) /\ sess[s].pc = "none" /\ sess'[s].pc = "starting"
  BY AcceptTells, AcceptActs, AcceptServes
<1>2. sess[s].last_req \in Nat /\ sess[s].cur \in Nat
  BY Bounds DEF TypeOK, ServerTypeOK, SessionRec
<1>3. sess[s].pc \in {"run", "record"} => sess[s].last_req < sess[s].cur
  BY DEF OrderInv, SessionInv
<1>4. GotTo(s)' = GotTo(s)
  BY <1>1 DEF GotTo
<1>5. QED
  BY <1>1, <1>2, <1>3, <1>4 DEF GotTo, Alive

(* A session is made when nothing was asked for or told.                   *)
LEMMA MadeFirst ==
  ASSUME TypeOK, OrderInv, SessionsInv, GoneInv, FirstInv, NEW d \in Conns, StartSession(d)
  PROVE  /\ made = 0 /\ issued = <<>>
         /\ \A c \in Conns : /\ up[c] = <<>>
                             /\ acc[c].pc \in {"none", "hello", "done"}
                             /\ \A i \in DOMAIN down[c] : down[c][i].n = 0
<1>1. acc[d].pc = "hello" /\ Starting(d)
  BY DEF StartSession
<1>2. d = 1
  BY <1>1 DEF SessionsInv, Starting
<1>3. made = 0
  BY <1>1, <1>2 DEF SessionsInv
<1>4. issued = <<>>
  BY <1>3 DEF GoneInv, FirstInv
<1>5. Made = {}
  BY <1>4 DEF Made
<1>6. \A c \in Conns : up[c] = <<>>
  <2>1. \A c \in Conns : up[c] \in Seq({})
    BY <1>5 DEF TypeOK, NetTypeOK
  <2>2. \A f \in Seq({}) : f = <<>>
    <3> SUFFICES ASSUME NEW f \in Seq({}), f # <<>> PROVE FALSE
      OBVIOUS
    <3>1. Head(f) \in {}
      BY HeadTailProperties
    <3>2. QED
      BY <3>1
  <2>3. QED
    BY <2>1, <2>2
<1>7. \A c \in Conns : acc[c].pc \in {"none", "hello", "done"}
  BY <1>3, Bounds DEF OrderInv, AcceptInv
<1>8. QED
  BY <1>3, <1>4, <1>6, <1>7 DEF FirstInv

(* A step of an accept thread keeps SkipsInv.                              *)
LEMMA SkipsAccept ==
  ASSUME TypeOK, OrderInv, SessionsInv, GoneInv, KeptInv, SkipsInv, NEW d \in Conns, Accept(d)
  PROVE  SkipsInv'
<1>1. /\ UNCHANGED <<clientVars, dialed, up, ran>>
      /\ \A c \in Conns \ {d} : acc'[c] = acc[c] /\ down'[c] = down[c]
      /\ \A c \in Conns : live'[c] => live[c]
      /\ StartSession(d) \/ made' = made
  BY AcceptMoves, AcceptActs, AcceptServes
<1>2. \A m : Lost(m)' <=> Lost(m)
  BY <1>1 DEF Lost, IsCall, NoReply, clientVars
<1>3. /\ down[d] \in Seq(Message) /\ acc[d].snap \in Nat /\ made \in Nat
      /\ \A m \in Message : m.n \in Nat
  <2>1. down[d] \in Seq(Message) /\ acc[d] \in AcceptRec /\ made \in 0 .. MaxSessions
    BY DEF TypeOK, NetTypeOK, ServerTypeOK
  <2>2. acc[d].snap \in 0 .. MaxReq
    BY <2>1 DEF AcceptRec
  <2>3. \A m \in Message : m.n \in 0 .. MaxReq
    BY DEF Message
  <2>4. QED
    BY <2>1, <2>2, <2>3, Bounds
<1>4. \A c \in Conns : SentInOrder(c)'
  BY <1>1 DEF SkipsInv, SentInOrder, clientVars
<1>5. FirstInv'
  <2>1. ASSUME made' = 0, NEW c \in Conns PROVE \A i \in DOMAIN down'[c] : down'[c][i].n = 0
    <3>1. made = 0
      BY <1>1, <1>3, <2>1 DEF StartSession
    <3>2. \A i \in DOMAIN down[c] : down[c][i].n = 0
      BY <3>1 DEF SkipsInv, FirstInv
    <3>3. acc[c].pc \in {"none", "hello", "done"}
      BY <3>1, Bounds DEF OrderInv, AcceptInv
    <3>4. CASE c = d
      <4>1. down'[d] = down[d] \/ \E m \in Message : m.n <= 0 /\ down'[d] = down[d] \o <<m>>
        <5>1. CASE down'[d] = down[d]
          BY <5>1
        <5>2. CASE down'[d] # down[d]
          <6>1. PICK m \in Message :
                  /\ down'[d] = down[d] \o <<m>>
                  /\ m.n = 0 \/ (acc[d].pc \in {"reply", "resend"} /\ m.n <= acc[d].snap)
            BY <5>2, AcceptTells
          <6>2. m.n <= 0
            BY <3>3, <3>4, <6>1
          <6>3. QED
            BY <6>1, <6>2
        <5>3. QED
          BY <5>1, <5>2
      <4>2. \A i \in DOMAIN down[d] : down[d][i].n <= 0
        BY <3>2, <3>4
      <4>3. PICK f, g : f = down[d] /\ g = down'[d]
        OBVIOUS
      <4>4. /\ 0 \in Nat /\ 0 <= 0 /\ f \in Seq(Message)
            /\ \A i \in DOMAIN f : f[i].n <= 0
        BY <1>3, <4>2, <4>3
      <4>5. g = f \/ \E m \in Message : m.n <= 0 /\ g = f \o <<m>>
        BY <4>1, <4>3
      <4>6. \A i \in DOMAIN g : g[i].n <= 0
        BY <4>4, <4>5, ToldOfDone
      <4>7. g \in Seq(Message)
        BY <1>1, <4>3, <3>4, TypeAccept DEF TypeOK, NetTypeOK
      <4>8. \A i \in DOMAIN g : g[i].n \in Nat
        BY <1>3, <4>7, LenProperties
      <4>9. QED
        BY <3>4, <4>3, <4>6, <4>8
    <3>5. CASE c # d
      BY <1>1, <3>2, <3>5
    <3>6. QED
      BY <3>4, <3>5
  <2>2. ASSUME NEW x \in Sessions, sess'[x].pc = "none" PROVE sess'[x].last_req = 0
    <3>1. sess[x].pc = "none"
      BY <2>2, AcceptServes
    <3>2. QED
      BY <3>1, AcceptTells DEF SkipsInv, FirstInv
  <2>3. QED
    BY <1>1, <2>1, <2>2 DEF SkipsInv, FirstInv, clientVars, IsCall, NoReply
<1>6. replay_possible' => NothingSkipped'
  BY <1>1, <1>2 DEF SkipsInv, NothingSkipped, Lost, clientVars
<1>7. ASSUME replay_possible', NEW s \in Sessions, Alive(s)' PROVE NoneSkipped(s)'
  <2>1. /\ GotTo(s)' = GotTo(s) /\ GotTo(s) \in Nat /\ sess'[s].cur = sess[s].cur
        /\ sess'[s].pc = "run" <=> sess[s].pc = "run"
        /\ sess[s].last_req <= GotTo(s)
        /\ Alive(s) \/ (StartSession(d) /\ sess[s].pc = "none")
    BY <1>7, AcceptGoes
  <2>2. CASE Alive(s)
    <3>1. NoneSkipped(s)
      BY <1>1, <1>7, <2>2 DEF SkipsInv, clientVars
    <3>2. KeepsRest(s)' /\ \A c \in Conns : GapFree(s, c)' /\ (c = fd' => SentRest(s, c)')
      BY <1>1, <1>2, <2>1, <3>1 DEF NoneSkipped, KeepsRest, GapFree, SentRest, Made, clientVars
    <3>3. ASSUME NEW c \in Conns
          PROVE  /\ acc'[c].pc \in {"reply", "resend"} => acc'[c].snap <= GotTo(s)'
                 /\ \A i \in DOMAIN down'[c] : down'[c][i].n <= GotTo(s)'
      <4>1. /\ acc[c].pc \in {"reply", "resend"} => acc[c].snap <= GotTo(s)
            /\ \A i \in DOMAIN down[c] : down[c][i].n <= GotTo(s)
        BY <3>1 DEF NoneSkipped, DoneInv
      <4>2. CASE c # d
        BY <1>1, <2>1, <4>1, <4>2
      <4>3. CASE c = d
        <5>1. acc[d].pc = "snapshot" => acc[d].s = s
          <6>1. acc[d].pc = "snapshot" => acc[d].s \in 1 .. made
            BY DEF OrderInv, AcceptInv
          <6>2. ~(s > made) /\ made <= 1 /\ s \in Nat /\ s >= 1
            BY <2>2, Bounds DEF OrderInv, SessionInv, SessionsInv, Alive, Sessions
          <6>3. QED
            BY <1>3, <6>1, <6>2
        <5>2. acc'[d].pc \in {"reply", "resend"} => acc'[d].snap <= GotTo(s)
          BY <2>1, <4>1, <4>3, <5>1, AcceptTells
        <5>3. \/ down'[d] = down[d]
              \/ \E m \in Message : m.n <= GotTo(s) /\ down'[d] = down[d] \o <<m>>
          <6>1. CASE down'[d] = down[d]
            BY <6>1
          <6>2. CASE down'[d] # down[d]
            <7>1. PICK m \in Message :
                    /\ down'[d] = down[d] \o <<m>>
                    /\ m.n = 0 \/ (acc[d].pc \in {"reply", "resend"} /\ m.n <= acc[d].snap)
              BY <6>2, AcceptTells
            <7>2. m.n <= GotTo(s)
              BY <1>3, <2>1, <4>1, <4>3, <7>1
            <7>3. QED
              BY <7>1, <7>2
          <6>3. QED
            BY <6>1, <6>2
        <5>4. PICK k, f, g : k = GotTo(s) /\ f = down[d] /\ g = down'[d]
          OBVIOUS
        <5>5. /\ k \in Nat /\ k <= k /\ f \in Seq(Message)
              /\ \A i \in DOMAIN f : f[i].n <= k
          BY <1>3, <2>1, <4>1, <4>3, <5>4
        <5>6. g = f \/ \E m \in Message : m.n <= k /\ g = f \o <<m>>
          BY <5>3, <5>4
        <5>7. \A i \in DOMAIN g : g[i].n <= k
          BY <5>5, <5>6, ToldOfDone
        <5>8. QED
          BY <2>1, <4>3, <5>2, <5>4, <5>7
      <4>4. QED
        BY <4>2, <4>3
    <3>4. DoneInv(s)'
      BY <1>1, <1>2, <2>1, <3>1, <3>3 DEF NoneSkipped, DoneInv
    <3>5. QED
      BY <3>2, <3>4 DEF NoneSkipped
  <2>3. CASE StartSession(d) /\ sess[s].pc = "none"
    <3>1. /\ made = 0 /\ issued = <<>>
          /\ \A c \in Conns : /\ up[c] = <<>> /\ acc[c].pc \in {"none", "hello", "done"}
                              /\ \A i \in DOMAIN down[c] : down[c][i].n = 0
      BY <2>3, MadeFirst DEF SkipsInv
    <3>2. GotTo(s)' = 0
      BY <2>1, <2>3 DEF GotTo, SkipsInv, FirstInv
    <3>3. Made' = {} /\ DOMAIN <<>> = {} /\ 1 .. 0 = {}
      BY <1>1, <3>1 DEF Made, clientVars
    <3>4. acc'[d].pc = "snapshot" /\ down' = down
      BY <2>3 DEF StartSession, netVars, TypeOK, ServerTypeOK, AcceptRec
    <3>5. \A c \in Conns : /\ acc'[c].pc \notin {"reply", "resend"}
                           /\ \A i \in DOMAIN down'[c] : down'[c][i].n <= 0
      BY <1>1, <3>1, <3>4
    <3>6. DoneInv(s)'
      BY <3>2, <3>3, <3>5 DEF DoneInv
    <3>7. KeepsRest(s)' /\ \A c \in Conns : SentRest(s, c)' /\ GapFree(s, c)'
      BY <1>1, <3>1, <3>3 DEF KeepsRest, SentRest, GapFree
    <3>8. QED
      BY <3>6, <3>7 DEF NoneSkipped
  <2>4. QED
    BY <2>1, <2>2, <2>3
<1>8. QED
  BY <1>4, <1>5, <1>6, <1>7 DEF SkipsInv

(* A break and a restart keep SkipsInv.                                    *)
LEMMA SkipsOthers ==
  ASSUME TypeOK, OrderInv, SkipsInv,
         (\E d \in Conns : Break(d)) \/ Restart \/ UNCHANGED vars
  PROVE  SkipsInv'
<1>1. CASE UNCHANGED vars
  BY <1>1 DEF vars, clientVars, netVars, serverVars, SkipsInv, FirstInv, SentInOrder,
       NothingSkipped, NoneSkipped, DoneInv, KeepsRest, GapFree, SentRest, Alive, GotTo, Lost,
       IsCall, NoReply, Made
<1>2. CASE Restart
  <2>1. UNCHANGED <<clientVars, dialed, down, made, ran>> /\ up' = [c \in Conns |-> <<>>]
    BY <1>2 DEF Restart
  <2>2. \A x \in Sessions : \/ sess'[x] = sess[x] /\ sess[x].pc = "none"
                            \/ sess'[x].pc = "dead"
    BY <1>2 DEF Restart, NoSession
  <2>3. \A x \in Sessions : ~Alive(x)'
    BY <2>2 DEF Alive
  <2>4. DOMAIN <<>> = {}
    OBVIOUS
  <2>5. \A c \in Conns : SentInOrder(c)'
    BY <2>1, <2>4 DEF SentInOrder, InOrder
  <2>6. \A x \in Sessions : sess'[x].pc = "none" => sess'[x].last_req = 0
    BY <2>2 DEF SkipsInv, FirstInv
  <2>7. FirstInv'
    BY <2>1, <2>6 DEF SkipsInv, FirstInv, clientVars, IsCall, NoReply
  <2>8. replay_possible' => NothingSkipped'
    BY <2>1 DEF SkipsInv, NothingSkipped, clientVars, IsCall, NoReply
  <2>9. QED
    BY <2>3, <2>5, <2>7, <2>8 DEF SkipsInv
<1>3. ASSUME NEW d \in Conns, Break(d) PROVE SkipsInv'
  <2>1. UNCHANGED <<clientVars, dialed, serverVars>>
    BY <1>3 DEF Break
  <2>2. PICK j \in 0 .. Len(down[d]), k \in 0 .. Len(up[d]) :
          /\ down' = [down EXCEPT ![d] = SubSeq(@, 1, j)]
          /\ up' = [up EXCEPT ![d] = SubSeq(@, 1, k)]
    BY <1>3 DEF Break
  <2>3. live' = [live EXCEPT ![d] = FALSE]
    BY <1>3 DEF Break
  <2>4. \A c \in Conns : Same(c) /\ (live'[c] => live[c] /\ up'[c] = up[c])
    BY <2>2, <2>3 DEF Same, Cut, TypeOK, NetTypeOK
  <2>5. ASSUME NEW c \in Conns
        PROVE  \A i \in DOMAIN down'[c] : i \in DOMAIN down[c] /\ down'[c][i] = down[c][i]
    <3>1. CASE c = d
      <4>1. down'[c] = SubSeq(down[c], 1, j) /\ down[c] \in Seq(Message) /\ j \in 0 .. Len(down[c])
        BY <2>2, <3>1 DEF TypeOK, NetTypeOK
      <4>2. QED
        BY <4>1, PrefixParts
    <3>2. CASE c # d
      BY <2>2, <3>2 DEF TypeOK, NetTypeOK
    <3>3. QED
      BY <3>1, <3>2
  <2>6. \A m : Lost(m)' <=> Lost(m)
    BY <2>1 DEF Lost, IsCall, NoReply, clientVars
  <2>7. \A s \in Sessions : /\ GotTo(s)' = GotTo(s) /\ (Alive(s)' <=> Alive(s))
                            /\ GotTo(s) \in Nat
    BY <2>1, Bounds DEF GotTo, Alive, serverVars, TypeOK, ServerTypeOK, SessionRec
  <2>8. FirstInv'
    BY <2>1, <2>5 DEF SkipsInv, FirstInv, clientVars, serverVars, IsCall, NoReply
  <2>9. \A c \in Conns : SentInOrder(c)'
    BY <2>1, <2>4, InOrderKept DEF SkipsInv, clientVars
  <2>10. replay_possible' => NothingSkipped'
    BY <2>1, <2>6 DEF SkipsInv, NothingSkipped, Lost, clientVars, serverVars
  <2>11. ASSUME replay_possible', NEW s \in Sessions, Alive(s)' PROVE NoneSkipped(s)'
    <3>1. NoneSkipped(s)
      BY <2>1, <2>7, <2>11 DEF SkipsInv, clientVars
    <3>2. DoneInv(s)'
      BY <2>1, <2>5, <2>6, <2>7, <3>1 DEF NoneSkipped, DoneInv, serverVars
    <3>3. KeepsRest(s)'
      BY <2>1, <2>6, <2>7, <3>1 DEF NoneSkipped, KeepsRest, Made, clientVars
    <3>4. ASSUME NEW c \in Conns PROVE GapFree(s, c)' /\ (c = fd' => SentRest(s, c)')
      <4>1. GapFree(s, c) /\ (c = fd => SentRest(s, c)) /\ InOrder(up[c])
        BY <3>1 DEF NoneSkipped, SkipsInv, SentInOrder
      <4>2. GotTo(s) <= GotTo(s)' /\ GotTo(s)' \in Nat /\ GotTo(s) \in Nat
        BY <2>7
      <4>3. GapFree(s, c)'
        BY <2>4, <2>6, <4>1, <4>2, GapKept
      <4>4. UNCHANGED <<issued, queued, told, fd>>
        BY <2>1 DEF clientVars
      <4>5. QED
        BY <2>4, <4>1, <4>2, <4>3, <4>4, SentKept
    <3>5. QED
      BY <3>2, <3>3, <3>4 DEF NoneSkipped
  <2>12. QED
    BY <2>8, <2>9, <2>10, <2>11 DEF SkipsInv
<1>4. QED
  BY <1>1, <1>2, <1>3

-----------------------------------------------------------------------------
(* The client.                                                             *)

(* A write by the client changes one connection: nothing more arrives on   *)
(* it, or, if it worked, a first part of what was written, which is all of *)
(* it if the connection still works.                                       *)
LEMMA WriteParts ==
  ASSUME TypeOK, NEW c \in Conns, NEW frames \in Seq(Reqs), InOrder(frames),
         WriteSucceeds(c, frames) \/ WriteFails(c, frames)
  PROVE  /\ \A d \in Conns : d # c => up'[d] = up[d] /\ live'[d] = live[d]
         /\ \/ up'[c] = up[c] /\ ~live'[c]
            \/ /\ live[c]
               /\ \E part \in Seq(Reqs) :
                    /\ up'[c] = up[c] \o part
                    /\ InOrder(part) /\ Elems(part) \subseteq Elems(frames)
                    /\ live'[c] => part = frames
                    /\ \A n \in Elems(part), m \in Elems(frames) : m < n => m \in Elems(part)
<1>1. up \in [Conns -> Seq(Made)] /\ live \in [Conns -> BOOLEAN]
  BY DEF TypeOK, NetTypeOK
<1>2. CASE WriteSucceeds(c, frames)
  <2>1. CASE live[c]
    BY <1>1, <1>2, <2>1 DEF WriteSucceeds
  <2>2. CASE ~live[c]
    BY <1>1, <1>2, <2>2 DEF WriteSucceeds
  <2>3. QED
    BY <2>1, <2>2
<1>3. CASE WriteFails(c, frames)
  <2>1. PICK k \in 0 .. Len(frames) - 1 :
               /\ k > 0 => live[c]
               /\ up' = [up EXCEPT ![c] = @ \o SubSeq(frames, 1, k)]
               /\ live' = [live EXCEPT ![c] = FALSE]
    BY <1>3 DEF WriteFails
  <2>2. /\ \A d \in Conns : d # c => up'[d] = up[d] /\ live'[d] = live[d]
        /\ up'[c] = up[c] \o SubSeq(frames, 1, k) /\ ~live'[c]
    BY <1>1, <2>1
  <2>3. PICK part : part = SubSeq(frames, 1, k)
    OBVIOUS
  <2>4. k \in 0 .. Len(frames) /\ k \in Nat
    BY <2>1, LenProperties
  <2>5. /\ part \in Seq(Reqs) /\ InOrder(part) /\ Elems(part) \subseteq Elems(frames)
        /\ \A n \in Elems(part), m \in Elems(frames) : m < n => m \in Elems(part)
    BY <2>3, <2>4, PrefixInOrder
  <2>6. CASE live[c]
    BY <2>2, <2>3, <2>5, <2>6
  <2>7. CASE ~live[c]
    <3>1. k = 0
      BY <2>1, <2>4, <2>7
    <3>2. up'[c] = up[c]
      BY <1>1, <2>2, <3>1, LenProperties
    <3>3. QED
      BY <2>2, <3>2
  <2>8. QED
    BY <2>6, <2>7
<1>4. QED
  BY <1>2, <1>3

(* Requests in order, and more that come after them.                       *)
LEMMA InOrderConcat ==
  ASSUME NEW f \in Seq(Reqs), NEW g \in Seq(Reqs), InOrder(f), InOrder(g),
         \A m \in Elems(f), n \in Elems(g) : m < n
  PROVE  InOrder(f \o g)
<1>1. PICK h, k : h = f \o g /\ k = Len(f)
  OBVIOUS
<1>2. /\ k \in Nat /\ DOMAIN f = 1 .. k
      /\ \A i \in DOMAIN h :
           /\ i \in Nat
           /\ \/ i \in DOMAIN f /\ h[i] = f[i]
              \/ i > k /\ i - k \in DOMAIN g /\ h[i] = g[i - k]
  BY <1>1, ConcatParts, LenProperties
<1> SUFFICES ASSUME NEW i \in DOMAIN h, NEW j \in DOMAIN h, i < j PROVE h[i] < h[j]
  BY <1>1 DEF InOrder
<1>3. CASE i \in DOMAIN f /\ h[i] = f[i] /\ j \in DOMAIN f /\ h[j] = f[j]
  BY <1>3 DEF InOrder
<1>4. CASE i \in DOMAIN f /\ h[i] = f[i] /\ j - k \in DOMAIN g /\ h[j] = g[j - k]
  BY <1>4 DEF Elems
<1>5. CASE i - k \in DOMAIN g /\ h[i] = g[i - k] /\ j - k \in DOMAIN g /\ h[j] = g[j - k]
  <2>1. i - k < j - k
    BY <1>2
  <2>2. QED
    BY <1>5, <2>1 DEF InOrder
<1>6. i > k => ~(j \in DOMAIN f)
  BY <1>2
<1>7. QED
  BY <1>2, <1>3, <1>4, <1>5, <1>6

(* What the client writes after what is on the connection leaves it in     *)
(* order.                                                                  *)
LEMMA WriteInOrder ==
  ASSUME TypeOK, NEW c \in Conns, NEW frames \in Seq(Reqs), InOrder(up[c]), InOrder(frames),
         \A m \in Elems(up[c]), n \in Elems(frames) : m < n,
         WriteSucceeds(c, frames) \/ WriteFails(c, frames)
  PROVE  InOrder(up'[c])
<1>1. up[c] \in Seq(Reqs)
  <2>1. up[c] \in Seq(Made) /\ Made \subseteq Reqs
    BY FramesMade DEF TypeOK, NetTypeOK
  <2>2. QED
    BY <2>1
<1>2. CASE up'[c] = up[c]
  BY <1>2
<1>3. CASE \E part \in Seq(Reqs) : /\ up'[c] = up[c] \o part
                                   /\ InOrder(part) /\ Elems(part) \subseteq Elems(frames)
  <2>1. PICK part \in Seq(Reqs) : /\ up'[c] = up[c] \o part
                                  /\ InOrder(part) /\ Elems(part) \subseteq Elems(frames)
    BY <1>3
  <2>2. InOrder(up[c] \o part)
    BY <1>1, <2>1, InOrderConcat
  <2>3. QED
    BY <2>1, <2>2
<1>4. QED
  BY <1>2, <1>3, WriteParts

(* If it is all that is not done, no gap comes of it, and nothing that is  *)
(* not done is missing if the connection still works.                      *)
LEMMA WriteSkips ==
  ASSUME TypeOK, NEW s \in Sessions, NEW c \in Conns, NEW frames \in Seq(Reqs), InOrder(frames),
         WriteSucceeds(c, frames) \/ WriteFails(c, frames),
         issued' = issued, GotTo(s)' = GotTo(s), \A m \in Reqs : Lost(m) => Lost(m)',
         GapFree(s, c), \A n \in Elems(frames) : n \in Made,
         live[c] => \A m \in Made :
           m <= GotTo(s) \/ Lost(m)' \/ m \in Elems(up[c]) \/ m \in Elems(frames)
  PROVE  /\ GapFree(s, c)'
         /\ live'[c] => \A m \in Made : m <= GotTo(s)' \/ Lost(m)' \/ m \in Elems(up'[c])
<1>1. up[c] \in Seq(Reqs) /\ Made \subseteq Reqs /\ Len(issued) \in Nat
  <2>1. up[c] \in Seq(Made) /\ Made \subseteq Reqs /\ Len(issued) \in Nat
    BY FramesMade DEF TypeOK, NetTypeOK
  <2>2. QED
    BY <2>1
<1>2. \A n \in Elems(up[c]) : n \in Reqs /\ n \in Nat
  BY <1>1, LenProperties, Bounds DEF Elems, Reqs
<1>3. \A n \in Elems(up[c]) : \A m \in 1 .. n - 1 :
        m <= GotTo(s) \/ Lost(m) \/ m \in Elems(up[c])
  BY DEF GapFree, Elems
<1>4. \A n \in Reqs : \A m \in 1 .. n - 1 : m \in Reqs /\ m \in Nat /\ n \in Nat /\ m < n
  BY Bounds DEF Reqs
<1>5. CASE up'[c] = up[c] /\ ~live'[c]
  BY <1>2, <1>3, <1>4, <1>5 DEF GapFree, Elems
<1>6. CASE live[c] /\ \E part \in Seq(Reqs) :
             /\ up'[c] = up[c] \o part
             /\ Elems(part) \subseteq Elems(frames)
             /\ live'[c] => part = frames
             /\ \A n \in Elems(part), m \in Elems(frames) : m < n => m \in Elems(part)
  <2>1. PICK part \in Seq(Reqs) :
             /\ up'[c] = up[c] \o part
             /\ Elems(part) \subseteq Elems(frames)
             /\ live'[c] => part = frames
             /\ \A n \in Elems(part), m \in Elems(frames) : m < n => m \in Elems(part)
    BY <1>6
  <2>2. Elems(up'[c]) = Elems(up[c]) \union Elems(part)
    BY <1>1, <2>1, ElemsOfParts
  <2>3. ASSUME NEW n \in Elems(up'[c]), NEW m \in 1 .. n - 1
        PROVE  m <= GotTo(s)' \/ Lost(m)' \/ m \in Elems(up'[c])
    <3>1. CASE n \in Elems(up[c])
      BY <1>2, <1>3, <1>4, <2>2, <3>1
    <3>2. CASE n \in Elems(part)
      <4>1. n \in Made /\ n \in Reqs
        BY <1>1, <2>1, <3>2
      <4>2. m \in Made /\ m \in Reqs /\ m < n
        BY <1>1, <1>4, <4>1 DEF Made
      <4>3. m <= GotTo(s) \/ Lost(m)' \/ m \in Elems(up[c]) \/ m \in Elems(frames)
        BY <1>6, <4>2
      <4>4. m \in Elems(frames) => m \in Elems(part)
        BY <2>1, <3>2, <4>2
      <4>5. QED
        BY <2>2, <4>2, <4>3, <4>4
    <3>3. QED
      BY <2>2, <3>1, <3>2
  <2>4. GapFree(s, c)'
    BY <2>3 DEF GapFree, Elems
  <2>5. live'[c] => \A m \in Made : m <= GotTo(s)' \/ Lost(m)' \/ m \in Elems(up'[c])
    BY <1>1, <1>6, <2>1, <2>2
  <2>6. QED
    BY <2>4, <2>5
<1>7. QED
  BY <1>5, <1>6, WriteParts

(* What the client tells the application is of the call under way, or of   *)
(* the request it makes.                                                   *)
LEMMA ClientTells ==
  ASSUME TypeOK, Client, NEW m \in Made, m # op.n
  PROVE  told'[m] = told[m]
<1>1. Made \subseteq Reqs /\ Len(issued) \in Nat
  BY FramesMade
<1>2. told \in [Reqs -> 0 .. Untold]
  BY DEF TypeOK, ClientTypeOK
<1>3. CASE told' = told
  BY <1>3
<1>4. CASE \E r : told' = [told EXCEPT ![op.n] = r]
  BY <1>1, <1>2, <1>4
<1>5. ASSUME NEW t \in Threads, NEW k \in Kinds, QueueFrame(t, k) PROVE told'[m] = told[m]
  <2>1. told' = told \/ told' = [told EXCEPT ![Len(issued) + 1] = 0]
    BY <1>5 DEF QueueFrame
  <2>2. m # Len(issued) + 1
    BY <1>1 DEF Made
  <2>3. QED
    BY <1>1, <1>2, <2>1, <2>2
<1>6. \A frames : Abandon(frames) => \E r : told' = [told EXCEPT ![op.n] = r]
  BY DEF Abandon
<1>7. CallBroke => told' = told \/ \E r : told' = [told EXCEPT ![op.n] = r]
  BY <1>6 DEF CallBroke
<1>8. QED
  BY <1>3, <1>4, <1>5, <1>6, <1>7
     DEF Client, StartConnecting, Dial, Refused, GiveUp, HelloUnanswered, HelloBusy,
         HelloGone, HelloStarted, HelloResumed, Flush, FlushFails, RecvReply, RecvFails

(* What is lost stays lost.                                                *)
LEMMA LostStays ==
  ASSUME TypeOK, FramesInv, Client
  PROVE  \A m \in Reqs : Lost(m) => m \in Made /\ Lost(m)'
<1> SUFFICES ASSUME NEW m \in Reqs, Lost(m) PROVE m \in Made /\ Lost(m)'
  OBVIOUS
<1>1. IsCall(m) /\ told[m] = Unknown
  BY DEF Lost
<1>2. told[m] # Untold
  BY <1>1, Bounds DEF Unknown, Untold
<1>3. m \in Made
  <2>1. ~(m > Len(issued)) /\ Len(issued) \in Nat
    BY <1>2, FramesMade DEF FramesInv
  <2>2. QED
    BY <2>1, Bounds DEF Made, Reqs
<1>4. m # op.n
  <2>1. m # 0
    BY <1>3 DEF Made
  <2>2. QED
    BY <1>1, <1>2, <2>1 DEF FramesInv
<1>5. told'[m] = told[m] /\ (IsCall(m)' <=> IsCall(m))
  BY <1>3, <1>4, ClientTells, IssuedGrows
<1>6. Lost(m)'
  <2>1. IsCall(m)' /\ told'[m] = Unknown
    BY <1>1, <1>5
  <2>2. QED
    BY <2>1 DEF Lost
<1>7. QED
  BY <1>3, <1>6

(* How far a session got.                                                  *)
LEMMA GotToType == ASSUME TypeOK, NEW s \in Sessions PROVE GotTo(s) \in 0 .. MaxReq
<1>1. sess[s] \in SessionRec
  BY DEF TypeOK, ServerTypeOK
<1>2. QED
  BY <1>1 DEF SessionRec, GotTo

(* What a session has done does not change with the client.                *)
LEMMA DoneClient ==
  ASSUME TypeOK, FramesInv, Client, NEW s \in Sessions, DoneInv(s)
  PROVE  DoneInv(s)' /\ GotTo(s)' = GotTo(s)
<1>1. /\ UNCHANGED <<sess, ran>>
      /\ \A c \in Conns : acc'[c] = acc[c] \/ acc'[c].pc = "hello"
      /\ \A m \in Reqs : Lost(m) => Lost(m)'
      /\ \A c \in Conns : down'[c] = down[c] \/ (down[c] # <<>> /\ down'[c] = Tail(down[c]))
  BY ClientLeaves, LostStays, ClientReads
<1>2. GotTo(s)' = GotTo(s) /\ GotTo(s) \in 0 .. MaxReq
  BY <1>1, GotToType DEF GotTo
<1>3. PICK k : k = GotTo(s)
  OBVIOUS
<1>4. \A m \in 1 .. k : m \in Reqs
  BY <1>2, <1>3, Bounds DEF Reqs
<1>5. \A m \in 1 .. k : m \in Elems(ran'[s]) \/ Lost(m)' \/ (sess'[s].pc = "run" /\ m = sess'[s].cur)
  BY <1>1, <1>3, <1>4 DEF DoneInv
<1>6. \A c \in Conns : acc'[c].pc \in {"reply", "resend"} => acc'[c].snap <= k
  BY <1>1, <1>3 DEF DoneInv
<1>7. ASSUME NEW c \in Conns, NEW i \in DOMAIN down'[c] PROVE down'[c][i].n <= k
  <2>1. down[c] \in Seq(Message) /\ \A j \in DOMAIN down[c] : down[c][j].n <= k
    BY <1>3 DEF DoneInv, TypeOK, NetTypeOK
  <2>2. CASE down'[c] = down[c]
    BY <1>7, <2>1, <2>2
  <2>3. CASE down[c] # <<>> /\ down'[c] = Tail(down[c])
    BY <1>7, <2>1, <2>3, TailParts
  <2>4. QED
    BY <1>1, <2>2, <2>3
<1>8. QED
  BY <1>2, <1>3, <1>5, <1>6, <1>7 DEF DoneInv

(* The client runs nothing.                                                *)
LEMMA NothingSkippedClient ==
  ASSUME TypeOK, FramesInv, Client, NothingSkipped PROVE NothingSkipped'
<1>1. ran' = ran /\ \A m \in Reqs : Lost(m) => Lost(m)'
  BY ClientLeaves, LostStays
<1>2. \A s \in Sessions : \A n \in Elems(ran[s]) : \A m \in 1 .. n - 1 : m \in Reqs
  <2> SUFFICES ASSUME NEW s \in Sessions, NEW n \in Elems(ran[s]), NEW m \in 1 .. n - 1
               PROVE  m \in Reqs
    OBVIOUS
  <2>1. n \in Reqs
    BY LenProperties DEF TypeOK, ServerTypeOK, Elems
  <2>2. QED
    BY <2>1, Bounds DEF Reqs
<1>3. QED
  BY <1>1, <1>2 DEF NothingSkipped, Lost

(* The client asks for nothing without a session, and connects again, or   *)
(* waits, only for a call.                                                 *)
LEMMA FirstClient ==
  ASSUME TypeOK, SessionsInv, FramesInv, FirstInv, Client PROVE FirstInv'
<1>1. UNCHANGED <<made, sess>>
  BY ClientLeaves
<1>2. ~had_session' => issued' = <<>>
  <2>1. ASSUME NEW t \in Threads, NEW k \in Kinds, QueueFrame(t, k) PROVE had_session'
    BY <2>1 DEF QueueFrame, SessionsInv
  <2>2. QED
    BY <2>1 DEF Client, StartConnecting, Dial, Refused, GiveUp, HelloUnanswered, HelloBusy,
         HelloGone, HelloStarted, HelloResumed, Flush, FlushFails, RecvReply, RecvFails, FirstInv
<1>3. made' = 0 => \A c \in Conns : \A i \in DOMAIN down'[c] : down'[c][i].n = 0
  <2> SUFFICES ASSUME made' = 0, NEW c \in Conns, NEW i \in DOMAIN down'[c]
               PROVE  down'[c][i].n = 0
    OBVIOUS
  <2>1. down[c] \in Seq(Message) /\ \A j \in DOMAIN down[c] : down[c][j].n = 0
    BY <1>1 DEF FirstInv, TypeOK, NetTypeOK
  <2>2. CASE down'[c] = down[c]
    BY <2>1, <2>2
  <2>3. CASE down[c] # <<>> /\ down'[c] = Tail(down[c])
    BY <2>1, <2>3, TailParts
  <2>4. QED
    BY <2>2, <2>3, ClientReads
<1>4. PICK n, n1, p1 : n = op.n /\ n1 = op'.n /\ p1 = op'.pc
  OBVIOUS
<1>5. n1 # 0 /\ p1 \in {"connect", "hello", "recv"} => issued' = issued /\ n1 = n /\ IsCall(n)
  <2> SUFFICES ASSUME n1 # 0, p1 \in {"connect", "hello", "recv"}
               PROVE  issued' = issued /\ n1 = n /\ IsCall(n)
    OBVIOUS
  <2>1. /\ op \in OpRec /\ Idle.n = 0 /\ Idle.pc = "idle" /\ \A p : At(p).n = op.n /\ At(p).pc = p
        /\ op.n # 0 /\ op.pc \in {"connect", "hello", "recv"} => IsCall(n)
    BY <1>4 DEF TypeOK, ClientTypeOK, OpRec, Idle, At, FirstInv
  <2>2. \A t \in Threads, k \in Kinds : ~QueueFrame(t, k)
    BY <1>4, <2>1 DEF QueueFrame
  <2>3. AttemptFailed => n1 = n
    BY <1>4, OpSteps
  <2>4. ~Connected /\ \A frames : ~Abandon(frames)
    BY <1>4, OpSteps
  <2>5. CallBroke => n1 = n
    BY <1>4, OpSteps
  <2>6. CASE RecvFails \/ (FlushFails /\ IsCall(n))
    BY <1>4, <2>1, <2>5, <2>6 DEF RecvFails, FlushFails, IsCall
  <2>7. CASE FlushFails /\ NoReply(n)
    BY <1>4, <2>1, <2>7 DEF FlushFails
  <2>8. CASE Flush
    BY <1>4, <2>1, <2>8 DEF Flush, IsCall
  <2>9. CASE StartConnecting \/ RecvReply \/ GiveUp \/ HelloGone
    BY <1>4, <2>1, <2>4, <2>9 DEF StartConnecting, RecvReply, GiveUp, HelloGone, Idle
  <2>10. CASE Dial
    BY <1>4, <2>1, <2>10 DEF Dial
  <2>11. CASE Refused \/ HelloUnanswered \/ HelloBusy \/ HelloStarted \/ HelloResumed
    BY <1>4, <2>1, <2>3, <2>4, <2>11
       DEF Refused, HelloUnanswered, HelloBusy, HelloStarted, HelloResumed, ReadHello
  <2>12. QED
    BY <2>2, <2>6, <2>7, <2>8, <2>9, <2>10, <2>11 DEF Client, IsCall
<1>6. op'.n # 0 /\ op'.pc \in {"connect", "hello", "recv"} => IsCall(op.n) /\ issued' = issued /\ op'.n = op.n
  BY <1>4, <1>5
<1>7. QED
  BY <1>1, <1>2, <1>3, <1>6 DEF FirstInv, IsCall, NoReply

(* What the client writes, and where: the queue, which is then empty, on   *)
(* the connection in use, or on a new one all it keeps past what the       *)
(* server says is done.                                                    *)
Writes(c, frames) ==
  /\ WriteSucceeds(c, frames) \/ WriteFails(c, frames)
  /\ queued' = <<>> /\ issued' = issued
  /\ \/ c = fd /\ fd # None /\ frames = queued /\ fd' \in {fd, None}
     \/ /\ op.pc = "hello" /\ c = dialed /\ down[c] # <<>> /\ fd' \in {fd, c}
        /\ frames = ForgetAcked(unacked, Head(down[c]).n)

(* A step of the client writes, makes a request, starts with a session, or *)
(* is done with what it had at most.                                       *)
LEMMA ClientSends ==
  ASSUME TypeOK, SessionsInv, Client
  PROVE  \/ Flush /\ Writes(fd, queued)
         \/ FlushFails /\ Writes(fd, queued)
         \/ HelloResumed /\ Writes(dialed, ForgetAcked(unacked, Head(down[dialed]).n))
         \/ \E t \in Threads, k \in Kinds : QueueFrame(t, k)
         \/ HelloStarted
         \/ /\ UNCHANGED <<up, issued>>
            /\ fd' \in {fd, None} /\ queued' \in {queued, <<>>}
            /\ fd' # None => queued' = queued /\ (live'[fd] => live[fd])
<1>1. CASE Flush
  BY <1>1 DEF Flush, Writes, TypeOK, ClientTypeOK
<1>2. CASE FlushFails
  <2>1. fd' \in {fd, None}
    BY <1>2 DEF FlushFails, CallBroke, Abandon
  <2>2. QED
    BY <1>2, <2>1 DEF FlushFails, Writes, TypeOK, ClientTypeOK
<1>3. CASE HelloResumed
  BY <1>3 DEF HelloResumed, ReadHello, Writes
<1>4. CASE Dial
  <2>1. op.pc = "connect" /\ fd = None /\ fd' = fd /\ UNCHANGED <<up, issued, queued>>
    BY <1>4 DEF Dial, SessionsInv
  <2>2. QED
    BY <2>1
<1>5. CASE HelloBusy \/ HelloGone
  <2>1. /\ op.pc = "hello" /\ fd = None /\ fd' \in {fd, None}
        /\ UNCHANGED <<up, issued>> /\ queued' \in {queued, <<>>}
    BY <1>5 DEF HelloBusy, HelloGone, ReadHello, SessionsInv, Abandon
  <2>2. QED
    BY <2>1
<1>6. CASE GiveUp \/ RecvFails
  BY <1>6 DEF GiveUp, RecvFails, Abandon, CallBroke, netVars
<1>7. CASE RecvReply
  <2>1. live \in [Conns -> BOOLEAN]
    BY DEF TypeOK, NetTypeOK
  <2>2. QED
    BY <1>7, <2>1 DEF RecvReply, Abandon
<1>8. CASE StartConnecting \/ Refused \/ HelloUnanswered
  BY <1>8 DEF StartConnecting, Refused, HelloUnanswered, netVars
<1>9. QED
  BY <1>1, <1>2, <1>3, <1>4, <1>5, <1>6, <1>7, <1>8 DEF Client

(* What the client writes is in order, it made it, and it comes after what *)
(* is on the connection; a new connection is empty.                        *)
LEMMA WritesParts ==
  ASSUME TypeOK, FramesInv, RepliesInv, \A c \in Conns : SentInOrder(c),
         NEW c, NEW frames, Writes(c, frames)
  PROVE  /\ c \in Conns /\ frames \in Seq(Reqs) /\ InOrder(frames)
         /\ \A n \in Elems(frames) : n \in Made
         /\ \A m \in Elems(up[c]), n \in Elems(frames) : m < n
<1>1. CASE c = fd /\ fd # None /\ frames = queued
  <2>1. c \in Conns
    BY <1>1, Bounds DEF TypeOK, ClientTypeOK, Conns, None
  <2>2. frames \in Seq(Reqs) /\ InOrder(frames) /\ \A n \in Elems(frames) : n \in Made
    BY <1>1, FramesMade DEF FramesInv
  <2>3. \A m \in Elems(up[c]), n \in Elems(frames) : m < n
    BY <1>1, <2>1 DEF SentInOrder, Elems
  <2>4. QED
    BY <2>1, <2>2, <2>3
<1>2. CASE /\ op.pc = "hello" /\ c = dialed /\ down[c] # <<>>
           /\ frames = ForgetAcked(unacked, Head(down[c]).n)
  <2>1. c \in Conns
    BY <1>2, Bounds DEF TypeOK, ClientTypeOK, NetTypeOK, Conns, None
  <2>2. up[c] = <<>>
    BY <1>2, <2>1 DEF RepliesInv, HelloInv
  <2>3. Head(down[c]).n \in 0 .. MaxReq
    <3>1. down[c] \in Seq(Message)
      BY <2>1 DEF TypeOK, NetTypeOK
    <3>2. Head(down[c]) \in Message
      BY <1>2, <3>1, TailParts
    <3>3. QED
      BY <3>2 DEF Message
  <2>4. /\ unacked \in Seq(Reqs) /\ InOrder(unacked)
        /\ \A n \in Elems(unacked) : n \in Made
    BY FramesMade DEF FramesInv
  <2>5. /\ frames \in Seq(Reqs) /\ InOrder(frames)
        /\ \A n \in Elems(frames) : n \in Elems(unacked)
    BY <1>2, <2>3, <2>4, ForgetAckedParts
  <2>6. QED
    BY <2>1, <2>2, <2>4, <2>5, NothingKept
<1>3. QED
  BY <1>1, <1>2 DEF Writes

(* The client sends requests in order.                                     *)
LEMMA SentInOrderClient ==
  ASSUME TypeOK, SessionsInv, FramesInv, RepliesInv, \A c \in Conns : SentInOrder(c), Client,
         NEW c \in Conns
  PROVE  SentInOrder(c)'
<1>1. InOrder(up[c]) /\ c # None
  BY Bounds DEF SentInOrder, Conns, None
<1>2. DOMAIN <<>> = {}
  OBVIOUS
<1>3. ASSUME NEW d, NEW frames, Writes(d, frames) PROVE SentInOrder(c)'
  <2>1. /\ d \in Conns /\ frames \in Seq(Reqs) /\ InOrder(frames)
        /\ \A m \in Elems(up[d]), n \in Elems(frames) : m < n
        /\ queued' = <<>> /\ (WriteSucceeds(d, frames) \/ WriteFails(d, frames))
    BY <1>3, WritesParts DEF Writes
  <2>2. InOrder(up'[c])
    <3>1. CASE c = d
      BY <1>1, <2>1, <3>1, WriteInOrder
    <3>2. CASE c # d
      BY <1>1, <2>1, <3>2, WriteParts
    <3>3. QED
      BY <3>1, <3>2
  <2>3. QED
    BY <1>2, <2>1, <2>2 DEF SentInOrder
<1>4. ASSUME NEW t \in Threads, NEW k \in Kinds, QueueFrame(t, k) PROVE SentInOrder(c)'
  <2>1. up' = up /\ fd' = fd /\ queued' = Append(queued, Len(issued) + 1)
        /\ queued \in Seq(Reqs) /\ up[c] \in Seq(Made) /\ Len(issued) \in Nat
    BY <1>4, FramesMade DEF QueueFrame, netVars, TypeOK, NetTypeOK
  <2>2. PICK n, q, q1 : n = Len(issued) + 1 /\ q = queued /\ q1 = queued'
    OBVIOUS
  <2>3. \A j \in DOMAIN q1 : (j \in DOMAIN q /\ q1[j] = q[j]) \/ q1[j] = n
    BY <2>1, <2>2, AppendProperties, LenProperties
  <2>4. \A i \in DOMAIN up[c] : up[c][i] < n
    BY <2>1, <2>2, LenProperties DEF Made
  <2>5. QED
    BY <1>1, <2>1, <2>2, <2>3, <2>4 DEF SentInOrder
<1>5. CASE HelloStarted
  <2>1. op.pc = "hello" /\ fd' = dialed /\ up' = up /\ queued' = queued
    BY <1>5 DEF HelloStarted, ReadHello
  <2>2. c = dialed => up[c] = <<>>
    BY <2>1 DEF RepliesInv, HelloInv
  <2>3. QED
    BY <1>1, <1>2, <2>1, <2>2 DEF SentInOrder
<1>6. CASE up' = up /\ fd' \in {fd, None} /\ queued' \in {queued, <<>>}
  BY <1>1, <1>6, InOrderKept DEF Same
<1>7. QED
  BY <1>3, <1>4, <1>5, <1>6, ClientSends

(* The client is told its session is gone only when no session may run     *)
(* anything any more.                                                      *)
LEMMA GoneIsOver ==
  ASSUME TypeOK, GoneInv, HelloGone, NEW s \in Sessions
  PROVE  ~Alive(s)
<1>1. /\ op.pc = "hello" /\ had_session /\ down[dialed] # <<>>
      /\ Head(down[dialed]).type = "fresh"
  BY DEF HelloGone, ReadHello
<1>2. dialed \in Conns
  BY <1>1, Bounds DEF TypeOK, ClientTypeOK, NetTypeOK, Conns, None
<1>3. down[dialed] \in Seq(Message)
  BY <1>2 DEF TypeOK, NetTypeOK
<1>4. 1 \in DOMAIN down[dialed] /\ down[dialed][1].type = "fresh"
  BY <1>1, <1>3, TailParts
<1>5. dialed # 1
  BY <1>1 DEF GoneInv
<1>6. Over
  BY <1>2, <1>4, <1>5 DEF GoneInv, HelloMeans
<1>7. QED
  BY <1>6 DEF Over, Alive

(* What the client drops of the replay buffer is done, or lost.            *)
LEMMA KeepsRestClient ==
  ASSUME TypeOK, GoneInv, FramesInv, FirstInv, Client, replay_possible',
         NEW s \in Sessions, Alive(s), DoneInv(s), KeepsRest(s)
  PROVE  KeepsRest(s)'
<1>1. /\ \A m \in Reqs : Lost(m) => Lost(m)'
      /\ GotTo(s)' = GotTo(s) /\ GotTo(s) \in 0 .. MaxReq /\ GotTo(s) \in Nat
  BY LostStays, DoneClient, GotToType, Bounds
<1>2. PICK g : g = GotTo(s)
  OBVIOUS
<1>3. /\ unacked \in Seq(Reqs) /\ Made \subseteq Reqs /\ op.n \in Nat /\ Len(issued) \in Nat
      /\ \A m \in Made : m \in Nat
  BY FramesMade, Bounds DEF Reqs
<1>4. \A m \in Made : m <= g \/ Lost(m) \/ m \in Elems(unacked)
  BY <1>2 DEF KeepsRest
\* What the server has done goes.
<1>5. ASSUME NEW n \in 0 .. MaxReq, n <= g, unacked' = ForgetAcked(unacked, n),
             issued' = issued
      PROVE  KeepsRest(s)'
  <2>1. ASSUME NEW m \in Elems(unacked), m \in Nat, ~(m <= g) PROVE m \in Elems(unacked')
    <3>1. m > n
      BY <1>1, <1>2, <1>5, <2>1, Bounds
    <3>2. QED
      BY <1>3, <1>5, <3>1, ForgetAckedKeeps
  <2>2. QED
    BY <1>1, <1>2, <1>3, <1>4, <1>5, <2>1 DEF KeepsRest, Made
\* A call that is given up goes.
<1>6. ASSUME Abandon(unacked), op.n # 0, IsCall(op.n), issued' = issued
      PROVE  KeepsRest(s)'
  <2>1. unacked' = WithoutCall(unacked, op.n) /\ told' = [told EXCEPT ![op.n] = Unknown]
    BY <1>6 DEF Abandon
  <2>2. op.n \in Reqs /\ told \in [Reqs -> 0 .. Untold]
    BY <1>3, <1>6, FramesMade DEF TypeOK, ClientTypeOK
  <2>3. told'[op.n] = Unknown
    BY <2>1, <2>2
  <2>4. PICK n : n = op.n
    OBVIOUS
  <2>5. Lost(n)'
    BY <1>6, <2>3, <2>4 DEF Lost, IsCall, NoReply
  <2>6. \A m \in Elems(unacked) : m # n => m \in Elems(unacked')
    BY <1>3, <2>1, <2>4, WithoutCallKeeps
  <2>7. \A m \in Made : m <= g \/ Lost(m)' \/ m \in Elems(unacked')
    BY <1>1, <1>3, <1>4, <2>5, <2>6
  <2>8. QED
    BY <1>1, <1>2, <1>6, <2>7 DEF KeepsRest, Made
<1>7. CASE unacked' = unacked /\ issued' = issued
  BY <1>1, <1>2, <1>3, <1>4, <1>7 DEF KeepsRest, Made
<1>8. ASSUME NEW t \in Threads, NEW k \in Kinds, QueueFrame(t, k) PROVE KeepsRest(s)'
  <2>1. PICK n : n = Len(issued) + 1
    OBVIOUS
  <2>2. /\ unacked' = Append(unacked, n) /\ n \in Reqs
        /\ issued' = Append(issued, [thread |-> t, kind |-> k])
    <3>1. replay_possible /\ ~(Len(unacked) + 1 > UnackedCap)
      BY <1>8, Zenon DEF QueueFrame
    <3>2. unacked' = Append(unacked, n)
      BY <1>8, <2>1, <3>1, Zenon DEF QueueFrame
    <3>3. n \in Reqs /\ issued' = Append(issued, [thread |-> t, kind |-> k])
      BY <1>3, <1>8, <2>1, Bounds DEF QueueFrame, Reqs
    <3>4. QED
      BY <3>2, <3>3
  <2>3. issued \in Seq(CallRec) /\ [thread |-> t, kind |-> k] \in CallRec
    BY DEF TypeOK, ClientTypeOK, CallRec
  <2>4. Made' = Made \union {n}
    <3>1. Len(issued') = n
      BY <2>1, <2>2, <2>3, AppendProperties
    <3>2. QED
      BY <1>3, <2>1, <3>1 DEF Made
  <2>5. Elems(unacked') = Elems(unacked) \union {n}
    BY <1>3, <2>2, ElemsOfParts
  <2>6. \A m \in Made' : m <= g \/ Lost(m)' \/ m \in Elems(unacked')
    BY <1>1, <1>3, <1>4, <2>4, <2>5
  <2>7. QED
    BY <1>1, <1>2, <2>6 DEF KeepsRest
<1>9. CASE RecvReply
  <2>1. /\ op.pc = "recv" /\ op.n # 0 /\ fd \in Conns /\ down[fd] # <<>> /\ issued' = issued
    BY <1>9, Bounds DEF RecvReply, TypeOK, ClientTypeOK, Conns, None
  <2>2. down[fd] \in Seq(Message)
    BY <2>1 DEF TypeOK, NetTypeOK
  <2>3. 1 \in DOMAIN down[fd] /\ Head(down[fd]) = down[fd][1] /\ down[fd][1] \in Message
    BY <2>1, <2>2, TailParts
  <2>4. down[fd][1].n <= g /\ down[fd][1].n \in 0 .. MaxReq
    BY <1>2, <2>1, <2>3 DEF DoneInv, Message
  <2>5. IsCall(op.n)
    BY <2>1 DEF FirstInv
  <2>6. \/ op.n = down[fd][1].n /\ unacked' = ForgetAcked(unacked, op.n)
        \/ Abandon(unacked)
    BY <1>9, <2>3 DEF RecvReply
  <2>7. QED
    BY <1>5, <1>6, <2>1, <2>4, <2>5, <2>6
<1>10. CASE HelloResumed
  <2>1. /\ op.pc = "hello" /\ dialed \in Conns /\ down[dialed] # <<>> /\ issued' = issued
        /\ unacked' = ForgetAcked(unacked, Head(down[dialed]).n)
    BY <1>10, Bounds DEF HelloResumed, ReadHello, TypeOK, ClientTypeOK, NetTypeOK, Conns, None
  <2>2. down[dialed] \in Seq(Message)
    BY <2>1 DEF TypeOK, NetTypeOK
  <2>3. 1 \in DOMAIN down[dialed] /\ Head(down[dialed]) = down[dialed][1]
        /\ down[dialed][1] \in Message
    BY <2>1, <2>2, TailParts
  <2>4. down[dialed][1].n <= g /\ down[dialed][1].n \in 0 .. MaxReq
    BY <1>2, <2>1, <2>3 DEF DoneInv, Message
  <2>5. QED
    BY <1>5, <2>1, <2>3, <2>4
<1>11. CASE GiveUp
  <2>1. Abandon(unacked) /\ op.pc = "connect" /\ op.n # 0 /\ issued' = issued
    BY <1>11 DEF GiveUp
  <2>2. QED
    BY <1>6, <2>1 DEF FirstInv
<1>12. CASE FlushFails \/ RecvFails
  <2>1. op.n # 0 /\ issued' = issued
    BY <1>12 DEF FlushFails, RecvFails, TypeOK, ClientTypeOK
  <2>2. unacked' = unacked \/ (IsCall(op.n) /\ Abandon(unacked))
    BY <1>12, <2>1 DEF FlushFails, RecvFails, CallBroke, IsCall, FirstInv
  <2>3. QED
    BY <1>6, <1>7, <2>1, <2>2
<1>13. CASE HelloGone
  BY <1>13, GoneIsOver
<1>14. CASE StartConnecting \/ Dial \/ Refused \/ HelloUnanswered \/ HelloBusy \/ HelloStarted \/ Flush
  BY <1>7, <1>14 DEF StartConnecting, Dial, Refused, HelloUnanswered, HelloBusy, HelloStarted, Flush
<1>15. QED
  BY <1>8, <1>9, <1>10, <1>11, <1>12, <1>13, <1>14 DEF Client

(* The client leaves no gap on a connection, and nothing that is not done  *)
(* out of one that works.                                                  *)
LEMMA NoneSkippedClient ==
  ASSUME TypeOK, SessionsInv, GoneInv, FramesInv, RepliesInv, SkipsInv, Client,
         replay_possible', NEW s \in Sessions, Alive(s)
  PROVE  NoneSkipped(s)'
<1>1. /\ DoneInv(s) /\ KeepsRest(s) /\ FirstInv
      /\ \A c \in Conns : SentInOrder(c) /\ GapFree(s, c) /\ (c = fd => SentRest(s, c))
  BY ClientLeaves DEF SkipsInv, NoneSkipped
<1>2. /\ DoneInv(s)' /\ KeepsRest(s)' /\ GotTo(s)' = GotTo(s)
      /\ GotTo(s) \in 0 .. MaxReq /\ GotTo(s) \in Nat
      /\ \A m \in Reqs : Lost(m) => Lost(m)'
  BY <1>1, DoneClient, KeepsRestClient, GotToType, LostStays, Bounds
<1>3. Made \subseteq Reqs /\ Len(issued) \in Nat /\ \A m \in Made : m \in Nat
  BY FramesMade DEF Made
<1>4. PICK g : g = GotTo(s)
  OBVIOUS
<1>5. g \in Nat /\ g <= g /\ GotTo(s)' = g
  BY <1>2, <1>4
<1>6. ASSUME NEW c \in Conns, up'[c] = up[c] PROVE GapFree(s, c)'
  <2>1. Same(c) /\ InOrder(up[c]) /\ GapFree(s, c)
    BY <1>1, <1>6 DEF Same, SentInOrder
  <2>2. GotTo(s) \in Nat /\ GotTo(s)' \in Nat /\ GotTo(s) <= GotTo(s)'
    BY <1>4, <1>5
  <2>3. QED
    BY <1>2, <2>1, <2>2, GapKept
<1>7. ASSUME NEW d, NEW frames, Writes(d, frames),
             live[d] => \A m \in Made :
               m <= GotTo(s) \/ Lost(m)' \/ m \in Elems(up[d]) \/ m \in Elems(frames)
      PROVE  NoneSkipped(s)'
  <2>1. /\ d \in Conns /\ frames \in Seq(Reqs) /\ InOrder(frames)
        /\ \A n \in Elems(frames) : n \in Made
        /\ issued' = issued /\ (WriteSucceeds(d, frames) \/ WriteFails(d, frames))
    BY <1>1, <1>7, WritesParts DEF Writes
  <2>2. /\ GapFree(s, d)'
        /\ live'[d] => \A m \in Made : m <= GotTo(s)' \/ Lost(m)' \/ m \in Elems(up'[d])
    BY <1>1, <1>2, <1>7, <2>1, WriteSkips
  <2>3. SentRest(s, d)'
    BY <2>1, <2>2 DEF SentRest, Made
  <2>4. \A c \in Conns : c # d => up'[c] = up[c] /\ c # fd'
    <3>1. \A c \in Conns : c # None
      BY DEF Conns, None
    <3>2. \A c \in Conns : c # d => c # fd'
      BY <1>7, <3>1 DEF Writes, SessionsInv
    <3>3. QED
      BY <2>1, <3>2, WriteParts
  <2>5. \A c \in Conns : GapFree(s, c)' /\ (c = fd' => SentRest(s, c)')
    BY <1>6, <2>2, <2>3, <2>4
  <2>6. QED
    BY <1>2, <2>5 DEF NoneSkipped
<1>8. CASE Writes(fd, queued)
  <2>1. fd \in Conns
    BY <1>1, <1>8, WritesParts
  <2>2. SentRest(s, fd)
    BY <1>1, <2>1
  <2>3. live[fd] => \A m \in Made :
          m <= GotTo(s) \/ Lost(m)' \/ m \in Elems(up[fd]) \/ m \in Elems(queued)
    BY <1>2, <1>3, <2>2 DEF SentRest
  <2>4. QED
    BY <1>7, <1>8, <2>3
<1>9. CASE HelloResumed /\ Writes(dialed, ForgetAcked(unacked, Head(down[dialed]).n))
  <2>1. PICK frames : frames = ForgetAcked(unacked, Head(down[dialed]).n)
    OBVIOUS
  <2>2. unacked' = frames /\ issued' = issued
    BY <1>9, <2>1 DEF HelloResumed
  <2>3. \A m \in Made : m <= GotTo(s) \/ Lost(m)' \/ m \in Elems(frames)
    BY <1>2, <2>2 DEF KeepsRest, Made
  <2>4. QED
    BY <1>7, <1>9, <2>1, <2>3
<1>10. ASSUME NEW t \in Threads, NEW k \in Kinds, QueueFrame(t, k) PROVE NoneSkipped(s)'
  <2>1. /\ UNCHANGED <<up, live, fd>> /\ queued' = Append(queued, Len(issued) + 1)
        /\ issued' = Append(issued, [thread |-> t, kind |-> k])
        /\ queued \in Seq(Reqs) /\ Len(issued) + 1 \in Reqs
    BY <1>3, <1>10, FramesMade, Bounds DEF QueueFrame, netVars, Reqs
  <2>2. Elems(queued') = Elems(queued) \union {Len(issued) + 1}
    BY <2>1, ElemsOfParts
  <2>3. Made' = Made \union {Len(issued) + 1}
    <3>1. issued \in Seq(CallRec) /\ [thread |-> t, kind |-> k] \in CallRec
      BY DEF TypeOK, ClientTypeOK, CallRec
    <3>2. Len(issued') = Len(issued) + 1
      BY <2>1, <3>1, AppendProperties
    <3>3. QED
      BY <1>3, <3>2 DEF Made
  <2>4. ASSUME NEW c \in Conns, c = fd' PROVE SentRest(s, c)'
    <3>1. SentRest(s, c)
      BY <1>1, <2>1, <2>4
    <3>2. QED
      BY <1>2, <1>3, <2>1, <2>2, <2>3, <3>1 DEF SentRest
  <2>5. \A c \in Conns : GapFree(s, c)'
    BY <1>6, <2>1
  <2>6. QED
    BY <1>2, <2>4, <2>5 DEF NoneSkipped
<1>11. CASE HelloStarted
  <2>1. UNCHANGED <<up, issued>> /\ issued = <<>>
    BY <1>1, <1>11 DEF HelloStarted, FirstInv
  <2>2. Made' = {}
    BY <2>1 DEF Made
  <2>3. \A c \in Conns : SentRest(s, c)'
    BY <2>2 DEF SentRest
  <2>4. \A c \in Conns : GapFree(s, c)'
    BY <1>6, <2>1
  <2>5. QED
    BY <1>2, <2>3, <2>4 DEF NoneSkipped
<1>12. CASE /\ UNCHANGED <<up, issued>> /\ fd' \in {fd, None}
            /\ fd' # None => queued' = queued /\ (live'[fd] => live[fd])
  <2>1. ASSUME NEW c \in Conns, c = fd' PROVE SentRest(s, c)'
    <3>1. c # None
      BY DEF Conns, None
    <3>2. c = fd /\ queued' = queued /\ (live'[c] => live[c]) /\ SentRest(s, c)
      BY <1>1, <1>12, <2>1, <3>1
    <3>3. QED
      BY <1>2, <1>3, <1>12, <3>2 DEF SentRest, Made
  <2>2. \A c \in Conns : GapFree(s, c)'
    BY <1>6, <1>12
  <2>3. QED
    BY <1>2, <2>1, <2>2 DEF NoneSkipped
<1>13. QED
  BY <1>8, <1>9, <1>10, <1>11, <1>12, ClientSends

(* The client keeps SkipsInv.                                              *)
LEMMA SkipsClient ==
  ASSUME TypeOK, SessionsInv, GoneInv, FramesInv, RepliesInv, SkipsInv, Client
  PROVE  SkipsInv'
<1>1. FirstInv' /\ \A c \in Conns : SentInOrder(c)'
  BY FirstClient, SentInOrderClient DEF SkipsInv
<1>2. replay_possible' => NothingSkipped'
  BY ClientLeaves, NothingSkippedClient DEF SkipsInv
<1>3. \A s \in Sessions : Alive(s)' => Alive(s)
  BY ClientLeaves DEF Alive
<1>4. replay_possible' => \A s \in Sessions : Alive(s)' => NoneSkipped(s)'
  BY <1>3, NoneSkippedClient
<1>5. QED
  BY <1>1, <1>2, <1>4 DEF SkipsInv

(* Every step keeps SkipsInv.                                              *)
LEMMA SkipsStep ==
  ASSUME TypeOK, OrderInv, SessionsInv, GoneInv, FramesInv, RepliesInv, SkipsInv, [Next]_vars
  PROVE  SkipsInv'
<1>1. KeptInv
  BY DEF RepliesInv
<1>2. CASE Client
  BY <1>2, SkipsClient
<1>3. ASSUME NEW c \in Conns, Accept(c) PROVE SkipsInv'
  BY <1>1, <1>3, SkipsAccept
<1>4. ASSUME NEW s \in Sessions, Serve(s) PROVE SkipsInv'
  BY <1>1, <1>4, SkipsServe
<1>5. CASE (\E c \in Conns : Break(c)) \/ Restart \/ UNCHANGED vars
  BY <1>5, SkipsOthers
<1>6. QED
  BY <1>2, <1>3, <1>4, <1>5 DEF Next

(* SkipsInv: how far each session got, and where all the rest is.          *)
THEOREM SkipsHold == Spec => []SkipsInv
<1>1. TypeOK /\ OrderInv /\ SessionsInv /\ GoneInv /\ FramesInv /\ RepliesInv /\ SkipsInv
        /\ [Next]_vars => SkipsInv'
  BY SkipsStep
<1>2. QED
  BY <1>1, SkipsInit, TypeCorrect, OrderInvariant, SessionsHold, GoneHolds, FramesHold,
     RepliesHold, PTL DEF Spec

(* When a request runs, every earlier one has run, unless it is a call the *)
(* application was told failed: nothing the application believes is done   *)
(* or queued is skipped, as long as the replay buffer has never overflowed.*)
THEOREM NeverSkips == Spec => []NothingSkippedWhileReplayable
<1>1. SkipsInv => NothingSkippedWhileReplayable
  BY DEF SkipsInv, NothingSkippedWhileReplayable
<1>2. QED
  BY <1>1, SkipsHold, PTL

-----------------------------------------------------------------------------
(* What the application is told.  The history is R, what ran, I, what was  *)
(* made, and F, what failed.                                               *)

(* The least of a set of requests, or none.                                *)
First(S) == IF S = {} THEN None ELSE CHOOSE i \in S : \A j \in S : i <= j

(* A call by which thread t is told what is held for it: one that may      *)
(* carry a failure, and has none of its own.                               *)
Tells(k, t, I, F) == I[k].kind = "call" /\ I[k].thread = t /\ k \notin F

(* The failures before w that thread t was not told of by then; and what a *)
(* call is told by that, whenever its reply is made.                       *)
HeldFor(R, t, w, I, F) ==
  {m \in R : /\ m < w /\ I[m].kind = "async" /\ m \in F /\ I[m].thread = t
             /\ \A k \in R : m < k /\ k < w => ~Tells(k, t, I, F)}
AnswerTo(n, R, I, F) ==
  IF n \in F THEN n
  ELSE IF I[n].kind = "observe" THEN 0
  ELSE First(HeldFor(R, I[n].thread, n, I, F))

(* A call that ran, and what it is told; a message that says no other.     *)
Answered(n, r, R, I, F) == n \in R /\ I[n].kind # "async" /\ r = AnswerTo(n, R, I, F)
Truthful(m, R, I, F) == m.type = "rsp" /\ m.n # 0 => Answered(m.n, m.result, R, I, F)

(* A session, with what it holds and what it ran: it holds for each thread *)
(* what that was not told of all the session recorded.                     *)
Recorded(S, h, R, I, F) ==
  /\ S.pc = "record" =>
       /\ S.cur \in R
       /\ \A m \in R : m <= S.last_req \/ m = S.cur
       /\ S.result = IF S.cur \in F THEN S.cur ELSE 0
  /\ S.pc # "dead" => \A t \in Threads : h[t] = First(HeldFor(R, t, S.last_req + 1, I, F))

(* All that ran was made, and only what ran failed.  A reply, wherever it  *)
(* is, is the answer to its call.                                          *)
TruthInv ==
  /\ RanAnywhere \subseteq Made /\ failed \subseteq RanAnywhere
  /\ \A s \in Sessions : /\ Recorded(sess[s], held[s], Elems(ran[s]), issued, failed)
                         /\ Truthful(sess[s].reply, RanAnywhere, issued, failed)
  /\ \A c \in Conns : /\ Truthful(acc[c].kept, RanAnywhere, issued, failed)
                      /\ \A i \in DOMAIN down[c] : Truthful(down[c][i], RanAnywhere, issued, failed)
  /\ \A n \in Made : IsCall(n) /\ told[n] \in Result => Answered(n, told[n], RanAnywhere, issued, failed)

(* A set of requests has a least one.                                      *)
LEMMA FirstIs ==
  ASSUME NEW S \in SUBSET Nat, S # {}
  PROVE  First(S) \in S /\ \A j \in S : First(S) <= j
<1>1. PICK i \in S : \A j \in S : <<j, i>> \notin OpToRel(<, Nat)
  BY NatLessThanWellFounded, WFMin
<1>2. ASSUME NEW j \in S PROVE i <= j
  <2>1. i \in Nat /\ j \in Nat
    OBVIOUS
  <2>2. <<j, i>> \notin {ss \in Nat \X Nat : ss[1] < ss[2]}
    BY <1>1 DEF OpToRel
  <2>3. QED
    BY <2>1, <2>2
<1>3. QED
  BY <1>2 DEF First

(* The first of a set does not change when a later one joins it.           *)
LEMMA FirstOneMore ==
  ASSUME NEW S \in SUBSET (Nat \ {0}), NEW n \in Nat \ {0}, \A m \in S : m < n
  PROVE  First(S \union {n}) = IF First(S) = 0 THEN n ELSE First(S)
<1>1. First(S \union {n}) \in S \union {n} /\ \A j \in S \union {n} : First(S \union {n}) <= j
  BY FirstIs
<1>2. CASE S = {}
  BY <1>1, <1>2 DEF First, None
<1>3. CASE S # {}
  <2>1. First(S) \in S /\ \A j \in S : First(S) <= j
    BY <1>3, FirstIs
  <2>2. First(S) \in Nat \ {0} /\ First(S \union {n}) \in Nat
    BY <1>1, <2>1
  <2>3. First(S \union {n}) <= First(S) /\ First(S \union {n}) # n
    BY <1>1, <2>1, <2>2
  <2>4. QED
    BY <1>1, <2>1, <2>2, <2>3
<1>4. QED
  BY <1>2, <1>3

(* What is held at a point depends on what was before.                     *)
LEMMA HeldSame ==
  ASSUME NEW R \in SUBSET Nat, NEW R1 \in SUBSET Nat, NEW I, NEW I1, NEW F, NEW F1, NEW t, NEW w \in Nat,
         \A m \in Nat : m < w => (m \in R1 <=> m \in R),
         \A m \in R : m < w => I1[m] = I[m] /\ (m \in F1 <=> m \in F)
  PROVE  HeldFor(R1, t, w, I1, F1) = HeldFor(R, t, w, I, F)
<1>1. \A k \in R : k < w => (Tells(k, t, I1, F1) <=> Tells(k, t, I, F))
  BY DEF Tells
<1>2. QED
  BY <1>1 DEF HeldFor

(* So does an answer: later requests do not change it.                     *)
LEMMA AnswerSame ==
  ASSUME NEW R \in SUBSET Nat, NEW R1 \in SUBSET Nat, NEW I, NEW I1, NEW F, NEW F1, NEW n \in R, n \in R1,
         \A m \in Nat : m < n => (m \in R1 <=> m \in R),
         \A m \in R : m <= n => I1[m] = I[m] /\ (m \in F1 <=> m \in F), NEW r, Answered(n, r, R, I, F)
  PROVE  Answered(n, r, R1, I1, F1)
<1>1. n \in Nat /\ I1[n] = I[n] /\ (n \in F1 <=> n \in F)
  OBVIOUS
<1>2. PICK t : t = I[n].thread
  OBVIOUS
<1>3. \A m \in R : m < n => I1[m] = I[m] /\ (m \in F1 <=> m \in F)
  <2>1. \A m \in R : m < n => m <= n
    BY <1>1
  <2>2. QED
    BY <2>1
<1>4. HeldFor(R1, t, n, I1, F1) = HeldFor(R, t, n, I, F)
  BY <1>1, <1>3, HeldSame
<1>5. QED
  BY <1>1, <1>2, <1>4 DEF Answered, AnswerTo

(* What is held after a request is recorded.                               *)
LEMMA HeldAfterAsync ==
  ASSUME NEW R \in SUBSET Nat, NEW x \in R, NEW w \in Nat, NEW w1 \in Nat,
         w <= x, w1 = x + 1, \A m \in R : m < w \/ m = x, NEW I, NEW F, NEW t, I[x].kind = "async"
  PROVE  HeldFor(R, t, w1, I, F)
           = HeldFor(R, t, w, I, F) \union (IF x \in F /\ I[x].thread = t THEN {x} ELSE {})
<1>1. \A m \in R : /\ m < w1
                   /\ m < w <=> m # x
                   /\ ~(x < m)
  OBVIOUS
<1>2. ~Tells(x, t, I, F)
  BY DEF Tells
<1>3. \A m \in R : m # x => ((\A k \in R : m < k /\ k < w1 => ~Tells(k, t, I, F))
                              <=> (\A k \in R : m < k /\ k < w => ~Tells(k, t, I, F)))
  BY <1>1, <1>2
<1>4. \A k \in R : x < k /\ k < w1 => ~Tells(k, t, I, F)
  BY <1>1
<1>5. ASSUME NEW m \in R
      PROVE  m \in HeldFor(R, t, w1, I, F)
               <=> m \in HeldFor(R, t, w, I, F) \/ (m = x /\ x \in F /\ I[x].thread = t)
  <2>1. CASE m = x
    BY <1>1, <1>4, <2>1 DEF HeldFor
  <2>2. CASE m # x
    BY <1>1, <1>3, <2>2 DEF HeldFor
  <2>3. QED
    BY <2>1, <2>2
<1>6. HeldFor(R, t, w1, I, F) \subseteq R /\ HeldFor(R, t, w, I, F) \subseteq R
  BY DEF HeldFor
<1>7. QED
  BY <1>5, <1>6

(* What a call finds is what was left after the request before it.         *)
LEMMA HeldAtCall ==
  ASSUME NEW R \in SUBSET Nat, NEW x \in R, NEW w \in Nat, w <= x,
         \A m \in R : m < w \/ m = x, NEW I, NEW F, NEW t
  PROVE  HeldFor(R, t, x, I, F) = HeldFor(R, t, w, I, F)
<1>1. \A m \in R : m < w <=> m < x
  OBVIOUS
<1>2. ASSUME NEW m \in R PROVE m \in HeldFor(R, t, x, I, F) <=> m \in HeldFor(R, t, w, I, F)
  BY <1>1 DEF HeldFor
<1>3. HeldFor(R, t, x, I, F) \subseteq R /\ HeldFor(R, t, w, I, F) \subseteq R
  BY DEF HeldFor
<1>4. QED
  BY <1>2, <1>3

(* A call that tells what is held leaves nothing to tell.                  *)
LEMMA HeldAfterCall ==
  ASSUME NEW R \in SUBSET Nat, NEW x \in R, NEW w \in Nat, NEW w1 \in Nat,
         w <= x, w1 = x + 1, \A m \in R : m < w \/ m = x, NEW I, NEW F, NEW t, I[x].kind # "async"
  PROVE  /\ Tells(x, t, I, F) => HeldFor(R, t, w1, I, F) = {}
         /\ ~Tells(x, t, I, F) => HeldFor(R, t, w1, I, F) = HeldFor(R, t, w, I, F)
<1>1. \A m \in R : /\ m < w1
                   /\ m < w <=> m # x
                   /\ m # x => m < x
                   /\ ~(x < m)
  OBVIOUS
<1>3. CASE Tells(x, t, I, F)
  <2>1. ASSUME NEW m \in HeldFor(R, t, w1, I, F) PROVE FALSE
    <3>1. /\ m \in R /\ I[m].kind = "async"
          /\ \A k \in R : m < k /\ k < w1 => ~Tells(k, t, I, F)
      BY DEF HeldFor
    <3>2. m # x /\ m < x /\ x < w1
      BY <1>1, <3>1
    <3>3. QED
      BY <1>3, <3>1, <3>2
  <2>2. QED
    BY <1>3, <2>1
<1>4. CASE ~Tells(x, t, I, F)
  <2>1. \A m \in R : m # x => ((\A k \in R : m < k /\ k < w1 => ~Tells(k, t, I, F))
                                <=> (\A k \in R : m < k /\ k < w => ~Tells(k, t, I, F)))
    BY <1>1, <1>4
  <2>2. ASSUME NEW m \in R PROVE m \in HeldFor(R, t, w1, I, F) <=> m \in HeldFor(R, t, w, I, F)
    <3>1. CASE m = x
      BY <1>1, <3>1 DEF HeldFor
    <3>2. CASE m # x
      BY <1>1, <2>1, <3>2 DEF HeldFor
    <3>3. QED
      BY <3>1, <3>2
  <2>3. HeldFor(R, t, w1, I, F) \subseteq R /\ HeldFor(R, t, w, I, F) \subseteq R
    BY DEF HeldFor
  <2>4. HeldFor(R, t, w1, I, F) = HeldFor(R, t, w, I, F)
    BY <2>2, <2>3
  <2>5. QED
    BY <1>4, <2>4
<1>5. QED
  BY <1>3, <1>4

(* What a call may be told.                                                *)
LEMMA AnswerIs ==
  ASSUME NEW R \in SUBSET (Nat \ {0}), NEW n \in R, NEW I, NEW F
  PROVE  /\ n \in F => AnswerTo(n, R, I, F) = n
         /\ n \notin F /\ I[n].kind = "observe" => AnswerTo(n, R, I, F) = 0
         /\ n \notin F /\ I[n].kind # "observe" =>
              \/ AnswerTo(n, R, I, F) = 0 /\ HeldFor(R, I[n].thread, n, I, F) = {}
              \/ AnswerTo(n, R, I, F) \in HeldFor(R, I[n].thread, n, I, F)
<1>1. PICK t : t = I[n].thread
  OBVIOUS
<1>2. HeldFor(R, t, n, I, F) \subseteq Nat
  BY DEF HeldFor
<1>3. HeldFor(R, t, n, I, F) # {} => First(HeldFor(R, t, n, I, F)) \in HeldFor(R, t, n, I, F)
  BY <1>2, FirstIs
<1>4. HeldFor(R, t, n, I, F) = {} => First(HeldFor(R, t, n, I, F)) = 0
  BY DEF First, None
<1>5. QED
  BY <1>1, <1>3, <1>4 DEF AnswerTo

(* What is held is an earlier failure of the thread that it was not told.  *)
LEMMA HeldIs ==
  ASSUME NEW R, NEW t, NEW w, NEW I, NEW F, NEW f \in HeldFor(R, t, w, I, F)
  PROVE  /\ f \in R /\ f < w /\ I[f].kind = "async" /\ f \in F /\ I[f].thread = t
         /\ \A k \in R : f < k /\ k < w => ~Tells(k, t, I, F)
  BY DEF HeldFor

(* What ran, by number.                                                    *)
LEMMA RanIsMade ==
  ASSUME TypeOK, TruthInv
  PROVE  /\ RanAnywhere \subseteq Nat \ {0} /\ RanAnywhere \subseteq Nat /\ RanAnywhere \subseteq Made
         /\ failed \subseteq RanAnywhere /\ Made \subseteq Reqs
         /\ \A n \in Made : n \in Reqs /\ n \in Nat /\ n # 0 /\ issued[n] \in CallRec
<1>1. /\ RanAnywhere \subseteq Made /\ failed \subseteq RanAnywhere
      /\ Made \subseteq Reqs /\ Reqs \subseteq Nat \ {0}
  BY FramesMade, Bounds DEF TruthInv, Reqs
<1>2. \A n \in Made : issued[n] \in CallRec
  BY FramesMade DEF TypeOK, ClientTypeOK, Made
<1>3. QED
  BY <1>1, <1>2

(* What the application is told of a call is the answer to it.             *)
LEMMA ToldIs ==
  ASSUME TypeOK, TruthInv, NEW n \in Made, IsCall(n), told[n] \in Result
  PROVE  /\ n \in RanAnywhere
         /\ n \in failed => told[n] = n
         /\ n \notin failed /\ issued[n].kind = "observe" => told[n] = 0
         /\ n \notin failed /\ issued[n].kind # "observe" =>
              \/ told[n] = 0 /\ HeldFor(RanAnywhere, issued[n].thread, n, issued, failed) = {}
              \/ told[n] \in HeldFor(RanAnywhere, issued[n].thread, n, issued, failed)
<1>1. Answered(n, told[n], RanAnywhere, issued, failed)
  BY DEF TruthInv
<1>2. n \in RanAnywhere /\ told[n] = AnswerTo(n, RanAnywhere, issued, failed)
  BY <1>1 DEF Answered
<1>3. RanAnywhere \in SUBSET (Nat \ {0})
  BY RanIsMade
<1>4. QED
  BY <1>2, <1>3, AnswerIs

(* What the application is told is true.                                   *)
LEMMA TruthAnswers == ASSUME TypeOK, TruthInv PROVE AnswersAreTrue
<1> SUFFICES ASSUME NEW n \in Made, IsCall(n), told[n] \in Result
             PROVE  /\ n \in RanAnywhere
                    /\ told[n] \in {0, n} => (told[n] = n <=> n \in failed)
                    /\ told[n] \notin {0, n} =>
                         /\ n \notin failed
                         /\ NoReply(told[n]) /\ told[n] < n /\ told[n] \in failed
                         /\ issued[told[n]].thread = issued[n].thread
                         /\ issued[n].kind # "observe"
  BY DEF AnswersAreTrue
<1>1. n \in Nat /\ n # 0
  BY RanIsMade
<1>2. /\ n \in RanAnywhere
      /\ n \in failed => told[n] = n
      /\ n \notin failed /\ issued[n].kind = "observe" => told[n] = 0
  BY ToldIs
<1>3. CASE n \in failed \/ told[n] = 0
  BY <1>1, <1>2, <1>3
<1>4. CASE n \notin failed /\ told[n] # 0
  <2>1. told[n] \in HeldFor(RanAnywhere, issued[n].thread, n, issued, failed)
        /\ issued[n].kind # "observe"
    BY <1>4, ToldIs
  <2>2. /\ told[n] < n /\ issued[told[n]].kind = "async" /\ told[n] \in failed
        /\ issued[told[n]].thread = issued[n].thread
    BY <2>1, HeldIs
  <2>3. told[n] # n
    BY <1>4, <2>2
  <2>4. QED
    BY <1>2, <1>4, <2>1, <2>2, <2>3 DEF NoReply
<1>5. QED
  BY <1>3, <1>4

(* No two calls are told of one failure.                                   *)
LEMMA TruthOnce ==
  ASSUME TypeOK, TruthInv, NEW n \in Made, NEW m \in Made, n < m, IsCall(n), IsCall(m),
         told[n] = told[m], told[n] \in Result, told[n] # 0
  PROVE  FALSE
<1>1. PICK f : f = told[n] /\ f = told[m]
  OBVIOUS
<1>2. /\ n \in Nat /\ m \in Nat /\ issued[n] \in CallRec /\ issued[m] \in CallRec
      /\ issued[n].kind # "async" /\ issued[m].kind # "async"
  BY RanIsMade DEF IsCall, NoReply
<1>3. /\ n \in RanAnywhere
      /\ \/ n \in failed /\ f = n
         \/ /\ n \notin failed /\ issued[n].kind # "observe"
            /\ f \in HeldFor(RanAnywhere, issued[n].thread, n, issued, failed)
  BY <1>1, ToldIs
<1>4. \/ m \in failed /\ f = m
      \/ f \in HeldFor(RanAnywhere, issued[m].thread, m, issued, failed)
  BY <1>1, ToldIs
<1>5. f \in HeldFor(RanAnywhere, issued[n].thread, n, issued, failed) =>
        f < n /\ issued[f].kind = "async" /\ issued[f].thread = issued[n].thread
  BY HeldIs
<1>6. f \in HeldFor(RanAnywhere, issued[m].thread, m, issued, failed) =>
        /\ issued[f].kind = "async" /\ issued[f].thread = issued[m].thread
        /\ \A k \in RanAnywhere : f < k /\ k < m => ~Tells(k, issued[m].thread, issued, failed)
  BY HeldIs
<1>7. f # m
  BY <1>2, <1>3, <1>5
<1>8. issued[f].kind = "async" /\ f # n
  BY <1>2, <1>4, <1>6, <1>7
<1>9. /\ n \notin failed /\ issued[n].kind = "call"
      /\ f < n /\ issued[n].thread = issued[m].thread
  BY <1>2, <1>3, <1>4, <1>5, <1>6, <1>7, <1>8, CallStreamAssumption DEF CallRec, AllKinds
<1>10. Tells(n, issued[m].thread, issued, failed)
  BY <1>9 DEF Tells
<1>11. QED
  BY <1>3, <1>4, <1>6, <1>7, <1>9, <1>10

(* A failure that had no reply of its own is reported to one call only.    *)
LEMMA TruthReports == ASSUME TypeOK, TruthInv PROVE ReportedOnce
<1> SUFFICES ASSUME NEW n \in Made, NEW m \in Made, n # m, IsCall(n), IsCall(m), told[n] = told[m]
             PROVE  told[n] \in {0, Unknown, Untold}
  BY DEF ReportedOnce
<1>1. n \in Nat /\ m \in Nat /\ told[n] \in 0 .. Untold
  BY RanIsMade DEF TypeOK, ClientTypeOK
<1>2. told[n] \in Result \/ told[n] \in {Unknown, Untold}
  BY <1>1, Bounds DEF Result, Unknown, Untold
<1>3. ~(told[n] \in Result /\ told[n] # 0)
  BY <1>1, TruthOnce
<1>4. QED
  BY <1>2, <1>3

(* A call told of success found nothing held; what failed before it was    *)
(* told by the first call that could tell of it.                           *)
LEMMA TruthForgets == ASSUME TypeOK, TruthInv PROVE NoFailureForgotten
<1> SUFFICES ASSUME NEW n \in Made, issued[n].kind = "call", told[n] = 0, NEW m \in 1 .. n - 1,
                    NoReply(m), m \in failed, issued[m].thread = issued[n].thread
             PROVE  \E k \in m + 1 .. n - 1 :
                      /\ IsCall(k) /\ issued[k].thread = issued[n].thread
                      /\ told[k] \notin {0, k}
  BY DEF NoFailureForgotten
<1> DEFINE R == RanAnywhere
           t == issued[n].thread
<1>1. n \in Nat /\ m \in Nat /\ m < n /\ m \in R
  BY RanIsMade
<1>2. n \notin failed /\ HeldFor(R, t, n, issued, failed) = {}
  <2>1. IsCall(n) /\ 0 \in Result
    BY Bounds DEF IsCall, NoReply, Result
  <2>2. (n \in failed => told[n] = n)
        /\ (n \notin failed => \/ HeldFor(R, t, n, issued, failed) = {}
                               \/ told[n] \in HeldFor(R, t, n, issued, failed))
    BY <2>1, ToldIs
  <2>3. 0 \notin HeldFor(R, t, n, issued, failed)
    BY RanIsMade, HeldIs
  <2>4. QED
    BY <2>2, <2>3, RanIsMade
<1> DEFINE K == {k \in R : m < k /\ k < n /\ Tells(k, t, issued, failed)}
<1>3. K # {} /\ K \subseteq Nat
  <2>1. m \notin HeldFor(R, t, n, issued, failed)
    BY <1>2
  <2>2. ~ \A k \in R : m < k /\ k < n => ~Tells(k, t, issued, failed)
    BY <1>1, <2>1 DEF HeldFor, NoReply
  <2>3. QED
    BY <2>2, RanIsMade
<1>4. PICK k \in K : \A j \in K : k <= j
  BY <1>3, FirstIs
<1>5. /\ k \in R /\ k \in Made /\ k \in Nat /\ m < k /\ k < n /\ IsCall(k)
      /\ issued[k].kind = "call" /\ issued[k].thread = t /\ k \notin failed
  BY <1>4, RanIsMade DEF Tells, IsCall, NoReply
<1>6. m \in HeldFor(R, t, k, issued, failed)
  <2>1. ASSUME NEW j \in R, m < j, j < k, Tells(j, t, issued, failed) PROVE FALSE
    <3>1. j \in Nat /\ j < n
      BY <1>1, <1>5, <2>1, RanIsMade
    <3>2. j \in K
      BY <2>1, <3>1
    <3>3. QED
      BY <1>4, <1>5, <2>1, <3>1, <3>2
  <2>2. QED
    BY <1>1, <1>5, <2>1 DEF HeldFor, NoReply
<1>7. told[k] \notin {0, k}
  <2>1. CASE told[k] \in Result
    <3>1. told[k] \in HeldFor(R, t, k, issued, failed)
      BY <1>5, <1>6, <2>1, ToldIs
    <3>2. told[k] \in Nat \ {0} /\ told[k] < k
      BY <3>1, HeldIs, RanIsMade
    <3>3. QED
      BY <1>5, <3>2
  <2>2. CASE told[k] \notin Result
    <3>1. 0 \in Result /\ k \in Result
      BY <1>5, RanIsMade, Bounds DEF Result, Reqs
    <3>2. QED
      BY <2>2, <3>1
  <2>3. QED
    BY <2>1, <2>2
<1>8. k \in m + 1 .. n - 1
  BY <1>1, <1>5
<1>9. QED
  BY <1>5, <1>7, <1>8

-----------------------------------------------------------------------------
(* The history only grows, at its end.                                     *)

(* What ran and what is known of it stays; what is new is later.           *)
HistoryGrows ==
  /\ \A m \in RanAnywhere : /\ m \in RanAnywhere' /\ issued'[m] = issued[m]
                            /\ m \in failed' <=> m \in failed
  /\ \A x \in RanAnywhere' \ RanAnywhere : x \in Nat /\ \A m \in RanAnywhere : m < x

(* So an answer stays the answer, and what is told stays true.             *)
LEMMA TruthStays ==
  ASSUME TypeOK, TruthInv, HistoryGrows
  PROVE  /\ \A n, r : Answered(n, r, RanAnywhere, issued, failed)
                        => Answered(n, r, RanAnywhere', issued', failed')
         /\ \A m : Truthful(m, RanAnywhere, issued, failed)
                     => Truthful(m, RanAnywhere', issued', failed')
<1>1. /\ RanAnywhere \in SUBSET Nat
      /\ RanAnywhere' \in SUBSET Nat
  BY RanIsMade DEF HistoryGrows
<1>2. ASSUME NEW n, NEW r, Answered(n, r, RanAnywhere, issued, failed)
      PROVE  Answered(n, r, RanAnywhere', issued', failed')
  <2>1. n \in RanAnywhere /\ n \in RanAnywhere' /\ n \in Nat
    BY <1>1, <1>2 DEF Answered, HistoryGrows
  <2>2. \A m \in Nat : m < n => (m \in RanAnywhere' <=> m \in RanAnywhere)
    <3>1. ASSUME NEW m \in RanAnywhere', m < n, m \notin RanAnywhere PROVE FALSE
      <4>1. n < m /\ m \in Nat
        BY <2>1, <3>1 DEF HistoryGrows
      <4>2. QED
        BY <2>1, <3>1, <4>1
    <3>2. QED
      BY <3>1 DEF HistoryGrows
  <2>3. \A m \in RanAnywhere : m <= n => issued'[m] = issued[m] /\ (m \in failed' <=> m \in failed)
    BY DEF HistoryGrows
  <2>4. QED
    BY <1>1, <1>2, <2>1, <2>2, <2>3, AnswerSame
<1>3. QED
  BY <1>2 DEF Truthful

(* What a session holds stays what it should when nothing more ran there.  *)
LEMMA RecordedSame ==
  ASSUME NEW S, NEW S1, NEW h, NEW R \in SUBSET Nat, NEW I, NEW I1, NEW F, NEW F1,
         Recorded(S, h, R, I, F), S.last_req \in Nat,
         \A m \in R : I1[m] = I[m] /\ (m \in F1 <=> m \in F),
         S1.last_req = S.last_req,
         \/ S1.pc = S.pc /\ S1.cur = S.cur /\ S1.result = S.result
         \/ S.pc # "dead" /\ S1.pc # "record"
         \/ S1.pc = "dead"
  PROVE  Recorded(S1, h, R, I1, F1)
<1>1. S1.pc = "record" => S1.pc = S.pc /\ S1.cur = S.cur /\ S1.result = S.result
  OBVIOUS
<1>2. S1.pc = "record" =>
        /\ S1.cur \in R
        /\ \A m \in R : m <= S1.last_req \/ m = S1.cur
        /\ S1.result = IF S1.cur \in F1 THEN S1.cur ELSE 0
  BY <1>1 DEF Recorded
<1>3. ASSUME S1.pc # "dead", NEW t \in Threads
      PROVE  h[t] = First(HeldFor(R, t, S1.last_req + 1, I1, F1))
  <2>1. h[t] = First(HeldFor(R, t, S.last_req + 1, I, F))
    BY <1>3 DEF Recorded
  <2>2. PICK w \in Nat : w = S.last_req + 1
    OBVIOUS
  <2>3. HeldFor(R, t, w, I1, F1) = HeldFor(R, t, w, I, F)
    BY HeldSame
  <2>4. QED
    BY <2>1, <2>2, <2>3
<1>4. QED
  BY <1>2, <1>3 DEF Recorded

(* A step keeps TruthInv when every session is as it should be, and every  *)
(* message and all that is told was there before or is true.               *)
LEMMA TruthKept ==
  ASSUME TypeOK, TruthInv, HistoryGrows,
         RanAnywhere' \subseteq Made', failed' \subseteq RanAnywhere',
         \A s \in Sessions :
           /\ Recorded(sess'[s], held'[s], Elems(ran'[s]), issued', failed')
           /\ \/ sess'[s].reply = sess[s].reply
              \/ Truthful(sess'[s].reply, RanAnywhere', issued', failed'),
         \A c \in Conns :
           /\ \/ acc'[c].kept = acc[c].kept
              \/ Truthful(acc'[c].kept, RanAnywhere', issued', failed')
           /\ \A i \in DOMAIN down'[c] :
                \/ \E j \in DOMAIN down[c] : down'[c][i] = down[c][j]
                \/ Truthful(down'[c][i], RanAnywhere', issued', failed'),
         \A n \in Made' : IsCall(n)' /\ told'[n] \in Result =>
           \/ n \in Made /\ IsCall(n) /\ told'[n] = told[n]
           \/ Answered(n, told'[n], RanAnywhere', issued', failed')
  PROVE  TruthInv'
<1>1. \A n, r : Answered(n, r, RanAnywhere, issued, failed)
                  => Answered(n, r, RanAnywhere', issued', failed')
  BY TruthStays
<1>2. \A m : Truthful(m, RanAnywhere, issued, failed)
               => Truthful(m, RanAnywhere', issued', failed')
  BY TruthStays
<1>3. \A s \in Sessions : Truthful(sess'[s].reply, RanAnywhere', issued', failed')
  BY <1>2 DEF TruthInv
<1>4. \A c \in Conns : /\ Truthful(acc'[c].kept, RanAnywhere', issued', failed')
                       /\ \A i \in DOMAIN down'[c] : Truthful(down'[c][i], RanAnywhere', issued', failed')
  BY <1>2 DEF TruthInv
<1>5. \A n \in Made' : IsCall(n)' /\ told'[n] \in Result
                         => Answered(n, told'[n], RanAnywhere', issued', failed')
  BY <1>1 DEF TruthInv
<1>6. QED
  BY <1>3, <1>4, <1>5 DEF TruthInv

-----------------------------------------------------------------------------
(* Every step keeps TruthInv.                                              *)

(* Without a request nothing is told.                                      *)
LEMMA NoneKeptIsTrue ==
  /\ \A R, I, F : Truthful(NoneKept, R, I, F)
  /\ \A m, R, I, F : m.type # "rsp" => Truthful(m, R, I, F)
  BY DEF Truthful, NoneKept, Response

(* A session that ran nothing holds nothing.                               *)
LEMMA NothingRecorded ==
  ASSUME NEW S, NEW h, NEW I, NEW F, S.pc # "record", \A t \in Threads : h[t] = 0
  PROVE  Recorded(S, h, {}, I, F)
<1>1. \A t, w : HeldFor({}, t, w, I, F) = {}
  BY DEF HeldFor
<1>2. First({}) = 0
  BY DEF First, None
<1>3. QED
  BY <1>1, <1>2 DEF Recorded

(* At the start nothing ran and nothing is told.                           *)
LEMMA TruthInit == Init => TruthInv
<1> SUFFICES ASSUME Init PROVE TruthInv
  OBVIOUS
<1>1. /\ \A s \in Sessions : /\ sess[s].pc = "none" /\ sess[s].reply = NoneKept
                             /\ ran[s] = <<>> /\ \A t \in Threads : held[s][t] = 0
      /\ \A c \in Conns : acc[c].kept = NoneKept /\ down[c] = <<>>
      /\ failed = {} /\ issued = <<>>
  BY DEF Init, NoSession, NoHandshake
<1>2. DOMAIN <<>> = {} /\ Len(<<>>) = 0
  OBVIOUS
<1>3. /\ \A s \in Sessions : Elems(ran[s]) = {}
      /\ RanAnywhere = {}
  BY <1>1, <1>2 DEF Elems, RanAnywhere
<1>4. \A n \in Made : FALSE
  BY <1>1, <1>2 DEF Made
<1>5. \A s \in Sessions : Recorded(sess[s], held[s], Elems(ran[s]), issued, failed)
  BY <1>1, <1>3, NothingRecorded
<1>6. QED
  BY <1>1, <1>2, <1>3, <1>4, <1>5, NoneKeptIsTrue DEF TruthInv

(* The requests a client made stay as they were.                           *)
LEMMA MadeStays ==
  ASSUME TypeOK, Client
  PROVE  \A m \in Made : m \in Made' /\ issued'[m] = issued[m]
<1>1. ASSUME NEW t \in Threads, NEW k \in Kinds, QueueFrame(t, k)
      PROVE  \A m \in Made : m \in Made' /\ issued'[m] = issued[m]
  <2>1. issued' = Append(issued, [thread |-> t, kind |-> k]) /\ issued \in Seq(CallRec)
        /\ [thread |-> t, kind |-> k] \in CallRec
    BY <1>1 DEF QueueFrame, TypeOK, ClientTypeOK, CallRec
  <2>2. /\ Len(issued) \in Nat /\ Len(issued') = Len(issued) + 1
        /\ \A m \in 1 .. Len(issued) : issued'[m] = issued[m]
    BY <2>1, AppendProperties, LenProperties
  <2>3. QED
    BY <2>2 DEF Made
<1>2. CASE issued' = issued
  BY <1>2 DEF Made
<1>3. QED
  BY <1>1, <1>2 DEF Client, StartConnecting, Dial, Refused, GiveUp, HelloUnanswered, HelloBusy,
         HelloGone, HelloStarted, HelloResumed, Flush, FlushFails, RecvReply, RecvFails

(* What a step of the client tells: of the call it makes its own error,    *)
(* the reply to it, or success when it is one without a reply.             *)
LEMMA ClientTellsTruth ==
  ASSUME TypeOK, FramesInv, TruthInv, Client, NEW n \in Made', IsCall(n)', told'[n] \in Result
  PROVE  \/ n \in Made /\ IsCall(n) /\ told'[n] = told[n]
         \/ Answered(n, told'[n], RanAnywhere, issued, failed)
<1>1. Made \subseteq Reqs /\ Len(issued) \in Nat /\ Unknown \notin Result /\ Untold \notin Result
      /\ told \in [Reqs -> 0 .. Untold]
  BY FramesMade, Bounds DEF Result, Unknown, Untold, TypeOK, ClientTypeOK
<1>2. n \in Made => IsCall(n)
  BY IssuedGrows
<1>3. CASE n \in Made /\ n # op.n
  BY <1>2, <1>3, ClientTells
<1>4. CASE n \notin Made
  <2>1. issued' # issued
    BY <1>4 DEF Made
  <2>2. PICK t \in Threads, k \in Kinds : QueueFrame(t, k)
    BY <2>1 DEF Client, StartConnecting, Dial, Refused, GiveUp, HelloUnanswered, HelloBusy,
         HelloGone, HelloStarted, HelloResumed, Flush, FlushFails, RecvReply, RecvFails
  <2>3. /\ issued' = Append(issued, [thread |-> t, kind |-> k]) /\ Len(issued) + 1 <= MaxReq
        /\ told' = told \/ (k = "async" /\ told' = [told EXCEPT ![Len(issued) + 1] = 0])
    BY <2>2 DEF QueueFrame
  <2>4. /\ Len(issued') = Len(issued) + 1 /\ issued'[Len(issued) + 1].kind = k
        /\ issued \in Seq(CallRec)
    BY <2>3, AppendProperties DEF TypeOK, ClientTypeOK
  <2>5. n = Len(issued) + 1 /\ n \in Reqs
    BY <1>1, <1>4, <2>3, <2>4, Bounds DEF Made, Reqs
  <2>6. k # "async"
    BY <2>4, <2>5 DEF IsCall, NoReply
  <2>7. told'[n] = Untold
    BY <1>1, <2>3, <2>5, <2>6 DEF FramesInv
  <2>8. QED
    BY <1>1, <2>7
<1>5. CASE n \in Made /\ n = op.n
  <2>1. n \in Reqs /\ ~NoReply(op.n)
    BY <1>1, <1>2, <1>5 DEF IsCall
  <2>2. ASSUME NEW frames, Abandon(frames) PROVE FALSE
    <3>1. told'[n] = Unknown
      BY <1>1, <1>5, <2>1, <2>2 DEF Abandon
    <3>2. QED
      BY <1>1, <3>1
  <2>3. CASE told' = told
    BY <1>2, <1>5, <2>3
  <2>4. CASE RecvReply /\ ~\E frames : Abandon(frames)
    <3>1. PICK rsp : rsp = Head(down[fd])
      OBVIOUS
    <3>2. /\ rsp.type = "rsp" /\ rsp.n = n /\ told' = [told EXCEPT ![n] = rsp.result]
          /\ down[fd] # <<>>
      BY <1>5, <2>4, <3>1 DEF RecvReply
    <3>3. told'[n] = rsp.result /\ n # 0
      BY <1>1, <2>1, <3>2, Bounds DEF Reqs
    <3>4. fd \in Conns /\ down[fd] \in Seq(Message)
      <4>1. op.pc = "recv"
        BY <2>4 DEF RecvReply
      <4>2. fd \in 0 .. MaxConns /\ fd # 0
        BY <4>1 DEF TypeOK, ClientTypeOK, None
      <4>3. QED
        BY <4>2, Bounds DEF Conns, TypeOK, NetTypeOK
    <3>5. rsp = down[fd][1] /\ 1 \in DOMAIN down[fd]
      BY <3>1, <3>2, <3>4, TailParts
    <3>6. Truthful(rsp, RanAnywhere, issued, failed)
      BY <3>4, <3>5 DEF TruthInv
    <3>7. QED
      BY <3>2, <3>3, <3>6 DEF Truthful
  <2>5. ASSUME NEW t \in Threads, NEW k \in Kinds, QueueFrame(t, k) PROVE told'[n] = told[n]
    <3>1. told' = told \/ told' = [told EXCEPT ![Len(issued) + 1] = 0]
      BY <2>5 DEF QueueFrame
    <3>2. n # Len(issued) + 1
      BY <1>1, <1>5 DEF Made
    <3>3. QED
      BY <1>1, <1>5, <3>1, <3>2
  <2>6. CallBroke => told' = told
    BY <2>2 DEF CallBroke
  <2>7. QED
    BY <1>2, <1>5, <2>1, <2>2, <2>3, <2>4, <2>5, <2>6
       DEF Client, StartConnecting, Dial, Refused, GiveUp, HelloUnanswered, HelloBusy,
           HelloGone, HelloStarted, HelloResumed, Flush, FlushFails, RecvReply, RecvFails
<1>6. QED
  BY <1>3, <1>4, <1>5

(* The client keeps TruthInv.                                              *)
LEMMA TruthClient ==
  ASSUME TypeOK, FramesInv, TruthInv, Client PROVE TruthInv'
<1>1. UNCHANGED <<sess, ran, held, failed>>
  BY DEF Client, StartConnecting, QueueFrame, Dial, Refused, GiveUp, HelloUnanswered, HelloBusy,
         HelloGone, HelloStarted, HelloResumed, Flush, FlushFails, RecvReply, RecvFails,
         serverVars
<1>2. \A m \in Made : m \in Made' /\ issued'[m] = issued[m]
  BY MadeStays
<1>3. RanAnywhere' = RanAnywhere /\ \A s \in Sessions : Elems(ran'[s]) = Elems(ran[s])
  BY <1>1 DEF RanAnywhere
<1>4. RanAnywhere \subseteq Made /\ failed \subseteq RanAnywhere
  BY RanIsMade
<1>5. HistoryGrows
  BY <1>1, <1>2, <1>3, <1>4 DEF HistoryGrows
<1>6. \A s \in Sessions : Recorded(sess'[s], held'[s], Elems(ran'[s]), issued', failed')
  <2> SUFFICES ASSUME NEW s \in Sessions
               PROVE  Recorded(sess[s], held[s], Elems(ran[s]), issued', failed)
    BY <1>1, <1>3
  <2>1. Elems(ran[s]) \subseteq RanAnywhere /\ Elems(ran[s]) \in SUBSET Nat
    BY RanIsMade DEF RanAnywhere
  <2>2. Recorded(sess[s], held[s], Elems(ran[s]), issued, failed)
    BY DEF TruthInv
  <2>3. sess[s].last_req \in Nat
    BY Bounds DEF TypeOK, ServerTypeOK, SessionRec
  <2>4. \A m \in Elems(ran[s]) : issued'[m] = issued[m] /\ (m \in failed <=> m \in failed)
    BY <1>2, <1>4, <2>1
  <2>5. QED
    BY <2>1, <2>2, <2>3, <2>4, RecordedSame
<1>7. \A c \in Conns : acc'[c].kept = acc[c].kept \/ acc'[c].kept = NoneKept
  <2>1. CASE Dial
    BY <2>1 DEF Dial, NoHandshake, TypeOK, ServerTypeOK
  <2>2. CASE acc' = acc
    BY <2>2
  <2>3. QED
    BY <2>1, <2>2 DEF Client, StartConnecting, QueueFrame, Refused, GiveUp, HelloUnanswered,
         HelloBusy, HelloGone, HelloStarted, HelloResumed, Flush, FlushFails, RecvReply,
         RecvFails, serverVars
<1>8. \A c \in Conns : \A i \in DOMAIN down'[c] : \E j \in DOMAIN down[c] : down'[c][i] = down[c][j]
  <2> SUFFICES ASSUME NEW c \in Conns, NEW i \in DOMAIN down'[c]
               PROVE  \E j \in DOMAIN down[c] : down'[c][i] = down[c][j]
    OBVIOUS
  <2>1. CASE down'[c] = down[c]
    BY <2>1
  <2>2. CASE down[c] # <<>> /\ down'[c] = Tail(down[c])
    <3>1. down[c] \in Seq(Message)
      BY DEF TypeOK, NetTypeOK
    <3>2. QED
      BY <2>2, <3>1, TailParts
  <2>3. QED
    BY <2>1, <2>2, ClientReads
<1>9. \A n \in Made' : IsCall(n)' /\ told'[n] \in Result =>
        \/ n \in Made /\ IsCall(n) /\ told'[n] = told[n]
        \/ Answered(n, told'[n], RanAnywhere', issued', failed')
  <2>1. \A n, r : Answered(n, r, RanAnywhere, issued, failed)
                    => Answered(n, r, RanAnywhere', issued', failed')
    BY <1>5, TruthStays
  <2>2. QED
    BY <2>1, ClientTellsTruth
<1>10. RanAnywhere' \subseteq Made' /\ failed' \subseteq RanAnywhere'
  BY <1>1, <1>2, <1>3, <1>4
<1>11. QED
  BY <1>1, <1>5, <1>6, <1>7, <1>8, <1>9, <1>10, NoneKeptIsTrue, TruthKept

(* An accept thread sends its own reply or the one it took from the        *)
(* session, and leaves what the session knows of its request.              *)
LEMMA AcceptSays ==
  ASSUME TypeOK, NEW d \in Conns, Accept(d)
  PROVE  /\ UNCHANGED <<clientVars, held, failed>>
         /\ \/ down'[d] = down[d]
            \/ \E m \in Message : /\ down'[d] = down[d] \o <<m>>
                                  /\ m.type # "rsp" \/ m = acc[d].kept
         /\ \/ acc'[d].kept \in {acc[d].kept, NoneKept}
            \/ acc[d].s \in Sessions /\ acc'[d].kept = sess[acc[d].s].reply
         /\ \A x \in Sessions : sess'[x].result = sess[x].result
<1>1. /\ acc \in [Conns -> AcceptRec] /\ acc[d] \in AcceptRec
      /\ live \in [Conns -> BOOLEAN] /\ down \in [Conns -> Seq(Message)]
      /\ sess \in [Sessions -> SessionRec] /\ \A x \in Sessions : sess[x] \in SessionRec
  BY DEF TypeOK, ServerTypeOK, NetTypeOK
<1>2. UNCHANGED <<clientVars, held, failed>>
  BY DEF Accept, HelloNeverArrives, FindSession, StartSession, RefuseSession, TellGone, Snapshot,
         WriteHello, WriteHelloFails, ResendKept, HandOver, StartServing
<1>3. \A m : Write(d, <<m>>) => down'[d] = down[d] \/ down'[d] = down[d] \o <<m>>
  BY <1>1 DEF Write
<1>4. \A pc : acc' = [acc EXCEPT ![d].pc = pc] => acc'[d].kept = acc[d].kept
  BY <1>1 DEF AcceptRec
<1>5. HandshakeDone(d) => acc'[d].kept = acc[d].kept
  BY <1>4 DEF HandshakeDone
<1>6. CASE HelloNeverArrives(d) \/ FindSession(d)
  <2>1. down' = down /\ sess' = sess
    BY <1>6 DEF HelloNeverArrives, FindSession, netVars
  <2>2. acc'[d].kept = acc[d].kept
    <3>1. CASE HelloNeverArrives(d)
      BY <1>5, <3>1 DEF HelloNeverArrives
    <3>2. CASE FindSession(d)
      BY <1>1, <3>2 DEF FindSession, AcceptRec
    <3>3. QED
      BY <1>6, <3>1, <3>2
  <2>3. QED
    BY <1>2, <2>1, <2>2
<1>7. CASE Snapshot(d)
  <2>1. down' = down /\ sess' = sess
    BY <1>7 DEF Snapshot, netVars
  <2>2. PICK k : /\ acc' = [acc EXCEPT ![d].pc = "reply", ![d].snap = sess[acc[d].s].last_req,
                                       ![d].kept = k]
                 /\ k \in {sess[acc[d].s].reply, NoneKept}
    BY <1>7 DEF Snapshot
  <2>3. acc'[d].kept = k
    BY <1>1, <2>2 DEF AcceptRec
  <2>4. acc[d].s \in Sessions
    <3>1. acc[d].pc = "snapshot"
      BY <1>7 DEF Snapshot
    <3>2. acc[d].s # None
      BY <3>1 DEF TypeOK, ServerTypeOK
    <3>3. acc[d].s \in 0 .. MaxSessions
      BY <1>1 DEF AcceptRec
    <3>4. QED
      BY <3>2, <3>3, Bounds DEF None, Sessions
  <2>5. QED
    BY <1>2, <2>1, <2>2, <2>3, <2>4
<1>8. CASE StartSession(d)
  <2>1. /\ down' = down /\ sess' = [sess EXCEPT ![made + 1].pc = "starting"]
        /\ acc' = [acc EXCEPT ![d].pc = "snapshot", ![d].s = made + 1]
    BY <1>8 DEF StartSession, netVars
  <2>2. acc'[d].kept = acc[d].kept /\ \A x \in Sessions : sess'[x].result = sess[x].result
    BY <1>1, <2>1 DEF AcceptRec, SessionRec
  <2>3. QED
    BY <1>2, <2>1, <2>2
<1>9. CASE RefuseSession(d) \/ TellGone(d)
  <2>1. sess' = sess /\ acc'[d].kept = acc[d].kept
    BY <1>5, <1>9 DEF RefuseSession, TellGone
  <2>2. \E m \in Message : m.type # "rsp" /\ Write(d, <<m>>)
    <3>1. HelloReply("busy", 0) \in Message /\ HelloReply("fresh", 0) \in Message
          /\ HelloReply("busy", 0).type = "busy" /\ HelloReply("fresh", 0).type = "fresh"
      BY Bounds, HelloReplyType DEF HelloReply
    <3>2. QED
      BY <1>9, <3>1 DEF RefuseSession, TellGone
  <2>3. QED
    BY <1>2, <1>3, <2>1, <2>2
<1>10. CASE WriteHello(d)
  <2>1. sess' = sess /\ acc'[d].kept = acc[d].kept
    BY <1>4, <1>10 DEF WriteHello
  <2>2. PICK m : /\ m = HelloReply(IF acc[d].resumed THEN "resumed" ELSE "fresh", acc[d].snap)
                 /\ Write(d, <<m>>)
    BY <1>10 DEF WriteHello
  <2>3. m \in Message /\ m.type # "rsp"
    BY <1>1, <2>2, HelloReplyType DEF HelloReply, AcceptRec
  <2>4. QED
    BY <1>2, <1>3, <2>1, <2>2, <2>3
<1>11. CASE ResendKept(d)
  <2>1. sess' = sess
    BY <1>11 DEF ResendKept
  <2>2. acc'[d].kept = acc[d].kept
    BY <1>4, <1>5, <1>11 DEF ResendKept
  <2>3. acc[d].kept \in Message
    BY <1>1, RepliesAreMessages DEF AcceptRec
  <2>4. down' = down \/ Write(d, <<acc[d].kept>>)
    BY <1>11 DEF ResendKept
  <2>5. QED
    BY <1>2, <1>3, <2>1, <2>2, <2>3, <2>4
<1>12. CASE WriteHelloFails(d) \/ HandOver(d) \/ StartServing(d)
  <2>1. down' = down /\ acc'[d].kept = acc[d].kept
    BY <1>5, <1>12 DEF WriteHelloFails, HandOver, StartServing
  <2>2. \/ sess' = sess
        \/ \E s : sess' = [sess EXCEPT ![s].finished = TRUE, ![s].pc = "dead",
                                       ![s].pending_fd = None]
        \/ \E s, pc : sess' = [sess EXCEPT ![s].pending_fd = d, ![s].pc = pc]
    BY <1>12 DEF WriteHelloFails, HandOver, StartServing, Pend
  <2>3. \A x \in Sessions : sess'[x].result = sess[x].result
    <3>1. CASE sess' = sess
      BY <3>1
    <3>2. ASSUME NEW s, sess' = [sess EXCEPT ![s].finished = TRUE, ![s].pc = "dead",
                                             ![s].pending_fd = None]
          PROVE  \A x \in Sessions : sess'[x].result = sess[x].result
      BY <1>1, <3>2 DEF SessionRec
    <3>3. ASSUME NEW s, NEW pc, sess' = [sess EXCEPT ![s].pending_fd = d, ![s].pc = pc]
          PROVE  \A x \in Sessions : sess'[x].result = sess[x].result
      BY <1>1, <3>3 DEF SessionRec
    <3>4. QED
      BY <2>2, <3>1, <3>2, <3>3
  <2>4. QED
    BY <1>2, <2>1, <2>3
<1>13. QED
  BY <1>6, <1>7, <1>8, <1>9, <1>10, <1>11, <1>12 DEF Accept

(* Nothing that a session knows of its requests changes.                   *)
LEMMA RecordedKept ==
  ASSUME TypeOK, TruthInv, NEW s \in Sessions,
         UNCHANGED <<issued, failed>>, ran'[s] = ran[s],
         sess'[s].last_req = sess[s].last_req,
         \/ sess'[s].pc = "dead"
         \/ /\ held'[s] = held[s]
            /\ \/ /\ sess'[s].pc = sess[s].pc /\ sess'[s].cur = sess[s].cur
                  /\ sess'[s].result = sess[s].result
               \/ sess[s].pc # "dead" /\ sess'[s].pc # "record"
  PROVE  Recorded(sess'[s], held'[s], Elems(ran'[s]), issued', failed')
<1>1. Elems(ran[s]) \in SUBSET Nat
  BY RanIsMade DEF RanAnywhere
<1>2. Recorded(sess[s], held[s], Elems(ran[s]), issued, failed)
  BY DEF TruthInv
<1>3. sess[s].last_req \in Nat
  BY Bounds DEF TypeOK, ServerTypeOK, SessionRec
<1>4. CASE sess'[s].pc = "dead"
  BY <1>4 DEF Recorded
<1>5. CASE sess'[s].pc # "dead"
  <2>1. Recorded(sess'[s], held[s], Elems(ran[s]), issued, failed)
    BY <1>1, <1>2, <1>3, <1>5, RecordedSame
  <2>2. QED
    BY <1>5, <2>1
<1>6. QED
  BY <1>4, <1>5

(* Nothing ran, was made or told by a step: the history is as it was.      *)
LEMMA HistoryKept ==
  ASSUME TypeOK, TruthInv, UNCHANGED <<issued, failed, told>>, \A s \in Sessions : ran'[s] = ran[s]
  PROVE  /\ HistoryGrows /\ RanAnywhere' = RanAnywhere
         /\ RanAnywhere' \subseteq Made' /\ failed' \subseteq RanAnywhere'
         /\ \A n \in Made' : IsCall(n)' => n \in Made /\ IsCall(n) /\ told'[n] = told[n]
<1>1. RanAnywhere' = RanAnywhere
  BY DEF RanAnywhere
<1>2. RanAnywhere \subseteq Made /\ failed \subseteq RanAnywhere
  BY RanIsMade
<1>3. Made' = Made
  BY DEF Made
<1>4. QED
  BY <1>1, <1>2, <1>3 DEF HistoryGrows, IsCall, NoReply

(* The messages of a connection with one more.                             *)
LEMMA OneMoreIsThere ==
  ASSUME NEW S, NEW f \in Seq(S), NEW m \in S, NEW g, g = f \/ g = f \o <<m>>
  PROVE  \A i \in DOMAIN g : g[i] = m \/ \E j \in DOMAIN f : g[i] = f[j]
<1>1. CASE g = f
  BY <1>1
<1>2. CASE g = f \o <<m>>
  BY <1>2, OneMore
<1>3. QED
  BY <1>1, <1>2

(* An accept thread keeps TruthInv.                                        *)
LEMMA TruthAccept ==
  ASSUME TypeOK, OrderInv, SessionsInv, GoneInv, KeptInv, TruthInv, NEW d \in Conns, Accept(d)
  PROVE  TruthInv'
<1>1. UNCHANGED <<issued, told, held, failed>> /\ ran' = ran
  BY AcceptSays, AcceptServes DEF clientVars
<1>2. /\ HistoryGrows /\ RanAnywhere' \subseteq Made' /\ failed' \subseteq RanAnywhere'
      /\ \A n \in Made' : IsCall(n)' => n \in Made /\ IsCall(n) /\ told'[n] = told[n]
  BY <1>1, HistoryKept
<1>3. \A m : Truthful(m, RanAnywhere, issued, failed)
               => Truthful(m, RanAnywhere', issued', failed')
  BY <1>2, TruthStays
<1>4. ASSUME NEW s \in Sessions
      PROVE  /\ Recorded(sess'[s], held'[s], Elems(ran'[s]), issued', failed')
             /\ sess'[s].reply = sess[s].reply
  <2>1. sess'[s].cur = sess[s].cur /\ sess'[s].reply = sess[s].reply
    BY AcceptActs
  <2>2. sess'[s].last_req = sess[s].last_req /\ sess'[s].result = sess[s].result
    BY AcceptTells, AcceptSays
  <2>3. \/ sess'[s].pc = sess[s].pc
        \/ sess[s].pc = "starting" /\ sess'[s].pc \in {"waiting", "dead"}
        \/ sess[s].pc = "none" /\ sess'[s].pc = "starting"
    BY AcceptServes
  <2>4. QED
    BY <1>1, <2>1, <2>2, <2>3, RecordedKept
<1>5. ASSUME NEW c \in Conns
      PROVE  /\ \/ acc'[c].kept = acc[c].kept
                \/ Truthful(acc'[c].kept, RanAnywhere', issued', failed')
             /\ \A i \in DOMAIN down'[c] :
                  \/ \E j \in DOMAIN down[c] : down'[c][i] = down[c][j]
                  \/ Truthful(down'[c][i], RanAnywhere', issued', failed')
  <2>1. CASE c # d
    <3>1. acc'[c] = acc[c] /\ down'[c] = down[c]
      BY <2>1, AcceptMoves, AcceptActs
    <3>2. QED
      BY <3>1
  <2>2. CASE c = d
    <3>1. acc'[d].kept = acc[d].kept \/ Truthful(acc'[d].kept, RanAnywhere', issued', failed')
      <4>1. CASE acc'[d].kept \in {acc[d].kept, NoneKept}
        BY <4>1, NoneKeptIsTrue
      <4>2. CASE acc[d].s \in Sessions /\ acc'[d].kept = sess[acc[d].s].reply
        <5>1. Truthful(sess[acc[d].s].reply, RanAnywhere, issued, failed)
          BY <4>2 DEF TruthInv
        <5>2. QED
          BY <1>3, <4>2, <5>1
      <4>3. QED
        BY <4>1, <4>2, AcceptSays
    <3>2. CASE down'[d] = down[d]
      BY <2>2, <3>1, <3>2
    <3>3. ASSUME NEW m \in Message, down'[d] = down[d] \o <<m>>, m.type # "rsp" \/ m = acc[d].kept
          PROVE  \A i \in DOMAIN down'[d] :
                   \/ \E j \in DOMAIN down[d] : down'[d][i] = down[d][j]
                   \/ Truthful(down'[d][i], RanAnywhere', issued', failed')
      <4>1. down[d] \in Seq(Message)
        BY DEF TypeOK, NetTypeOK
      <4>2. Truthful(m, RanAnywhere', issued', failed')
        <5>1. Truthful(acc[d].kept, RanAnywhere, issued, failed)
          BY DEF TruthInv
        <5>2. QED
          BY <1>3, <3>3, <5>1, NoneKeptIsTrue
      <4>3. \A i \in DOMAIN down'[d] : down'[d][i] = m \/ \E j \in DOMAIN down[d] : down'[d][i] = down[d][j]
        BY <3>3, <4>1, OneMoreIsThere
      <4>4. QED
        BY <4>2, <4>3
    <3>4. QED
      BY <2>2, <3>1, <3>2, <3>3, AcceptSays
  <2>3. QED
    BY <2>1, <2>2
<1>6. QED
  BY <1>2, <1>4, <1>5, TruthKept

(* A break, a restart and a step of nothing keep TruthInv.                 *)
LEMMA TruthOthers ==
  ASSUME TypeOK, OrderInv, TruthInv, (\E d \in Conns : Break(d)) \/ Restart \/ UNCHANGED vars
  PROVE  TruthInv'
<1>1. UNCHANGED <<issued, told, failed, ran>>
  BY DEF Break, Restart, vars, clientVars, serverVars
<1>2. /\ HistoryGrows /\ RanAnywhere' \subseteq Made' /\ failed' \subseteq RanAnywhere'
      /\ \A n \in Made' : IsCall(n)' => n \in Made /\ IsCall(n) /\ told'[n] = told[n]
  BY <1>1, HistoryKept
<1>3. \A c \in Conns : \A i \in DOMAIN down'[c] : \E j \in DOMAIN down[c] : down'[c][i] = down[c][j]
  <2>1. CASE down' = down
    BY <2>1
  <2>2. ASSUME NEW d \in Conns, Break(d), NEW c \in Conns, NEW i \in DOMAIN down'[c]
        PROVE  \E j \in DOMAIN down[c] : down'[c][i] = down[c][j]
    <3>1. down \in [Conns -> Seq(Message)] /\ down[d] \in Seq(Message)
      BY DEF TypeOK, NetTypeOK
    <3>2. PICK k \in 0 .. Len(down[d]) : down' = [down EXCEPT ![d] = SubSeq(down[d], 1, k)]
      BY <2>2 DEF Break
    <3>3. CASE c = d
      <4>1. down'[d] = SubSeq(down[d], 1, k)
        BY <3>1, <3>2
      <4>2. i \in DOMAIN down[d] /\ down'[d][i] = down[d][i]
        BY <2>2, <3>1, <3>3, <4>1, PrefixParts
      <4>3. QED
        BY <3>3, <4>2
    <3>4. CASE c # d
      BY <2>2, <3>1, <3>2, <3>4
    <3>5. QED
      BY <3>3, <3>4
  <2>3. Restart \/ UNCHANGED vars => down' = down
    BY DEF Restart, vars, netVars
  <2>4. QED
    BY <2>1, <2>2, <2>3
<1>4. CASE UNCHANGED <<acc, sess, held>>
  BY <1>1, <1>2, <1>3, <1>4, RecordedKept, TruthKept
<1>5. CASE Restart
  <2>1. \A c \in Conns : acc'[c].kept = acc[c].kept
    BY <1>5 DEF Restart, TypeOK, ServerTypeOK, AcceptRec
  <2>2. ASSUME NEW s \in Sessions
        PROVE  /\ Recorded(sess'[s], held'[s], Elems(ran'[s]), issued', failed')
               /\ \/ sess'[s].reply = sess[s].reply
                  \/ Truthful(sess'[s].reply, RanAnywhere', issued', failed')
    <3>1. CASE sess[s].pc = "none"
      <4>1. sess'[s] = sess[s] /\ \A t \in Threads : held'[s][t] = 0
        BY <1>5, <3>1 DEF Restart
      <4>2. ran'[s] = <<>> /\ Elems(<<>>) = {}
        BY <1>1, <3>1, NothingKept DEF OrderInv, SessionInv
      <4>3. QED
        BY <3>1, <4>1, <4>2, NothingRecorded
    <3>2. CASE sess[s].pc # "none"
      <4>1. sess'[s] = [NoSession EXCEPT !.pc = "dead", !.finished = TRUE]
        BY <1>5, <3>2 DEF Restart
      <4>2. sess'[s].pc = "dead" /\ sess'[s].reply = NoneKept
        BY <4>1 DEF NoSession
      <4>3. QED
        BY <4>2, NoneKeptIsTrue DEF Recorded
    <3>3. QED
      BY <3>1, <3>2
  <2>3. QED
    BY <1>2, <1>3, <2>1, <2>2, TruthKept
<1>6. QED
  BY <1>4, <1>5 DEF Break, vars, serverVars

(* All that ran, ran in the session that is there.                         *)
LEMMA RanHere ==
  ASSUME TypeOK, OrderInv, SessionsInv, NEW s \in Sessions, sess[s].pc # "none"
  PROVE  /\ RanAnywhere = Elems(ran[s])
         /\ \A x \in Sessions \ {s} : sess[x].pc = "none" /\ ran[x] = <<>>
<1>1. \A x \in Sessions \ {s} : sess[x].pc = "none" /\ ran[x] = <<>>
  BY OneHolds DEF OrderInv, SessionInv
<1>2. Elems(<<>>) = {}
  BY NothingKept
<1>3. QED
  BY <1>1, <1>2 DEF RanAnywhere

(* The driver runs a request: it is past all that ran.                     *)
LEMMA TruthRun ==
  ASSUME TypeOK, OrderInv, SessionsInv, TruthInv, NEW s \in Sessions, Run(s)
  PROVE  TruthInv'
<1>1. PICK n : n = sess[s].cur
  OBVIOUS
<1>2. /\ sess[s].pc = "run" /\ ran' = [ran EXCEPT ![s] = Append(ran[s], n)]
      /\ UNCHANGED <<issued, told, down, acc, held>>
  BY <1>1 DEF Run, clientVars, netVars
<1>3. PICK fails \in BOOLEAN :
        /\ failed' = IF fails THEN failed \union {n} ELSE failed
        /\ sess' = [sess EXCEPT ![s].pc = "record", ![s].result = IF fails THEN n ELSE 0]
  BY <1>1, CallStreamAssumption DEF Run
<1>4. /\ sess \in [Sessions -> SessionRec] /\ sess[s] \in SessionRec
      /\ ran \in [Sessions -> Seq(Reqs)] /\ n \in Made /\ n \in Reqs /\ n \in Nat /\ n # 0
      /\ sess[s].last_req \in Nat
  <2>1. sess \in [Sessions -> SessionRec] /\ ran \in [Sessions -> Seq(Reqs)] /\ n \in Made
    BY <1>1, <1>2 DEF TypeOK, ServerTypeOK
  <2>2. QED
    BY <2>1, RanIsMade, Bounds DEF SessionRec
<1>5. /\ sess'[s].pc = "record" /\ sess'[s].result = IF fails THEN n ELSE 0
      /\ sess'[s].last_req = sess[s].last_req /\ sess'[s].cur = n
      /\ sess'[s].reply = sess[s].reply
      /\ \A x \in Sessions \ {s} : sess'[x] = sess[x] /\ ran'[x] = ran[x]
  BY <1>1, <1>2, <1>3, <1>4 DEF SessionRec
<1>6. /\ RanAnywhere = Elems(ran[s])
      /\ \A x \in Sessions \ {s} : sess[x].pc = "none" /\ ran[x] = <<>>
  BY <1>2, RanHere
<1>7. Elems(ran'[s]) = RanAnywhere \union {n}
  BY <1>2, <1>4, <1>6, ElemsOfParts
<1>8. RanAnywhere' = RanAnywhere \union {n}
  <2>1. \A x \in Sessions \ {s} : Elems(ran'[x]) = {}
    BY <1>5, <1>6, NothingKept
  <2>2. QED
    BY <1>7, <2>1 DEF RanAnywhere
<1>9. \A m \in RanAnywhere : m \in Nat /\ m <= sess[s].last_req /\ m < n
  <2>1. sess[s].last_req < n
    BY <1>1, <1>2 DEF OrderInv, SessionInv
  <2>2. \A m \in RanAnywhere : m <= sess[s].last_req
    BY <1>2, <1>6 DEF OrderInv, SessionInv, Elems
  <2>3. QED
    BY <1>4, <2>1, <2>2, RanIsMade
<1>10. HistoryGrows /\ RanAnywhere' \subseteq Made' /\ failed' \subseteq RanAnywhere'
  <2>1. n \notin RanAnywhere /\ RanAnywhere \subseteq Made /\ failed \subseteq RanAnywhere
    BY <1>4, <1>9, RanIsMade
  <2>2. \A m \in RanAnywhere : m # n
    BY <2>1
  <2>3. QED
    BY <1>2, <1>3, <1>4, <1>8, <1>9, <2>1, <2>2 DEF HistoryGrows, Made
<1>11. n \in failed' <=> fails
  BY <1>3, <1>4, <1>9, RanIsMade
<1>12. Recorded(sess'[s], held'[s], Elems(ran'[s]), issued', failed')
  <2>1. PICK R, R1, w : /\ R = RanAnywhere /\ R1 = RanAnywhere \union {n}
                        /\ w = sess[s].last_req + 1
    OBVIOUS
  <2>2. /\ R \in SUBSET Nat /\ R1 \in SUBSET Nat /\ w \in Nat
        /\ \A m \in Nat : m < w => (m \in R1 <=> m \in R)
        /\ \A m \in R : m < w => issued'[m] = issued[m] /\ (m \in failed' <=> m \in failed)
    <3>1. sess[s].last_req < n
      BY <1>1, <1>2 DEF OrderInv, SessionInv
    <3>2. \A m \in R : m # n
      BY <1>4, <1>9, <2>1
    <3>3. QED
      BY <1>2, <1>3, <1>4, <2>1, <3>1, <3>2, RanIsMade
  <2>3. ASSUME NEW t \in Threads
        PROVE  held'[s][t] = First(HeldFor(R1, t, w, issued', failed'))
    <3>1. held[s][t] = First(HeldFor(R, t, w, issued, failed))
      BY <1>2, <1>6, <2>1 DEF TruthInv, Recorded
    <3>2. HeldFor(R1, t, w, issued', failed') = HeldFor(R, t, w, issued, failed)
      BY <2>2, HeldSame
    <3>3. QED
      BY <1>2, <3>1, <3>2
  <2>4. n \in R1 /\ \A m \in R1 : m <= sess[s].last_req \/ m = n
    BY <1>9, <2>1
  <2>5. QED
    BY <1>5, <1>7, <1>11, <2>1, <2>3, <2>4 DEF Recorded
<1>13. ASSUME NEW x \in Sessions \ {s}
       PROVE  Recorded(sess'[x], held'[x], Elems(ran'[x]), issued', failed')
  <2>1. Recorded(sess[x], held[x], {}, issued, failed)
    BY <1>6, NothingKept DEF TruthInv
  <2>2. sess[x].last_req \in Nat
    BY <1>4, Bounds DEF SessionRec
  <2>3. {} \in SUBSET Nat /\ Elems(ran'[x]) = {}
    BY <1>5, <1>6, NothingKept
  <2>4. Recorded(sess[x], held[x], {}, issued', failed')
    BY <2>1, <2>2, <2>3, RecordedSame
  <2>5. QED
    BY <1>2, <1>5, <2>3, <2>4
<1>14. \A x \in Sessions : sess'[x].reply = sess[x].reply
  BY <1>5
<1>15. \A m \in Made' : IsCall(m)' => m \in Made /\ IsCall(m) /\ told'[m] = told[m]
  BY <1>2 DEF Made, IsCall, NoReply
<1>16. QED
  BY <1>2, <1>10, <1>12, <1>13, <1>14, <1>15, TruthKept

(* A step of one session that leaves the history as it was.                *)
LEMMA TruthOfOne ==
  ASSUME TypeOK, TruthInv, NEW s \in Sessions,
         UNCHANGED <<issued, told, failed, acc, ran>>,
         \A x \in Sessions \ {s} : sess'[x] = sess[x] /\ held'[x] = held[x],
         Recorded(sess'[s], held'[s], Elems(ran[s]), issued, failed),
         \/ sess'[s].reply = sess[s].reply
         \/ Truthful(sess'[s].reply, RanAnywhere, issued, failed),
         \A c \in Conns : down'[c] = down[c] \/ down'[c] = down[c] \o <<sess[s].reply>>
  PROVE  TruthInv'
<1>1. /\ HistoryGrows /\ RanAnywhere' = RanAnywhere
      /\ RanAnywhere' \subseteq Made' /\ failed' \subseteq RanAnywhere'
      /\ \A n \in Made' : IsCall(n)' => n \in Made /\ IsCall(n) /\ told'[n] = told[n]
  BY HistoryKept
<1>2. \A x \in Sessions :
        /\ Recorded(sess'[x], held'[x], Elems(ran'[x]), issued', failed')
        /\ \/ sess'[x].reply = sess[x].reply
           \/ Truthful(sess'[x].reply, RanAnywhere', issued', failed')
  <2>1. \A x \in Sessions \ {s} : Recorded(sess[x], held[x], Elems(ran[x]), issued, failed)
    BY DEF TruthInv
  <2>2. QED
    BY <1>1, <2>1
<1>3. ASSUME NEW c \in Conns, NEW i \in DOMAIN down'[c]
      PROVE  \/ \E j \in DOMAIN down[c] : down'[c][i] = down[c][j]
             \/ Truthful(down'[c][i], RanAnywhere', issued', failed')
  <2>1. down[c] \in Seq(Message) /\ sess[s].reply \in Message
    BY RepliesAreMessages DEF TypeOK, NetTypeOK, ServerTypeOK, SessionRec
  <2>2. down'[c][i] = sess[s].reply \/ \E j \in DOMAIN down[c] : down'[c][i] = down[c][j]
    <3>1. PICK f, g, m : f = down[c] /\ g = down'[c] /\ m = sess[s].reply
      OBVIOUS
    <3>2. f \in Seq(Message) /\ m \in Message /\ (g = f \/ g = f \o <<m>>)
      BY <2>1, <3>1
    <3>3. \A j \in DOMAIN g : g[j] = m \/ \E k \in DOMAIN f : g[j] = f[k]
      BY <3>2, OneMoreIsThere
    <3>4. QED
      BY <1>3, <3>1, <3>3
  <2>3. Truthful(sess[s].reply, RanAnywhere', issued', failed')
    BY <1>1 DEF TruthInv
  <2>4. QED
    BY <2>2, <2>3
<1>4. QED
  BY <1>1, <1>2, <1>3, TruthKept

(* What the session knows of the request it records.                       *)
LEMMA RecordKnows ==
  ASSUME TypeOK, OrderInv, SessionsInv, TruthInv, NEW s \in Sessions, sess[s].pc = "record",
         NEW n, n = sess[s].cur, NEW w, w = sess[s].last_req + 1
  PROVE  /\ Elems(ran[s]) \in SUBSET Nat /\ RanAnywhere = Elems(ran[s])
         /\ n \in Elems(ran[s]) /\ n \in Made /\ n \in Nat /\ n # 0 /\ w \in Nat /\ w <= n
         /\ issued[n] \in CallRec
         /\ \A m \in Elems(ran[s]) : m < w \/ m = n
         /\ sess[s].result = IF n \in failed THEN n ELSE 0
         /\ \A t \in Threads : held[s][t] = First(HeldFor(Elems(ran[s]), t, w, issued, failed))
<1>1. RanAnywhere = Elems(ran[s])
  BY RanHere
<1>2. Recorded(sess[s], held[s], Elems(ran[s]), issued, failed)
  BY DEF TruthInv
<1>3. sess[s].last_req \in Nat /\ sess[s].last_req < n
  BY Bounds DEF OrderInv, SessionInv, TypeOK, ServerTypeOK, SessionRec
<1>4. /\ n \in Elems(ran[s])
      /\ \A m \in Elems(ran[s]) : m <= sess[s].last_req \/ m = n
      /\ sess[s].result = IF n \in failed THEN n ELSE 0
      /\ \A t \in Threads : held[s][t] = First(HeldFor(Elems(ran[s]), t, w, issued, failed))
  BY <1>2 DEF Recorded
<1>5. /\ Elems(ran[s]) \in SUBSET Nat /\ n \in Made /\ n \in Nat /\ n # 0
      /\ issued[n] \in CallRec
  BY <1>1, <1>4, RanIsMade
<1>6. w \in Nat /\ w <= n /\ \A m \in Elems(ran[s]) : m < w \/ m = n
  BY <1>3, <1>4, <1>5
<1>7. QED
  BY <1>1, <1>4, <1>5, <1>6

(* A request without a reply is recorded, and its failure held.            *)
LEMMA TruthRecordAsync ==
  ASSUME TypeOK, OrderInv, SessionsInv, TruthInv, NEW s \in Sessions, RecordAsync(s)
  PROVE  TruthInv'
<1>1. PICK n, w, w1, R, I, F : /\ n = sess[s].cur /\ w = sess[s].last_req + 1 /\ w1 = n + 1
                               /\ R = Elems(ran[s]) /\ I = issued /\ F = failed
  OBVIOUS
<1>2. sess[s].pc = "record" /\ I[n].kind = "async"
  BY <1>1 DEF RecordAsync, NoReply
<1>3. /\ R \in SUBSET Nat /\ RanAnywhere = R
      /\ n \in R /\ n \in Made /\ n \in Nat /\ n # 0 /\ I[n] \in CallRec
      /\ w \in Nat /\ w1 \in Nat /\ w <= n /\ w1 = n + 1
      /\ \A m \in R : m < w \/ m = n
      /\ sess[s].result = IF n \in F THEN n ELSE 0
      /\ \A t \in Threads : held[s][t] = First(HeldFor(R, t, w, I, F))
  BY <1>1, <1>2, RecordKnows
<1>4. PICK u : u = I[n].thread
  OBVIOUS
<1>5. /\ held' = IF sess[s].result # 0 /\ held[s][u] = 0
                 THEN [held EXCEPT ![s][u] = sess[s].result] ELSE held
      /\ sess' = [sess EXCEPT ![s].pc = "reading", ![s].last_req = n, ![s].cur = 0, ![s].result = 0]
      /\ UNCHANGED <<issued, told, down, acc, ran, failed>>
  BY <1>1, <1>4 DEF RecordAsync, clientVars, netVars
<1>6. /\ sess \in [Sessions -> SessionRec] /\ held \in [Sessions -> [Threads -> Result]]
      /\ u \in Threads
  BY <1>3, <1>4 DEF TypeOK, ServerTypeOK, CallRec
<1>7. /\ sess'[s].pc = "reading" /\ sess'[s].last_req = n /\ sess'[s].reply = sess[s].reply
      /\ \A x \in Sessions \ {s} : sess'[x] = sess[x] /\ held'[x] = held[x]
  BY <1>5, <1>6 DEF SessionRec
<1>8. ASSUME NEW t \in Threads
      PROVE  held'[s][t] = First(HeldFor(R, t, w1, I, F))
  <2>1. PICK H : H = HeldFor(R, t, w, I, F)
    OBVIOUS
  <2>2. HeldFor(R, t, w1, I, F) = H \union (IF n \in F /\ u = t THEN {n} ELSE {})
    BY <1>2, <1>3, <1>4, <2>1, HeldAfterAsync
  <2>3. held[s][t] = First(H)
    BY <1>3, <2>1
  <2>4. CASE n \in F /\ u = t
    <3>1. held'[s][t] = IF held[s][t] = 0 THEN n ELSE held[s][t]
      BY <1>3, <1>5, <1>6, <2>4
    <3>2. H \in SUBSET (Nat \ {0}) /\ n \in Nat \ {0} /\ \A m \in H : m < n
      <4>1. \A m \in H : m \in R /\ m < w
        BY <2>1, HeldIs
      <4>2. R \subseteq Nat \ {0}
        BY <1>3, RanIsMade
      <4>3. H \in SUBSET (Nat \ {0}) /\ n \in Nat \ {0}
        BY <1>3, <4>1, <4>2
      <4>4. ASSUME NEW m \in H PROVE m < n
        <5>1. m \in Nat /\ w \in Nat /\ n \in Nat /\ m < w /\ w <= n
          BY <1>3, <4>1, <4>3
        <5>2. QED
          BY <5>1
      <4>5. QED
        BY <4>3, <4>4
    <3>3. First(H \union {n}) = IF First(H) = 0 THEN n ELSE First(H)
      BY <3>2, FirstOneMore
    <3>4. QED
      BY <2>2, <2>3, <2>4, <3>1, <3>3
  <2>5. CASE ~(n \in F /\ u = t)
    <3>1. held'[s][t] = held[s][t]
      BY <1>3, <1>5, <1>6, <2>5
    <3>2. QED
      BY <2>2, <2>3, <2>5, <3>1
  <2>6. QED
    BY <2>4, <2>5
<1>9. Recorded(sess'[s], held'[s], Elems(ran[s]), issued, failed)
  BY <1>1, <1>3, <1>7, <1>8 DEF Recorded
<1>10. QED
  BY <1>5, <1>7, <1>9, TruthOfOne

(* A call is recorded, and what was held for its thread rides on its reply.*)
LEMMA TruthRecordCall ==
  ASSUME TypeOK, OrderInv, SessionsInv, TruthInv, NEW s \in Sessions, RecordCall(s)
  PROVE  TruthInv'
<1>1. PICK n, w, w1, R, I, F : /\ n = sess[s].cur /\ w = sess[s].last_req + 1 /\ w1 = n + 1
                               /\ R = Elems(ran[s]) /\ I = issued /\ F = failed
  OBVIOUS
<1>2. sess[s].pc = "record" /\ I[n].kind # "async"
  BY <1>1 DEF RecordCall, NoReply
<1>3. /\ R \in SUBSET Nat /\ RanAnywhere = R
      /\ n \in R /\ n \in Made /\ n \in Nat /\ n # 0 /\ I[n] \in CallRec
      /\ w \in Nat /\ w1 \in Nat /\ w <= n /\ w1 = n + 1
      /\ \A m \in R : m < w \/ m = n
      /\ sess[s].result = IF n \in F THEN n ELSE 0
      /\ \A t \in Threads : held[s][t] = First(HeldFor(R, t, w, I, F))
  BY <1>1, <1>2, RecordKnows
<1>4. PICK u, r : u = I[n].thread /\ r = IF Folds(s, u) THEN held[s][u] ELSE sess[s].result
  OBVIOUS
<1>5. /\ held' = IF Folds(s, u) THEN [held EXCEPT ![s][u] = 0] ELSE held
      /\ sess' = [sess EXCEPT ![s].pc = "send", ![s].last_req = n,
                              ![s].reply = Response(n, r), ![s].cur = 0, ![s].result = 0]
      /\ UNCHANGED <<issued, told, down, acc, ran, failed>>
  BY <1>1, <1>4 DEF RecordCall, HeldAfterReply, clientVars, netVars
<1>6. /\ sess \in [Sessions -> SessionRec] /\ held \in [Sessions -> [Threads -> Result]]
      /\ u \in Threads /\ I[n].kind \in {"call", "observe"}
  BY <1>2, <1>3, <1>4, CallStreamAssumption DEF TypeOK, ServerTypeOK, CallRec, AllKinds
<1>7. /\ sess'[s].pc = "send" /\ sess'[s].last_req = n /\ sess'[s].reply = Response(n, r)
      /\ \A x \in Sessions \ {s} : sess'[x] = sess[x] /\ held'[x] = held[x]
  BY <1>5, <1>6 DEF SessionRec
<1>8. Folds(s, u) <=> n \notin F /\ held[s][u] # 0 /\ I[n].kind = "call"
  BY <1>1, <1>3, <1>6 DEF Folds
<1>9. \A t \in Threads :
        /\ HeldFor(R, t, n, I, F) = HeldFor(R, t, w, I, F)
        /\ Tells(n, t, I, F) => HeldFor(R, t, w1, I, F) = {}
        /\ ~Tells(n, t, I, F) => HeldFor(R, t, w1, I, F) = HeldFor(R, t, w, I, F)
  <2>1. /\ R \in SUBSET Nat /\ n \in R /\ w \in Nat /\ w1 \in Nat /\ w <= n /\ w1 = n + 1
        /\ I[n].kind # "async" /\ \A m \in R : m < w \/ m = n
    BY <1>2, <1>3
  <2>2. \A t \in Threads : HeldFor(R, t, n, I, F) = HeldFor(R, t, w, I, F)
    BY <2>1, HeldAtCall
  <2>3. ASSUME NEW t \in Threads
        PROVE  /\ Tells(n, t, I, F) => HeldFor(R, t, w1, I, F) = {}
               /\ ~Tells(n, t, I, F) => HeldFor(R, t, w1, I, F) = HeldFor(R, t, w, I, F)
    BY <2>1, HeldAfterCall
  <2>4. QED
    BY <2>2, <2>3
<1>10. \A t : Tells(n, t, I, F) <=> I[n].kind = "call" /\ u = t /\ n \notin F
  BY <1>4 DEF Tells
<1>11. First({}) = 0
  BY DEF First, None
<1>12. ASSUME NEW t \in Threads
       PROVE  held'[s][t] = First(HeldFor(R, t, w1, I, F))
  <2>1. CASE Tells(n, t, I, F)
    <3>1. held'[s][t] = 0
      BY <1>5, <1>6, <1>8, <1>10, <2>1
    <3>2. QED
      BY <1>9, <1>11, <2>1, <3>1
  <2>2. CASE ~Tells(n, t, I, F)
    <3>1. held'[s][t] = held[s][t]
      BY <1>5, <1>6, <1>8, <1>10, <2>2
    <3>2. QED
      BY <1>3, <1>9, <2>2, <3>1
  <2>3. QED
    BY <2>1, <2>2
<1>13. Recorded(sess'[s], held'[s], Elems(ran[s]), issued, failed)
  BY <1>1, <1>3, <1>7, <1>12 DEF Recorded
<1>14. r = AnswerTo(n, R, I, F)
  <2>1. held[s][u] = First(HeldFor(R, u, n, I, F))
    BY <1>3, <1>6, <1>9
  <2>2. QED
    BY <1>3, <1>4, <1>6, <1>8, <2>1 DEF AnswerTo
<1>15. Truthful(sess'[s].reply, RanAnywhere, issued, failed)
  BY <1>1, <1>2, <1>3, <1>7, <1>14 DEF Truthful, Response, Answered
<1>16. QED
  BY <1>5, <1>7, <1>13, <1>15, TruthOfOne

(* What the other steps of a serving thread leave, and that they send no   *)
(* reply but the one kept.                                                 *)
LEMMA ServeSays ==
  ASSUME TypeOK, NEW s \in Sessions, Serve(s)
  PROVE  \/ Run(s) \/ RecordAsync(s) \/ RecordCall(s)
         \/ /\ UNCHANGED <<issued, told, failed, acc, ran>>
            /\ \A x \in Sessions \ {s} : sess'[x] = sess[x] /\ held'[x] = held[x]
            /\ sess'[s].last_req = sess[s].last_req /\ sess'[s].reply = sess[s].reply
            /\ sess'[s].pc # "record" /\ sess[s].pc # "dead"
            /\ sess'[s].pc = "dead" \/ held'[s] = held[s]
            /\ \A c \in Conns : down'[c] = down[c] \/ down'[c] = down[c] \o <<sess[s].reply>>
<1>1. /\ sess \in [Sessions -> SessionRec] /\ held \in [Sessions -> [Threads -> Result]]
      /\ live \in [Conns -> BOOLEAN] /\ down \in [Conns -> Seq(Message)]
  BY DEF TypeOK, ServerTypeOK, NetTypeOK
<1>2. CASE TakeUp(s) \/ Expire(s)
  <2>1. UNCHANGED <<issued, told, failed, acc, ran, held, down>>
    BY <1>2 DEF TakeUp, Expire, clientVars, netVars
  <2>2. /\ \A x \in Sessions \ {s} : sess'[x] = sess[x]
        /\ sess'[s].last_req = sess[s].last_req /\ sess'[s].reply = sess[s].reply
        /\ sess'[s].pc \in {"reading", "ended"} /\ sess[s].pc = "waiting"
    BY <1>1, <1>2 DEF TakeUp, Expire, SessionRec
  <2>3. QED
    BY <2>1, <2>2
<1>3. CASE Leave(s)
  <2>1. UNCHANGED <<issued, told, failed, acc, ran, down>>
    BY <1>3 DEF Leave, clientVars, netVars
  <2>2. /\ \A x \in Sessions \ {s} : sess'[x] = sess[x] /\ held'[x] = held[x]
        /\ sess'[s].last_req = sess[s].last_req /\ sess'[s].reply = sess[s].reply
        /\ sess'[s].pc = "dead" /\ sess[s].pc = "ended"
    BY <1>1, <1>3 DEF Leave, SessionRec
  <2>3. QED
    BY <2>1, <2>2
<1>4. CASE AnswerCopy(s) \/ SkipCopy(s) \/ TakeRequest(s) \/ SendReply(s) \/ EndConnection(s)
  <2>1. UNCHANGED <<issued, told, failed, acc, ran, held>>
    BY <1>4 DEF AnswerCopy, SkipCopy, TakeRequest, SendReply, EndConnection, clientVars, serverVars
  <2>2. sess[s].pc \in {"reading", "send"}
    BY <1>4 DEF AnswerCopy, SkipCopy, TakeRequest, SendReply, EndConnection, Reading
  <2>3. down' = down \/ Write(sess[s].fd, <<sess[s].reply>>)
    BY <1>4 DEF AnswerCopy, SkipCopy, TakeRequest, SendReply, EndConnection
  <2>4. \A c \in Conns : down'[c] = down[c] \/ down'[c] = down[c] \o <<sess[s].reply>>
    <3>1. PICK f, m : f = sess[s].fd /\ m = sess[s].reply
      OBVIOUS
    <3>2. down' = down \/ down' = [down EXCEPT ![f] = down[f] \o <<m>>]
      BY <2>3, <3>1 DEF Write
    <3>3. QED
      BY <1>1, <3>1, <3>2
  <2>5. \/ sess' = sess \/ Hangup(s)
        \/ sess' = [sess EXCEPT ![s].pc = "run", ![s].cur = Next1(s)]
        \/ sess' = [sess EXCEPT ![s].pc = "reading"]
    BY <1>4 DEF AnswerCopy, SkipCopy, TakeRequest, SendReply, EndConnection, serverVars
  <2>6. /\ \A x \in Sessions \ {s} : sess'[x] = sess[x]
        /\ sess'[s].last_req = sess[s].last_req /\ sess'[s].reply = sess[s].reply
        /\ sess'[s].pc \in {"reading", "send", "waiting", "run"}
    <3>1. CASE sess' = sess
      BY <2>2, <3>1
    <3>2. CASE Hangup(s)
      BY <1>1, <3>2 DEF Hangup, SessionRec
    <3>3. CASE sess' = [sess EXCEPT ![s].pc = "run", ![s].cur = Next1(s)]
      BY <1>1, <3>3 DEF SessionRec
    <3>4. CASE sess' = [sess EXCEPT ![s].pc = "reading"]
      BY <1>1, <3>4 DEF SessionRec
    <3>5. QED
      BY <2>5, <3>1, <3>2, <3>3, <3>4
  <2>7. QED
    BY <2>1, <2>2, <2>4, <2>6
<1>5. QED
  BY <1>2, <1>3, <1>4 DEF Serve

(* A serving thread keeps TruthInv.                                        *)
LEMMA TruthServe ==
  ASSUME TypeOK, OrderInv, SessionsInv, TruthInv, NEW s \in Sessions, Serve(s)
  PROVE  TruthInv'
<1>1. CASE Run(s) \/ RecordAsync(s) \/ RecordCall(s)
  BY <1>1, TruthRun, TruthRecordAsync, TruthRecordCall
<1>2. CASE ~(Run(s) \/ RecordAsync(s) \/ RecordCall(s))
  <2>1. /\ UNCHANGED <<issued, told, failed, acc, ran>>
        /\ \A x \in Sessions \ {s} : sess'[x] = sess[x] /\ held'[x] = held[x]
        /\ sess'[s].last_req = sess[s].last_req /\ sess'[s].reply = sess[s].reply
        /\ sess'[s].pc # "record" /\ sess[s].pc # "dead"
        /\ sess'[s].pc = "dead" \/ held'[s] = held[s]
        /\ \A c \in Conns : down'[c] = down[c] \/ down'[c] = down[c] \o <<sess[s].reply>>
    BY <1>2, ServeSays
  <2>2. Recorded(sess'[s], held'[s], Elems(ran'[s]), issued', failed')
    BY <2>1, RecordedKept
  <2>3. Recorded(sess'[s], held'[s], Elems(ran[s]), issued, failed)
    BY <2>1, <2>2
  <2>4. QED
    BY <2>1, <2>3, TruthOfOne
<1>3. QED
  BY <1>1, <1>2

(* Every step keeps TruthInv.                                              *)
LEMMA TruthStep ==
  ASSUME TypeOK, OrderInv, SessionsInv, GoneInv, FramesInv, KeptInv, TruthInv, [Next]_vars
  PROVE  TruthInv'
<1>1. CASE Client
  BY <1>1, TruthClient
<1>2. ASSUME NEW c \in Conns, Accept(c) PROVE TruthInv'
  BY <1>2, TruthAccept
<1>3. ASSUME NEW s \in Sessions, Serve(s) PROVE TruthInv'
  BY <1>3, TruthServe
<1>4. CASE (\E c \in Conns : Break(c)) \/ Restart \/ UNCHANGED vars
  BY <1>4, TruthOthers
<1>5. QED
  BY <1>1, <1>2, <1>3, <1>4 DEF Next

(* TruthInv: every reply, wherever it is, is the answer to its call.       *)
THEOREM TruthHolds == Spec => []TruthInv
<1>1. TypeOK /\ OrderInv /\ SessionsInv /\ GoneInv /\ FramesInv /\ RepliesInv /\ TruthInv
        /\ [Next]_vars => TruthInv'
  BY TruthStep DEF RepliesInv
<1>2. QED
  BY <1>1, TruthInit, TypeCorrect, OrderInvariant, SessionsHold, GoneHolds, FramesHold,
     RepliesHold, PTL DEF Spec

(* What the application is told is true: success only if the call ran and  *)
(* did not fail, its own failure only if it failed, and another request's  *)
(* only if that one is an earlier call_async of the same thread that ran   *)
(* and failed.                                                             *)
THEOREM AlwaysAnswersAreTrue == Spec => []AnswersAreTrue
<1>1. TypeOK /\ TruthInv => AnswersAreTrue
  BY TruthAnswers
<1>2. QED
  BY <1>1, TypeCorrect, TruthHolds, PTL

(* A failure that had no reply of its own (pending_async of the server) is *)
(* reported to one call only.                                              *)
THEOREM AlwaysReportedOnce == Spec => []ReportedOnce
<1>1. TypeOK /\ TruthInv => ReportedOnce
  BY TruthReports
<1>2. QED
  BY <1>1, TypeCorrect, TruthHolds, PTL

(* A call that may carry a failure and is told of success means that no    *)
(* earlier call_async of its thread failed unreported.                     *)
THEOREM NeverForgetsAFailure == Spec => []NoFailureForgotten
<1>1. TypeOK /\ TruthInv => NoFailureForgotten
  BY TruthForgets
<1>2. QED
  BY <1>1, TypeCorrect, TruthHolds, PTL
=============================================================================
