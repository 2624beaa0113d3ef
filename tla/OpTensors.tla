----------------------------- MODULE OpTensors ------------------------------
(***************************************************************************)
(* The tensors of the operation path.  On the client (rgpu/dispatch.py,    *)
(* tensor.py, compile.py, session.py) a tensor is an id; the server's      *)
(* Session (rgpu/server/session.py) holds the data, or the failure it is   *)
(* without for.  Most operations are not waited for: a failed one poisons  *)
(* what it would have made, and the first failure is raised at the next    *)
(* wait.  Ids of tensors the application let go are freed by a message     *)
(* queued ahead of the next one.                                           *)
(*                                                                         *)
(* How messages travel is OpStream's: here they are applied in order, once *)
(* each, until the session is lost.                                        *)
(***************************************************************************)
EXTENDS Naturals, Sequences

CONSTANTS
  Programs,     \* the applications: the operations they make, out of AllOps, how
                \* many and of how many tensors; whether any may fail, or the
                \* session may be lost
  AckAt,        \* REPLAY_ACK_AT, in messages
  MaxOps,       \* bound: messages of an application's own making
  MaxFrees,     \* bound: further messages, FREE and ACK
  MaxTensors    \* bound: tensors

AllOps == {"make", "run", "view", "write", "upload", "compile", "call", "size", "download", "sync"}

ASSUME OpTensorsAssumption ==
  /\ Programs \subseteq [ops : SUBSET AllOps, most : 0 .. MaxOps, tensors : 0 .. MaxTensors,
                          fail : BOOLEAN, lost : BOOLEAN]
  /\ AckAt \in Nat /\ MaxOps \in Nat /\ MaxFrees \in Nat /\ MaxTensors \in Nat

None    == 0
Tensors == 1 .. MaxTensors
Ids     == 1 .. 2 * MaxTensors
SERVER_ID_BASE == MaxTensors + 1
Numbers == 1 .. MaxOps + MaxFrees

VARIABLES
  program,       \* one of Programs
  made,          \* how many tensors the client has made
  id,            \* _rgpu_id, of each
  held,          \* the tensors the application holds
  pending_frees,
  shipped,       \* the message that compiles the graph the client has, or None
  call,          \* where the thread holding the connection's lock is
  issued,        \* how many messages were queued, and how many of them are
  asked,         \*   the application's
  unacked,       \* how many are not acknowledged
  stream,        \* the messages not yet applied
  sess,          \* the server's Session
  data,          \* the server: what each storage holds
  gone,          \* the session is lost, and the client does not know
  truth          \* history: the program run without a server, and what it is
                 \* not comparable for
clientVars == <<made, id, held, pending_frees, shipped, call, issued, asked, unacked>>
vars == <<program, clientVars, stream, sess, data, gone, truth>>

-----------------------------------------------------------------------------
(* A message: what it uses, what it writes and what it makes, by id; the   *)
(* tensor it makes; whether it works, given its arguments.                 *)
Message == [op |-> "ack", n |-> None, use |-> None, write |-> None, out |-> None, t |-> None,
            ids |-> {}, works |-> TRUE]
Waited(op) == op \in {"size", "download", "sync", "ack"}     \* _WAITED

Idle == [pc |-> "idle", m |-> Message, of |-> <<None, None>>, frees |-> {}, ok |-> TRUE, said |-> None]

(* A server's tensor: not there, poisoned by the operation named, or one   *)
(* in a storage.                                                           *)
Absent       == [there |-> FALSE, poison |-> None, store |-> None]
Poison(n)    == [there |-> TRUE, poison |-> n, store |-> None]
TensorIn(s)  == [there |-> TRUE, poison |-> None, store |-> s]
NewSession   == [tensors |-> [i \in Ids |-> Absent], graph |-> Absent, first_error |-> None,
                 next_server_id |-> SERVER_ID_BASE]

Init ==
  /\ program \in Programs
  /\ made = 0 /\ id = [t \in Tensors |-> None] /\ held = {} /\ pending_frees = {} /\ shipped = None
  /\ call = Idle /\ issued = 0 /\ asked = 0 /\ unacked = 0
  /\ stream = <<>> /\ gone = FALSE
  /\ sess = NewSession
  /\ data = [s \in Numbers |-> None]
  /\ truth = [at |-> [t \in Tensors |-> None], val |-> [s \in Numbers |-> None],
              spoilt |-> [s \in Numbers |-> None], marred |-> {}, failed |-> {},
              lost |-> FALSE, old |-> {}, graph |-> None, leaked |-> {}]

(* A tensor of a lost session, or one that has the id of one: a new session *)
(* mints the same ids again, and what the client still holds, writes to or  *)
(* frees of the lost session reaches what has its id now.                   *)
Reborn == truth.old \cup {t \in 1 .. made : id[t] # None /\ \E u \in truth.old \ {t} : id[u] = id[t]}

-----------------------------------------------------------------------------
(* The program run without a server, where a lost session takes its tensors *)
(* and its graph along: the storage each tensor is in, the message that     *)
(* wrote a storage last, and the first that did not do its part, which      *)
(* spoilt it.  A tensor is marred if what spoilt it may have left it as it  *)
(* was: a write in place that did not happen, or was made of such a one, or *)
(* one of a lost session.                                                   *)
Clean(t)  == t = None \/ truth.spoilt[truth.at[t]] = None
Makes(op) == op \in {"make", "run", "view", "call", "size"}

Happens(m, use, write) ==
  LET stale == use \in Reborn \/ (m.op = "call" /\ shipped = truth.graph)
      runs  == /\ m.works /\ ~stale /\ write \notin Reborn /\ Clean(use) /\ Clean(write)
               /\ m.op = "call" => shipped \notin truth.failed
      at    == IF m.t = None THEN truth.at
               ELSE [truth.at EXCEPT ![m.t] = IF m.op = "view" /\ runs THEN truth.at[use] ELSE m.n]
      into  == IF write # None THEN at[write]
               ELSE IF m.t # None /\ at[m.t] = m.n THEN m.n ELSE None
      kept  == IF write = None \/ runs \/ ~Clean(write) THEN {}
               ELSE {t \in 1 .. made : at[t] = into} \ (IF m.op = "upload" THEN {write} ELSE {})
      doubt == IF stale \/ use \in truth.marred THEN {m.t} \ {None} ELSE {}
  IN  [truth EXCEPT
        !.at     = at,
        !.val    = IF into # None /\ runs THEN [@ EXCEPT ![into] = m.n] ELSE @,
        !.spoilt = IF into # None /\ ~runs /\ @[into] = None THEN [@ EXCEPT ![into] = m.n] ELSE @,
        !.marred = @ \cup kept \cup doubt,
        !.failed = IF m.works THEN @ ELSE @ \cup {m.n}]

-----------------------------------------------------------------------------
(* The client: a call, with the tensors it uses, writes and makes.         *)

(* register: the id of a new tensor; the server's, of an operation it runs *)
(* to know the size of what comes out.                                     *)
Begin(op, use, write, works) ==
  LET t     == IF Makes(op) THEN made + 1 ELSE None
      Id(u) == IF u = None THEN None ELSE id[u]
  IN  /\ call.pc = "idle" /\ asked < program.most /\ op \in program.ops /\ (works \/ program.fail)
      /\ op = "call" => shipped # None
      /\ op = "compile" => shipped = None
      /\ Makes(op) => made < program.tensors
      /\ {use, write} \ {None} \subseteq held
      /\ made' = IF Makes(op) THEN t ELSE made
      /\ id' = IF Makes(op) /\ op # "size" THEN [id EXCEPT ![t] = t] ELSE id
      /\ call' = [Idle EXCEPT !.pc = IF pending_frees = {} THEN "append" ELSE "queue", !.of = <<use, write>>,
                    !.m = [Message EXCEPT !.op = op, !.use = Id(use), !.write = Id(write), !.t = t,
                             !.out = IF Makes(op) /\ op # "size" THEN t ELSE None, !.works = works]]
      /\ UNCHANGED <<held, pending_frees, shipped, issued, asked, unacked, stream, sess, data, gone, truth>>

(* Which tensors each operation names.  An upload may fail on the server   *)
(* (nothing has checked its shape), as any operation may.                  *)
Handle ==
  \/ \E op \in {"make", "compile"}, works \in BOOLEAN : Begin(op, None, None, works)
  \/ \E op \in {"run", "view", "call", "size"}, use \in held, works \in BOOLEAN : Begin(op, use, None, works)
  \/ \E use, write \in held, works \in BOOLEAN : use # write /\ Begin("write", use, write, works)
  \/ \E write \in held, works \in BOOLEAN : Begin("upload", None, write, works)
  \/ \E use \in held : Begin("download", use, None, TRUE)
  \/ Begin("sync", None, None, TRUE)

(* _append: a message is queued.                                           *)
NeedsAck == unacked # 0 /\ unacked + 1 > AckAt
Append1(m) ==
  /\ issued' = issued + 1 /\ unacked' = unacked + 1
  /\ stream' = Append(stream, [m EXCEPT !.n = issued + 1])

(* _queue: ids to free go ahead of the message, in one of its own; ahead   *)
(* of that, an acknowledgement may be asked for.                           *)
TakeFrees ==
  /\ call.pc = "queue" /\ pending_frees' = {}
  /\ call' = [call EXCEPT !.frees = pending_frees, !.pc = IF NeedsAck THEN "ask" ELSE "free"]
  /\ UNCHANGED <<made, id, held, shipped, issued, asked, unacked, stream, sess, data, gone, truth>>
QueueFrees ==
  /\ call.pc = "free"
  /\ issued - asked < MaxFrees
  /\ Append1([Message EXCEPT !.op = "free", !.ids = call.frees])
  /\ call' = [call EXCEPT !.frees = {}, !.pc = "append"]
  /\ UNCHANGED <<made, id, held, pending_frees, shipped, asked, sess, data, gone, truth>>
(* request(ACK): queued and waited for.                                    *)
Ask ==
  /\ call.pc = "ask" \/ (call.pc = "append" /\ NeedsAck)
  /\ issued - asked < MaxFrees
  /\ Append1(Message)
  /\ call' = [call EXCEPT !.pc = "acked"]
  /\ UNCHANGED <<made, id, held, pending_frees, shipped, asked, sess, data, gone, truth>>

(* A finalizer only appends the id.                                        *)
LetGo(ts) == pending_frees' = pending_frees \cup ({id[t] : t \in ts} \ {None})

(* post returns what it made; request waits.                               *)
Returns == held' = IF call.m.t = None THEN held ELSE held \cup {call.m.t}
Queue ==
  /\ call.pc = "append" /\ ~NeedsAck
  /\ Append1(call.m) /\ asked' = asked + 1
  /\ LET m == [call.m EXCEPT !.n = issued + 1]
     IN  /\ shipped' = IF m.op = "compile" THEN m.n ELSE shipped
         /\ truth' = Happens(m, call.of[1], call.of[2])
         /\ IF Waited(m.op) THEN call' = [call EXCEPT !.pc = "wait", !.m = m] /\ UNCHANGED held
                            ELSE call' = Idle /\ Returns
  /\ UNCHANGED <<made, id, pending_frees, sess, data, gone>>

(* The flush of a post finds the session lost; its message stays queued.   *)
QueueNotices ==
  /\ gone /\ call.pc = "append" /\ ~NeedsAck /\ ~Waited(call.m.op)
  /\ Append1(call.m) /\ asked' = asked + 1
  /\ truth' = [Happens([call.m EXCEPT !.n = issued + 1], call.of[1], call.of[2])
                     EXCEPT !.old = 1 .. made, !.graph = shipped]
  /\ gone' = FALSE /\ call' = Idle /\ LetGo({call.m.t} \ {None})
  /\ UNCHANGED <<made, id, held, shipped, sess, data>>

(* A call that raises: what it made is let go, and what it had taken to    *)
(* free is forgotten.                                                      *)
Raises ==
  /\ call' = Idle
  /\ LetGo({call.m.t} \ {None})
  /\ truth' = [truth EXCEPT !.leaked = @ \cup call.frees]

(* The reply to an acknowledgement asked for, which may bring a failure.   *)
Acked ==
  /\ call.pc = "acked" /\ call.said # None
  /\ unacked' = 0
  /\ IF call.ok THEN /\ call' = [call EXCEPT !.pc = IF call.frees # {} THEN "free" ELSE "append", !.said = None]
                     /\ UNCHANGED <<pending_frees, truth>>
               ELSE Raises
  /\ UNCHANGED <<made, id, held, shipped, issued, asked, stream, sess, data, gone>>

(* The reply to what the application waits for.                            *)
Told ==
  /\ call.pc = "wait" /\ call.said # None
  /\ unacked' = 0
  /\ IF call.ok THEN /\ call' = Idle /\ Returns
                     /\ id' = IF call.m.op = "size" THEN [id EXCEPT ![call.m.t] = call.said] ELSE id
                     /\ UNCHANGED <<pending_frees, truth>>
               ELSE Raises /\ UNCHANGED <<held, id>>
  /\ UNCHANGED <<made, shipped, issued, asked, stream, sess, data, gone>>

(* The last reference to a tensor goes, and its finalizer runs; not one of *)
(* a call under way.                                                       *)
Drop(t) ==
  /\ t \in held /\ (call.pc # "idle" => t \notin {call.of[1], call.of[2]})
  /\ held' = held \ {t}
  /\ LetGo({t})
  /\ UNCHANGED <<made, id, shipped, call, issued, asked, unacked, stream, sess, data, gone, truth>>

-----------------------------------------------------------------------------
(* The server.                                                             *)

Entry(i) == sess.tensors[i]

(* Why a message does not do what it is to, if it does not: what the first *)
(* argument in the way is poisoned by, or its own failure.                 *)
Blames(arg, m, otherwise) ==
  IF arg.poison # None THEN arg.poison ELSE IF ~arg.there THEN m.n ELSE otherwise
Cause(m) ==
  LET itself == IF m.works THEN None ELSE m.n
      used   == IF m.use = None THEN itself ELSE Blames(Entry(m.use), m, itself)
      wrote  == IF m.write = None THEN used ELSE Blames(Entry(m.write), m, used)
  IN  IF m.op = "call" THEN Blames(sess.graph, m, wrote) ELSE wrote

\* Mutant of Poisoned: an upload that fails leaves the tensor as it was.
PoisonsOutputs(m) == {m.out} \ {None}

(* What a failure poisons: what would have been made, and what was to be   *)
(* uploaded to; not what an operation writes in place, which has no id in  *)
(* its out_ids.  An upload to what is poisoned does nothing.               *)
Poisoned(m) == ({m.out} \cup (IF m.op = "upload" THEN {m.write} ELSE {})) \ {None}

Store(m) == IF m.op = "view" THEN Entry(m.use).store ELSE m.n
Written(m, why) ==
  IF why # None THEN data
  ELSE IF m.op \in {"write", "upload"} THEN [data EXCEPT ![Entry(m.write).store] = m.n]
  ELSE IF m.op \in {"make", "run", "call", "size"} THEN [data EXCEPT ![m.n] = m.n] ELSE data

(* Nothing waits for it: the first failure is kept.                        *)
First(m, why) == IF why = m.n /\ sess.first_error = None THEN why ELSE sess.first_error
ApplyAsync(m) ==
  LET why == Cause(m)
      now == IF why = None THEN TensorIn(Store(m)) ELSE Poison(why)
  IN  /\ sess' = [sess EXCEPT
            !.tensors = [i \in Ids |->
               IF m.op = "free" THEN (IF i \in m.ids THEN Absent ELSE @[i])
               ELSE IF i = m.out \/ (why # None /\ i \in Poisoned(m)) THEN now ELSE @[i]],
            !.graph = IF m.op = "compile" THEN now ELSE @,
            !.first_error = First(m, why)]
      /\ data' = Written(m, why)
      /\ UNCHANGED call

\* Mutant of NextServerId: the counter stays.
SameServerId(i) == i
NextServerId(i) == i + 1

(* It is waited for: the failure that is kept is the answer, or it runs,   *)
(* and what comes out has an id of the server's.                           *)
ApplyWaited(m) ==
  LET why  == IF sess.first_error # None THEN sess.first_error ELSE Cause(m)
      mint == m.op = "size" /\ why = None
      said == IF why # None THEN why
              ELSE CASE m.op = "download" -> data[Entry(m.use).store]
                     [] m.op = "size"     -> sess.next_server_id
                     [] OTHER             -> m.n
      waits == call.pc \in {"wait", "acked"} /\ m.n = issued
  IN  /\ sess' = [sess EXCEPT
            !.first_error = None,
            !.next_server_id = IF mint THEN NextServerId(@) ELSE @,
            !.tensors = IF mint THEN [@ EXCEPT ![sess.next_server_id] = TensorIn(m.n)] ELSE @]
      /\ data' = Written(m, why)
      /\ call' = IF waits THEN [call EXCEPT !.ok = (why = None), !.said = said] ELSE call

Execute ==
  /\ stream # <<>> /\ ~gone
  /\ LET m == Head(stream) IN IF Waited(m.op) THEN ApplyWaited(m) ELSE ApplyAsync(m)
  /\ stream' = Tail(stream)
  /\ UNCHANGED <<made, id, held, pending_frees, shipped, issued, asked, unacked, gone, truth>>

-----------------------------------------------------------------------------
(* The session is lost: what the server has not applied is, too, but for   *)
(* what is yet to be flushed.                                              *)
Lose ==
  /\ program.lost /\ ~truth.lost
  /\ gone' = TRUE
  /\ sess' = NewSession
  /\ \E i \in 1 .. Len(stream) + 1 : stream' = SubSeq(stream, i, Len(stream))
  /\ truth' = [truth EXCEPT !.lost = TRUE, !.old = 1 .. made, !.graph = shipped]
  /\ UNCHANGED <<clientVars, data>>

(* SessionLost: raised by the call that next reaches the server.  The next *)
(* connection is to a new session under the same id, and is taken for a    *)
(* resumption; what was queued and not flushed goes to it.                 *)
Notice ==
  /\ gone /\ gone' = FALSE
  /\ call.pc \in {"wait", "acked"} /\ call.said = None
  /\ call' = Idle
  /\ LetGo({call.m.t} \ {None})
  /\ truth' = [truth EXCEPT !.leaked = @ \cup call.frees, !.old = 1 .. made, !.graph = shipped]
  /\ UNCHANGED <<made, id, held, shipped, issued, asked, unacked, stream, sess, data>>

Client == Handle \/ TakeFrees \/ QueueFrees \/ Ask \/ Queue \/ QueueNotices \/ Acked \/ Told \/ \E t \in held : Drop(t)
Next == (Client \/ Execute \/ Lose \/ Notice) /\ UNCHANGED program

Spec == Init /\ [][Next]_vars

-----------------------------------------------------------------------------
Answered == call.pc = "wait" /\ call.said # None

(* What a wait returns is what the operations before it make of the tensor *)
(* when they are run in order with nothing remote, every one of which it   *)
(* depends on worked.  Unless one of them wrote in place, which leaves the *)
(* tensor as it was and unpoisoned: a later read returns it.               *)
ReadsAreTrue ==
  LET t == IF call.m.op = "download" THEN call.of[1] ELSE call.m.t
  IN  Answered /\ call.ok /\ t # None /\ {t, call.of[1]} \cap (Reborn \cup truth.marred) = {}
        => Clean(t) /\ (call.m.op = "download" => call.said = truth.val[truth.at[t]])

(* What it raises is "one exception, naming the op that actually failed,   *)
(* rather than a cascade about missing tensors" (server/session.py 13-14), *)
(* as long as the session is not lost.                                     *)
RaisesTheCause ==
  (call.pc \in {"wait", "acked"} /\ call.said # None /\ ~call.ok /\ ~truth.lost)
    => call.said \in truth.failed

(* A wait is answered with the truth, whichever answer it gets.            *)
AnswersAreTrue == ReadsAreTrue /\ RaisesTheCause

There     == {i \in Ids : Entry(i).there}
IdsOf(ts) == {id[t] : t \in ts}
Quiet     == call.pc = "idle" /\ stream = <<>> /\ pending_frees = {} /\ ~gone

(* With nothing under way the server holds the tensors the application     *)
(* holds, and no others: none was freed early, none is left.  Unless their *)
(* ids were taken off pending_frees by a call whose request for an         *)
(* acknowledgement raised.  After a loss, what was made since is there.    *)
HoldsWhatIsHeld ==
  Quiet => /\ IdsOf(held \ Reborn) \subseteq There
           /\ ~truth.lost => There \ truth.leaked = IdsOf(held)
=============================================================================
