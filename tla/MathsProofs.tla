---------------------------- MODULE MathsProofs -----------------------------
(***************************************************************************)
(* What the client remembers of the maths libraries, for every value of    *)
(* the constants: the stream work is marked on, how alpha and beta are     *)
(* sent, and that a descriptor finalized is the one that was meant.        *)
(*                                                                         *)
(* An object the client knows is in one of two tables.  A handle is one    *)
(* the application holds: HandlesInv says, value by value, that the record *)
(* is the object's, or is about to be made so by the one call under way on *)
(* it, and that the record of a value nobody holds is about to be erased;  *)
(* so a value given out again begins without one, or is excused.  A minted *)
(* descriptor is never minted again: MintsInv says it resolves to an       *)
(* object of its own, WidthsInv that the width on record is that object's, *)
(* BuiltInv that it has the part it was given, or somebody is held a       *)
(* failure for it.  The three are of different programs, and the record of *)
(* one is not disturbed by the calls of another.                           *)
(***************************************************************************)
EXTENDS ClientRuntimeProofs

-----------------------------------------------------------------------------
(* The maths libraries: what a thread's call is about, and which program   *)
(* makes it.                                                               *)

Users     == {"note", "alpha", "beta", "computes", "multiply", "set stream", "execute", "set", "matmul"}
Holders   == Users \union {"created", "destroy"}
DescUsers == {"remember", "normalize", "finalized"}
OnHandle(c, v) == c.stage \in Holders /\ c.x = v
OnDesc(c, m)   == c.stage \in DescUsers /\ c.m = m
Bit  == {0, 1}
MathsRec == [stage : Holders \union DescUsers \union {"erase", "erase desc", "forget", None},
             x : Values \union {None}, m : Minted \union {0}, a : Attrs \union {None}, to : Bit,
             r : Results, got : [Attrs -> Bit]]
MathsTyped ==
  /\ lib \in [Values -> [Attrs -> Bit] \union {Nothing}]
  /\ noted \in [Attrs -> [Values -> Bit]]
  /\ maths \in [Threads -> MathsRec]
  /\ mine \in SUBSET Values /\ descs \in SUBSET Minted
  /\ next_handle \in Nat \ {0} /\ next_handle <= MaxMint + 1
  /\ t_handles \in [Minted -> Values \union {None}] /\ types \in [Minted -> Bit]

(* A call is of the library the program uses.                              *)
StageFits(c) ==
  /\ c.stage \in {"note", "erase", "alpha", "beta", "computes", "multiply"} => Makes("blas")
  /\ c.stage \in {"set stream", "destroy", "execute"} => Makes("dnn")
  /\ c.stage \in {"created", "set", "erase desc", "matmul"} => Makes("lt")
  /\ c.stage \in {"remember", "forget", "normalize"} => Makes("tensor")
  /\ c.stage = "finalized" => Makes("backend")
  /\ c.stage \in Holders \union {"erase", "erase desc"} => c.x \in Values
  /\ c.stage \in DescUsers \union {"forget"} => c.m \in Minted
  /\ c.stage = "set stream" => c.a = "stream"
  /\ c.stage = "set" => c.a \in {"mode", "scale"}
  /\ c.stage \in {"note", "erase"} => c.a \in {"stream", "mode"}
  /\ c.stage \notin Holders \union {"erase", "erase desc"} => c.x = None
  /\ c.stage \notin DescUsers \union {"forget"} => c.m = 0
UsesHandles == Makes("blas") \/ Makes("dnn") \/ Makes("lt")

NotedIn(n, v) == [a \in Attrs |-> n[a][v]]

(* A handle, with its attributes, its record, whether the application      *)
(* holds it, and whether it is excused: one call is under way on it at     *)
(* most; what a call has in its hands comes true with it.                  *)
Settles(c, v, a) ==
  /\ c.x = v /\ c.a = a
  /\ (c.stage = "note" /\ c.r = "ok") \/ c.stage \in {"set stream", "set"}
ToErase(c, v, a) == c.stage = "erase" /\ c.x = v /\ (c.a = "stream" \/ a = "mode")
HandleFits(v, L, N, in, un, M) ==
  /\ in => L # Nothing
  /\ in /\ ~un => \A a \in Attrs : N[a] = L[a] \/ \E t \in Threads : Settles(M[t], v, a)
  /\ ~in /\ ~Makes("lt") => \A a \in Attrs : N[a] # 0 => \E t \in Threads : ToErase(M[t], v, a)
  /\ \A t, u \in Threads : OnHandle(M[t], v) /\ OnHandle(M[u], v) => t = u
  /\ N["stream"] # 0 => Makes("blas") \/ Makes("dnn")
  /\ N["mode"] # 0 => Makes("blas") \/ Makes("lt")
  /\ N["scale"] # 0 => Makes("lt")
FrameSettles(c, L, N, in, un) ==
  /\ c.stage \in Users => in
  /\ c.stage \in {"created", "destroy"} => ~in /\ L # Nothing
  /\ c.stage = "created" => L = [Default EXCEPT !["scale"] = c.to]
  /\ c.stage = "note" /\ c.r = "ok" => L[c.a] = c.to
  /\ c.stage \in {"set stream", "set"} /\ ~un => N[c.a] = c.to
  /\ c.stage \in {"beta", "computes", "multiply"} /\ ~un => c.got["mode"] = L["mode"]
  /\ c.stage \in {"computes", "multiply"} /\ ~un => c.to = L["mode"]
  /\ c.stage \in {"multiply", "execute"} /\ ~un => c.got["stream"] = L["stream"]
  /\ c.stage = "matmul" /\ ~un => c.got["mode"] = L["mode"] /\ c.got["scale"] = L["scale"]
HandlesInv ==
  /\ \A v \in Values : HandleFits(v, lib[v], NotedIn(noted, v), v \in mine, v \in unsure, maths)
  /\ \A t \in Threads : maths[t].stage \in Holders =>
       FrameSettles(maths[t], lib[maths[t].x], NotedIn(noted, maths[t].x), maths[t].x \in mine, maths[t].x \in unsure)
  /\ mine # {} => UsesHandles

(* The descriptors under minted handles: each resolves to an object of its *)
(* own, made before; the width on record is the object's, or is about to   *)
(* be.                                                                     *)
MintsInv ==
  /\ \A m \in Minted : Resolves(m) => lib[t_handles[m]] # Nothing
  /\ \A m, n \in Minted : Resolves(m) /\ t_handles[m] = t_handles[n] => m = n
  /\ \A m \in Minted : m >= next_handle => ~Resolves(m) /\ m \notin descs /\ types[m] = 0
  /\ \A t \in Threads : maths[t].stage \in DescUsers => maths[t].m \in descs
  /\ \A t, u \in Threads : maths[t].stage \in DescUsers /\ maths[u].stage \in DescUsers /\ maths[t].m = maths[u].m => t = u
  /\ \A t \in Threads : maths[t].stage = "forget" => maths[t].m < next_handle /\ maths[t].m \notin descs
  /\ descs # {} => Makes("tensor") \/ Makes("backend")
  /\ \A m \in Minted : Resolves(m) => Makes("tensor") \/ Makes("backend")
ScaleOf(m) == lib[t_handles[m]]["scale"]
WidthsInv == Makes("tensor") =>
  /\ \A m \in descs \ unsure : Resolves(m) =>
       types[m] = ScaleOf(m) \/ \E t \in Threads : maths[t].stage = "remember" /\ maths[t].m = m /\ maths[t].r = "ok"
  /\ \A t \in Threads :
       LET c == maths[t]
       IN  c.m \in Minted \ unsure /\ Resolves(c.m) =>
             /\ c.stage = "remember" /\ c.r = "ok" => c.to = ScaleOf(c.m)
             /\ c.stage = "normalize" => c.got["scale"] = ScaleOf(c.m)

(* The backend's descriptors: who failed to build one is held a failure    *)
(* for; one nobody failed to build has the part it was meant to have.      *)
BackendTyped ==
  /\ parts \in [Values -> Values \union {None, "plain"}] /\ meant \in [Minted -> 0 .. Plain]
  /\ held \in SUBSET Threads /\ unsaid \in [Minted -> Threads \union {None}]
BuiltInv == Makes("backend") =>
  /\ \A m \in Minted \ unsure : unsaid[m] # None => unsaid[m] \in held
  /\ \A m \in descs \ unsure : unsaid[m] = None /\ Resolves(m) /\ meant[m] \in descs \union {Plain}
       => parts[t_handles[m]] = PartOf(meant[m])
  /\ \A t \in Threads : maths[t].stage = "finalized" /\ maths[t].r = "ok" /\ maths[t].m \notin unsure
       => Resolves(maths[t].m) /\ unsaid[maths[t].m] # t
  /\ \A m \in Minted : m >= next_handle => meant[m] = NotSet
  /\ \A m \in Minted : meant[m] \in Minted => meant[m] < next_handle
MathsInv ==
  /\ MathsTyped /\ BackendTyped
  /\ \A t \in Threads : StageFits(maths[t])
  /\ HandlesInv /\ MintsInv /\ WidthsInv /\ BuiltInv

(* The answers of a call that is not waited for.                           *)
LEMMA AsyncOutcomesAre ==
  ASSUME NEW o \in AsyncOutcomes PROVE o.ran \in BOOLEAN /\ o.r \in {"ok", "error"}
<1>1. CASE o \in Outcomes
  BY <1>1, OutcomesAre
<1>2. CASE o \in [ran : {FALSE}, r : {"ok"}]
  BY <1>2
<1>3. QED
  BY <1>1, <1>2 DEF AsyncOutcomes

(* A program uses one library.                                             *)
LEMMA OneLibrary ==
  ASSUME program \in Programs, NEW b \in OneOf, NEW c \in OneOf, Makes(b), Makes(c)
  PROVE  b = c
<1>1. b \in program.calls \cap OneOf /\ c \in program.calls \cap OneOf
  BY DEF Makes
<1>2. QED
  BY <1>1, MathsAssumption

(* A program makes the calls of one of the libraries.  (MathsAssumption.)  *)
LEMMA Exclusive ==
  ASSUME program \in Programs
  PROVE  /\ UsesHandles => ~Makes("tensor") /\ ~Makes("backend")
         /\ Makes("tensor") => ~Makes("backend")
         /\ Makes("blas") => ~Makes("dnn") /\ ~Makes("lt")
         /\ Makes("dnn") => ~Makes("lt")
<1>1. {"blas", "dnn", "lt", "tensor", "backend"} = OneOf
  BY DEF OneOf
<1>2. QED
  BY <1>1, OneLibrary DEF UsesHandles

(* One thread's call moves, to one with these parts.                       *)
Moves(t, c) == maths' = [maths EXCEPT ![t] = c]
Reads(c, s, x, m, a, to, r, g) ==
  c.stage = s /\ c.x = x /\ c.m = m /\ c.a = a /\ c.to = to /\ c.r = r /\ c.got = g

(* A call that enters a stage leaves a frame of that stage.  (Enters.)     *)
LEMMA Entered ==
  ASSUME NEW t \in Threads, NEW s \in Holders \union {"erase", "erase desc"}, NEW v \in Values, NEW a \in Attrs,
         NEW to \in Bit, NEW r \in Results, Enters(t, s, v, a, to, r)
  PROVE  \E c \in MathsRec : Moves(t, c) /\ Reads(c, s, v, 0, a, to, r, Default)
<1> DEFINE c == [NoMaths EXCEPT !.stage = s, !.x = v, !.a = a, !.to = to, !.r = r]
<1>1. Default \in [Attrs -> Bit]
  BY DEF Default, Bit
<1>2. c \in MathsRec
  BY <1>1 DEF NoMaths, MathsRec, Minted
<1>3. Reads(c, s, v, 0, a, to, r, Default)
  BY DEF NoMaths, Reads
<1>4. Moves(t, c)
  BY DEF Enters, Moves
<1> HIDE DEF c
<1>5. QED
  BY <1>2, <1>3, <1>4

(* A thread in no call is about nothing.                                   *)
LEMMA NoMathsIs ==
  /\ NoMaths \in MathsRec /\ NoMaths.stage = None /\ NoMaths.x = None /\ NoMaths.m = 0
  /\ StageFits(NoMaths)
<1>1. Default \in [Attrs -> Bit]
  BY DEF Default, Bit
<1>2. NoMaths.stage = None /\ NoMaths.x = None /\ NoMaths.m = 0
  BY DEF NoMaths
<1>3. NoMaths \in MathsRec
  BY <1>1 DEF NoMaths, MathsRec, Results, Bit, Minted
<1>4. StageFits(NoMaths)
  BY <1>2 DEF StageFits, None, Holders, Users, DescUsers
<1>5. QED
  BY <1>2, <1>3, <1>4

(* A call that is done leaves the thread in none.                          *)
LEMMA Stopped == ASSUME NEW t \in Threads, Done(t) PROVE Moves(t, NoMaths)
  BY DEF Done, Moves

(* A step of one thread leaves the others where they are.                  *)
LEMMA MovesTo ==
  ASSUME MathsTyped, NEW t \in Threads, NEW c, Moves(t, c)
  PROVE  maths'[t] = c /\ \A u \in Threads \ {t} : maths'[u] = maths[u]
  BY DEF MathsTyped, Moves
(* A step into a well-formed frame leaves all of them so.                  *)
LEMMA MovesTyped ==
  ASSUME MathsTyped, \A u \in Threads : StageFits(maths[u]), NEW t \in Threads, NEW c \in MathsRec,
         StageFits(c), Moves(t, c), UNCHANGED program
  PROVE  maths' \in [Threads -> MathsRec] /\ (\A u \in Threads : StageFits(maths[u]))'
<1>1. maths' \in [Threads -> MathsRec]
  BY DEF MathsTyped, Moves
<1>2. \A u \in Threads : StageFits(maths'[u])
  BY MovesTo
<1>3. \A b : Makes(b)' <=> Makes(b)
  BY DEF Makes
<1>4. (\A u \in Threads : StageFits(maths[u]))'
  BY <1>2, <1>3 DEF StageFits
<1>5. QED
  BY <1>1, <1>4

-----------------------------------------------------------------------------
(* Handles.                                                                *)

FrameSays(t, M, B, n, I, U) ==
  M[t].stage \in Holders =>
    FrameSettles(M[t], B[M[t].x], NotedIn(n, M[t].x), M[t].x \in I, M[t].x \in U)
ValueSays(v, M, B, n, I, U) == HandleFits(v, B[v], NotedIn(n, v), v \in I, v \in U, M)

(* What is remembered of handles, in a state and in the next.              *)
LEMMA HandleParts ==
  /\ HandlesInv <=> /\ \A v \in Values : ValueSays(v, maths, lib, noted, mine, unsure)
                    /\ \A t \in Threads : FrameSays(t, maths, lib, noted, mine, unsure)
                    /\ mine # {} => UsesHandles
  /\ UNCHANGED program =>
       (HandlesInv' <=> /\ \A v \in Values : ValueSays(v, maths', lib', noted', mine', unsure')
                        /\ \A t \in Threads : FrameSays(t, maths', lib', noted', mine', unsure')
                        /\ mine' # {} => UsesHandles)
<1>1. HandlesInv <=> /\ \A v \in Values : ValueSays(v, maths, lib, noted, mine, unsure)
                     /\ \A t \in Threads : FrameSays(t, maths, lib, noted, mine, unsure)
                     /\ mine # {} => UsesHandles
  BY DEF HandlesInv, ValueSays, FrameSays
<1>2. ASSUME UNCHANGED program
      PROVE  HandlesInv' <=> /\ \A v \in Values : ValueSays(v, maths', lib', noted', mine', unsure')
                             /\ \A t \in Threads : FrameSays(t, maths', lib', noted', mine', unsure')
                             /\ mine' # {} => UsesHandles
  <2>1. \A b : Makes(b)' <=> Makes(b)
    BY <1>2 DEF Makes
  <2>2. UsesHandles' <=> UsesHandles
    BY <2>1 DEF UsesHandles
  <2>3. (\A v \in Values : HandleFits(v, lib[v], NotedIn(noted, v), v \in mine, v \in unsure, maths))'
         <=> \A v \in Values : ValueSays(v, maths', lib', noted', mine', unsure')
    BY <2>1 DEF ValueSays, HandleFits, NotedIn
  <2>4. (\A t \in Threads : maths[t].stage \in Holders =>
          FrameSettles(maths[t], lib[maths[t].x], NotedIn(noted, maths[t].x), maths[t].x \in mine, maths[t].x \in unsure))'
         <=> \A t \in Threads : FrameSays(t, maths', lib', noted', mine', unsure')
    BY DEF FrameSays, FrameSettles, NotedIn
  <2>5. QED
    BY <2>2, <2>3, <2>4 DEF HandlesInv
<1>3. QED
  BY <1>1, <1>2

(* A call in one thread's hands about a handle.                            *)
LEMMA OneCallToAHandle ==
  ASSUME HandlesInv, NEW v \in Values, NEW t \in Threads, NEW u \in Threads,
         OnHandle(maths[t], v), OnHandle(maths[u], v)
  PROVE  t = u
  BY HandleParts DEF ValueSays, HandleFits

(* The record of a handle that a step leaves alone.                        *)
LEMMA NotedSame ==
  ASSUME NEW v, NEW n, NEW p, \A a \in Attrs : p[a][v] = n[a][v]
  PROVE  NotedIn(p, v) = NotedIn(n, v)
  BY DEF NotedIn

(* A step of one thread, about one handle.                                 *)
Elsewhere(t, x) ==
  /\ \A u \in Threads \ {t} : maths'[u] = maths[u]
  /\ \A v \in Values \ {x} : /\ lib'[v] = lib[v] /\ \A a \in Attrs : noted'[a][v] = noted[a][v]
                             /\ v \in mine' <=> v \in mine
                             /\ v \in unsure' <=> v \in unsure
  /\ maths[t].stage \in Holders \union {"erase", "erase desc"} => maths[t].x = x
  /\ maths'[t].stage \in Holders \union {"erase", "erase desc"} => maths'[t].x = x
Spared(u, x) ==
  OnHandle(maths[u], x) =>
    FrameSettles(maths[u], lib'[x], NotedIn(noted', x), x \in mine', x \in unsure')
(* A step about one value: what is said of the others, and of the threads  *)
(* elsewhere, holds on; it is enough to show it of this value and of this  *)
(* thread.                                                                 *)
LEMMA HandleStep ==
  ASSUME MathsTyped, HandlesInv, UNCHANGED program, \A u \in Threads : StageFits(maths[u]),
         NEW t \in Threads, NEW x \in Values, Elsewhere(t, x),
         \A u \in Threads \ {t} : Spared(u, x),
         ValueSays(x, maths', lib', noted', mine', unsure'),
         FrameSays(t, maths', lib', noted', mine', unsure'),
         x \in mine' => UsesHandles, mine' \in SUBSET Values
  PROVE  HandlesInv'
<1>1. ASSUME NEW v \in Values \ {x} PROVE ValueSays(v, maths', lib', noted', mine', unsure')
  <2>1. lib'[v] = lib[v] /\ NotedIn(noted', v) = NotedIn(noted, v) /\ (v \in mine' <=> v \in mine)
        /\ (v \in unsure' <=> v \in unsure)
    BY NotedSame DEF Elsewhere
  <2>2. HandleFits(v, lib[v], NotedIn(noted, v), v \in mine, v \in unsure, maths)
    BY HandleParts DEF ValueSays
  <2>3. \A u \in Threads : /\ OnHandle(maths'[u], v) <=> OnHandle(maths[u], v)
                           /\ \A a : Settles(maths'[u], v, a) <=> Settles(maths[u], v, a)
                           /\ \A a : ToErase(maths'[u], v, a) <=> ToErase(maths[u], v, a)
    <3>1. maths[t].stage \in Holders \union {"erase"} => maths[t].x # v
      BY DEF Elsewhere
    <3>2. maths'[t].stage \in Holders \union {"erase"} => maths'[t].x # v
      BY DEF Elsewhere
    <3>3. \A u \in Threads \ {t} : maths'[u] = maths[u]
      BY DEF Elsewhere
    <3>4. QED
      BY <3>1, <3>2, <3>3 DEF OnHandle, Settles, ToErase, Holders, Users
  <2>4. HandleFits(v, lib[v], NotedIn(noted, v), v \in mine, v \in unsure, maths')
    BY <2>2, <2>3 DEF HandleFits
  <2>5. (v \in mine') = (v \in mine) /\ (v \in unsure') = (v \in unsure)
    BY <2>1
  <2>6. QED
    BY <2>1, <2>4, <2>5 DEF ValueSays
<1>2. ASSUME NEW u \in Threads \ {t} PROVE FrameSays(u, maths', lib', noted', mine', unsure')
  <2> SUFFICES ASSUME maths'[u].stage \in Holders
               PROVE  FrameSettles(maths'[u], lib'[maths'[u].x], NotedIn(noted', maths'[u].x),
                                   maths'[u].x \in mine', maths'[u].x \in unsure')
    BY DEF FrameSays
  <2>1. maths'[u] = maths[u]
    BY DEF Elsewhere
  <2>2. maths[u].x \in Values
    BY <2>1 DEF StageFits
  <2> DEFINE v == maths[u].x
  <2>3. CASE v = x
    BY <2>1, <2>3 DEF Spared, OnHandle
  <2>4. CASE v # x
    <3>1. lib'[v] = lib[v] /\ NotedIn(noted', v) = NotedIn(noted, v) /\ (v \in mine' <=> v \in mine)
          /\ (v \in unsure' <=> v \in unsure)
      BY <2>2, <2>4, NotedSame DEF Elsewhere
    <3>2. (v \in mine') = (v \in mine) /\ (v \in unsure') = (v \in unsure)
      BY <3>1
    <3>3. FrameSettles(maths[u], lib[v], NotedIn(noted, v), v \in mine, v \in unsure)
      BY <2>1, HandleParts DEF FrameSays
    <3>4. QED
      BY <2>1, <3>1, <3>2, <3>3
  <2>5. QED
    BY <2>3, <2>4
<1>3. mine' # {} => UsesHandles
  <2>1. ASSUME NEW v \in mine' PROVE UsesHandles
    <3>1. CASE v = x
      BY <2>1, <3>1
    <3>2. CASE v # x /\ v \in Values
      BY <2>1, <3>2, HandleParts DEF Elsewhere
    <3>3. QED
      BY <2>1, <3>1, <3>2
  <2>2. QED
    BY <2>1
<1>4. QED
  BY <1>1, <1>2, <1>3, HandleParts

HandleSide == MathsTyped /\ (\A t \in Threads : StageFits(maths[t])) /\ HandlesInv

(* What nobody is about: a value not given out, or one a thread may use.   *)
LEMMA NotGivenOut ==
  ASSUME HandleSide, NEW v \in Values, lib[v] = Nothing
  PROVE  v \notin mine /\ \A u \in Threads : ~OnHandle(maths[u], v)
<1>1. v \notin mine
  BY HandleParts DEF HandleSide, ValueSays, HandleFits
<1>2. ASSUME NEW u \in Threads, OnHandle(maths[u], v) PROVE FALSE
  <2>1. FrameSettles(maths[u], lib[v], NotedIn(noted, v), v \in mine, v \in unsure)
    BY <1>2, HandleParts DEF HandleSide, FrameSays, OnHandle
  <2>2. QED
    BY <1>1, <1>2, <2>1 DEF FrameSettles, OnHandle, Holders
<1>3. QED
  BY <1>1, <1>2

(* A call begins on a handle the application holds, nobody else being in   *)
(* one on it.                                                              *)
LEMMA UsedAlone ==
  ASSUME HandleSide, NEW t \in Threads, NEW v \in Values, Uses(t, v)
  PROVE  /\ maths[t] = NoMaths /\ v \in mine /\ \A u \in Threads : ~OnHandle(maths[u], v)
         /\ lib[v] # Nothing /\ lib[v] \in [Attrs -> Bit]
<1>1. maths[t] = NoMaths /\ v \in mine /\ \A u \in Threads : ~OnHandle(maths[u], v)
  BY DEF Uses, Quiet, Erasing, OnHandle, Holders, Users
<1>2. lib[v] # Nothing
  BY <1>1, HandleParts DEF HandleSide, ValueSays, HandleFits
<1>3. QED
  BY <1>1, <1>2 DEF HandleSide, MathsTyped

(* A call under way on a handle is the only one.                           *)
LEMMA HeldAlone ==
  ASSUME HandleSide, NEW t \in Threads, maths[t].stage \in Users
  PROVE  LET v == maths[t].x
         IN  /\ v \in Values /\ v \in mine /\ \A u \in Threads \ {t} : ~OnHandle(maths[u], v)
             /\ lib[v] # Nothing /\ lib[v] \in [Attrs -> Bit]
             /\ FrameSettles(maths[t], lib[v], NotedIn(noted, v), TRUE, v \in unsure)
<1> DEFINE v == maths[t].x
<1>1. v \in Values /\ OnHandle(maths[t], v)
  BY DEF HandleSide, StageFits, OnHandle, Holders
<1>2. \A u \in Threads \ {t} : ~OnHandle(maths[u], v)
  BY <1>1, OneCallToAHandle DEF HandleSide
<1>3. FrameSettles(maths[t], lib[v], NotedIn(noted, v), v \in mine, v \in unsure)
  BY <1>1, HandleParts DEF HandleSide, FrameSays, OnHandle
<1>4. v \in mine
  BY <1>3 DEF FrameSettles
<1>5. (v \in mine) = TRUE
  BY <1>4
<1>6. lib[v] # Nothing
  BY <1>1, <1>4, HandleParts DEF HandleSide, ValueSays, HandleFits
<1>7. lib[v] \in [Attrs -> Bit]
  BY <1>1, <1>6 DEF HandleSide, MathsTyped
<1>8. QED
  BY <1>1, <1>2, <1>3, <1>4, <1>5, <1>6, <1>7

(* A record is true when no call about the handle is to settle it.         *)
LEMMA RecordIsTrue ==
  ASSUME HandleSide, NEW v \in Values, v \in mine, v \notin unsure,
         \A u \in Threads : OnHandle(maths[u], v) => maths[u].stage \notin {"note", "set stream", "set"}
  PROVE  \A a \in Attrs : noted[a][v] = lib[v][a]
<1>1. HandleFits(v, lib[v], NotedIn(noted, v), v \in mine, v \in unsure, maths)
  BY HandleParts DEF HandleSide, ValueSays
<1>2. \A a \in Attrs, u \in Threads : ~Settles(maths[u], v, a)
  BY DEF Settles, OnHandle, Holders, Users
<1>3. QED
  BY <1>1, <1>2 DEF HandleFits, NotedIn

(* A step of a thread alone with its handle.                               *)
LEMMA AloneStep ==
  ASSUME HandleSide, UNCHANGED program, NEW t \in Threads, NEW x \in Values, Elsewhere(t, x),
         \A u \in Threads \ {t} : ~OnHandle(maths[u], x),
         ValueSays(x, maths', lib', noted', mine', unsure'),
         FrameSays(t, maths', lib', noted', mine', unsure'),
         x \in mine' => UsesHandles, mine' \in SUBSET Values
  PROVE  HandlesInv'
<1>1. \A u \in Threads \ {t} : Spared(u, x)
  BY DEF Spared
<1>2. QED
  BY <1>1, HandleStep DEF HandleSide

(* A call that only reads what is on record.                               *)
Reading == {None, "alpha", "beta", "computes", "multiply", "execute", "matmul"}
(* A step that reads and writes no record: it is enough that what the call *)
(* has in its hands is true.                                               *)
LEMMA ReadStep ==
  ASSUME HandleSide, UNCHANGED <<program, lib, noted, mine, tensorVars, unsure>>, NEW t \in Threads, NEW x \in Values,
         NEW c \in MathsRec, Moves(t, c), StageFits(c),
         \A u \in Threads \ {t} : ~OnHandle(maths[u], x),
         x \in mine, maths[t].stage \in Reading, c.stage \in Reading,
         maths[t].stage # None => maths[t].x = x,
         c.stage # None => c.x = x /\ FrameSettles(c, lib[x], NotedIn(noted, x), TRUE, x \in unsure)
  PROVE  HandleSide'
<1>1. maths'[t] = c /\ \A u \in Threads \ {t} : maths'[u] = maths[u]
  BY MovesTo DEF HandleSide
<1>2. maths' \in [Threads -> MathsRec] /\ (\A u \in Threads : StageFits(maths[u]))'
  BY MovesTyped DEF HandleSide
<1>3. MathsTyped'
  BY <1>2 DEF HandleSide, MathsTyped, tensorVars
<1>4. Elsewhere(t, x)
  BY <1>1 DEF Elsewhere, Reading, Holders, Users, None
<1>5. FrameSays(t, maths', lib', noted', mine', unsure')
  <2>1. (x \in mine') = TRUE
    OBVIOUS
  <2>2. c.stage \in Holders => c.stage # None
    BY DEF Holders, Users, None
  <2>3. QED
    BY <1>1, <2>1, <2>2 DEF FrameSays
<1>6. ValueSays(x, maths', lib', noted', mine', unsure')
  <2>1. HandleFits(x, lib[x], NotedIn(noted, x), x \in mine, x \in unsure, maths)
    BY HandleParts DEF HandleSide, ValueSays
  <2>2. \A u \in Threads : \A a : (Settles(maths'[u], x, a) <=> Settles(maths[u], x, a))
                                 /\ (ToErase(maths'[u], x, a) <=> ToErase(maths[u], x, a))
    BY <1>1 DEF Settles, ToErase, Reading, None
  <2>3. \A u, w \in Threads : OnHandle(maths'[u], x) /\ OnHandle(maths'[w], x) => u = w
    BY <1>1
  <2>4. HandleFits(x, lib[x], NotedIn(noted, x), x \in mine, x \in unsure, maths')
    BY <2>1, <2>2, <2>3 DEF HandleFits
  <2>5. lib' = lib /\ noted' = noted /\ mine' = mine /\ unsure' = unsure
    OBVIOUS
  <2>6. QED
    BY <2>4, <2>5 DEF ValueSays
<1>7. x \in mine' => UsesHandles
  BY HandleParts DEF HandleSide
<1>8. mine' \in SUBSET Values
  BY <1>3 DEF MathsTyped
<1>9. HandlesInv'
  BY <1>4, <1>5, <1>6, <1>7, <1>8, AloneStep
<1>10. QED
  BY <1>2, <1>3, <1>9 DEF HandleSide

(* The calls that read the record.                                         *)
LEMMA GemmReads ==
  ASSUME HandleSide, UNCHANGED program, NEW t \in Threads, NEW v \in Values, Gemm(t, v)
  PROVE  HandleSide'
<1>1. PICK c \in MathsRec : Moves(t, c) /\ Reads(c, "alpha", v, 0, "mode", 0, "ok", Default)
  BY Entered DEF Gemm, Holders, Users, Attrs, Bit, Results
<1>2. StageFits(c)
  BY <1>1 DEF Gemm, Reads, StageFits, Holders, Users, DescUsers
<1>3. FrameSettles(c, lib[v], NotedIn(noted, v), TRUE, v \in unsure)
  BY <1>1 DEF Reads, FrameSettles, Users
<1>4. Uses(t, v) /\ UNCHANGED <<lib, noted, mine, tensorVars, unsure>>
  BY DEF Gemm
<1>5. QED
  BY <1>1, <1>2, <1>3, <1>4, NoMathsIs, UsedAlone, ReadStep DEF Reads, Reading

(* cublasSgemm_v2 reads how beta is passed.                                *)
LEMMA GemmScalarReads ==
  ASSUME HandleSide, UNCHANGED program, NEW t \in Threads, GemmScalar(t)
  PROVE  HandleSide'
<1> DEFINE f == maths[t]
           x == f.x
           mode == noted["mode"][x]
<1>1. f \in MathsRec /\ StageFits(f) /\ f.stage \in {"alpha", "beta"}
  BY DEF HandleSide, MathsTyped, GemmScalar, At
<1>2. /\ x \in Values /\ x \in mine /\ \A u \in Threads \ {t} : ~OnHandle(maths[u], x)
      /\ FrameSettles(f, lib[x], NotedIn(noted, x), TRUE, x \in unsure)
  BY <1>1, HeldAlone DEF Users
<1>3. mode \in Bit
  BY <1>2 DEF HandleSide, MathsTyped, Attrs
<1>4. x \notin unsure => mode = lib[x]["mode"]
  BY <1>1, <1>2, RecordIsTrue DEF OnHandle, Attrs
<1>5. CASE f.stage = "alpha"
  <2> DEFINE c == [f EXCEPT !.stage = "beta", !.got.mode = mode]
  <2>1. maths' = [maths EXCEPT ![t] = c]
    BY <1>5 DEF GemmScalar, At
  <2>2. c \in MathsRec
    BY <1>1, <1>3 DEF MathsRec, Holders, Users, Attrs
  <2>3. c.stage = "beta" /\ c.x = x /\ c.m = f.m /\ c.a = f.a /\ c.to = f.to /\ c.r = f.r
    BY <1>1 DEF MathsRec
  <2>4. c.got["mode"] = mode
    BY <1>1 DEF MathsRec, Attrs
  <2> HIDE DEF c
  <2>5. StageFits(c)
    BY <1>1, <1>5, <2>3 DEF StageFits, Holders, Users, DescUsers
  <2>6. FrameSettles(c, lib[x], NotedIn(noted, x), TRUE, x \in unsure)
    BY <1>4, <2>3, <2>4 DEF FrameSettles, Users
  <2>7. UNCHANGED <<lib, noted, mine, tensorVars, unsure>>
    BY DEF GemmScalar
  <2>8. QED
    BY <1>1, <1>2, <1>5, <2>1, <2>2, <2>3, <2>5, <2>6, <2>7, ReadStep DEF Moves, Reading
<1>6. CASE f.stage = "beta"
  <2> DEFINE c == [f EXCEPT !.stage = "computes", !.to = mode]
  <2>1. maths' = [maths EXCEPT ![t] = c]
    BY <1>6 DEF GemmScalar, At
  <2>2. c \in MathsRec
    BY <1>1, <1>3 DEF MathsRec, Holders, Users, Attrs
  <2>3. c.stage = "computes" /\ c.x = x /\ c.m = f.m /\ c.a = f.a /\ c.to = mode /\ c.r = f.r /\ c.got = f.got
    BY <1>1 DEF MathsRec
  <2> HIDE DEF c
  <2>4. StageFits(c)
    BY <1>1, <1>6, <2>3 DEF StageFits, Holders, Users, DescUsers
  <2>5. FrameSettles(c, lib[x], NotedIn(noted, x), TRUE, x \in unsure)
    BY <1>2, <1>4, <1>6, <2>3 DEF FrameSettles, Users
  <2>6. UNCHANGED <<lib, noted, mine, tensorVars, unsure>>
    BY DEF GemmScalar
  <2>7. QED
    BY <1>1, <1>2, <1>6, <2>1, <2>2, <2>3, <2>4, <2>5, <2>6, ReadStep DEF Moves, Reading
<1>7. QED
  BY <1>1, <1>5, <1>6

(* cublasSgemm_v2 reads the stream it marks.                               *)
LEMMA ComputesReads ==
  ASSUME HandleSide, UNCHANGED program, NEW t \in Threads, Computes(t)
  PROVE  HandleSide'
<1> DEFINE f == maths[t]
           x == f.x
           stream == noted["stream"][x]
           c == [f EXCEPT !.stage = "multiply", !.got.stream = stream]
<1>1. f \in MathsRec /\ StageFits(f) /\ f.stage = "computes"
  BY DEF HandleSide, MathsTyped, Computes, At
<1>2. /\ x \in Values /\ x \in mine /\ \A u \in Threads \ {t} : ~OnHandle(maths[u], x)
      /\ FrameSettles(f, lib[x], NotedIn(noted, x), TRUE, x \in unsure)
  BY <1>1, HeldAlone DEF Users
<1>3. stream \in Bit
  BY <1>2 DEF HandleSide, MathsTyped, Attrs
<1>4. x \notin unsure => stream = lib[x]["stream"]
  BY <1>1, <1>2, RecordIsTrue DEF OnHandle, Attrs
<1>5. maths' = [maths EXCEPT ![t] = c]
  BY DEF Computes
<1>6. c \in MathsRec
  BY <1>1, <1>3 DEF MathsRec, Holders, Users, Attrs
<1>7. c.stage = "multiply" /\ c.x = x /\ c.m = f.m /\ c.a = f.a /\ c.to = f.to /\ c.r = f.r
  BY <1>1 DEF MathsRec
<1>8. c.got["stream"] = stream /\ c.got["mode"] = f.got["mode"]
  BY <1>1 DEF MathsRec, Attrs
<1> HIDE DEF c
<1>9. StageFits(c)
  BY <1>1, <1>7 DEF StageFits, Holders, Users, DescUsers
<1>10. FrameSettles(c, lib[x], NotedIn(noted, x), TRUE, x \in unsure)
  BY <1>1, <1>2, <1>4, <1>7, <1>8 DEF FrameSettles, Users
<1>11. UNCHANGED <<lib, noted, mine, tensorVars, unsure>>
  BY DEF Computes
<1>12. QED
  BY <1>1, <1>2, <1>5, <1>6, <1>7, <1>9, <1>10, <1>11, ReadStep DEF Moves, Reading

(* cudnnBackendExecute reads the stream it marks.                          *)
LEMMA DnnExecuteReads ==
  ASSUME HandleSide, UNCHANGED program, NEW t \in Threads, NEW v \in Values, DnnExecute(t, v)
  PROVE  HandleSide'
<1> DEFINE stream == noted["stream"][v]
           c == [NoMaths EXCEPT !.stage = "execute", !.x = v, !.got.stream = stream]
<1>1. Uses(t, v) /\ Makes("dnn") /\ UNCHANGED <<lib, noted, mine, tensorVars, unsure>>
  BY DEF DnnExecute
<1>2. maths[t] = NoMaths /\ v \in mine /\ \A u \in Threads : ~OnHandle(maths[u], v)
  BY <1>1, UsedAlone
<1>3. stream \in Bit
  BY DEF HandleSide, MathsTyped, Attrs
<1>4. v \notin unsure => stream = lib[v]["stream"]
  BY <1>2, RecordIsTrue DEF Attrs
<1>5. Moves(t, c)
  BY DEF DnnExecute, Moves
<1>6. Default \in [Attrs -> Bit]
  BY DEF Default, Bit
<1>7. c \in MathsRec
  BY <1>3, <1>6 DEF NoMaths, MathsRec, Holders, Users, Attrs, Bit, Results, Minted
<1>8. c.stage = "execute" /\ c.x = v /\ c.m = 0
  BY DEF NoMaths
<1>9. c.got["stream"] = stream
  BY <1>6 DEF NoMaths, Attrs
<1> HIDE DEF c
<1>10. StageFits(c)
  BY <1>1, <1>8 DEF StageFits, Holders, Users, DescUsers
<1>11. FrameSettles(c, lib[v], NotedIn(noted, v), TRUE, v \in unsure)
  BY <1>4, <1>8, <1>9 DEF FrameSettles, Users
<1>12. QED
  BY <1>1, <1>2, <1>5, <1>7, <1>8, <1>10, <1>11, NoMathsIs, ReadStep DEF Reading

(* cublasLtMatmul reads how alpha and beta are passed, and their width.    *)
LEMMA LtMatmulReads ==
  ASSUME HandleSide, UNCHANGED program, NEW t \in Threads, NEW v \in Values, LtMatmul(t, v)
  PROVE  HandleSide'
<1> DEFINE mode == noted["mode"][v]
           scale == noted["scale"][v]
           c == [NoMaths EXCEPT !.stage = "matmul", !.x = v, !.got.mode = mode, !.got.scale = scale]
<1>1. Uses(t, v) /\ Makes("lt") /\ UNCHANGED <<lib, noted, mine, tensorVars, unsure>>
  BY DEF LtMatmul
<1>2. maths[t] = NoMaths /\ v \in mine /\ \A u \in Threads : ~OnHandle(maths[u], v)
  BY <1>1, UsedAlone
<1>3. mode \in Bit /\ scale \in Bit
  BY DEF HandleSide, MathsTyped, Attrs
<1>4. v \notin unsure => mode = lib[v]["mode"] /\ scale = lib[v]["scale"]
  BY <1>2, RecordIsTrue DEF Attrs
<1>5. Moves(t, c)
  BY DEF LtMatmul, Moves
<1>6. Default \in [Attrs -> Bit]
  BY DEF Default, Bit
<1>7. c \in MathsRec
  BY <1>3, <1>6 DEF NoMaths, MathsRec, Holders, Users, Attrs, Bit, Results, Minted
<1>8. c.stage = "matmul" /\ c.x = v /\ c.m = 0
  BY DEF NoMaths
<1>9. c.got["mode"] = mode /\ c.got["scale"] = scale
  BY <1>6 DEF NoMaths, Attrs
<1> HIDE DEF c
<1>10. StageFits(c)
  BY <1>1, <1>8 DEF StageFits, Holders, Users, DescUsers
<1>11. FrameSettles(c, lib[v], NotedIn(noted, v), TRUE, v \in unsure)
  BY <1>4, <1>8, <1>9 DEF FrameSettles, Users
<1>12. QED
  BY <1>1, <1>2, <1>5, <1>7, <1>8, <1>10, <1>11, NoMathsIs, ReadStep DEF Reading

(* A call that is sent has nothing more in its hands.                      *)
LEMMA ReadsSent ==
  ASSUME HandleSide, UNCHANGED program, NEW t \in Threads, GemmSent(t) \/ DnnExecuted(t) \/ LtMatmulSent(t)
  PROVE  HandleSide'
<1>1. maths[t].stage \in {"multiply", "execute", "matmul"} /\ Done(t) /\ UNCHANGED <<lib, noted, mine, tensorVars, unsure>>
  BY DEF GemmSent, DnnExecuted, LtMatmulSent, At
<1>2. Moves(t, NoMaths)
  BY <1>1, Stopped
<1>3. maths[t].x \in Values /\ maths[t].x \in mine /\ \A u \in Threads \ {t} : ~OnHandle(maths[u], maths[t].x)
  BY <1>1, HeldAlone DEF Users
<1>4. QED
  BY <1>1, <1>2, <1>3, NoMathsIs, ReadStep DEF Reading

(* A call that writes: what is to be shown of its handle.                  *)
LEMMA WriteStep ==
  ASSUME HandleSide, UNCHANGED <<program, tensorVars>>, NEW t \in Threads, NEW x \in Values,
         NEW c \in MathsRec, Moves(t, c), StageFits(c),
         maths[t].stage \in Holders \union {"erase", "erase desc"} => maths[t].x = x,
         c.stage \in Holders \union {"erase", "erase desc"} => c.x = x,
         lib' \in [Values -> [Attrs -> Bit] \union {Nothing}], noted' \in [Attrs -> [Values -> Bit]],
         mine' \in SUBSET Values,
         \A v \in Values \ {x} : /\ lib'[v] = lib[v] /\ \A a \in Attrs : noted'[a][v] = noted[a][v]
                                 /\ v \in mine' <=> v \in mine
                                 /\ v \in unsure' <=> v \in unsure,
         \A u \in Threads \ {t} : Spared(u, x) /\ (OnHandle(maths[u], x) => c.stage \notin Holders),
         x \in mine' => lib'[x] # Nothing /\ UsesHandles,
         x \in mine' /\ x \notin unsure' =>
           \A a \in Attrs : noted'[a][x] = lib'[x][a] \/ \E u \in Threads : Settles(maths'[u], x, a),
         x \notin mine' /\ ~Makes("lt") =>
           \A a \in Attrs : noted'[a][x] # 0 => \E u \in Threads : ToErase(maths'[u], x, a),
         noted'["stream"][x] # 0 => Makes("blas") \/ Makes("dnn"),
         noted'["mode"][x] # 0 => Makes("blas") \/ Makes("lt"),
         noted'["scale"][x] # 0 => Makes("lt"),
         c.stage \in Holders => FrameSettles(c, lib'[x], NotedIn(noted', x), x \in mine', x \in unsure')
  PROVE  HandleSide'
<1>1. maths'[t] = c /\ \A u \in Threads \ {t} : maths'[u] = maths[u]
  BY MovesTo DEF HandleSide
<1>2. maths' \in [Threads -> MathsRec] /\ (\A u \in Threads : StageFits(maths[u]))'
  BY MovesTyped DEF HandleSide
<1>3. MathsTyped'
  BY <1>2 DEF HandleSide, MathsTyped, tensorVars
<1>4. Elsewhere(t, x)
  BY <1>1 DEF Elsewhere
<1>5. FrameSays(t, maths', lib', noted', mine', unsure')
  BY <1>1 DEF FrameSays
<1>6. ValueSays(x, maths', lib', noted', mine', unsure')
  <2>1. \A a \in Attrs : NotedIn(noted', x)[a] = noted'[a][x]
    BY DEF NotedIn
  <2>2. \A u, w \in Threads : OnHandle(maths'[u], x) /\ OnHandle(maths'[w], x) => u = w
    <3>1. \A u, w \in Threads : OnHandle(maths[u], x) /\ OnHandle(maths[w], x) => u = w
      BY OneCallToAHandle DEF HandleSide
    <3>2. \A u \in Threads \ {t} : OnHandle(maths[u], x) => ~OnHandle(c, x)
      BY DEF OnHandle
    <3>3. QED
      BY <1>1, <3>1, <3>2
  <2>3. {"stream", "mode", "scale"} = Attrs
    BY DEF Attrs
  <2>4. QED
    BY <2>1, <2>2, <2>3 DEF ValueSays, HandleFits
<1>7. HandlesInv'
  BY <1>4, <1>5, <1>6, HandleStep DEF HandleSide
<1>8. QED
  BY <1>2, <1>3, <1>7 DEF HandleSide

(* What was true of a handle before.                                       *)
LEMMA FitBefore ==
  ASSUME HandleSide, NEW x \in Values
  PROVE  /\ x \in mine /\ x \notin unsure =>
              \A a \in Attrs : noted[a][x] = lib[x][a] \/ \E u \in Threads : Settles(maths[u], x, a)
         /\ x \in mine => UsesHandles
         /\ x \notin mine /\ ~Makes("lt") =>
              \A a \in Attrs : noted[a][x] # 0 => \E u \in Threads : ToErase(maths[u], x, a)
         /\ noted["stream"][x] # 0 => Makes("blas") \/ Makes("dnn")
         /\ noted["mode"][x] # 0 => Makes("blas") \/ Makes("lt")
         /\ noted["scale"][x] # 0 => Makes("lt")
<1>1. HandleFits(x, lib[x], NotedIn(noted, x), x \in mine, x \in unsure, maths) /\ (mine # {} => UsesHandles)
  BY HandleParts DEF HandleSide, ValueSays
<1>2. \A a \in Attrs : NotedIn(noted, x)[a] = noted[a][x]
  BY DEF NotedIn
<1>3. {"stream", "mode", "scale"} = Attrs
  BY DEF Attrs
<1>4. QED
  BY <1>1, <1>2, <1>3 DEF HandleFits

(* What the server does, of one value.                                     *)
LEMMA BitsAreSomething == ASSUME NEW L \in [Attrs -> Bit] PROVE L # Nothing
  BY DEF Attrs, Bit, Nothing
(* A setter that runs sets one attribute of one object.                    *)
LEMMA KeptIs ==
  ASSUME MathsTyped, NEW v \in Values, NEW a \in Attrs, NEW to \in Bit, NEW runs, runs \in BOOLEAN, lib[v] # Nothing,
         Kept(v, a, to, runs)
  PROVE  /\ lib' \in [Values -> [Attrs -> Bit] \union {Nothing}] /\ \A w \in Values \ {v} : lib'[w] = lib[w]
         /\ lib'[v] # Nothing /\ lib'[v] \in [Attrs -> Bit]
         /\ runs => lib'[v][a] = to /\ \A b \in Attrs \ {a} : lib'[v][b] = lib[v][b]
         /\ ~runs => lib'[v] = lib[v]
<1>1. lib[v] \in [Attrs -> Bit]
  BY DEF MathsTyped
<1>2. CASE runs
  <2>1. lib' = [lib EXCEPT ![v][a] = to]
    BY <1>2 DEF Kept
  <2>2. lib' = [lib EXCEPT ![v] = [lib[v] EXCEPT ![a] = to]] /\ [lib[v] EXCEPT ![a] = to] \in [Attrs -> Bit]
    BY <1>1, <2>1
  <2>3. lib'[v] = [lib[v] EXCEPT ![a] = to]
    BY <2>2 DEF MathsTyped
  <2>4. QED
    BY <1>1, <1>2, <2>2, <2>3, BitsAreSomething DEF MathsTyped
<1>3. CASE ~runs
  BY <1>1, <1>3 DEF Kept, MathsTyped
<1>4. QED
  BY <1>2, <1>3
(* A destroy leaves the other objects alone.                               *)
LEMMA FreedIs ==
  ASSUME MathsTyped, NEW v \in Values, NEW runs, Freed(v, runs)
  PROVE  lib' \in [Values -> [Attrs -> Bit] \union {Nothing}] /\ \A w \in Values \ {v} : lib'[w] = lib[w]
  BY DEF Freed, MathsTyped

(* cuBLAS.                                                                 *)
LEMMA CreateHandleWrites ==
  ASSUME HandleSide, program \in Programs, UNCHANGED program, NEW t \in Threads, CreateHandle(t)
  PROVE  HandleSide'
<1>1. PICK v \in Values, o \in Outcomes :
        /\ lib[v] = Nothing /\ Made(v)
        /\ mine' = IF o.r = "ok" THEN mine \union {v} ELSE mine
        /\ unsure' = IF StaleRecord(v) THEN unsure \union {v} ELSE unsure \ {v}
  BY DEF CreateHandle
<1>2. maths[t] = NoMaths /\ (Makes("blas") \/ Makes("dnn")) /\ UNCHANGED <<noted, maths, tensorVars>>
  BY DEF CreateHandle, Quiet
<1>3. ~Makes("lt") /\ UsesHandles
  BY <1>2, Exclusive DEF UsesHandles
<1>4. v \notin mine /\ \A u \in Threads : ~OnHandle(maths[u], v)
  BY <1>1, NotGivenOut
<1>5. lib'[v] = Default /\ \A w \in Values \ {v} : lib'[w] = lib[w]
  BY <1>1 DEF Made, HandleSide, MathsTyped
<1>6. Default \in [Attrs -> Bit] /\ Default # Nothing /\ \A a \in Attrs : Default[a] = 0
  <2>1. Default \in [Attrs -> Bit]
    BY DEF Default, Bit
  <2>2. QED
    BY <2>1, BitsAreSomething DEF Default
<1>7. lib' \in [Values -> [Attrs -> Bit] \union {Nothing}]
  BY <1>1, <1>6 DEF Made, HandleSide, MathsTyped
<1>8. v \notin unsure' => \A a \in Attrs : noted[a][v] = 0
  <2>1. ASSUME NEW a \in Attrs, noted[a][v] # 0 PROVE StaleRecord(v)
    <3>1. PICK u \in Threads : ToErase(maths[u], v, a)
      BY <1>3, <1>4, <2>1, FitBefore
    <3>2. QED
      BY <2>1, <3>1 DEF StaleRecord, ToErase, Erasing
  <2>2. QED
    BY <1>1, <2>1
<1>9. maths' = [maths EXCEPT ![t] = NoMaths]
  BY <1>2 DEF HandleSide, MathsTyped
<1>10. mine' \in SUBSET Values
  BY <1>1 DEF HandleSide, MathsTyped
<1>11. NoMaths.stage \notin Holders \union {"erase", "erase desc"}
  BY NoMathsIs DEF None, Holders, Users
<1>12. \A u \in Threads \ {t} : Spared(u, v)
  BY <1>4 DEF Spared
<1>13. \A w \in Values \ {v} : /\ lib'[w] = lib[w] /\ \A a \in Attrs : noted'[a][w] = noted[a][w]
                               /\ w \in mine' <=> w \in mine
                               /\ w \in unsure' <=> w \in unsure
  BY <1>1, <1>2, <1>5
<1>14. /\ v \notin mine' /\ ~Makes("lt") =>
            \A a \in Attrs : noted'[a][v] # 0 => \E u \in Threads : ToErase(maths'[u], v, a)
       /\ noted'["stream"][v] # 0 => Makes("blas") \/ Makes("dnn")
       /\ noted'["mode"][v] # 0 => Makes("blas") \/ Makes("lt")
       /\ noted'["scale"][v] # 0 => Makes("lt")
  BY <1>2, <1>4, FitBefore
<1>15. v \in mine' /\ v \notin unsure' =>
         \A a \in Attrs : noted'[a][v] = lib'[v][a] \/ \E u \in Threads : Settles(maths'[u], v, a)
  BY <1>2, <1>5, <1>6, <1>8
<1>16. noted' \in [Attrs -> [Values -> Bit]]
  BY <1>2 DEF HandleSide, MathsTyped
<1>17. QED
  BY <1>2, <1>3, <1>5, <1>6, <1>7, <1>9, <1>10, <1>11, <1>12, <1>13, <1>14, <1>15, <1>16, NoMathsIs, WriteStep DEF Moves

(* cublasSetStream_v2 and cublasSetPointerMode_v2, as far as the call: the *)
(* record is behind, and about to be made.                                 *)
LEMMA BlasSetWrites ==
  ASSUME HandleSide, UNCHANGED program, NEW t \in Threads, NEW v \in Values, NEW a \in {"stream", "mode"}, NEW to \in Bit,
         BlasSet(t, v, a, to)
  PROVE  HandleSide'
<1>1. PICK o \in Outcomes : /\ Kept(v, a, to, o.ran)
                            /\ Enters(t, "note", v, a, to, o.r)
                            /\ unsure' = IF o.ran /\ o.r # "ok" THEN unsure \union {v} ELSE unsure
  BY DEF BlasSet
<1>2. Uses(t, v) /\ Makes("blas") /\ UNCHANGED <<noted, mine, tensorVars>>
  BY DEF BlasSet
<1>3. o.ran \in BOOLEAN /\ o.r \in Results /\ (o.r = "ok" => o.ran)
  BY OutcomesAre DEF Results
<1>4. PICK c \in MathsRec : Moves(t, c) /\ Reads(c, "note", v, 0, a, to, o.r, Default)
  BY <1>1, <1>3, Entered DEF Holders, Users, Attrs
<1>5. /\ maths[t] = NoMaths /\ v \in mine /\ \A u \in Threads : ~OnHandle(maths[u], v)
      /\ lib[v] # Nothing /\ lib[v] \in [Attrs -> Bit]
  BY <1>2, UsedAlone
<1>6. /\ lib' \in [Values -> [Attrs -> Bit] \union {Nothing}] /\ \A w \in Values \ {v} : lib'[w] = lib[w]
      /\ lib'[v] # Nothing /\ lib'[v] \in [Attrs -> Bit]
      /\ o.ran => lib'[v][a] = to /\ \A b \in Attrs \ {a} : lib'[v][b] = lib[v][b]
      /\ ~o.ran => lib'[v] = lib[v]
  BY <1>1, <1>3, <1>5, KeptIs DEF HandleSide, Attrs
<1>7. StageFits(c)
  BY <1>2, <1>4 DEF Reads, StageFits, Holders, Users, DescUsers, Attrs
<1>8. maths'[t] = c
  BY <1>4, MovesTo DEF HandleSide
<1>9. v \notin unsure' => \A b \in Attrs : noted'[b][v] = lib'[v][b] \/ Settles(c, v, b)
  <2>1. ASSUME v \notin unsure' PROVE v \notin unsure /\ (o.ran => o.r = "ok")
    BY <1>1, <2>1
  <2>2. \A u \in Threads, b \in Attrs : ~Settles(maths[u], v, b)
    BY <1>5 DEF Settles, OnHandle, Holders, Users
  <2>3. v \notin unsure => \A b \in Attrs : noted[b][v] = lib[v][b]
    BY <1>5, <2>2, FitBefore
  <2>4. o.r = "ok" => Settles(c, v, a)
    BY <1>4 DEF Reads, Settles
  <2>5. QED
    BY <1>2, <1>3, <1>6, <2>1, <2>3, <2>4
<1>10. \A L, N, un : lib'[v] = L => FrameSettles(c, L, N, TRUE, un)
  BY <1>3, <1>4, <1>6 DEF Reads, FrameSettles, Users
<1>11. (v \in mine') = TRUE
  BY <1>2, <1>5
<1>12. \A u \in Threads \ {t} : Spared(u, v) /\ ~OnHandle(maths[u], v)
  BY <1>5 DEF Spared
<1>13. \A w \in Values \ {v} : /\ lib'[w] = lib[w] /\ \A b \in Attrs : noted'[b][w] = noted[b][w]
                               /\ w \in mine' <=> w \in mine
                               /\ w \in unsure' <=> w \in unsure
  BY <1>1, <1>2, <1>6
<1>14. maths[t].stage \notin Holders \union {"erase", "erase desc"} /\ c.x = v
  BY <1>4, <1>5, NoMathsIs DEF Reads, None, Holders, Users
<1>15. UsesHandles
  BY <1>2 DEF UsesHandles
<1>16. /\ noted' \in [Attrs -> [Values -> Bit]] /\ mine' \in SUBSET Values
       /\ noted'["stream"][v] # 0 => Makes("blas") \/ Makes("dnn")
       /\ noted'["mode"][v] # 0 => Makes("blas") \/ Makes("lt")
       /\ noted'["scale"][v] # 0 => Makes("lt")
  BY <1>2, FitBefore DEF HandleSide, MathsTyped
<1>17. UNCHANGED <<program, tensorVars>>
  BY <1>2
<1>18. v \in mine' /\ v \notin unsure' =>
         \A b \in Attrs : noted'[b][v] = lib'[v][b] \/ \E u \in Threads : Settles(maths'[u], v, b)
  BY <1>8, <1>9
<1>19. FrameSettles(c, lib'[v], NotedIn(noted', v), v \in mine', v \in unsure')
  BY <1>10, <1>11
<1>20. QED
  BY <1>4, <1>6, <1>7, <1>11, <1>12, <1>13, <1>14, <1>15, <1>16, <1>17, <1>18, <1>19, WriteStep

(* And their record of what succeeded.                                     *)
LEMMA BlasNoteWrites ==
  ASSUME HandleSide, UNCHANGED program, NEW t \in Threads, BlasNote(t)
  PROVE  HandleSide'
<1> DEFINE f == maths[t]
           x == f.x
<1>1. f.stage = "note" /\ BlasNotes(t) /\ Moves(t, NoMaths) /\ UNCHANGED <<lib, mine, tensorVars, unsure>>
  BY Stopped DEF BlasNote, At
<1>2. /\ x \in Values /\ x \in mine /\ \A u \in Threads \ {t} : ~OnHandle(maths[u], x)
      /\ lib[x] # Nothing /\ FrameSettles(f, lib[x], NotedIn(noted, x), TRUE, x \in unsure)
  BY <1>1, HeldAlone DEF Users
<1>3. f \in MathsRec /\ f.a \in {"stream", "mode"} /\ f.a \in Attrs /\ Makes("blas")
  BY <1>1 DEF HandleSide, MathsTyped, StageFits, Attrs
<1>4. f.to \in Bit
  BY <1>3 DEF MathsRec
<1>5. /\ noted' \in [Attrs -> [Values -> Bit]]
      /\ \A w \in Values \ {x} : \A b \in Attrs : noted'[b][w] = noted[b][w]
      /\ \A b \in Attrs \ {f.a} : noted'[b][x] = noted[b][x]
      /\ noted'[f.a][x] = IF f.r = "ok" THEN f.to ELSE noted[f.a][x]
  <2>1. noted \in [Attrs -> [Values -> Bit]]
    BY DEF HandleSide, MathsTyped
  <2>2. CASE f.r = "ok"
    <3>1. noted' = [noted EXCEPT ![f.a] = [noted[f.a] EXCEPT ![x] = f.to]]
      BY <1>1, <2>2 DEF BlasNotes
    <3>2. QED
      BY <1>2, <1>3, <1>4, <2>1, <2>2, <3>1
  <2>3. CASE f.r # "ok"
    BY <1>1, <2>1, <2>3 DEF BlasNotes
  <2>4. QED
    BY <2>2, <2>3
<1>6. x \notin unsure => \A b \in Attrs : noted'[b][x] = lib[x][b]
  <2>1. \A b \in Attrs : (\E u \in Threads : Settles(maths[u], x, b)) => f.r = "ok" /\ b = f.a
    <3>1. \A u \in Threads \ {t}, b \in Attrs : ~Settles(maths[u], x, b)
      BY <1>2 DEF Settles, OnHandle, Holders, Users
    <3>2. \A b : Settles(f, x, b) => f.r = "ok" /\ b = f.a
      BY <1>1 DEF Settles
    <3>3. QED
      BY <3>1, <3>2
  <2>2. f.r = "ok" => lib[x][f.a] = f.to
    BY <1>1, <1>2 DEF FrameSettles
  <2>3. QED
    BY <1>2, <1>3, <1>5, <2>1, <2>2, FitBefore
<1>7. NoMaths.stage \notin Holders \union {"erase", "erase desc"}
  BY NoMathsIs DEF None, Holders, Users
<1>8. \A u \in Threads \ {t} : Spared(u, x)
  BY <1>2 DEF Spared
<1>9. UsesHandles
  BY <1>3 DEF UsesHandles
<1>10. noted'["scale"][x] # 0 => Makes("lt")
  <2>1. f.a # "scale"
    BY <1>3
  <2>2. QED
    BY <1>2, <1>5, <2>1, FitBefore DEF Attrs
<1>11. lib' \in [Values -> [Attrs -> Bit] \union {Nothing}] /\ mine' \in SUBSET Values
  BY <1>1 DEF HandleSide, MathsTyped
<1>12. \A w \in Values \ {x} : /\ lib'[w] = lib[w] /\ \A b \in Attrs : noted'[b][w] = noted[b][w]
                               /\ w \in mine' <=> w \in mine
                               /\ w \in unsure' <=> w \in unsure
  BY <1>1, <1>5
<1>13. x \in mine' /\ x \notin unsure' =>
         \A b \in Attrs : noted'[b][x] = lib'[x][b] \/ \E u \in Threads : Settles(maths'[u], x, b)
  BY <1>1, <1>6
<1>14. f.stage \in Holders \union {"erase", "erase desc"} => f.x = x
  OBVIOUS
<1>15. UNCHANGED <<program, tensorVars>> /\ x \in mine' /\ lib'[x] # Nothing
  BY <1>1, <1>2
<1> HIDE DEF x, f
<1>16. QED
  BY <1>1, <1>2, <1>3, <1>5, <1>7, <1>8, <1>9, <1>10, <1>11, <1>12, <1>13, <1>14, <1>15, NoMathsIs, WriteStep DEF f

(* A destroyed handle: the application lets go of it, and its record goes  *)
(* before, or is to go.                                                    *)
LEMMA LetGo ==
  ASSUME HandleSide, UNCHANGED <<program, tensorVars, unsure>>, NEW t \in Threads, NEW v \in Values, Uses(t, v),
         NEW c \in MathsRec, Moves(t, c), StageFits(c), c.stage \in {"erase", "erase desc", "destroy"}, c.x = v,
         lib' \in [Values -> [Attrs -> Bit] \union {Nothing}], \A w \in Values \ {v} : lib'[w] = lib[w],
         noted' \in [Attrs -> [Values -> Bit]],
         \A w \in Values \ {v} : \A a \in Attrs : noted'[a][w] = noted[a][w],
         \A a \in Attrs : noted'[a][v] \in {noted[a][v], 0},
         mine' = mine \ {v},
         ~Makes("lt") => \A a \in Attrs : noted'[a][v] # 0 => ToErase(c, v, a),
         c.stage = "destroy" => lib'[v] # Nothing
  PROVE  HandleSide'
<1>1. maths[t] = NoMaths /\ v \in mine /\ \A u \in Threads : ~OnHandle(maths[u], v)
  BY UsedAlone
<1>2. maths'[t] = c
  BY MovesTo DEF HandleSide
<1>3. \A u \in Threads \ {t} : Spared(u, v) /\ ~OnHandle(maths[u], v)
  BY <1>1 DEF Spared
<1>5. v \notin mine'
  OBVIOUS
<1>6. c.stage \in Holders => FrameSettles(c, lib'[v], NotedIn(noted', v), v \in mine', v \in unsure')
  BY <1>5 DEF FrameSettles, Holders, Users
<1>7. /\ noted'["stream"][v] # 0 => Makes("blas") \/ Makes("dnn")
      /\ noted'["mode"][v] # 0 => Makes("blas") \/ Makes("lt")
      /\ noted'["scale"][v] # 0 => Makes("lt")
  BY FitBefore DEF Attrs
<1>8. mine' \in SUBSET Values
  BY DEF HandleSide, MathsTyped
<1>9. maths[t].stage \notin Holders \union {"erase", "erase desc"}
  BY <1>1, NoMathsIs DEF None, Holders, Users
<1>10. \A w \in Values \ {v} : /\ lib'[w] = lib[w] /\ \A a \in Attrs : noted'[a][w] = noted[a][w]
                               /\ w \in mine' <=> w \in mine
                               /\ w \in unsure' <=> w \in unsure
  OBVIOUS
<1>11. v \notin mine' /\ ~Makes("lt") =>
         \A a \in Attrs : noted'[a][v] # 0 => \E u \in Threads : ToErase(maths'[u], v, a)
  BY <1>2
<1>12. QED
  BY <1>3, <1>5, <1>6, <1>7, <1>8, <1>9, <1>10, <1>11, WriteStep

(* cublasDestroy_v2, as far as the call: the record outlives the handle,   *)
(* and is about to be erased.                                              *)
LEMMA BlasDestroyWrites ==
  ASSUME HandleSide, program \in Programs, UNCHANGED program, NEW t \in Threads, NEW v \in Values, BlasDestroy(t, v)
  PROVE  HandleSide'
<1>1. Uses(t, v) /\ Makes("blas") /\ mine' = mine \ {v} /\ UNCHANGED <<noted, tensorVars, unsure>>
  BY DEF BlasDestroy
<1>2. PICK o \in Outcomes : Freed(v, o.ran)
  BY DEF BlasDestroy
<1>3. PICK c \in MathsRec : Moves(t, c) /\ Reads(c, "erase", v, 0, "stream", 0, "ok", Default)
  BY Entered DEF BlasDestroy, Attrs, Bit, Results
<1>4. StageFits(c)
  BY <1>1, <1>3 DEF Reads, StageFits, Holders, Users, DescUsers, Attrs
<1>5. lib' \in [Values -> [Attrs -> Bit] \union {Nothing}] /\ \A w \in Values \ {v} : lib'[w] = lib[w]
  BY <1>2, FreedIs DEF HandleSide
<1>6. \A a \in Attrs : ToErase(c, v, a)
  BY <1>3 DEF ToErase, Reads
<1>7. noted' \in [Attrs -> [Values -> Bit]]
  BY <1>1 DEF HandleSide, MathsTyped
<1>8. c.stage = "erase" /\ c.x = v
  BY <1>3 DEF Reads
<1>9. \A a \in Attrs : noted'[a][v] \in {noted[a][v], 0} /\ \A w \in Values : noted'[a][w] = noted[a][w]
  BY <1>1
<1>10. QED
  BY <1>1, <1>3, <1>4, <1>5, <1>6, <1>7, <1>8, <1>9, LetGo

(* A record erased late: a handle given out again in between is excused if *)
(* there was something to erase.                                           *)
LEMMA LateErase ==
  ASSUME HandleSide, UNCHANGED <<program, tensorVars, lib, mine>>, NEW t \in Threads, NEW x \in Values,
         maths[t].stage \in {"erase", "erase desc"}, maths[t].x = x,
         NEW c \in MathsRec, Moves(t, c), StageFits(c), c.stage \in {"erase", None}, c.stage = "erase" => c.x = x,
         noted' \in [Attrs -> [Values -> Bit]],
         \A w \in Values \ {x} : \A a \in Attrs : noted'[a][w] = noted[a][w],
         \A a \in Attrs : noted'[a][x] \in {noted[a][x], 0},
         \A w \in Values \ {x} : w \in unsure' <=> w \in unsure,
         x \in unsure => x \in unsure',
         x \in mine /\ x \notin unsure' => \A a \in Attrs : noted'[a][x] = noted[a][x],
         x \notin mine /\ ~Makes("lt") =>
           \A a \in Attrs : noted'[a][x] # 0 /\ ToErase(maths[t], x, a) => ToErase(c, x, a)
  PROVE  HandleSide'
<1>1. maths'[t] = c /\ \A u \in Threads \ {t} : maths'[u] = maths[u]
  BY MovesTo DEF HandleSide
<1>2. ASSUME NEW u \in Threads \ {t}, OnHandle(maths[u], x)
      PROVE  FrameSettles(maths[u], lib'[x], NotedIn(noted', x), x \in mine', x \in unsure')
  <2>1. FrameSettles(maths[u], lib[x], NotedIn(noted, x), x \in mine, x \in unsure)
    BY <1>2, HandleParts DEF HandleSide, FrameSays, OnHandle
  <2>2. CASE x \in unsure'
    BY <2>1, <2>2 DEF FrameSettles
  <2>3. CASE x \notin unsure' /\ x \in mine
    <3>1. NotedIn(noted', x) = NotedIn(noted, x)
      BY <2>3, NotedSame
    <3>2. x \notin unsure
      BY <2>3
    <3>3. QED
      BY <2>1, <2>3, <3>1, <3>2 DEF FrameSettles
  <2>4. CASE x \notin mine
    <3>1. maths[u].stage \notin Users
      BY <2>1, <2>4 DEF FrameSettles
    <3>2. QED
      BY <2>1, <2>4, <3>1 DEF FrameSettles, Users
  <2>5. QED
    BY <2>2, <2>3, <2>4
<1>3. c.stage \notin Holders
  BY DEF Holders, Users, None
<1>4. \A u \in Threads \ {t} : Spared(u, x) /\ (OnHandle(maths[u], x) => c.stage \notin Holders)
  BY <1>2, <1>3 DEF Spared
<1>5. x \in mine' /\ x \notin unsure' =>
        \A a \in Attrs : noted'[a][x] = lib'[x][a] \/ \E u \in Threads : Settles(maths'[u], x, a)
  <2> SUFFICES ASSUME x \in mine, x \notin unsure', NEW a \in Attrs, noted'[a][x] # lib[x][a]
               PROVE  \E u \in Threads : Settles(maths'[u], x, a)
    OBVIOUS
  <2>1. PICK u \in Threads : Settles(maths[u], x, a)
    BY FitBefore
  <2>2. u # t
    BY <2>1 DEF Settles
  <2>3. QED
    BY <1>1, <2>1, <2>2
<1>6. x \notin mine' /\ ~Makes("lt") =>
        \A a \in Attrs : noted'[a][x] # 0 => \E u \in Threads : ToErase(maths'[u], x, a)
  <2> SUFFICES ASSUME x \notin mine, ~Makes("lt"), NEW a \in Attrs, noted'[a][x] # 0
               PROVE  \E u \in Threads : ToErase(maths'[u], x, a)
    OBVIOUS
  <2>1. noted[a][x] # 0
    OBVIOUS
  <2>2. PICK u \in Threads : ToErase(maths[u], x, a)
    BY <2>1, FitBefore
  <2>3. QED
    BY <1>1, <2>2
<1>7. /\ noted'["stream"][x] # 0 => Makes("blas") \/ Makes("dnn")
      /\ noted'["mode"][x] # 0 => Makes("blas") \/ Makes("lt")
      /\ noted'["scale"][x] # 0 => Makes("lt")
  BY FitBefore DEF Attrs
<1>8. lib' \in [Values -> [Attrs -> Bit] \union {Nothing}] /\ mine' \in SUBSET Values
  BY DEF HandleSide, MathsTyped
<1>9. x \in mine' => lib'[x] # Nothing /\ UsesHandles
  BY FitBefore, HandleParts DEF HandleSide, ValueSays, HandleFits
<1>10. \A w \in Values \ {x} : /\ lib'[w] = lib[w] /\ \A a \in Attrs : noted'[a][w] = noted[a][w]
                               /\ w \in mine' <=> w \in mine
                               /\ w \in unsure' <=> w \in unsure
  OBVIOUS
<1>11. c.stage \in Holders \union {"erase", "erase desc"} => c.x = x
  BY <1>3 DEF None
<1>12. UNCHANGED <<program, tensorVars>>
  OBVIOUS
<1>13. QED
  BY <1>3, <1>4, <1>5, <1>6, <1>7, <1>8, <1>9, <1>10, <1>11, <1>12, WriteStep

(* And its two erasures: whoever was given the value again is excused.     *)
LEMMA EraseWrites ==
  ASSUME HandleSide, program \in Programs, UNCHANGED program, NEW t \in Threads, Erase(t)
  PROVE  HandleSide'
<1> DEFINE f == maths[t]
           x == f.x
<1>1. /\ f.stage = "erase" /\ Erased(f.a, x) /\ UNCHANGED <<lib, mine, tensorVars>>
      /\ unsure' = IF x \in mine /\ noted[f.a][x] # 0 THEN unsure \union {x} ELSE unsure
  BY DEF Erase, At
<1>2. f \in MathsRec /\ StageFits(f)
  BY DEF HandleSide, MathsTyped
<1>3. x \in Values /\ f.a \in {"stream", "mode"} /\ f.a \in Attrs /\ Makes("blas") /\ ~Makes("lt")
  BY <1>1, <1>2, Exclusive DEF StageFits, Attrs
<1>4. /\ noted' \in [Attrs -> [Values -> Bit]] /\ noted'[f.a][x] = 0
      /\ \A w \in Values \ {x} : \A b \in Attrs : noted'[b][w] = noted[b][w]
      /\ \A b \in Attrs \ {f.a} : noted'[b][x] = noted[b][x]
  <2>1. noted \in [Attrs -> [Values -> Bit]] /\ 0 \in Bit
    BY DEF HandleSide, MathsTyped, Bit
  <2>2. noted' = [noted EXCEPT ![f.a] = [noted[f.a] EXCEPT ![x] = 0]]
    BY <1>1 DEF Erased
  <2>3. QED
    BY <1>3, <2>1, <2>2
<1>5. CASE f.a = "stream"
  <2> DEFINE c == [f EXCEPT !.a = "mode"]
  <2>1. Moves(t, c)
    BY <1>5 DEF Erase, Moves
  <2>2. c \in MathsRec /\ c.stage = "erase" /\ c.x = x /\ c.a = "mode" /\ c.m = f.m
    BY <1>1, <1>2 DEF MathsRec, Attrs
  <2> HIDE DEF c
  <2>3. StageFits(c)
    BY <1>1, <1>2, <1>3, <2>2 DEF StageFits, Holders, Users, DescUsers
  <2>4. \A a \in Attrs : noted'[a][x] # 0 => ToErase(c, x, a)
    <3>1. ASSUME NEW a \in Attrs, noted'[a][x] # 0 PROVE a = "mode"
      <4>1. a # "stream"
        BY <1>4, <1>5, <3>1
      <4>2. a # "scale"
        BY <1>3, <1>4, <1>5, <3>1, FitBefore
      <4>3. QED
        BY <4>1, <4>2 DEF Attrs
    <3>2. QED
      BY <2>2, <3>1 DEF ToErase
  <2>5. x \in mine /\ x \notin unsure' => \A a \in Attrs : noted'[a][x] = noted[a][x]
    BY <1>1, <1>4
  <2> HIDE DEF f
  <2>6. QED
    BY <1>1, <1>3, <1>4, <2>1, <2>2, <2>3, <2>4, <2>5, LateErase DEF f
<1>6. CASE f.a = "mode"
  <2>1. Moves(t, NoMaths)
    BY <1>6, Stopped DEF Erase
  <2>2. x \notin mine => \A a \in Attrs : noted'[a][x] # 0 => ~ToErase(f, x, a)
    BY <1>4, <1>6 DEF ToErase
  <2>3. x \in mine /\ x \notin unsure' => \A a \in Attrs : noted'[a][x] = noted[a][x]
    BY <1>1, <1>4
  <2>4. NoMaths.stage # "erase"
    BY NoMathsIs DEF None
  <2> HIDE DEF f
  <2>5. QED
    BY <1>1, <1>3, <1>4, <2>1, <2>2, <2>3, <2>4, NoMathsIs, LateErase DEF f
<1>7. QED
  BY <1>3, <1>5, <1>6

(* DescNoted, of one value.                                                *)
LEMMA DescNotedIs ==
  ASSUME MathsTyped, NEW v \in Values, NEW mode \in Bit, NEW scale \in Bit, DescNoted(v, mode, scale)
  PROVE  /\ noted' \in [Attrs -> [Values -> Bit]]
         /\ noted'["mode"][v] = mode /\ noted'["scale"][v] = scale /\ noted'["stream"][v] = noted["stream"][v]
         /\ \A w \in Values \ {v} : \A a \in Attrs : noted'[a][w] = noted[a][w]
<1>1. noted' = [[noted EXCEPT !["mode"] = [noted["mode"] EXCEPT ![v] = mode]]
                EXCEPT !["scale"] = [noted["scale"] EXCEPT ![v] = scale]]
  BY DEF DescNoted, MathsTyped, Attrs
<1>2. noted \in [Attrs -> [Values -> Bit]] /\ {"mode", "scale", "stream"} = Attrs
  BY DEF MathsTyped, Attrs
<1>3. QED
  BY <1>1, <1>2

(* cublasLtMatmulDescDestroy erases what it noted.                         *)
LEMMA LtEraseWrites ==
  ASSUME HandleSide, program \in Programs, UNCHANGED program, NEW t \in Threads, LtErase(t)
  PROVE  HandleSide'
<1> DEFINE f == maths[t]
           x == f.x
<1>1. /\ f.stage = "erase desc" /\ DescNoted(x, 0, 0) /\ Moves(t, NoMaths) /\ UNCHANGED <<lib, mine, tensorVars>>
      /\ unsure' = IF x \in mine /\ (noted["mode"][x] # 0 \/ noted["scale"][x] # 0) THEN unsure \union {x} ELSE unsure
  BY Stopped DEF LtErase, At
<1>2. x \in Values /\ Makes("lt")
  BY <1>1 DEF HandleSide, StageFits
<1>3. /\ noted' \in [Attrs -> [Values -> Bit]]
      /\ noted'["mode"][x] = 0 /\ noted'["scale"][x] = 0 /\ noted'["stream"][x] = noted["stream"][x]
      /\ \A w \in Values \ {x} : \A a \in Attrs : noted'[a][w] = noted[a][w]
  BY <1>1, <1>2, DescNotedIs DEF HandleSide, Bit
<1>4. x \in mine /\ x \notin unsure' => \A a \in Attrs : noted'[a][x] = noted[a][x]
  BY <1>1, <1>3 DEF Attrs
<1>5. \A a \in Attrs : noted'[a][x] \in {noted[a][x], 0}
  BY <1>3 DEF Attrs
<1>6. NoMaths.stage # "erase"
  BY NoMathsIs DEF None
<1> HIDE DEF f
<1>7. QED
  BY <1>1, <1>2, <1>3, <1>4, <1>5, <1>6, NoMathsIs, LateErase DEF f

(* What is recorded before the call: the record is ahead, until the call.  *)
LEMMA SetFirst ==
  ASSUME HandleSide, UNCHANGED <<program, lib, mine, tensorVars, unsure>>, NEW t \in Threads, NEW v \in Values,
         NEW a \in Attrs, NEW to \in Bit, Uses(t, v), noted' = [noted EXCEPT ![a][v] = to],
         NEW s \in {"set stream", "set"}, Enters(t, s, v, a, to, "ok"),
         s = "set stream" => Makes("dnn") /\ a = "stream",
         s = "set" => Makes("lt") /\ a \in {"mode", "scale"}
  PROVE  HandleSide'
<1>1. PICK c \in MathsRec : Moves(t, c) /\ Reads(c, s, v, 0, a, to, "ok", Default)
  BY Entered DEF Holders, Users, Results
<1>2. StageFits(c)
  BY <1>1 DEF Reads, StageFits, Holders, Users, DescUsers
<1>3. /\ maths[t] = NoMaths /\ v \in mine /\ \A u \in Threads : ~OnHandle(maths[u], v)
      /\ lib[v] # Nothing
  BY UsedAlone
<1>4. maths'[t] = c
  BY <1>1, MovesTo DEF HandleSide
<1>5. /\ noted' \in [Attrs -> [Values -> Bit]] /\ noted'[a][v] = to
      /\ \A w \in Values \ {v} : \A b \in Attrs : noted'[b][w] = noted[b][w]
      /\ \A b \in Attrs \ {a} : noted'[b][v] = noted[b][v]
  <2>1. noted' = [noted EXCEPT ![a] = [noted[a] EXCEPT ![v] = to]]
    OBVIOUS
  <2>2. noted \in [Attrs -> [Values -> Bit]]
    BY DEF HandleSide, MathsTyped
  <2>3. [noted[a] EXCEPT ![v] = to] \in [Values -> Bit]
    BY <2>2
  <2>4. noted' \in [Attrs -> [Values -> Bit]] /\ noted'[a] = [noted[a] EXCEPT ![v] = to]
        /\ \A b \in Attrs \ {a} : noted'[b] = noted[b]
    BY <2>1, <2>2, <2>3
  <2>5. QED
    BY <2>2, <2>4
<1>6. v \notin unsure => \A b \in Attrs : noted[b][v] = lib[v][b]
  BY <1>3, RecordIsTrue
<1>7. v \notin unsure => \A b \in Attrs : noted'[b][v] = lib[v][b] \/ Settles(c, v, b)
  <2>1. Settles(c, v, a)
    BY <1>1 DEF Reads, Settles
  <2>2. QED
    BY <1>5, <1>6, <2>1
<1>8. v \in mine'
  BY <1>3
<1>9. FrameSettles(c, lib'[v], NotedIn(noted', v), v \in mine', v \in unsure')
  <2>1. NotedIn(noted', v)[a] = to
    BY <1>5 DEF NotedIn
  <2>2. QED
    BY <1>1, <1>8, <2>1 DEF Reads, FrameSettles, Users
<1>10. /\ noted'["stream"][v] # 0 => Makes("blas") \/ Makes("dnn")
       /\ noted'["mode"][v] # 0 => Makes("blas") \/ Makes("lt")
       /\ noted'["scale"][v] # 0 => Makes("lt")
  BY <1>5, FitBefore DEF Attrs
<1>11. \A u \in Threads \ {t} : Spared(u, v) /\ ~OnHandle(maths[u], v)
  BY <1>3 DEF Spared
<1>12. maths[t].stage \notin Holders \union {"erase", "erase desc"} /\ c.x = v
  BY <1>1, <1>3, NoMathsIs DEF Reads, None, Holders, Users
<1>13. UsesHandles
  BY DEF UsesHandles
<1>14. lib' \in [Values -> [Attrs -> Bit] \union {Nothing}] /\ mine' \in SUBSET Values
  BY DEF HandleSide, MathsTyped
<1>15. v \in mine' /\ v \notin unsure' =>
         \A b \in Attrs : noted'[b][v] = lib'[v][b] \/ \E u \in Threads : Settles(maths'[u], v, b)
  BY <1>4, <1>7
<1>16. \A w \in Values \ {v} : /\ lib'[w] = lib[w] /\ \A b \in Attrs : noted'[b][w] = noted[b][w]
                               /\ w \in mine' <=> w \in mine
                               /\ w \in unsure' <=> w \in unsure
  BY <1>5
<1>17. UNCHANGED <<program, tensorVars>> /\ lib'[v] # Nothing
  BY <1>3
<1>19. noted' \in [Attrs -> [Values -> Bit]]
  BY <1>5
<1>18. QED
  BY <1>1, <1>2, <1>8, <1>9, <1>10, <1>11, <1>12, <1>13, <1>14, <1>15, <1>16, <1>17, <1>19, WriteStep

(* A setter that records first: the call comes after, and fails or makes   *)
(* the record true.                                                        *)
LEMMA ThenSet ==
  ASSUME HandleSide, UNCHANGED <<program, noted, mine, tensorVars>>, NEW t \in Threads,
         maths[t].stage \in {"set stream", "set"}, Done(t), NEW o \in AsyncOutcomes,
         Kept(maths[t].x, maths[t].a, maths[t].to, o.ran),
         unsure' = IF o.ran THEN unsure ELSE unsure \union {maths[t].x}
  PROVE  HandleSide'
<1> DEFINE f == maths[t]
           x == f.x
<1>1. Moves(t, NoMaths)
  BY Stopped
<1>2. /\ x \in Values /\ x \in mine /\ \A u \in Threads \ {t} : ~OnHandle(maths[u], x)
      /\ lib[x] # Nothing /\ FrameSettles(f, lib[x], NotedIn(noted, x), TRUE, x \in unsure)
  BY HeldAlone DEF Users
<1>3. f \in MathsRec /\ f.a \in Attrs
  BY DEF HandleSide, MathsTyped, StageFits, Attrs
<1>4. f.to \in Bit /\ o.ran \in BOOLEAN
  BY <1>3, AsyncOutcomesAre DEF MathsRec
<1>5. /\ lib' \in [Values -> [Attrs -> Bit] \union {Nothing}] /\ \A w \in Values \ {x} : lib'[w] = lib[w]
      /\ lib'[x] # Nothing
      /\ o.ran => lib'[x][f.a] = f.to /\ \A b \in Attrs \ {f.a} : lib'[x][b] = lib[x][b]
  <2>1. MathsTyped /\ Kept(x, f.a, f.to, o.ran)
    BY DEF HandleSide
  <2> HIDE DEF f
  <2>2. x \in Values /\ f.a \in Attrs /\ f.to \in Bit /\ o.ran \in BOOLEAN /\ lib[x] # Nothing
    BY <1>2, <1>3, <1>4
  <2> HIDE DEF x
  <2>3. /\ lib' \in [Values -> [Attrs -> Bit] \union {Nothing}] /\ \A w \in Values \ {x} : lib'[w] = lib[w]
        /\ lib'[x] # Nothing /\ lib'[x] \in [Attrs -> Bit]
        /\ o.ran => lib'[x][f.a] = f.to /\ \A b \in Attrs \ {f.a} : lib'[x][b] = lib[x][b]
        /\ ~o.ran => lib'[x] = lib[x]
    BY ONLY <2>1, <2>2, KeptIs
  <2>4. QED
    BY <2>3
<1>6. x \notin unsure' => \A b \in Attrs : noted[b][x] = lib'[x][b]
  <2> SUFFICES ASSUME x \notin unsure', NEW b \in Attrs PROVE noted[b][x] = lib'[x][b]
    OBVIOUS
  <2>1. o.ran /\ x \notin unsure
    BY <1>4
  <2>2. CASE b = f.a
    <3>1. NotedIn(noted, x)[f.a] = f.to
      BY <1>2, <2>1 DEF FrameSettles
    <3>2. QED
      BY <1>3, <1>5, <2>1, <2>2, <3>1 DEF NotedIn
  <2>3. CASE b # f.a
    <3>1. \A u \in Threads : ~Settles(maths[u], x, b)
      BY <1>2, <2>3 DEF Settles, OnHandle, Holders, Users
    <3>2. QED
      BY <1>2, <1>5, <2>1, <2>3, <3>1, FitBefore
  <2>4. QED
    BY <2>2, <2>3
<1>7. NoMaths.stage \notin Holders \union {"erase", "erase desc"}
  BY NoMathsIs DEF None, Holders, Users
<1>8. \A u \in Threads \ {t} : Spared(u, x)
  BY <1>2 DEF Spared
<1>9. /\ UsesHandles
      /\ noted'["stream"][x] # 0 => Makes("blas") \/ Makes("dnn")
      /\ noted'["mode"][x] # 0 => Makes("blas") \/ Makes("lt")
      /\ noted'["scale"][x] # 0 => Makes("lt")
  BY <1>2, FitBefore
<1>10. noted' \in [Attrs -> [Values -> Bit]] /\ mine' \in SUBSET Values
  BY DEF HandleSide, MathsTyped
<1>11. \A w \in Values \ {x} : /\ lib'[w] = lib[w] /\ \A b \in Attrs : noted'[b][w] = noted[b][w]
                               /\ w \in mine' <=> w \in mine
                               /\ w \in unsure' <=> w \in unsure
  BY <1>5
<1>12. x \in mine' /\ x \notin unsure' =>
         \A b \in Attrs : noted'[b][x] = lib'[x][b] \/ \E u \in Threads : Settles(maths'[u], x, b)
  BY <1>6
<1>13. UNCHANGED <<program, tensorVars>> /\ x \in mine'
  BY <1>2
<1> HIDE DEF f
<1>14. QED
  BY <1>1, <1>2, <1>5, <1>7, <1>8, <1>9, <1>10, <1>11, <1>12, <1>13, NoMathsIs, WriteStep DEF f

(* cuDNN's handles and cuBLASLt's descriptors are set that way.            *)
LEMMA SetsWrite ==
  ASSUME HandleSide, UNCHANGED program, NEW t \in Threads, NEW v \in Values, NEW to \in Bit,
         DnnSetStream(t, v, to) \/ (\E a \in {"mode", "scale"} : LtSet(t, v, a, to)) \/ DnnStreamSet(t) \/ LtIsSet(t)
  PROVE  HandleSide'
<1>1. CASE DnnSetStream(t, v, to)
  <2>1. /\ Uses(t, v) /\ Makes("dnn") /\ noted' = [noted EXCEPT !["stream"][v] = to]
        /\ Enters(t, "set stream", v, "stream", to, "ok") /\ UNCHANGED <<lib, mine, tensorVars, unsure>>
    BY <1>1 DEF DnnSetStream
  <2>2. "stream" \in Attrs /\ "set stream" \in {"set stream", "set"}
    BY DEF Attrs
  <2>3. QED
    BY <2>1, <2>2, SetFirst
<1>2. ASSUME NEW a \in {"mode", "scale"}, LtSet(t, v, a, to) PROVE HandleSide'
  <2>1. /\ Uses(t, v) /\ Makes("lt") /\ noted' = [noted EXCEPT ![a][v] = to]
        /\ Enters(t, "set", v, a, to, "ok") /\ UNCHANGED <<lib, mine, tensorVars, unsure>>
    BY <1>2 DEF LtSet
  <2>2. a \in Attrs /\ "set" \in {"set stream", "set"}
    BY DEF Attrs
  <2>3. QED
    BY <2>1, <2>2, SetFirst
<1>3. CASE DnnStreamSet(t)
  <2>1. PICK o \in AsyncOutcomes : /\ Kept(maths[t].x, "stream", maths[t].to, o.ran)
                                   /\ unsure' = IF o.ran THEN unsure ELSE unsure \union {maths[t].x}
    BY <1>3 DEF DnnStreamSet
  <2>2. maths[t].stage = "set stream" /\ Done(t) /\ UNCHANGED <<noted, mine, tensorVars>>
    BY <1>3 DEF DnnStreamSet, At
  <2>3. maths[t].a = "stream"
    BY <2>2 DEF HandleSide, StageFits
  <2>4. QED
    BY <2>1, <2>2, <2>3, ThenSet
<1>4. CASE LtIsSet(t)
  <2>1. PICK o \in AsyncOutcomes : /\ Kept(maths[t].x, maths[t].a, maths[t].to, o.ran)
                                   /\ unsure' = IF o.ran THEN unsure ELSE unsure \union {maths[t].x}
    BY <1>4 DEF LtIsSet, AsyncOutcomes
  <2>2. maths[t].stage = "set" /\ Done(t) /\ UNCHANGED <<noted, mine, tensorVars>>
    BY <1>4 DEF LtIsSet, At
  <2>3. QED
    BY <2>1, <2>2, ThenSet
<1>5. QED
  BY <1>1, <1>2, <1>3, <1>4

(* cudnnDestroy erases its record, then calls.                             *)
LEMMA DnnDestroyWrites ==
  ASSUME HandleSide, program \in Programs, UNCHANGED program, NEW t \in Threads, NEW v \in Values, DnnDestroy(t, v)
  PROVE  HandleSide'
<1>1. Uses(t, v) /\ Makes("dnn") /\ mine' = mine \ {v} /\ Erased("stream", v) /\ UNCHANGED <<lib, tensorVars, unsure>>
  BY DEF DnnDestroy
<1>2. PICK c \in MathsRec : Moves(t, c) /\ Reads(c, "destroy", v, 0, "stream", 0, "ok", Default)
  BY Entered DEF DnnDestroy, Attrs, Bit, Results, Holders
<1>3. c.stage = "destroy" /\ c.x = v /\ StageFits(c)
  BY <1>1, <1>2 DEF Reads, StageFits, Holders, Users, DescUsers, Attrs
<1>4. /\ noted' \in [Attrs -> [Values -> Bit]] /\ noted'["stream"][v] = 0
      /\ \A w \in Values \ {v} : \A b \in Attrs : noted'[b][w] = noted[b][w]
      /\ \A b \in Attrs \ {"stream"} : noted'[b][v] = noted[b][v]
  <2>1. noted \in [Attrs -> [Values -> Bit]] /\ 0 \in Bit /\ "stream" \in Attrs
    BY DEF HandleSide, MathsTyped, Bit, Attrs
  <2>2. noted' = [noted EXCEPT !["stream"] = [noted["stream"] EXCEPT ![v] = 0]]
    BY <1>1 DEF Erased
  <2>3. QED
    BY <2>1, <2>2
<1>5. \A a \in Attrs : noted'[a][v] = 0
  <2>1. ~Makes("blas") /\ ~Makes("lt")
    BY <1>1, Exclusive
  <2>2. noted["mode"][v] = 0 /\ noted["scale"][v] = 0
    BY <2>1, FitBefore
  <2>3. QED
    BY <1>4, <2>2 DEF Attrs
<1>6. lib' \in [Values -> [Attrs -> Bit] \union {Nothing}] /\ \A w \in Values \ {v} : lib'[w] = lib[w]
  BY <1>1 DEF HandleSide, MathsTyped
<1>7. lib'[v] # Nothing
  BY <1>1, UsedAlone
<1>8. \A a \in Attrs : noted'[a][v] \in {noted[a][v], 0}
  BY <1>5
<1>9. UNCHANGED <<program, tensorVars, unsure>>
  BY <1>1
<1>10. QED
  BY <1>1, <1>2, <1>3, <1>4, <1>5, <1>6, <1>7, <1>8, <1>9, LetGo

(* And the call.                                                           *)
LEMMA DnnDestroyedWrites ==
  ASSUME HandleSide, UNCHANGED program, NEW t \in Threads, DnnDestroyed(t)
  PROVE  HandleSide'
<1> DEFINE f == maths[t]
           x == f.x
<1>1. f.stage = "destroy" /\ Moves(t, NoMaths) /\ UNCHANGED <<noted, mine, tensorVars, unsure>>
  BY Stopped DEF DnnDestroyed, At
<1>2. x \in Values /\ OnHandle(f, x)
  BY <1>1 DEF HandleSide, StageFits, OnHandle, Holders
<1>3. PICK o \in Outcomes : Freed(x, o.ran)
  BY DEF DnnDestroyed
<1>4. lib' \in [Values -> [Attrs -> Bit] \union {Nothing}] /\ \A w \in Values \ {x} : lib'[w] = lib[w]
  BY <1>2, <1>3, FreedIs DEF HandleSide
<1>5. \A u \in Threads \ {t} : ~OnHandle(maths[u], x)
  BY <1>2, OneCallToAHandle DEF HandleSide
<1>6. x \notin mine
  <2>1. FrameSettles(f, lib[x], NotedIn(noted, x), x \in mine, x \in unsure)
    BY <1>2, HandleParts DEF HandleSide, FrameSays, OnHandle
  <2>2. QED
    BY <1>1, <2>1 DEF FrameSettles
<1>7. /\ noted' \in [Attrs -> [Values -> Bit]] /\ mine' \in SUBSET Values
      /\ \A w \in Values \ {x} : /\ lib'[w] = lib[w] /\ \A b \in Attrs : noted'[b][w] = noted[b][w]
                                 /\ w \in mine' <=> w \in mine
                                 /\ w \in unsure' <=> w \in unsure
  BY <1>1, <1>4 DEF HandleSide, MathsTyped
<1>8. x \notin mine' /\ ~Makes("lt") =>
        \A a \in Attrs : noted'[a][x] # 0 => \E u \in Threads : ToErase(maths'[u], x, a)
  <2> SUFFICES ASSUME ~Makes("lt"), NEW a \in Attrs, noted[a][x] # 0
               PROVE  \E u \in Threads : ToErase(maths'[u], x, a)
    BY <1>1
  <2>1. PICK u \in Threads : ToErase(maths[u], x, a)
    BY <1>2, <1>6, FitBefore
  <2>2. u # t
    BY <1>1, <2>1 DEF ToErase
  <2>3. maths'[u] = maths[u]
    BY <1>1, <2>2, MovesTo DEF HandleSide
  <2>4. QED
    BY <2>1, <2>3
<1>9. /\ noted'["stream"][x] # 0 => Makes("blas") \/ Makes("dnn")
      /\ noted'["mode"][x] # 0 => Makes("blas") \/ Makes("lt")
      /\ noted'["scale"][x] # 0 => Makes("lt")
  BY <1>1, <1>2, FitBefore
<1>10. NoMaths.stage \notin Holders \union {"erase", "erase desc"}
  BY NoMathsIs DEF None, Holders, Users
<1>11. \A u \in Threads \ {t} : Spared(u, x)
  BY <1>5 DEF Spared
<1>12. x \notin mine' /\ UNCHANGED <<program, tensorVars>>
  BY <1>1, <1>6
<1> HIDE DEF f
<1>13. QED
  BY <1>1, <1>2, <1>4, <1>7, <1>8, <1>9, <1>10, <1>11, <1>12, NoMathsIs, WriteStep DEF f

(* cuBLASLt's descriptors.                                                 *)
LEMMA LtCreateWrites ==
  ASSUME HandleSide, UNCHANGED program, NEW t \in Threads, NEW to \in Bit, LtCreate(t, to)
  PROVE  HandleSide'
<1> DEFINE made == [Default EXCEPT !["scale"] = to]
<1>1. PICK v \in Values, o \in Outcomes :
        /\ lib[v] = Nothing /\ lib' = [lib EXCEPT ![v] = made] /\ unsure' = unsure \ {v}
        /\ IF o.r = "ok" THEN Enters(t, "created", v, "scale", to, "ok") ELSE UNCHANGED maths
  BY DEF LtCreate
<1>2. Quiet(t) /\ Makes("lt") /\ UNCHANGED <<noted, mine, tensorVars>>
  BY DEF LtCreate
<1>3. maths[t] = NoMaths
  BY <1>2 DEF Quiet
<1>4. PICK c \in MathsRec :
        /\ Moves(t, c) /\ StageFits(c) /\ c.stage \in {"created", None}
        /\ c.stage = "created" => c.x = v /\ c.to = to
  <2>1. CASE o.r = "ok"
    <3>1. PICK c \in MathsRec : Moves(t, c) /\ Reads(c, "created", v, 0, "scale", to, "ok", Default)
      BY <1>1, <2>1, Entered DEF Attrs, Results, Holders
    <3>2. StageFits(c)
      BY <1>2, <3>1 DEF Reads, StageFits, Holders, Users, DescUsers, Attrs
    <3>3. QED
      BY <3>1, <3>2 DEF Reads
  <2>2. CASE o.r # "ok"
    <3>1. Moves(t, NoMaths)
      BY <1>1, <1>3, <2>2 DEF Moves, HandleSide, MathsTyped
    <3>2. QED
      BY <3>1, NoMathsIs DEF None
  <2>3. QED
    BY <2>1, <2>2
<1>5. v \notin mine /\ \A u \in Threads : ~OnHandle(maths[u], v)
  BY <1>1, NotGivenOut
<1>6. made \in [Attrs -> Bit] /\ made # Nothing
  <2>1. made \in [Attrs -> Bit]
    BY DEF Default, Bit
  <2> HIDE DEF made
  <2>2. QED
    BY <2>1, BitsAreSomething
<1>7. lib' \in [Values -> [Attrs -> Bit] \union {Nothing}] /\ lib'[v] = made /\ \A w \in Values \ {v} : lib'[w] = lib[w]
  BY <1>1, <1>6 DEF HandleSide, MathsTyped
<1>8. c.stage \in Holders => FrameSettles(c, lib'[v], NotedIn(noted', v), v \in mine', v \in unsure')
  <2> SUFFICES ASSUME c.stage = "created"
               PROVE  FrameSettles(c, lib'[v], NotedIn(noted', v), v \in mine', v \in unsure')
    BY <1>4 DEF None, Holders, Users
  <2>1. v \notin mine'
    BY <1>2, <1>5
  <2>2. lib'[v] = [Default EXCEPT !["scale"] = c.to] /\ lib'[v] # Nothing
    BY <1>4, <1>6, <1>7
  <2>3. QED
    BY <2>1, <2>2 DEF FrameSettles, Users
<1>9. \A u \in Threads \ {t} : Spared(u, v) /\ ~OnHandle(maths[u], v)
  BY <1>5 DEF Spared
<1>10. /\ noted'["stream"][v] # 0 => Makes("blas") \/ Makes("dnn")
       /\ noted'["mode"][v] # 0 => Makes("blas") \/ Makes("lt")
       /\ noted'["scale"][v] # 0 => Makes("lt")
  BY <1>2, FitBefore
<1>11. maths[t].stage \notin Holders \union {"erase", "erase desc"}
  BY <1>3, NoMathsIs DEF None, Holders, Users
<1>12. c.stage \in Holders \union {"erase", "erase desc"} => c.x = v
  BY <1>4 DEF None, Holders, Users
<1>13. /\ noted' \in [Attrs -> [Values -> Bit]] /\ mine' \in SUBSET Values
       /\ \A w \in Values \ {v} : /\ lib'[w] = lib[w] /\ \A b \in Attrs : noted'[b][w] = noted[b][w]
                                  /\ w \in mine' <=> w \in mine
                                  /\ w \in unsure' <=> w \in unsure
  BY <1>1, <1>2, <1>7 DEF HandleSide, MathsTyped
<1>14. v \notin mine' /\ UNCHANGED <<program, tensorVars>>
  BY <1>2, <1>5
<1> HIDE DEF made
<1>15. QED
  BY <1>2, <1>4, <1>7, <1>8, <1>9, <1>10, <1>11, <1>12, <1>13, <1>14, WriteStep

(* cublasLtMatmulDescCreate notes the descriptor it was given.             *)
LEMMA LtCreatedWrites ==
  ASSUME HandleSide, program \in Programs, UNCHANGED program, NEW t \in Threads, LtCreated(t)
  PROVE  HandleSide'
<1> DEFINE f == maths[t]
           x == f.x
<1>1. /\ f.stage = "created" /\ Moves(t, NoMaths) /\ DescNoted(x, 0, f.to) /\ mine' = mine \union {x}
      /\ UNCHANGED <<lib, tensorVars, unsure>>
  BY Stopped DEF LtCreated, At
<1>2. x \in Values /\ OnHandle(f, x) /\ Makes("lt") /\ f.to \in Bit
  BY <1>1 DEF HandleSide, MathsTyped, MathsRec, StageFits, OnHandle, Holders
<1>3. \A u \in Threads \ {t} : ~OnHandle(maths[u], x)
  BY <1>2, OneCallToAHandle DEF HandleSide
<1>4. lib[x] # Nothing /\ lib[x] = [Default EXCEPT !["scale"] = f.to]
  <2>1. FrameSettles(f, lib[x], NotedIn(noted, x), x \in mine, x \in unsure)
    BY <1>2, HandleParts DEF HandleSide, FrameSays, OnHandle
  <2>2. QED
    BY <1>1, <2>1 DEF FrameSettles
<1>5. /\ noted' \in [Attrs -> [Values -> Bit]]
      /\ noted'["mode"][x] = 0 /\ noted'["scale"][x] = f.to /\ noted'["stream"][x] = noted["stream"][x]
      /\ \A w \in Values \ {x} : \A a \in Attrs : noted'[a][w] = noted[a][w]
  BY <1>1, <1>2, DescNotedIs DEF HandleSide, Bit
<1>6. noted["stream"][x] = 0
  <2>1. ~Makes("blas") /\ ~Makes("dnn")
    BY <1>2, Exclusive
  <2>2. QED
    BY <1>2, <2>1, FitBefore
<1>7. \A a \in Attrs : noted'[a][x] = lib'[x][a]
  <2>1. lib[x]["stream"] = 0 /\ lib[x]["mode"] = 0 /\ lib[x]["scale"] = f.to
    BY <1>4 DEF Default, Attrs
  <2>2. QED
    BY <1>1, <1>5, <1>6, <2>1 DEF Attrs
<1>8. /\ lib' \in [Values -> [Attrs -> Bit] \union {Nothing}] /\ mine' \in SUBSET Values /\ x \in mine' /\ lib'[x] # Nothing
      /\ \A w \in Values \ {x} : /\ lib'[w] = lib[w] /\ \A b \in Attrs : noted'[b][w] = noted[b][w]
                                 /\ w \in mine' <=> w \in mine
                                 /\ w \in unsure' <=> w \in unsure
  BY <1>1, <1>2, <1>4, <1>5 DEF HandleSide, MathsTyped
<1>9. /\ noted'["stream"][x] # 0 => Makes("blas") \/ Makes("dnn")
      /\ noted'["mode"][x] # 0 => Makes("blas") \/ Makes("lt")
      /\ noted'["scale"][x] # 0 => Makes("lt")
  BY <1>2, <1>5, <1>6
<1>10. NoMaths.stage \notin Holders \union {"erase", "erase desc"}
  BY NoMathsIs DEF None, Holders, Users
<1>11. \A u \in Threads \ {t} : Spared(u, x)
  BY <1>3 DEF Spared
<1>12. UsesHandles /\ UNCHANGED <<program, tensorVars>>
  BY <1>1, <1>2 DEF UsesHandles
<1> HIDE DEF f
<1>13. QED
  BY <1>1, <1>2, <1>5, <1>7, <1>8, <1>9, <1>10, <1>11, <1>12, NoMathsIs, WriteStep DEF f

(* cublasLtMatmulDescDestroy, as far as the call.                          *)
LEMMA LtDestroyWrites ==
  ASSUME HandleSide, UNCHANGED program, NEW t \in Threads, NEW v \in Values, LtDestroy(t, v)
  PROVE  HandleSide'
<1>1. Uses(t, v) /\ Makes("lt") /\ mine' = mine \ {v} /\ UNCHANGED <<noted, tensorVars, unsure>>
  BY DEF LtDestroy
<1>2. PICK o \in Outcomes : Freed(v, o.ran)
  BY DEF LtDestroy
<1>3. PICK c \in MathsRec : Moves(t, c) /\ Reads(c, "erase desc", v, 0, "scale", 0, "ok", Default)
  BY Entered DEF LtDestroy, Attrs, Bit, Results
<1>4. c.stage = "erase desc" /\ c.x = v /\ StageFits(c)
  BY <1>1, <1>3 DEF Reads, StageFits, Holders, Users, DescUsers, Attrs
<1>5. lib' \in [Values -> [Attrs -> Bit] \union {Nothing}] /\ \A w \in Values \ {v} : lib'[w] = lib[w]
  BY <1>2, FreedIs DEF HandleSide
<1>6. noted' \in [Attrs -> [Values -> Bit]]
      /\ \A a \in Attrs : noted'[a][v] \in {noted[a][v], 0} /\ \A w \in Values : noted'[a][w] = noted[a][w]
  BY <1>1 DEF HandleSide, MathsTyped
<1>7. UNCHANGED <<program, tensorVars, unsure>>
  BY <1>1
<1>8. QED
  BY <1>1, <1>3, <1>4, <1>5, <1>6, <1>7, LetGo

-----------------------------------------------------------------------------
(* Descriptors: what is remembered of them does not meet what is of        *)
(* handles, since a program uses one library.                              *)
LEMMA NoHolders ==
  ASSUME NEW c, StageFits(c), ~UsesHandles
  PROVE  c.stage \notin Holders \union {"erase", "erase desc"}
  BY DEF StageFits, UsesHandles, Holders, Users
(* A program of handles has no call about a minted descriptor.             *)
LEMMA NoDescUsers ==
  ASSUME program \in Programs, NEW c, StageFits(c), UsesHandles
  PROVE  c.stage \notin DescUsers \union {"forget"}
  BY Exclusive DEF StageFits, DescUsers

(* What is said of handles says nothing of the programs that have none.    *)
LEMMA HandlesElse ==
  ASSUME HandlesInv, UNCHANGED <<program, noted, mine>>, ~UsesHandles, (\A u \in Threads : StageFits(maths[u]))'
  PROVE  HandlesInv'
<1>1. \A b : Makes(b)' <=> Makes(b)
  BY DEF Makes
<1>2. \A u \in Threads : maths'[u].stage \notin Holders \union {"erase", "erase desc"}
  <2>1. ~UsesHandles'
    BY <1>1 DEF UsesHandles
  <2>2. \A u \in Threads : StageFits(maths'[u])
    BY <1>1 DEF StageFits
  <2>3. QED
    BY <2>2, NoHolders
<1>3. mine = {} /\ mine' = {}
  BY HandleParts
<1>4. ASSUME NEW v \in Values PROVE ValueSays(v, maths', lib', noted', mine', unsure')
  <2>1. HandleFits(v, lib[v], NotedIn(noted, v), v \in mine, v \in unsure, maths)
    BY HandleParts DEF ValueSays
  <2>2. \A a \in Attrs : NotedIn(noted, v)[a] = 0
    BY <2>1 DEF HandleFits, UsesHandles, Attrs
  <2>3. \A u \in Threads : ~OnHandle(maths'[u], v)
    BY <1>2 DEF OnHandle
  <2>4. NotedIn(noted', v) = NotedIn(noted, v) /\ v \notin mine'
    BY <1>3
  <2>5. \A a \in Attrs : NotedIn(noted', v)[a] = 0
    BY <2>2, <2>4
  <2>6. {"stream", "mode", "scale"} = Attrs
    BY DEF Attrs
  <2> HIDE DEF NotedIn
  <2>7. QED
    BY <2>3, <2>4, <2>5, <2>6 DEF ValueSays, HandleFits
<1>5. \A u \in Threads : FrameSays(u, maths', lib', noted', mine', unsure')
  BY <1>2 DEF FrameSays
<1>6. QED
  BY <1>3, <1>4, <1>5, HandleParts

(* What is said of minted descriptors is not disturbed by calls on         *)
(* handles.                                                                *)
LEMMA MintsElse ==
  ASSUME program \in Programs, BackendTyped, MintsInv, UsesHandles, UNCHANGED <<program, tensorVars, backendVars>>,
         (\A u \in Threads : StageFits(maths[u]))'
  PROVE  BackendTyped' /\ MintsInv' /\ WidthsInv' /\ BuiltInv'
<1>1. \A b : Makes(b)' <=> Makes(b)
  BY DEF Makes
<1>2. \A u \in Threads : maths'[u].stage \notin DescUsers \union {"forget"}
  <2>1. \A u \in Threads : StageFits(maths'[u])
    BY <1>1 DEF StageFits
  <2>2. QED
    BY <2>1, NoDescUsers
<1>3. ~Makes("tensor") /\ ~Makes("backend")
  BY Exclusive
<1>4. descs = {} /\ \A m \in Minted : ~Resolves(m)
  BY <1>3 DEF MintsInv
<1>5. UNCHANGED <<next_handle, t_handles, types, descs>>
  BY DEF tensorVars
<1>6. MintsInv'
  <2>1. descs' = {} /\ \A m \in Minted : ~Resolves(m)'
    BY <1>4, <1>5 DEF Resolves
  <2>2. \A m \in Minted : m >= next_handle' => types'[m] = 0
    BY <1>5 DEF MintsInv
  <2>3. QED
    BY <1>2, <2>1, <2>2 DEF MintsInv
<1>7. WidthsInv' /\ BuiltInv'
  BY <1>1, <1>3 DEF WidthsInv, BuiltInv
<1>8. BackendTyped'
  BY DEF BackendTyped, backendVars, Plain
<1>9. QED
  BY <1>6, <1>7, <1>8

(* A thread's call about a descriptor begins, or ends.                     *)
LEMMA MintsMove ==
  ASSUME MathsTyped, MintsInv, UNCHANGED <<program, next_handle, t_handles, descs>>, NEW t \in Threads,
         NEW c \in MathsRec, Moves(t, c),
         \A v \in Values : lib[v] # Nothing => lib'[v] # Nothing,
         \A m \in Minted : m >= next_handle => types'[m] = 0,
         c.stage \in DescUsers => c.m \in descs /\ \A u \in Threads \ {t} : maths[u].m # c.m,
         c.stage # "forget"
  PROVE  MintsInv'
<1>1. maths'[t] = c /\ \A u \in Threads \ {t} : maths'[u] = maths[u]
  BY MovesTo
<1>2. \A m \in Minted : Resolves(m)' <=> Resolves(m)
  BY DEF Resolves
<1>3. \A m \in Minted : Resolves(m) => t_handles[m] \in Values
  BY DEF MathsTyped, Resolves
<1>4. \A m \in Minted : Resolves(m)' => lib'[t_handles'[m]] # Nothing
  BY <1>2, <1>3 DEF MintsInv
<1>5. \A m, n \in Minted : Resolves(m)' /\ t_handles'[m] = t_handles'[n] => m = n
  BY <1>2 DEF MintsInv
<1>6. \A m \in Minted : m >= next_handle' => ~Resolves(m)' /\ m \notin descs' /\ types'[m] = 0
  BY <1>2 DEF MintsInv
<1>7. \A u \in Threads : maths'[u].stage \in DescUsers => maths'[u].m \in descs'
  BY <1>1 DEF MintsInv
<1>8. \A u, w \in Threads :
        maths'[u].stage \in DescUsers /\ maths'[w].stage \in DescUsers /\ maths'[u].m = maths'[w].m => u = w
  BY <1>1 DEF MintsInv
<1>9. \A u \in Threads : maths'[u].stage = "forget" => maths'[u].m < next_handle' /\ maths'[u].m \notin descs'
  BY <1>1 DEF MintsInv
<1>10. \A b : Makes(b)' <=> Makes(b)
  BY DEF Makes
<1>11. (descs' # {} => Makes("tensor")' \/ Makes("backend")')
       /\ \A m \in Minted : Resolves(m)' => Makes("tensor")' \/ Makes("backend")'
  BY <1>2, <1>10 DEF MintsInv
<1>12. QED
  BY <1>4, <1>5, <1>6, <1>7, <1>8, <1>9, <1>11 DEF MintsInv

(* A descriptor is made, or not, and not told.                             *)
LEMMA MintIs ==
  ASSUME MathsTyped, MintsInv, NEW o, o.ran \in BOOLEAN, Mints(o)
  PROVE  /\ next_handle \in Minted /\ next_handle' = next_handle + 1
         /\ descs' \in SUBSET Minted /\ descs' \in {descs, descs \union {next_handle}}
         /\ next_handle \notin descs /\ ~Resolves(next_handle)
         /\ \A m \in Minted \ {next_handle} : t_handles'[m] = t_handles[m]
         /\ t_handles' \in [Minted -> Values \union {None}]
         /\ \/ lib' = lib /\ t_handles' = t_handles
            \/ \E v \in Values : /\ lib[v] = Nothing /\ lib' = [lib EXCEPT ![v] = Default]
                                 /\ t_handles'[next_handle] = v
<1>1. MaxMint \in Nat /\ next_handle \in Nat \ {0} /\ next_handle <= MaxMint
  BY MathsAssumption DEF MathsTyped, Mints
<1>2. next_handle \in Minted
  BY <1>1 DEF Minted
<1>3. next_handle \notin descs /\ ~Resolves(next_handle)
  BY <1>1, <1>2 DEF MintsInv
<1>4. descs' \in SUBSET Minted /\ descs' \in {descs, descs \union {next_handle}}
  BY <1>2 DEF Mints, MathsTyped
<1>5. CASE o.ran
  <2>1. PICK v \in Values : /\ lib[v] = Nothing /\ Made(v)
                            /\ t_handles' = [t_handles EXCEPT ![next_handle] = v]
    BY <1>5 DEF Mints
  <2>2. QED
    BY <1>2, <1>3, <1>4, <2>1 DEF Mints, Made, MathsTyped
<1>6. CASE ~o.ran
  BY <1>2, <1>3, <1>4, <1>6 DEF Mints, MathsTyped
<1>7. QED
  BY <1>5, <1>6

(* A descriptor is minted under a handle never used, and as an object that *)
(* was nobody's; the others are what they were.                            *)
LEMMA MintsMade ==
  ASSUME MathsTyped, MintsInv, UNCHANGED <<program, noted, maths, mine, types>>, Makes("tensor") \/ Makes("backend"),
         NEW o, o.ran \in BOOLEAN, Mints(o)
  PROVE  /\ MathsTyped' /\ MintsInv'
         /\ \A m \in Minted \ {next_handle} :
              t_handles'[m] = t_handles[m] /\ (Resolves(m) => lib'[t_handles[m]] = lib[t_handles[m]])
         /\ t_handles'[next_handle] # None => lib'[t_handles'[next_handle]] = Default
<1> DEFINE k == next_handle
<1>1. /\ k \in Minted /\ next_handle' = k + 1
      /\ descs' \in SUBSET Minted /\ descs' \in {descs, descs \union {k}}
      /\ k \notin descs /\ ~Resolves(k)
      /\ \A m \in Minted \ {k} : t_handles'[m] = t_handles[m]
      /\ t_handles' \in [Minted -> Values \union {None}]
      /\ \/ lib' = lib /\ t_handles' = t_handles
         \/ \E v \in Values : /\ lib[v] = Nothing /\ lib' = [lib EXCEPT ![v] = Default]
                              /\ t_handles'[k] = v
  BY MintIs
<1>2. Default \in [Attrs -> Bit] /\ Default # Nothing
  <2>1. Default \in [Attrs -> Bit]
    BY DEF Default, Bit
  <2>2. QED
    BY <2>1, BitsAreSomething
<1>3. lib' \in [Values -> [Attrs -> Bit] \union {Nothing}]
  BY <1>1, <1>2 DEF MathsTyped
<1>4. MathsTyped'
  <2>1. next_handle' \in Nat \ {0} /\ next_handle' <= MaxMint + 1
    BY MathsAssumption DEF MathsTyped, Mints
  <2>2. QED
    BY <1>1, <1>3, <2>1 DEF MathsTyped
<1>5. \A m \in Minted : Resolves(m) => t_handles[m] \in Values /\ lib[t_handles[m]] # Nothing
  BY DEF MathsTyped, Resolves, MintsInv
<1>6. \A m \in Minted \ {k} : Resolves(m) => lib'[t_handles[m]] = lib[t_handles[m]]
  BY <1>1, <1>5 DEF MathsTyped
<1>7. t_handles'[k] # None => /\ lib'[t_handles'[k]] = Default
                      /\ \A m \in Minted \ {k} : t_handles[m] # t_handles'[k]
  <2> SUFFICES ASSUME t_handles'[k] # None
               PROVE  lib'[t_handles'[k]] = Default /\ \A m \in Minted \ {k} : t_handles[m] # t_handles'[k]
    OBVIOUS
  <2>1. PICK v \in Values : /\ lib[v] = Nothing /\ lib' = [lib EXCEPT ![v] = Default]
                            /\ t_handles'[k] = v
    BY <1>1 DEF Resolves
  <2>2. lib'[v] = Default
    BY <1>2, <2>1 DEF MathsTyped
  <2>3. \A m \in Minted : t_handles[m] # v
    BY <1>5, <2>1, MathsAssumption DEF Resolves
  <2>4. QED
    BY <2>1, <2>2, <2>3
<1>8. \A m \in Minted : m # k => (Resolves(m)' <=> Resolves(m))
  BY <1>1 DEF Resolves
<1>9. \A m \in Minted : Resolves(m)' => lib'[t_handles'[m]] # Nothing
  <2> SUFFICES ASSUME NEW m \in Minted, t_handles'[m] # None PROVE lib'[t_handles'[m]] # Nothing
    BY DEF Resolves
  <2>1. CASE m = k
    BY <1>2, <1>7, <2>1
  <2>2. CASE m # k
    <3>1. t_handles'[m] = t_handles[m] /\ Resolves(m)
      BY <1>1, <2>2 DEF Resolves
    <3>2. QED
      BY <1>5, <1>6, <2>2, <3>1
  <2>3. QED
    BY <2>1, <2>2
<1>10. \A m, n \in Minted : Resolves(m)' /\ t_handles'[m] = t_handles'[n] => m = n
  <2> SUFFICES ASSUME NEW m \in Minted, NEW n \in Minted, Resolves(m)', t_handles'[m] = t_handles'[n], m # n
               PROVE  FALSE
    OBVIOUS
  <2>1. t_handles'[m] # None /\ t_handles'[n] # None
    BY DEF Resolves
  <2>2. CASE m = k
    BY <1>1, <1>7, <2>1, <2>2
  <2>3. CASE n = k
    BY <1>1, <1>7, <2>1, <2>3
  <2>4. CASE m # k /\ n # k
    BY <1>1, <1>8, <2>4 DEF MintsInv
  <2>5. QED
    BY <2>2, <2>3, <2>4
<1>11. \A m \in Minted : m >= next_handle' => ~Resolves(m)' /\ m \notin descs' /\ types'[m] = 0
  <2> SUFFICES ASSUME NEW m \in Minted, m >= next_handle' PROVE ~Resolves(m)' /\ m \notin descs' /\ types'[m] = 0
    OBVIOUS
  <2>1. m > k /\ m # k
    BY <1>1 DEF Minted
  <2>2. m >= k
    BY <1>1, <2>1 DEF Minted
  <2>3. ~Resolves(m) /\ m \notin descs /\ types[m] = 0
    BY <2>2 DEF MintsInv
  <2>4. QED
    BY <1>1, <1>8, <2>1, <2>3
<1>12. \A u \in Threads : maths'[u].stage \in DescUsers => maths'[u].m \in descs'
  BY <1>1 DEF MintsInv
<1>13. \A u, w \in Threads :
         maths'[u].stage \in DescUsers /\ maths'[w].stage \in DescUsers /\ maths'[u].m = maths'[w].m => u = w
  BY DEF MintsInv
<1>14. \A u \in Threads : maths'[u].stage = "forget" => maths'[u].m < next_handle' /\ maths'[u].m \notin descs'
  <2> SUFFICES ASSUME NEW u \in Threads, maths[u].stage = "forget"
               PROVE  maths[u].m < next_handle' /\ maths[u].m \notin descs'
    OBVIOUS
  <2>1. maths[u].m < k /\ maths[u].m \notin descs
    BY DEF MintsInv
  <2>2. maths[u].m \in Nat
    <3>1. maths[u] \in MathsRec
      BY DEF MathsTyped
    <3>2. maths[u].m \in Minted \union {0}
      BY <3>1 DEF MathsRec
    <3>3. QED
      BY <3>2 DEF Minted
  <2>3. QED
    BY <1>1, <2>1, <2>2 DEF Minted
<1>15. Makes("tensor")' \/ Makes("backend")'
  BY DEF Makes
<1> HIDE DEF k
<1>16. MintsInv'
  BY <1>9, <1>10, <1>11, <1>12, <1>13, <1>14, <1>15 DEF MintsInv
<1>17. QED
  BY <1>1, <1>4, <1>6, <1>7, <1>16 DEF k

(* A descriptor is let go of: its entry goes, or stays with its object.    *)
LEMMA MintsUnmade ==
  ASSUME MathsTyped, MintsInv, UNCHANGED <<program, noted, mine, next_handle, types>>,
         \A u \in Threads : StageFits(maths[u]),
         NEW t \in Threads, NEW m \in Minted, UsesDesc(t, m), NEW c \in MathsRec, Moves(t, c), StageFits(c),
         c.stage \in {None, "forget"}, c.stage = "forget" => c.m = m,
         NEW runs, NEW destroyed, Unmints(m, runs, destroyed)
  PROVE  /\ MathsTyped' /\ MintsInv' /\ descs' = descs \ {m} /\ (\A u \in Threads : StageFits(maths[u]))'
         /\ \A n \in Minted \ {m} :
              t_handles'[n] = t_handles[n] /\ (Resolves(n) => lib'[t_handles[n]] = lib[t_handles[n]])
<1>1. maths'[t] = c /\ \A u \in Threads \ {t} : maths'[u] = maths[u]
  BY MovesTo
<1>2. maths' \in [Threads -> MathsRec] /\ (\A u \in Threads : StageFits(maths[u]))'
  BY MovesTyped
<1>3. m \in descs /\ \A u \in Threads : maths[u].m # m
  BY DEF UsesDesc
<1>4. descs' = descs \ {m}
  BY DEF Unmints
<1>5. \A n \in Minted : Resolves(n) => t_handles[n] \in Values /\ lib[t_handles[n]] # Nothing
  BY DEF MathsTyped, Resolves, MintsInv
<1>6. \/ lib' = lib /\ t_handles' = t_handles
      \/ /\ Resolves(m) /\ t_handles' = [t_handles EXCEPT ![m] = None]
         /\ lib' = lib \/ lib' = [lib EXCEPT ![t_handles[m]] = Nothing]
  BY DEF Unmints, Unmapped, Freed
<1>7. lib' \in [Values -> [Attrs -> Bit] \union {Nothing}] /\ t_handles' \in [Minted -> Values \union {None}]
  BY <1>5, <1>6 DEF MathsTyped
<1>8. MathsTyped'
  BY <1>2, <1>4, <1>7 DEF MathsTyped
<1>9. \A n \in Minted \ {m} : t_handles'[n] = t_handles[n] /\ (Resolves(n)' <=> Resolves(n))
  BY <1>6 DEF MathsTyped, Resolves
<1>10. ASSUME NEW n \in Minted \ {m}, Resolves(n) PROVE lib'[t_handles[n]] = lib[t_handles[n]]
  <2>1. Resolves(m) => t_handles[n] # t_handles[m]
    BY <1>10 DEF MintsInv
  <2>2. QED
    BY <1>5, <1>6, <1>10, <2>1 DEF MathsTyped
<1>11. Resolves(m)' => lib' = lib /\ t_handles' = t_handles
  <2>1. t_handles' = [t_handles EXCEPT ![m] = None] => ~Resolves(m)'
    BY DEF MathsTyped, Resolves
  <2>2. QED
    BY <1>6, <2>1
<1>12. \A n \in Minted : Resolves(n)' => lib'[t_handles'[n]] # Nothing /\ Resolves(n) /\ t_handles'[n] = t_handles[n]
  BY <1>5, <1>9, <1>10, <1>11 DEF Resolves
<1>13. \A n, p \in Minted : Resolves(n)' /\ t_handles'[n] = t_handles'[p] => n = p
  <2> SUFFICES ASSUME NEW n \in Minted, NEW p \in Minted, Resolves(n)', t_handles'[n] = t_handles'[p] PROVE n = p
    OBVIOUS
  <2>1. Resolves(p)'
    BY DEF Resolves
  <2>2. QED
    BY <1>12, <2>1 DEF MintsInv
<1>14. \A n \in Minted : n >= next_handle' => ~Resolves(n)' /\ n \notin descs' /\ types'[n] = 0
  BY <1>4, <1>12 DEF MintsInv
<1>15. \A u \in Threads : maths'[u].stage \in DescUsers => maths'[u].m \in descs'
  BY <1>1, <1>3, <1>4 DEF MintsInv, DescUsers, None
<1>16. \A u, w \in Threads :
         maths'[u].stage \in DescUsers /\ maths'[w].stage \in DescUsers /\ maths'[u].m = maths'[w].m => u = w
  BY <1>1 DEF MintsInv, DescUsers, None
<1>17. m < next_handle
  <2>1. ~(m >= next_handle)
    BY <1>3 DEF MintsInv
  <2>2. QED
    BY <2>1 DEF Minted, MathsTyped
<1>18. \A u \in Threads : maths'[u].stage = "forget" => maths'[u].m < next_handle' /\ maths'[u].m \notin descs'
  BY <1>1, <1>4, <1>17 DEF MintsInv
<1>19. \A b : Makes(b)' <=> Makes(b)
  BY DEF Makes
<1>20. (descs' # {} => Makes("tensor")' \/ Makes("backend")')
       /\ \A n \in Minted : Resolves(n)' => Makes("tensor")' \/ Makes("backend")'
  BY <1>4, <1>12, <1>19 DEF MintsInv
<1>21. MintsInv'
  BY <1>12, <1>13, <1>14, <1>15, <1>16, <1>18, <1>20 DEF MintsInv
<1>22. QED
  BY <1>2, <1>4, <1>8, <1>9, <1>10, <1>21

(* A step of one thread, about one tensor's descriptor.                    *)
Wide == {"remember", "normalize"}
TensorSide == MathsTyped /\ (\A t \in Threads : StageFits(maths[t])) /\ MintsInv /\ WidthsInv
(* A step about one minted descriptor: it is enough to show of it that its *)
(* width is on record, or about to be.                                     *)
LEMMA WidthStep ==
  ASSUME MathsTyped, WidthsInv, UNCHANGED program, Makes("tensor"), NEW t \in Threads, NEW c \in MathsRec, Moves(t, c),
         NEW x \in Minted,
         \A m \in Minted \ {x} : /\ t_handles'[m] = t_handles[m] /\ types'[m] = types[m]
                                 /\ Resolves(m) => lib'[t_handles[m]] = lib[t_handles[m]]
                                 /\ m \in descs' => m \in descs
                                 /\ m \in unsure' <=> m \in unsure,
         maths[t].stage \in Wide => maths[t].m = x, c.stage \in Wide => c.m = x,
         \A u \in Threads \ {t} : maths[u].stage \in Wide => maths[u].m # x,
         x \in descs' /\ x \notin unsure' /\ t_handles'[x] # None =>
           types'[x] = lib'[t_handles'[x]]["scale"] \/ (c.stage = "remember" /\ c.r = "ok"),
         x \notin unsure' /\ t_handles'[x] # None =>
           /\ c.stage = "remember" /\ c.r = "ok" => c.to = lib'[t_handles'[x]]["scale"]
           /\ c.stage = "normalize" => c.got["scale"] = lib'[t_handles'[x]]["scale"],
         MathsTyped'
  PROVE  WidthsInv'
<1>1. maths'[t] = c /\ \A u \in Threads \ {t} : maths'[u] = maths[u]
  BY MovesTo
<1>2. ASSUME NEW m \in descs' \ unsure', t_handles'[m] # None
      PROVE  \/ types'[m] = lib'[t_handles'[m]]["scale"]
             \/ \E u \in Threads : maths'[u].stage = "remember" /\ maths'[u].m = m /\ maths'[u].r = "ok"
  <2>1. m \in Minted
    BY DEF MathsTyped
  <2>2. CASE m = x
    BY <1>1, <1>2, <2>2 DEF Wide
  <2>3. CASE m # x
    <3>1. m \in descs \ unsure /\ Resolves(m)
      BY <1>2, <2>1, <2>3 DEF Resolves
    <3>2. \/ types[m] = lib[t_handles[m]]["scale"]
          \/ \E u \in Threads : maths[u].stage = "remember" /\ maths[u].m = m /\ maths[u].r = "ok"
      BY <3>1 DEF WidthsInv, ScaleOf
    <3>3. CASE types[m] = lib[t_handles[m]]["scale"]
      BY <2>1, <2>3, <3>1, <3>3
    <3>4. ASSUME NEW u \in Threads, maths[u].stage = "remember", maths[u].m = m, maths[u].r = "ok"
          PROVE  maths'[u].stage = "remember" /\ maths'[u].m = m /\ maths'[u].r = "ok"
      BY <1>1, <2>3, <3>4 DEF Wide
    <3>5. QED
      BY <3>2, <3>3, <3>4
  <2>4. QED
    BY <2>2, <2>3
<1>3. ASSUME NEW u \in Threads, maths'[u].m \in Minted \ unsure', t_handles'[maths'[u].m] # None
      PROVE  /\ maths'[u].stage = "remember" /\ maths'[u].r = "ok" => maths'[u].to = lib'[t_handles'[maths'[u].m]]["scale"]
             /\ maths'[u].stage = "normalize" => maths'[u].got["scale"] = lib'[t_handles'[maths'[u].m]]["scale"]
  <2>1. CASE u = t
    BY <1>1, <1>3, <2>1 DEF Wide
  <2>2. CASE u # t /\ maths[u].stage \in Wide
    <3>1. maths'[u] = maths[u] /\ maths[u].m # x
      BY <1>1, <2>2
    <3>2. maths[u].m \in Minted \ unsure /\ Resolves(maths[u].m)
      BY <1>3, <3>1 DEF Resolves
    <3>3. /\ maths[u].stage = "remember" /\ maths[u].r = "ok" => maths[u].to = lib[t_handles[maths[u].m]]["scale"]
          /\ maths[u].stage = "normalize" => maths[u].got["scale"] = lib[t_handles[maths[u].m]]["scale"]
      BY <3>2 DEF WidthsInv, ScaleOf
    <3>4. lib'[t_handles'[maths[u].m]] = lib[t_handles[maths[u].m]]
      BY <3>1, <3>2
    <3>5. QED
      BY <3>1, <3>3, <3>4
  <2>3. CASE u # t /\ maths[u].stage \notin Wide
    BY <1>1, <2>3 DEF Wide
  <2>4. QED
    BY <2>1, <2>2, <2>3
<1>4. QED
  BY <1>2, <1>3 DEF WidthsInv, ScaleOf, Resolves

(* cudnnCreateTensorDescriptor: a new descriptor is float, and has no      *)
(* record.                                                                 *)
LEMMA MintDescriptorWrites ==
  ASSUME TensorSide, UNCHANGED program, NEW t \in Threads, MintDescriptor(t)
  PROVE  TensorSide'
<1> DEFINE k == next_handle
<1>1. Makes("tensor") /\ maths[t] = NoMaths /\ UNCHANGED <<noted, maths, mine, types, unsure>>
  BY DEF MintDescriptor, Quiet
<1>2. PICK o \in AsyncOutcomes : Mints(o)
  BY DEF MintDescriptor
<1>3. o.ran \in BOOLEAN
  BY AsyncOutcomesAre
<1>4. /\ MathsTyped' /\ MintsInv'
      /\ \A m \in Minted \ {k} :
           t_handles'[m] = t_handles[m] /\ (Resolves(m) => lib'[t_handles[m]] = lib[t_handles[m]])
      /\ t_handles'[k] # None => lib'[t_handles'[k]] = Default
  BY <1>1, <1>2, <1>3, MintsMade DEF TensorSide
<1>5. k \in Minted /\ descs' \in {descs, descs \union {k}} /\ k \notin descs
  BY <1>2, <1>3, MintIs DEF TensorSide
<1>6. types'[k] = 0
  <2>1. types[k] = 0
    <3>1. k >= next_handle
      BY <1>5 DEF Minted
    <3>2. QED
      BY <1>5, <3>1 DEF TensorSide, MintsInv
  <2>2. QED
    BY <1>1, <2>1
<1>7. Default["scale"] = 0
  BY DEF Default, Attrs
<1>8. \A u \in Threads : maths[u].stage \in Wide => maths[u].m # k
  BY <1>5 DEF TensorSide, MintsInv, Wide, DescUsers
<1>9. NoMaths.stage \notin Wide
  BY NoMathsIs DEF Wide, None
<1>10. maths' = [maths EXCEPT ![t] = NoMaths]
  BY <1>1 DEF TensorSide, MathsTyped
<1>11. Moves(t, NoMaths)
  BY <1>10 DEF Moves
<1>12. \A m \in Minted \ {k} : /\ t_handles'[m] = t_handles[m] /\ types'[m] = types[m]
                               /\ Resolves(m) => lib'[t_handles[m]] = lib[t_handles[m]]
                               /\ m \in descs' => m \in descs
                               /\ m \in unsure' <=> m \in unsure
  BY <1>1, <1>4, <1>5
<1>13. (\A u \in Threads : StageFits(maths[u]))'
  BY <1>1, <1>11, NoMathsIs, MovesTyped DEF TensorSide
<1>14. NoMaths.stage \notin {"remember", "normalize"} /\ maths[t].stage \notin Wide
  BY <1>1, <1>9 DEF Wide
<1>15. t_handles'[k] # None => types'[k] = lib'[t_handles'[k]]["scale"]
  BY <1>4, <1>6, <1>7
<1> HIDE DEF k
<1>16. WidthsInv'
  BY <1>1, <1>4, <1>5, <1>8, <1>9, <1>11, <1>12, <1>14, <1>15, NoMathsIs, WidthStep DEF TensorSide
<1>17. QED
  BY <1>4, <1>13, <1>16 DEF TensorSide

(* A call about a descriptor, as it is entered.                            *)
Forgetting(m) == [NoMaths EXCEPT !.stage = "forget", !.m = m]
(* The frame of a tensor descriptor destroyed and not yet forgotten.       *)
LEMMA ForgettingIs ==
  ASSUME NEW m \in Minted
  PROVE  LET c == Forgetting(m) IN c \in MathsRec /\ c.stage = "forget" /\ c.x = None /\ c.m = m
<1> DEFINE c == Forgetting(m)
<1>1. c \in MathsRec
  BY NoMathsIs DEF Forgetting, MathsRec, DescUsers, Attrs
<1>2. c.stage = "forget" /\ c.x = None /\ c.m = m
  BY NoMathsIs DEF Forgetting, MathsRec
<1>3. QED
  BY <1>1, <1>2
Remembering(m, to, r) == [NoMaths EXCEPT !.stage = "remember", !.m = m, !.to = to, !.r = r]
(* The frame of a tensor descriptor set and not yet remembered.            *)
LEMMA RememberingIs ==
  ASSUME NEW m \in Minted, NEW to \in Bit, NEW r \in Results
  PROVE  LET c == Remembering(m, to, r) IN c \in MathsRec /\ c.stage = "remember" /\ c.x = None /\ c.m = m /\ c.to = to /\ c.r = r
<1> DEFINE c == Remembering(m, to, r)
<1>1. c \in MathsRec
  BY NoMathsIs DEF Remembering, MathsRec, DescUsers, Attrs
<1>2. c.stage = "remember" /\ c.x = None /\ c.m = m
  BY NoMathsIs DEF Remembering, MathsRec
<1>3. c.to = to /\ c.r = r
  BY NoMathsIs DEF Remembering, MathsRec, Attrs
<1>4. QED
  BY <1>1, <1>2, <1>3
Normalizing(m, to) == [NoMaths EXCEPT !.stage = "normalize", !.m = m, !.got.scale = to]
(* The frame of a normalization about to be sent.                          *)
LEMMA NormalizingIs ==
  ASSUME NEW m \in Minted, NEW to \in Bit
  PROVE  LET c == Normalizing(m, to) IN c \in MathsRec /\ c.stage = "normalize" /\ c.x = None /\ c.m = m /\ c.got["scale"] = to
<1> DEFINE c == Normalizing(m, to)
<1>1. c \in MathsRec
  BY NoMathsIs DEF Normalizing, MathsRec, DescUsers, Attrs
<1>2. c.stage = "normalize" /\ c.x = None /\ c.m = m
  BY NoMathsIs DEF Normalizing, MathsRec
<1>3. c.got["scale"] = to
  BY NoMathsIs DEF Normalizing, MathsRec, Attrs
<1>4. QED
  BY <1>1, <1>2, <1>3
Finalizing(m, r) == [NoMaths EXCEPT !.stage = "finalized", !.m = m, !.r = r]
(* The frame of a finalize that was answered.                              *)
LEMMA FinalizingIs ==
  ASSUME NEW m \in Minted, NEW r \in Results
  PROVE  LET c == Finalizing(m, r) IN c \in MathsRec /\ c.stage = "finalized" /\ c.x = None /\ c.m = m /\ c.r = r
<1> DEFINE c == Finalizing(m, r)
<1>1. c \in MathsRec
  BY NoMathsIs DEF Finalizing, MathsRec, DescUsers, Attrs
<1>2. c.stage = "finalized" /\ c.x = None /\ c.m = m
  BY NoMathsIs DEF Finalizing, MathsRec
<1>3. c.r = r
  BY NoMathsIs DEF Finalizing, MathsRec, Attrs
<1>4. QED
  BY <1>1, <1>2, <1>3

(* A call about a minted descriptor fits the program that makes it.        *)
LEMMA DescFits ==
  ASSUME NEW c, c.x = None, c.m \in Minted,
         \/ c.stage \in {"remember", "forget", "normalize"} /\ Makes("tensor")
         \/ c.stage = "finalized" /\ Makes("backend")
  PROVE  StageFits(c) /\ c.stage # None
  BY DEF StageFits, Holders, Users, DescUsers, None

(* cuDNN's tensors.                                                        *)
LEMMA SetTensorWrites ==
  ASSUME TensorSide, UNCHANGED program, NEW t \in Threads, NEW m \in Minted, NEW to \in Bit, SetTensor(t, m, to)
  PROVE  TensorSide'
<1>1. PICK o \in AsyncOutcomes :
        /\ IF Resolves(m) THEN Kept(t_handles[m], "scale", to, o.ran) ELSE UNCHANGED lib
        /\ unsure' = IF o.ran = (o.r = "ok") THEN unsure ELSE unsure \union {m}
        /\ maths' = [maths EXCEPT ![t] = [NoMaths EXCEPT !.stage = "remember", !.m = m, !.to = to, !.r = o.r]]
  BY DEF SetTensor
<1>2. UsesDesc(t, m) /\ Makes("tensor") /\ UNCHANGED <<noted, mine, tensorVars>>
  BY DEF SetTensor
<1>3. o.ran \in BOOLEAN /\ o.r \in Results
  BY AsyncOutcomesAre DEF Results
<1> DEFINE c == Remembering(m, to, o.r)
<1>4. c \in MathsRec /\ c.stage = "remember" /\ c.x = None /\ c.m = m /\ c.to = to /\ c.r = o.r
  BY <1>3, RememberingIs
<1>5. Moves(t, c)
  BY <1>1 DEF Moves, Remembering
<1> HIDE DEF c
<1>6. StageFits(c)
  BY <1>2, <1>4, DescFits
<1>7. maths[t] = NoMaths /\ m \in descs /\ \A u \in Threads : maths[u].m # m
  BY <1>2 DEF UsesDesc, Quiet
<1>8. maths' \in [Threads -> MathsRec] /\ (\A u \in Threads : StageFits(maths[u]))'
  BY <1>4, <1>5, <1>6, MovesTyped DEF TensorSide
<1>9. UNCHANGED <<next_handle, t_handles, types, descs>>
  BY <1>2 DEF tensorVars
<1>10. ASSUME Resolves(m)
       PROVE  LET v == t_handles[m]
              IN  /\ v \in Values /\ lib' \in [Values -> [Attrs -> Bit] \union {Nothing}]
                  /\ \A w \in Values \ {v} : lib'[w] = lib[w]
                  /\ lib'[v] # Nothing
                  /\ o.ran => lib'[v]["scale"] = to
                  /\ ~o.ran => lib'[v] = lib[v]
  <2> DEFINE v == t_handles[m]
  <2>1. MathsTyped /\ v \in Values /\ lib[v] # Nothing
    BY <1>10 DEF TensorSide, MathsTyped, Resolves, MintsInv
  <2>2. Kept(v, "scale", to, o.ran) /\ "scale" \in Attrs
    BY <1>1, <1>10 DEF Attrs
  <2> HIDE DEF v
  <2>3. /\ lib' \in [Values -> [Attrs -> Bit] \union {Nothing}] /\ \A w \in Values \ {v} : lib'[w] = lib[w]
        /\ lib'[v] # Nothing /\ lib'[v] \in [Attrs -> Bit]
        /\ o.ran => lib'[v]["scale"] = to /\ \A b \in Attrs \ {"scale"} : lib'[v][b] = lib[v][b]
        /\ ~o.ran => lib'[v] = lib[v]
    BY ONLY <1>3, <2>1, <2>2, KeptIs
  <2>4. QED
    BY <2>1, <2>3 DEF v
<1>11. lib' \in [Values -> [Attrs -> Bit] \union {Nothing}] /\ \A v \in Values : lib[v] # Nothing => lib'[v] # Nothing
  BY <1>1, <1>10 DEF TensorSide, MathsTyped
<1>12. MathsTyped'
  BY <1>2, <1>8, <1>9, <1>11 DEF TensorSide, MathsTyped
<1>13. MintsInv'
  <2>1. \A n \in Minted : n >= next_handle => types'[n] = 0
    BY <1>9 DEF TensorSide, MintsInv
  <2>2. QED
    BY <1>4, <1>5, <1>7, <1>9, <1>11, <2>1, MintsMove DEF TensorSide
<1>14. \A n \in Minted \ {m} : /\ t_handles'[n] = t_handles[n] /\ types'[n] = types[n]
                               /\ Resolves(n) => lib'[t_handles[n]] = lib[t_handles[n]]
                               /\ n \in descs' => n \in descs
                               /\ n \in unsure' <=> n \in unsure
  <2>1. ASSUME NEW n \in Minted \ {m}, Resolves(n) PROVE lib'[t_handles[n]] = lib[t_handles[n]]
    <3>1. t_handles[n] # t_handles[m] /\ t_handles[n] \in Values
      BY <2>1 DEF TensorSide, MintsInv, MathsTyped, Resolves
    <3>2. QED
      BY <1>1, <1>10, <3>1
  <2>2. QED
    BY <1>1, <1>9, <2>1
<1>15. maths[t].stage \notin Wide
  BY <1>7, NoMathsIs DEF Wide, None
<1>16. m \notin unsure' /\ t_handles'[m] # None =>
         /\ c.r = "ok" => c.to = lib'[t_handles'[m]]["scale"]
         /\ types'[m] = lib'[t_handles'[m]]["scale"] \/ c.r = "ok"
  <2> SUFFICES ASSUME m \notin unsure', Resolves(m)
               PROVE  /\ c.r = "ok" => c.to = lib'[t_handles[m]]["scale"]
                      /\ types[m] = lib'[t_handles[m]]["scale"] \/ c.r = "ok"
    BY <1>9 DEF Resolves
  <2>1. o.ran <=> o.r = "ok"
    BY <1>1, <1>3
  <2>2. CASE o.ran
    BY <1>4, <1>10, <2>1, <2>2
  <2>3. CASE ~o.ran
    <3>1. m \notin unsure
      BY <1>1
    <3>2. types[m] = lib[t_handles[m]]["scale"]
      BY <1>2, <1>7, <3>1 DEF TensorSide, WidthsInv, ScaleOf
    <3>3. QED
      BY <1>4, <1>10, <2>1, <2>3, <3>2
  <2>4. QED
    BY <2>2, <2>3
<1>17. WidthsInv'
  BY <1>2, <1>4, <1>5, <1>7, <1>12, <1>14, <1>15, <1>16, WidthStep DEF TensorSide
<1>18. QED
  BY <1>8, <1>12, <1>13, <1>17 DEF TensorSide

(* remember_type, of what succeeded.                                       *)
LEMMA RememberWrites ==
  ASSUME TensorSide, UNCHANGED program, NEW t \in Threads, Remember(t)
  PROVE  TensorSide'
<1> DEFINE f == maths[t]
           m == f.m
<1>1. /\ f.stage = "remember" /\ Moves(t, NoMaths) /\ UNCHANGED <<lib, noted, mine, next_handle, t_handles, descs, unsure>>
      /\ types' = IF f.r = "ok" THEN [types EXCEPT ![m] = f.to] ELSE types
  BY Stopped DEF Remember, At, remember_type
<1>2. m \in Minted /\ f.to \in Bit /\ Makes("tensor")
  <2>1. f \in MathsRec /\ StageFits(f)
    BY DEF TensorSide, MathsTyped
  <2>2. QED
    BY <1>1, <2>1 DEF MathsRec, StageFits, DescUsers
<1>3. m \in descs /\ \A u \in Threads \ {t} : maths[u].stage \in Wide => maths[u].m # m
  BY <1>1 DEF TensorSide, MintsInv, Wide, DescUsers
<1>4. maths' \in [Threads -> MathsRec] /\ (\A u \in Threads : StageFits(maths[u]))'
  BY <1>1, NoMathsIs, MovesTyped DEF TensorSide
<1>5. MathsTyped'
  BY <1>1, <1>2, <1>4 DEF TensorSide, MathsTyped
<1>6. ~(m >= next_handle)
  BY <1>2, <1>3 DEF TensorSide, MintsInv
<1>7. \A n \in Minted \ {m} : types'[n] = types[n]
  BY <1>1 DEF TensorSide, MathsTyped
<1>8. \A n \in Minted : n >= next_handle => types'[n] = 0
  BY <1>6, <1>7 DEF TensorSide, MintsInv
<1>9. NoMaths.stage \notin DescUsers /\ NoMaths.stage # "forget" /\ NoMaths.stage \notin Wide
  BY NoMathsIs DEF None, DescUsers, Wide
<1>10. \A n \in Minted \ {m} : /\ t_handles'[n] = t_handles[n] /\ types'[n] = types[n]
                               /\ Resolves(n) => lib'[t_handles[n]] = lib[t_handles[n]]
                               /\ n \in descs' => n \in descs
                               /\ n \in unsure' <=> n \in unsure
  BY <1>1, <1>7
<1>11. m \in descs' /\ m \notin unsure' /\ t_handles'[m] # None => types'[m] = lib'[t_handles'[m]]["scale"]
  <2> SUFFICES ASSUME m \notin unsure, Resolves(m) PROVE types'[m] = lib[t_handles[m]]["scale"]
    BY <1>1 DEF Resolves
  <2>1. CASE f.r = "ok"
    <3>1. types'[m] = f.to
      BY <1>1, <1>2, <2>1 DEF TensorSide, MathsTyped
    <3>2. f.to = lib[t_handles[m]]["scale"]
      BY <1>1, <1>2, <2>1 DEF TensorSide, WidthsInv, ScaleOf
    <3>3. QED
      BY <3>1, <3>2
  <2>2. CASE f.r # "ok"
    <3>1. types'[m] = types[m]
      BY <1>1, <2>2
    <3>2. \A u \in Threads : ~(maths[u].stage = "remember" /\ maths[u].m = m /\ maths[u].r = "ok")
      BY <1>3, <2>2 DEF Wide
    <3>3. types[m] = lib[t_handles[m]]["scale"]
      BY <1>2, <1>3, <3>2 DEF TensorSide, WidthsInv, ScaleOf
    <3>4. QED
      BY <3>1, <3>3
  <2>3. QED
    BY <2>1, <2>2
<1>12. NoMaths.stage # "remember" /\ NoMaths.stage # "normalize"
  BY <1>9 DEF Wide
<1> HIDE DEF f
<1>13. MintsInv'
  <2>1. \A v \in Values : lib[v] # Nothing => lib'[v] # Nothing
    BY <1>1
  <2>2. QED
    BY <1>1, <1>8, <1>9, <2>1, NoMathsIs, MintsMove DEF TensorSide
<1>14. WidthsInv'
  BY <1>1, <1>2, <1>3, <1>5, <1>9, <1>10, <1>11, <1>12, NoMathsIs, WidthStep DEF TensorSide, f
<1>15. QED
  BY <1>4, <1>5, <1>13, <1>14 DEF TensorSide

(* cudnnDestroyTensorDescriptor, as far as the call.                       *)
LEMMA DestroyTensorWrites ==
  ASSUME TensorSide, UNCHANGED program, NEW t \in Threads, NEW m \in Minted, DestroyTensor(t, m)
  PROVE  TensorSide'
<1> DEFINE c == Forgetting(m)
<1>1. UsesDesc(t, m) /\ Makes("tensor") /\ Moves(t, c) /\ UNCHANGED <<noted, mine, next_handle, types, unsure>>
  BY DEF DestroyTensor, Moves, Forgetting
<1>2. PICK o \in AsyncOutcomes, destroyed \in {TRUE, ~MayFail} : Unmints(m, o.ran, destroyed)
  BY DEF DestroyTensor
<1>3. c \in MathsRec /\ c.stage = "forget" /\ c.x = None /\ c.m = m
  BY ForgettingIs
<1> HIDE DEF c
<1>4. StageFits(c)
  BY <1>1, <1>3, DescFits
<1>5. /\ MathsTyped' /\ MintsInv' /\ descs' = descs \ {m} /\ (\A u \in Threads : StageFits(maths[u]))'
      /\ \A n \in Minted \ {m} :
           t_handles'[n] = t_handles[n] /\ (Resolves(n) => lib'[t_handles[n]] = lib[t_handles[n]])
  BY <1>1, <1>2, <1>3, <1>4, MintsUnmade DEF TensorSide
<1>6. maths[t] = NoMaths /\ \A u \in Threads : maths[u].m # m
  BY <1>1 DEF UsesDesc, Quiet
<1>7. maths[t].stage \notin Wide /\ c.stage \notin Wide /\ c.stage # "remember" /\ c.stage # "normalize"
  BY <1>3, <1>6, NoMathsIs DEF Wide, None
<1>8. \A n \in Minted \ {m} : /\ t_handles'[n] = t_handles[n] /\ types'[n] = types[n]
                              /\ Resolves(n) => lib'[t_handles[n]] = lib[t_handles[n]]
                              /\ n \in descs' => n \in descs
                              /\ n \in unsure' <=> n \in unsure
  BY <1>1, <1>5
<1>9. m \notin descs'
  BY <1>5
<1>10. WidthsInv'
  BY <1>1, <1>3, <1>5, <1>6, <1>7, <1>8, <1>9, WidthStep DEF TensorSide
<1>11. QED
  BY <1>5, <1>10 DEF TensorSide

(* And its record erased: the handle is never minted again.                *)
LEMMA ForgetWrites ==
  ASSUME TensorSide, UNCHANGED program, NEW t \in Threads, Forget(t)
  PROVE  TensorSide'
<1> DEFINE f == maths[t]
           m == f.m
<1>1. /\ f.stage = "forget" /\ Moves(t, NoMaths) /\ UNCHANGED <<lib, noted, mine, next_handle, t_handles, descs, unsure>>
      /\ types' = [types EXCEPT ![m] = 0]
  BY Stopped DEF Forget, At
<1>2. m \in Minted /\ Makes("tensor")
  BY <1>1 DEF TensorSide, StageFits
<1>3. m \notin descs
  BY <1>1 DEF TensorSide, MintsInv
<1>4. maths' \in [Threads -> MathsRec] /\ (\A u \in Threads : StageFits(maths[u]))'
  BY <1>1, NoMathsIs, MovesTyped DEF TensorSide
<1>5. MathsTyped'
  BY <1>1, <1>2, <1>4 DEF TensorSide, MathsTyped, Bit
<1>6. \A n \in Minted : n >= next_handle => types'[n] = 0
  BY <1>1 DEF TensorSide, MathsTyped, MintsInv
<1>7. NoMaths.stage \notin DescUsers /\ NoMaths.stage # "forget" /\ NoMaths.stage \notin Wide
      /\ NoMaths.stage # "remember" /\ NoMaths.stage # "normalize"
  BY NoMathsIs DEF None, DescUsers, Wide
<1>8. \A n \in Minted \ {m} : /\ t_handles'[n] = t_handles[n] /\ types'[n] = types[n]
                              /\ Resolves(n) => lib'[t_handles[n]] = lib[t_handles[n]]
                              /\ n \in descs' => n \in descs
                              /\ n \in unsure' <=> n \in unsure
  BY <1>1 DEF TensorSide, MathsTyped
<1>9. \A u \in Threads : maths[u].stage \in Wide => maths[u].m # m
  BY <1>3 DEF TensorSide, MintsInv, Wide, DescUsers
<1>10. m \notin descs' /\ f.stage \notin Wide
  BY <1>1, <1>3 DEF Wide
<1> HIDE DEF f
<1>11. MintsInv'
  <2>1. \A v \in Values : lib[v] # Nothing => lib'[v] # Nothing
    BY <1>1
  <2>2. QED
    BY <1>1, <1>6, <1>7, <2>1, NoMathsIs, MintsMove DEF TensorSide
<1>12. WidthsInv'
  BY <1>1, <1>2, <1>5, <1>7, <1>8, <1>9, <1>10, NoMathsIs, WidthStep DEF TensorSide, f
<1>13. QED
  BY <1>4, <1>5, <1>11, <1>12 DEF TensorSide

(* Batch normalisation takes the width on record.                          *)
LEMMA BatchNormWrites ==
  ASSUME TensorSide, UNCHANGED program, NEW t \in Threads, NEW m \in Minted, BatchNorm(t, m)
  PROVE  TensorSide'
<1> DEFINE c == Normalizing(m, types[m])
<1>1. UsesDesc(t, m) /\ Makes("tensor") /\ Moves(t, c) /\ UNCHANGED <<lib, noted, mine, tensorVars, unsure>>
  BY DEF BatchNorm, Moves, Normalizing, scalar_width
<1>2. types[m] \in Bit
  BY DEF TensorSide, MathsTyped
<1>3. c \in MathsRec /\ c.stage = "normalize" /\ c.x = None /\ c.m = m /\ c.got["scale"] = types[m]
  BY <1>2, NormalizingIs
<1> HIDE DEF c
<1>4. StageFits(c)
  BY <1>1, <1>3, DescFits
<1>5. maths[t] = NoMaths /\ m \in descs /\ \A u \in Threads : maths[u].m # m
  BY <1>1 DEF UsesDesc, Quiet
<1>6. maths' \in [Threads -> MathsRec] /\ (\A u \in Threads : StageFits(maths[u]))'
  BY <1>1, <1>3, <1>4, MovesTyped DEF TensorSide
<1>7. UNCHANGED <<next_handle, t_handles, types, descs>>
  BY <1>1 DEF tensorVars
<1>8. MathsTyped'
  BY <1>1, <1>6, <1>7 DEF TensorSide, MathsTyped
<1>9. \A n \in Minted : n >= next_handle => types'[n] = 0
  BY <1>7 DEF TensorSide, MintsInv
<1>10. MintsInv'
  <2>1. \A v \in Values : lib[v] # Nothing => lib'[v] # Nothing
    BY <1>1
  <2>2. QED
    BY <1>1, <1>3, <1>5, <1>7, <1>9, <2>1, MintsMove DEF TensorSide
<1>11. maths[t].stage \notin Wide /\ c.stage # "remember"
  BY <1>3, <1>5, NoMathsIs DEF Wide, None
<1>12. \A n \in Minted \ {m} : /\ t_handles'[n] = t_handles[n] /\ types'[n] = types[n]
                               /\ Resolves(n) => lib'[t_handles[n]] = lib[t_handles[n]]
                               /\ n \in descs' => n \in descs
                               /\ n \in unsure' <=> n \in unsure
  BY <1>1, <1>7
<1>13. m \notin unsure' /\ t_handles'[m] # None => types'[m] = lib'[t_handles'[m]]["scale"]
  <2>1. ASSUME m \notin unsure, Resolves(m) PROVE types[m] = lib[t_handles[m]]["scale"]
    BY <1>1, <1>5, <2>1 DEF TensorSide, WidthsInv, ScaleOf
  <2>2. QED
    BY <1>1, <1>7, <2>1 DEF Resolves
<1>14. m \notin unsure' /\ t_handles'[m] # None => c.got["scale"] = lib'[t_handles'[m]]["scale"]
  BY <1>3, <1>7, <1>13
<1>15. WidthsInv'
  BY <1>1, <1>3, <1>5, <1>8, <1>11, <1>12, <1>13, <1>14, WidthStep DEF TensorSide
<1>16. QED
  BY <1>6, <1>8, <1>10, <1>15 DEF TensorSide

(* A normalization that is sent has nothing more in its hands.             *)
LEMMA BatchNormSentWrites ==
  ASSUME TensorSide, UNCHANGED program, NEW t \in Threads, BatchNormSent(t)
  PROVE  TensorSide'
<1> DEFINE f == maths[t]
           m == f.m
<1>1. f.stage = "normalize" /\ Moves(t, NoMaths) /\ UNCHANGED <<lib, noted, mine, tensorVars, unsure>>
  BY Stopped DEF BatchNormSent, At
<1>2. m \in Minted /\ Makes("tensor")
  BY <1>1 DEF TensorSide, StageFits, DescUsers
<1>3. m \in descs /\ \A u \in Threads \ {t} : maths[u].stage \in Wide => maths[u].m # m
  BY <1>1 DEF TensorSide, MintsInv, Wide, DescUsers
<1>4. maths' \in [Threads -> MathsRec] /\ (\A u \in Threads : StageFits(maths[u]))'
  BY <1>1, NoMathsIs, MovesTyped DEF TensorSide
<1>5. UNCHANGED <<next_handle, t_handles, types, descs>>
  BY <1>1 DEF tensorVars
<1>6. MathsTyped'
  BY <1>1, <1>4, <1>5 DEF TensorSide, MathsTyped
<1>7. \A n \in Minted : n >= next_handle => types'[n] = 0
  BY <1>5 DEF TensorSide, MintsInv
<1>8. NoMaths.stage \notin DescUsers /\ NoMaths.stage # "forget" /\ NoMaths.stage \notin Wide
      /\ NoMaths.stage # "remember" /\ NoMaths.stage # "normalize"
  BY NoMathsIs DEF None, DescUsers, Wide
<1>9. \A n \in Minted \ {m} : /\ t_handles'[n] = t_handles[n] /\ types'[n] = types[n]
                              /\ Resolves(n) => lib'[t_handles[n]] = lib[t_handles[n]]
                              /\ n \in descs' => n \in descs
                              /\ n \in unsure' <=> n \in unsure
  BY <1>1, <1>5
<1>10. m \notin unsure' /\ t_handles'[m] # None => types'[m] = lib'[t_handles'[m]]["scale"]
  <2>1. \A u \in Threads : ~(maths[u].stage = "remember" /\ maths[u].m = m)
    BY <1>1, <1>3 DEF Wide
  <2>2. ASSUME m \notin unsure, Resolves(m) PROVE types[m] = lib[t_handles[m]]["scale"]
    BY <1>2, <1>3, <2>1, <2>2 DEF TensorSide, WidthsInv, ScaleOf
  <2>3. QED
    BY <1>1, <1>5, <2>2 DEF Resolves
<1> HIDE DEF f
<1>11. MintsInv'
  <2>1. \A v \in Values : lib[v] # Nothing => lib'[v] # Nothing
    BY <1>1
  <2>2. QED
    BY <1>1, <1>5, <1>7, <1>8, <2>1, NoMathsIs, MintsMove DEF TensorSide
<1>12. WidthsInv'
  BY <1>1, <1>2, <1>3, <1>6, <1>8, <1>9, <1>10, NoMathsIs, WidthStep DEF TensorSide, f
<1>13. QED
  BY <1>4, <1>6, <1>11, <1>12 DEF TensorSide

-----------------------------------------------------------------------------
(* The backend's descriptors: a step of one thread, about one of them.     *)
BackendSide == MathsTyped /\ BackendTyped /\ (\A t \in Threads : StageFits(maths[t])) /\ MintsInv /\ BuiltInv
PartIn(n, T) == CASE n = NotSet -> None [] n = Plain -> "plain" [] OTHER -> T[n]

(* The part a descriptor was meant to have, by the server's table, and by  *)
(* the table after a step.                                                 *)
LEMMA PartsIn ==
  /\ \A n : PartOf(n) = PartIn(n, t_handles)
  /\ (\A m \in Minted : PartOf(meant[m]) = PartIn(meant[m], t_handles))'
<1>1. \A n : PartOf(n) = PartIn(n, t_handles)
  BY DEF PartOf, PartIn
<1>2. (\A m \in Minted : PartOf(meant[m]) = PartIn(meant[m], t_handles))'
  BY DEF PartOf, PartIn
<1>3. QED
  BY <1>1, <1>2

(* A step about one descriptor of the backend: it is enough to show of it  *)
(* that it is as it was meant, or that somebody is held a failure for it,  *)
(* and of a finalize that succeeds that the descriptor is there and the    *)
(* failure was not its own.                                                *)
LEMMA BuiltStep ==
  ASSUME MathsTyped, MathsTyped', BackendTyped, MintsInv, BuiltInv, UNCHANGED program, Makes("backend"),
         NEW t \in Threads, NEW c \in MathsRec, Moves(t, c), NEW x,
         \A n \in Minted \ {x} : /\ t_handles'[n] = t_handles[n] /\ unsaid'[n] = unsaid[n] /\ meant'[n] = meant[n]
                                 /\ n \in descs' => n \in descs
                                 /\ n \in unsure => n \in unsure'
                                 /\ Resolves(n) => parts'[t_handles[n]] = parts[t_handles[n]],
         x \in descs' => (x \in descs /\ t_handles'[x] = t_handles[x]) \/ x = next_handle,
         next_handle' >= next_handle, next_handle' \in Nat,
         \A n \in Minted \ unsure' : unsaid'[n] # None => unsaid'[n] \in held',
         \A u \in Threads \ {t} : maths[u].stage = "finalized" => maths[u].m # x,
         x \in descs' /\ x \notin unsure' /\ unsaid'[x] = None /\ t_handles'[x] # None
           /\ meant'[x] \in descs' \union {Plain} => parts'[t_handles'[x]] = PartIn(meant'[x], t_handles'),
         c.stage = "finalized" /\ c.r = "ok" /\ c.m \notin unsure' => t_handles'[c.m] # None /\ unsaid'[c.m] # t,
         x \in Minted => /\ x >= next_handle' => meant'[x] = NotSet
                         /\ meant'[x] \in Minted => meant'[x] < next_handle'
  PROVE  BuiltInv'
<1>1. maths'[t] = c /\ \A u \in Threads \ {t} : maths'[u] = maths[u]
  BY MovesTo
<1>2. ASSUME NEW n \in descs' \ unsure', unsaid'[n] = None, t_handles'[n] # None, meant'[n] \in descs' \union {Plain}
      PROVE  parts'[t_handles'[n]] = PartIn(meant'[n], t_handles')
  <2>1. n \in Minted
    BY DEF MathsTyped
  <2>2. CASE n = x
    BY <1>2, <2>2
  <2>3. CASE n # x
    <3> DEFINE p == meant[n]
    <3>1. n \in descs \ unsure /\ unsaid[n] = None /\ Resolves(n) /\ meant'[n] = p
      BY <1>2, <2>1, <2>3 DEF Resolves
    <3>2. p \in descs \union {Plain} /\ PartIn(p, t_handles') = PartIn(p, t_handles)
      <4>1. CASE p = Plain
        BY <4>1 DEF PartIn
      <4>2. CASE p \in descs'
        <5>1. p \in Minted /\ p < next_handle
          BY <2>1, <4>2 DEF MathsTyped, BuiltInv
        <5>2. p \in descs /\ t_handles'[p] = t_handles[p]
          <6>1. p # next_handle
            BY <5>1 DEF Minted, MathsTyped
          <6>2. QED
            BY <4>2, <5>1, <6>1
        <5>3. QED
          BY <5>2 DEF PartIn
      <4>3. QED
        BY <1>2, <3>1, <4>1, <4>2
    <3>3. parts[t_handles[n]] = PartIn(p, t_handles)
      BY <3>1, <3>2, PartsIn DEF BuiltInv
    <3>4. parts'[t_handles'[n]] = parts[t_handles[n]]
      BY <2>1, <2>3, <3>1
    <3>5. QED
      BY <3>1, <3>2, <3>3, <3>4
  <2>4. QED
    BY <2>2, <2>3
<1>3. ASSUME NEW u \in Threads, maths'[u].stage = "finalized", maths'[u].r = "ok", maths'[u].m \notin unsure'
      PROVE  t_handles'[maths'[u].m] # None /\ unsaid'[maths'[u].m] # u
  <2>1. CASE u = t
    BY <1>1, <1>3, <2>1
  <2>2. CASE u # t
    <3> DEFINE n == maths[u].m
    <3>1. maths'[u] = maths[u] /\ n # x
      BY <1>1, <1>3, <2>2
    <3>2. n \in descs
      BY <1>3, <3>1 DEF MintsInv, DescUsers
    <3>3. n \in Minted
      BY <3>2 DEF MathsTyped
    <3>4. n \notin unsure
      BY <1>3, <3>1, <3>3
    <3>5. Resolves(n) /\ unsaid[n] # u
      BY <1>3, <3>1, <3>4 DEF BuiltInv
    <3>6. QED
      BY <3>1, <3>3, <3>5 DEF Resolves
  <2>3. QED
    BY <2>1, <2>2
<1>4. ASSUME NEW n \in Minted
      PROVE  /\ n >= next_handle' => meant'[n] = NotSet
             /\ meant'[n] \in Minted => meant'[n] < next_handle'
  <2>1. CASE n = x
    BY <1>4, <2>1
  <2>2. CASE n # x
    <3>1. meant'[n] = meant[n] /\ next_handle \in Nat
      BY <2>2 DEF MathsTyped
    <3>2. n >= next_handle' => n >= next_handle
      BY <3>1 DEF Minted
    <3>3. meant[n] \in Minted => meant[n] < next_handle /\ meant[n] \in Nat
      BY DEF BuiltInv, Minted
    <3>4. QED
      BY <3>1, <3>2, <3>3 DEF BuiltInv
  <2>3. QED
    BY <2>1, <2>2
<1>5. descs' \in SUBSET Minted
  BY DEF MathsTyped
<1>6. BuiltInv' <=>
        (Makes("backend")' =>
           /\ \A n \in Minted \ unsure' : unsaid'[n] # None => unsaid'[n] \in held'
           /\ \A n \in descs' \ unsure' :
                unsaid'[n] = None /\ t_handles'[n] # None /\ meant'[n] \in descs' \union {Plain}
                  => parts'[t_handles'[n]] = PartIn(meant'[n], t_handles')
           /\ \A u \in Threads : maths'[u].stage = "finalized" /\ maths'[u].r = "ok" /\ maths'[u].m \notin unsure'
                => t_handles'[maths'[u].m] # None /\ unsaid'[maths'[u].m] # u
           /\ \A n \in Minted : n >= next_handle' => meant'[n] = NotSet
           /\ \A n \in Minted : meant'[n] \in Minted => meant'[n] < next_handle')
  BY <1>5, PartsIn DEF BuiltInv, Resolves, NotSet, Plain
<1>7. QED
  BY <1>2, <1>3, <1>4, <1>6

(* A descriptor is made.                                                   *)
LEMMA BackendCreateWrites ==
  ASSUME BackendSide, UNCHANGED program, NEW t \in Threads, BackendCreate(t)
  PROVE  BackendSide'
<1> DEFINE k == next_handle
<1>1. PICK o \in AsyncOutcomes : Mints(o) /\ put_status(t, o.r # "ok", ~o.ran)
  BY DEF BackendCreate
<1>2. /\ Makes("backend") /\ maths[t] = NoMaths
      /\ UNCHANGED <<noted, maths, mine, types, unsure, parts, meant, unsaid>>
  BY DEF BackendCreate, Quiet
<1>3. o.ran \in BOOLEAN
  BY AsyncOutcomesAre
<1>4. /\ MathsTyped' /\ MintsInv'
      /\ \A m \in Minted \ {k} : t_handles'[m] = t_handles[m]
  BY <1>1, <1>2, <1>3, MintsMade DEF BackendSide
<1>5. k \in Minted /\ next_handle' = k + 1 /\ descs' \in {descs, descs \union {k}} /\ k \notin descs
  BY <1>1, <1>3, MintIs DEF BackendSide
<1>6. Moves(t, NoMaths)
  BY <1>2 DEF Moves, BackendSide, MathsTyped
<1>7. (\A u \in Threads : StageFits(maths[u]))'
  BY <1>6, NoMathsIs, MovesTyped DEF BackendSide
<1>8. held \subseteq held' /\ held' \in SUBSET Threads
  BY <1>1 DEF put_status, BackendSide, BackendTyped
<1>9. BackendTyped'
  BY <1>2, <1>8 DEF BackendSide, BackendTyped, Plain
<1>10. \A n \in Minted \ {k} : /\ t_handles'[n] = t_handles[n] /\ unsaid'[n] = unsaid[n] /\ meant'[n] = meant[n]
                               /\ n \in descs' => n \in descs
                               /\ n \in unsure => n \in unsure'
                               /\ Resolves(n) => parts'[t_handles[n]] = parts[t_handles[n]]
  BY <1>2, <1>4, <1>5
<1>11. \A n \in Minted \ unsure' : unsaid'[n] # None => unsaid'[n] \in held'
  BY <1>2, <1>8 DEF BackendSide, BuiltInv
<1>12. \A u \in Threads : maths[u].stage = "finalized" => maths[u].m # k
  BY <1>5 DEF BackendSide, MintsInv, DescUsers
<1>13. meant'[k] = NotSet
  <2>1. k >= next_handle
    BY <1>5 DEF Minted
  <2>2. QED
    BY <1>2, <1>5, <2>1 DEF BackendSide, BuiltInv
<1>14. NotSet \notin Minted \union {Plain}
  BY MathsAssumption DEF NotSet, Minted, Plain
<1>15. descs' \subseteq Minted
  BY <1>4 DEF MathsTyped
<1>16. NoMaths.stage # "finalized"
  BY NoMathsIs DEF None
<1>17. next_handle' >= next_handle /\ next_handle' \in Nat
  BY <1>5 DEF Minted
<1> HIDE DEF k
<1>18. BuiltInv'
  BY <1>2, <1>4, <1>6, <1>10, <1>11, <1>12, <1>13, <1>14, <1>15, <1>16, <1>17, NoMathsIs, BuiltStep DEF BackendSide, k
<1>19. QED
  BY <1>4, <1>7, <1>9, <1>18 DEF BackendSide

(* A descriptor is given a part, on one side or on both.                   *)
LEMMA BackendSetWrites ==
  ASSUME BackendSide, UNCHANGED program, NEW t \in Threads, NEW m \in Minted, NEW n \in (descs \ {m}) \union {Plain},
         BackendSet(t, m, n)
  PROVE  BackendSide'
<1> DEFINE works(o) == o.ran /\ resolve_descriptors(m, n)
           told(o)  == o.r # "ok"
<1>1. PICK o \in AsyncOutcomes :
        /\ parts' = IF works(o) THEN [parts EXCEPT ![t_handles[m]] = PartOf(n)] ELSE parts
        /\ put_status(t, told(o), ~works(o))
        /\ meant' = IF told(o) THEN meant ELSE [meant EXCEPT ![m] = n]
        /\ unsaid' = IF works(o) \/ told(o) THEN unsaid ELSE [unsaid EXCEPT ![m] = t]
        /\ unsure' = IF told(o) THEN unsure \union {m} ELSE unsure
  BY DEF BackendSet
<1>2. UsesDesc(t, m) /\ Makes("backend") /\ UNCHANGED <<lib, noted, maths, mine, tensorVars>>
  BY DEF BackendSet
<1>3. UNCHANGED <<next_handle, t_handles, types, descs>>
  BY <1>2 DEF tensorVars
<1>4. maths[t] = NoMaths /\ m \in descs /\ \A u \in Threads : maths[u].m # m
  BY <1>2 DEF UsesDesc, Quiet
<1>5. Moves(t, NoMaths)
  BY <1>2, <1>4 DEF Moves, BackendSide, MathsTyped
<1>6. MathsTyped' /\ (\A u \in Threads : StageFits(maths[u]))'
  <2>1. (\A u \in Threads : StageFits(maths[u]))'
    BY <1>5, NoMathsIs, MovesTyped DEF BackendSide
  <2>2. MathsTyped'
    BY <1>2, <1>3 DEF BackendSide, MathsTyped
  <2>3. QED
    BY <2>1, <2>2
<1>7. NoMaths.stage \notin DescUsers /\ NoMaths.stage # "forget" /\ NoMaths.stage # "finalized"
  BY NoMathsIs DEF None, DescUsers
<1>8. MintsInv'
  <2>1. \A p \in Minted : p >= next_handle => types'[p] = 0
    BY <1>3 DEF BackendSide, MintsInv
  <2>2. \A v \in Values : lib[v] # Nothing => lib'[v] # Nothing
    BY <1>2
  <2>3. QED
    BY <1>3, <1>5, <1>7, <2>1, <2>2, NoMathsIs, MintsMove DEF BackendSide
<1>9. held' \in SUBSET Threads /\ held \subseteq held' /\ (~works(o) /\ ~told(o) => t \in held')
  BY <1>1 DEF put_status, BackendSide, BackendTyped
<1>10. n \in 0 .. Plain /\ (n \in Minted => n < next_handle) /\ m < next_handle
  <2>1. MaxMint \in Nat /\ next_handle \in Nat
    BY MathsAssumption DEF BackendSide, MathsTyped
  <2>2. \A p \in descs : p \in Minted /\ ~(p >= next_handle)
    BY DEF BackendSide, MathsTyped, MintsInv
  <2>3. Plain \notin Minted
    BY <2>1 DEF Plain, Minted
  <2>4. QED
    BY <1>4, <2>1, <2>2, <2>3 DEF Plain, Minted
<1>11. PartOf(n) = PartIn(n, t_handles)
  BY PartsIn
<1>12. works(o) => t_handles[m] \in Values /\ PartOf(n) \in Values \union {None, "plain"}
  <2>1. Resolves(m) => t_handles[m] \in Values
    BY DEF BackendSide, MathsTyped, Resolves
  <2>2. PartIn(n, t_handles) \in Values \union {None, "plain"}
    <3>1. CASE n = Plain
      BY <3>1, MathsAssumption DEF PartIn, Plain, NotSet
    <3>2. CASE n \in descs
      <4>1. n \in Minted
        BY <3>2 DEF BackendSide, MathsTyped
      <4>2. t_handles[n] \in Values \union {None} /\ n # NotSet /\ n # Plain
        BY <4>1, MathsAssumption DEF BackendSide, MathsTyped, Minted, NotSet, Plain
      <4>3. QED
        BY <4>2 DEF PartIn
    <3>3. QED
      BY <3>1, <3>2
  <2>3. QED
    BY <1>11, <2>1, <2>2 DEF resolve_descriptors
<1>13. BackendTyped'
  <2>1. parts' \in [Values -> Values \union {None, "plain"}]
    BY <1>1, <1>12 DEF BackendSide, BackendTyped
  <2>2. meant' \in [Minted -> 0 .. Plain] /\ unsaid' \in [Minted -> Threads \union {None}]
    BY <1>1, <1>10 DEF BackendSide, BackendTyped
  <2>3. QED
    BY <1>9, <2>1, <2>2 DEF BackendTyped, Plain
<1>14. \A p \in Minted \ {m} : /\ t_handles'[p] = t_handles[p] /\ unsaid'[p] = unsaid[p] /\ meant'[p] = meant[p]
                               /\ p \in descs' => p \in descs
                               /\ p \in unsure => p \in unsure'
                               /\ Resolves(p) => parts'[t_handles[p]] = parts[t_handles[p]]
  <2>1. ASSUME NEW p \in Minted \ {m}, Resolves(p) PROVE parts'[t_handles[p]] = parts[t_handles[p]]
    <3>1. t_handles[p] \in Values /\ t_handles[p] # t_handles[m]
      BY <2>1 DEF BackendSide, MathsTyped, Resolves, MintsInv
    <3>2. QED
      BY <1>1, <3>1 DEF BackendSide, BackendTyped
  <2>2. \A p \in Minted \ {m} : unsaid'[p] = unsaid[p] /\ meant'[p] = meant[p]
    BY <1>1 DEF BackendSide, BackendTyped
  <2>3. QED
    BY <1>1, <1>3, <2>1, <2>2
<1>15. \A p \in Minted \ unsure' : unsaid'[p] # None => unsaid'[p] \in held'
  <2> SUFFICES ASSUME NEW p \in Minted \ unsure', unsaid'[p] # None PROVE unsaid'[p] \in held'
    OBVIOUS
  <2>1. p \notin unsure
    BY <1>1
  <2>2. unsaid'[p] = unsaid[p] \/ (unsaid'[p] = t /\ ~works(o) /\ ~told(o))
    BY <1>1, <1>14 DEF BackendSide, BackendTyped
  <2>3. QED
    BY <1>2, <1>9, <2>1, <2>2 DEF BackendSide, BuiltInv
<1>16. m \in descs' /\ m \notin unsure' /\ unsaid'[m] = None /\ t_handles'[m] # None
         => parts'[t_handles'[m]] = PartIn(meant'[m], t_handles')
  <2> SUFFICES ASSUME m \notin unsure', unsaid'[m] = None, t_handles[m] # None
               PROVE  parts'[t_handles[m]] = PartIn(meant'[m], t_handles)
    BY <1>3
  <2>1. ~told(o)
    BY <1>1
  <2>2. works(o)
    <3>1. t # None
      BY DriverShimAssumption
    <3>2. ~works(o) => unsaid'[m] = t
      BY <1>1, <2>1 DEF BackendSide, BackendTyped
    <3>3. QED
      BY <3>1, <3>2
  <2>3. meant'[m] = n
    BY <1>1, <2>1 DEF BackendSide, BackendTyped
  <2>4. parts'[t_handles[m]] = PartOf(n)
    BY <1>1, <1>12, <2>2 DEF BackendSide, BackendTyped
  <2>5. QED
    BY <1>11, <2>3, <2>4
<1>17. /\ m >= next_handle' => meant'[m] = NotSet
       /\ meant'[m] \in Minted => meant'[m] < next_handle'
  <2>1. ~(m >= next_handle)
    BY <1>10 DEF Minted, BackendSide, MathsTyped
  <2>2. meant'[m] \in {meant[m], n}
    BY <1>1 DEF BackendSide, BackendTyped
  <2>3. QED
    BY <1>2, <1>3, <1>10, <2>1, <2>2 DEF BackendSide, BuiltInv
<1>18. next_handle' >= next_handle /\ next_handle' \in Nat
  BY <1>3 DEF BackendSide, MathsTyped
<1> HIDE DEF works, told
<1>19. BuiltInv'
  BY <1>2, <1>3, <1>4, <1>5, <1>6, <1>7, <1>14, <1>15, <1>16, <1>17, <1>18, NoMathsIs, BuiltStep DEF BackendSide
<1>20. QED
  BY <1>6, <1>8, <1>13, <1>19 DEF BackendSide

(* A call that is answered takes along the failure held for its thread:    *)
(* the descriptors it is about are excused.                                *)
LEMMA TakesStep ==
  ASSUME BackendSide, UNCHANGED <<program, lib, noted, mine, tensorVars, parts, meant, unsaid>>, Makes("backend"),
         NEW t \in Threads, NEW c \in MathsRec, Moves(t, c), StageFits(c),
         NEW works, Takes(t, works), unsure' = unsure \union Excused(t, works),
         c.stage \in {None, "finalized"},
         c.stage = "finalized" => /\ c.m \in descs /\ \A u \in Threads \ {t} : maths[u].m # c.m
                                  /\ c.r = "ok" => t \notin held /\ Resolves(c.m)
  PROVE  BackendSide'
<1>1. UNCHANGED <<next_handle, t_handles, types, descs>>
  BY DEF tensorVars
<1>2. maths' \in [Threads -> MathsRec] /\ (\A u \in Threads : StageFits(maths[u]))'
  BY MovesTyped DEF BackendSide
<1>3. MathsTyped'
  BY <1>1, <1>2 DEF BackendSide, MathsTyped
<1>4. BackendTyped'
  BY DEF BackendSide, BackendTyped, Plain, Takes
<1>5. MintsInv'
  <2>1. \A n \in Minted : n >= next_handle => types'[n] = 0
    BY <1>1 DEF BackendSide, MintsInv
  <2>2. \A v \in Values : lib[v] # Nothing => lib'[v] # Nothing
    OBVIOUS
  <2>3. c.stage # "forget" /\ (c.stage \in DescUsers => c.stage = "finalized")
    BY DEF None, DescUsers
  <2>4. QED
    BY <1>1, <2>1, <2>2, <2>3, MintsMove DEF BackendSide
<1>6. 0 \notin Minted /\ descs \subseteq Minted
  BY DEF Minted, BackendSide, MathsTyped
<1>7. \A n \in Minted \ unsure' : unsaid'[n] # None => unsaid'[n] \in held'
  <2> SUFFICES ASSUME NEW n \in Minted, n \notin unsure', unsaid[n] # None PROVE unsaid[n] \in held'
    OBVIOUS
  <2>1. n \notin unsure /\ n \notin Excused(t, works)
    OBVIOUS
  <2>2. unsaid[n] \in held
    BY <2>1 DEF BackendSide, BuiltInv
  <2>3. CASE works
    <3>1. unsaid[n] # t
      BY <2>1, <2>2, <2>3 DEF Excused
    <3>2. QED
      BY <2>2, <2>3, <3>1 DEF Takes
  <2>4. CASE ~works
    BY <2>2, <2>4 DEF Takes
  <2>5. QED
    BY <2>3, <2>4
<1>8. \A n \in Minted \ {0} : /\ t_handles'[n] = t_handles[n] /\ unsaid'[n] = unsaid[n] /\ meant'[n] = meant[n]
                              /\ n \in descs' => n \in descs
                              /\ n \in unsure => n \in unsure'
                              /\ Resolves(n) => parts'[t_handles[n]] = parts[t_handles[n]]
  BY <1>1
<1>9. \A u \in Threads : maths[u].stage = "finalized" => maths[u].m # 0
  BY <1>6 DEF BackendSide, MintsInv, DescUsers
<1>10. c.stage = "finalized" /\ c.r = "ok" /\ c.m \notin unsure' => t_handles'[c.m] # None /\ unsaid'[c.m] # t
  <2> SUFFICES ASSUME c.stage = "finalized", c.r = "ok", c.m \notin unsure'
               PROVE  t_handles[c.m] # None /\ unsaid[c.m] # t
    BY <1>1
  <2>1. c.m \in Minted /\ c.m \notin unsure /\ t \notin held /\ Resolves(c.m)
    BY <1>6
  <2>2. t # None
    BY DriverShimAssumption
  <2>3. QED
    BY <2>1, <2>2 DEF BackendSide, BuiltInv, Resolves
<1>11. next_handle' >= next_handle /\ next_handle' \in Nat
  BY <1>1 DEF BackendSide, MathsTyped
<1>12. 0 \notin descs'
  BY <1>1, <1>6
<1>13. BuiltInv'
  BY <1>3, <1>6, <1>7, <1>8, <1>9, <1>10, <1>11, <1>12, BuiltStep DEF BackendSide
<1>14. QED
  BY <1>2, <1>3, <1>4, <1>5, <1>13 DEF BackendSide

(* cudnnBackendFinalize: a success means that the thread was held nothing, *)
(* and what is held by others excuses nobody.                              *)
LEMMA BackendFinalizeWrites ==
  ASSUME BackendSide, UNCHANGED program, NEW t \in Threads, NEW m \in Minted, BackendFinalize(t, m)
  PROVE  BackendSide'
<1> DEFINE works(o) == o.ran /\ Resolves(m)
           r(o)     == IF o.r = "ok" THEN Answer(t, works(o)) ELSE o.r
<1>1. PICK o \in Outcomes :
        /\ maths' = [maths EXCEPT ![t] = [NoMaths EXCEPT !.stage = "finalized", !.m = m, !.r = r(o)]]
        /\ Takes(t, works(o)) /\ unsure' = unsure \union Excused(t, works(o))
  BY DEF BackendFinalize
<1>2. /\ UsesDesc(t, m) /\ Makes("backend")
      /\ UNCHANGED <<lib, noted, mine, tensorVars, parts, meant, unsaid>>
  BY DEF BackendFinalize
<1> DEFINE c == Finalizing(m, r(o))
<1>3. r(o) \in Results
  BY OutcomesAre DEF Results, Answer
<1>4. r(o) = "ok" => t \notin held /\ Resolves(m)
  BY DEF Answer
<1>5. Moves(t, c)
  BY <1>1 DEF Moves, Finalizing
<1> HIDE DEF r, works
<1>6. c \in MathsRec /\ c.stage = "finalized" /\ c.x = None /\ c.m = m /\ c.r = r(o)
  BY <1>3, FinalizingIs
<1> HIDE DEF c
<1>7. StageFits(c)
  BY <1>2, <1>6, DescFits
<1>8. m \in descs /\ \A u \in Threads : maths[u].m # m
  BY <1>2 DEF UsesDesc
<1>9. UNCHANGED <<program, lib, noted, mine, tensorVars, parts, meant, unsaid>>
  BY <1>2
<1>10. QED
  BY <1>1, <1>2, <1>4, <1>5, <1>6, <1>7, <1>8, <1>9, TakesStep

(* A call that is answered takes along what the thread is held, and those  *)
(* it was held for are excused.                                            *)
LEMMA BackendAnswers ==
  ASSUME BackendSide, UNCHANGED program, NEW t \in Threads,
         BackendFinalized(t) \/ AskVersion(t) \/ \E m \in Minted : BackendAsk(t, m)
  PROVE  BackendSide'
<1>1. NoMaths \in MathsRec /\ StageFits(NoMaths) /\ NoMaths.stage \in {None, "finalized"} /\ NoMaths.stage # "finalized"
  BY NoMathsIs DEF None
<1>2. maths[t] = NoMaths /\ UNCHANGED maths => Moves(t, NoMaths)
  BY DEF Moves, BackendSide, MathsTyped
<1>3. CASE BackendFinalized(t)
  <2>1. Moves(t, NoMaths) /\ UNCHANGED <<program, lib, noted, mine, tensorVars, parts, meant, unsaid, held, unsure>>
    BY <1>3, Stopped DEF BackendFinalized, backendVars
  <2>2. Makes("backend")
    BY <1>3 DEF BackendFinalized, At, BackendSide, StageFits
  <2>3. Takes(t, FALSE) /\ Excused(t, FALSE) = {}
    BY <2>1 DEF Takes, Excused
  <2>4. unsure' = unsure \union Excused(t, FALSE)
    BY <2>1, <2>3
  <2>5. UNCHANGED <<program, lib, noted, mine, tensorVars, parts, meant, unsaid>>
    BY <2>1
  <2>6. QED
    BY <1>1, <2>1, <2>2, <2>3, <2>4, <2>5, TakesStep
<1>4. CASE AskVersion(t)
  <2>1. Makes("backend") /\ maths[t] = NoMaths /\ UNCHANGED <<program, lib, noted, maths, mine, tensorVars, parts, meant, unsaid>>
    BY <1>4 DEF AskVersion, Quiet
  <2>2. Takes(t, TRUE) /\ unsure' = unsure \union Excused(t, TRUE)
    BY <1>4 DEF AskVersion
  <2>3. Moves(t, NoMaths) /\ UNCHANGED <<program, lib, noted, mine, tensorVars, parts, meant, unsaid>>
    BY <1>2, <2>1
  <2>4. QED
    BY <1>1, <2>1, <2>2, <2>3, TakesStep
<1>5. ASSUME NEW m \in Minted, BackendAsk(t, m) PROVE BackendSide'
  <2>1. PICK o \in Outcomes : /\ Takes(t, o.ran /\ Resolves(m))
                              /\ unsure' = unsure \union Excused(t, o.ran /\ Resolves(m))
    BY <1>5 DEF BackendAsk
  <2>2. Makes("backend") /\ maths[t] = NoMaths /\ UNCHANGED <<program, lib, noted, maths, mine, tensorVars, parts, meant, unsaid>>
    BY <1>5 DEF BackendAsk, UsesDesc, Quiet
  <2>3. Moves(t, NoMaths) /\ UNCHANGED <<program, lib, noted, mine, tensorVars, parts, meant, unsaid>>
    BY <1>2, <2>2
  <2> DEFINE works == o.ran /\ Resolves(m)
  <2>4. Takes(t, works) /\ unsure' = unsure \union Excused(t, works)
    BY <2>1
  <2> HIDE DEF works
  <2>5. QED
    BY <1>1, <2>2, <2>3, <2>4, TakesStep
<1>6. QED
  BY <1>3, <1>4, <1>5

(* A descriptor is destroyed, or leaks.                                    *)
LEMMA BackendDestroyWrites ==
  ASSUME BackendSide, UNCHANGED program, NEW t \in Threads, NEW m \in Minted, BackendDestroy(t, m)
  PROVE  BackendSide'
<1>1. PICK o \in AsyncOutcomes, destroyed \in {TRUE, ~MayFail} :
        /\ Unmints(m, o.ran, destroyed)
        /\ put_status(t, o.r # "ok", ~o.ran \/ ~Resolves(m) \/ ~destroyed)
  BY DEF BackendDestroy
<1>2. /\ UsesDesc(t, m) /\ Makes("backend") /\ UNCHANGED <<noted, maths, mine, next_handle, types, unsure, meant, unsaid>>
      /\ parts' = [v \in Values |-> IF lib'[v] = Nothing THEN None ELSE parts[v]]
  BY DEF BackendDestroy
<1>3. maths[t] = NoMaths /\ m \in descs /\ \A u \in Threads : maths[u].m # m
  BY <1>2 DEF UsesDesc, Quiet
<1>4. Moves(t, NoMaths)
  BY <1>2, <1>3 DEF Moves, BackendSide, MathsTyped
<1>5. NoMaths.stage # "forget" /\ NoMaths.stage # "finalized" /\ NoMaths.stage \in {None, "forget"}
  BY NoMathsIs DEF None
<1>6. /\ MathsTyped' /\ MintsInv' /\ descs' = descs \ {m} /\ (\A u \in Threads : StageFits(maths[u]))'
      /\ \A n \in Minted \ {m} :
           t_handles'[n] = t_handles[n] /\ (Resolves(n) => lib'[t_handles[n]] = lib[t_handles[n]])
  BY <1>1, <1>2, <1>4, <1>5, NoMathsIs, MintsUnmade DEF BackendSide
<1>7. held' \in SUBSET Threads /\ held \subseteq held'
  BY <1>1 DEF put_status, BackendSide, BackendTyped
<1>8. BackendTyped'
  <2>1. parts' \in [Values -> Values \union {None, "plain"}]
    BY <1>2 DEF BackendSide, BackendTyped
  <2>2. QED
    BY <1>2, <1>7, <2>1 DEF BackendSide, BackendTyped, Plain
<1>9. \A n \in Minted \ {m} : /\ t_handles'[n] = t_handles[n] /\ unsaid'[n] = unsaid[n] /\ meant'[n] = meant[n]
                              /\ n \in descs' => n \in descs
                              /\ n \in unsure => n \in unsure'
                              /\ Resolves(n) => parts'[t_handles[n]] = parts[t_handles[n]]
  <2>1. ASSUME NEW n \in Minted \ {m}, Resolves(n) PROVE parts'[t_handles[n]] = parts[t_handles[n]]
    <3>1. t_handles[n] \in Values /\ lib[t_handles[n]] # Nothing
      BY <2>1 DEF BackendSide, MathsTyped, Resolves, MintsInv
    <3>2. lib'[t_handles[n]] # Nothing
      BY <1>6, <2>1, <3>1
    <3>3. QED
      BY <1>2, <3>1, <3>2
  <2>2. QED
    BY <1>2, <1>6, <2>1
<1>10. \A n \in Minted \ unsure' : unsaid'[n] # None => unsaid'[n] \in held'
  BY <1>2, <1>7 DEF BackendSide, BuiltInv
<1>11. \A u \in Threads : maths[u].stage = "finalized" => maths[u].m # m
  BY <1>3
<1>12. m \notin descs'
  BY <1>6
<1>13. /\ m >= next_handle' => meant'[m] = NotSet
       /\ meant'[m] \in Minted => meant'[m] < next_handle'
  BY <1>2 DEF BackendSide, BuiltInv
<1>14. next_handle' >= next_handle /\ next_handle' \in Nat
  BY <1>2 DEF BackendSide, MathsTyped
<1>15. BuiltInv'
  BY <1>2, <1>4, <1>5, <1>6, <1>9, <1>10, <1>11, <1>12, <1>13, <1>14, NoMathsIs, BuiltStep DEF BackendSide
<1>16. QED
  BY <1>6, <1>8, <1>15 DEF BackendSide

-----------------------------------------------------------------------------
(* What is remembered of the maths libraries holds of every step.          *)

LEMMA MathsBegins == Init => MathsInv
<1> SUFFICES ASSUME Init PROVE MathsInv
  OBVIOUS
<1>1. /\ lib = [v \in Values |-> Nothing] /\ noted = [a \in Attrs |-> [v \in Values |-> 0]]
      /\ maths = [t \in Threads |-> NoMaths] /\ mine = {} /\ descs = {} /\ next_handle = 1
      /\ t_handles = [m \in Minted |-> None] /\ types = [m \in Minted |-> 0]
      /\ parts = [v \in Values |-> None] /\ meant = [m \in Minted |-> NotSet] /\ held = {}
      /\ unsaid = [m \in Minted |-> None]
  BY DEF Init, LibrariesInit, MathsInit
<1>2. \A t \in Threads : maths[t] = NoMaths
  BY <1>1
<1>3. /\ NoMaths \in MathsRec /\ StageFits(NoMaths)
      /\ NoMaths.stage \notin Holders \union DescUsers \union {"erase", "erase desc", "forget"}
  BY NoMathsIs DEF None, Holders, Users, DescUsers
<1>4. MathsTyped
  <2>1. MaxMint \in Nat
    BY MathsAssumption
  <2>2. 1 \in Nat \ {0} /\ 1 <= MaxMint + 1
    BY <2>1
  <2>3. maths \in [Threads -> MathsRec]
    BY <1>1, <1>3
  <2>4. noted \in [Attrs -> [Values -> Bit]] /\ types \in [Minted -> Bit]
    BY <1>1 DEF Bit
  <2>5. QED
    BY <1>1, <2>2, <2>3, <2>4 DEF MathsTyped
<1>5. BackendTyped
  <2>1. NotSet \in 0 .. Plain
    BY MathsAssumption DEF NotSet, Plain
  <2>2. QED
    BY <1>1, <2>1 DEF BackendTyped
<1>6. HandlesInv
  <2>1. ASSUME NEW v \in Values PROVE HandleFits(v, lib[v], NotedIn(noted, v), v \in mine, v \in unsure, maths)
    <3>1. \A a \in Attrs : NotedIn(noted, v)[a] = 0
      BY <1>1 DEF NotedIn
    <3>2. \A u \in Threads : ~OnHandle(maths[u], v)
      BY <1>2, <1>3 DEF OnHandle
    <3>3. v \notin mine /\ {"stream", "mode", "scale"} = Attrs
      BY <1>1 DEF Attrs
    <3>4. QED
      BY <3>1, <3>2, <3>3 DEF HandleFits
  <2>2. QED
    BY <1>1, <1>2, <1>3, <2>1 DEF HandlesInv
<1>7. MintsInv
  BY <1>1, <1>2, <1>3 DEF MintsInv, Resolves
<1>8. WidthsInv
  BY <1>1, <1>2, <1>3 DEF WidthsInv, Resolves
<1>9. BuiltInv
  <2>1. NotSet \notin Minted
    BY DEF NotSet, Minted
  <2>2. QED
    BY <1>1, <1>2, <1>3, <2>1 DEF BuiltInv, DescUsers
<1>10. QED
  BY <1>2, <1>3, <1>4, <1>5, <1>6, <1>7, <1>8, <1>9 DEF MathsInv

HandleNext(t) ==
  \/ CreateHandle(t) \/ BlasNote(t) \/ Erase(t) \/ GemmScalar(t) \/ Computes(t) \/ GemmSent(t)
  \/ DnnStreamSet(t) \/ DnnDestroyed(t) \/ DnnExecuted(t)
  \/ LtCreated(t) \/ LtIsSet(t) \/ LtErase(t) \/ LtMatmulSent(t)
  \/ \E to \in {0, 1} :
       \/ LtCreate(t, to)
       \/ \E v \in Values :
            \/ DnnSetStream(t, v, to)
            \/ \E a \in {"stream", "mode"} : BlasSet(t, v, a, to)
            \/ \E a \in {"mode", "scale"} : LtSet(t, v, a, to)
  \/ \E v \in Values :
       BlasDestroy(t, v) \/ Gemm(t, v) \/ DnnDestroy(t, v) \/ DnnExecute(t, v) \/ LtDestroy(t, v) \/ LtMatmul(t, v)
TensorNext(t) ==
  \/ MintDescriptor(t) \/ Remember(t) \/ Forget(t) \/ BatchNormSent(t)
  \/ \E to \in {0, 1}, m \in Minted : SetTensor(t, m, to)
  \/ \E m \in Minted : DestroyTensor(t, m) \/ BatchNorm(t, m)

(* The calls on handles, and those on tensor descriptors.                  *)
LEMMA MathsSplit == ASSUME NEW t, MathsNext(t) PROVE HandleNext(t) \/ TensorNext(t)
  BY DEF MathsNext, HandleNext, TensorNext

(* A call on a handle preserves what is remembered.                        *)
LEMMA HandleKeeps ==
  ASSUME MathsInv, program \in Programs, UNCHANGED <<program, backendVars>>, NEW t \in Threads, HandleNext(t)
  PROVE  MathsInv'
<1>1. HandleSide
  BY DEF MathsInv, HandleSide
<1>2. UNCHANGED program
  OBVIOUS
<1>3. StageFits(maths[t])
  BY <1>1 DEF HandleSide
<1>4. CASE \/ CreateHandle(t) \/ BlasNote(t) \/ Erase(t) \/ GemmScalar(t) \/ Computes(t) \/ GemmSent(t)
           \/ DnnDestroyed(t) \/ DnnExecuted(t) \/ LtCreated(t) \/ LtErase(t) \/ LtMatmulSent(t)
  <2>1. HandleSide'
    BY <1>1, <1>2, <1>4, CreateHandleWrites, BlasNoteWrites, EraseWrites, GemmScalarReads, ComputesReads, ReadsSent,
       DnnDestroyedWrites, LtCreatedWrites, LtEraseWrites
  <2>2. UsesHandles
    BY <1>3, <1>4 DEF UsesHandles, StageFits, CreateHandle, BlasNote, Erase, GemmScalar, Computes, GemmSent,
       DnnDestroyed, DnnExecuted, LtCreated, LtErase, LtMatmulSent, At
  <2>3. UNCHANGED tensorVars
    BY <1>4 DEF CreateHandle, BlasNote, Erase, GemmScalar, Computes, GemmSent,
       DnnDestroyed, DnnExecuted, LtCreated, LtErase, LtMatmulSent
  <2>4. QED
    BY <2>1, <2>2, <2>3, MintsElse DEF MathsInv, HandleSide
<1>5. ASSUME NEW to \in {0, 1}, NEW v \in Values,
             \/ \E a \in {"stream", "mode"} : BlasSet(t, v, a, to)
             \/ DnnSetStream(t, v, to) \/ (\E a \in {"mode", "scale"} : LtSet(t, v, a, to))
             \/ DnnStreamSet(t) \/ LtIsSet(t) \/ LtCreate(t, to)
      PROVE  MathsInv'
  <2>1. HandleSide'
    BY <1>1, <1>2, <1>5, BlasSetWrites, SetsWrite, LtCreateWrites DEF Bit
  <2>2. UsesHandles
    BY <1>3, <1>5 DEF UsesHandles, StageFits, BlasSet, DnnSetStream, LtSet, DnnStreamSet, LtIsSet, LtCreate, At
  <2>3. UNCHANGED tensorVars
    BY <1>5 DEF BlasSet, DnnSetStream, LtSet, DnnStreamSet, LtIsSet, LtCreate
  <2>4. QED
    BY <2>1, <2>2, <2>3, MintsElse DEF MathsInv, HandleSide
<1>6. ASSUME NEW v \in Values,
             \/ BlasDestroy(t, v) \/ Gemm(t, v) \/ DnnDestroy(t, v) \/ DnnExecute(t, v) \/ LtDestroy(t, v) \/ LtMatmul(t, v)
      PROVE  MathsInv'
  <2>1. HandleSide'
    BY <1>1, <1>2, <1>6, BlasDestroyWrites, GemmReads, DnnDestroyWrites, DnnExecuteReads, LtDestroyWrites, LtMatmulReads
  <2>2. UsesHandles
    BY <1>6 DEF UsesHandles, BlasDestroy, Gemm, DnnDestroy, DnnExecute, LtDestroy, LtMatmul
  <2>3. UNCHANGED tensorVars
    BY <1>6 DEF BlasDestroy, Gemm, DnnDestroy, DnnExecute, LtDestroy, LtMatmul
  <2>4. QED
    BY <2>1, <2>2, <2>3, MintsElse DEF MathsInv, HandleSide
<1>7. CASE DnnStreamSet(t) \/ LtIsSet(t)
  <2>1. maths[t].x \in Values /\ 0 \in {0, 1}
    BY <1>3, <1>7 DEF StageFits, DnnStreamSet, LtIsSet, At, Holders, Users
  <2>2. QED
    BY <1>5, <1>7, <2>1
<1>8. ASSUME NEW to \in {0, 1}, LtCreate(t, to) PROVE MathsInv'
  <2>1. \E v \in Values : TRUE
    BY <1>8 DEF LtCreate
  <2>2. QED
    BY <1>5, <1>8, <2>1
<1>9. QED
  BY <1>4, <1>5, <1>6, <1>7, <1>8 DEF HandleNext

(* A call on a tensor descriptor does.                                     *)
LEMMA TensorKeeps ==
  ASSUME MathsInv, program \in Programs, UNCHANGED <<program, backendVars>>, NEW t \in Threads, TensorNext(t)
  PROVE  MathsInv'
<1>1. TensorSide
  BY DEF MathsInv, TensorSide
<1>2. UNCHANGED program
  OBVIOUS
<1>3. StageFits(maths[t])
  BY <1>1 DEF TensorSide
<1>4. TensorSide'
  BY <1>1, <1>2, MintDescriptorWrites, SetTensorWrites, RememberWrites, DestroyTensorWrites, ForgetWrites, BatchNormWrites,
     BatchNormSentWrites DEF TensorNext, Bit
<1>5. Makes("tensor") /\ UNCHANGED <<noted, mine>>
  BY <1>3 DEF TensorNext, StageFits, MintDescriptor, SetTensor, Remember, DestroyTensor, Forget, BatchNorm, BatchNormSent, At
<1>6. ~UsesHandles /\ ~Makes("backend")
  BY <1>5, Exclusive
<1>7. HandlesInv'
  BY <1>4, <1>5, <1>6, HandlesElse DEF MathsInv, TensorSide
<1>8. BuiltInv'
  BY <1>6 DEF BuiltInv, Makes
<1>9. BackendTyped'
  BY DEF MathsInv, BackendTyped, backendVars, Plain
<1>10. QED
  BY <1>4, <1>7, <1>8, <1>9 DEF MathsInv, TensorSide

(* A call of the backend does.                                             *)
LEMMA BackendKeeps ==
  ASSUME MathsInv, program \in Programs, UNCHANGED program, NEW t \in Threads, BackendNext(t)
  PROVE  MathsInv'
<1>1. BackendSide
  BY DEF MathsInv, BackendSide
<1>2. StageFits(maths[t])
  BY <1>1 DEF BackendSide
<1>3. BackendSide'
  BY <1>1, BackendCreateWrites, BackendSetWrites, BackendFinalizeWrites, BackendAnswers, BackendDestroyWrites DEF BackendNext
<1>4. Makes("backend") /\ UNCHANGED <<noted, mine>>
  BY <1>2 DEF BackendNext, StageFits, BackendCreate, BackendSet, BackendFinalize, BackendFinalized, BackendAsk, AskVersion,
     BackendDestroy, At
<1>5. ~UsesHandles /\ ~Makes("tensor")
  BY <1>4, Exclusive
<1>6. HandlesInv'
  BY <1>3, <1>4, <1>5, HandlesElse DEF MathsInv, BackendSide
<1>7. WidthsInv'
  BY <1>5 DEF WidthsInv, Makes
<1>8. QED
  BY <1>3, <1>6, <1>7 DEF MathsInv, BackendSide

(* Every step does: those of the runtime and of kernels touch none of it.  *)
LEMMA MathsKeeps == TypeInv /\ MathsInv /\ [Next]_vars => MathsInv'
<1> SUFFICES ASSUME TypeInv, MathsInv, [Next]_vars PROVE MathsInv'
  OBVIOUS
<1>1. program \in Programs
  BY DEF TypeInv, RtTyped
<1>2. ASSUME UNCHANGED <<program, mathsVars, backendVars>> PROVE MathsInv'
  <2>1. UNCHANGED <<program, lib, noted, maths, mine, next_handle, t_handles, types, descs, unsure, parts, meant, held, unsaid>>
    BY <1>2 DEF mathsVars, tensorVars, backendVars
  <2>2. MathsTyped' /\ BackendTyped'
    BY <2>1 DEF MathsInv, MathsTyped, BackendTyped, Plain
  <2>3. \A b : Makes(b)' <=> Makes(b)
    BY <2>1 DEF Makes
  <2>4. (\A t \in Threads : StageFits(maths[t]))'
    BY <2>1, <2>3 DEF MathsInv, StageFits
  <2>5. HandlesInv'
    BY <2>1, HandleParts DEF MathsInv
  <2>6. MintsInv'
    BY <2>1, <2>3 DEF MathsInv, MintsInv, Resolves
  <2>7. WidthsInv'
    BY <2>1, <2>3 DEF MathsInv, WidthsInv, Resolves, ScaleOf
  <2>8. BuiltInv'
    BY <2>1, <2>3 DEF MathsInv, BuiltInv, Resolves, PartOf
  <2>9. QED
    BY <2>2, <2>4, <2>5, <2>6, <2>7, <2>8 DEF MathsInv
<1>3. ASSUME NEW t \in Threads, RuntimeNext(t), UNCHANGED <<mathsVars, backendVars>> PROVE MathsInv'
  <2>1. CASE RtNext(t)
    BY <1>2, <1>3, <2>1, ProgramStays
  <2>2. CASE KernelNext(t)
    <3>1. UNCHANGED program
      BY <2>2 DEF KernelNext, Register, Unregister, Launch, ResolveKnown, ResolveRefused, ResolveShips, ResolveLoaded,
           GetFunction, PackKnown, PackAsks, RecordLayout, AskOfFunction, RunLaunch, rtVars
    <3>2. QED
      BY <1>2, <1>3, <3>1
  <2>3. QED
    BY <1>3, <2>1, <2>2 DEF RuntimeNext
<1>4. ASSUME UNCHANGED runtimeVars PROVE UNCHANGED program
  BY <1>4 DEF runtimeVars, rtVars
<1>5. ASSUME NEW t \in Threads, MathsNext(t), UNCHANGED <<runtimeVars, backendVars>> PROVE MathsInv'
  BY <1>1, <1>4, <1>5, MathsSplit, HandleKeeps, TensorKeeps
<1>6. ASSUME NEW t \in Threads, BackendNext(t), UNCHANGED runtimeVars PROVE MathsInv'
  BY <1>1, <1>4, <1>6, BackendKeeps
<1>7. CASE LibrariesNext
  BY <1>3, <1>5, <1>6, <1>7 DEF LibrariesNext
<1>8. CASE UNCHANGED <<runtimeVars, mathsVars, backendVars>>
  BY <1>2, <1>4, <1>8
<1>9. QED
  BY <1>7, <1>8 DEF Next, vars

(* The inductive invariant of the maths libraries.                         *)
LEMMA MathsHolds == Spec => []MathsInv
<1>1. RuntimeInv => TypeInv
  BY DEF RuntimeInv
<1>2. QED
  BY <1>1, RuntimeHolds, MathsBegins, MathsKeeps, PTL DEF Spec

(* Work is marked on the stream the library runs it on.  (cublas_impl.cpp  *)
(* g_streams, cudnn_impl.cpp stream_of, before a call that computes.)      *)
THEOREM AlwaysMarksItsStream == Spec => []MarksItsStream
<1>1. MathsInv => MarksItsStream
  <2> SUFFICES ASSUME MathsInv, NEW t \in Threads, maths[t].stage \in {"multiply", "execute"}, maths[t].x \notin unsure
               PROVE  maths[t].got.stream = lib[maths[t].x].stream
    BY DEF MarksItsStream
  <2>1. maths[t].stage \in Holders
    BY DEF Holders, Users
  <2>2. FrameSettles(maths[t], lib[maths[t].x], NotedIn(noted, maths[t].x), maths[t].x \in mine, maths[t].x \in unsure)
    BY <2>1 DEF MathsInv, HandlesInv
  <2>3. QED
    BY <2>2 DEF FrameSettles
<1>2. QED
  BY <1>1, MathsHolds, PTL

(* Alpha and beta travel as the library will read them, and of the width   *)
(* it takes them to have.  (cublas_impl.cpp g_modes, cublaslt_impl.cpp     *)
(* g_descs, cudnn_impl.cpp g_tensor_type.)                                 *)
THEOREM AlwaysScalarsAsRead == Spec => []ScalarsAsRead
<1>1. MathsInv => ScalarsAsRead
  <2> SUFFICES ASSUME MathsInv, NEW t \in Threads
               PROVE  LET c == maths[t]
                      IN  /\ c.stage = "multiply" /\ c.x \notin unsure
                               => c.got.mode = lib[c.x].mode /\ c.to = lib[c.x].mode
                          /\ c.stage = "matmul" /\ c.x \notin unsure
                               => c.got.mode = lib[c.x].mode /\ c.got.scale = lib[c.x].scale
                          /\ c.stage = "normalize" /\ c.m \notin unsure /\ Resolves(c.m)
                               => c.got.scale = lib[t_handles[c.m]].scale
    BY DEF ScalarsAsRead
  <2> DEFINE c == maths[t]
  <2>1. c.stage \in Holders
          => FrameSettles(c, lib[c.x], NotedIn(noted, c.x), c.x \in mine, c.x \in unsure)
    BY DEF MathsInv, HandlesInv
  <2>2. ASSUME c.stage = "multiply", c.x \notin unsure PROVE c.got.mode = lib[c.x].mode /\ c.to = lib[c.x].mode
    BY <2>1, <2>2 DEF Holders, Users, FrameSettles
  <2>3. ASSUME c.stage = "matmul", c.x \notin unsure PROVE c.got.mode = lib[c.x].mode /\ c.got.scale = lib[c.x].scale
    BY <2>1, <2>3 DEF Holders, Users, FrameSettles
  <2>4. ASSUME c.stage = "normalize", c.m \notin unsure, Resolves(c.m) PROVE c.got.scale = lib[t_handles[c.m]].scale
    <3>1. Makes("tensor") /\ c.m \in Minted
      BY <2>4 DEF MathsInv, StageFits, DescUsers
    <3>2. QED
      BY <2>4, <3>1 DEF MathsInv, WidthsInv, ScaleOf
  <2>5. QED
    BY <2>2, <2>3, <2>4
<1>2. QED
  BY <1>1, MathsHolds, PTL

(* A finalize that succeeds is of the descriptor the application built.    *)
(* (cudnn_server.cpp's handlers of the backend, and put_status.)           *)
THEOREM AlwaysFinalizedAsMeant == Spec => []FinalizedAsMeant
<1>1. MathsInv => FinalizedAsMeant
  <2> SUFFICES ASSUME MathsInv, NEW t \in Threads, At(t, "finalized"), maths[t].r = "ok", maths[t].m \notin unsure,
                      unsaid[maths[t].m] \in {None, t}, meant[maths[t].m] \in descs \union {Plain}
               PROVE  Resolves(maths[t].m) /\ parts[t_handles[maths[t].m]] = PartOf(meant[maths[t].m])
    BY DEF FinalizedAsMeant
  <2> DEFINE m == maths[t].m
  <2>1. maths[t].stage = "finalized"
    BY DEF At
  <2>2. Makes("backend") /\ m \in descs
    BY <2>1 DEF MathsInv, StageFits, MintsInv, DescUsers
  <2>3. Resolves(m) /\ unsaid[m] # t
    BY <2>1, <2>2 DEF MathsInv, BuiltInv
  <2>4. unsaid[m] = None
    BY <2>3
  <2>5. QED
    BY <2>2, <2>3, <2>4 DEF MathsInv, BuiltInv
<1>2. QED
  BY <1>1, MathsHolds, PTL

=============================================================================
