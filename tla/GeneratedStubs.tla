--------------------------- MODULE GeneratedStubs ---------------------------
(***************************************************************************)
(* The generated half of the driver's interface: 252 stubs that write a    *)
(* request and read a response, and as many cases of a switch that read    *)
(* the request, call the driver and write the response                     *)
(* (codegen/emit.py 128-346 writes both).  The calls of one thread, of     *)
(* which some return before the server has seen them.  The connection is   *)
(* perfect here: CallStream has the rest.                                  *)
(***************************************************************************)
EXTENDS ClientStubs, ServerStubs

CONSTANTS
  Sizes,       \* the lengths of buffers
  MaxFrames    \* bound: requests the server has not taken yet

ASSUME StubAssumption == Sizes \subseteq Nat /\ MaxFrames \in Nat \ {0}

VARIABLES
  stub,     \* the stub's call: the application's, until the next one
  frames,   \* requests on their way, with what the application passed
  ran       \* history: what a case last called the driver with, or refused
stubVars == <<stub, frames, ran>>

NoStub == [stage |-> "idle", fn |-> "none", args |-> <<>>, rsp |-> <<>>, r |-> "none", memory |-> <<>>]
NotRun == [fn |-> "none", refused |-> FALSE, saw |-> <<>>, passed |-> <<>>]
StubInit == stub = NoStub /\ frames = <<>> /\ ran = NotRun

-----------------------------------------------------------------------------
(* cuda.h, external: functions with a pointer to more than one element, or *)
(* to one the driver reads, where a lone output is all the generator sees. *)
TakenForOne == {"cuDeviceGetPCIBusId", "cuGraphGetEdges", "cuGraphicsMapResources",
                "cuGraphicsUnmapResources", "cuTexRefGetBorderColor", "cuTexRefSetBorderColor"}

(* What the driver writes to the output at a place.                        *)
Digit(i) == 20 + i
Written(p, i, args) ==
  IF p.mode = "out buffer" THEN [j \in 1..SizeOf(p, args) |-> Digit(i)] ELSE <<Digit(i)>>

(* What a call of the application's own driver would leave in its memory.  *)
Locally(fn, args) == [i \in DOMAIN args |->
  LET p == Stubs[fn].params[i]
  IN  IF ~IsOutput(p) \/ ~args[i].given THEN <<>>
      ELSE IF fn \in TakenForOne THEN <<Digit(i), Digit(i)>> ELSE Written(p, i, args)]

(* The arguments an application may pass: any pointer may be null, and a   *)
(* buffer is as long as the parameter beside it says.  An image is not     *)
(* empty.                                                                  *)
Given(p, i, n) ==
  CASE p.mode \in {"string", "in buffer"} -> [j \in 1..n |-> 10 + i]
    [] p.mode \in {"in", "image", "pod in"} -> <<10 + i>>
    [] OTHER -> <<>>
Arguments(params) ==
  LET places   == DOMAIN params
      lengths  == {params[i].size : i \in places} \ {0}
      sized    == \E i \in places : params[i].mode = "string" \/ params[i].size # 0
      pointers == {i \in places : IsPointer(params[i])}
      Made(set, n) == [i \in places |->
        CASE i \in lengths -> Arg(TRUE, <<n>>)
          [] params[i].mode = "out buffer" -> Arg(i \in set, <<IF params[i].size = 0 THEN OfType ELSE n>>)
          [] i \in pointers /\ i \notin set -> Null
          [] OTHER -> Arg(TRUE, Given(params[i], i, n))]
  IN  {Made(set, n) : set \in SUBSET pointers, n \in IF sized THEN Sizes ELSE {OfType}}

-----------------------------------------------------------------------------
(* The client: what a stub writes for a parameter.                         *)
put_request(p, a) ==
  CASE p.mode = "in" -> a.units
    [] p.mode \in {"out", "pod out"} -> Flag(a)
    [] p.mode \in {"pod in", "out buffer"} -> Flag(a) \o a.units
    [] p.mode \in {"string", "image", "in buffer"} -> Flag(a) \o (IF a.given THEN Sized(a.units) ELSE <<>>)
    [] p.mode = "ignored" -> <<>>
Request(fn, args) ==
  LET Field(i) == put_request(Stubs[fn].params[i], args[i]) IN Concat(Field, Len(args))

(* And what it reads of a response that says success, into the memory the  *)
(* argument points to.                                                     *)
get_response(r, p, a) ==
  IF ~IsOutput(p) \/ ~a.given THEN [r EXCEPT !.got = Append(@, <<>>)]
  ELSE CASE p.mode = "out" -> Take(r, 1, Span(r, 1, 1))
         [] p.mode = "pod out" -> IF At1(r, 1) = 1 THEN Take(r, 2, Span(r, 2, 1)) ELSE [r EXCEPT !.ok = FALSE]
         [] p.mode = "out buffer" -> Take(r, 1 + At1(r, 1), Span(r, 2, At1(r, 1)))
Response(fn, args, units) ==
  FoldLeftDomain(LAMBDA r, i : get_response(r, Stubs[fn].params[i], args[i]), Reader(units), args)

(* The call goes out, and the stub waits or returns.                       *)
Send(fn, args) ==
  /\ frames' = Append(frames, [fn |-> fn, waits |-> Stubs[fn].waits, units |-> Request(fn, args), passed |-> args])
  /\ stub' = [NoStub EXCEPT !.fn = fn, !.args = args, !.stage = IF Stubs[fn].waits THEN "waiting" ELSE "idle",
                            !.r = IF Stubs[fn].waits THEN "none" ELSE "ok"]
  /\ UNCHANGED ran
CallStub ==
  /\ stub = NoStub /\ ran = NotRun /\ Len(frames) < MaxFrames
  /\ \E fn \in DOMAIN Stubs : \E args \in Arguments(Stubs[fn].params) : Send(fn, args)

(* unimplemented: a stub for a shape the generator does not know.          *)
Unimplemented ==
  /\ stub = NoStub
  /\ stub' = [NoStub EXCEPT !.r = "error"]
  /\ UNCHANGED <<frames, ran>>

(* The answer: nothing is read of one that says failure.                   *)
ReturnStub ==
  /\ stub.stage = "answered"
  /\ LET rsp == Response(stub.fn, stub.args, stub.rsp)
     IN  stub' = IF stub.r = "ok" /\ rsp.ok
                 THEN [stub EXCEPT !.stage = "idle", !.rsp = <<>>, !.memory = rsp.got]
                 ELSE [stub EXCEPT !.stage = "idle", !.rsp = <<>>, !.r = "error"]
  /\ UNCHANGED <<frames, ran>>

(* The application goes on: the history of the call is forgotten.          *)
GoOn ==
  /\ stub.stage = "idle" /\ <<stub, ran>> # <<NoStub, NotRun>>
  /\ stub' = NoStub /\ ran' = NotRun
  /\ UNCHANGED frames

-----------------------------------------------------------------------------
(* The server: what a case reads for a parameter.  A buffer that arrives   *)
(* with no bytes is a null pointer.                                        *)
get_request(r, p) ==
  LET has == At1(r, 1) # 0
      n   == At1(r, 2)
  IN  CASE p.mode = "in" -> Take(r, 1, Arg(TRUE, Span(r, 1, 1)))
        [] p.mode \in {"out", "pod out"} -> Take(r, 1, Arg(has, <<>>))
        [] p.mode = "pod in" -> IF has THEN Take(r, 2, Arg(TRUE, Span(r, 2, 1))) ELSE Take(r, 1, Null)
        [] p.mode = "out buffer" -> Take(r, 2, Arg(has, <<n>>))
        [] p.mode \in {"string", "image", "in buffer"} ->
             IF has THEN Take(r, 2 + n, Arg(TRUE, Span(r, 3, n))) ELSE Take(r, 1, Null)
        [] p.mode = "ignored" -> Skip(r)
Decoded(fn, units) ==
  FoldLeftDomain(LAMBDA r, i : get_request(r, Cases[fn].params[i]), Reader(units), Cases[fn].params)

(* The sizes the client claims are those the driver will use, and an output*)
(* buffer has some.                                                        *)
SizesAgree(fn, args) == \A i \in DOMAIN args :
  LET p == Cases[fn].params[i]
  IN  /\ p.mode = "in buffer" /\ args[i].given => SizeOf(p, args) = Len(args[i].units)
      /\ p.mode = "out buffer" /\ args[i].given => args[i].units[1] = SizeOf(p, args) /\ args[i].units[1] # 0

(* cuda.h, external: a call that returns before it has written its output. *)
Enqueues == {"cuMemcpyDtoHAsync_v2"}

(* What an output holds when it is sent back.                              *)
Zeros(units) == [j \in DOMAIN units |-> 0]
wrote(fn, i, args) ==
  LET units == Written(Cases[fn].params[i], i, args)
  IN  IF fn \in Enqueues /\ ~Cases[fn].syncs THEN Zeros(units) ELSE units

(* The outputs that were asked for, in order.                              *)
put_response(fn, args) ==
  LET Field(i) == LET p == Cases[fn].params[i]
                  IN  IF ~IsOutput(p) \/ ~args[i].given THEN <<>>
                      ELSE IF p.mode = "out" THEN wrote(fn, i, args) ELSE Sized(wrote(fn, i, args))
  IN  Concat(Field, Len(args))

(* dispatch_generated: a request that cannot be read, or whose sizes do not*)
(* agree, is refused; so is one for a function the driver does not have.   *)
(* Otherwise the driver is called.  It may fail, or the wait after it may. *)
Answered(f, r, units) ==
  stub' = IF f.waits THEN [stub EXCEPT !.stage = "answered", !.r = r, !.rsp = units] ELSE stub
Dispatch ==
  /\ frames # <<>>
  /\ frames' = Tail(frames)
  /\ LET f   == Head(frames)
         req == Decoded(f.fn, f.units)
     IN  \/ /\ req.ok => ~SizesAgree(f.fn, req.got)
            /\ Answered(f, "error", <<>>)
            /\ ran' = [NotRun EXCEPT !.fn = f.fn, !.refused = TRUE, !.passed = f.passed]
         \/ /\ req.ok /\ SizesAgree(f.fn, req.got)
            /\ \/ Answered(f, "error", <<>>) /\ UNCHANGED ran
               \/ /\ ran' = [fn |-> f.fn, refused |-> FALSE, saw |-> req.got, passed |-> f.passed]
                  /\ \E r \in {"ok", "error"} : Answered(f, r, put_response(f.fn, req.got))

StubNext == CallStub \/ Unimplemented \/ ReturnStub \/ GoOn \/ Dispatch

-----------------------------------------------------------------------------
(* A buffer of no bytes and none are the same to the driver.  What an      *)
(* ignored parameter is given does not travel.                             *)
AsPassed(p, a, b) ==
  \/ p = Ignored \/ a = b
  \/ p.mode = "in buffer" /\ a.units = <<>> /\ b.units = <<>>

(* "A wrong answer with no error is the worst thing this can do"           *)
(* (codegen/emit.py 63-64).  The driver is called with what the application*)
(* passed, when it passed it: by a stub that has returned, too.  A stub    *)
(* that waits and returns success has left in the application's memory     *)
(* what its own driver would have: every output that was asked for, each in*)
(* its place, and nothing more - but for the functions that take an array  *)
(* where the generator sees one element.  And of what an application may   *)
(* pass, only an output buffer of no bytes is refused.                     *)
EmptyOutput(fn, args) == \E i \in DOMAIN args :
  Stubs[fn].params[i].mode = "out buffer" /\ args[i].given /\ args[i].units = <<0>>
AsIfLocal ==
  /\ IF ran.refused THEN EmptyOutput(ran.fn, ran.passed)
     ELSE \A i \in DOMAIN ran.passed : AsPassed(Stubs[ran.fn].params[i], ran.saw[i], ran.passed[i])
  /\ (stub.fn \in DOMAIN Stubs /\ Stubs[stub.fn].waits /\ stub.stage = "idle" /\ stub.r = "ok"
      /\ stub.fn \notin TakenForOne)
       => stub.memory = Locally(stub.fn, stub.args)
=============================================================================
