--------------------------- MODULE ThreadContexts ---------------------------
(***************************************************************************)
(* What the server promises the threads of a client process: that each has *)
(* a CUDA context stack and a stream capture mode of its own, as it would  *)
(* have with the driver in its own process.  There is no serving thread    *)
(* here, and nothing to switch; ContextStacks implements this with one.    *)
(*                                                                         *)
(* A context is a number, in the order of creation over all sessions.  Its *)
(* handle is the address it is given, which is given to another once it is *)
(* destroyed.  Context 1 is the primary one of the device: never destroyed.*)
(***************************************************************************)
EXTENDS Naturals, SequencesExt

CONSTANTS
  Threads,      \* the threads of the client process
  Addrs,        \* addresses the driver gives to contexts
  Primary,      \* the address of the primary context
  Modes,        \* stream capture modes
  DefaultMode,  \* the mode a thread starts in
  MaxStack,     \* max_stack_depth
  MaxCtxs       \* bound: contexts created by anybody

VARIABLES
  at,       \* the context that lives at each address, or NoContext
  ours,     \* the contexts this session may name
  cstack,   \* each thread's context stack, the current one last
  cmode,    \* each thread's capture mode
  gone,     \* threads announced as exited
  answer    \* the answer to the call being made, or NoAnswer
vars == <<at, ours, cstack, cmode, gone, answer>>

Ctxs      == 1 .. MaxCtxs
NoContext == 0
NoMode    == "none"

Answer(result, of, was) == [result |-> result, of |-> of, was |-> was]
NoAnswer == Answer("none", NoContext, NoMode)
Ok(of)   == Answer("ok", of, NoMode)

(* The top replaced, or pushed onto an empty stack.                        *)
WithTop(st, c) == Append(IF st = <<>> THEN st ELSE Front(st), c)

Alive(c)   == \E a \in Addrs : at[a] = c
(* The handles an application may pass: of living contexts of its own.     *)
Handles    == {a \in Addrs : at[a] \in ours}
Created    == {at[a] : a \in Addrs} \union ours

Init ==
  /\ at = [a \in Addrs |-> IF a = Primary THEN 1 ELSE NoContext]
  /\ ours = {1}
  /\ cstack = [t \in Threads |-> <<>>]
  /\ cmode = [t \in Threads |-> DefaultMode]
  /\ gone = {}
  /\ answer = NoAnswer

-----------------------------------------------------------------------------
SetCurrent(t, a) ==
  /\ answer = NoAnswer /\ a \in Handles
  /\ cstack' = [cstack EXCEPT ![t] = WithTop(@, at[a])]
  /\ answer' = Ok(NoContext)
  /\ UNCHANGED <<at, ours, cmode, gone>>

SetNone(t) ==
  /\ answer = NoAnswer
  /\ cstack' = [cstack EXCEPT ![t] = IF @ = <<>> THEN @ ELSE Front(@)]
  /\ answer' = Ok(NoContext)
  /\ UNCHANGED <<at, ours, cmode, gone>>

Push(t, a) ==
  /\ answer = NoAnswer /\ a \in Handles
  /\ IF Len(cstack[t]) < MaxStack
     THEN /\ cstack' = [cstack EXCEPT ![t] = Append(@, at[a])]
          /\ answer' = Ok(NoContext)
     ELSE UNCHANGED cstack /\ answer' = Answer("refused", NoContext, NoMode)
  /\ UNCHANGED <<at, ours, cmode, gone>>

Pop(t) ==
  /\ answer = NoAnswer
  /\ IF cstack[t] # <<>>
     THEN /\ cstack' = [cstack EXCEPT ![t] = Front(@)]
          /\ answer' = Ok(Last(cstack[t]))
     ELSE UNCHANGED cstack /\ answer' = Answer("invalid", NoContext, NoMode)
  /\ UNCHANGED <<at, ours, cmode, gone>>

(* cuCtxGetCurrent: a destroyed context stays current, and is named.       *)
GetCurrent(t) ==
  /\ answer = NoAnswer
  /\ answer' = Ok(IF cstack[t] = <<>> THEN NoContext ELSE Last(cstack[t]))
  /\ UNCHANGED <<at, ours, cstack, cmode, gone>>

(* A context made at a free address, and pushed.                           *)
Create(t, a, c) ==
  /\ answer = NoAnswer
  /\ IF Len(cstack[t]) < MaxStack
     THEN /\ at[a] = NoContext
          /\ at' = [at EXCEPT ![a] = c] /\ ours' = ours \union {c}
          /\ cstack' = [cstack EXCEPT ![t] = Append(@, c)]
          /\ answer' = Ok(NoContext)
     ELSE UNCHANGED <<at, ours, cstack>> /\ answer' = Answer("refused", NoContext, NoMode)
  /\ UNCHANGED <<cmode, gone>>

(* Destroyed, and popped where it is current to the caller; it stays where *)
(* it is in every other place.                                             *)
Destroy(t, a) ==
  /\ answer = NoAnswer /\ a \in Handles \ {Primary}
  /\ at' = [at EXCEPT ![a] = NoContext]
  /\ cstack' = [cstack EXCEPT ![t] =
                  IF @ # <<>> /\ Last(@) = at[a] THEN Front(@) ELSE @]
  /\ answer' = Ok(NoContext)
  /\ UNCHANGED <<ours, cmode, gone>>

ExchangeMode(t, m) ==
  /\ answer = NoAnswer
  /\ cmode' = [cmode EXCEPT ![t] = m]
  /\ answer' = Answer("ok", NoContext, cmode[t])
  /\ UNCHANGED <<at, ours, cstack, gone>>

(* A call that needs a context runs in the caller's, or fails.             *)
Use(t) ==
  /\ answer = NoAnswer
  /\ answer' =
       IF cstack[t] = <<>> THEN Answer("invalid", NoContext, NoMode)
       ELSE IF ~Alive(Last(cstack[t])) THEN Answer("destroyed", NoContext, NoMode)
       ELSE Answer("ok", Last(cstack[t]), cmode[t])
  /\ UNCHANGED <<at, ours, cstack, cmode, gone>>

(* A call into a maths library may make the primary context current where  *)
(* there is none.                                                          *)
Library(t) ==
  /\ answer = NoAnswer
  /\ cstack' = [cstack EXCEPT ![t] =
                  IF @ = <<>> \/ ~Alive(Last(@)) THEN WithTop(@, at[Primary]) ELSE @]
  /\ answer' = Ok(NoContext)
  /\ UNCHANGED <<at, ours, cmode, gone>>

Return == answer # NoAnswer /\ answer' = NoAnswer
          /\ UNCHANGED <<at, ours, cstack, cmode, gone>>

(* An exited thread may be forgotten, and only such a thread.              *)
Announced(t) ==
  /\ answer = NoAnswer
  /\ gone' = gone \union {t}
  /\ \E F \in SUBSET gone' :
       /\ cstack' = [u \in Threads |-> IF u \in F THEN <<>> ELSE cstack[u]]
       /\ cmode' = [u \in Threads |-> IF u \in F THEN DefaultMode ELSE cmode[u]]
  /\ UNCHANGED <<at, ours, answer>>

(* Other sessions make and destroy contexts of theirs, at any time.        *)
OthersCreate(a, c) ==
  /\ at[a] = NoContext
  /\ at' = [at EXCEPT ![a] = c]
  /\ UNCHANGED <<ours, cstack, cmode, gone, answer>>

OthersDestroy(a) ==
  /\ at[a] \notin ours \union {NoContext}
  /\ at' = [at EXCEPT ![a] = NoContext]
  /\ UNCHANGED <<ours, cstack, cmode, gone, answer>>

Next ==
  \/ \E t \in Threads :
       \/ \E a \in Addrs : SetCurrent(t, a) \/ Push(t, a) \/ Destroy(t, a)
       \/ \E a \in Addrs, c \in Ctxs \ Created : Create(t, a, c)
       \/ SetNone(t) \/ Pop(t) \/ GetCurrent(t) \/ Use(t) \/ Library(t)
       \/ \E m \in Modes : ExchangeMode(t, m)
       \/ Announced(t)
  \/ Return
  \/ \E a \in Addrs : OthersDestroy(a) \/ \E c \in Ctxs \ Created : OthersCreate(a, c)

Spec == Init /\ [][Next]_vars
=============================================================================
