---------------------------- MODULE CudnnBackend ----------------------------
(***************************************************************************)
(* cuDNN's backend descriptors (client/cudnn_impl.cpp 275-384): created    *)
(* under minted handles and given their attributes, other descriptors      *)
(* among them, by calls that are not answered; then finalized by one that  *)
(* is.  A failure of a call that is not answered is held by the server for *)
(* the thread that made it, and told by its next call that is answered and *)
(* succeeds (server/main.cpp 790-861; CallStream has that in detail).      *)
(***************************************************************************)
EXTENDS MathsHandles

VARIABLES
  parts,    \* cuDNN: the last attribute of each descriptor
  meant,    \* the application: the last it set, with success
  held,     \* the server: the threads a failure is held for
  unsaid    \* history: the thread whose failed call a descriptor is without
backendVars == <<parts, meant, held, unsaid>>

-----------------------------------------------------------------------------
NotSet == 0
Plain  == MaxMint + 1     \* an attribute that is not a descriptor
PartOf(n) == CASE n = NotSet -> None [] n = Plain -> "plain" [] OTHER -> t_handles[n]

LibrariesInit ==
  /\ RuntimeInit /\ MathsInit
  /\ parts = [v \in Values |-> None]
  /\ meant = [m \in Minted |-> NotSet]
  /\ held = {}
  /\ unsaid = [m \in Minted |-> None]

-----------------------------------------------------------------------------
\* Mutant of put_status: the status goes in the payload alone, which is dropped.
PayloadOnly(t, told, failed) == UNCHANGED held

(* A failed call that is not answered marks its frame, and is held.        *)
put_status(t, told, failed) == held' = IF failed /\ ~told THEN held \cup {t} ELSE held

(* What a call that is answered returns, and what it takes along.          *)
Answer(t, works) == IF works /\ t \notin held THEN "ok" ELSE "error"
Takes(t, works)  == held' = IF works THEN held \ {t} ELSE held
Excused(t, works) == IF works /\ t \in held THEN {m \in Minted : unsaid[m] = t} ELSE {}

-----------------------------------------------------------------------------
(* cudnnBackendCreateDescriptor.                                           *)
BackendCreate(t) ==
  /\ Quiet(t) /\ Makes("backend")
  /\ \E o \in AsyncOutcomes :
       /\ Mints(o)
       /\ put_status(t, o.r # "ok", ~o.ran)
  /\ UNCHANGED <<noted, maths, mine, types, unsure, parts, meant, unsaid>>

(* cudnnBackendSetAttribute: the descriptor, and a descriptor it is given, *)
(* are resolved before the library sees them.                              *)
resolve_descriptors(m, n) == Resolves(m) /\ (n # Plain => Resolves(n))
BackendSet(t, m, n) ==
  /\ UsesDesc(t, m) /\ Makes("backend")
  /\ \E o \in AsyncOutcomes :
       LET works == o.ran /\ resolve_descriptors(m, n)
           told  == o.r # "ok"
       IN  /\ parts' = IF works THEN [parts EXCEPT ![t_handles[m]] = PartOf(n)] ELSE parts
           /\ put_status(t, told, ~works)
           /\ meant' = IF told THEN meant ELSE [meant EXCEPT ![m] = n]
           /\ unsaid' = IF works \/ told THEN unsaid ELSE [unsaid EXCEPT ![m] = t]
           /\ unsure' = IF told THEN unsure \cup {m} ELSE unsure
  /\ UNCHANGED <<lib, noted, maths, mine, tensorVars>>

(* cudnnBackendFinalize, and its return.                                   *)
BackendFinalize(t, m) ==
  /\ UsesDesc(t, m) /\ Makes("backend")
  /\ \E o \in Outcomes :
       LET works == o.ran /\ Resolves(m)
       IN  /\ maths' = [maths EXCEPT ![t] = [NoMaths EXCEPT !.stage = "finalized", !.m = m,
                          !.r = IF o.r = "ok" THEN Answer(t, works) ELSE o.r]]
           /\ Takes(t, works)
           /\ unsure' = unsure \cup Excused(t, works)
  /\ UNCHANGED <<lib, noted, mine, tensorVars, parts, meant, unsaid>>
BackendFinalized(t) ==
  /\ At(t, "finalized")
  /\ Done(t)
  /\ UNCHANGED <<lib, noted, mine, tensorVars, unsure, backendVars>>

(* cudnnBackendInitialize and cudnnBackendGetAttribute: answered, too.     *)
BackendAsk(t, m) ==
  /\ UsesDesc(t, m) /\ Makes("backend")
  /\ \E o \in Outcomes :
       /\ Takes(t, o.ran /\ Resolves(m))
       /\ unsure' = unsure \cup Excused(t, o.ran /\ Resolves(m))
  /\ UNCHANGED <<lib, noted, maths, mine, tensorVars, parts, meant, unsaid>>

(* cudnnGetVersion and its like are answered and have no status to return: *)
(* the failure they take along reaches nobody.                             *)
AskVersion(t) ==
  /\ Quiet(t) /\ Makes("backend") /\ t \in held
  /\ Takes(t, TRUE)
  /\ unsure' = unsure \cup Excused(t, TRUE)
  /\ UNCHANGED <<lib, noted, maths, mine, tensorVars, parts, meant, unsaid>>

(* cudnnBackendDestroyDescriptor.                                          *)
BackendDestroy(t, m) ==
  /\ UsesDesc(t, m) /\ Makes("backend")
  /\ \E o \in AsyncOutcomes, destroyed \in {TRUE, ~MayFail} :
       /\ Unmints(m, o.ran, destroyed)
       /\ put_status(t, o.r # "ok", ~o.ran \/ ~Resolves(m) \/ ~destroyed)
  /\ parts' = [v \in Values |-> IF lib'[v] = Nothing THEN None ELSE parts[v]]
  /\ UNCHANGED <<noted, maths, mine, next_handle, types, unsure, meant, unsaid>>

BackendNext(t) ==
  \/ BackendCreate(t) \/ BackendFinalized(t) \/ AskVersion(t)
  \/ \E m \in Minted :
       \/ \E n \in (descs \ {m}) \cup {Plain} : BackendSet(t, m, n)
       \/ BackendFinalize(t, m) \/ BackendAsk(t, m) \/ BackendDestroy(t, m)

LibrariesNext == \E t \in Threads :
  \/ RuntimeNext(t) /\ UNCHANGED <<mathsVars, backendVars>>
  \/ program.calls \cap {"blas", "dnn", "lt", "tensor"} # {} /\ MathsNext(t)
     /\ UNCHANGED <<runtimeVars, backendVars>>
  \/ BackendNext(t) /\ UNCHANGED runtimeVars

-----------------------------------------------------------------------------
(* cudnn_impl.cpp 76-80: nothing is lost by not waiting, because finalizing*)
(* a descriptor waits, and fails.  A finalize that succeeds is of the      *)
(* descriptor the application built, of the descriptors it built it from:  *)
(* whether one of the calls that built it, or that made a part of it,      *)
(* failed in the library, or named a handle that was never made.  Unless   *)
(* the application was told by another call before, or called one that has *)
(* no status to return; or finalizes on another thread than the one whose  *)
(* call failed, for which no failure is held.                              *)
FinalizedAsMeant ==
  \A t \in Threads :
    LET m == maths[t].m
    IN  (/\ At(t, "finalized") /\ maths[t].r = "ok"
         /\ m \notin unsure /\ unsaid[m] \in {None, t}
         /\ meant[m] \in descs \cup {Plain})
          => Resolves(m) /\ parts[t_handles[m]] = PartOf(meant[m])
=============================================================================
