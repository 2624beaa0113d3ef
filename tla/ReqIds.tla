------------------------------- MODULE ReqIds -------------------------------
(***************************************************************************)
(* Request ids: how the client numbers its requests (mint_req_id_locked in *)
(* client/rpc.cpp) and how either side orders two of them                  *)
(* (req_at_or_before in common/wire.h).                                    *)
(*                                                                         *)
(* Ids are unsigned machine words, so they wrap; 0 means "no request" and  *)
(* minting skips it.  The word has Modulus = 2 * Half values: the code's   *)
(* Half is 0x80000000.                                                     *)
(***************************************************************************)
EXTENDS Naturals

CONSTANTS
  Half,     \* half of the id space
  FirstReq  \* the first id minted: 1, unless RGPU_TEST_FIRST_REQ_ID is set

Modulus == 2 * Half
Word    == 0 .. Modulus - 1
NoReq   == 0
Ids     == Word \ {NoReq}

ASSUME HalfAssumption     == Half \in Nat \ {0, 1}
ASSUME FirstReqAssumption == FirstReq \in Ids

-----------------------------------------------------------------------------
(* The unsigned subtraction b - a of two words. *)
Forward(a, b) == IF a <= b THEN b - a ELSE b + Modulus - a

\* Mutant of ReqAtOrBefore: the two words compared as numbers.
PlainOrder(a, b) == a <= b

(* Whether request a is at or before request b: the distance forward from  *)
(* a to b is under half of the id space.  "No request" is before all.      *)
ReqAtOrBefore(a, b) ==
  \/ a = NoReq
  \/ b # NoReq /\ Forward(a, b) < Half

\* Mutant of MintedId: a counter that wrapped hands out "no request".
NoSkipOfZero(next) == next

(* What mint_req_id_locked returns, and leaves in the counter, when the    *)
(* counter holds next.                                                     *)
MintedId(next)   == IF next = NoReq THEN 1 ELSE next
CounterAfter(next) == IF MintedId(next) = Modulus - 1 THEN 0 ELSE MintedId(next) + 1

-----------------------------------------------------------------------------
(* The id of the n-th request of a process whose first id is first.  Exact *)
(* until the ids repeat, which is Modulus - 1 requests later; the 0-th     *)
(* request is "no request".                                                *)
IdFrom(first, n) ==
  IF n = 0 THEN NoReq
  ELSE LET x == first + n - 1
       IN  IF x < Modulus THEN x ELSE x - Modulus + 1

IdOf(n) == IdFrom(FirstReq, n)

(* How far apart two requests may be for their order to be told from their *)
(* ids.  The distance between two ids has to stay under Half, and is one   *)
(* longer than their distance in requests when the skipped 0 lies between. *)
Window == Half - 2
=============================================================================
