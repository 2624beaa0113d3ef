----------------------------- MODULE StubParams -----------------------------
(***************************************************************************)
(* How a parameter of a driver function crosses the network.  A buffer     *)
(* (common/wire.h 143-243) is a flat sequence of fields, without tags: a   *)
(* reader that expects another field takes what is there.  A field of fixed*)
(* size is one unit, a unit being an integer; bytes of a length known only *)
(* at run time are as many units as the length says.                       *)
(***************************************************************************)
EXTENDS Integers, Sequences, SequencesExt

Mode(m, size) == [mode |-> m, size |-> size]
In      == Mode("in", 0)            \* a scalar or a handle
Str     == Mode("string", 0)
Image   == Mode("image", 0)         \* code, which describes its own length
PodIn   == Mode("pod in", 0)
Out     == Mode("out", 0)           \* a pointer to one scalar or handle
PodOut  == Mode("pod out", 0)
Ignored == Mode("ignored", 0)
\* As many units as the parameter at that place says, or as the type does (0).
InBuf(size)  == Mode("in buffer", size)
OutBuf(size) == Mode("out buffer", size)
OfType == 1

(* An argument: a pointer may be null, and points to units.  That of an    *)
(* output buffer is described by its length.                               *)
Arg(given, units) == [given |-> given, units |-> units]
Null == Arg(FALSE, <<>>)

IsOutput(p)  == p.mode \in {"out", "pod out", "out buffer"}
IsPointer(p) == p # In
SizeOf(p, args) == IF p.size = 0 THEN OfType ELSE args[p.size].units[1]
\* Fields of a sequence of parameters, one after the other.
Concat(f(_), n) == FlattenSeq([i \in 1..n |-> f(i)])

-----------------------------------------------------------------------------
(* Writing.                                                                *)
Flag(a)      == <<IF a.given THEN 1 ELSE 0>>
Sized(units) == <<Len(units)>> \o units

(* Reading: what is left, whether a read has overrun, and what was got.    *)
Reader(units) == [left |-> units, ok |-> TRUE, got |-> <<>>]
Take(r, n, x) ==
  IF r.ok /\ n <= Len(r.left)
  THEN [left |-> SubSeq(r.left, n + 1, Len(r.left)), ok |-> TRUE, got |-> Append(r.got, x)]
  ELSE [r EXCEPT !.ok = FALSE]
\* A field the reader does not look for.
Skip(r) == [r EXCEPT !.got = Append(@, Null)]
\* The k-th unit that is left, and n units from there.
At1(r, k)      == IF k <= Len(r.left) THEN r.left[k] ELSE 0
Span(r, k, n)  == SubSeq(r.left, k, k + n - 1)
=============================================================================
