----------------------------- MODULE Allocator -----------------------------
(***************************************************************************)
(* What an allocator promises its callers: a piece of memory of at least   *)
(* the size asked for, apart from every other piece, until it is freed.    *)
(***************************************************************************)
EXTENDS Integers

VARIABLE live   \* the pieces in use: [start, size, want]

Bytes(r) == r.start .. r.start + r.size - 1

AInit == live = {}

Obtain ==
  \E r \in live' :
    /\ r \notin live /\ live' = live \cup {r}
    /\ r.size >= r.want
    /\ \A s \in live : Bytes(s) \cap Bytes(r) = {}

Release == \E r \in live : live' = live \ {r}

ASpec == AInit /\ [][Obtain \/ Release]_live
=============================================================================
