---------------------------- MODULE MCReadThrough ----------------------------
(***************************************************************************)
(* Instances of ReadThrough for TLC.                                       *)
(***************************************************************************)
EXTENDS ReadThrough

CONSTANTS a, b, k1, k2, k3, c1, c2, c3

\* The caches and keys of three calls, up to exchanging c2 and c3, in which c1 shares its
\* cache and its key with one of the others at least; and three calls of three
\* keys, for which the table is too small.
On(c, k) == [cache |-> c, key |-> k]
Assign(p, q, r) == [x \in Call |-> IF x = c1 THEN p ELSE IF x = c2 THEN q ELSE r]
SomeArgs ==
    {Assign(On(a, k1), On(a, k1), r) : r \in [cache : {a, b}, key : {k1, k2}]}
    \cup {Assign(On(a, k1), On(a, k2), On(b, k1)), Assign(On(a, k1), On(a, k2), On(a, k3))}

=============================================================================
