-------------------------- MODULE MCMultiLevelCache --------------------------
(***************************************************************************)
(* Instances of MultiLevelCache for TLC.                                   *)
(***************************************************************************)
EXTENDS MultiLevelCache

CONSTANTS p1, p2, c1, c2, c3

\* Two calls in one process and one in another; the first process writes
\* through, the second asynchronously.
TwoAndOne == [x \in Call |-> IF x = c3 THEN p2 ELSE p1]
BothAndAsync == [p \in Process |-> IF p = p1 THEN "both" ELSE "local-first-async-remote"]

\* All calls in one process, which writes through.
AllInOne == [x \in Call |-> p1]
AllBoth == [p \in Process |-> "both"]

=============================================================================
