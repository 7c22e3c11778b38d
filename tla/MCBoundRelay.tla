---------------------------- MODULE MCBoundRelay ----------------------------
(* Two requests and two client lifetimes, the second of which reuses the   *)
(* pid of the first.                                                       *)
EXTENDS BoundRelay, TLC

CONSTANTS l1, l2,   \* lifetimes
          r1, r2    \* requests

MCLife    == {l1, l2}
OneLife   == {l1}
MCRequest == {r1, r2}
SamePid   == [l \in MCLife |-> 1]
OnePid    == [l \in OneLife |-> 1]
RequestSymmetry == Permutations(MCRequest)
=============================================================================
