------------------------------- MODULE MCNoCopy -------------------------------
(***************************************************************************)
(* Small instances of NoCopy for TLC.                                      *)
(***************************************************************************)
EXTENDS Dedup, TLC

CONSTANTS p1, p2, p3,       \* PUT requests, and so chains and files rows
          q1, q2, q3,       \* paths
          d1, d2, g1, g2,   \* DELETE and GET requests
          full, tail, twin, \* contents: a full block, two short ones
          hx, hs            \* their hashes

\* tail and twin have one hash: only Compare tells them apart.
Collide == (full :> hx) @@ (tail :> hs) @@ (twin :> hs)

\* Files of one short block, files of two blocks of which one may be shared and
\* one collides, and files of full blocks that repeat.
OneShort == {<<tail>>, <<twin>>}
SameShort == {<<tail>>}
TwoBlocks == {<<full, tail>>, <<full, twin>>}
Repeating == {<<full, full, tail>>, <<full, twin>>}

Interchangeable ==
    Permutations(PutReq) \cup Permutations(Path) \cup Permutations(GetReq)
        \cup Permutations(DelReq)

=============================================================================
