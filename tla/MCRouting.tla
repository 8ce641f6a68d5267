------------------------------ MODULE MCRouting -------------------------------
(***************************************************************************)
(* Small instances of Routing for TLC.                                     *)
(***************************************************************************)
EXTENDS Routing, TLC

CONSTANTS b1, b2, v1, v2, c1, c2,   \* block, proxy and chain services
          h1, h2, f1                \* two HEAD requests, a "file" message

Roles ==
    [n \in Node |-> CASE n \in {b1, b2} -> "block"
                      [] n \in {v1, v2} -> "proxy"
                      [] n \in {c1, c2} -> "chain"]

Services == {"block", "proxy", "chain"}

Alike ==
    Permutations(HeadReq) \cup Permutations(Node \cap {b1, b2})
        \cup Permutations(Node \cap {v1, v2}) \cup Permutations(Node \cap {c1, c2})

===============================================================================
