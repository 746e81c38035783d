-------------------------- MODULE MCReverseProxy --------------------------
(* Small instances of ReverseProxy for TLC.                                *)
EXTENDS ReverseProxy, TLC

CONSTANTS n1, n2   \* backend nodes

\* An edit takes a node away and halves the limit of the pool.
MCPoolNodes == <<{n1, n2}, {n2}>>
MCPoolLimit == <<2, 1>>
MCNodeLimit == <<1, 1>>

Alike == Permutations(Requests) \cup Permutations(Sites)
=============================================================================
