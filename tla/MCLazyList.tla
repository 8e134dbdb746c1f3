----------------------------- MODULE MCLazyList -----------------------------
(* Three threads reading one pipeline root -> g1 -> g2 of three items: two *)
(* read the end of the pipeline, the third the list in the middle.        *)
EXTENDS LazyListRefinement, TLC

CONSTANTS r1, r2, r3, g1, g2, root

MCReaders == {r1, r2, r3}
MCGens    == {g1, g2}
MCInput   == (r1 :> g2) @@ (r2 :> g2) @@ (r3 :> g1) @@ (g2 :> g1) @@ (g1 :> root)
MCBlockSize == (g1 :> 2) @@ (g2 :> 1)
MCFaulty == {<<g1, 4>>}
=============================================================================
