------------------------- MODULE LazyListRefinement -------------------------
(***************************************************************************)
(* The cells, locks and generators of LazyList implement Stream: an item   *)
(* counts as computed when its block has been produced.                    *)
(***************************************************************************)
EXTENDS LazyList, FiniteSets

(* The places (cell and index) of the items of a list that are computed.   *)
Places(l) ==
  UNION {{i} \X (1 .. Len(array[l][i])) : i \in {j \in Cells : Published(l, j)}}
Computed(l) == Cardinality(Places(l))

Abstract == INSTANCE Stream WITH made <- [l \in Lists |-> Computed(l)]

(* Whatever the threads do, the lists behave as fixed sequences computed   *)
(* once, in order and on demand, and a reader has the beginning of its     *)
(* list, no item lost, doubled or unwritten: each step of List::force,     *)
(* Gen::pull and the cursors is a step of Stream or changes nothing a      *)
(* reader can see.                                                         *)
ImplementsStream == Abstract!Spec
=============================================================================
