----------------------------- MODULE MCStreamOps ----------------------------
(* Lists of up to three arrays of up to two items.                         *)
EXTENDS StreamPromises

Shapes(k) == UNION {[1 .. m -> 0 .. 2] : m \in 1 .. k}
(* The arrays of a shape, filled with the items f[1], f[2], ... *)
ArraysOf(shape, f) ==
  LET before(j) == Sum(SubSeq(shape, 1, j))
  IN  [j \in 1 .. Len(shape) |-> SubSeq(f, before(j - 1) + 1, before(j))]
Numbered(k) == {ArraysOf(s, [i \in 1 .. Sum(s) |-> i]) : s \in Shapes(k)}
ListsOf(V, k) == UNION {{ArraysOf(s, f) : f \in [1 .. Sum(s) -> V]} : s \in Shapes(k)}

Readers(lists) == {Reader(l) : l \in lists}
Nothing == {Constant(0)}
Make(op, as, bs, ns) == [op : {op}, a : as, b : bs, n : ns]

Number(v) == [list |-> <<>>, number |-> v]
ListItem(l) == [list |-> l, number |-> 0]
Nested ==
  LET in == {ListItem(l) : l \in ListsOf({Number(1)}, 1)}
      deep == {ListItem(<<<<i, Number(2)>>>>) : i \in in}
  IN  ListsOf({Number(3)} \cup in \cup deep, 1) \cup
      {<<<<i>>, <<>>, <<j>>>> : i, j \in in \cup {Number(3)}}

Long3 == Readers(Numbered(3))
Long2 == Readers(Numbered(2))
Counts == Readers(ListsOf({0, 2}, 2))
Flags == Readers(ListsOf({0, 1}, 2))
Constants == {Constant(1), Constant(2)}

Words == {"keep", "take", "cyc", "ncyc", "append", "add", "hang", "cat", "flat", "keepWhile",
          "stutter", "spread", "change", "expand", "clump", "shortas", "longas", "longas0",
          "scan1", "hops", "merge"}
Counted(op) == Make(op, Long2, Counts, {0}) \cup Make(op, Long3, Constants, {0})
MCInputs ==
  [op \in Words |->
   CASE op \in {"keep", "take"} -> Make(op, Long3, Nothing, 1 .. 4)
     [] op \in {"cyc", "ncyc"}  -> {i \in Make(op, Long3, Nothing, {1, 2}) : i.a.nodes # << <<>> >>}
     [] op = "append"           -> Make(op, Long3, Long2 \cup Nothing, {0})
     [] op \in {"add", "scan1"}  -> Make(op, Long3, Nothing, {7})
     [] op = "hang"             -> Make(op, Long3, Nothing, {0, 7})
     [] op = "change"           -> Make(op, Readers(ListsOf({0, 1}, 2)), Nothing, {0})
     [] op = "cat"              -> {i \in Make(op, Nothing, Readers(ListsOf(Numbered(1), 2)), {0}) :
                                      ~ Ended(i.b)}
     [] op = "flat"             -> Make(op, Readers(Nested), Nothing, {0})
     [] op \in {"shortas", "longas0"} -> Make(op, Long3, Long3, {0})
     [] op = "longas"           -> Make(op, Long3, Long3, {0, 7})
     [] op = "expand"           -> Make(op, Long2, Flags, {0})
     [] op = "keepWhile"        -> Make(op, Long2, Flags, {0}) \cup Make(op, Long3, Constants, {0})
     [] op \in {"stutter", "spread", "clump"} -> Counted(op)
     [] op = "hops"             -> Make(op, Long2, Counts, {0})
     [] op = "merge"            -> Make(op, Readers(ListsOf({1, 2}, 2)), Readers(ListsOf({1, 3}, 2)), {0})]
=============================================================================
