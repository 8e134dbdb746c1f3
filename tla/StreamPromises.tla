--------------------------- MODULE StreamPromises --------------------------
(***************************************************************************)
(* What the generators of StreamOps promise, as functions of the items of  *)
(* their inputs, however these are divided into arrays.                    *)
(***************************************************************************)
EXTENDS StreamOps, FiniteSets

(* The promises are about lists; a constant says how a is read.  What the  *)
(* words check of their arguments before they make a generator is assumed: *)
(* ncyc has something to repeat, cat a first list, the items of b are      *)
(* lists for cat and counts for stutter and spread, which start at 0, and  *)
(* none is negative; no item is the one that change begins with.           *)
ItemsIn(r) ==
  (IF IsConstant(r) THEN {r.constant[1]} ELSE {}) \cup
  UNION {{r.nodes[i][j] : j \in 1 .. Len(r.nodes[i])} : i \in 1 .. Len(r.nodes)}

ASSUME PromisesAssumption ==
  \A op \in DOMAIN Inputs : \A i \in Inputs[op] :
    /\ op # "cat" => ~ IsConstant(i.a)
    /\ op \in {"cat", "longas", "longas0"} => ~ IsConstant(i.b)
    /\ op = "ncyc" => i.n > 0 /\ i.a.nodes # <<>>
    /\ op = "cat" => ~ Ended(i.b) /\ \A v \in ItemsIn(i.b) : IsInput(Reader(v))
    /\ op \in {"stutter", "spread"} => i.n = 0 /\ \A v \in ItemsIn(i.b) : v \in Nat
    /\ op = "change" => Sentinel \notin ItemsIn(i.a)

(* A constant is as long as the other list. *)
ItemsOf(r, n) == IF IsConstant(r) THEN Repeated(r.constant[1], n) ELSE Flattened(r.nodes)
FirstOf(s, n) == SubSeq(s, 1, Smaller(n, Len(s)))
Times(s, n) == FlattenSeq([i \in 1 .. n |-> s])
Sum(s) == FoldLeft(LAMBDA x, y : x + y, 0, s)
LastOr(s, v) == IF s = <<>> THEN v ELSE Last(s)

(* The words whose promise takes more than a line; y says how x is read.    *)
Deep == 3 (* bound: how deep the items of a list are nested                *)
FlatOf(s) ==
  LET inside(item) == IF item.list = <<>> THEN <<item>> ELSE Flattened(item.list)
      level[d \in 0 .. Deep] ==
        IF d = 0 THEN s
        ELSE FlattenSeq([i \in 1 .. Len(level[d - 1]) |-> inside(level[d - 1][i])])
  IN  [i \in 1 .. Len(level[Deep]) |-> level[Deep][i].number]
(* from[i, j]: the items of x and y that are left after i and j of them. *)
MergeOf(x, y) ==
  LET from[i \in 0 .. Len(x), j \in 0 .. Len(y)] ==
        IF i = Len(x) THEN SubSeq(y, j + 1, Len(y))
        ELSE IF j = Len(y) THEN SubSeq(x, i + 1, Len(x))
        ELSE IF x[i + 1] <= y[j + 1] THEN <<x[i + 1]>> \o from[i + 1, j]
        ELSE <<y[j + 1]>> \o from[i, j + 1]
  IN  from[0, 0]

AsLongAs(x, y, v) == FirstOf(x \o Repeated(v, Len(y)), Len(y))
CutAs(x, y) == FirstOf(x, Len(y))
FirstNo(s) == SelectInSeq(s, LAMBDA v : v = 0)
Accepted(x, y) ==
  LET asked == CutAs(y, x)
  IN  FirstOf(x, IF FirstNo(asked) = 0 THEN Len(asked) ELSE FirstNo(asked) - 1)
Joined(lists) == FlattenSeq([j \in 1 .. Len(lists) |-> Flattened(lists[j])])
Both(x, y) == 1 .. Smaller(Len(x), Len(y))
Stuttered(x, y) == FlattenSeq([j \in Both(x, y) |-> Repeated(x[j], y[j])])
Apart(x, y) == FlattenSeq([j \in Both(x, y) |-> <<x[j]>> \o Zeros(y[j])])
Changes(x) ==
  FoldLeft(LAMBDA s, v : IF s # <<>> /\ Last(s) = v THEN s ELSE Append(s, v), <<>>, x)
(* How many items of y can be served when they ask for that many of x, and *)
(* what an answer yes (not 0) asks for.                                    *)
Served(x, y) == Cardinality({j \in 1 .. Len(y) : Sum(FirstOf(y, j)) <= Len(x)})
Asks(y) == [j \in 1 .. Len(y) |-> IF y[j] = 0 THEN 0 ELSE 1]
Expanded(x, y) ==
  [j \in 1 .. Served(x, Asks(y)) |-> IF y[j] = 0 THEN 0 ELSE x[Sum(FirstOf(Asks(y), j))]]
Clumps(x, y) ==
  [j \in 1 .. Served(x, y) |-> SubSeq(x, Sum(FirstOf(y, j - 1)) + 1, Sum(FirstOf(y, j)))]
Hopped(x, y) == [j \in 1 .. Len(y) + 1 |-> SubSeq(x, Sum(FirstOf(y, j - 1)) + 1, Len(x))]
Sums(x) == [j \in 1 .. Len(x) |-> Sum(FirstOf(x, j))]

Endless == {"cyc", "hang"}
(* Longer than what is written of an endless list. *)
Long == MaxNodes * 3

PromiseOf(i) ==
  LET x == Flattened(i.a.nodes)
      y == ItemsOf(i.b, Len(x))
  IN
  CASE i.op = "keep"      -> FirstOf(x, i.n)
    [] i.op = "take"      -> FirstOf(x \o Zeros(i.n), i.n)
    [] i.op = "cyc"       -> Times(x, Long)
    [] i.op = "ncyc"      -> Times(x, i.n)
    [] i.op = "append"    -> x \o Flattened(i.b.nodes)
    [] i.op = "add"       -> Append(x, i.n)
    [] i.op = "hang"      -> x \o Repeated(LastOr(x, i.n), Long)
    [] i.op = "cat"       -> Joined(y)
    [] i.op = "flat"      -> FlatOf(x)
    [] i.op = "keepWhile" -> Accepted(x, y)
    [] i.op = "stutter"   -> Stuttered(x, y)
    [] i.op = "spread"    -> Apart(x, y)
    [] i.op = "change"    -> Changes(x)
    [] i.op = "expand"    -> Expanded(x, y)
    [] i.op = "clump"     -> Clumps(x, y)
    [] i.op = "shortas"   -> CutAs(x, y)
    [] i.op = "longas"    -> AsLongAs(x, y, LastOr(x, i.n))
    [] i.op = "longas0"   -> AsLongAs(x, y, 0)
    [] i.op = "scan1"     -> Sums(x)
    [] i.op = "hops"      -> Hopped(x, y)
    [] i.op = "merge"     -> MergeOf(x, y)
Promised == PromiseOf(given)

(* The items that hops writes are lists themselves.                        *)
Produced ==
  IF given.op = "hops" THEN [i \in 1 .. Len(Written) |-> Flattened(Written[i])] ELSE Written

-----------------------------------------------------------------------------
OffsetOK(r) == r.offset = 0 \/ (r.nodes # <<>> /\ r.offset \in 1 .. Len(r.nodes[1]) - 1)
TypeOK ==
  /\ given \in Inputs[given.op] /\ blockSize \in BlockSizes
  /\ {pulling, ended, gen.done} \subseteq BOOLEAN
  /\ threw \in {"no", "produced", "again"} \cup Broken
  /\ OffsetOK(gen.a) /\ OffsetOK(gen.b)
  /\ left \in Nat /\ left + Len(block) <= blockSize

(* Wherever the arrays of the inputs and the blocks end, empty arrays      *)
(* among them, and also when a function throws, what has been written of   *)
(* the list is what it is promised to be.  (It is not all that can be read *)
(* of an array that an exception has left: default values follow.)         *)
ProducedIsPromised == IsPrefix(Produced, Promised)

(* It comes to its end only when all of it has been written, or a function *)
(* has thrown and the pull has ended the list.  take is the exception: it  *)
(* counts what was left of a block when a piece is shorter, so that a      *)
(* signal in short arrays is cut off.                                      *)
Complete == ended /\ threw \in {"no", "again"} => Produced = Promised
OnePiece == blockSize = 1 \/ Len(Flattened(given.a.nodes)) = 0
              \/ (Len(given.a.nodes[1]) >= given.n /\ given.n <= blockSize)
AllIsProduced == (given.op = "take" => OnePiece) => Complete

(* A list made from lists that end ends, and whoever forces its nodes one  *)
(* after another gets there, also when a function has thrown whose         *)
(* exception the pull catches.  When it does not, forcing goes on to the   *)
(* failed assertion; append's function may throw again each time.          *)
Finishes == given.op \notin Endless ~> ended \/ threw \in {"again", "aborted"}
=============================================================================
