------------------------------ MODULE StreamOps -----------------------------
(***************************************************************************)
(* The generators of StreamOps.cpp that cut, join, repeat, align and merge *)
(* lists.  Whoever reads the list forces node after node; every node is    *)
(* filled by one pull, in pieces that end where an array of an input or    *)
(* the block ends.                                                         *)
(*                                                                         *)
(* "gen" holds the members of the C++ class under common names: the inputs *)
(* a and b, the counter n, the remembered items held and other, the flag   *)
(* state.  What a function applied by a generator returns is part of the   *)
(* input (b is then its results); it may throw instead, or leave no result *)
(* on the stack, which throws too.  The lists that are read do not throw.  *)
(***************************************************************************)
EXTENDS ListReader

CONSTANTS
  Inputs,     (* what generators are made from, by the word that makes them *)
  BlockSizes, (* of streams (1) and of signals                             *)
  Sentinel,   (* the number that change compares its first item with       *)
  MaxNodes    (* bound: how many nodes of an endless list are forced       *)

ASSUME StreamOpsAssumption ==
  /\ BlockSizes \subseteq Nat \ {0} /\ MaxNodes \in Nat
  /\ \A op \in DOMAIN Inputs : \A i \in Inputs[op] :
       i.op = op /\ i.n \in Nat /\ IsInput(i.a) /\ IsInput(i.b)

VARIABLES
  given,     (* the input                                                  *)
  blockSize, (* Gen::mBlockSize                                            *)
  gen,       (* the generator's members                                    *)
  pulling,   (* pull has begun and not produced its array                  *)
  left,      (* its framesToFill                                           *)
  block,     (* the items written to the array                             *)
  out,       (* the nodes that have been forced                            *)
  ended,     (* the last one was the end of the list                       *)
  threw      (* what an exception has done to the pull (see below)         *)

vars == <<given, blockSize, gen, pulling, left, block, out, ended, threw>>
fixed == <<given, blockSize>>

Walkers == {"cyc", "ncyc", "append", "add", "hang"} (* pass arrays on      *)

(* "produced": pull has caught it, produced its array and ended the list.  *)
(* "again": nothing has changed, the next pull does the same.  "escaped":  *)
(* pull has been left; its array can be read, but the generator still has  *)
(* that cell as the one to fill.  "aborted": the next pull has met this.   *)
Broken == {"escaped", "aborted"}

(* The item that hang and longas hold at first: 0 in a stream, anything in *)
(* a signal, where nobody initialises it (Hangz, LongAsZ).  It is given    *)
(* with the input, as n.                                                   *)
HoldFromStart == {"hang", "longas"}
HeldFirst(i) ==
  IF i.op = "change" THEN Sentinel ELSE IF i.op \in HoldFromStart THEN i.n ELSE 0

(* The members after the constructor: cat skips the list it starts with.   *)
Made(i) ==
  [op |-> i.op, n |-> i.n, held |-> HeldFirst(i), other |-> 0, done |-> FALSE,
   a |-> IF i.op = "cat" THEN Reader(One(i.b)) ELSE i.a,
   b |-> IF i.op = "cat" THEN Past(i.b) ELSE i.b,
   stack |-> <<>>, state |-> "once"]

Init ==
  /\ \E op \in DOMAIN Inputs : given \in Inputs[op]
  /\ blockSize \in BlockSizes
  /\ given.op \in HoldFromStart /\ blockSize = 1 => given.n = 0
  /\ gen = Made(given)
  /\ pulling = FALSE /\ left = 0 /\ block = <<>>
  /\ out = <<>> /\ ended = FALSE /\ threw = "no"

-----------------------------------------------------------------------------
(* Forcing a node                                                          *)

MayForce == ~ ended /\ ~ pulling /\ Len(out) < MaxNodes
End ==
  /\ ended' = TRUE /\ out' = Append(out, <<>>)
  /\ UNCHANGED <<fixed, gen, pulling, left, block, threw>>
EndDone == MayForce /\ gen.done /\ End

(* The node becomes the first one of a list. *)
Linked(nodes) == ended' = TRUE /\ out' = out \o nodes

Pass(array, g) ==
  /\ out' = Append(out, array) /\ gen' = g
  /\ UNCHANGED <<fixed, pulling, left, block, ended, threw>>
Fill(array, g) == Pass(array, [g EXCEPT !.done = TRUE])

(* One whole pull of a generator that passes on the arrays of a.           *)
Walk ==
  LET nodes == gen.a.nodes
      NextOf(g) == [g EXCEPT !.a.nodes = Tail(@)]
      again == [gen EXCEPT !.a = given.a]
  IN
  /\ MayForce /\ ~ gen.done /\ gen.op \in Walkers
  /\ CASE gen.op = "cyc" ->
            LET g == IF nodes = <<>> THEN again ELSE gen
            IN  Pass(g.a.nodes[1], NextOf(g))
       [] gen.op = "ncyc" ->
            IF nodes = <<>> /\ gen.n <= 1 THEN End
            ELSE LET g == IF nodes = <<>> THEN [again EXCEPT !.n = @ - 1] ELSE gen
                 IN  Pass(g.a.nodes[1], NextOf(g))
       [] gen.op = "append" ->
            IF nodes # <<>> THEN Pass(nodes[1], NextOf(gen))
            ELSE \/ IF IsConstant(gen.b) THEN End (* no list of such items *)
                    ELSE Linked(gen.b.nodes) /\ UNCHANGED <<fixed, gen, pulling, left, block, threw>>
                 \/ threw' = "again" /\ UNCHANGED <<fixed, gen, pulling, left, block, out, ended>>
       [] gen.op = "add" ->
            IF nodes \notin {<<>>, << <<>> >>} THEN Pass(nodes[1], NextOf(gen))
            ELSE Fill(<<given.n>>, gen)
       [] gen.op = "hang" ->
            IF nodes \notin {<<>>, << <<>> >>}
            THEN Pass(nodes[1], [NextOf(gen) EXCEPT !.held =
                   IF nodes[1] = <<>> THEN @ ELSE Last(nodes[1])])
            ELSE Pass([i \in 1 .. blockSize |-> gen.held], [gen EXCEPT !.a.nodes = <<>>])

(* The others allocate an array and fill it piece by piece.                *)
ToFill == IF gen.op \in {"keep", "take"} THEN Smaller(gen.n, blockSize) ELSE blockSize
Pull ==
  /\ MayForce /\ ~ gen.done /\ gen.op \notin Walkers
  /\ IF ToFill <= 0 THEN End
     ELSE /\ pulling' = TRUE /\ left' = ToFill /\ block' = <<>>
          /\ gen' = IF gen.op = "keep" THEN [gen EXCEPT !.n = @ - ToFill] ELSE gen
          /\ UNCHANGED <<fixed, out, ended, threw>>

Write(items, g) ==
  /\ block' = block \o items /\ left' = left - Len(items) /\ gen' = g
  /\ UNCHANGED <<fixed, pulling, out, ended, threw>>
Remember(g) == Write(<<>>, g)

DoneForgotten(g) == Remember(g)                                  (* mutant *)
SetDone(g) == Remember([g EXCEPT !.done = TRUE])

Filling == pulling /\ threw \notin Broken
Produce ==
  /\ Filling /\ (left = 0 \/ gen.done)
  /\ out' = Append(out, block) /\ pulling' = FALSE /\ left' = 0 /\ block' = <<>>
  /\ UNCHANGED <<fixed, gen, ended, threw>>

(* The last array is cut to what has been written, and a list follows it.  *)
ProduceAndLink(items, nodes) ==
  /\ out' = (out \o <<block \o items>>) \o nodes /\ ended' = TRUE
  /\ pulling' = FALSE /\ left' = 0 /\ block' = <<>>
  /\ gen' = [gen EXCEPT !.done = TRUE]
  /\ UNCHANGED <<fixed, threw>>

(* The function applied to an item throws: what there is is produced.      *)
ApplyThrows(g) ==
  /\ gen' = [g EXCEPT !.done = TRUE] /\ threw' = "produced"
  /\ UNCHANGED <<fixed, pulling, left, block, out, ended>>

(* Nobody catches it: the array stays as long as it was made, with default *)
(* values behind what has been written.  The generator is not used again:  *)
(* whoever forces the next node finds assert(mGen) false.                  *)
Escape(items) ==
  /\ block' = block \o items /\ left' = left - Len(items) /\ threw' = "escaped"
  /\ UNCHANGED <<fixed, gen, pulling, out, ended>>
Abort ==
  /\ threw = "escaped" /\ threw' = "aborted"
  /\ UNCHANGED <<fixed, gen, pulling, left, block, out, ended>>

-----------------------------------------------------------------------------
(* One turn of a generator's loop                                          *)

Turn(op) == Filling /\ left > 0 /\ ~ gen.done /\ gen.op = op
Zeros(k) == [i \in 1 .. k |-> 0]
Repeated(v, k) == [i \in 1 .. k |-> v]

Keep ==
  /\ Turn("keep")
  /\ LET k == Count(gen.a, left)
     IN  IF Ended(gen.a) THEN SetDone(gen)
         ELSE Write(Items(gen.a, k), [gen EXCEPT !.a = Advance(@, k)])

(* Every piece takes from the counter what was left of the block.          *)
Take ==
  /\ Turn("take")
  /\ LET k == Count(gen.a, left)
     IN  IF Ended(gen.a) THEN ProduceAndLink(<<>>, <<Zeros(gen.n)>>)
         ELSE Write(Items(gen.a, k), [gen EXCEPT !.a = Advance(@, k), !.n = @ - left])

Cat ==
  /\ Turn("cat")
  /\ LET k == Count(gen.a, left)
     IN  IF ~ Ended(gen.a) THEN Write(Items(gen.a, k), [gen EXCEPT !.a = Advance(@, k)])
         ELSE IF Ended(gen.b) THEN SetDone(gen)
         ELSE LET g == [gen EXCEPT !.b = Past(@)]
              IN  Remember([g EXCEPT !.a = Reader(One(gen.b))]) \/ ApplyThrows(g) \/ Escape(<<>>)

(* The lists that are being read are a and, outside it, the stack.         *)
Flat ==
  /\ Turn("flat")
  /\ LET g == [gen EXCEPT !.a = Past(@)]
     IN  IF Ended(gen.a)
         THEN IF gen.stack = <<>> THEN SetDone(gen)
              ELSE Remember([gen EXCEPT !.a = Last(gen.stack), !.stack = Front(@)])
         ELSE IF One(gen.a).list # <<>>
         THEN Remember([gen EXCEPT !.a = Reader(One(gen.a).list), !.stack = Append(@, g.a)])
         ELSE Write(<<One(gen.a).number>>, g)

(* The loop stops at the first false item, having written those before, or *)
(* at one for which the function throws.                                   *)
KeepWhile ==
  /\ Turn("keepWhile")
  /\ IF Ended(gen.a) \/ Ended(gen.b) THEN SetDone(gen)
     ELSE LET k == Count(gen.b, Count(gen.a, left))
              false == SelectInSeq(Items(gen.b, k), LAMBDA x : x = 0)
              g == [gen EXCEPT !.a = Advance(@, k), !.b = Advance(@, k)]
          IN  \/ IF false = 0 THEN Write(Items(gen.a, k), g)
                 ELSE Write(Items(gen.a, false - 1), [g EXCEPT !.done = TRUE])
              \/ \E j \in 0 .. (IF false = 0 THEN k ELSE false) - 1 : Escape(Items(gen.a, j))

(* Repeating an item (stutter), or writing zeros after it (spread).        *)
Padded == gen.n > 0
PadWith(v) ==
  LET k == Smaller(gen.n, left)
  IN  Write(Repeated(v, k), [gen EXCEPT !.n = @ - k])
ReadCounted ==
  [gen EXCEPT !.a = Past(@), !.b = Past(@), !.held = One(gen.a), !.n = One(gen.b)]
Uncounted == Ended(gen.a) \/ Ended(gen.b)
Stutter ==
  /\ Turn("stutter")
  /\ IF Padded THEN PadWith(gen.held)
     ELSE IF Uncounted THEN SetDone(gen)
     ELSE Remember(ReadCounted) \/ ApplyThrows(ReadCounted) \/ Escape(<<>>)
Spread ==
  /\ Turn("spread")
  /\ IF Padded THEN PadWith(0)
     ELSE IF Uncounted THEN SetDone(gen)
     ELSE Write(<<One(gen.a)>>, ReadCounted) \/ ApplyThrows(ReadCounted) \/ Escape(<<>>)

Change ==
  /\ Turn("change")
  /\ IF Ended(gen.a) THEN SetDone(gen)
     ELSE LET v == One(gen.a)
              g == [gen EXCEPT !.a = Past(@), !.held = v]
          IN  IF v = gen.held THEN Remember(g) ELSE Write(<<v>>, g)

Expand ==
  /\ Turn("expand")
  /\ IF Ended(gen.b) \/ (One(gen.b) # 0 /\ Ended(gen.a)) THEN SetDone(gen)
     ELSE LET g == [gen EXCEPT !.b = Past(@)]
          IN  IF One(gen.b) = 0 THEN Write(<<0>>, g)
              ELSE Write(<<One(gen.a)>>, [g EXCEPT !.a = Past(@)])

(* "state" tells whether a group has been begun; held is the group.        *)
Clump ==
  /\ Turn("clump")
  /\ IF gen.state = "once"
     THEN IF Ended(gen.b) THEN SetDone(gen)
          ELSE Remember([gen EXCEPT !.b = Past(@), !.n = One(gen.b), !.held = <<>>,
                                    !.state = "group"])
     ELSE IF gen.n = 0 THEN Write(<<gen.held>>, [gen EXCEPT !.state = "once"])
     ELSE IF Ended(gen.a) THEN SetDone(gen)
     ELSE Remember([gen EXCEPT !.a = Past(@), !.n = @ - 1, !.held = Append(@, One(gen.a))])

ShortAs ==
  /\ Turn("shortas")
  /\ IF Ended(gen.a) \/ Ended(gen.b) THEN SetDone(gen)
     ELSE LET k == Count(gen.b, Count(gen.a, left))
          IN  Write(Items(gen.a, k), [gen EXCEPT !.a = Advance(@, k), !.b = Advance(@, k)])

(* longas repeats the last item of a, longas0 adds zeros.                  *)
LongAs(op) ==
  /\ Turn(op)
  /\ IF Ended(gen.b) THEN SetDone(gen)
     ELSE LET n0 == Count(gen.b, left)
              k == IF Ended(gen.a) THEN n0 ELSE Count(gen.a, n0)
              last == IF op = "longas" THEN gen.held ELSE 0
              items == IF Ended(gen.a) THEN Repeated(last, k) ELSE Items(gen.a, k)
          IN  Write(items, [gen EXCEPT !.b = Advance(@, k), !.held = Last(items),
                                       !.a = IF Ended(@) THEN @ ELSE Advance(@, k)])

(* The first item is passed on, each later one added to the result so far. *)
Scan1 ==
  /\ Turn("scan1")
  /\ IF Ended(gen.a) THEN SetDone(gen)
     ELSE IF gen.state = "once"
     THEN Write(<<One(gen.a)>>, [gen EXCEPT !.a = Past(@), !.held = One(gen.a), !.state = "sum"])
     ELSE LET sum == gen.held + One(gen.a)
          IN  Write(<<sum>>, [gen EXCEPT !.a = Past(@), !.held = sum]) \/ Escape(<<>>)

(* Suffixes of the list, each n items further on, n taken from b.          *)
Hops ==
  /\ Turn("hops")
  /\ IF gen.state = "once"
     THEN Write(<<gen.a.nodes>>, [gen EXCEPT !.state = "hop"])
     ELSE IF Ended(gen.b) THEN SetDone(gen)
     ELSE LET list == Skip(gen.a.nodes, One(gen.b))
          IN  Write(<<list>>, [gen EXCEPT !.a.nodes = list, !.b = Past(@)])

(* The items at the head of a and b are held and other; the one of which   *)
(* the last item came is read on.  When a list ends, the other is linked.  *)
ReadsEither(last) == TRUE                                        (* mutant *)
Reads(last) == gen.state \in {"once", last}
Merge ==
  LET readsA == Reads("a")
      readsB == Reads("b")
      x == IF readsA THEN One(gen.a) ELSE gen.held
      y == IF readsB THEN One(gen.b) ELSE gen.other
      a == IF readsA THEN Past(gen.a) ELSE gen.a
      b == IF readsB THEN Past(gen.b) ELSE gen.b
      g == [gen EXCEPT !.a = a, !.b = b, !.held = x, !.other = y]
  IN  /\ Turn("merge")
      /\ IF readsA /\ Ended(gen.a)
         THEN ProduceAndLink(IF gen.state = "once" THEN <<>> ELSE <<gen.other>>, Rest(gen.b))
         ELSE IF readsB /\ Ended(gen.b)
         THEN ProduceAndLink(<<x>>, Rest(a))
         ELSE \/ IF x <= y THEN Write(<<x>>, [g EXCEPT !.state = "a"])
                 ELSE Write(<<y>>, [g EXCEPT !.state = "b"])
              \/ Escape(<<>>)

Next ==
  \/ EndDone \/ Walk \/ Pull \/ Produce \/ Abort
  \/ Keep \/ Take \/ Cat \/ Flat \/ KeepWhile \/ Stutter \/ Spread \/ Change \/ Expand
  \/ Clump \/ ShortAs \/ LongAs("longas") \/ LongAs("longas0") \/ Scan1 \/ Hops \/ Merge

(* A reader goes on to force nodes.                                        *)
Spec == Init /\ [][Next]_vars /\ WF_vars(Next)

-----------------------------------------------------------------------------
Flattened(list) == FlattenSeq(list)
Written == FlattenSeq(out) \o block
LeftOf(r) == Len(Flattened(r.nodes)) - r.offset

(* A generator that writes as many items as it reads has read no more than *)
(* it has written: reading ahead would force nodes of the input that may   *)
(* depend on this one, and a list waits for itself forever.  (merge has to *)
(* hold an item of each input.)                                            *)
InStep == {"keep", "take", "expand", "shortas", "longas", "longas0", "scan1"}
ReadsWhatItWrites ==
  LET read == LeftOf(given.a) - LeftOf(gen.a)
  IN  /\ given.op \in InStep => read <= Len(Written)
      /\ given.op = "merge" /\ ~ ended =>
           read + LeftOf(given.b) - LeftOf(gen.b) <= Len(Written) + 1
=============================================================================
