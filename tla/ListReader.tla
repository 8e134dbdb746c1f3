----------------------------- MODULE ListReader -----------------------------
(***************************************************************************)
(* How generators read lists (In, VIn, ZIn, BothIn).  A list is the        *)
(* sequence of the arrays of its nodes, which may be empty; a reader is at *)
(* an offset of the first one, or gives a constant forever.                *)
(***************************************************************************)
EXTENDS Integers, Sequences, SequencesExt

Reader(list) == [nodes |-> list, offset |-> 0, constant |-> <<>>]
Constant(v)  == [nodes |-> <<>>, offset |-> 0, constant |-> <<v>>]

IsConstant(r) == r.constant # <<>>
IsList(s) == Len(s) \in Nat /\ s = [i \in 1 .. Len(s) |-> s[i]]
(* A reader as a generator is given it. *)
IsInput(r) ==
  /\ r = [nodes |-> r.nodes, offset |-> 0, constant |-> r.constant]
  /\ IsList(r.nodes) /\ \A i \in 1 .. Len(r.nodes) : IsList(r.nodes[i])
  /\ IsConstant(r) => r.nodes = <<>>
Smaller(m, n) == IF m <= n THEN m ELSE n

(* The reader past the arrays in which there is nothing left.              *)
AtFirstNode(r) == r                                              (* mutant *)
AtItems(r) ==
  LET k == SelectInSeq(r.nodes, LAMBDA array : array # <<>>)
  IN  [r EXCEPT !.nodes = IF k = 0 THEN <<>> ELSE SubSeq(r.nodes, k, Len(r.nodes))]

Ended(r) ==
  LET s == AtItems(r)
  IN  ~ IsConstant(r) /\ (s.nodes = <<>> \/ s.offset = Len(s.nodes[1]))

(* How many of k items the reader gives in one piece, and these.           *)
Count(r, k) ==
  IF IsConstant(r) THEN k ELSE Smaller(k, Len(AtItems(r).nodes[1]) - r.offset)
Items(r, k) ==
  IF IsConstant(r) THEN [i \in 1 .. k |-> r.constant[1]]
  ELSE SubSeq(AtItems(r).nodes[1], r.offset + 1, r.offset + k)

OffsetLeft(r, k) ==                                              (* mutant *)
  LET s == AtItems(r)
  IN  IF IsConstant(r) THEN r
      ELSE IF s.offset + k < Len(s.nodes[1]) THEN [s EXCEPT !.offset = @ + k]
      ELSE [s EXCEPT !.nodes = Tail(@)]
Advance(r, k) ==
  LET s == AtItems(r)
  IN  IF IsConstant(r) THEN r
      ELSE IF s.offset + k < Len(s.nodes[1]) THEN [s EXCEPT !.offset = @ + k]
      ELSE [s EXCEPT !.nodes = Tail(@), !.offset = 0]

(* VIn::one *)
One(r) == Items(r, 1)[1]
Past(r) == Advance(r, 1)

(* VIn::link: the arrays that are left.                                    *)
Rest(r) ==
  IF r.offset = 0 THEN r.nodes
  ELSE <<SubSeq(r.nodes[1], r.offset + 1, Len(r.nodes[1]))>> \o Tail(r.nodes)

(* skip_positive_: the list without its first n items.                     *)
Skip(list, n) ==
  LET Drop(s, array) ==
        IF s.n > 0 /\ Len(array) <= s.n
        THEN [n |-> s.n - Len(array), kept |-> <<>>]
        ELSE [n |-> 0, kept |-> Append(s.kept, SubSeq(array, s.n + 1, Len(array)))]
      kept == FoldLeft(Drop, [n |-> n, kept |-> <<>>], list).kept
  IN  IF kept = <<>> THEN << <<>> >> ELSE kept
=============================================================================
