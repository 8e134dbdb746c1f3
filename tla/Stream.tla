------------------------------- MODULE Stream -------------------------------
(***************************************************************************)
(* What a pipeline of lazy lists promises its readers, without cells,      *)
(* locks or generators: every list is one fixed sequence that is computed  *)
(* from the front, once, no further than its input has been computed; a    *)
(* reader has a beginning of it, and moves forward over what has been      *)
(* computed.  As in LazyList, item k of every list is the number k.        *)
(***************************************************************************)
EXTENDS Naturals, Sequences

CONSTANTS Readers, Gens, Root, Input, Length

Lists == Gens \cup {Root}

VARIABLES
  made,   (* made[l]: how many items of list l have been computed *)
  got     (* got[r]: the items reader r has taken                 *)

vars == <<made, got>>

Beginning(n) == [k \in 1 .. n |-> k]

Init ==
  /\ made = [l \in Lists |-> IF l = Root THEN Length ELSE 0]
  /\ got  = [r \in Readers |-> <<>>]

Compute(g) ==
  /\ \E n \in made[g] + 1 .. made[Input[g]] : made' = [made EXCEPT ![g] = n]
  /\ UNCHANGED got

Read(r) ==
  /\ \E n \in Len(got[r]) + 1 .. made[Input[r]] : got' = [got EXCEPT ![r] = Beginning(n)]
  /\ UNCHANGED made

Restart(r) ==
  /\ got' = [got EXCEPT ![r] = <<>>]
  /\ UNCHANGED made

Next ==
  \/ \E g \in Gens : Compute(g)
  \/ \E r \in Readers : Read(r) \/ Restart(r)

Spec == Init /\ [][Next]_vars
=============================================================================
