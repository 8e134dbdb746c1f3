--------------------------- MODULE LazyListProofs ---------------------------
(***************************************************************************)
(* Proofs about LazyList, for any number of readers, generators and items, *)
(* any wiring of the pipelines and any set of faults.                      *)
(***************************************************************************)
EXTENDS LazyListRefinement, SequenceTheorems, FiniteSetTheorems, TLAPS

(* The program counters at which a client is between the two ends of the   *)
(* SpinLocker of List::force.                                              *)
Holding == {"held", "pulling", "thrown"}

(* A pull of g left by an exception: mGen went to the new cell, mOut did not. *)
Broken(g) == puller[g] = None /\ thunk[g] = {out[g] + 1}

(* The cells of l that some cursor may be on. *)
Reach(l, i) ==
  IF l = Root THEN i = 0
  ELSE i <= out[l] \/ (i = out[l] + 1 /\ Broken(l))

(* What holds of each client: it has the lock of its cell while it is      *)
(* inside force, and the cell it reads from is published.                  *)
ClientInv(c) ==
  /\ pc[c] \in Holding \cup {"lock", "chunk"} => at[c] # None
  /\ pc[c] \in Holding => lock[Input[c]][at[c]] = c
  /\ pc[c] = "pulling" => Input[c] \in Gens /\ puller[Input[c]] = c
  /\ pc[c] = "failed" => c \in Readers
  /\ at[c] # None => Reach(Input[c], at[c])
  /\ at[c] = None => off[c] = 0
  /\ pc[c] = "chunk" => Published(Input[c], at[c])
  /\ at[c] # None /\ off[c] # 0 =>
       /\ Published(Input[c], at[c])
       /\ off[c] < Len(array[Input[c]][at[c]])

(* What holds of each generator: its one thunk is mOut or the cell behind  *)
(* it, and exactly the cells before its thunk have an array.               *)
GenInv(g) ==
  /\ thunk[g] \in {{}, {out[g]}, {out[g] + 1}}
  /\ puller[g] # None =>
       /\ thunk[g] = {out[g] + 1}
       /\ pc[puller[g]] = "pulling"
       /\ Input[puller[g]] = g
       /\ at[puller[g]] = out[g]
       /\ filled[g] <= BlockSize[g]
       /\ array[g][out[g]] \in [1 .. BlockSize[g] -> Nat]
  /\ pc[g] # "idle" => puller[g] # None /\ filled[g] < BlockSize[g]
  /\ \A i \in next[g] : i < out[g] \/ (i = out[g] /\ thunk[g] = {out[g] + 1})
  /\ \A i \in Cells : array[g][i] = None <=> i > out[g] \/ i \in thunk[g]

RootInv ==
  /\ thunk[Root] = {}
  /\ next[Root] = {}
  /\ array[Root][0] # None

(* The inductive invariant. *)
IInv ==
  /\ TypeOK
  /\ RootInv
  /\ NoOrphanLock
  /\ \A c \in Clients : ClientInv(c)
  /\ \A g \in Gens : GenInv(g)

-----------------------------------------------------------------------------
LEMMA ConstantFacts ==
  /\ None \notin Clients /\ None \notin Cells /\ None \notin Blocks
  /\ Gens \subseteq Lists /\ Gens \subseteq Clients /\ Readers \subseteq Clients
  /\ Root \in Lists /\ Root \notin Gens /\ Cells \subseteq Nat
BY ListAssumption DEF Blocks, Clients, Lists, Cells

LEMMA InputFacts ==
  ASSUME NEW c \in Clients
  PROVE  Input[c] \in Lists /\ (Input[c] = Root \/ Input[c] \in Gens)
BY ListAssumption DEF Lists

(* What TypeOK says of one cell, one client and one generator. *)
LEMMA CellTypes ==
  ASSUME TypeOK, NEW l \in Lists, NEW i \in Cells
  PROVE  /\ array[l][i] \in Blocks \cup {None}
         /\ lock[l][i] \in Clients \cup {None}
         /\ thunk[l] \subseteq Cells /\ next[l] \subseteq Cells
BY DEF TypeOK

LEMMA ClientTypes ==
  ASSUME TypeOK, NEW c \in Clients
  PROVE  pc[c] \in PCs /\ at[c] \in Cells \cup {None} /\ off[c] \in Nat
BY DEF TypeOK

LEMMA GenTypes ==
  ASSUME TypeOK, NEW g \in Gens
  PROVE  /\ out[g] \in Cells /\ done[g] \in BOOLEAN
         /\ puller[g] \in Clients \cup {None} /\ filled[g] \in Nat
         /\ g \in Lists /\ g \in Clients /\ BlockSize[g] \in Nat \ {0}
BY ConstantFacts, ListAssumption DEF TypeOK

LEMMA InitInv == Init => IInv
<1> SUFFICES ASSUME Init PROVE IInv
  OBVIOUS
<1> USE ConstantFacts, ListAssumption
<1>1. TypeOK
  <2>1. [k \in 1 .. Length |-> k] \in Blocks
    BY DEF Blocks
  <2>2. array \in [Lists -> [Cells -> Blocks \cup {None}]]
    BY <2>1 DEF Init
  <2>3. 0 \in Cells /\ 1 \in 1 .. MaxReads /\ <<>> \in Blocks
    BY DEF Cells, Blocks
  <2>4. \A g \in Gens : filled[g] <= BlockSize[g]
    BY DEF Init
  <2> QED BY <2>2, <2>3, <2>4 DEF Init, TypeOK, PCs
<1>2. RootInv
  <2>1. array[Root][0] = [k \in 1 .. Length |-> k] /\ 0 \in Cells
    BY DEF Init, Cells
  <2>2. [k \in 1 .. Length |-> k] \in Blocks
    BY DEF Blocks
  <2> QED BY <2>1, <2>2 DEF Init, RootInv
<1>3. NoOrphanLock
  BY DEF Init, NoOrphanLock
<1>4. ASSUME NEW c \in Clients PROVE ClientInv(c)
  <2>1. pc[c] = "idle" /\ at[c] = 0 /\ off[c] = 0
    BY DEF Init
  <2>2. Reach(Input[c], 0)
    BY InputFacts DEF Init, Reach, Cells
  <2> QED BY <2>1, <2>2 DEF ClientInv, Holding, Cells
<1>5. ASSUME NEW g \in Gens PROVE GenInv(g)
  <2>1. thunk[g] = {0} /\ out[g] = 0 /\ puller[g] = None /\ next[g] = {} /\ pc[g] = "idle"
    BY DEF Init
  <2>2. \A i \in Cells : array[g][i] = None
    BY DEF Init
  <2> QED BY <2>1, <2>2 DEF GenInv, Cells
<1> QED BY <1>1, <1>2, <1>3, <1>4, <1>5 DEF IInv

-----------------------------------------------------------------------------
(* A client that a step does not move keeps its invariant if the step      *)
(* leaves it its lock and its pull and does not touch the cell it is on.   *)
LEMMA OtherClient ==
  ASSUME NEW d \in Clients, ClientInv(d),
         pc'[d] = pc[d], at'[d] = at[d], off'[d] = off[d],
         pc[d] \in Holding => lock'[Input[d]][at[d]] = d,
         pc[d] = "pulling" => puller'[Input[d]] = d,
         at[d] # None /\ Reach(Input[d], at[d]) => Reach(Input[d], at[d])',
         Published(Input[d], at[d]) =>
            Published(Input[d], at[d])' /\ array'[Input[d]][at[d]] = array[Input[d]][at[d]]
  PROVE  ClientInv(d)'
BY DEF ClientInv, Holding, Reach, Published

(* A cursor that leaves a published cell arrives at a cell of its list. *)
LEMMA NextReach ==
  ASSUME IInv, NEW c \in Clients, pc[c] = "chunk"
  PROVE  /\ at[c] \in Cells /\ array[Input[c]][at[c]] \in Blocks
         /\ NextCell(c) # None => NextCell(c) \in Cells /\ Reach(Input[c], NextCell(c))
<1>1. ClientInv(c) /\ TypeOK /\ RootInv
  BY DEF IInv
<1>2. at[c] \in Cells /\ Published(Input[c], at[c]) /\ Input[c] \in Lists
  BY <1>1, ClientTypes, InputFacts DEF ClientInv, Holding
<1>3. array[Input[c]][at[c]] \in Blocks
  <2>1. array[Input[c]][at[c]] \in Blocks \cup {None}
    BY <1>1, <1>2, CellTypes
  <2> QED BY <1>2, <2>1 DEF Published
<1>4. ASSUME NextCell(c) # None
      PROVE  NextCell(c) \in Cells /\ Reach(Input[c], NextCell(c))
  <2>1. at[c] \in next[Input[c]] /\ NextCell(c) = at[c] + 1
    BY <1>4 DEF NextCell
  <2>2. Input[c] \in Gens
    BY <1>1, <1>2, <2>1, InputFacts DEF RootInv
  <2>3. GenInv(Input[c]) /\ out[Input[c]] \in Cells
    BY <1>1, <2>2, GenTypes DEF IInv
  <2>4. CASE at[c] < out[Input[c]]
    BY <2>1, <2>2, <2>3, <2>4, <1>2, ConstantFacts, ListAssumption DEF Reach, Cells
  <2>5. CASE at[c] = out[Input[c]] /\ thunk[Input[c]] = {out[Input[c]] + 1}
    <3>1. puller[Input[c]] = None
      BY <1>2, <2>2, <2>5 DEF Published
    <3>2. thunk[Input[c]] \subseteq Cells
      BY <1>1, <1>2, CellTypes
    <3> QED BY <2>1, <2>2, <2>5, <3>1, <3>2, ConstantFacts DEF Reach, Broken
  <2> QED BY <2>1, <2>3, <2>4, <2>5 DEF GenInv
<1> QED BY <1>2, <1>3, <1>4

(* A step that only moves the cursor of c, outside force. *)
LEMMA CursorStep ==
  ASSUME IInv, TypeOK', NEW c \in Clients,
         UNCHANGED <<cells, gen>>,
         \A d \in Clients \ {c} : pc'[d] = pc[d] /\ at'[d] = at[d] /\ off'[d] = off[d],
         pc[c] \notin Holding, pc'[c] \notin Holding,
         c \in Gens => puller[c] # None /\ filled[c] < BlockSize[c],
         ClientInv(c)'
  PROVE  IInv'
<1>0. UNCHANGED <<thunk, next, array, lock, out, done, puller, filled>>
  BY DEF cells, gen
<1>1. RootInv'
  BY <1>0 DEF IInv, RootInv
<1>2. NoOrphanLock'
  <2> SUFFICES ASSUME NEW l \in Lists, NEW i \in Cells, lock[l][i] # None
               PROVE  /\ pc'[lock[l][i]] \in Holding
                      /\ Input[lock[l][i]] = l /\ at'[lock[l][i]] = i
    BY <1>0 DEF NoOrphanLock, Holding
  <2>1. lock[l][i] \in Clients
    BY CellTypes DEF IInv
  <2>2. pc[lock[l][i]] \in Holding /\ Input[lock[l][i]] = l /\ at[lock[l][i]] = i
    BY DEF IInv, NoOrphanLock, Holding
  <2> QED BY <2>1, <2>2
<1>3. ASSUME NEW d \in Clients PROVE ClientInv(d)'
  <2>1. CASE d # c
    <3>1. ClientInv(d) /\ pc'[d] = pc[d] /\ at'[d] = at[d] /\ off'[d] = off[d]
      BY <2>1 DEF IInv
    <3> QED BY <1>0, <3>1 DEF ClientInv, Reach, Broken, Published
  <2> QED BY <2>1
<1>4. ASSUME NEW h \in Gens PROVE GenInv(h)'
  <2>1. GenInv(h) /\ puller[h] \in Clients \cup {None} /\ h \in Clients
    BY GenTypes DEF IInv
  <2>2. puller[h] # c
    BY <2>1, ConstantFacts DEF GenInv, Holding
  <2>3. h = c => puller[h] # None /\ filled[h] < BlockSize[h]
    OBVIOUS
  <2> QED BY <1>0, <2>1, <2>2, <2>3 DEF GenInv
<1> QED BY <1>1, <1>2, <1>3, <1>4 DEF IInv

LEMMA CallInv == ASSUME IInv, NEW c \in Clients, Call(c) PROVE IInv'
<1>1. TypeOK /\ ClientInv(c) /\ pc[c] = "idle" /\ Wants(c)
  BY DEF IInv, Call
<1>2. TypeOK'
  BY <1>1 DEF TypeOK, PCs, Call, Goto, cells, gen, cursor
<1>3. /\ pc'[c] = IF at[c] = None THEN "eof" ELSE "lock"
      /\ \A d \in Clients \ {c} : pc'[d] = pc[d]
      /\ UNCHANGED <<cells, gen, at, off>>
  BY <1>1 DEF TypeOK, Call, Goto, cursor
<1>4. ClientInv(c)'
  BY <1>1, <1>3 DEF ClientInv, Holding, Reach, Broken, Published, cells, gen
<1> QED BY <1>1, <1>2, <1>3, <1>4, CursorStep DEF Holding, Wants

LEMMA SkipInv == ASSUME IInv, NEW c \in Clients, Skip(c) PROVE IInv'
<1>1. TypeOK /\ ClientInv(c) /\ pc[c] = "chunk" /\ Avail(c) = 0
  BY DEF IInv, Skip
<1>2. off[c] = 0
  <2>1. Len(array[Input[c]][at[c]]) \in Nat
    BY <1>1, NextReach DEF Blocks
  <2> QED BY <1>1, <2>1, NextReach, ClientTypes, ConstantFacts DEF ClientInv, Avail
<1>3. /\ pc' = [pc EXCEPT ![c] = IF NextCell(c) = None THEN "eof" ELSE "lock"]
      /\ at' = [at EXCEPT ![c] = IF NextCell(c) = None THEN at[c] ELSE NextCell(c)]
      /\ UNCHANGED <<cells, gen, off, got, reads, aborted>>
  BY <1>1 DEF TypeOK, Skip, Goto
<1>4. TypeOK'
  <2>1. NextCell(c) # None => NextCell(c) \in Cells
    BY <1>1, NextReach
  <2> QED BY <1>1, <1>3, <2>1, ClientTypes DEF TypeOK, PCs, cells, gen
<1>5. ClientInv(c)'
  <2>1. at'[c] # None => Reach(Input[c], at'[c])
    BY <1>1, <1>3, NextReach DEF TypeOK, ClientInv
  <2>2. at'[c] # None => Reach(Input[c], at[c])'
    BY <1>3, <2>1 DEF Reach, Broken, cells, gen
  <2> QED BY <1>1, <1>2, <1>3, <2>2 DEF ClientInv, Holding, TypeOK
<1>6. c \in Gens => puller[c] # None /\ filled[c] < BlockSize[c]
  BY <1>1 DEF IInv, GenInv
<1>7. \A d \in Clients \ {c} : pc'[d] = pc[d] /\ at'[d] = at[d] /\ off'[d] = off[d]
  BY <1>1, <1>3 DEF TypeOK
<1>8. pc[c] \notin Holding /\ pc'[c] \notin Holding
  BY <1>1, <1>3 DEF TypeOK, Holding
<1> QED BY <1>3, <1>4, <1>5, <1>6, <1>7, <1>8, CursorStep

(* In::advance after reading n of the frames the cursor was handed. *)
LEMMA AdvanceFacts ==
  ASSUME IInv, NEW c \in Clients, pc[c] = "chunk", NEW n \in 1 .. Avail(c), Advance(c, n)
  PROVE  /\ at' \in [Clients -> Cells \cup {None}] /\ off' \in [Clients -> Nat]
         /\ \A d \in Clients \ {c} : at'[d] = at[d] /\ off'[d] = off[d]
         /\ at'[c] # None => Reach(Input[c], at'[c])
         /\ at'[c] = None => off'[c] = 0
         /\ off'[c] # 0 => at'[c] = at[c] /\ off'[c] < Len(array[Input[c]][at[c]])
         /\ off[c] + n <= Len(array[Input[c]][at[c]])
<1> DEFINE len == Len(array[Input[c]][at[c]])
<1>1. TypeOK /\ at[c] \in Cells /\ len \in Nat /\ off[c] \in Nat
  BY NextReach, ClientTypes DEF IInv, Blocks
<1>2. off[c] + n <= len /\ n \in Nat
  BY <1>1 DEF Avail
<1>3. Reach(Input[c], at[c])
  BY <1>1, ConstantFacts DEF IInv, ClientInv
<1>4. CASE off[c] + n = len
  <2>1. at' = [at EXCEPT ![c] = NextCell(c)] /\ off' = [off EXCEPT ![c] = 0]
    BY <1>4 DEF Advance
  <2>2. NextCell(c) \in Cells \cup {None}
    BY NextReach
  <2> QED BY <1>1, <1>2, <2>1, <2>2, NextReach DEF TypeOK
<1>5. CASE off[c] + n # len
  <2>1. at' = at /\ off' = [off EXCEPT ![c] = @ + n]
    BY <1>5 DEF Advance
  <2>2. at' \in [Clients -> Cells \cup {None}] /\ off' \in [Clients -> Nat]
    BY <1>1, <1>2, <2>1 DEF TypeOK
  <2>3. off'[c] = off[c] + n /\ \A d \in Clients \ {c} : off'[d] = off[d]
    BY <1>1, <2>1 DEF TypeOK
  <2>4. off[c] + n < len /\ off[c] + n # 0
    BY <1>1, <1>2, <1>5
  <2> QED BY <1>1, <1>3, <2>1, <2>2, <2>3, <2>4, ConstantFacts
<1> QED BY <1>4, <1>5

LEMMA TakeInv == ASSUME IInv, NEW r \in Readers, Take(r) PROVE IInv'
<1> r \in Clients /\ r \notin Gens
  BY ConstantFacts, ListAssumption
<1>1. TypeOK /\ ClientInv(r) /\ pc[r] = "chunk" /\ pc' = [pc EXCEPT ![r] = "idle"]
      /\ UNCHANGED <<cells, gen, reads, aborted>>
  BY DEF IInv, Take, Goto
<1>2. PICK n \in 1 .. Avail(r) :
        /\ got' = [got EXCEPT ![r] = @ \o
                     SubSeq(array[Input[r]][at[r]], off[r] + 1, off[r] + n)]
        /\ Advance(r, n)
  BY DEF Take
<1>3. /\ at' \in [Clients -> Cells \cup {None}] /\ off' \in [Clients -> Nat]
      /\ \A d \in Clients \ {r} : at'[d] = at[d] /\ off'[d] = off[d]
      /\ at'[r] # None => Reach(Input[r], at'[r])
      /\ at'[r] = None => off'[r] = 0
      /\ off'[r] # 0 => at'[r] = at[r] /\ off'[r] < Len(array[Input[r]][at[r]])
      /\ off[r] + n <= Len(array[Input[r]][at[r]])
  BY <1>1, <1>2, AdvanceFacts
<1>4. TypeOK'
  <2>1. SubSeq(array[Input[r]][at[r]], off[r] + 1, off[r] + n) \in Blocks
    <3>1. array[Input[r]][at[r]] \in Seq(Nat) /\ off[r] \in Nat
      BY <1>1, NextReach, ClientTypes DEF Blocks
    <3>2. off[r] + 1 \in Int /\ off[r] + n \in Int
      BY <3>1 DEF Avail
    <3>3. \A i \in off[r] + 1 .. off[r] + n : array[Input[r]][at[r]][i] \in Nat
      <4> SUFFICES ASSUME NEW i \in off[r] + 1 .. off[r] + n
                   PROVE  array[Input[r]][at[r]][i] \in Nat
        OBVIOUS
      <4>1. i \in 1 .. Len(array[Input[r]][at[r]])
        <5>1. off[r] + n <= Len(array[Input[r]][at[r]])
          BY <1>3
        <5>2. Len(array[Input[r]][at[r]]) \in Nat /\ off[r] \in Nat
          BY <3>1
        <5> QED BY ONLY <3>2, <5>1, <5>2, i \in off[r] + 1 .. off[r] + n
      <4> QED BY <3>1, <4>1, ElementOfSeq
    <3> QED BY <3>2, <3>3, SubSeqProperties DEF Blocks
  <2>2. got[r] \in Blocks
    BY <1>1 DEF TypeOK
  <2>3. got[r] \o SubSeq(array[Input[r]][at[r]], off[r] + 1, off[r] + n) \in Blocks
    BY <2>1, <2>2 DEF Blocks
  <2>4. got' \in [Readers -> Blocks]
    BY <1>1, <1>2, <2>3 DEF TypeOK
  <2>5. pc' \in [Clients -> PCs]
    BY <1>1 DEF TypeOK, PCs
  <2> QED BY <1>1, <1>3, <2>4, <2>5 DEF TypeOK, cells, gen
<1>5. ClientInv(r)'
  <2>1. at'[r] # None => Reach(Input[r], at[r])'
    BY <1>1, <1>3 DEF Reach, Broken, cells, gen
  <2>2. pc'[r] = "idle"
    BY <1>1 DEF TypeOK
  <2>3. Published(Input[r], at[r]) /\ UNCHANGED <<array, puller, out>>
    BY <1>1 DEF ClientInv, cells, gen
  <2> QED BY <1>3, <2>1, <2>2, <2>3 DEF ClientInv, Holding, Published
<1>6. \A d \in Clients \ {r} : pc'[d] = pc[d]
  BY <1>1 DEF TypeOK
<1>7. pc[r] \notin Holding /\ pc'[r] \notin Holding
  BY <1>1 DEF TypeOK, Holding
<1> QED BY <1>1, <1>3, <1>4, <1>5, <1>6, <1>7, CursorStep

LEMMA RereadInv == ASSUME IInv, NEW r \in Readers, Reread(r) PROVE IInv'
<1> r \in Clients /\ r \notin Gens
  BY ConstantFacts, ListAssumption
<1>1. TypeOK /\ ClientInv(r) /\ pc[r] \in {"eof", "failed"}
  BY DEF IInv, Reread
<1>2. TypeOK'
  <2>1. 0 \in Cells /\ <<>> \in Blocks /\ "idle" \in PCs
    BY ListAssumption DEF Cells, Blocks, PCs
  <2>2. reads[r] + 1 \in 1 .. MaxReads
    BY <1>1, ListAssumption DEF TypeOK, Reread
  <2> QED BY <1>1, <2>1, <2>2 DEF TypeOK, Reread, Goto, cells, gen
<1>3. /\ pc'[r] = "idle" /\ at'[r] = 0 /\ off'[r] = 0
      /\ \A d \in Clients \ {r} : pc'[d] = pc[d] /\ at'[d] = at[d] /\ off'[d] = off[d]
      /\ UNCHANGED <<cells, gen>>
  BY <1>1 DEF TypeOK, Reread, Goto
<1>4. ClientInv(r)'
  <2>1. Input[r] # Root => out[Input[r]] \in Nat
    BY <1>1, InputFacts, GenTypes, ConstantFacts
  <2>2. Reach(Input[r], 0)'
    BY <1>3, <2>1 DEF Reach, cells, gen
  <2> QED BY <1>3, <2>2, ListAssumption DEF ClientInv, Holding
<1>5. pc[r] \notin Holding /\ pc'[r] \notin Holding
  BY <1>1, <1>3 DEF Holding
<1> QED BY <1>2, <1>3, <1>4, <1>5, CursorStep

(* Inside force only the lock of the client's own cell and its program     *)
(* counter move: Acquire and ForceFilled.                                  *)
LEMMA LockStep ==
  ASSUME IInv, NEW c \in Clients, NEW label \in {"held", "chunk"}, NEW owner \in {c, None},
         pc[c] \in {"lock", "held"},
         lock[Input[c]][at[c]] \in {c, None},
         pc' = [pc EXCEPT ![c] = label],
         lock' = [lock EXCEPT ![Input[c]][at[c]] = owner],
         UNCHANGED <<thunk, next, array, gen, cursor, got, reads, aborted>>,
         label = "held" <=> owner = c,
         label = "chunk" => Published(Input[c], at[c])
  PROVE  IInv'
<1>0. /\ TypeOK /\ ClientInv(c) /\ at[c] \in Cells /\ Input[c] \in Lists
      /\ UNCHANGED <<thunk, next, array, out, done, puller, filled, at, off>>
  BY ClientTypes, InputFacts DEF IInv, ClientInv, Holding, gen, cursor
<1>1. TypeOK'
  BY <1>0 DEF TypeOK, PCs, gen, cursor
<1>2. RootInv'
  BY <1>0 DEF IInv, RootInv
<1>3. NoOrphanLock'
  <2> SUFFICES ASSUME NEW l \in Lists, NEW i \in Cells, lock'[l][i] # None
               PROVE  /\ pc'[lock'[l][i]] \in Holding
                      /\ Input[lock'[l][i]] = l /\ at[lock'[l][i]] = i
    BY <1>0 DEF NoOrphanLock, Holding
  <2>1. CASE l = Input[c] /\ i = at[c]
    <3>1. lock'[l][i] = owner
      BY <1>0, <2>1 DEF TypeOK
    <3> QED BY <1>0, <2>1, <3>1 DEF TypeOK, Holding
  <2>2. CASE ~ (l = Input[c] /\ i = at[c])
    <3>1. lock'[l][i] = lock[l][i] /\ lock[l][i] \in Clients
      BY <1>0, <2>2, CellTypes DEF TypeOK
    <3>2. pc[lock[l][i]] \in Holding /\ Input[lock[l][i]] = l /\ at[lock[l][i]] = i
      BY <3>1 DEF IInv, NoOrphanLock, Holding
    <3>3. lock[l][i] # c
      BY <2>2, <3>2
    <3> QED BY <1>0, <3>1, <3>2, <3>3 DEF TypeOK
  <2> QED BY <2>1, <2>2
<1>4. ASSUME NEW d \in Clients PROVE ClientInv(d)'
  <2>1. CASE d = c
    <3>1. pc'[c] = label
      BY <1>0 DEF TypeOK
    <3>2. label = "held" => lock'[Input[c]][at[c]] = c
      BY <1>0, ConstantFacts DEF TypeOK
    <3> QED BY <1>0, <2>1, <3>1, <3>2, ConstantFacts DEF ClientInv, Holding, Reach, Broken, Published
  <2>2. CASE d # c
    <3>1. ClientInv(d) /\ pc'[d] = pc[d] /\ at[d] \in Cells \cup {None} /\ Input[d] \in Lists
      BY <1>0, <2>2, ClientTypes, InputFacts DEF IInv, TypeOK
    <3>2. pc[d] \in Holding => lock'[Input[d]][at[d]] = d
      BY <1>0, <2>2, <3>1, ConstantFacts DEF TypeOK, ClientInv, Holding
    <3> QED BY <1>0, <3>1, <3>2, OtherClient DEF ClientInv, Reach, Broken, Published
  <2> QED BY <2>1, <2>2
<1>5. ASSUME NEW h \in Gens PROVE GenInv(h)'
  <2>1. GenInv(h) /\ puller[h] \in Clients \cup {None} /\ h \in Clients
    BY GenTypes DEF IInv
  <2>2. puller[h] # c /\ (puller[h] = None => h # c)
    BY <2>1, ConstantFacts DEF GenInv
  <2> QED BY <1>0, <2>1, <2>2 DEF TypeOK, GenInv
<1> QED BY <1>1, <1>2, <1>3, <1>4, <1>5 DEF IInv

(* A client in force at a cell that is not a thunk: the cell is published, *)
(* because nobody else can be pulling into the cell it has locked.         *)
LEMMA HeldPublished ==
  ASSUME IInv, NEW c \in Clients, pc[c] = "held", at[c] \notin thunk[Input[c]]
  PROVE  Published(Input[c], at[c])
<1>1. ClientInv(c) /\ TypeOK /\ at[c] \in Cells /\ Reach(Input[c], at[c])
  BY ClientTypes, ConstantFacts DEF IInv, ClientInv, Holding
<1>2. CASE Input[c] = Root
  BY <1>1, <1>2, ConstantFacts DEF IInv, RootInv, Reach, Published
<1>3. CASE Input[c] \in Gens
  <2>1. GenInv(Input[c]) /\ out[Input[c]] \in Nat /\ at[c] \in Nat
    BY <1>1, <1>3, GenTypes, ConstantFacts DEF IInv
  <2>2. at[c] <= out[Input[c]]
    BY <1>1, <1>3, <2>1, ConstantFacts DEF Reach, Broken
  <2>3. array[Input[c]][at[c]] # None
    BY <1>1, <2>1, <2>2 DEF GenInv
  <2>4. ASSUME puller[Input[c]] # None, out[Input[c]] = at[c] PROVE FALSE
    <3>1. LET d == puller[Input[c]] IN d \in Clients /\ pc[d] = "pulling" /\ Input[d] = Input[c] /\ at[d] = at[c]
      BY <1>1, <1>3, <2>1, <2>4, GenTypes DEF GenInv
    <3>2. LET d == puller[Input[c]] IN lock[Input[d]][at[d]] = d
      BY <3>1 DEF IInv, ClientInv, Holding
    <3>3. lock[Input[c]][at[c]] = c
      BY <1>1 DEF ClientInv, Holding
    <3> QED BY <3>1, <3>2, <3>3
  <2> QED BY <2>3, <2>4 DEF Published
<1> QED BY <1>2, <1>3, InputFacts

LEMMA AcquireInv == ASSUME IInv, NEW c \in Clients, Acquire(c) PROVE IInv'
BY LockStep DEF Acquire, Goto, LockCell

LEMMA ForceFilledInv == ASSUME IInv, NEW c \in Clients, ForceFilled(c) PROVE IInv'
<1>1. lock[Input[c]][at[c]] = c
  BY DEF IInv, ClientInv, Holding, ForceFilled
<1>2. Published(Input[c], at[c])
  BY HeldPublished DEF ForceFilled
<1> QED BY <1>1, <1>2, LockStep, ConstantFacts DEF ForceFilled, Goto, LockCell

LEMMA AbortForceInv == ASSUME IInv, NEW c \in Clients, AbortForce(c) PROVE IInv'
<1>1. UNCHANGED <<thunk, next, array, lock, out, done, puller, filled, pc, at, off, got, reads>>
      /\ aborted' = TRUE
  BY DEF AbortForce, cells, gen, cursor
<1>2. TypeOK' /\ RootInv' /\ NoOrphanLock'
  BY <1>1 DEF IInv, TypeOK, RootInv, NoOrphanLock
<1>3. ASSUME NEW d \in Clients PROVE ClientInv(d)'
  BY <1>1 DEF IInv, ClientInv, Holding, Reach, Broken, Published
<1>4. ASSUME NEW h \in Gens PROVE GenInv(h)'
  BY <1>1 DEF IInv, GenInv
<1> QED BY <1>2, <1>3, <1>4 DEF IInv

(* A client that forces a thunk which is mOut: nobody is pulling. *)
LEMMA ThunkHeld ==
  ASSUME IInv, NEW c \in Clients, pc[c] = "held", at[c] \in thunk[Input[c]],
         out[Input[c]] \in thunk[Input[c]]
  PROVE  /\ Input[c] \in Gens /\ at[c] = out[Input[c]] /\ at[c] \in Cells
         /\ thunk[Input[c]] = {at[c]} /\ puller[Input[c]] = None
         /\ array[Input[c]][at[c]] = None /\ lock[Input[c]][at[c]] = c
         /\ \A l \in Lists, i \in Cells :
              Published(l, i) => ~ (l = Input[c] /\ i = at[c])
         /\ \A d \in Clients \ {c} :
              pc[d] \in Holding => ~ (Input[d] = Input[c] /\ at[d] = at[c])
<1> DEFINE g == Input[c]
<1>1. TypeOK /\ ClientInv(c) /\ g \in Gens
  BY InputFacts DEF IInv, RootInv
<1>2. GenInv(g) /\ out[g] \in Cells /\ out[g] # out[g] + 1
  <2>1. GenInv(g) /\ out[g] \in Cells
    BY <1>1, GenTypes DEF IInv
  <2>2. out[g] \in Nat
    BY <2>1, ConstantFacts
  <2> QED BY <2>1, <2>2
<1>3. thunk[g] = {out[g]} /\ at[c] = out[g]
  BY <1>2 DEF GenInv
<1>4. puller[g] = None /\ array[g][at[c]] = None
  BY <1>2, <1>3 DEF GenInv
<1>5. lock[g][at[c]] = c
  BY <1>1 DEF ClientInv, Holding
<1>6. ASSUME NEW d \in Clients \ {c}, pc[d] \in Holding, Input[d] = g, at[d] = at[c]
      PROVE  FALSE
  BY <1>5, <1>6 DEF IInv, ClientInv
<1> QED BY <1>1, <1>2, <1>3, <1>4, <1>5, <1>6 DEF Published

LEMMA ForceEndInv == ASSUME IInv, NEW c \in Clients, ForceEnd(c) PROVE IInv'
<1> DEFINE g == Input[c]
<1>1. /\ TypeOK /\ ClientInv(c) /\ pc[c] = "held" /\ at[c] \in thunk[g] /\ out[g] \in thunk[g]
      /\ thunk' = [thunk EXCEPT ![g] = @ \ {out[g]}]
      /\ next'  = [next EXCEPT ![g] = @ \ {out[g]}]
      /\ array' = [array EXCEPT ![g][out[g]] = <<>>]
      /\ lock'  = [lock EXCEPT ![g][at[c]] = None]
      /\ pc'    = [pc EXCEPT ![c] = "chunk"]
      /\ UNCHANGED <<out, done, puller, filled, at, off, got, reads, aborted>>
  BY DEF IInv, ForceEnd, End, HasGen, Goto, LockCell, gen, cursor
<1>2. /\ g \in Gens /\ g \in Lists /\ at[c] = out[g] /\ at[c] \in Cells
      /\ thunk[g] = {at[c]} /\ puller[g] = None
      /\ array[g][at[c]] = None /\ lock[g][at[c]] = c
      /\ \A l \in Lists, i \in Cells : Published(l, i) => ~ (l = g /\ i = at[c])
      /\ \A d \in Clients \ {c} : pc[d] \in Holding => ~ (Input[d] = g /\ at[d] = at[c])
  BY <1>1, ThunkHeld, ConstantFacts
<1>3. TypeOK'
  <2>1. <<>> \in Blocks
    BY DEF Blocks
  <2> QED BY <1>1, <1>2, <2>1 DEF TypeOK, PCs
<1>4. /\ thunk'[g] = {} /\ \A l \in Lists \ {g} : thunk'[l] = thunk[l] /\ next'[l] = next[l]
      /\ next'[g] = next[g] \ {out[g]}
      /\ array'[g][out[g]] # None
      /\ \A l \in Lists, i \in Cells : ~ (l = g /\ i = out[g]) => array'[l][i] = array[l][i]
      /\ \A l \in Lists, i \in Cells : ~ (l = g /\ i = out[g]) => lock'[l][i] = lock[l][i]
      /\ lock'[g][out[g]] = None
      /\ pc'[c] = "chunk" /\ \A d \in Clients \ {c} : pc'[d] = pc[d]
  <2>1. <<>> # None
    <3>1. <<>> \in Blocks
      BY DEF Blocks
    <3> QED BY <3>1, ConstantFacts
  <2> QED BY <1>1, <1>2, <2>1 DEF TypeOK
<1>5. RootInv'
  <2>1. 0 \in Cells /\ g # Root
    BY <1>2, ListAssumption DEF Cells
  <2> QED BY <1>4, <2>1, ConstantFacts DEF IInv, RootInv
<1>6. NoOrphanLock'
  <2> SUFFICES ASSUME NEW l \in Lists, NEW i \in Cells, lock'[l][i] # None
               PROVE  /\ pc'[lock'[l][i]] \in Holding
                      /\ Input[lock'[l][i]] = l /\ at[lock'[l][i]] = i
    BY <1>1 DEF NoOrphanLock, Holding
  <2>1. lock'[l][i] = lock[l][i] /\ lock[l][i] \in Clients /\ ~ (l = g /\ i = out[g])
    BY <1>1, <1>4, CellTypes
  <2>2. pc[lock[l][i]] \in Holding /\ Input[lock[l][i]] = l /\ at[lock[l][i]] = i
    BY <2>1 DEF IInv, NoOrphanLock, Holding
  <2> QED BY <1>2, <1>4, <2>1, <2>2
<1>7. ASSUME NEW d \in Clients PROVE ClientInv(d)'
  <2>1. CASE d = c
    <3>1. Reach(g, at[c])' /\ Published(g, at[c])'
      BY <1>1, <1>2, <1>4, GenTypes, ConstantFacts DEF Reach, Published
    <3>2. off[c] = 0
      BY <1>1, <1>2, ConstantFacts DEF ClientInv
    <3> QED BY <1>1, <1>2, <1>4, <2>1, <3>1, <3>2, ConstantFacts DEF ClientInv, Holding
  <2>2. CASE d # c
    <3>1. ClientInv(d) /\ pc'[d] = pc[d] /\ at[d] \in Cells \cup {None} /\ Input[d] \in Lists
      BY <1>1, <1>4, <2>2, ClientTypes, InputFacts DEF IInv
    <3>2. pc[d] \in Holding => lock'[Input[d]][at[d]] = d
      BY <1>2, <1>4, <2>2, <3>1 DEF ClientInv
    <3>3. at[d] # None /\ Reach(Input[d], at[d]) => Reach(Input[d], at[d])'
      <4>1. ~ Broken(g)
        <5>1. out[g] \in Nat
          BY <1>1, <1>2, GenTypes, ConstantFacts
        <5> QED BY <1>2, <5>1 DEF Broken
      <4> QED BY <1>1, <1>4, <3>1, <4>1 DEF Reach, Broken
    <3>4. Published(Input[d], at[d]) /\ at[d] # None =>
             Published(Input[d], at[d])' /\ array'[Input[d]][at[d]] = array[Input[d]][at[d]]
      BY <1>1, <1>2, <1>4, <3>1 DEF Published
    <3> QED BY <1>1, <2>2, <3>1, <3>2, <3>3, <3>4, OtherClient DEF ClientInv, Holding
  <2> QED BY <2>1, <2>2
<1>8. ASSUME NEW h \in Gens PROVE GenInv(h)'
  <2>1. GenInv(h) /\ puller[h] \in Clients \cup {None} /\ h \in Clients /\ h \in Lists /\ out[h] \in Cells
    BY <1>1, GenTypes DEF IInv
  <2>2. puller[h] # c /\ (puller[h] = None => h # c)
    BY <1>1, <2>1, ConstantFacts DEF GenInv
  <2>3. CASE h = g
    BY <1>1, <1>2, <1>4, <2>1, <2>2, <2>3, ConstantFacts DEF GenInv
  <2>4. CASE h # g
    BY <1>1, <1>4, <2>1, <2>2, <2>4 DEF GenInv
  <2> QED BY <2>3, <2>4
<1> QED BY <1>3, <1>5, <1>6, <1>7, <1>8 DEF IInv

(* The array of a pull in progress is a block. *)
LEMMA OutputIsBlock ==
  ASSUME NEW g \in Gens, NEW f \in [1 .. BlockSize[g] -> Nat]
  PROVE  f \in Blocks /\ f # None
<1>1. f \in Blocks
  BY ListAssumption DEF Blocks
<1> QED BY <1>1, ConstantFacts

LEMMA ForcePullInv == ASSUME IInv, NEW c \in Clients, ForcePull(c) PROVE IInv'
<1> DEFINE g == Input[c]
           fresh == [k \in 1 .. BlockSize[g] |-> Unwritten]
<1>1. /\ TypeOK /\ ClientInv(c) /\ pc[c] = "held" /\ at[c] \in thunk[g] /\ out[g] \in thunk[g]
      /\ out[g] < MaxCell
      /\ thunk'  = [thunk EXCEPT ![g] = (@ \ {out[g]}) \cup {out[g] + 1}]
      /\ next'   = [next EXCEPT ![g] = @ \cup {out[g]}]
      /\ array'  = [array EXCEPT ![g][out[g]] = fresh]
      /\ puller' = [puller EXCEPT ![g] = c]
      /\ filled' = [filled EXCEPT ![g] = 0]
      /\ pc'     = [pc EXCEPT ![c] = "pulling"]
      /\ UNCHANGED <<lock, out, done, at, off, got, reads, aborted>>
  BY DEF IInv, ForcePull, Fulfill, HasGen, Goto, cursor
<1>2. /\ g \in Gens /\ g \in Lists /\ at[c] = out[g] /\ at[c] \in Cells
      /\ thunk[g] = {at[c]} /\ puller[g] = None
      /\ array[g][at[c]] = None /\ lock[g][at[c]] = c
      /\ \A l \in Lists, i \in Cells : Published(l, i) => ~ (l = g /\ i = at[c])
      /\ \A d \in Clients \ {c} : pc[d] \in Holding => ~ (Input[d] = g /\ at[d] = at[c])
  BY <1>1, ThunkHeld, ConstantFacts
<1>3. /\ fresh \in [1 .. BlockSize[g] -> Nat] /\ fresh \in Blocks /\ fresh # None
      /\ out[g] + 1 \in Cells /\ out[g] \in Nat
  <2>1. fresh \in [1 .. BlockSize[g] -> Nat]
    BY DEF Unwritten
  <2>2. out[g] + 1 \in Cells /\ out[g] \in Nat
    BY <1>1, <1>2, ListAssumption DEF Cells
  <2> HIDE DEF fresh
  <2> QED BY <1>2, <2>1, <2>2, OutputIsBlock
<1> HIDE DEF fresh
<1>4. TypeOK'
  <2>0. ASSUME NEW h \in Gens
        PROVE  filled[h] \in Nat /\ filled[h] <= BlockSize[h] /\ 0 <= BlockSize[h]
    <3>1. filled[h] \in Nat /\ BlockSize[h] \in Nat
      BY <1>1, GenTypes
    <3>2. filled[h] <= BlockSize[h]
      BY <1>1 DEF TypeOK
    <3> QED BY <3>1, <3>2
  <2>1. filled' \in [Gens -> Nat] /\ \A h \in Gens : filled'[h] <= BlockSize[h]
    <3>1. \A h \in Gens : filled'[h] = IF h = g THEN 0 ELSE filled[h]
      BY <1>1 DEF TypeOK
    <3>2. filled' \in [Gens -> Nat]
      BY <1>1 DEF TypeOK
    <3> QED BY <2>0, <3>1, <3>2
  <2>2. puller' \in [Gens -> Clients \cup {None}] /\ pc' \in [Clients -> PCs]
    BY <1>1, <1>2 DEF TypeOK, PCs
  <2>3. /\ thunk' \in [Lists -> SUBSET Cells] /\ next' \in [Lists -> SUBSET Cells]
        /\ array' \in [Lists -> [Cells -> Blocks \cup {None}]]
    BY <1>1, <1>2, <1>3 DEF TypeOK
  <2> QED BY <1>1, <2>1, <2>2, <2>3 DEF TypeOK
<1>5. /\ thunk'[g] = {out[g] + 1} /\ \A l \in Lists \ {g} : thunk'[l] = thunk[l] /\ next'[l] = next[l]
      /\ next'[g] = next[g] \cup {out[g]}
      /\ array'[g][out[g]] = fresh
      /\ \A l \in Lists, i \in Cells : ~ (l = g /\ i = out[g]) => array'[l][i] = array[l][i]
      /\ puller'[g] = c /\ filled'[g] = 0
      /\ \A h \in Gens \ {g} : puller'[h] = puller[h] /\ filled'[h] = filled[h]
      /\ pc'[c] = "pulling" /\ \A d \in Clients \ {c} : pc'[d] = pc[d]
  BY <1>1, <1>2 DEF TypeOK
<1>6. RootInv'
  <2>1. 0 \in Cells /\ g # Root
    BY <1>2, ListAssumption DEF Cells
  <2> QED BY <1>5, <2>1, ConstantFacts DEF IInv, RootInv
<1>7. NoOrphanLock'
  <2> SUFFICES ASSUME NEW l \in Lists, NEW i \in Cells, lock[l][i] # None
               PROVE  /\ pc'[lock[l][i]] \in Holding
                      /\ Input[lock[l][i]] = l /\ at[lock[l][i]] = i
    BY <1>1 DEF NoOrphanLock, Holding
  <2>1. lock[l][i] \in Clients
    BY <1>1, CellTypes
  <2>2. pc[lock[l][i]] \in Holding /\ Input[lock[l][i]] = l /\ at[lock[l][i]] = i
    BY DEF IInv, NoOrphanLock, Holding
  <2> QED BY <1>5, <2>1, <2>2 DEF Holding
<1>8. ASSUME NEW d \in Clients PROVE ClientInv(d)'
  <2>1. CASE d = c
    <3>1. Reach(g, at[c])'
      BY <1>1, <1>2, <1>3, ConstantFacts DEF Reach
    <3>2. off[c] = 0
      BY <1>1, <1>2, ConstantFacts DEF ClientInv
    <3> QED BY <1>1, <1>2, <1>5, <2>1, <3>1, <3>2, ConstantFacts DEF ClientInv, Holding
  <2>2. CASE d # c
    <3>1. ClientInv(d) /\ pc'[d] = pc[d] /\ at[d] \in Cells \cup {None} /\ Input[d] \in Lists
      BY <1>1, <1>5, <2>2, ClientTypes, InputFacts DEF IInv
    <3>2. pc[d] = "pulling" => puller'[Input[d]] = d
      BY <1>2, <1>5, <3>1, ConstantFacts DEF ClientInv
    <3>3. at[d] # None /\ Reach(Input[d], at[d]) => Reach(Input[d], at[d])'
      <4>1. ~ Broken(g)
        <5>1. thunk[g] = {out[g]} /\ out[g] \in Nat
          BY <1>2, <1>3
        <5> HIDE DEF g
        <5>2. out[g] # out[g] + 1
          BY <5>1
        <5> QED BY <5>1, <5>2 DEF Broken
      <4>2. CASE Input[d] = g
        BY <1>1, <1>2, <4>1, <4>2 DEF Reach
      <4>3. CASE Input[d] # g
        BY <1>1, <1>5, <3>1, <4>3, InputFacts DEF Reach, Broken
      <4> QED BY <4>2, <4>3
    <3>4. Published(Input[d], at[d]) /\ at[d] # None =>
             Published(Input[d], at[d])' /\ array'[Input[d]][at[d]] = array[Input[d]][at[d]]
      BY <1>1, <1>2, <1>5, <3>1 DEF Published
    <3> QED BY <1>1, <2>2, <3>1, <3>2, <3>3, <3>4, OtherClient DEF ClientInv, Holding
  <2> QED BY <2>1, <2>2
<1>9. ASSUME NEW h \in Gens PROVE GenInv(h)'
  <2>1. GenInv(h) /\ puller[h] \in Clients \cup {None} /\ h \in Clients /\ h \in Lists /\ out[h] \in Cells
    BY <1>1, GenTypes DEF IInv
  <2>2. puller[h] # c /\ (puller[h] = None => h # c)
    BY <1>1, <2>1, ConstantFacts DEF GenInv
  <2>3. CASE h = g
    <3>1. thunk'[g] \in {{}, {out'[g]}, {out'[g] + 1}}
      BY <1>1, <1>5
    <3>2. /\ thunk'[g] = {out'[g] + 1} /\ pc'[puller'[g]] = "pulling" /\ Input[puller'[g]] = g
          /\ at'[puller'[g]] = out'[g] /\ filled'[g] <= BlockSize[g]
          /\ array'[g][out'[g]] \in [1 .. BlockSize[g] -> Nat]
      BY <1>1, <1>2, <1>3, <1>5, GenTypes
    <3>3. puller'[g] # None
      BY <1>5, ConstantFacts
    <3>4. \A i \in next'[g] : i < out'[g] \/ (i = out'[g] /\ thunk'[g] = {out'[g] + 1})
      BY <1>1, <1>2, <1>5, <2>1, <2>3 DEF GenInv
    <3>5. ASSUME NEW i \in Cells PROVE array'[g][i] = None <=> i > out'[g] \/ i \in thunk'[g]
      BY <1>1, <1>2, <1>3, <1>5, <2>1, <2>3, ConstantFacts DEF GenInv
    <3>6. filled'[g] < BlockSize[g]
      BY <1>2, <1>5, ListAssumption
    <3> QED BY <2>3, <3>1, <3>2, <3>3, <3>4, <3>5, <3>6 DEF GenInv
  <2>4. CASE h # g
    BY <1>1, <1>5, <2>1, <2>2, <2>4 DEF GenInv
  <2> QED BY <2>3, <2>4
<1> QED BY <1>4, <1>6, <1>7, <1>8, <1>9 DEF IInv

(* A generator whose cursor has a chunk is being pulled, and both its      *)
(* cursor's cell and its output array have room for one turn of the loop.  *)
LEMMA TurnFacts ==
  ASSUME IInv, NEW g \in Gens, pc[g] = "chunk", Avail(g) # 0
  PROVE  /\ puller[g] \in Clients /\ pc[puller[g]] = "pulling" /\ puller[g] # g
         /\ at[puller[g]] = out[g] /\ Input[puller[g]] = g
         /\ Avail(g) \in Nat /\ Turn(g) \in 1 .. Avail(g)
         /\ filled[g] \in Nat /\ BlockSize[g] \in Nat
         /\ filled[g] + Turn(g) <= BlockSize[g]
         /\ \A n \in 0 .. Turn(g) : Written(g, n) \in [1 .. BlockSize[g] -> Nat]
<1> DEFINE in == array[Input[g]][at[g]]
<1>1. TypeOK /\ GenInv(g) /\ ClientInv(g) /\ g \in Clients
  BY ConstantFacts DEF IInv
<1>2. /\ filled[g] \in Nat /\ BlockSize[g] \in Nat /\ filled[g] < BlockSize[g]
      /\ puller[g] \in Clients /\ pc[puller[g]] = "pulling" /\ puller[g] # g
      /\ at[puller[g]] = out[g] /\ Input[puller[g]] = g
      /\ array[g][out[g]] \in [1 .. BlockSize[g] -> Nat]
  BY <1>1, GenTypes, ConstantFacts DEF GenInv
<1>3. in \in Seq(Nat) /\ Len(in) \in Nat /\ off[g] \in Nat
  BY <1>1, NextReach, ClientTypes DEF Blocks
<1>4. Avail(g) \in Nat
  <2>1. at[g] # None
    BY <1>1 DEF ClientInv, Holding
  <2>2. off[g] # 0 => off[g] < Len(in)
    BY <1>1, <2>1 DEF ClientInv
  <2> QED BY <1>3, <2>2 DEF Avail
<1>5. Turn(g) \in 1 .. Avail(g) /\ filled[g] + Turn(g) <= BlockSize[g]
  BY <1>2, <1>4 DEF Turn, Min2
<1>6. ASSUME NEW n \in 0 .. Turn(g) PROVE Written(g, n) \in [1 .. BlockSize[g] -> Nat]
  <2> SUFFICES ASSUME NEW k \in 1 .. BlockSize[g]
               PROVE  /\ k \in filled[g] + 1 .. filled[g] + n => in[off[g] + k - filled[g]] \in Nat
                      /\ array[g][out[g]][k] \in Nat
    BY DEF Written
  <2>1. ASSUME k \in filled[g] + 1 .. filled[g] + n PROVE in[off[g] + k - filled[g]] \in Nat
    <3>1. n \in Nat /\ n <= Avail(g) /\ Avail(g) = Len(in) - off[g]
      BY <1>4, <1>5 DEF Avail
    <3>2. off[g] + k - filled[g] \in 1 .. Len(in)
      <4>1. off[g] \in Nat /\ Len(in) \in Nat
        BY <1>3
      <4>2. n \in Nat /\ n <= Len(in) - off[g] /\ filled[g] \in Nat
        BY <1>2, <3>1
      <4>3. k \in Nat /\ k >= filled[g] + 1 /\ k <= filled[g] + n
        BY <2>1, <4>2
      <4> HIDE DEF in
      <4> QED BY <4>1, <4>2, <4>3
    <3> QED BY <1>3, <3>2, ElementOfSeq
  <2> QED BY <1>2, <2>1
<1> QED BY <1>2, <1>4, <1>5, <1>6

(* Writing into the block being pulled disturbs no client. *)
LEMMA OutputStep ==
  ASSUME IInv, NEW g \in Gens, puller[g] # None,
         NEW f \in [1 .. BlockSize[g] -> Nat],
         array' = [array EXCEPT ![g][out[g]] = f]
  PROVE  /\ array' \in [Lists -> [Cells -> Blocks \cup {None}]]
         /\ array'[g][out[g]] = f
         /\ \A l \in Lists, i \in Cells : array'[l][i] = None <=> array[l][i] = None
         /\ \A l \in Lists, i \in Cells :
              Published(l, i) => array'[l][i] = array[l][i]
         /\ \A h \in Gens \ {g} : array'[h] = array[h]
         /\ array'[Root] = array[Root]
<1>1. TypeOK /\ GenInv(g) /\ out[g] \in Cells /\ g \in Lists /\ g # Root
  BY GenTypes, ListAssumption DEF IInv
<1>2. f \in Blocks /\ f # None /\ array[g][out[g]] # None
  <2>1. array[g][out[g]] \in [1 .. BlockSize[g] -> Nat]
    BY <1>1 DEF GenInv
  <2> QED BY <2>1, OutputIsBlock
<1>3. array'[g][out[g]] = f /\ array' \in [Lists -> [Cells -> Blocks \cup {None}]]
  BY <1>1, <1>2 DEF TypeOK
<1>4. \A l \in Lists, i \in Cells : ~ (l = g /\ i = out[g]) => array'[l][i] = array[l][i]
  BY <1>1 DEF TypeOK
<1>5. \A h \in Lists \ {g} : array'[h] = array[h]
  BY <1>1 DEF TypeOK
<1> QED BY <1>1, <1>2, <1>3, <1>4, <1>5, ConstantFacts DEF Published

LEMMA CopyInv == ASSUME IInv, NEW g \in Gens, Copy(g) PROVE IInv'
<1> DEFINE n == Turn(g)
<1>1. /\ TypeOK /\ pc[g] = "chunk" /\ Avail(g) # 0 /\ g \in Clients
      /\ array'  = [array EXCEPT ![g][out[g]] = Written(g, n)]
      /\ filled' = [filled EXCEPT ![g] = @ + n]
      /\ Advance(g, n)
      /\ pc' = [pc EXCEPT ![g] = "idle"]
      /\ UNCHANGED <<thunk, next, lock, out, done, puller, got, reads, aborted>>
  BY ConstantFacts DEF IInv, Copy, Goto
<1>2. /\ puller[g] \in Clients /\ pc[puller[g]] = "pulling" /\ puller[g] # g
      /\ at[puller[g]] = out[g] /\ Input[puller[g]] = g /\ puller[g] # None
      /\ n \in 1 .. Avail(g) /\ n \in Nat /\ n \in 0 .. n
      /\ filled[g] + n \in Nat /\ filled[g] + n <= BlockSize[g]
      /\ Written(g, n) \in [1 .. BlockSize[g] -> Nat]
  BY <1>1, TurnFacts, ConstantFacts
<1> HIDE DEF n
<1>3. /\ array' \in [Lists -> [Cells -> Blocks \cup {None}]]
      /\ array'[g][out[g]] = Written(g, n)
      /\ \A l \in Lists, i \in Cells : array'[l][i] = None <=> array[l][i] = None
      /\ \A l \in Lists, i \in Cells : Published(l, i) => array'[l][i] = array[l][i]
      /\ \A h \in Gens \ {g} : array'[h] = array[h]
      /\ array'[Root] = array[Root]
  BY <1>1, <1>2, OutputStep
<1>4. /\ at' \in [Clients -> Cells \cup {None}] /\ off' \in [Clients -> Nat]
      /\ \A d \in Clients \ {g} : at'[d] = at[d] /\ off'[d] = off[d]
      /\ at'[g] # None => Reach(Input[g], at'[g])
      /\ at'[g] = None => off'[g] = 0
      /\ off'[g] # 0 => at'[g] = at[g] /\ off'[g] < Len(array[Input[g]][at[g]])
  BY <1>1, <1>2, AdvanceFacts
<1>5. TypeOK'
  BY <1>1, <1>2, <1>3, <1>4 DEF TypeOK, PCs
<1>6. pc'[g] = "idle" /\ \A d \in Clients \ {g} : pc'[d] = pc[d]
  BY <1>1 DEF TypeOK
<1>7. RootInv'
  BY <1>1, <1>3 DEF IInv, RootInv
<1>8. NoOrphanLock'
  <2> SUFFICES ASSUME NEW l \in Lists, NEW i \in Cells, lock[l][i] # None
               PROVE  /\ pc'[lock[l][i]] \in Holding
                      /\ Input[lock[l][i]] = l /\ at'[lock[l][i]] = i
    BY <1>1 DEF NoOrphanLock, Holding
  <2>1. lock[l][i] \in Clients
    BY <1>1, CellTypes
  <2>2. pc[lock[l][i]] \in Holding /\ Input[lock[l][i]] = l /\ at[lock[l][i]] = i
    BY DEF IInv, NoOrphanLock, Holding
  <2> QED BY <1>1, <1>4, <1>6, <2>1, <2>2 DEF Holding
<1>9. ASSUME NEW d \in Clients PROVE ClientInv(d)'
  <2>0. ClientInv(d) /\ at[d] \in Cells \cup {None} /\ Input[d] \in Lists
    BY <1>1, ClientTypes, InputFacts DEF IInv
  <2>1. CASE d = g
    <3>1. at'[g] # None => Reach(Input[g], at[g])'
      BY <1>1, <1>4 DEF Reach, Broken
    <3>2. at[g] \in Cells /\ Published(Input[g], at[g])
      BY <1>1, <2>0, <2>1 DEF ClientInv, Holding
    <3>3. off'[g] # 0 => Published(Input[g], at[g])' /\ off'[g] < Len(array'[Input[g]][at'[g]])
      BY <1>1, <1>3, <1>4, <2>0, <2>1, <3>2 DEF Published
    <3> QED BY <1>4, <1>6, <2>1, <3>1, <3>3 DEF ClientInv, Holding
  <2>2. CASE d # g
    <3>0. ASSUME NEW l \in Lists, NEW i \in Cells, Published(l, i)
          PROVE  array'[l][i] = array[l][i] /\ array'[l][i] # None
      BY <1>3, <3>0 DEF Published
    <3>1. Published(Input[d], at[d]) /\ at[d] # None =>
             Published(Input[d], at[d])' /\ array'[Input[d]][at[d]] = array[Input[d]][at[d]]
      BY <1>1, <2>0, <2>2, <1>4, <3>0 DEF Published
    <3> QED BY <1>1, <1>4, <1>6, <2>0, <2>2, <3>1, OtherClient DEF ClientInv, Holding, Reach, Broken
  <2> QED BY <2>1, <2>2
<1>10. ASSUME NEW h \in Gens PROVE GenInv(h)'
  <2>1. GenInv(h) /\ puller[h] \in Clients \cup {None} /\ h \in Clients /\ h \in Lists /\ out[h] \in Cells
    BY <1>1, GenTypes DEF IInv
  <2>2. puller[h] # g
    BY <1>1, <2>1, ConstantFacts DEF GenInv
  <2>3. CASE h = g
    BY <1>1, <1>2, <1>3, <1>4, <1>6, <2>1, <2>3 DEF TypeOK, GenInv
  <2>4. CASE h # g
    BY <1>1, <1>3, <1>4, <1>6, <2>1, <2>2, <2>4 DEF TypeOK, GenInv
  <2> QED BY <2>3, <2>4
<1> QED BY <1>5, <1>7, <1>8, <1>9, <1>10 DEF IInv

(* Locks when one client changes its program counter among Holding and     *)
(* another one, which held no lock, changes to a counter outside Holding.  *)
LEMMA SameLocks ==
  ASSUME IInv, NEW p \in Clients, NEW g \in Clients, UNCHANGED <<lock, at>>,
         pc[g] \notin Holding, pc'[p] \in Holding,
         \A d \in Clients \ {g, p} : pc'[d] = pc[d]
  PROVE  NoOrphanLock'
<1> SUFFICES ASSUME NEW l \in Lists, NEW i \in Cells, lock[l][i] # None
             PROVE  /\ pc'[lock[l][i]] \in Holding
                    /\ Input[lock[l][i]] = l /\ at[lock[l][i]] = i
  BY DEF NoOrphanLock, Holding
<1>1. lock[l][i] \in Clients
  BY CellTypes DEF IInv
<1>2. pc[lock[l][i]] \in Holding /\ Input[lock[l][i]] = l /\ at[lock[l][i]] = i
  BY DEF IInv, NoOrphanLock, Holding
<1> QED BY <1>1, <1>2

LEMMA ThrowInv == ASSUME IInv, NEW g \in Gens, Throw(g) PROVE IInv'
<1> DEFINE p == puller[g]
<1>1. /\ TypeOK /\ pc[g] = "chunk" /\ Avail(g) # 0 /\ g \in Clients
      /\ pc'     = [pc EXCEPT ![g] = "idle", ![puller[g]] = "thrown"]
      /\ puller' = [puller EXCEPT ![g] = None]
      /\ UNCHANGED <<thunk, next, lock, out, done, filled, at, off, got, reads, aborted>>
  BY ConstantFacts DEF IInv, Throw, cursor
<1>2. /\ p \in Clients /\ pc[p] = "pulling" /\ p # g
      /\ at[p] = out[g] /\ Input[p] = g /\ p # None
      /\ GenInv(g)
  BY <1>1, TurnFacts, ConstantFacts DEF IInv
<1>3. PICK f \in [1 .. BlockSize[g] -> Nat] : array' = [array EXCEPT ![g][out[g]] = f]
  <2>1. PICK n \in 0 .. Turn(g) - 1 : array' = [array EXCEPT ![g][out[g]] = Written(g, n)]
    BY DEF Throw
  <2>2. Turn(g) \in Nat
    BY <1>1, TurnFacts
  <2>3. n \in 0 .. Turn(g)
    BY <2>2
  <2> QED BY <1>1, <2>1, <2>3, TurnFacts
<1>4. /\ array' \in [Lists -> [Cells -> Blocks \cup {None}]]
      /\ \A l \in Lists, i \in Cells : array'[l][i] = None <=> array[l][i] = None
      /\ \A l \in Lists, i \in Cells : Published(l, i) => array'[l][i] = array[l][i]
      /\ \A h \in Gens \ {g} : array'[h] = array[h]
      /\ array'[Root] = array[Root]
  BY <1>2, <1>3, OutputStep
<1>5. /\ pc'[g] = "idle" /\ pc'[p] = "thrown" /\ puller'[g] = None
      /\ \A d \in Clients \ {g, p} : pc'[d] = pc[d]
      /\ \A h \in Gens \ {g} : puller'[h] = puller[h]
  BY <1>1, <1>2 DEF TypeOK
<1>6. TypeOK'
  BY <1>1, <1>2, <1>4 DEF TypeOK, PCs
<1>7. RootInv'
  BY <1>1, <1>4 DEF IInv, RootInv
<1>8. NoOrphanLock'
  BY <1>1, <1>2, <1>5, SameLocks DEF Holding
<1>9. \A l \in Lists, i \in Cells : Published(l, i) =>
         Published(l, i)' /\ array'[l][i] = array[l][i]
  BY <1>1, <1>4, <1>5 DEF Published
<1>10. ASSUME NEW d \in Clients PROVE ClientInv(d)'
  <2>0. ClientInv(d) /\ at[d] \in Cells \cup {None} /\ Input[d] \in Lists
    BY <1>1, ClientTypes, InputFacts DEF IInv
  <2>1. at[d] # None /\ Reach(Input[d], at[d]) => Reach(Input[d], at[d])'
    <3>1. CASE Input[d] = g
      BY <1>1, <1>2, <1>5, <2>0, <3>1 DEF Reach, Broken
    <3>2. CASE Input[d] # g
      BY <1>1, <1>5, <2>0, <3>2, InputFacts DEF Reach, Broken
    <3> QED BY <3>1, <3>2
  <2>2. Published(Input[d], at[d]) /\ at[d] # None =>
             Published(Input[d], at[d])' /\ array'[Input[d]][at[d]] = array[Input[d]][at[d]]
    BY <1>1, <1>9, <2>0 DEF Published
  <2>3. CASE d = g \/ d = p
    BY <1>1, <1>2, <1>5, <2>0, <2>1, <2>2, <2>3, ConstantFacts DEF ClientInv, Holding
  <2>4. CASE d # g /\ d # p
    <3>1. pc[d] = "pulling" => puller'[Input[d]] = d
      BY <1>2, <1>5, <2>0, <2>4 DEF ClientInv
    <3> QED BY <1>1, <1>5, <2>0, <2>1, <2>2, <2>4, <3>1, OtherClient DEF ClientInv, Holding
  <2> QED BY <2>3, <2>4
<1>11. ASSUME NEW h \in Gens PROVE GenInv(h)'
  <2>1. GenInv(h) /\ puller[h] \in Clients \cup {None} /\ h \in Clients /\ h \in Lists /\ out[h] \in Cells
    BY <1>1, GenTypes DEF IInv
  <2>2. puller[h] # g
    BY <1>1, <2>1, ConstantFacts DEF GenInv
  <2>3. CASE h = g
    BY <1>1, <1>4, <1>5, <2>1, <2>3 DEF GenInv
  <2>4. CASE h # g
    <3>1. puller[h] # p
      BY <1>2, <2>1, <2>4 DEF GenInv
    <3>2. h = p => puller[h] # None /\ filled[h] < BlockSize[h]
      BY <1>2, <2>1 DEF GenInv
    <3>3. pc'[h] # "idle" => puller'[h] # None /\ filled'[h] < BlockSize[h]
      BY <1>1, <1>5, <2>1, <2>4, <3>2 DEF GenInv
    <3>4. puller'[h] = puller[h] /\ (puller[h] # None => pc'[puller[h]] = pc[puller[h]])
      BY <1>5, <2>1, <2>2, <2>4, <3>1
    <3>5. array'[h] = array[h] /\ UNCHANGED <<thunk, next, out, at, filled>>
      BY <1>1, <1>4, <2>4
    <3> HIDE DEF p
    <3> QED BY <2>1, <3>3, <3>4, <3>5 DEF GenInv
  <2> QED BY <2>3, <2>4
<1> QED BY <1>6, <1>7, <1>8, <1>10, <1>11 DEF IInv

LEMMA UnwindInv == ASSUME IInv, NEW c \in Clients, Unwind(c) PROVE IInv'
<1> DEFINE g == Input[c]
<1>1. /\ TypeOK /\ ClientInv(c) /\ pc[c] = "thrown" /\ at[c] \in Cells /\ g \in Lists
      /\ lock[g][at[c]] = c
      /\ lock' = [lock EXCEPT ![g][at[c]] = None]
      /\ UNCHANGED <<thunk, next, array, out, done, filled, at, off, got, reads, aborted>>
  BY ClientTypes, InputFacts DEF IInv, ClientInv, Holding, Unwind, LockCell, cursor
<1>2. /\ lock'[g][at[c]] = None
      /\ \A l \in Lists, i \in Cells : ~ (l = g /\ i = at[c]) => lock'[l][i] = lock[l][i]
      /\ lock' \in [Lists -> [Cells -> Clients \cup {None}]]
  BY <1>1 DEF TypeOK
<1>3. \A d \in Clients \ {c} : pc[d] \in Holding => ~ (Input[d] = g /\ at[d] = at[c])
  BY <1>1 DEF IInv, ClientInv
<1>4. \A d \in Clients \ {c} : pc[d] \in Holding /\ at[d] \in Cells => lock'[Input[d]][at[d]] = d
  BY <1>2, <1>3, InputFacts DEF IInv, ClientInv
<1>5. RootInv'
  BY <1>1 DEF IInv, RootInv
<1>6. CASE c \in Readers
  <2>1. pc' = [pc EXCEPT ![c] = "failed"] /\ puller' = puller /\ c \notin Gens
    BY <1>6, ListAssumption DEF Unwind, Goto
  <2>2. pc'[c] = "failed" /\ \A d \in Clients \ {c} : pc'[d] = pc[d]
    BY <1>1, <2>1 DEF TypeOK
  <2>3. TypeOK'
    BY <1>1, <1>2, <2>1 DEF TypeOK, PCs
  <2>4. NoOrphanLock'
    <3> SUFFICES ASSUME NEW l \in Lists, NEW i \in Cells, lock'[l][i] # None
                 PROVE  /\ pc'[lock'[l][i]] \in Holding
                        /\ Input[lock'[l][i]] = l /\ at[lock'[l][i]] = i
      BY <1>1 DEF NoOrphanLock, Holding
    <3>1. lock'[l][i] = lock[l][i] /\ lock[l][i] \in Clients /\ ~ (l = g /\ i = at[c])
      BY <1>1, <1>2, CellTypes
    <3>2. pc[lock[l][i]] \in Holding /\ Input[lock[l][i]] = l /\ at[lock[l][i]] = i
      BY <3>1 DEF IInv, NoOrphanLock, Holding
    <3> QED BY <2>2, <3>1, <3>2
  <2>5. ASSUME NEW d \in Clients PROVE ClientInv(d)'
    <3>1. ClientInv(d) /\ at[d] \in Cells \cup {None}
      BY <1>1, ClientTypes DEF IInv
    <3>2. CASE d = c
      BY <1>1, <1>6, <2>1, <2>2, <3>1, <3>2 DEF ClientInv, Holding, Reach, Broken, Published
    <3>3. CASE d # c
      BY <1>1, <1>4, <2>1, <2>2, <3>1, <3>3 DEF ClientInv, Holding, Reach, Broken, Published
    <3> QED BY <3>2, <3>3
  <2>6. ASSUME NEW h \in Gens PROVE GenInv(h)'
    <3>1. GenInv(h) /\ puller[h] \in Clients \cup {None} /\ h \in Clients
      BY <1>1, GenTypes DEF IInv
    <3>2. puller[h] # c /\ h # c
      BY <1>1, <2>1, <3>1, ConstantFacts DEF GenInv
    <3> QED BY <1>1, <2>1, <2>2, <3>1, <3>2 DEF GenInv
  <2> QED BY <1>5, <2>3, <2>4, <2>5, <2>6 DEF IInv
<1>7. CASE c \in Gens
  <2> DEFINE p == puller[c]
  <2>1. /\ pc' = [pc EXCEPT ![c] = "idle", ![p] = "thrown"]
        /\ puller' = [puller EXCEPT ![c] = None]
    BY <1>7, ListAssumption DEF Unwind
  <2>2. /\ p \in Clients /\ p # None /\ p # c /\ pc[p] = "pulling" /\ Input[p] = c
        /\ at[p] = out[c] /\ GenInv(c) /\ out[c] \in Cells
    BY <1>1, <1>7, GenTypes DEF IInv, GenInv
  <2>3. /\ pc'[c] = "idle" /\ pc'[p] = "thrown" /\ puller'[c] = None
        /\ \A d \in Clients \ {c, p} : pc'[d] = pc[d]
        /\ \A h \in Gens \ {c} : puller'[h] = puller[h]
    BY <1>1, <1>7, <2>1, <2>2 DEF TypeOK
  <2>4. TypeOK'
    BY <1>1, <1>2, <1>7, <2>1, <2>2 DEF TypeOK, PCs
  <2>5. NoOrphanLock'
    <3> SUFFICES ASSUME NEW l \in Lists, NEW i \in Cells, lock'[l][i] # None
                 PROVE  /\ pc'[lock'[l][i]] \in Holding
                        /\ Input[lock'[l][i]] = l /\ at[lock'[l][i]] = i
      BY <1>1 DEF NoOrphanLock, Holding
    <3>1. lock'[l][i] = lock[l][i] /\ lock[l][i] \in Clients /\ ~ (l = g /\ i = at[c])
      BY <1>1, <1>2, CellTypes
    <3>2. pc[lock[l][i]] \in Holding /\ Input[lock[l][i]] = l /\ at[lock[l][i]] = i
      BY <3>1 DEF IInv, NoOrphanLock, Holding
    <3>3. lock[l][i] # c
      BY <3>1, <3>2
    <3> QED BY <2>3, <3>1, <3>2, <3>3 DEF Holding
  <2>6. \A l \in Lists, i \in Cells : Published(l, i) => Published(l, i)'
    BY <1>1, <2>3 DEF Published
  <2>7. ASSUME NEW d \in Clients PROVE ClientInv(d)'
    <3>0. ClientInv(d) /\ at[d] \in Cells \cup {None} /\ Input[d] \in Lists
      BY <1>1, ClientTypes, InputFacts DEF IInv
    <3>1. at[d] # None /\ Reach(Input[d], at[d]) => Reach(Input[d], at[d])'
      <4>1. CASE Input[d] = c
        BY <1>1, <2>2, <2>3, <3>0, <4>1 DEF Reach, Broken
      <4>2. CASE Input[d] # c
        BY <1>1, <2>3, <3>0, <4>2, InputFacts DEF Reach, Broken
      <4> QED BY <4>1, <4>2
    <3>2. Published(Input[d], at[d]) /\ at[d] # None =>
               Published(Input[d], at[d])' /\ array'[Input[d]][at[d]] = array[Input[d]][at[d]]
      BY <1>1, <2>6, <3>0 DEF Published
    <3>3. CASE d = c
      BY <1>1, <2>3, <3>0, <3>1, <3>2, <3>3 DEF ClientInv, Holding
    <3>4. CASE d = p
      <4>1. lock'[Input[d]][at[d]] = d
        BY <1>4, <2>2, <3>4 DEF Holding
      <4> QED BY <1>1, <2>2, <2>3, <3>0, <3>1, <3>2, <3>4, <4>1, ConstantFacts DEF ClientInv, Holding
    <3>5. CASE d # c /\ d # p
      <4>1. pc[d] = "pulling" => puller'[Input[d]] = d
        BY <2>2, <2>3, <3>0, <3>5 DEF ClientInv
      <4>2. pc[d] \in Holding => lock'[Input[d]][at[d]] = d
        BY <1>4, <3>0, <3>5 DEF ClientInv
      <4> QED BY <1>1, <2>3, <3>0, <3>1, <3>2, <3>5, <4>1, <4>2, OtherClient DEF ClientInv, Holding
    <3> QED BY <3>3, <3>4, <3>5
  <2>8. ASSUME NEW h \in Gens PROVE GenInv(h)'
    <3>1. GenInv(h) /\ puller[h] \in Clients \cup {None} /\ h \in Clients
      BY <1>1, GenTypes DEF IInv
    <3>2. puller[h] # c
      BY <1>1, <3>1, ConstantFacts DEF GenInv
    <3>3. CASE h = c
      BY <1>1, <2>3, <3>1, <3>3 DEF GenInv
    <3>4. CASE h # c
      <4>1. puller[h] # p
        BY <2>2, <3>1, <3>4 DEF GenInv
      <4>2. h = p => puller[h] # None /\ filled[h] < BlockSize[h]
        BY <2>2, <3>1 DEF GenInv
      <4>3. pc'[h] # "idle" => puller'[h] # None /\ filled'[h] < BlockSize[h]
        BY <1>1, <2>3, <3>1, <3>4, <4>2 DEF GenInv
      <4>4. puller'[h] = puller[h] /\ (puller[h] # None => pc'[puller[h]] = pc[puller[h]])
        BY <2>3, <3>1, <3>2, <3>4, <4>1
      <4> HIDE DEF p
      <4> QED BY <1>1, <3>1, <4>3, <4>4 DEF GenInv
    <3> QED BY <3>3, <3>4
  <2> QED BY <1>5, <2>4, <2>5, <2>7, <2>8 DEF IInv
<1> QED BY <1>6, <1>7 DEF Clients

(* produce: the cell of the pull is published with the frames written. *)
LEMMA ProduceInv ==
  ASSUME IInv, NEW g \in Gens, Produce(g), done' \in [Gens -> BOOLEAN],
         pc[g] \notin Holding, puller[g] # None
  PROVE  IInv'
<1> DEFINE p == puller[g]
<1> DEFINE o == out[g]
<1>1. /\ TypeOK /\ GenInv(g) /\ g \in Clients /\ g \in Lists /\ o \in Cells
      /\ p \in Clients /\ p # None /\ p # g /\ pc[p] = "pulling" /\ Input[p] = g
      /\ at[p] = o /\ thunk[g] = {o + 1} /\ o + 1 \in Cells /\ o \in Nat
      /\ array[g][o] \in [1 .. BlockSize[g] -> Nat]
      /\ filled[g] \in Nat /\ filled[g] <= BlockSize[g]
  <2>1. TypeOK /\ GenInv(g)
    BY DEF IInv
  <2>2. o \in Cells /\ o \in Nat /\ g \in Lists /\ g \in Clients /\ p \in Clients /\ filled[g] \in Nat
    BY <2>1, GenTypes, ConstantFacts
  <2>3. thunk[g] = {o + 1} /\ pc[p] = "pulling" /\ Input[p] = g /\ at[p] = o
        /\ array[g][o] \in [1 .. BlockSize[g] -> Nat] /\ filled[g] <= BlockSize[g]
    BY <2>1 DEF GenInv
  <2>4. thunk[g] \subseteq Cells
    BY <2>1, <2>2, CellTypes
  <2> QED BY <2>1, <2>2, <2>3, <2>4 DEF Holding
<1>2. /\ array' = [array EXCEPT ![g][o] = SubSeq(array[g][o], 1, filled[g])]
      /\ out' = [out EXCEPT ![g] = @ + 1]
      /\ puller' = [puller EXCEPT ![g] = None]
      /\ pc' = [pc EXCEPT ![g] = "idle", ![p] = "chunk"]
      /\ lock' = [lock EXCEPT ![g][o] = None]
      /\ UNCHANGED <<thunk, next, filled, at, off, got, reads, aborted>>
  BY <1>1 DEF Produce, Shrunk, LockCell, cursor, TypeOK
<1>3. SubSeq(array[g][o], 1, filled[g]) \in Blocks
  <2>1. \A i \in 1 .. filled[g] : array[g][o][i] \in Nat
    BY <1>1, ListAssumption
  <2> QED BY <1>1, <2>1, SubSeqProperties DEF Blocks
<1> DEFINE b == SubSeq(array[g][o], 1, filled[g])
<1> HIDE DEF b
<1>4. /\ array' \in [Lists -> [Cells -> Blocks \cup {None}]]
      /\ array'[g][o] = b /\ b # None
      /\ \A l \in Lists, i \in Cells : ~ (l = g /\ i = o) => array'[l][i] = array[l][i]
      /\ \A h \in Lists \ {g} : array'[h] = array[h]
  <2>1. array' = [array EXCEPT ![g][o] = b] /\ b \in Blocks
    BY <1>2, <1>3 DEF b
  <2> QED BY <1>1, <2>1, ConstantFacts DEF TypeOK
<1>5. /\ lock' \in [Lists -> [Cells -> Clients \cup {None}]]
      /\ lock'[g][o] = None
      /\ \A l \in Lists, i \in Cells : ~ (l = g /\ i = o) => lock'[l][i] = lock[l][i]
  BY <1>1, <1>2 DEF TypeOK
<1>6. /\ pc'[g] = "idle" /\ pc'[p] = "chunk" /\ puller'[g] = None /\ out'[g] = o + 1
      /\ \A d \in Clients \ {g, p} : pc'[d] = pc[d]
      /\ \A h \in Gens \ {g} : puller'[h] = puller[h] /\ out'[h] = out[h]
  BY <1>1, <1>2 DEF TypeOK
<1>7. TypeOK'
  <2>1. out' \in [Gens -> Cells] /\ puller' \in [Gens -> Clients \cup {None}]
        /\ pc' \in [Clients -> PCs]
    BY <1>1, <1>2 DEF TypeOK, PCs
  <2> QED BY <1>1, <1>2, <1>4, <1>5, <2>1 DEF TypeOK
<1> HIDE DEF p, o
<1>8. RootInv'
  BY <1>2, <1>4, ConstantFacts DEF IInv, RootInv
<1>9. NoOrphanLock'
  <2> SUFFICES ASSUME NEW l \in Lists, NEW i \in Cells, lock'[l][i] # None
               PROVE  /\ pc'[lock'[l][i]] \in Holding
                      /\ Input[lock'[l][i]] = l /\ at[lock'[l][i]] = i
    <3>1. at' = at
      BY <1>2
    <3> QED BY <3>1 DEF NoOrphanLock, Holding
  <2>1. lock'[l][i] = lock[l][i] /\ lock[l][i] \in Clients /\ ~ (l = g /\ i = o)
    BY <1>1, <1>5, CellTypes
  <2>2. pc[lock[l][i]] \in Holding /\ Input[lock[l][i]] = l /\ at[lock[l][i]] = i
    BY <2>1 DEF IInv, NoOrphanLock, Holding
  <2>3. lock[l][i] # p /\ lock[l][i] # g
    BY <1>1, <2>1, <2>2
  <2> QED BY <1>6, <2>1, <2>2, <2>3
<1>10. \A l \in Lists, i \in Cells : Published(l, i) =>
          Published(l, i)' /\ array'[l][i] = array[l][i]
  <2> SUFFICES ASSUME NEW l \in Lists, NEW i \in Cells, Published(l, i)
               PROVE  Published(l, i)' /\ array'[l][i] = array[l][i]
    OBVIOUS
  <2>1. ~ (l = g /\ i = o)
    BY <1>1 DEF Published, o, p
  <2> QED BY <1>4, <1>6, <2>1 DEF Published
<1>11. array'[g][o] # None /\ puller'[g] = None
  BY <1>4, <1>6
<1>12. off[p] = 0
  <2>1. ClientInv(p) /\ ~ Published(g, o) /\ at[p] # None
    BY <1>1, ConstantFacts DEF IInv, Published, p, o
  <2> QED BY <1>1, <2>1 DEF ClientInv
<1>13. ASSUME NEW d \in Clients PROVE ClientInv(d)'
  <2>0. ClientInv(d) /\ at[d] \in Cells \cup {None} /\ Input[d] \in Lists
    BY <1>1, ClientTypes, InputFacts DEF IInv
  <2>1. at[d] # None /\ Reach(Input[d], at[d]) => Reach(Input[d], at[d])'
    <3>1. CASE Input[d] = g
      <4>1. at[d] # None => at[d] \in Nat
        BY <2>0, ConstantFacts
      <4> QED BY <1>1, <1>2, <1>6, <3>1, <4>1 DEF Reach, Broken, o
    <3>2. CASE Input[d] # g
      BY <1>2, <1>6, <2>0, <3>2, InputFacts DEF Reach, Broken
    <3> QED BY <3>1, <3>2
  <2>2. Published(Input[d], at[d]) /\ at[d] # None =>
             Published(Input[d], at[d])' /\ array'[Input[d]][at[d]] = array[Input[d]][at[d]]
    BY <1>2, <1>10, <2>0 DEF Published
  <2>3. CASE d = g
    BY <1>2, <1>6, <2>0, <2>1, <2>2, <2>3 DEF ClientInv, Holding
  <2>4. CASE d = p
    <3>1. Published(Input[d], at[d])'
      <4>1. Input[d] = g /\ at'[d] = o
        BY <1>1, <1>2, <2>4
      <4> QED BY <1>11, <4>1 DEF Published
    <3> QED BY <1>1, <1>2, <1>6, <1>12, <2>0, <2>1, <2>4, <3>1, ConstantFacts DEF ClientInv, Holding
  <2>5. CASE d # g /\ d # p
    <3>1. pc[d] = "pulling" => puller'[Input[d]] = d
      BY <1>1, <1>6, <2>0, <2>5 DEF ClientInv, p
    <3>2. pc[d] \in Holding => lock'[Input[d]][at[d]] = d
      <4>1. pc[d] \in Holding => at[d] \in Cells /\ lock[Input[d]][at[d]] = d
        BY <2>0 DEF ClientInv
      <4>2. lock[g][o] = p
        BY <1>1, ConstantFacts DEF IInv, ClientInv, Holding
      <4> QED BY <1>5, <2>0, <2>5, <4>1, <4>2
    <3> QED BY <1>2, <1>6, <2>0, <2>1, <2>2, <2>5, <3>1, <3>2, OtherClient DEF ClientInv, Holding
  <2> QED BY <2>3, <2>4, <2>5
<1>14. ASSUME NEW h \in Gens PROVE GenInv(h)'
  <2>1. GenInv(h) /\ puller[h] \in Clients \cup {None} /\ h \in Clients /\ h \in Lists /\ out[h] \in Cells
    BY <1>1, GenTypes DEF IInv
  <2>2. CASE h = g
    <3>1. \A i \in next'[g] : i < o + 1
      <4> SUFFICES ASSUME NEW i \in next[g] PROVE i < o + 1
        BY <1>2
      <4>1. i \in Nat
        BY <1>1, CellTypes, ConstantFacts
      <4> QED BY <1>1, <4>1 DEF GenInv, o
    <3>2. \A i \in Cells : array'[g][i] = None <=> i > o + 1 \/ i \in {o + 1}
      <4> SUFFICES ASSUME NEW i \in Cells
                   PROVE  array'[g][i] = None <=> i > o + 1 \/ i \in {o + 1}
        OBVIOUS
      <4>1. array[g][i] = None <=> i > o \/ i \in {o + 1}
        BY <1>1 DEF GenInv, o
      <4>2. i \in Nat
        BY ConstantFacts
      <4> QED BY <1>1, <1>4, <4>1, <4>2
    <3> QED BY <1>1, <1>2, <1>6, <2>2, <3>1, <3>2 DEF GenInv
  <2>3. CASE h # g
    <3>1. puller[h] # p /\ puller[h] # g
      BY <1>1, <2>1, <2>3, ConstantFacts DEF GenInv, Holding
    <3>2. h = p => puller[h] # None /\ filled[h] < BlockSize[h]
      BY <1>1, <2>1 DEF GenInv
    <3>3. pc'[h] # "idle" => puller'[h] # None /\ filled'[h] < BlockSize[h]
      BY <1>2, <1>6, <2>1, <2>3, <3>2 DEF GenInv
    <3>4. puller'[h] = puller[h] /\ out'[h] = out[h]
          /\ (puller[h] # None => pc'[puller[h]] = pc[puller[h]])
      BY <1>6, <2>1, <2>3, <3>1
    <3>5. array'[h] = array[h] /\ UNCHANGED <<thunk, next, at, filled>>
      BY <1>2, <1>4, <2>1, <2>3
    <3> QED BY <2>1, <3>3, <3>4, <3>5 DEF GenInv
  <2> QED BY <2>2, <2>3
<1> QED BY <1>7, <1>8, <1>9, <1>13, <1>14 DEF IInv

-----------------------------------------------------------------------------
LEMMA NextInv == IInv /\ [Next]_vars => IInv'
<1> SUFFICES ASSUME IInv, [Next]_vars PROVE IInv'
  OBVIOUS
<1>1. CASE UNCHANGED vars
  <2>1. TypeOK' /\ RootInv' /\ NoOrphanLock'
    BY <1>1 DEF vars, IInv, TypeOK, RootInv, NoOrphanLock
  <2>2. ASSUME NEW c \in Clients PROVE ClientInv(c)'
    BY <1>1 DEF vars, IInv, ClientInv, Reach, Broken, Published
  <2>3. ASSUME NEW g \in Gens PROVE GenInv(g)'
    BY <1>1 DEF vars, IInv, GenInv
  <2> QED BY <2>1, <2>2, <2>3 DEF IInv
<1>2. CASE Next
  <2>1. ASSUME NEW c \in Clients, Cursor(c) \/ ForceStep(c) \/ Unwind(c) PROVE IInv'
    BY <2>1, CallInv, SkipInv, AcquireInv, ForceFilledInv, AbortForceInv, ForceEndInv,
       ForcePullInv, UnwindInv DEF Cursor, ForceStep
  <2>2. ASSUME NEW r \in Readers, Take(r) \/ Reread(r) PROVE IInv'
    BY <2>2, TakeInv, RereadInv
  <2>3. ASSUME NEW g \in Gens, Pull(g) PROVE IInv'
    <3>1. done \in [Gens -> BOOLEAN]
      BY DEF IInv, TypeOK
    <3>2. CASE FinishBlock(g)
      BY <3>1, <3>2, ProduceInv DEF FinishBlock, Holding
    <3>3. CASE FinishStream(g)
      <4>1. done' \in [Gens -> BOOLEAN]
        BY <3>1, <3>3 DEF FinishStream
      <4> QED BY <3>3, <4>1, ProduceInv DEF FinishStream, Holding
    <3> QED BY <2>3, <3>2, <3>3, CopyInv, ThrowInv DEF Pull
  <2> QED BY <1>2, <2>1, <2>2, <2>3 DEF Next
<1> QED BY <1>1, <1>2

LEMMA Invariance == Spec => []IInv
<1>1. Init => IInv
  BY InitInv
<1>2. IInv /\ [Next]_vars => IInv'
  BY NextInv
<1> QED BY <1>1, <1>2, PTL DEF Spec

(* Every variable keeps its type, whatever the pipelines and the faults. *)
THEOREM TypeCorrect == Spec => []TypeOK
<1>1. IInv => TypeOK
  BY DEF IInv
<1> QED BY <1>1, Invariance, PTL

(* No client that is outside List::force holds the spinlock of a cell,     *)
(* even when exceptions unwound through several nested forces.             *)
THEOREM NoLockIsOrphaned == Spec => []NoOrphanLock
<1>1. IInv => NoOrphanLock
  BY DEF IInv
<1> QED BY <1>1, Invariance, PTL

(* The spinlocks of the cells protect the unlocked state of a generator:   *)
(* two clients are never inside the same pull.                             *)
THEOREM OnePullAtATime == Spec => []PullExclusive
<1>1. IInv => PullExclusive
  BY DEF IInv, ClientInv, PullExclusive
<1> QED BY <1>1, Invariance, PTL

(* A step writes only arrays that no reader has been handed.               *)
LEMMA PublishedStep ==
  ASSUME IInv, [Next]_vars, NEW l \in Lists, NEW i \in Cells, Published(l, i)
  PROVE  array'[l][i] = array[l][i]
<1>0. TypeOK
  BY DEF IInv
<1>1. CASE array' = array
  BY <1>1
<1>2. ASSUME NEW c \in Clients, ForceEnd(c) \/ ForcePull(c)
      PROVE  array'[l][i] = array[l][i]
  <2> DEFINE g == Input[c]
  <2>1. pc[c] = "held" /\ at[c] \in thunk[g] /\ out[g] \in thunk[g]
    BY <1>2 DEF ForceEnd, ForcePull, End, Fulfill, HasGen
  <2>2. g \in Gens
    BY <2>1, InputFacts DEF IInv, RootInv
  <2>3. GenInv(g) /\ out[g] \in Cells
    BY <1>0, <2>2, GenTypes DEF IInv
  <2>4. array[g][out[g]] = None
    BY <2>1, <2>3 DEF GenInv
  <2>5. ~ (l = g /\ i = out[g])
    BY <2>4 DEF Published
  <2>6. PICK b : array' = [array EXCEPT ![g][out[g]] = b]
    BY <1>2 DEF ForceEnd, ForcePull, End, Fulfill, HasGen
  <2> HIDE DEF g
  <2> QED BY <1>0, <2>5, <2>6 DEF TypeOK
<1>3. ASSUME NEW g \in Gens, Pull(g) PROVE array'[l][i] = array[l][i]
  <2>1. puller[g] # None
    BY <1>3, TurnFacts, ConstantFacts DEF Pull, Copy, Throw, FinishBlock, FinishStream
  <2>2. ~ (l = g /\ i = out[g])
    BY <2>1 DEF Published
  <2>3. PICK b : array' = [array EXCEPT ![g][out[g]] = b]
    BY <1>3 DEF Pull, Copy, Throw, FinishBlock, FinishStream, Produce, Shrunk
  <2> QED BY <1>0, <2>2, <2>3 DEF TypeOK
<1> QED BY <1>1, <1>2, <1>3
        DEF Next, vars, Cursor, ForceStep, Call, Skip, Acquire, ForceFilled, AbortForce,
            Unwind, Take, Reread, cells

(* Once force has returned, the items a reader was handed never change,    *)
(* although it reads them without the lock.                                *)
THEOREM BlocksAreStable == Spec => PublishedStable
<1>1. IInv /\ [Next]_vars =>
        [\A l \in Lists, i \in Cells :
           Published(l, i) => array'[l][i] = array[l][i]]_vars
  BY PublishedStep
<1> QED BY <1>1, Invariance, PTL DEF Spec, PublishedStable

-----------------------------------------------------------------------------
(* Without exceptions: no pull is ever left half done, so that the one     *)
(* thunk of an idle generator is mOut.                                     *)
Whole ==
  /\ ~ aborted
  /\ \A c \in Clients : pc[c] # "thrown"
  /\ \A g \in Gens : puller[g] = None => thunk[g] \subseteq {out[g]}

(* assert(mGen) does not fail there.                                        *)
LEMMA ThunkIsOut ==
  ASSUME IInv, Whole, NEW c \in Clients
  PROVE  ~ AbortForce(c)
<1> SUFFICES ASSUME AbortForce(c) PROVE FALSE
  OBVIOUS
<1> DEFINE g == Input[c]
<1>1. at[c] \in thunk[g] /\ out[g] \notin thunk[g] /\ pc[c] = "held"
  BY DEF AbortForce, HasGen
<1>2. g \in Gens
  BY <1>1, InputFacts DEF IInv, RootInv
<1>3. GenInv(g) /\ ClientInv(c) /\ out[g] \in Cells /\ out[g] \in Nat
  BY <1>2, GenTypes, ConstantFacts DEF IInv
<1>4. thunk[g] = {out[g] + 1} /\ at[c] = out[g] + 1
  BY <1>1, <1>3 DEF GenInv
<1>5. puller[g] # None
  BY <1>1, <1>2, <1>4 DEF Whole
<1>6. Reach(g, at[c])
  BY <1>1, <1>3 DEF ClientInv, Holding
<1> QED BY <1>2, <1>3, <1>4, <1>5, <1>6, ConstantFacts DEF Reach, Broken

LEMMA WholeStep ==
  ASSUME Faulty = {}, IInv, Whole, [Next]_vars
  PROVE  Whole'
<1>0. TypeOK
  BY DEF IInv
<1>1. CASE UNCHANGED <<thunk, out, puller, aborted>> /\ \A c \in Clients : pc'[c] # "thrown"
  BY <1>1 DEF Whole
<1>2. ASSUME NEW c \in Clients, Call(c) \/ Skip(c) \/ Acquire(c) \/ ForceFilled(c)
      PROVE  Whole'
  <2>1. UNCHANGED <<thunk, out, puller, aborted>>
    BY <1>2 DEF Call, Skip, Acquire, ForceFilled, cells, gen
  <2>2. \A d \in Clients : pc'[d] # "thrown"
    BY <1>0, <1>2 DEF Call, Skip, Acquire, ForceFilled, Goto, Whole, TypeOK
  <2> QED BY <1>1, <2>1, <2>2
<1>3. ASSUME NEW c \in Clients, AbortForce(c) PROVE FALSE
  BY <1>3, ThunkIsOut
<1>4. ASSUME NEW c \in Clients, ForceEnd(c) PROVE Whole'
  <2>1. Input[c] \in Lists
    BY InputFacts
  <2>2. thunk'[Input[c]] \subseteq thunk[Input[c]] /\ \A l \in Lists \ {Input[c]} : thunk'[l] = thunk[l]
    BY <1>0, <1>4, <2>1 DEF ForceEnd, End, TypeOK
  <2>3. UNCHANGED <<out, puller, aborted>>
    BY <1>4 DEF ForceEnd, gen
  <2>4. \A d \in Clients : pc'[d] # "thrown"
    BY <1>0, <1>4 DEF ForceEnd, Goto, Whole, TypeOK
  <2> QED BY <2>2, <2>3, <2>4, ConstantFacts DEF Whole
<1>5. ASSUME NEW c \in Clients, ForcePull(c) PROVE Whole'
  <2>1. Input[c] \in Lists
    BY InputFacts
  <2>2. \A l \in Lists \ {Input[c]} : thunk'[l] = thunk[l]
    BY <1>0, <1>5, <2>1 DEF ForcePull, Fulfill, TypeOK
  <2>3. out' = out /\ aborted' = aborted
    BY <1>5 DEF ForcePull
  <2>4. \A d \in Clients : pc'[d] # "thrown"
    BY <1>0, <1>5 DEF ForcePull, Goto, Whole, TypeOK
  <2>5. \A h \in Gens : puller'[h] = IF h = Input[c] THEN c ELSE puller[h]
    BY <1>0, <1>5 DEF ForcePull, TypeOK
  <2> QED BY <2>2, <2>3, <2>4, <2>5, ConstantFacts DEF Whole
<1>6. ASSUME NEW c \in Clients, Unwind(c) PROVE FALSE
  BY <1>6 DEF Unwind, Whole
<1>7. ASSUME NEW r \in Readers, Take(r) \/ Reread(r) PROVE Whole'
  <2>1. UNCHANGED <<thunk, out, puller, aborted>>
    BY <1>7 DEF Take, Reread, cells, gen
  <2>2. \A d \in Clients : pc'[d] # "thrown"
    BY <1>0, <1>7 DEF Take, Reread, Goto, Whole, TypeOK
  <2> QED BY <1>1, <2>1, <2>2
<1>8. ASSUME NEW g \in Gens, Copy(g) PROVE Whole'
  <2>1. UNCHANGED <<thunk, out, puller, aborted>>
    BY <1>8 DEF Copy
  <2>2. \A d \in Clients : pc'[d] # "thrown"
    BY <1>0, <1>8 DEF Copy, Goto, Whole, TypeOK
  <2> QED BY <1>1, <2>1, <2>2
<1>9. ASSUME NEW g \in Gens, Throw(g) PROVE FALSE
  BY <1>9 DEF Throw, FirstFault
<1>10. ASSUME NEW g \in Gens, FinishBlock(g) \/ FinishStream(g) PROVE Whole'
  <2>1. puller[g] # None /\ Produce(g)
    BY <1>10 DEF FinishBlock, FinishStream
  <2>2. thunk[g] = {out[g] + 1}
    BY <2>1 DEF IInv, GenInv
  <2>3. /\ thunk' = thunk /\ aborted' = aborted
        /\ out' = [out EXCEPT ![g] = @ + 1]
        /\ puller' = [puller EXCEPT ![g] = None]
        /\ pc' = [pc EXCEPT ![g] = "idle", ![puller[g]] = "chunk"]
    BY <2>1 DEF Produce
  <2>4. \A d \in Clients : pc'[d] # "thrown"
    BY <1>0, <2>3 DEF Whole, TypeOK
  <2>5. \A h \in Gens : IF h = g THEN out'[h] = out[g] + 1
                        ELSE out'[h] = out[h] /\ puller'[h] = puller[h]
    BY <1>0, <2>3 DEF TypeOK
  <2> QED BY <2>2, <2>3, <2>4, <2>5 DEF Whole
<1>11. CASE UNCHANGED vars
  BY <1>11 DEF vars, Whole
<1>12. CASE Next
  BY <1>12, <1>2, <1>3, <1>4, <1>5, <1>6, <1>7, <1>8, <1>9, <1>10
     DEF Next, Cursor, ForceStep, Pull
<1> QED BY <1>11, <1>12

LEMMA WholeInit == Init => Whole
BY ConstantFacts DEF Init, Whole

(* When no pull throws, assert(mGen) in List::fulfill and List::end never  *)
(* fails, however many threads force the cells of however deep a pipeline. *)
THEOREM AssertHoldsWithoutExceptions ==
  ASSUME Faulty = {}
  PROVE  Spec => []NoAbort
<1>1. Init => Whole
  BY WholeInit
<1>2. IInv /\ Whole /\ [Next]_vars => Whole'
  BY WholeStep
<1>3. Whole => NoAbort
  BY DEF Whole, NoAbort
<1> QED BY <1>1, <1>2, <1>3, Invariance, PTL DEF Spec
-----------------------------------------------------------------------------
(* The refinement of Stream.  Places are pairs of numbers, counted from    *)
(* the front: by cell, then by index.                                      *)
UpTo(S, i, k) == {p \in S : p[1] < i \/ (p[1] = i /\ p[2] <= k)}
Row(i, m, n) == {i} \X (m + 1 .. n)

(* Places(l), for given blocks and given published cells. *)
PlacesOf(blocks, published) == UNION {{i} \X (1 .. Len(blocks[i])) : i \in published}
Shown(l) == {j \in Cells : Published(l, j)}
Rank(l, i, k) == Cardinality(UpTo(Places(l), i, k))

(* How many items a client has used, and where its cursor is for that.     *)
Used(c) ==
  IF c \in Readers THEN Len(got[c])
  ELSE Computed(c) + (IF puller[c] = None THEN 0 ELSE filled[c])
CursorInv(c) ==
  IF at[c] = None THEN Used(c) <= Computed(Input[c])
  ELSE Used(c) = Rank(Input[c], at[c], off[c])

(* Item k of a list is the number k, where it is shown, where a pull has   *)
(* written it, and where a reader has taken it.                            *)
ItemsInv(l) ==
  /\ IsFiniteSet(Places(l))
  /\ \A p \in Places(l) : array[l][p[1]][p[2]] = Rank(l, p[1], p[2])
OutputInv(g) ==
  puller[g] # None => \A k \in 1 .. filled[g] : array[g][out[g]][k] = Computed(g) + k
ReaderInv(r) == \A k \in 1 .. Len(got[r]) : got[r][k] = k

StreamInv ==
  /\ \A l \in Lists : ItemsInv(l)
  /\ \A c \in Clients : CursorInv(c)
  /\ \A g \in Gens : OutputInv(g)
  /\ \A r \in Readers : ReaderInv(r)

-----------------------------------------------------------------------------
(* Sets of places.                                                         *)

LEMMA PlacesMember ==
  ASSUME NEW blocks, NEW shown, NEW p
  PROVE  p \in PlacesOf(blocks, shown) <=>
           \E i \in shown : \E k \in 1 .. Len(blocks[i]) : p = <<i, k>>
BY DEF PlacesOf

(* Places depends on the blocks of the shown cells alone.                  *)
LEMMA PlacesEqual ==
  ASSUME NEW a, NEW b, NEW shown, \A i \in shown : a[i] = b[i]
  PROVE  PlacesOf(a, shown) = PlacesOf(b, shown)
BY DEF PlacesOf

(* n places of a cell in a row.                                            *)
LEMMA RowSize ==
  ASSUME NEW i, NEW m \in Nat, NEW n \in Nat
  PROVE  IsFiniteSet(Row(i, m, n)) /\ Cardinality(Row(i, m, n)) = IF m < n THEN n - m ELSE 0
<1>1. IsFiniteSet(m + 1 .. n) /\ Cardinality(m + 1 .. n) = IF m + 1 > n THEN 0 ELSE n - (m + 1) + 1
  BY FS_Interval
<1>2. IsFiniteSet({i}) /\ Cardinality({i}) = 1
  BY FS_Singleton
<1>3. IsFiniteSet(Row(i, m, n)) /\ Cardinality(Row(i, m, n)) = 1 * Cardinality(m + 1 .. n)
  BY <1>1, <1>2, FS_Product DEF Row
<1> QED BY <1>1, <1>3

(* A row that is not in a set adds its size.                               *)
LEMMA RowAdded ==
  ASSUME NEW S, IsFiniteSet(S), NEW i, NEW m \in Nat, NEW n \in Nat, m <= n,
         S \cap Row(i, m, n) = {}
  PROVE  /\ IsFiniteSet(S \cup Row(i, m, n))
         /\ Cardinality(S \cup Row(i, m, n)) = Cardinality(S) + (n - m)
<1>1. IsFiniteSet(Row(i, m, n)) /\ Cardinality(Row(i, m, n)) = n - m
  BY RowSize
<1>2. Cardinality({}) = 0 /\ Cardinality(S) \in Nat
  BY FS_EmptySet, FS_CardinalityType
<1>3. /\ IsFiniteSet(S \cup Row(i, m, n))
      /\ Cardinality(S \cup Row(i, m, n)) =
           Cardinality(S) + Cardinality(Row(i, m, n)) - Cardinality(S \cap Row(i, m, n))
  BY <1>1, FS_Union
<1>4. Cardinality(S \cap Row(i, m, n)) = 0
  BY <1>2
<1> QED BY <1>1, <1>2, <1>3, <1>4

(* The places up to one are some of all.                                   *)
LEMMA UpToSome ==
  ASSUME NEW S, IsFiniteSet(S), NEW i, NEW k
  PROVE  /\ UpTo(S, i, k) \subseteq S /\ IsFiniteSet(UpTo(S, i, k))
         /\ Cardinality(UpTo(S, i, k)) \in Nat /\ Cardinality(S) \in Nat
         /\ Cardinality(UpTo(S, i, k)) <= Cardinality(S)
<1>1. UpTo(S, i, k) \subseteq S
  BY DEF UpTo
<1>2. IsFiniteSet(UpTo(S, i, k)) /\ Cardinality(UpTo(S, i, k)) <= Cardinality(S)
  BY <1>1, FS_Subset
<1> QED BY <1>1, <1>2, FS_CardinalityType

(* Going on by a row.                                                      *)
LEMMA UpToRow ==
  ASSUME NEW S \in SUBSET (Nat \X Nat), IsFiniteSet(S), NEW i \in Nat, NEW m \in Nat, NEW n \in Nat,
         m <= n, Row(i, m, n) \subseteq S
  PROVE  Cardinality(UpTo(S, i, n)) = Cardinality(UpTo(S, i, m)) + (n - m)
<1>1. UpTo(S, i, n) = UpTo(S, i, m) \cup Row(i, m, n)
  <2>1. ASSUME NEW p \in S PROVE p \in UpTo(S, i, n) <=> p \in UpTo(S, i, m) \/ p \in Row(i, m, n)
    <3>1. p = <<p[1], p[2]>> /\ p[1] \in Nat /\ p[2] \in Nat
      OBVIOUS
    <3>2. p \in Row(i, m, n) <=> p[1] = i /\ p[2] \in m + 1 .. n
      BY <3>1 DEF Row
    <3> QED BY <3>1, <3>2 DEF UpTo
  <2> QED BY <2>1 DEF UpTo
<1>2. UpTo(S, i, m) \cap Row(i, m, n) = {}
  BY DEF UpTo, Row
<1> QED BY <1>1, <1>2, UpToSome, RowAdded

(* Going on to the next cell, at the end of one.                           *)
LEMMA UpToNext ==
  ASSUME NEW S \in SUBSET (Nat \X Nat), NEW i \in Nat, NEW k \in Nat,
         \A p \in S : p[2] > 0 /\ (p[1] = i => p[2] <= k)
  PROVE  UpTo(S, i + 1, 0) = UpTo(S, i, k)
<1>1. ASSUME NEW p \in S PROVE p \in UpTo(S, i + 1, 0) <=> p \in UpTo(S, i, k)
  <2>1. p[1] \in Nat /\ p[2] \in Nat /\ p[2] > 0 /\ (p[1] = i => p[2] <= k)
    OBVIOUS
  <2> QED BY <2>1 DEF UpTo
<1> QED BY <1>1 DEF UpTo

(* Nothing is before the beginning.                                        *)
LEMMA UpToNone ==
  ASSUME NEW S \in SUBSET (Nat \X Nat), \A p \in S : p[2] > 0
  PROVE  UpTo(S, 0, 0) = {}
<1>1. ASSUME NEW p \in S PROVE p \notin UpTo(S, 0, 0)
  <2>1. p[1] \in Nat /\ p[2] \in Nat /\ p[2] > 0
    OBVIOUS
  <2> QED BY <2>1 DEF UpTo
<1> QED BY <1>1 DEF UpTo

(* A block behind all others: what is before it and in it.                 *)
LEMMA UpToBlock ==
  ASSUME NEW S \in SUBSET (Nat \X Nat), IsFiniteSet(S), NEW o \in Nat, NEW n \in Nat,
         \A p \in S : p[1] < o
  PROVE  LET T == S \cup Row(o, 0, n)
         IN  /\ IsFiniteSet(T) /\ Cardinality(T) = Cardinality(S) + n
             /\ \A i \in Nat, k \in Nat :
                  i < o \/ (i = o /\ k = 0) => UpTo(T, i, k) = UpTo(S, i, k)
             /\ \A k \in 1 .. n : Cardinality(UpTo(T, o, k)) = Cardinality(S) + k
<1> DEFINE T == S \cup Row(o, 0, n)
<1>1. \A p \in Row(o, 0, n) : p = <<p[1], p[2]>> /\ p[1] = o /\ p[2] \in 1 .. n
  BY DEF Row
<1>2. S \cap Row(o, 0, n) = {}
  BY <1>1
<1>3. IsFiniteSet(T) /\ Cardinality(T) = Cardinality(S) + n
  BY <1>2, RowAdded, FS_CardinalityType
<1>4. T \in SUBSET (Nat \X Nat)
  BY <1>1
<1>5. ASSUME NEW i \in Nat, NEW k \in Nat, i < o \/ (i = o /\ k = 0)
      PROVE  UpTo(T, i, k) = UpTo(S, i, k)
  BY <1>1, <1>5 DEF UpTo
<1>6. ASSUME NEW k \in 1 .. n PROVE Cardinality(UpTo(T, o, k)) = Cardinality(S) + k
  <2>1. Row(o, 0, k) \subseteq T
    BY DEF Row
  <2>2. UpTo(T, o, 0) = S
    <3>1. UpTo(S, o, 0) = S
      BY DEF UpTo
    <3> QED BY <1>5, <3>1
  <2>3. Cardinality(UpTo(T, o, k)) = Cardinality(UpTo(T, o, 0)) + (k - 0)
    BY <1>3, <1>4, <2>1, UpToRow
  <2> QED BY <2>2, <2>3, FS_CardinalityType
<1> QED BY <1>3, <1>4, <1>5, <1>6

-----------------------------------------------------------------------------
(* The places of a list, and what a step does to them.                     *)

LEMMA PlacesAre ==
  ASSUME NEW l
  PROVE  /\ Places(l) = PlacesOf(array[l], Shown(l))
         /\ Places(l)' = PlacesOf(array'[l], Shown(l)')
BY DEF Places, PlacesOf, Shown

LEMMA PlaceFacts ==
  ASSUME TypeOK, NEW l \in Lists
  PROVE  /\ Places(l) \in SUBSET (Nat \X Nat)
         /\ \A p \in Places(l) : /\ p[1] \in Cells /\ Published(l, p[1])
                                 /\ p[2] \in 1 .. Len(array[l][p[1]])
         /\ \A i \in Cells, k \in Nat :
              Published(l, i) /\ k \in 1 .. Len(array[l][i]) => <<i, k>> \in Places(l)
<1>1. \A p : p \in Places(l) <=> \E i \in Shown(l) : \E k \in 1 .. Len(array[l][i]) : p = <<i, k>>
  BY PlacesAre, PlacesMember
<1>2. Shown(l) \subseteq Cells /\ \A i \in Shown(l) : Published(l, i)
  BY DEF Shown
<1>3. \A i \in Shown(l) : Len(array[l][i]) \in Nat
  BY <1>2, CellTypes DEF Published, Blocks
<1>4. Cells \subseteq Nat
  BY ConstantFacts
<1>5. \A i \in Cells : Published(l, i) => i \in Shown(l)
  BY DEF Shown
<1>6. ASSUME NEW p \in Places(l) PROVE p \in Nat \X Nat
  <2>1. PICK i \in Shown(l) : \E k \in 1 .. Len(array[l][i]) : p = <<i, k>>
    BY <1>1
  <2>2. PICK k \in 1 .. Len(array[l][i]) : p = <<i, k>>
    BY <2>1
  <2>3. i \in Nat /\ Len(array[l][i]) \in Nat
    BY <1>2, <1>3, <1>4
  <2>4. k \in Nat
    BY <2>3
  <2> QED BY <2>2, <2>3, <2>4
<1>7. \A p \in Places(l) : p[1] \in Shown(l) /\ p[2] \in 1 .. Len(array[l][p[1]])
  BY <1>1
<1> QED BY <1>1, <1>2, <1>5, <1>6, <1>7

(* Cells that come to be shown with no items in them do not matter.        *)
LEMMA PlacesKept ==
  ASSUME IInv, [Next]_vars, NEW l \in Lists,
         \A i \in Cells : Published(l, i) => Published(l, i)',
         \A i \in Cells : Published(l, i)' /\ ~ Published(l, i) => array'[l][i] = <<>>
  PROVE  Places(l)' = Places(l)
<1>1. \A i \in Shown(l) : array'[l][i] = array[l][i]
  BY PublishedStep DEF Shown
<1>2. Shown(l) \subseteq Shown(l)' /\ \A i \in Shown(l)' \ Shown(l) : array'[l][i] = <<>>
  BY DEF Shown
<1>3. ASSUME NEW p PROVE p \in Places(l)' <=> p \in Places(l)
  <2>1. p \in Places(l) <=> \E i \in Shown(l) : \E k \in 1 .. Len(array[l][i]) : p = <<i, k>>
    BY PlacesAre, PlacesMember
  <2>2. p \in Places(l)' <=> \E i \in Shown(l)' : \E k \in 1 .. Len(array'[l][i]) : p = <<i, k>>
    BY PlacesAre, PlacesMember
  <2>3. \A i : array'[l][i] = <<>> => 1 .. Len(array'[l][i]) = {}
    BY EmptySeq
  <2> QED BY <1>1, <1>2, <2>1, <2>2, <2>3
<1> QED BY <1>3

(* No step but the end of a pull adds items to a list.                     *)
LEMMA PlacesStep ==
  ASSUME IInv, Whole, [Next]_vars, NEW l \in Lists,
         \A g \in Gens : ~ FinishBlock(g) /\ ~ FinishStream(g), Faulty = {}
  PROVE  Places(l)' = Places(l)
<1>0. TypeOK
  BY DEF IInv
<1>1. CASE UNCHANGED <<array, puller, out>>
  BY <1>1, PlacesAre DEF Shown, Published
<1>2. ASSUME NEW c \in Clients, ForceEnd(c) PROVE Places(l)' = Places(l)
  <2>1. PICK g \in Gens : g = Input[c] /\ at[c] \in thunk[g]
    BY <1>2, InputFacts DEF ForceEnd, IInv, RootInv
  <2>2. out[g] \in Cells /\ GenInv(g) /\ g \in Lists
    BY <1>0, GenTypes DEF IInv
  <2>3. array' = [array EXCEPT ![g][out[g]] = <<>>] /\ UNCHANGED <<puller, out>>
    BY <1>2, <2>1 DEF ForceEnd, End, gen
  <2>4. array[g][out[g]] = None
    BY <1>2, <2>1, <2>2 DEF ForceEnd, HasGen, GenInv
  <2>5. \A i \in Cells : array'[l][i] = IF l = g /\ i = out[g] THEN <<>> ELSE array[l][i]
    BY <1>0, <2>2, <2>3 DEF TypeOK
  <2>6. \A i \in Cells : Published(l, i) => Published(l, i)'
    BY <2>3, <2>4, <2>5 DEF Published
  <2>7. \A i \in Cells : Published(l, i)' /\ ~ Published(l, i) => array'[l][i] = <<>>
    BY <2>3, <2>4, <2>5 DEF Published
  <2> QED BY <2>6, <2>7, PlacesKept
<1>3. ASSUME NEW c \in Clients, ForcePull(c) PROVE Places(l)' = Places(l)
  <2>1. PICK g \in Gens : g = Input[c] /\ at[c] \in thunk[g]
    BY <1>3, InputFacts DEF ForcePull, IInv, RootInv
  <2>2. out[g] \in Cells /\ GenInv(g) /\ g \in Lists
    BY <1>0, GenTypes DEF IInv
  <2>3. PICK b : array' = [array EXCEPT ![g][out[g]] = b]
    BY <1>3, <2>1 DEF ForcePull, Fulfill
  <2>4. puller' = [puller EXCEPT ![g] = c] /\ out' = out /\ out[g] \in thunk[g]
    BY <1>3, <2>1 DEF ForcePull, HasGen
  <2>5. array[g][out[g]] = None /\ puller[g] = None
    <3>1. out[g] \in Nat
      BY <2>2, ConstantFacts
    <3>2. out[g] \notin {out[g] + 1}
      BY <3>1
    <3> QED BY <2>2, <2>4, <3>2 DEF GenInv
  <2>6. \A i \in Cells : ~ (l = g /\ i = out[g]) => array'[l][i] = array[l][i]
    BY <1>0, <2>2, <2>3 DEF TypeOK
  <2>7. l \in Gens => puller'[l] = IF l = g THEN c ELSE puller[l]
    BY <1>0, <2>4 DEF TypeOK
  <2>8. ~ Published(g, out[g]) /\ ~ Published(g, out[g])'
    BY <2>4, <2>5, <2>7, ConstantFacts, <1>0 DEF Published, TypeOK
  <2>9. \A i \in Cells : Published(l, i) <=> Published(l, i)'
    BY <2>4, <2>5, <2>6, <2>7, <2>8 DEF Published
  <2> QED BY <2>9, PlacesKept
<1>4. ASSUME NEW g \in Gens, Copy(g) PROVE Places(l)' = Places(l)
  <2>1. puller[g] # None /\ out[g] \in Cells /\ g \in Lists
    BY <1>0, <1>4, TurnFacts, GenTypes, ConstantFacts DEF Copy
  <2>2. array' = [array EXCEPT ![g][out[g]] = Written(g, Turn(g))] /\ UNCHANGED <<puller, out>>
    BY <1>4 DEF Copy
  <2>3. \A i \in Cells : ~ (l = g /\ i = out[g]) => array'[l][i] = array[l][i]
    BY <1>0, <2>1, <2>2 DEF TypeOK
  <2>4. ~ Published(g, out[g]) /\ ~ Published(g, out[g])'
    BY <2>1, <2>2 DEF Published
  <2>5. \A i \in Cells : Published(l, i) <=> Published(l, i)'
    BY <2>2, <2>3, <2>4 DEF Published
  <2> QED BY <2>5, PlacesKept
<1>5. ASSUME NEW g \in Gens, Throw(g) PROVE FALSE
  BY <1>5 DEF Throw, FirstFault
<1>6. ASSUME NEW c \in Clients, Unwind(c) PROVE FALSE
  BY <1>6 DEF Unwind, Whole
<1>7. ASSUME NEW c \in Clients, Call(c) \/ Skip(c) \/ Acquire(c) \/ ForceFilled(c) \/ AbortForce(c)
      PROVE  UNCHANGED <<array, puller, out>>
  BY <1>7 DEF Call, Skip, Acquire, ForceFilled, AbortForce, cells, gen
<1>8. ASSUME NEW r \in Readers, Take(r) \/ Reread(r) PROVE UNCHANGED <<array, puller, out>>
  BY <1>8 DEF Take, Reread, cells, gen
<1>9. CASE UNCHANGED vars
  BY <1>1, <1>9 DEF vars
<1>10. CASE Next
  BY <1>10, <1>1, <1>2, <1>3, <1>4, <1>5, <1>6, <1>7, <1>8
     DEF Next, Cursor, ForceStep, Pull
<1> QED BY <1>9, <1>10

(* produce: the frames written become items, behind all others.            *)
LEMMA ProducePlaces ==
  ASSUME IInv, NEW g \in Gens, Produce(g), puller[g] # None
  PROVE  /\ Places(g)' = Places(g) \cup Row(out[g], 0, filled[g])
         /\ \A p \in Places(g) : p[1] < out[g]
         /\ out[g] \in Nat /\ filled[g] \in Nat
         /\ array'[g][out[g]] = Shrunk(g)
         /\ \A k \in 1 .. filled[g] : Shrunk(g)[k] = array[g][out[g]][k]
         /\ \A l \in Lists, i \in Cells : Published(l, i) => array'[l][i] = array[l][i]
         /\ \A l \in Lists \ {g} : Places(l)' = Places(l)
<1> DEFINE o == out[g]
           b == Shrunk(g)
<1>1. /\ TypeOK /\ GenInv(g) /\ g \in Lists /\ o \in Cells /\ o \in Nat
      /\ filled[g] \in Nat /\ filled[g] <= BlockSize[g] /\ thunk[g] = {o + 1}
      /\ array[g][o] \in [1 .. BlockSize[g] -> Nat] /\ BlockSize[g] \in Nat
  BY GenTypes, ConstantFacts DEF IInv, GenInv
<1>2. b = SubSeq(array[g][o], 1, filled[g])
  BY DEF Shrunk
<1>3. \A i \in 1 .. filled[g] : array[g][o][i] \in Nat
  BY <1>1
<1>4. b \in Blocks /\ Len(b) = filled[g] /\ \A k \in 1 .. filled[g] : b[k] = array[g][o][k]
  <2> DEFINE n == filled[g]
             s == array[g][o]
  <2>1. n \in Nat /\ b = SubSeq(s, 1, n) /\ \A i \in 1 .. n : s[i] \in Nat
    BY <1>1, <1>2, <1>3
  <2> HIDE DEF n, s
  <2>2. b \in Seq(Nat) /\ Len(b) = (IF 1 <= n THEN n - 1 + 1 ELSE 0)
        /\ \A i \in 1 .. n - 1 + 1 : b[i] = s[1 + i - 1]
    BY <2>1, SubSeqProperties
  <2>3. Len(b) = n /\ \A k \in 1 .. n : b[k] = s[k]
    BY <2>1, <2>2
  <2> QED BY <2>2, <2>3 DEF Blocks, n, s
<1> HIDE DEF o, b
<1>5. array' = [array EXCEPT ![g][o] = b] /\ out' = [out EXCEPT ![g] = @ + 1]
      /\ puller' = [puller EXCEPT ![g] = None]
  BY DEF Produce, o, b
<1>6. /\ array'[g][o] = b /\ b # None
      /\ \A l \in Lists, i \in Cells : ~ (l = g /\ i = o) => array'[l][i] = array[l][i]
      /\ puller'[g] = None
      /\ \A h \in Gens \ {g} : puller'[h] = puller[h] /\ out'[h] = out[h]
  BY <1>1, <1>4, <1>5, ConstantFacts DEF TypeOK
<1>7. \A i \in Shown(g) : i < o /\ i \in Nat
  <2> SUFFICES ASSUME NEW i \in Shown(g) PROVE i < o /\ i \in Nat
    OBVIOUS
  <2>1. i \in Cells /\ i \in Nat /\ array[g][i] # None /\ i # o
    BY ConstantFacts DEF Shown, Published, o
  <2>2. ~ (i > o)
    BY <1>1, <2>1 DEF GenInv, o
  <2> QED BY <1>1, <2>1, <2>2
<1>8. Shown(g)' = Shown(g) \cup {o}
  <2>1. \A i \in Cells : Published(g, i)' <=> array'[g][i] # None
    BY <1>6 DEF Published
  <2>2. \A i \in Cells : Published(g, i) <=> array[g][i] # None /\ i # o
    BY DEF Published, o
  <2> QED BY <1>1, <1>6, <2>1, <2>2 DEF Shown
<1>9. \A i \in Shown(g) : array'[g][i] = array[g][i] /\ i # o
  <2>1. \A i \in Shown(g) : i \in Cells /\ i # o
    BY DEF Shown, Published, o
  <2> QED BY <1>1, <1>6, <2>1
<1>10. ASSUME NEW p
       PROVE  p \in Places(g)' <=> p \in Places(g) \/ p \in Row(o, 0, filled[g])
  <2>1. p \in Places(g) <=> \E i \in Shown(g) : \E k \in 1 .. Len(array[g][i]) : p = <<i, k>>
    BY PlacesAre, PlacesMember
  <2>2. p \in Places(g)' <=> \E i \in Shown(g)' : \E k \in 1 .. Len(array'[g][i]) : p = <<i, k>>
    BY PlacesAre, PlacesMember
  <2>3. p \in Row(o, 0, filled[g]) <=> \E k \in 1 .. Len(array'[g][o]) : p = <<o, k>>
    BY <1>4, <1>6 DEF Row
  <2> QED BY <1>8, <1>9, <2>1, <2>2, <2>3
<1>11. ASSUME NEW p \in Places(g) PROVE p[1] < o
  <2>1. p[1] \in Cells /\ Published(g, p[1])
    BY <1>1, PlaceFacts
  <2> QED BY <1>7, <2>1 DEF Shown
<1>12. ASSUME NEW l \in Lists \ {g} PROVE Places(l)' = Places(l)
  <2>1. \A i \in Cells : array'[l][i] = array[l][i]
    BY <1>6
  <2>2. \A i \in Cells : Published(l, i)' <=> Published(l, i)
    BY <1>6, <2>1 DEF Published
  <2>3. Shown(l)' = Shown(l) /\ \A i \in Shown(l) : array'[l][i] = array[l][i]
    BY <2>1, <2>2 DEF Shown
  <2> QED BY <2>3, PlacesAre, PlacesEqual
<1>13. ASSUME NEW l \in Lists, NEW i \in Cells, Published(l, i)
       PROVE  array'[l][i] = array[l][i]
  <2>1. ~ (l = g /\ i = o)
    BY <1>13 DEF Published, o
  <2> QED BY <1>6, <2>1
<1> QED BY <1>1, <1>4, <1>6, <1>10, <1>11, <1>12, <1>13 DEF o, b

-----------------------------------------------------------------------------
(* Items and cursors.                                                      *)

LEMMA UsedFacts ==
  /\ \A r \in Readers : Used(r) = Len(got[r]) /\ Used(r)' = Len(got'[r])
  /\ \A g \in Gens :
       /\ Used(g) = Computed(g) + (IF puller[g] = None THEN 0 ELSE filled[g])
       /\ Used(g)' = Computed(g)' + (IF puller'[g] = None THEN 0 ELSE filled'[g])
BY ListAssumption DEF Used

LEMMA CountFacts ==
  ASSUME TypeOK, StreamInv, NEW l \in Lists
  PROVE  /\ Computed(l) \in Nat
         /\ \A i, k : Rank(l, i, k) \in Nat /\ Rank(l, i, k) <= Computed(l)
BY UpToSome DEF StreamInv, ItemsInv, Rank, Computed

LEMMA UsedNat ==
  ASSUME TypeOK, StreamInv, NEW c \in Clients
  PROVE  Used(c) \in Nat /\ Used(c) <= Computed(Input[c])
<1>1. CursorInv(c) /\ Input[c] \in Lists
  BY InputFacts DEF StreamInv
<1>2. /\ Computed(Input[c]) \in Nat
      /\ Rank(Input[c], at[c], off[c]) \in Nat /\ Rank(Input[c], at[c], off[c]) <= Computed(Input[c])
  BY <1>1, CountFacts
<1>3. Used(c) \in Nat
  <2>1. CASE c \in Readers
    <3>1. got[c] \in Seq(Nat)
      BY <2>1 DEF TypeOK, Blocks
    <3> QED BY <2>1, <3>1, UsedFacts
  <2>2. CASE c \in Gens
    <3>1. Computed(c) \in Nat /\ filled[c] \in Nat
      BY <2>2, CountFacts, GenTypes
    <3> QED BY <2>2, <3>1, UsedFacts
  <2> QED BY <2>1, <2>2 DEF Clients
<1> QED BY <1>1, <1>2, <1>3 DEF CursorInv

(* What a cursor is handed are the items that follow those it has used.    *)
LEMMA NextItems ==
  ASSUME IInv, StreamInv, NEW c \in Clients, pc[c] = "chunk"
  PROVE  /\ Avail(c) \in Nat
         /\ \A n \in 0 .. Avail(c) :
              Cardinality(UpTo(Places(Input[c]), at[c], off[c] + n)) = Used(c) + n
         /\ \A n \in 1 .. Avail(c) : array[Input[c]][at[c]][off[c] + n] = Used(c) + n
         /\ UpTo(Places(Input[c]), at[c] + 1, 0) =
              UpTo(Places(Input[c]), at[c], off[c] + Avail(c))
<1> DEFINE l == Input[c]
           i == at[c]
           m == off[c]
           S == Places(l)
           len == Len(array[l][i])
<1>1. /\ TypeOK /\ l \in Lists /\ i \in Cells /\ i \in Nat /\ i # None /\ m \in Nat /\ len \in Nat
      /\ Published(l, i) /\ ClientInv(c)
  <2>1. TypeOK /\ ClientInv(c) /\ i \in Cells /\ array[l][i] \in Blocks /\ l \in Lists
    BY NextReach, InputFacts DEF IInv
  <2>2. off[c] \in Nat /\ at[c] # None /\ at[c] \in Nat
    BY <2>1, ClientTypes, ConstantFacts
  <2>3. Published(l, i)
    BY <2>1 DEF ClientInv
  <2>4. len \in Nat
    BY <2>1 DEF Blocks
  <2> QED BY <2>1, <2>2, <2>3, <2>4
<1>2. m <= len /\ Avail(c) = len - m
  BY <1>1 DEF ClientInv, Avail
<1>3. IsFiniteSet(S) /\ S \in SUBSET (Nat \X Nat)
  BY <1>1, PlaceFacts DEF StreamInv, ItemsInv
<1>4. /\ \A p \in S : p[2] > 0 /\ (p[1] = i => p[2] <= len)
      /\ \A k \in 1 .. len : <<i, k>> \in S
  <2>1. ASSUME NEW p \in S PROVE p[2] > 0 /\ (p[1] = i => p[2] <= len)
    <3>1. p \in Nat \X Nat /\ p[2] \in 1 .. Len(array[l][p[1]])
      BY <1>1, <1>3, PlaceFacts
    <3> QED BY <3>1
  <2>2. \A k \in Nat : k \in 1 .. len => <<i, k>> \in S
    BY <1>1, PlaceFacts
  <2> QED BY <2>1, <2>2
<1>5. Used(c) = Cardinality(UpTo(S, i, m))
  BY <1>1 DEF StreamInv, CursorInv, Rank
<1> HIDE DEF l, i, m, S, len
<1>6. ASSUME NEW n \in 0 .. Avail(c)
      PROVE  Cardinality(UpTo(S, i, m + n)) = Used(c) + n
  <2>1. n \in Nat /\ m + n \in Nat /\ m + n <= len
    BY <1>1, <1>2
  <2>2. Row(i, m, m + n) \subseteq S
    <3> SUFFICES ASSUME NEW k \in m + 1 .. m + n PROVE <<i, k>> \in S
      BY DEF Row
    <3> QED BY <1>1, <1>4, <2>1
  <2>3. Cardinality(UpTo(S, i, m + n)) = Cardinality(UpTo(S, i, m)) + (m + n - m)
    BY <1>1, <1>3, <2>1, <2>2, UpToRow
  <2>4. Cardinality(UpTo(S, i, m)) \in Nat
    BY <1>3, UpToSome
  <2> QED BY <1>1, <1>5, <2>1, <2>3, <2>4
<1>7. ASSUME NEW n \in 1 .. Avail(c) PROVE array[l][i][m + n] = Used(c) + n
  <2>1. m + n \in 1 .. len /\ n \in 0 .. Avail(c)
    BY <1>1, <1>2
  <2>2. <<i, m + n>> \in S
    BY <1>4, <2>1
  <2>3. \A p \in S : array[l][p[1]][p[2]] = Rank(l, p[1], p[2])
    BY <1>1 DEF StreamInv, ItemsInv, S
  <2>4. array[l][i][m + n] = Cardinality(UpTo(S, i, m + n))
    BY <2>2, <2>3 DEF Rank, S
  <2> QED BY <1>6, <2>1, <2>4
<1>8. UpTo(S, i + 1, 0) = UpTo(S, i, m + Avail(c))
  <2>1. m + Avail(c) = len
    BY <1>1, <1>2
  <2>2. UpTo(S, i + 1, 0) = UpTo(S, i, len)
    BY <1>1, <1>3, <1>4, UpToNext
  <2> QED BY <2>1, <2>2
<1>9. Avail(c) \in Nat
  BY <1>1, <1>2
<1> QED BY <1>6, <1>7, <1>8, <1>9 DEF l, i, m, S

(* In::advance by the items used.                                          *)
LEMMA AdvanceItems ==
  ASSUME IInv, StreamInv, NEW c \in Clients, pc[c] = "chunk",
         NEW n \in 1 .. Avail(c), Advance(c, n),
         Places(Input[c])' = Places(Input[c]), Used(c)' = Used(c) + n
  PROVE  CursorInv(c)'
<1>1. /\ Avail(c) \in Nat /\ n \in 0 .. Avail(c) /\ off[c] \in Nat /\ TypeOK
      /\ Avail(c) = Len(array[Input[c]][at[c]]) - off[c] /\ Len(array[Input[c]][at[c]]) \in Nat
  <2>1. TypeOK /\ array[Input[c]][at[c]] \in Blocks
    BY NextReach DEF IInv
  <2> QED BY <2>1, NextItems, ClientTypes DEF Avail, Blocks
<1>2. Cardinality(UpTo(Places(Input[c]), at[c], off[c] + n)) = Used(c) + n
  BY <1>1, NextItems
<1>3. at[c] # None
  BY ConstantFacts, NextReach
<1>4. CASE off[c] + n # Len(array[Input[c]][at[c]])
  <2>1. at'[c] = at[c] /\ off'[c] = off[c] + n
    BY <1>1, <1>4 DEF Advance, TypeOK
  <2> QED BY <1>2, <1>3, <2>1 DEF CursorInv, Rank
<1>5. CASE off[c] + n = Len(array[Input[c]][at[c]])
  <2>1. at'[c] = NextCell(c) /\ off'[c] = 0 /\ n = Avail(c)
    BY <1>1, <1>5 DEF Advance, TypeOK
  <2>2. CASE NextCell(c) = None
    <3>1. IsFiniteSet(Places(Input[c]))
      BY InputFacts DEF StreamInv, ItemsInv
    <3>2. Used(c) + n <= Computed(Input[c])
      BY <1>2, <3>1, UpToSome DEF Computed
    <3>3. Computed(Input[c])' = Computed(Input[c])
      BY DEF Computed
    <3> QED BY <2>1, <2>2, <3>2, <3>3 DEF CursorInv
  <2>3. CASE NextCell(c) # None
    <3>1. NextCell(c) = at[c] + 1
      BY <2>3 DEF NextCell
    <3>2. Cardinality(UpTo(Places(Input[c]), at[c] + 1, 0)) = Used(c) + n
      BY <1>2, <2>1, NextItems
    <3> QED BY <2>1, <2>3, <3>1, <3>2 DEF CursorInv, Rank
  <2> QED BY <2>2, <2>3
<1> QED BY <1>4, <1>5

-----------------------------------------------------------------------------
(* The items through each step.                                            *)

(* A step that computes no items and moves at most one client.             *)
LEMMA OneClient ==
  ASSUME IInv, StreamInv, [Next]_vars, NEW c \in Clients,
         \A l \in Lists : Places(l)' = Places(l),
         \A d \in Clients \ {c} :
           at'[d] = at[d] /\ off'[d] = off[d] /\ Used(d)' = Used(d),
         CursorInv(c)',
         \A g \in Gens : OutputInv(g)',
         \A r \in Readers : ReaderInv(r)'
  PROVE  StreamInv'
<1>1. ASSUME NEW l \in Lists PROVE ItemsInv(l)'
  <2>1. Places(l)' = Places(l) /\ ItemsInv(l) /\ TypeOK
    BY DEF StreamInv, IInv
  <2>2. ASSUME NEW p \in Places(l) PROVE array'[l][p[1]][p[2]] = Rank(l, p[1], p[2])'
    <3>1. p[1] \in Cells /\ Published(l, p[1])
      BY <2>1, PlaceFacts
    <3>2. array'[l][p[1]] = array[l][p[1]]
      BY <3>1, PublishedStep
    <3>3. Rank(l, p[1], p[2])' = Rank(l, p[1], p[2])
      BY <2>1 DEF Rank
    <3> QED BY <2>1, <3>2, <3>3 DEF ItemsInv
  <2> QED BY <2>1, <2>2 DEF ItemsInv
<1>2. ASSUME NEW d \in Clients \ {c} PROVE CursorInv(d)'
  <2>1. Places(Input[d])' = Places(Input[d]) /\ CursorInv(d)
    BY InputFacts DEF StreamInv
  <2>2. at'[d] = at[d] /\ off'[d] = off[d] /\ Used(d)' = Used(d)
    OBVIOUS
  <2> QED BY <2>1, <2>2 DEF CursorInv, Rank, Computed
<1> QED BY <1>1, <1>2 DEF StreamInv

(* What a client has used depends on these.                                *)
LEMMA SameUsed ==
  ASSUME NEW c \in Clients,
         c \in Readers => got'[c] = got[c],
         c \in Gens => /\ Places(c)' = Places(c)
                       /\ (IF puller'[c] = None THEN 0 ELSE filled'[c]) =
                            (IF puller[c] = None THEN 0 ELSE filled[c])
  PROVE  Used(c)' = Used(c)
<1>1. CASE c \in Readers
  BY <1>1, UsedFacts
<1>2. CASE c \in Gens
  BY <1>2, UsedFacts DEF Computed
<1> QED BY <1>1, <1>2 DEF Clients

(* The steps that leave the blocks and the pulls as they are.              *)
LEMMA QuietStream ==
  ASSUME IInv, StreamInv, [Next]_vars,
         UNCHANGED <<array, puller, filled, out>>
  PROVE  /\ \A l \in Lists : Places(l)' = Places(l)
         /\ \A g \in Gens : OutputInv(g)'
         /\ \A c \in Clients : (c \in Readers => got'[c] = got[c]) => Used(c)' = Used(c)
<1>1. \A l : Places(l)' = Places(l)
  BY PlacesAre DEF Shown, Published
<1>2. \A g \in Gens : OutputInv(g)'
  BY <1>1 DEF OutputInv, StreamInv, Computed
<1>3. ASSUME NEW c \in Clients, c \in Readers => got'[c] = got[c] PROVE Used(c)' = Used(c)
  BY <1>1, <1>3, SameUsed
<1> QED BY <1>1, <1>2, <1>3

LEMMA StillStream ==
  ASSUME IInv, StreamInv, [Next]_vars, NEW c \in Clients,
         UNCHANGED <<array, puller, filled, out, at, off, got>>
  PROVE  StreamInv'
<1>1. /\ \A l \in Lists : Places(l)' = Places(l)
      /\ \A g \in Gens : OutputInv(g)'
      /\ \A d \in Clients : Used(d)' = Used(d)
  BY QuietStream
<1>2. \A r \in Readers : ReaderInv(r)'
  BY DEF StreamInv, ReaderInv
<1>3. CursorInv(c)'
  <2>1. Places(Input[c])' = Places(Input[c]) /\ CursorInv(c) /\ Used(c)' = Used(c)
    BY <1>1, InputFacts DEF StreamInv
  <2> QED BY <2>1 DEF CursorInv, Rank, Computed
<1> QED BY <1>1, <1>2, <1>3, OneClient

LEMMA SkipStream ==
  ASSUME IInv, StreamInv, [Next]_vars, NEW c \in Clients, Skip(c)
  PROVE  StreamInv'
<1>1. /\ UNCHANGED <<array, puller, filled, out, off, got>> /\ TypeOK
      /\ pc[c] = "chunk" /\ Avail(c) = 0
      /\ \A d \in Clients \ {c} : at'[d] = at[d]
      /\ at'[c] = IF NextCell(c) = None THEN at[c] ELSE at[c] + 1
  BY DEF Skip, cells, gen, IInv, TypeOK, NextCell
<1>2. /\ \A l \in Lists : Places(l)' = Places(l)
      /\ \A g \in Gens : OutputInv(g)'
      /\ \A d \in Clients : Used(d)' = Used(d)
  BY <1>1, QuietStream
<1>3. \A r \in Readers : ReaderInv(r)'
  BY <1>1 DEF StreamInv, ReaderInv
<1>4. CursorInv(c)'
  <2>1. /\ Places(Input[c])' = Places(Input[c]) /\ CursorInv(c) /\ Used(c)' = Used(c)
        /\ at[c] # None /\ at[c] \in Nat /\ off[c] \in Nat
    BY <1>1, <1>2, InputFacts, NextReach, ConstantFacts, ClientTypes DEF StreamInv
  <2>2. off[c] = 0
    <3>1. Len(array[Input[c]][at[c]]) \in Nat
      BY <1>1, NextReach DEF Blocks
    <3> QED BY <1>1, <2>1, <3>1 DEF IInv, ClientInv, Avail
  <2>3. UpTo(Places(Input[c]), at[c] + 1, 0) = UpTo(Places(Input[c]), at[c], 0)
    BY <1>1, <2>2, NextItems
  <2>4. Used(c) = Cardinality(UpTo(Places(Input[c]), at[c], 0))
    BY <2>1, <2>2 DEF CursorInv, Rank
  <2>5. at'[c] # None /\ off'[c] = 0
    BY <1>1, <2>1, <2>2, ConstantFacts, NextReach DEF NextCell
  <2> QED BY <1>1, <2>1, <2>3, <2>4, <2>5 DEF CursorInv, Rank
<1>5. \A d \in Clients \ {c} : at'[d] = at[d] /\ off'[d] = off[d] /\ Used(d)' = Used(d)
  BY <1>1, <1>2
<1> QED BY <1>2, <1>3, <1>4, <1>5, OneClient

LEMMA TakenItems ==
  ASSUME NEW s \in Seq(Nat), NEW t \in Seq(Nat)
  PROVE  /\ Len(s \o t) = Len(s) + Len(t) /\ Len(s) \in Nat
         /\ \A k \in 1 .. Len(s) : (s \o t)[k] = s[k]
         /\ \A k \in Len(s) + 1 .. Len(s) + Len(t) : (s \o t)[k] = t[k - Len(s)]
<1>1. Len(s) \in Nat /\ Len(t) \in Nat /\ Len(s \o t) = Len(s) + Len(t)
  BY LenProperties, ConcatProperties
<1>2. \A k \in 1 .. Len(s) + Len(t) :
        (s \o t)[k] = IF k <= Len(s) THEN s[k] ELSE t[k - Len(s)]
  BY ConcatProperties
<1> QED BY <1>1, <1>2

(* A reader has the items from the first to the last one it took.          *)
LEMMA TakeStream ==
  ASSUME IInv, StreamInv, [Next]_vars, NEW r \in Readers, Take(r)
  PROVE  /\ StreamInv'
         /\ got' = [got EXCEPT ![r] = got'[r]]
         /\ Len(got'[r]) \in Len(got[r]) + 1 .. Computed(Input[r])
<1> r \in Clients /\ r \notin Gens
  BY ConstantFacts, ListAssumption
<1>1. /\ UNCHANGED <<array, puller, filled, out>> /\ TypeOK /\ pc[r] = "chunk"
      /\ Avail(r) \in Nat /\ off[r] \in Nat /\ array[Input[r]][at[r]] \in Seq(Nat)
      /\ got[r] \in Seq(Nat)
  BY NextItems, NextReach, ClientTypes DEF Take, cells, gen, IInv, TypeOK, Blocks
<1> DEFINE s == array[Input[r]][at[r]]
           m == off[r]
<1>2. PICK n \in 1 .. Avail(r) :
        got' = [got EXCEPT ![r] = @ \o SubSeq(s, m + 1, m + n)] /\ Advance(r, n)
  BY DEF Take
<1>3. /\ \A d \in Clients \ {r} : at'[d] = at[d] /\ off'[d] = off[d]
      /\ m + n <= Len(s)
  BY <1>1, <1>2, AdvanceFacts
<1> HIDE DEF s, m
<1>4. n \in Nat /\ n > 0 /\ m \in Nat /\ m + 1 \in Int /\ m + n \in Int /\ s \in Seq(Nat)
  BY <1>1, <1>2 DEF s, m
<1> DEFINE t == SubSeq(s, m + 1, m + n)
<1>5. t \in Seq(Nat) /\ Len(t) = n /\ \A k \in 1 .. n : t[k] = s[m + k]
  <2>1. \A i \in m + 1 .. m + n : s[i] \in Nat
    <3> SUFFICES ASSUME NEW i \in m + 1 .. m + n PROVE s[i] \in Nat
      OBVIOUS
    <3>1. i \in 1 .. Len(s)
      BY <1>3, <1>4
    <3> QED BY <1>4, <3>1, ElementOfSeq
  <2>2. t \in Seq(Nat) /\ Len(t) = (IF m + 1 <= m + n THEN m + n - (m + 1) + 1 ELSE 0)
        /\ \A i \in 1 .. m + n - (m + 1) + 1 : t[i] = s[m + 1 + i - 1]
    BY <1>4, <2>1, SubSeqProperties
  <2>3. m + n - (m + 1) + 1 = n /\ \A i \in 1 .. n : m + 1 + i - 1 = m + i
    BY <1>4
  <2> QED BY <1>4, <2>2, <2>3
<1>6. got'[r] = got[r] \o t /\ \A q \in Readers \ {r} : got'[q] = got[q]
  BY <1>1, <1>2 DEF TypeOK
<1> HIDE DEF t
<1>7. /\ Len(got'[r]) = Len(got[r]) + n /\ Len(got[r]) \in Nat
      /\ \A k \in 1 .. Len(got[r]) : got'[r][k] = got[r][k]
      /\ \A k \in Len(got[r]) + 1 .. Len(got[r]) + n : got'[r][k] = t[k - Len(got[r])]
  <2>1. got[r] \in Seq(Nat) /\ t \in Seq(Nat) /\ Len(t) = n
    BY <1>1, <1>5
  <2>2. /\ Len(got[r] \o t) = Len(got[r]) + Len(t) /\ Len(got[r]) \in Nat
        /\ \A k \in 1 .. Len(got[r]) : (got[r] \o t)[k] = got[r][k]
        /\ \A k \in Len(got[r]) + 1 .. Len(got[r]) + Len(t) :
             (got[r] \o t)[k] = t[k - Len(got[r])]
    BY <2>1, TakenItems
  <2> QED BY <1>6, <2>1, <2>2
<1>8. /\ \A l \in Lists : Places(l)' = Places(l)
      /\ \A g \in Gens : OutputInv(g)'
      /\ \A d \in Clients \ {r} : Used(d)' = Used(d)
  BY <1>1, <1>6, QuietStream
<1>9. Used(r) = Len(got[r]) /\ Used(r)' = Used(r) + n
  BY <1>7, UsedFacts
<1>10. CursorInv(r)'
  BY <1>1, <1>2, <1>8, <1>9, InputFacts, AdvanceItems
<1>11. ReaderInv(r)'
  <2> SUFFICES ASSUME NEW k \in 1 .. Len(got'[r]) PROVE got'[r][k] = k
    BY DEF ReaderInv
  <2>1. CASE k \in 1 .. Len(got[r])
    BY <1>7, <2>1 DEF StreamInv, ReaderInv
  <2>2. CASE k \notin 1 .. Len(got[r])
    <3> DEFINE j == k - Len(got[r])
    <3>1. k \in Len(got[r]) + 1 .. Len(got[r]) + n /\ j \in 1 .. n /\ k = Len(got[r]) + j
      BY <1>4, <1>7, <2>2
    <3>2. got'[r][k] = s[m + j]
      BY <1>5, <1>7, <3>1
    <3>3. j \in 1 .. Avail(r)
      BY <1>1, <1>2, <3>1
    <3>4. s[m + j] = Used(r) + j
      BY <1>1, <3>3, NextItems DEF s, m
    <3> QED BY <1>9, <3>1, <3>2, <3>4
  <2> QED BY <2>1, <2>2
<1>12. \A q \in Readers : ReaderInv(q)'
  <2>1. \A q \in Readers \ {r} : ReaderInv(q)'
    BY <1>6 DEF StreamInv, ReaderInv
  <2> QED BY <1>11, <2>1
<1>13. StreamInv'
  BY <1>3, <1>8, <1>10, <1>12, OneClient
<1>14. Len(got'[r]) <= Computed(Input[r])
  <2>1. Cardinality(UpTo(Places(Input[r]), at[r], off[r] + n)) = Used(r) + n
    <3>1. n \in 0 .. Avail(r)
      BY <1>1, <1>2
    <3> QED BY <1>1, <3>1, NextItems
  <2>2. IsFiniteSet(Places(Input[r]))
    BY InputFacts DEF StreamInv, ItemsInv
  <2> QED BY <1>7, <1>9, <2>1, <2>2, UpToSome DEF Computed
<1>15. got' = [got EXCEPT ![r] = got'[r]]
  BY <1>1, <1>2, <1>6 DEF TypeOK
<1>16. Computed(Input[r]) \in Nat
  BY <1>1, InputFacts, CountFacts
<1> QED BY <1>4, <1>7, <1>13, <1>14, <1>15, <1>16

LEMMA RereadStream ==
  ASSUME IInv, StreamInv, [Next]_vars, NEW r \in Readers, Reread(r)
  PROVE  StreamInv' /\ got' = [got EXCEPT ![r] = <<>>]
<1> r \in Clients /\ r \notin Gens
  BY ConstantFacts, ListAssumption
<1>1. /\ UNCHANGED <<array, puller, filled, out>> /\ TypeOK
      /\ at'[r] = 0 /\ off'[r] = 0 /\ got'[r] = <<>> /\ got' = [got EXCEPT ![r] = <<>>]
      /\ \A d \in Clients \ {r} : at'[d] = at[d] /\ off'[d] = off[d]
      /\ \A q \in Readers \ {r} : got'[q] = got[q]
  BY DEF Reread, cells, gen, IInv, TypeOK
<1>2. /\ \A l \in Lists : Places(l)' = Places(l)
      /\ \A g \in Gens : OutputInv(g)'
      /\ \A d \in Clients \ {r} : Used(d)' = Used(d)
  BY <1>1, QuietStream
<1>3. \A q \in Readers : ReaderInv(q)'
  <2>1. Len(got'[r]) = 0
    BY <1>1
  <2>2. ReaderInv(r)'
    BY <2>1 DEF ReaderInv
  <2> QED BY <1>1, <2>2 DEF StreamInv, ReaderInv
<1>4. CursorInv(r)'
  <2>1. UpTo(Places(Input[r]), 0, 0) = {}
    <3>1. Places(Input[r]) \in SUBSET (Nat \X Nat) /\ \A p \in Places(Input[r]) : p[2] > 0
      BY <1>1, InputFacts, PlaceFacts
    <3> QED BY <3>1, UpToNone
  <2>2. Used(r)' = 0
    BY <1>1, UsedFacts
  <2>3. Places(Input[r])' = Places(Input[r]) /\ at'[r] # None /\ Cardinality({}) = 0
    BY <1>1, <1>2, InputFacts, ListAssumption, FS_EmptySet
  <2> QED BY <1>1, <2>1, <2>2, <2>3 DEF CursorInv, Rank
<1> QED BY <1>1, <1>2, <1>3, <1>4, OneClient

(* end, and fulfill at the beginning of a pull: nothing is shown.          *)
LEMMA ForceStream ==
  ASSUME Faulty = {}, IInv, Whole, StreamInv, [Next]_vars, NEW c \in Clients,
         ForceEnd(c) \/ ForcePull(c),
         \A l \in Lists : Places(l)' = Places(l)
  PROVE  StreamInv'
<1>1. PICK g \in Gens : g = Input[c] /\ at[c] \in thunk[g] /\ out[g] \in thunk[g]
  BY InputFacts DEF ForceEnd, ForcePull, HasGen, IInv, RootInv
<1>2. TypeOK /\ GenInv(g) /\ out[g] \in Cells /\ out[g] \in Nat /\ g \in Lists /\ g \in Clients
  BY GenTypes, ConstantFacts DEF IInv
<1>3. puller[g] = None
  <2>1. out[g] \notin {out[g] + 1}
    BY <1>2
  <2> QED BY <1>1, <1>2, <2>1 DEF GenInv
<1>4. UNCHANGED <<out, at, off, got>>
  BY DEF ForceEnd, ForcePull, gen, cursor
<1>5. \A h \in Gens : /\ h # g => puller'[h] = puller[h] /\ filled'[h] = filled[h] /\ array'[h] = array[h]
                      /\ h = g => puller'[h] = None \/ filled'[h] = 0
  <2>1. CASE ForceEnd(c)
    BY <1>1, <1>2, <1>3, <2>1, ConstantFacts DEF ForceEnd, End, gen, TypeOK
  <2>2. CASE ForcePull(c)
    BY <1>1, <1>2, <2>2, ConstantFacts DEF ForcePull, Fulfill, TypeOK
  <2> QED BY <2>1, <2>2
<1>6. ASSUME NEW d \in Clients PROVE Used(d)' = Used(d)
  <2>1. d \in Gens => (IF puller'[d] = None THEN 0 ELSE filled'[d]) =
                        (IF puller[d] = None THEN 0 ELSE filled[d])
    BY <1>3, <1>5
  <2> QED BY <1>4, <2>1, SameUsed, ConstantFacts
<1>7. ASSUME NEW h \in Gens PROVE OutputInv(h)'
  <2>1. CASE h = g
    <3>1. puller'[g] # None => 1 .. filled'[g] = {}
      BY <1>5
    <3> QED BY <2>1, <3>1 DEF OutputInv
  <2>2. CASE h # g
    <3>1. Places(h)' = Places(h) /\ OutputInv(h)
      BY ConstantFacts DEF StreamInv
    <3>2. puller'[h] = puller[h] /\ filled'[h] = filled[h] /\ array'[h] = array[h] /\ out'[h] = out[h]
      BY <1>4, <1>5, <2>2
    <3> QED BY <3>1, <3>2 DEF OutputInv, Computed
  <2> QED BY <2>1, <2>2
<1>8. \A r \in Readers : ReaderInv(r)'
  BY <1>4 DEF StreamInv, ReaderInv
<1>9. CursorInv(c)'
  <2>1. Places(Input[c])' = Places(Input[c]) /\ CursorInv(c) /\ Used(c)' = Used(c)
    BY <1>6, InputFacts DEF StreamInv
  <2> QED BY <1>4, <2>1 DEF CursorInv, Rank, Computed
<1> QED BY <1>4, <1>6, <1>7, <1>8, <1>9, OneClient

(* A turn of a pull's loop writes the items that follow those it has.      *)
LEMMA CopyStream ==
  ASSUME IInv, StreamInv, [Next]_vars, NEW g \in Gens, Copy(g),
         \A l \in Lists : Places(l)' = Places(l)
  PROVE  StreamInv'
<1> DEFINE n == Turn(g)
           f == filled[g]
<1>1. /\ TypeOK /\ pc[g] = "chunk" /\ Avail(g) # 0 /\ g \in Clients /\ g \in Lists /\ g \notin Readers
      /\ array' = [array EXCEPT ![g][out[g]] = Written(g, n)]
      /\ filled' = [filled EXCEPT ![g] = @ + n]
      /\ Advance(g, n) /\ UNCHANGED <<out, puller, got>>
  BY ConstantFacts, ListAssumption DEF IInv, Copy
<1>2. /\ puller[g] # None /\ Avail(g) \in Nat /\ n \in 1 .. Avail(g) /\ f \in Nat
      /\ f + n <= BlockSize[g] /\ BlockSize[g] \in Nat /\ n \in Nat
  BY <1>1, TurnFacts, ConstantFacts
<1> HIDE DEF n, f
<1>3. /\ filled'[g] = f + n /\ \A h \in Gens \ {g} : filled'[h] = filled[h] /\ array'[h] = array[h]
      /\ array'[g][out[g]] = Written(g, n)
  <2>1. out[g] \in Cells
    BY <1>1, GenTypes
  <2> QED BY <1>1, <1>2, <2>1, ConstantFacts DEF TypeOK, f
<1>4. \A d \in Clients \ {g} : at'[d] = at[d] /\ off'[d] = off[d]
  BY <1>1, <1>2, AdvanceFacts
<1>5. Used(g) = Computed(g) + f /\ Used(g)' = Used(g) + n /\ Computed(g)' = Computed(g)
  <2>1. Computed(g)' = Computed(g) /\ Computed(g) \in Nat
    BY <1>1, CountFacts DEF Computed
  <2> QED BY <1>1, <1>2, <1>3, <2>1, UsedFacts DEF f
<1>6. ASSUME NEW d \in Clients \ {g} PROVE Used(d)' = Used(d)
  BY <1>1, <1>3, SameUsed, ConstantFacts
<1>7. CursorInv(g)'
  BY <1>1, <1>2, <1>5, InputFacts, AdvanceItems
<1>8. OutputInv(g)'
  <2> SUFFICES ASSUME NEW k \in 1 .. f + n PROVE Written(g, n)[k] = Computed(g) + k
    BY <1>1, <1>3, <1>5 DEF OutputInv
  <2>1. k \in 1 .. BlockSize[g] /\ k \in Nat
    BY <1>2
  <2>2. Written(g, n)[k] = IF k \in f + 1 .. f + n
                           THEN array[Input[g]][at[g]][off[g] + k - f] ELSE array[g][out[g]][k]
    BY <2>1 DEF Written, f
  <2>3. CASE k \in f + 1 .. f + n
    <3> DEFINE j == k - f
    <3>1. j \in 1 .. Avail(g) /\ off[g] + k - f = off[g] + j /\ f + j = k
      <4>1. off[g] \in Nat
        BY <1>1, ClientTypes
      <4> QED BY <1>2, <2>3, <4>1
    <3>2. array[Input[g]][at[g]][off[g] + j] = Used(g) + j
      BY <1>1, <3>1, NextItems
    <3>3. Computed(g) \in Nat
      BY <1>1, CountFacts
    <3> QED BY <1>2, <1>5, <2>2, <2>3, <3>1, <3>2, <3>3
  <2>4. CASE k \notin f + 1 .. f + n
    <3>1. k \in 1 .. f
      BY <1>2, <2>4
    <3> QED BY <1>2, <2>2, <2>4, <3>1 DEF StreamInv, OutputInv, f
  <2> QED BY <2>3, <2>4
<1>9. ASSUME NEW h \in Gens PROVE OutputInv(h)'
  <2>1. CASE h # g
    <3>1. Places(h)' = Places(h) /\ OutputInv(h)
      BY ConstantFacts DEF StreamInv
    <3> QED BY <1>1, <1>3, <2>1, <3>1 DEF OutputInv, Computed
  <2> QED BY <1>8, <2>1
<1>10. \A r \in Readers : ReaderInv(r)'
  BY <1>1 DEF StreamInv, ReaderInv
<1> QED BY <1>1, <1>4, <1>6, <1>7, <1>9, <1>10, OneClient

(* produce: the generator's list has the items its pull has written, and   *)
(* no more of them than its input.                                         *)
LEMMA ProduceStream ==
  ASSUME IInv, Whole, StreamInv, NEW g \in Gens, Produce(g), puller[g] # None
  PROVE  /\ StreamInv'
         /\ Computed(g)' = Computed(g) + filled[g]
         /\ Computed(g)' <= Computed(Input[g])
         /\ \A l \in Lists \ {g} : Computed(l)' = Computed(l)
<1> DEFINE o == out[g]
           n == filled[g]
           S == Places(g)
           T == Places(g)'
<1>1. /\ TypeOK /\ g \in Lists /\ g \in Clients /\ o \in Nat /\ n \in Nat
      /\ T = S \cup Row(o, 0, n) /\ (\A p \in S : p[1] < o)
      /\ S \in SUBSET (Nat \X Nat) /\ IsFiniteSet(S)
      /\ array'[g][o] = Shrunk(g)
      /\ (\A k \in 1 .. n : Shrunk(g)[k] = array[g][o][k])
  <2>1. TypeOK /\ g \in Lists /\ g \in Clients
    BY ConstantFacts DEF IInv
  <2>2. S \in SUBSET (Nat \X Nat) /\ IsFiniteSet(S)
    BY <2>1, PlaceFacts DEF StreamInv, ItemsInv
  <2>3. /\ o \in Nat /\ n \in Nat /\ T = S \cup Row(o, 0, n) /\ (\A p \in S : p[1] < o)
        /\ array'[g][o] = Shrunk(g) /\ (\A k \in 1 .. n : Shrunk(g)[k] = array[g][o][k])
    BY ProducePlaces
  <2> QED BY <2>1, <2>2, <2>3
<1>2. /\ \A l \in Lists, i \in Cells : Published(l, i) => array'[l][i] = array[l][i]
      /\ \A l \in Lists \ {g} : Places(l)' = Places(l)
  BY ProducePlaces
<1>3. /\ UNCHANGED <<filled, at, off, got>> /\ puller' = [puller EXCEPT ![g] = None]
      /\ out' = [out EXCEPT ![g] = @ + 1] /\ array' = [array EXCEPT ![g][o] = Shrunk(g)]
  BY DEF Produce, cursor
<1>4. /\ puller'[g] = None
      /\ \A h \in Gens \ {g} : puller'[h] = puller[h] /\ out'[h] = out[h] /\ array'[h] = array[h]
  BY <1>1, <1>3, ConstantFacts DEF TypeOK
<1> HIDE DEF o, n, S, T
<1>5. /\ IsFiniteSet(T) /\ Cardinality(T) = Cardinality(S) + n
      /\ (\A i \in Nat, k \in Nat : i < o \/ (i = o /\ k = 0) => UpTo(T, i, k) = UpTo(S, i, k))
      /\ (\A k \in 1 .. n : Cardinality(UpTo(T, o, k)) = Cardinality(S) + k)
  <2> DEFINE U == S \cup Row(o, 0, n)
  <2>1. /\ IsFiniteSet(U) /\ Cardinality(U) = Cardinality(S) + n
        /\ (\A i \in Nat, k \in Nat : i < o \/ (i = o /\ k = 0) => UpTo(U, i, k) = UpTo(S, i, k))
        /\ (\A k \in 1 .. n : Cardinality(UpTo(U, o, k)) = Cardinality(S) + k)
    BY <1>1, UpToBlock
  <2> HIDE DEF U
  <2>2. T = U
    BY <1>1 DEF U
  <2> QED BY <2>1, <2>2
<1>6. Computed(g)' = Computed(g) + n
  BY <1>5 DEF Computed, S, T
<1>7. \A l \in Lists \ {g} : Computed(l)' = Computed(l)
  BY <1>2 DEF Computed
<1>8. ItemsInv(g)'
  <2> SUFFICES ASSUME NEW p \in T PROVE array'[g][p[1]][p[2]] = Cardinality(UpTo(T, p[1], p[2]))
    BY <1>5 DEF ItemsInv, Rank, T
  <2>1. CASE p \in S
    <3>1. p[1] \in Nat /\ p[2] \in Nat /\ p[1] < o
      BY <1>1, <2>1
    <3>2. array'[g][p[1]] = array[g][p[1]]
      BY <1>1, <1>2, <2>1, PlaceFacts DEF S
    <3>3. array[g][p[1]][p[2]] = Cardinality(UpTo(S, p[1], p[2]))
      BY <1>1, <2>1 DEF StreamInv, ItemsInv, Rank, S
    <3> QED BY <1>5, <3>1, <3>2, <3>3
  <2>2. CASE p \in Row(o, 0, n)
    <3>1. p[1] = o /\ p[2] \in 1 .. n
      BY <2>2 DEF Row
    <3>2. array[g][o][p[2]] = Computed(g) + p[2]
      BY <3>1 DEF StreamInv, OutputInv, n, o
    <3> QED BY <1>1, <1>5, <3>1, <3>2 DEF Computed, S
  <2> QED BY <1>1, <2>1, <2>2
<1>9. ASSUME NEW l \in Lists \ {g} PROVE ItemsInv(l)'
  <2>1. Places(l)' = Places(l) /\ ItemsInv(l)
    BY <1>2 DEF StreamInv
  <2>2. \A p \in Places(l) : array'[l][p[1]] = array[l][p[1]]
    BY <1>1, <1>2, PlaceFacts
  <2> QED BY <2>1, <2>2 DEF ItemsInv, Rank
<1>10. ASSUME NEW c \in Clients PROVE Used(c)' = Used(c)
  <2>1. CASE c \in Readers
    BY <1>3, <2>1, UsedFacts
  <2>2. CASE c = g
    <3>1. Used(c)' = Computed(g) + n
      BY <1>4, <1>6, <2>2, UsedFacts, <1>1, CountFacts
    <3> QED BY <2>2, <3>1, UsedFacts DEF n
  <2>3. CASE c \in Gens \ {g}
    <3>1. Computed(c)' = Computed(c)
      BY <1>7, <2>3, ConstantFacts
    <3> QED BY <1>3, <1>4, <2>3, <3>1, UsedFacts
  <2> QED BY <2>1, <2>2, <2>3 DEF Clients
<1>11. ASSUME NEW c \in Clients PROVE CursorInv(c)'
  <2>1. CursorInv(c) /\ Input[c] \in Lists /\ at'[c] = at[c] /\ off'[c] = off[c]
    BY <1>3, InputFacts DEF StreamInv
  <2>2. CASE Input[c] # g
    <3>1. Places(Input[c])' = Places(Input[c])
      BY <1>2, <2>1, <2>2
    <3> QED BY <1>10, <2>1, <3>1 DEF CursorInv, Rank, Computed
  <2>3. CASE Input[c] = g /\ at[c] = None
    <3>1. Computed(g) \in Nat /\ Used(c) \in Nat
      BY <1>1, CountFacts, UsedNat
    <3> QED BY <1>1, <1>6, <1>10, <2>1, <2>3, <3>1 DEF CursorInv
  <2>4. CASE Input[c] = g /\ at[c] # None
    <3>1. /\ Reach(g, at[c]) /\ at[c] \in Nat /\ off[c] \in Nat
          /\ off[c] # 0 => Published(g, at[c])
      BY <1>1, <2>4, ClientTypes, ConstantFacts DEF IInv, ClientInv
    <3>2. at[c] < o \/ (at[c] = o /\ off[c] = 0)
      <4>1. at[c] <= o
        BY <3>1, ConstantFacts DEF Reach, Broken, o
      <4>2. off[c] # 0 => at[c] # o
        BY <3>1 DEF Published, o
      <4> QED BY <1>1, <3>1, <4>1, <4>2
    <3>3. UpTo(T, at[c], off[c]) = UpTo(S, at[c], off[c])
      BY <1>5, <3>1, <3>2
    <3> QED BY <1>10, <2>1, <2>4, <3>3 DEF CursorInv, Rank, S, T
  <2> QED BY <2>2, <2>3, <2>4
<1>12. ASSUME NEW h \in Gens PROVE OutputInv(h)'
  <2>1. CASE h = g
    BY <1>4, <2>1 DEF OutputInv
  <2>2. CASE h # g
    <3>1. Computed(h)' = Computed(h) /\ OutputInv(h)
      BY <1>7, <2>2, ConstantFacts DEF StreamInv
    <3> QED BY <1>3, <1>4, <2>2, <3>1 DEF OutputInv
  <2> QED BY <2>1, <2>2
<1>13. \A r \in Readers : ReaderInv(r)'
  BY <1>3 DEF StreamInv, ReaderInv
<1>14. StreamInv'
  BY <1>1, <1>8, <1>9, <1>11, <1>12, <1>13 DEF StreamInv
<1>15. Computed(g)' <= Computed(Input[g])
  <2>1. Used(g) = Computed(g) + n /\ Used(g) <= Computed(Input[g])
    BY <1>1, UsedFacts, UsedNat DEF n
  <2> QED BY <1>6, <2>1
<1> QED BY <1>6, <1>7, <1>14, <1>15 DEF n

(* At first Root has its items and the other lists have none.              *)
LEMMA RootPlaces ==
  ASSUME Init
  PROVE  Places(Root) = Row(0, 0, Length) /\ \A g \in Gens : Places(g) = {}
<1>1. \A g \in Gens : Places(g) = {}
  <2>1. \A g \in Gens : Shown(g) = {}
    BY ConstantFacts DEF Init, Shown, Published
  <2> QED BY <2>1, PlacesAre DEF PlacesOf
<1>2. array[Root][0] = [k \in 1 .. Length |-> k] /\ 0 \in Cells /\ Length \in Nat
      /\ \A i \in Cells : i # 0 => array[Root][i] = None
  BY ConstantFacts, ListAssumption DEF Init, Cells
<1>3. array[Root][0] # None
  BY InitInv DEF IInv, RootInv
<1>4. Shown(Root) = {0}
  BY <1>2, <1>3, ConstantFacts DEF Shown, Published
<1>5. Len(array[Root][0]) = Length
  BY <1>2
<1> QED BY <1>1, <1>4, <1>5, PlacesAre DEF PlacesOf, Row

LEMMA StreamInit == Init => StreamInv
<1> SUFFICES ASSUME Init PROVE StreamInv
  OBVIOUS
<1>1. TypeOK
  BY InitInv DEF IInv
<1>2. \A g \in Gens : Places(g) = {}
  BY RootPlaces
<1>3. array[Root][0] = [k \in 1 .. Length |-> k] /\ 0 \in Cells /\ Length \in Nat
  BY ConstantFacts, ListAssumption DEF Init, Cells
<1>4. Places(Root) = Row(0, 0, Length)
  BY RootPlaces
<1>5. \A k \in 1 .. Length : Cardinality(UpTo(Places(Root), 0, k)) = k
  <2> SUFFICES ASSUME NEW k \in 1 .. Length PROVE Cardinality(UpTo(Places(Root), 0, k)) = k
    OBVIOUS
  <2>1. Places(Root) \in SUBSET (Nat \X Nat) /\ \A p \in Places(Root) : p[2] > 0
    BY <1>1, ConstantFacts, PlaceFacts
  <2>2. k \in Nat /\ 0 <= k /\ Row(0, 0, k) \subseteq Places(Root)
    BY <1>3, <1>4 DEF Row
  <2>3. IsFiniteSet(Places(Root))
    BY <1>3, <1>4, RowSize
  <2>4. Cardinality(UpTo(Places(Root), 0, k)) = Cardinality(UpTo(Places(Root), 0, 0)) + (k - 0)
    BY <2>1, <2>2, <2>3, UpToRow
  <2>5. Cardinality(UpTo(Places(Root), 0, 0)) = 0
    BY <2>1, UpToNone, FS_EmptySet
  <2> QED BY <2>2, <2>4, <2>5
<1>6. ASSUME NEW l \in Lists PROVE ItemsInv(l)
  <2>1. CASE l = Root
    <3>1. \A p \in Row(0, 0, Length) : p[1] = 0 /\ p[2] \in 1 .. Length
      BY DEF Row
    <3>2. IsFiniteSet(Row(0, 0, Length))
      BY <1>3, RowSize
    <3>3. \A p \in Places(Root) : array[Root][p[1]][p[2]] = Rank(Root, p[1], p[2])
      BY <1>3, <1>4, <1>5, <3>1 DEF Rank
    <3> QED BY <1>4, <2>1, <3>2, <3>3 DEF ItemsInv
  <2>2. CASE l \in Gens
    BY <1>2, <2>2, FS_EmptySet DEF ItemsInv
  <2> QED BY <2>1, <2>2 DEF Lists
<1>7. ASSUME NEW c \in Clients PROVE CursorInv(c)
  <2>1. at[c] = 0 /\ off[c] = 0 /\ at[c] # None
    BY ConstantFacts, ListAssumption DEF Init
  <2>2. Places(Input[c]) \in SUBSET (Nat \X Nat) /\ \A p \in Places(Input[c]) : p[2] > 0
    BY <1>1, InputFacts, PlaceFacts
  <2>3. UpTo(Places(Input[c]), 0, 0) = {}
    BY <2>2, UpToNone
  <2>4. Used(c) = 0
    <3>1. CASE c \in Readers
      BY <3>1, UsedFacts DEF Init
    <3>2. CASE c \in Gens
      <4>1. Computed(c) = 0
        BY <1>2, <3>2, FS_EmptySet DEF Computed
      <4>2. puller[c] = None
        BY <3>2 DEF Init
      <4> QED BY <3>2, <4>1, <4>2, UsedFacts
    <3> QED BY <3>1, <3>2 DEF Clients
  <2> QED BY <2>1, <2>3, <2>4, FS_EmptySet DEF CursorInv, Rank
<1>8. \A g \in Gens : OutputInv(g)
  BY DEF Init, OutputInv
<1>9. \A r \in Readers : ReaderInv(r)
  BY DEF Init, ReaderInv
<1> QED BY <1>6, <1>7, <1>8, <1>9 DEF StreamInv

(* Only produce moves mOut: a step that leaves it computes no items.        *)
LEMMA OutKept ==
  ASSUME Faulty = {}, IInv, Whole, [Next]_vars, out' = out
  PROVE  \A l \in Lists : Places(l)' = Places(l)
<1>1. ASSUME NEW g \in Gens, Produce(g) PROVE FALSE
  <2>1. out[g] \in Nat
    BY GenTypes, ConstantFacts DEF IInv
  <2>2. out'[g] = out[g] + 1
    BY <1>1 DEF IInv, TypeOK, Produce
  <2> QED BY <2>1, <2>2
<1> QED BY <1>1, PlacesStep DEF FinishBlock, FinishStream

LEMMA StreamStep ==
  ASSUME Faulty = {}, IInv, Whole, StreamInv, [Next]_vars
  PROVE  StreamInv'
<1>1. ASSUME NEW c \in Clients, Call(c) \/ Acquire(c) \/ ForceFilled(c) PROVE StreamInv'
  <2>1. UNCHANGED <<array, puller, filled, out, at, off, got>>
    BY <1>1 DEF Call, Acquire, ForceFilled, cells, gen, cursor
  <2> QED BY <2>1, StillStream
<1>2. ASSUME NEW c \in Clients, ForceEnd(c) \/ ForcePull(c) PROVE StreamInv'
  <2>1. out' = out
    BY <1>2 DEF ForceEnd, ForcePull, gen
  <2> QED BY <1>2, <2>1, OutKept, ForceStream
<1>3. ASSUME NEW c \in Clients, Unwind(c) PROVE FALSE
  BY <1>3 DEF Unwind, Whole
<1>4. ASSUME NEW g \in Gens, Copy(g) PROVE StreamInv'
  <2>1. out' = out
    BY <1>4 DEF Copy
  <2> QED BY <1>4, <2>1, OutKept, CopyStream
<1>5. ASSUME NEW g \in Gens, Throw(g) PROVE FALSE
  BY <1>5 DEF Throw, FirstFault
<1>6. ASSUME NEW g \in Gens, FinishBlock(g) \/ FinishStream(g) PROVE StreamInv'
  BY <1>6, ProduceStream DEF FinishBlock, FinishStream
<1>7. CASE UNCHANGED vars
  <2>1. /\ UNCHANGED <<array, puller, filled, out, at, off, got>>
        /\ \A l : Places(l)' = Places(l)
    BY <1>7, PlacesAre DEF vars, Shown, Published
  <2>2. ASSUME NEW l \in Lists PROVE ItemsInv(l)'
    BY <2>1 DEF StreamInv, ItemsInv, Rank
  <2>3. ASSUME NEW c \in Clients PROVE CursorInv(c)'
    <3>1. CursorInv(c) /\ Used(c)' = Used(c)
      BY <2>1, QuietStream DEF StreamInv
    <3> QED BY <2>1, <3>1 DEF CursorInv, Rank, Computed
  <2>4. \A g \in Gens : OutputInv(g)'
    BY <2>1, QuietStream
  <2>5. \A r \in Readers : ReaderInv(r)'
    BY <2>1 DEF StreamInv, ReaderInv
  <2> QED BY <2>2, <2>3, <2>4, <2>5 DEF StreamInv
<1>8. CASE Next
  BY <1>8, <1>1, <1>2, <1>3, <1>4, <1>5, <1>6, ThunkIsOut, SkipStream, TakeStream, RereadStream
     DEF Next, Cursor, ForceStep, Pull
<1> QED BY <1>7, <1>8

-----------------------------------------------------------------------------
(* Each step of the pipelines as a step of Stream.                         *)

LEMMA QuietAbstract ==
  ASSUME \A l \in Lists : Places(l)' = Places(l), got' = got
  PROVE  UNCHANGED Abstract!vars
<1>1. \A l \in Lists : Computed(l)' = Computed(l)
  BY DEF Computed
<1> QED BY <1>1 DEF Abstract!vars

(* The reader's part. *)
LEMMA TakeIsRead ==
  ASSUME Faulty = {}, IInv, Whole, StreamInv, [Next]_vars, NEW r \in Readers, Take(r)
  PROVE  Abstract!Read(r)
<1> DEFINE M == [l \in Lists |-> Computed(l)]
           n == Len(got'[r])
<1>1. StreamInv' /\ got' = [got EXCEPT ![r] = got'[r]] /\ n \in Len(got[r]) + 1 .. Computed(Input[r])
  BY TakeStream
<1>2. got'[r] = [k \in 1 .. n |-> k]
  <2>1. got'[r] \in Seq(Nat)
    BY NextInv DEF IInv, TypeOK, Blocks
  <2>2. got'[r] = [k \in 1 .. n |-> got'[r][k]]
    BY <2>1
  <2> QED BY <1>1, <2>2 DEF StreamInv, ReaderInv
<1>3. \A l \in Lists : Places(l)' = Places(l)
  BY OutKept DEF Take, gen
<1>4. M' = M
  BY <1>3 DEF Computed
<1>5. Input[r] \in Lists /\ M[Input[r]] = Computed(Input[r])
  BY ConstantFacts, InputFacts
<1> HIDE DEF M
<1>6. n \in Len(got[r]) + 1 .. M[Input[r]] /\ got' = [got EXCEPT ![r] = Abstract!Beginning(n)]
  BY <1>1, <1>2, <1>5 DEF Abstract!Beginning
<1> QED BY <1>4, <1>6 DEF Abstract!Read, M

LEMMA RereadIsRestart ==
  ASSUME Faulty = {}, IInv, Whole, StreamInv, [Next]_vars, NEW r \in Readers, Reread(r)
  PROVE  Abstract!Restart(r)
<1>1. \A l \in Lists : Places(l)' = Places(l)
  BY OutKept DEF Reread, gen
<1>2. [l \in Lists |-> Computed(l)]' = [l \in Lists |-> Computed(l)]
  BY <1>1 DEF Computed
<1> QED BY <1>2, RereadStream DEF Abstract!Restart

(* The end of a pull: its items are computed, or it had none. *)
LEMMA ProduceIsCompute ==
  ASSUME IInv, Whole, StreamInv, NEW g \in Gens, Produce(g), puller[g] # None
  PROVE  [Abstract!Next]_(Abstract!vars)
<1> DEFINE M == [l \in Lists |-> Computed(l)]
           n == Computed(g)'
<1>1. /\ n = Computed(g) + filled[g] /\ n <= Computed(Input[g])
      /\ \A l \in Lists \ {g} : Computed(l)' = Computed(l)
      /\ got' = got
  BY ProduceStream DEF Produce
<1>2. /\ g \in Lists /\ filled[g] \in Nat /\ Input[g] \in Lists
      /\ Computed(g) \in Nat /\ Computed(Input[g]) \in Nat
  BY ConstantFacts, InputFacts, GenTypes, CountFacts DEF IInv
<1>3. M' = [M EXCEPT ![g] = n]
  BY <1>1, <1>2
<1>4. M[g] = Computed(g) /\ M[Input[g]] = Computed(Input[g])
  BY <1>2
<1>5. CASE filled[g] = 0
  <2>1. M' = M
    BY <1>1, <1>2, <1>5
  <2> QED BY <1>1, <2>1 DEF Abstract!vars
<1>6. CASE filled[g] # 0
  <2> HIDE DEF M, n
  <2>1. n \in M[g] + 1 .. M[Input[g]]
    BY <1>1, <1>2, <1>4, <1>6
  <2>2. Abstract!Compute(g)
    BY <1>1, <1>3, <2>1 DEF Abstract!Compute, M
  <2> QED BY <2>2 DEF Abstract!Next
<1> QED BY <1>5, <1>6

LEMMA StepRefines ==
  ASSUME Faulty = {}, IInv, Whole, StreamInv, [Next]_vars
  PROVE  [Abstract!Next]_(Abstract!vars)
<1>1. CASE out' = out /\ got' = got
  BY <1>1, OutKept, QuietAbstract
<1>2. ASSUME NEW r \in Readers, Take(r) \/ Reread(r) PROVE [Abstract!Next]_(Abstract!vars)
  BY <1>2, TakeIsRead, RereadIsRestart DEF Abstract!Next
<1>3. ASSUME NEW g \in Gens, FinishBlock(g) \/ FinishStream(g)
      PROVE  [Abstract!Next]_(Abstract!vars)
  BY <1>3, ProduceIsCompute DEF FinishBlock, FinishStream
<1>4. ASSUME NEW c \in Clients, Cursor(c) \/ ForceStep(c) \/ Unwind(c)
      PROVE  out' = out /\ got' = got
  BY <1>4 DEF Cursor, ForceStep, Call, Skip, Acquire, ForceFilled, AbortForce, ForceEnd,
              ForcePull, Unwind, gen
<1>5. ASSUME NEW g \in Gens, Copy(g) \/ Throw(g) PROVE out' = out /\ got' = got
  BY <1>5 DEF Copy, Throw
<1>6. CASE UNCHANGED vars
  BY <1>1, <1>6 DEF vars
<1>7. CASE Next
  BY <1>7, <1>1, <1>2, <1>3, <1>4, <1>5 DEF Next, Pull
<1> QED BY <1>6, <1>7

LEMMA InitRefines == Init => Abstract!Init
<1> SUFFICES ASSUME Init PROVE Abstract!Init
  OBVIOUS
<1>1. ASSUME NEW l \in Lists PROVE Computed(l) = IF l = Root THEN Length ELSE 0
  <2>1. CASE l = Root
    <3>1. Places(Root) = Row(0, 0, Length) /\ Length \in Nat
      BY RootPlaces, ListAssumption
    <3>2. Cardinality(Row(0, 0, Length)) = Length
      BY <3>1, RowSize
    <3> QED BY <2>1, <3>1, <3>2 DEF Computed
  <2>2. CASE l \in Gens
    <3>1. Places(l) = {} /\ l # Root
      BY <2>2, ConstantFacts, RootPlaces
    <3> QED BY <3>1, FS_EmptySet DEF Computed
  <2> QED BY <2>1, <2>2 DEF Lists
<1>2. [l \in Lists |-> Computed(l)] = [l \in Lists |-> IF l = Root THEN Length ELSE 0]
  BY <1>1
<1>3. Lists = Abstract!Lists
  BY DEF Lists, Abstract!Lists
<1> QED BY <1>2, <1>3 DEF Init, Abstract!Init

(* However many threads force the cells of however deep a pipeline, each   *)
(* list is one fixed sequence, computed once, in order and on demand, and  *)
(* a reader has the beginning of it: with no exception in a pull, the      *)
(* cells, locks and cursors implement Stream.                              *)
THEOREM ListsAreStreams ==
  ASSUME Faulty = {}
  PROVE  Spec => ImplementsStream
<1> DEFINE Inv == IInv /\ Whole /\ StreamInv
<1>1. Init => Inv
  BY InitInv, WholeInit, StreamInit
<1>2. Inv /\ [Next]_vars => Inv'
  BY NextInv, WholeStep, StreamStep
<1>3. Init => Abstract!Init
  BY InitRefines
<1>4. Inv /\ [Next]_vars => [Abstract!Next]_(Abstract!vars)
  BY StepRefines
<1> HIDE DEF Inv
<1> QED BY <1>1, <1>2, <1>3, <1>4, PTL DEF Spec, ImplementsStream, Abstract!Spec
=============================================================================
