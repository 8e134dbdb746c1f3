------------------------- MODULE SymbolTableProofs -------------------------
(***************************************************************************)
(* Proofs about SymbolTable for any set of threads and names.              *)
(***************************************************************************)
EXTENDS SymbolTable, SequenceTheorems, FiniteSetTheorems, TLAPS

Holders(i) == {t \in Threads : holds[t] = i}
Unpublished(i) == \E t \in Threads : pc[t] = "publish" /\ cur[t] = i

(* What a thread knows of the part of the list it has searched. *)
ThreadInv(t) ==
  /\ pc[t] = "walk" => /\ cur[t] <= head[t]
                       /\ \A i \in cur[t] + 1 .. head[t] : chain[i] # want[t]
  /\ pc[t] = "cas" => \A i \in 1 .. head[t] : chain[i] # want[t]
  /\ pc[t] \in {"publish", "found"} => cur[t] # 0 /\ chain[cur[t]] = want[t]
  /\ pc[t] = "publish" => \A u \in Threads \ {t} : ~ (pc[u] = "publish" /\ cur[u] = cur[t])
  /\ holds[t] # 0 => pc[t] = "idle" /\ chain[holds[t]] = want[t]

Counts ==
  \A i \in Symbols :
    refcount[i] = Cardinality(Holders(i)) + IF Unpublished(i) THEN 0 ELSE 1

FreedUnused == dangling \/ \A i \in freed : refcount[i] = 0

IInv ==
  /\ TypeOK
  /\ Interned
  /\ \A t \in Threads : ThreadInv(t)
  /\ Counts
  /\ FreedUnused

LEMMA ThreadTypes ==
  ASSUME TypeOK, NEW t \in Threads
  PROVE  /\ pc[t] \in PCs /\ want[t] \in Names
         /\ head[t] \in Nat /\ head[t] <= Len(chain)
         /\ cur[t] \in Nat /\ cur[t] <= Len(chain)
         /\ holds[t] \in Nat /\ holds[t] <= Len(chain)
         /\ gets[t] \in Nat /\ Len(chain) \in Nat
BY DEF TypeOK

LEMMA HoldersFinite ==
  ASSUME NEW i
  PROVE  IsFiniteSet(Holders(i)) /\ Cardinality(Holders(i)) \in Nat
<1>1. IsFiniteSet(Holders(i))
  BY SymbolAssumption, FS_Subset DEF Holders
<1> QED BY <1>1, FS_CardinalityType

LEMMA InitInv == Init => IInv
<1> SUFFICES ASSUME Init PROVE IInv
  OBVIOUS
<1>1. Len(chain) = 0 /\ Symbols = {}
  BY DEF Init, Symbols
<1>2. TypeOK
  <2>1. (CHOOSE n \in Names : TRUE) \in Names
    BY SymbolAssumption
  <2>2. chain \in Seq(Names) /\ refcount \in Seq(Nat) /\ Len(refcount) = Len(chain)
    BY DEF Init
  <2>3. 0 \in 0 .. Len(chain) /\ 0 \in 0 .. MaxGets
    BY <1>1, SymbolAssumption
  <2> QED BY <2>1, <2>2, <2>3 DEF Init, TypeOK, PCs
<1>3. \A t \in Threads : ThreadInv(t)
  BY DEF Init, ThreadInv
<1> QED BY <1>1, <1>2, <1>3 DEF IInv, Interned, Counts, FreedUnused, Init

(* A step that leaves the list, the counts and the P<String>s alone. *)
LEMMA SearchStep ==
  ASSUME IInv, TypeOK', NEW t \in Threads,
         UNCHANGED <<chain, refcount, freed, holds>>,
         dangling => dangling',
         \A u \in Threads \ {t} : pc'[u] = pc[u] /\ want'[u] = want[u] /\ head'[u] = head[u]
                                  /\ cur'[u] = cur[u],
         pc[t] # "publish", pc'[t] # "publish",
         ThreadInv(t)'
  PROVE  IInv'
<1>1. ASSUME NEW u \in Threads PROVE ThreadInv(u)'
  <2>1. CASE u = t
    BY <2>1
  <2>2. CASE u # t
    BY <2>2 DEF IInv, ThreadInv
  <2> QED BY <2>1, <2>2
<1>2. Interned' /\ FreedUnused'
  BY DEF IInv, Interned, FreedUnused, Symbols
<1>3. Counts'
  <2> SUFFICES ASSUME NEW i \in Symbols
               PROVE  Holders(i)' = Holders(i) /\ (Unpublished(i)' <=> Unpublished(i))
    BY DEF IInv, Counts, Symbols
  <2>1. Unpublished(i)' <=> Unpublished(i)
    BY DEF Unpublished
  <2> QED BY <2>1 DEF Holders
<1> QED BY <1>1, <1>2, <1>3 DEF IInv

LEMMA EnterInv == ASSUME IInv, NEW t \in Threads, Enter(t) PROVE IInv'
<1>1. TypeOK /\ ThreadInv(t) /\ pc[t] = "idle" /\ holds[t] = 0 /\ gets[t] < MaxGets
      /\ pc' = [pc EXCEPT ![t] = "load"] /\ gets' = [gets EXCEPT ![t] = @ + 1]
      /\ UNCHANGED <<table, head, cur, holds, dangling>>
  BY DEF IInv, Enter, Goto
<1>2. PICK n \in Names : want' = [want EXCEPT ![t] = n]
  BY DEF Enter
<1>3. TypeOK'
  BY <1>1, <1>2, SymbolAssumption DEF TypeOK, PCs, Symbols, table
<1>4. ThreadInv(t)'
  BY <1>1 DEF ThreadInv, TypeOK
<1> QED BY <1>1, <1>2, <1>3, <1>4, SearchStep DEF TypeOK, table

LEMMA LoadInv == ASSUME IInv, NEW t \in Threads, Load(t) PROVE IInv'
<1>1. TypeOK /\ ThreadInv(t) /\ pc[t] = "load" /\ pc' = [pc EXCEPT ![t] = "walk"]
      /\ head' = [head EXCEPT ![t] = Len(chain)] /\ cur' = [cur EXCEPT ![t] = Len(chain)]
      /\ UNCHANGED <<table, want, holds, gets, dangling>>
  BY DEF IInv, Load, Goto
<1>2. TypeOK'
  BY <1>1 DEF TypeOK, PCs, Symbols, table
<1>3. ThreadInv(t)'
  BY <1>1, ThreadTypes DEF ThreadInv, TypeOK
<1> QED BY <1>1, <1>2, <1>3, SearchStep DEF TypeOK, table

LEMMA CompareInv == ASSUME IInv, ~ dangling, NEW t \in Threads, Compare(t) PROVE IInv'
<1>1. TypeOK /\ ThreadInv(t) /\ pc[t] = "walk"
      /\ dangling' = (cur[t] \in freed) /\ UNCHANGED <<table, want, head, holds, gets>>
  BY DEF IInv, Compare
<1>2. cur[t] \in Nat /\ head[t] \in Nat /\ cur[t] <= head[t] /\ cur[t] <= Len(chain)
      /\ holds[t] = 0
  BY <1>1, ThreadTypes DEF ThreadInv
<1>3. CASE cur[t] = 0
  <2>1. pc' = [pc EXCEPT ![t] = "cas"] /\ cur' = cur
    BY <1>3 DEF Compare, Goto
  <2>2. TypeOK'
    BY <1>1, <2>1 DEF TypeOK, PCs, Symbols, table
  <2>3. ThreadInv(t)'
    BY <1>1, <1>2, <1>3, <2>1 DEF ThreadInv, TypeOK, table
  <2> QED BY <1>1, <2>1, <2>2, <2>3, SearchStep DEF TypeOK, table
<1>4. CASE cur[t] # 0 /\ chain[cur[t]] = want[t]
  <2>1. pc' = [pc EXCEPT ![t] = "found"] /\ cur' = cur
    BY <1>4 DEF Compare, Goto
  <2>2. TypeOK'
    BY <1>1, <2>1 DEF TypeOK, PCs, Symbols, table
  <2>3. ThreadInv(t)'
    BY <1>1, <1>2, <1>4, <2>1 DEF ThreadInv, TypeOK, table
  <2> QED BY <1>1, <2>1, <2>2, <2>3, SearchStep DEF TypeOK, table
<1>5. CASE cur[t] # 0 /\ chain[cur[t]] # want[t]
  <2>1. pc' = pc /\ cur' = [cur EXCEPT ![t] = @ - 1]
    BY <1>5 DEF Compare
  <2>2. cur[t] - 1 \in 0 .. Len(chain)
    BY <1>2, <1>5, ThreadTypes, <1>1
  <2>3. TypeOK'
    BY <1>1, <2>1, <2>2 DEF TypeOK, PCs, Symbols, table
  <2>4. cur'[t] = cur[t] - 1
    BY <1>1, <2>1 DEF TypeOK
  <2>5. ASSUME NEW i \in cur[t] .. head[t] PROVE chain[i] # want[t]
    <3>1. i = cur[t] \/ i \in cur[t] + 1 .. head[t]
      BY <1>2
    <3> QED BY <1>1, <1>5, <3>1 DEF ThreadInv
  <2>6. ThreadInv(t)'
    BY <1>1, <1>2, <2>1, <2>4, <2>5 DEF ThreadInv, table
  <2> QED BY <1>1, <2>1, <2>3, <2>6, SearchStep DEF TypeOK, table
<1> QED BY <1>3, <1>4, <1>5

LEMMA CasFailsInv == ASSUME IInv, NEW t \in Threads, CasFails(t) PROVE IInv'
<1>1. TypeOK /\ ThreadInv(t) /\ pc[t] = "cas" /\ pc' = [pc EXCEPT ![t] = "load"]
      /\ UNCHANGED <<table, want, head, cur, holds, gets, dangling>>
  BY DEF IInv, CasFails, Goto
<1>2. TypeOK'
  BY <1>1 DEF TypeOK, PCs, Symbols, table
<1>3. ThreadInv(t)'
  BY <1>1 DEF ThreadInv, TypeOK
<1> QED BY <1>1, <1>2, <1>3, SearchStep DEF TypeOK, table

LEMMA CasSucceedsInv == ASSUME IInv, ~ dangling, NEW t \in Threads, CasSucceeds(t) PROVE IInv'
<1> DEFINE new == Len(chain) + 1
<1>1. TypeOK /\ ThreadInv(t) /\ pc[t] = "cas" /\ Len(chain) = head[t]
      /\ chain' = Append(chain, want[t]) /\ refcount' = Append(refcount, 0)
      /\ cur' = [cur EXCEPT ![t] = new] /\ pc' = [pc EXCEPT ![t] = "publish"]
      /\ UNCHANGED <<freed, want, head, holds, gets, dangling>>
  BY DEF IInv, CasSucceeds, HeadIsCurrent, Goto
<1>2. /\ Len(chain) \in Nat /\ Len(chain') = new /\ Len(refcount') = new
      /\ chain'[new] = want[t] /\ refcount'[new] = 0
      /\ \A i \in Symbols : chain'[i] = chain[i] /\ refcount'[i] = refcount[i]
      /\ chain' \in Seq(Names) /\ refcount' \in Seq(Nat)
      /\ Symbols' = Symbols \cup {new} /\ new \notin Symbols
  <2>1. want[t] \in Names /\ chain \in Seq(Names) /\ refcount \in Seq(Nat)
        /\ Len(refcount) = Len(chain)
    BY <1>1, ThreadTypes DEF TypeOK
  <2>2. Len(chain) \in Nat
    BY <2>1
  <2>3. chain' \in Seq(Names) /\ refcount' \in Seq(Nat) /\ Len(chain') = new /\ Len(refcount') = new
    BY <1>1, <2>1
  <2>4. Symbols' = 1 .. new /\ Symbols = 1 .. Len(chain)
    BY <2>3 DEF Symbols
  <2>5. chain'[new] = want[t] /\ refcount'[new] = 0
    BY <1>1, <2>1
  <2>6. \A i \in 1 .. Len(chain) : chain'[i] = chain[i] /\ refcount'[i] = refcount[i]
    BY <1>1, <2>1
  <2> QED BY <2>2, <2>3, <2>4, <2>5, <2>6
<1>3. \A i \in Symbols : chain[i] # want[t]
  BY <1>1 DEF ThreadInv, Symbols
<1>4. /\ pc'[t] = "publish" /\ cur'[t] = new
      /\ \A u \in Threads \ {t} : pc'[u] = pc[u] /\ cur'[u] = cur[u]
  BY <1>1 DEF TypeOK
<1>5. \A u \in Threads : head[u] # new /\ cur[u] # new /\ holds[u] # new
  BY <1>1, <1>2, ThreadTypes
<1>6. TypeOK'
  <2>1. \A n \in Nat : n \in 0 .. Len(chain) => n \in 0 .. new
    BY <1>2
  <2>2. new \in 0 .. new
    BY <1>2
  <2>3. head' \in [Threads -> 0 .. new] /\ holds' \in [Threads -> 0 .. new]
        /\ cur' \in [Threads -> 0 .. new]
    BY <1>1, <2>1, <2>2 DEF TypeOK
  <2>4. freed' \subseteq Symbols'
    BY <1>1, <1>2 DEF TypeOK
  <2>5. pc' \in [Threads -> PCs]
    BY <1>1 DEF TypeOK, PCs
  <2> QED BY <1>1, <1>2, <2>3, <2>4, <2>5 DEF TypeOK
<1>7. Interned'
  BY <1>2, <1>3 DEF IInv, Interned
<1>8. ASSUME NEW u \in Threads PROVE ThreadInv(u)'
  <2>0. ThreadInv(u) /\ head[u] \in Nat /\ head[u] <= Len(chain) /\ cur[u] \in Nat
        /\ cur[u] <= Len(chain) /\ holds[u] \in Nat /\ holds[u] <= Len(chain) /\ want'[u] = want[u]
        /\ head'[u] = head[u] /\ holds'[u] = holds[u]
    BY <1>1, ThreadTypes DEF IInv
  <2>1. \A i \in 1 .. head[u] : chain'[i] = chain[i]
    BY <1>2, <2>0 DEF Symbols
  <2>2. CASE u = t
    <3>1. holds[u] = 0
      BY <1>1, <2>2 DEF ThreadInv
    <3> QED BY <1>1, <1>2, <1>4, <1>5, <2>0, <2>2, <3>1 DEF ThreadInv
  <2>3. CASE u # t
    <3>0. pc'[u] = pc[u] /\ cur'[u] = cur[u]
      BY <1>4, <2>3
    <3>1. pc[u] = "walk" => cur[u] <= head[u] /\ \A i \in cur[u] + 1 .. head[u] : chain'[i] # want[u]
      <4> SUFFICES ASSUME pc[u] = "walk", NEW i \in cur[u] + 1 .. head[u]
                   PROVE  cur[u] <= head[u] /\ chain'[i] # want[u]
        BY <2>0 DEF ThreadInv
      <4>1. i \in 1 .. head[u]
        BY <2>0
      <4> QED BY <2>0, <2>1, <4>1 DEF ThreadInv
    <3>2. pc[u] = "cas" => \A i \in 1 .. head[u] : chain'[i] # want[u]
      BY <2>0, <2>1 DEF ThreadInv
    <3>3. cur[u] # 0 => chain'[cur[u]] = chain[cur[u]]
      BY <1>2, <2>0 DEF Symbols
    <3>4. holds[u] # 0 => chain'[holds[u]] = chain[holds[u]]
      BY <1>2, <2>0 DEF Symbols
    <3>5. pc[u] = "publish" => \A v \in Threads \ {u} : ~ (pc'[v] = "publish" /\ cur'[v] = cur[u])
      BY <1>4, <1>5, <2>0 DEF ThreadInv
    <3> QED BY <2>0, <3>0, <3>1, <3>2, <3>3, <3>4, <3>5 DEF ThreadInv
  <2> QED BY <2>2, <2>3
<1>9. Counts'
  <2>0. \A i : Holders(i)' = Holders(i)
    BY <1>1 DEF Holders
  <2>1. Holders(new) = {}
    BY <1>5 DEF Holders
  <2>2. Cardinality(Holders(new)) = 0
    BY <2>1, FS_EmptySet
  <2>3. \E u \in Threads : pc'[u] = "publish" /\ cur'[u] = new
    BY <1>4
  <2>4. ASSUME NEW i \in Symbols PROVE Unpublished(i)' <=> Unpublished(i)
    BY <1>1, <1>2, <1>4 DEF Unpublished
  <2>5. ASSUME NEW i \in Symbols
        PROVE  refcount'[i] = Cardinality(Holders(i)) + IF Unpublished(i)' THEN 0 ELSE 1
    BY <1>2, <2>4 DEF IInv, Counts
  <2>6. refcount'[new] = Cardinality(Holders(new))
                         + IF \E u \in Threads : pc'[u] = "publish" /\ cur'[u] = new THEN 0 ELSE 1
    BY <1>2, <2>2, <2>3
  <2> HIDE DEF new
  <2> SUFFICES ASSUME NEW i \in Symbols'
               PROVE  refcount'[i] = Cardinality(Holders(i)) + IF Unpublished(i)' THEN 0 ELSE 1
    BY <2>0 DEF Counts
  <2>7. CASE i = new
    BY <2>6, <2>7 DEF Unpublished
  <2>8. CASE i \in Symbols
    BY <2>5, <2>8
  <2> QED BY <1>2, <2>7, <2>8
<1>10. FreedUnused'
  BY <1>1, <1>2 DEF IInv, FreedUnused, TypeOK
<1> QED BY <1>6, <1>7, <1>8, <1>9, <1>10 DEF IInv

(* The two retains of getsym: t is done with cur[t], and refers to it or   *)
(* leaves the count to the table.                                          *)
LEMMA RetainForTableInv ==
  ASSUME IInv, ~ dangling, NEW t \in Threads, RetainForTable(t) PROVE IInv'
<1> DEFINE c == cur[t]
<1>1. TypeOK /\ ThreadInv(t) /\ pc[t] = "publish" /\ pc' = [pc EXCEPT ![t] = "found"]
      /\ refcount' = [refcount EXCEPT ![c] = @ + 1] /\ dangling' = (c \in freed)
      /\ UNCHANGED <<chain, freed, want, head, cur, holds, gets>>
  BY DEF IInv, RetainForTable, Retain, Goto
<1>2. c \in Symbols /\ refcount \in Seq(Nat) /\ Len(refcount) = Len(chain) /\ Len(chain) \in Nat
  BY <1>1, ThreadTypes DEF ThreadInv, Symbols, TypeOK
<1>3. refcount \in [Symbols -> Nat] /\ refcount' \in [Symbols -> Nat] /\ Symbols' = Symbols
  <2>1. refcount \in [Symbols -> Nat] /\ Symbols' = Symbols
    BY <1>1, <1>2 DEF Symbols
  <2>2. refcount[c] + 1 \in Nat
    BY <1>2, <2>1
  <2> QED BY <1>1, <2>1, <2>2
<1>4. refcount' \in Seq(Nat) /\ Len(refcount') = Len(chain)
  BY <1>2, <1>3, SeqDef DEF Symbols
<1>5. /\ pc'[t] = "found" /\ \A u \in Threads \ {t} : pc'[u] = pc[u]
  BY <1>1 DEF TypeOK
<1>6. TypeOK'
  BY <1>1, <1>3, <1>4 DEF TypeOK, PCs, Symbols
<1>7. ASSUME NEW u \in Threads PROVE ThreadInv(u)'
  <2>1. CASE u = t
    BY <1>1, <1>5, <2>1 DEF IInv, ThreadInv
  <2>2. CASE u # t
    BY <1>1, <1>5, <2>2 DEF IInv, ThreadInv
  <2> QED BY <2>1, <2>2
<1>8. Counts'
  <2> SUFFICES ASSUME NEW i \in Symbols
               PROVE  refcount'[i] = Cardinality(Holders(i)) + IF Unpublished(i)' THEN 0 ELSE 1
    BY <1>1, <1>3 DEF Counts, Holders
  <2>0. refcount[i] = Cardinality(Holders(i)) + (IF Unpublished(i) THEN 0 ELSE 1)
    BY DEF IInv, Counts
  <2>1. CASE i = c
    <3>1. Unpublished(i)
      BY <1>1, <2>1 DEF Unpublished
    <3>2. ~ Unpublished(i)'
      BY <1>1, <1>5, <2>1 DEF Unpublished, ThreadInv
    <3>3. refcount'[i] = refcount[i] + 1
      BY <1>1, <1>3, <2>1
    <3> QED BY <2>0, <3>1, <3>2, <3>3, HoldersFinite
  <2>2. CASE i # c
    <3>1. Unpublished(i)' <=> Unpublished(i)
      BY <1>1, <1>5, <2>2 DEF Unpublished
    <3> QED BY <1>1, <1>3, <2>0, <2>2, <3>1
  <2> QED BY <2>1, <2>2
<1>9. FreedUnused'
  BY <1>1, <1>3 DEF IInv, FreedUnused, TypeOK
<1>10. Interned'
  BY <1>1 DEF IInv, Interned, Symbols
<1> QED BY <1>6, <1>7, <1>8, <1>9, <1>10 DEF IInv

LEMMA ReturnInv == ASSUME IInv, ~ dangling, NEW t \in Threads, Return(t) PROVE IInv'
<1> DEFINE c == cur[t]
<1>1. TypeOK /\ ThreadInv(t) /\ pc[t] = "found" /\ pc' = [pc EXCEPT ![t] = "idle"]
      /\ refcount' = [refcount EXCEPT ![c] = @ + 1] /\ dangling' = (c \in freed)
      /\ holds' = [holds EXCEPT ![t] = c]
      /\ UNCHANGED <<chain, freed, want, head, cur, gets>>
  BY DEF IInv, Return, Retain, Goto
<1>2. c \in Symbols /\ refcount \in Seq(Nat) /\ Len(refcount) = Len(chain) /\ Len(chain) \in Nat
      /\ holds[t] = 0 /\ chain[c] = want[t] /\ c # 0
  BY <1>1, ThreadTypes DEF ThreadInv, Symbols, TypeOK
<1>3. refcount \in [Symbols -> Nat] /\ refcount' \in [Symbols -> Nat] /\ Symbols' = Symbols
  <2>1. refcount \in [Symbols -> Nat] /\ Symbols' = Symbols
    BY <1>1, <1>2 DEF Symbols
  <2>2. refcount[c] + 1 \in Nat
    BY <1>2, <2>1
  <2> QED BY <1>1, <2>1, <2>2
<1>4. refcount' \in Seq(Nat) /\ Len(refcount') = Len(chain)
  BY <1>2, <1>3, SeqDef DEF Symbols
<1>5. /\ pc'[t] = "idle" /\ holds'[t] = c
      /\ \A u \in Threads \ {t} : pc'[u] = pc[u] /\ holds'[u] = holds[u]
  BY <1>1 DEF TypeOK
<1>6. TypeOK'
  <2>1. holds' \in [Threads -> 0 .. Len(chain)]
    BY <1>1 DEF TypeOK
  <2> QED BY <1>1, <1>3, <1>4, <2>1 DEF TypeOK, PCs, Symbols
<1>7. ASSUME NEW u \in Threads PROVE ThreadInv(u)'
  <2>1. CASE u = t
    BY <1>1, <1>2, <1>5, <2>1 DEF ThreadInv
  <2>2. CASE u # t
    BY <1>1, <1>5, <2>2 DEF IInv, ThreadInv
  <2> QED BY <2>1, <2>2
<1>8. Counts'
  <2> SUFFICES ASSUME NEW i \in Symbols
               PROVE  refcount'[i] = Cardinality(Holders(i)') + IF Unpublished(i)' THEN 0 ELSE 1
    BY <1>1, <1>3 DEF Counts
  <2>0. refcount[i] = Cardinality(Holders(i)) + (IF Unpublished(i) THEN 0 ELSE 1)
    BY DEF IInv, Counts
  <2>1. Unpublished(i)' <=> Unpublished(i)
    BY <1>1, <1>5 DEF Unpublished
  <2>2. CASE i = c
    <3>1. Holders(i)' = Holders(i) \cup {t} /\ t \notin Holders(i)
      BY <1>2, <1>5, <2>2 DEF Holders
    <3>2. Cardinality(Holders(i)') = Cardinality(Holders(i)) + 1
      BY <3>1, HoldersFinite, FS_AddElement
    <3>3. refcount'[i] = refcount[i] + 1
      BY <1>1, <1>3, <2>2
    <3> QED BY <2>0, <2>1, <3>2, <3>3, HoldersFinite
  <2>3. CASE i # c
    <3>1. Holders(i)' = Holders(i)
      BY <1>2, <1>5, <2>3 DEF Holders, Symbols
    <3> QED BY <1>1, <1>3, <2>0, <2>1, <2>3, <3>1
  <2> QED BY <2>2, <2>3
<1>9. FreedUnused'
  BY <1>1, <1>3 DEF IInv, FreedUnused, TypeOK
<1>10. Interned'
  BY <1>1 DEF IInv, Interned, Symbols
<1> QED BY <1>6, <1>7, <1>8, <1>9, <1>10 DEF IInv

LEMMA ReleaseInv == ASSUME IInv, ~ dangling, NEW t \in Threads, Release(t) PROVE IInv'
<1> DEFINE h == holds[t]
<1>1. TypeOK /\ ThreadInv(t) /\ pc[t] = "idle" /\ h # 0
      /\ refcount' = [refcount EXCEPT ![h] = @ - 1]
      /\ freed' = (IF refcount[h] = 1 THEN freed \cup {h} ELSE freed)
      /\ holds' = [holds EXCEPT ![t] = 0]
      /\ UNCHANGED <<chain, pc, want, head, cur, gets, dangling>>
  BY DEF IInv, Release
<1>2. h \in Symbols /\ refcount \in Seq(Nat) /\ Len(refcount) = Len(chain) /\ Len(chain) \in Nat
  BY <1>1, ThreadTypes DEF Symbols, TypeOK
<1>3. Cardinality(Holders(h)) \in Nat \ {0} /\ Cardinality(Holders(h) \ {t}) = Cardinality(Holders(h)) - 1
  <2>1. t \in Holders(h) /\ IsFiniteSet(Holders(h)) /\ Cardinality(Holders(h)) \in Nat
    BY HoldersFinite DEF Holders
  <2> QED BY <2>1, FS_RemoveElement, FS_EmptySet
<1>4. refcount[h] \in Nat \ {0}
  <2>1. refcount[h] = Cardinality(Holders(h)) + (IF Unpublished(h) THEN 0 ELSE 1)
    BY <1>2 DEF IInv, Counts
  <2> QED BY <1>3, <2>1
<1>5. refcount \in [Symbols -> Nat] /\ refcount' \in [Symbols -> Nat] /\ Symbols' = Symbols
  BY <1>1, <1>2, <1>4 DEF Symbols
<1>6. refcount' \in Seq(Nat) /\ Len(refcount') = Len(chain)
  BY <1>2, <1>5, SeqDef DEF Symbols
<1>7. holds'[t] = 0 /\ \A u \in Threads \ {t} : holds'[u] = holds[u]
  BY <1>1 DEF TypeOK
<1>8. TypeOK'
  <2>1. holds' \in [Threads -> 0 .. Len(chain)]
    BY <1>1, <1>2 DEF TypeOK
  <2>2. freed' \subseteq Symbols
    BY <1>1, <1>2 DEF TypeOK
  <2> QED BY <1>1, <1>5, <1>6, <2>1, <2>2 DEF TypeOK, Symbols
<1>9. ASSUME NEW u \in Threads PROVE ThreadInv(u)'
  BY <1>1, <1>7 DEF IInv, ThreadInv
<1>10. Counts'
  <2> SUFFICES ASSUME NEW i \in Symbols
               PROVE  refcount'[i] = Cardinality(Holders(i)') + IF Unpublished(i) THEN 0 ELSE 1
    BY <1>1, <1>5 DEF Counts, Unpublished
  <2>0. refcount[i] = Cardinality(Holders(i)) + (IF Unpublished(i) THEN 0 ELSE 1)
    BY DEF IInv, Counts
  <2>1. CASE i = h
    <3>1. Holders(i)' = Holders(i) \ {t}
      BY <1>2, <1>7, <2>1 DEF Holders, Symbols
    <3>2. refcount'[i] = refcount[i] - 1
      BY <1>1, <1>5, <2>1
    <3> QED BY <1>3, <2>0, <2>1, <3>1, <3>2
  <2>2. CASE i # h
    <3>1. Holders(i)' = Holders(i)
      BY <1>2, <1>7, <2>2 DEF Holders, Symbols
    <3> QED BY <1>1, <1>5, <2>0, <2>2, <3>1
  <2> QED BY <2>1, <2>2
<1>11. FreedUnused'
  <2> SUFFICES ASSUME ~ dangling, NEW i \in freed' PROVE refcount'[i] = 0
    BY <1>1 DEF FreedUnused
  <2>1. CASE i \in freed
    <3>1. refcount[i] = 0 /\ i # h /\ i \in Symbols
      BY <1>1, <1>4, <2>1 DEF IInv, FreedUnused, TypeOK
    <3> QED BY <1>1, <1>5, <3>1
  <2>2. CASE i = h /\ refcount[h] = 1
    BY <1>1, <1>2, <1>5, <2>2
  <2> QED BY <1>1, <2>1, <2>2
<1>12. Interned'
  BY <1>1 DEF IInv, Interned, Symbols
<1> QED BY <1>8, <1>9, <1>10, <1>11, <1>12 DEF IInv

LEMMA NextInv == IInv /\ [Next]_vars => IInv'
<1> SUFFICES ASSUME IInv, [Next]_vars PROVE IInv'
  OBVIOUS
<1>1. CASE UNCHANGED vars
  <2>1. TypeOK' /\ Interned' /\ FreedUnused' /\ \A t \in Threads : ThreadInv(t)'
    BY <1>1 DEF vars, IInv, TypeOK, Interned, FreedUnused, ThreadInv, Symbols
  <2>2. Counts'
    BY <1>1 DEF vars, IInv, Counts, Holders, Unpublished, Symbols
  <2> QED BY <2>1, <2>2 DEF IInv
<1>2. CASE Next
  BY <1>2, EnterInv, LoadInv, CompareInv, CasSucceedsInv, CasFailsInv, RetainForTableInv,
     ReturnInv, ReleaseInv DEF Next, Getsym
<1> QED BY <1>1, <1>2

LEMMA Invariance == Spec => []IInv
<1>1. Init => IInv
  BY InitInv
<1>2. IInv /\ [Next]_vars => IInv'
  BY NextInv
<1> QED BY <1>1, <1>2, PTL DEF Spec

(* However many threads intern names of one bin at once, and whether or    *)
(* not their weak compare-and-swaps fail, a name is interned only once.    *)
THEOREM NamesAreInternedOnce == Spec => []Interned
<1>1. IInv => Interned
  BY DEF IInv
<1> QED BY <1>1, Invariance, PTL

(* Symbols can be compared by address.                                     *)
THEOREM EqualNamesEqualSymbols == Spec => []Agreement
<1>1. IInv => Agreement
  <2> SUFFICES ASSUME IInv, NEW t \in Threads, NEW u \in Threads, holds[t] # 0, holds[u] # 0
               PROVE  chain[holds[t]] = want[t] /\ (want[t] = want[u] <=> holds[t] = holds[u])
    BY DEF Agreement
  <2>1. chain[holds[t]] = want[t] /\ chain[holds[u]] = want[u]
    BY DEF IInv, ThreadInv
  <2>2. holds[t] \in Symbols /\ holds[u] \in Symbols
    BY ThreadTypes DEF IInv, Symbols
  <2> QED BY <2>1, <2>2 DEF IInv, Interned
<1> QED BY <1>1, Invariance, PTL

(* The racing retains and releases of getsym and its callers count         *)
(* exactly the references there are.                                       *)
THEOREM CountsAreExact == Spec => []RefcountExact
<1>1. IInv => RefcountExact
  BY DEF IInv, Counts, RefcountExact, Holders, Unpublished
<1> QED BY <1>1, Invariance, PTL

(* No symbol is deleted under a P<String> that refers to it.               *)
THEOREM HeldSymbolsLive == Spec => []HeldAlive
<1>1. IInv => HeldAlive
  <2> SUFFICES ASSUME IInv, ~ dangling, NEW t \in Threads, holds[t] \in freed PROVE FALSE
    BY DEF HeldAlive
  <2>1. refcount[holds[t]] = 0 /\ holds[t] \in Symbols
    BY DEF IInv, FreedUnused, TypeOK
  <2>2. t \in Holders(holds[t]) /\ IsFiniteSet(Holders(holds[t]))
        /\ Cardinality(Holders(holds[t])) \in Nat
    BY HoldersFinite DEF Holders
  <2>3. Cardinality(Holders(holds[t])) # 0
    BY <2>2, FS_EmptySet
  <2>4. refcount[holds[t]] = Cardinality(Holders(holds[t]))
                             + (IF Unpublished(holds[t]) THEN 0 ELSE 1)
    BY <2>1 DEF IInv, Counts
  <2> QED BY <2>1, <2>2, <2>3, <2>4
<1> QED BY <1>1, Invariance, PTL

(* The types of the list, the counts and the threads' local variables.     *)
THEOREM TypeCorrect == Spec => []TypeOK
<1>1. IInv => TypeOK
  BY DEF IInv
<1> QED BY <1>1, Invariance, PTL

(* A symbol is deleted only while its maker has still to retain it: once   *)
(* it has the table's own count it stays, for readers that walk the list.  *)
THEOREM RetainedSymbolsStay == Spec => DeletedOnlyUnretained
<1> DEFINE Unretained(i) == \E t \in Threads : pc[t] = "publish" /\ cur[t] = i
<1>1. IInv /\ [Next]_vars => [\A i \in freed' \ freed : Unretained(i)]_vars
  <2> SUFFICES ASSUME IInv, Next, NEW i \in freed' \ freed PROVE Unretained(i)
    OBVIOUS
  <2>1. PICK t \in Threads : Release(t)
    BY DEF Next, Enter, Getsym, Load, Compare, CasSucceeds, CasFails, RetainForTable,
           Return, Retain, table
  <2>2. i = holds[t] /\ refcount[i] = 1
    BY <2>1 DEF Release
  <2>3. i \in Symbols /\ t \in Holders(i)
    BY <2>1, <2>2, ThreadTypes DEF Release, Symbols, Holders, IInv
  <2>4. refcount[i] = Cardinality(Holders(i)) + (IF Unpublished(i) THEN 0 ELSE 1)
    BY <2>3 DEF IInv, Counts
  <2>5. Cardinality(Holders(i)) \in Nat \ {0}
    BY <2>3, HoldersFinite, FS_EmptySet
  <2>6. Unpublished(i)
    BY <2>2, <2>4, <2>5
  <2> QED BY <2>6 DEF Unpublished
<1> QED BY <1>1, Invariance, PTL DEF Spec, DeletedOnlyUnretained
=============================================================================
