--------------------------- MODULE MachineProofs ---------------------------
(***************************************************************************)
(* Proofs about Machine for any functions with any number of arguments and *)
(* local variables, and any nesting of calls, scopes, handlers and loads.  *)
(*                                                                         *)
(* Each part of the invariant is an operator on the sequence of frames and *)
(* the parts of the state it relates them to, so that one lemma says for   *)
(* any sequence what entering or leaving a frame does to it.               *)
(***************************************************************************)
EXTENDS Machine, SequenceTheorems, FiniteSetTheorems, TLAPS

Stacks == Seq(AllValues)
FrameType == [kind : Kinds, base : Nat, lbase : Nat, fun : Functions,
              below : Stacks, callers : Stacks]

(* s begins with t. *)
Begins(s, t) == Len(t) <= Len(s) /\ \A k \in 1 .. Len(t) : s[k] = t[k]
SameUpTo(s, t, n) == n <= Len(s) /\ n <= Len(t) /\ \A k \in 1 .. n : s[k] = t[k]

(* The first frame is that of a line at the prompt.                        *)
BottomOK(fs, sb, loc, lb, f) ==
  IF fs = <<>> THEN sb = 0 /\ loc = <<>> /\ lb = 0 /\ f = Main
  ELSE /\ fs[1].kind = "fun" /\ fs[1].base = 0 /\ fs[1].lbase = 0
       /\ fs[1].fun = Main /\ fs[1].callers = <<>>

(* Every function's variables are above those of its callers, and the base *)
(* that a frame puts back is the one that was there when it was entered.   *)
AfterBase(fr) == IF fr.kind = "fun" THEN Len(fr.callers) ELSE fr.lbase
LocalsOK(fs, loc, lb, f) ==
  /\ Len(loc) = lb + NumLocals[f]
  /\ \A i \in 1 .. Len(fs) : fs[i].kind = "fun" =>
       /\ Begins(loc, fs[i].callers)
       /\ Len(fs[i].callers) <= lb
       /\ Len(fs[i].callers) = fs[i].lbase + NumLocals[fs[i].fun]
       /\ \A j \in i + 1 .. Len(fs) : Len(fs[i].callers) <= fs[j].lbase
  /\ \A i \in 1 .. Len(fs) :
       AfterBase(fs[i]) = (IF i = Len(fs) THEN lb ELSE fs[i + 1].lbase)

(* No scope but that of a message has its base below the scope it is in.   *)
BasesOK(fs, sb) ==
  \A i \in 1 .. Len(fs) :
    fs[i].kind # "message" => fs[i].base <= (IF i = Len(fs) THEN sb ELSE fs[i + 1].base)

(* What was below every scope is still there, and below the current base.  *)
ValuesOK(fs, st, sb) ==
  /\ sb <= Len(st)
  /\ \A i \in 1 .. Len(fs) :
       /\ Begins(st, fs[i].below) /\ Len(fs[i].below) <= sb
       /\ fs[i].base <= Len(fs[i].below)
       /\ \A j \in i + 1 .. Len(fs) : Len(fs[i].below) <= fs[j].base

(* An exception is on its way to the load (or prompt) that will report it, *)
(* or a handler is running that will throw it again.                       *)
NoLoad(fs, i, j) == \A k \in i .. j : fs[k].kind # "load"
OnItsWay(fs, m, l) ==
  \/ m = "throw" /\ NoLoad(fs, l + 1, Len(fs))
  \/ \E j \in l + 1 .. Len(fs) : fs[j].kind \in Handlers /\ NoLoad(fs, l + 1, j)
ThrowsOK(fs, m, th) ==
  \A l \in th :
    /\ l = 0 \/ (l \in 1 .. Len(fs) /\ fs[l].kind = "load")
    /\ OnItsWay(fs, m, l)

IInv ==
  /\ TypeOK
  /\ BottomOK(frames, stackBase, local, localBase, fun)
  /\ LocalsOK(frames, local, localBase, fun)
  /\ BasesOK(frames, stackBase)
  /\ mode # "undefined" => stackBase <= Len(stack)
  /\ overdrawn \/ (mode # "undefined" /\ ValuesOK(frames, stack, stackBase))
  /\ mode \in {"run", "throw"} => ThrowsOK(frames, mode, threw)

-----------------------------------------------------------------------------
(* Sequences                                                               *)

(* The first n values of a sequence, or all if there are fewer.            *)
LEMMA FirstProps ==
  ASSUME NEW S, NEW s \in Seq(S), NEW n \in Int
  PROVE  /\ First(s, n) \in Seq(S)
         /\ Len(First(s, n)) = IF n < 0 THEN 0 ELSE IF n <= Len(s) THEN n ELSE Len(s)
         /\ \A k \in 1 .. Len(First(s, n)) : First(s, n)[k] = s[k]
<1> DEFINE m == IF n <= Len(s) THEN n ELSE Len(s)
<1>1. m \in Int /\ Len(s) \in Nat /\ m <= Len(s) /\ First(s, n) = SubSeq(s, 1, m)
  BY LenProperties DEF First
<1> HIDE DEF m
<1>2. \A i \in 1 .. m : s[i] \in S
  BY <1>1, ElementOfSeq
<1>3. /\ SubSeq(s, 1, m) \in Seq(S)
      /\ Len(SubSeq(s, 1, m)) = IF 1 <= m THEN m - 1 + 1 ELSE 0
      /\ \A i \in 1 .. m - 1 + 1 : SubSeq(s, 1, m)[i] = s[1 + i - 1]
  BY <1>1, <1>2, SubSeqProperties
<1>4. Len(First(s, n)) = IF m < 0 THEN 0 ELSE m
  BY <1>1, <1>3
<1>5. \A k \in 1 .. Len(First(s, n)) : First(s, n)[k] = s[k]
  BY <1>1, <1>3, <1>4
<1>6. (IF m < 0 THEN 0 ELSE m) = IF n < 0 THEN 0 ELSE IF n <= Len(s) THEN n ELSE Len(s)
  BY <1>1 DEF m
<1> QED BY <1>1, <1>3, <1>4, <1>5, <1>6

(* The common case: no more than there are.                                *)
LEMMA FirstOf ==
  ASSUME NEW S, NEW s \in Seq(S), NEW n \in Nat, n <= Len(s)
  PROVE  /\ First(s, n) \in Seq(S) /\ Len(First(s, n)) = n
         /\ \A k \in 1 .. n : First(s, n)[k] = s[k]
BY FirstProps

(* All frames but the last.                                                *)
LEMMA FrontOf ==
  ASSUME NEW S, NEW fs \in Seq(S), fs # <<>>
  PROVE  /\ First(fs, Len(fs) - 1) \in Seq(S) /\ Len(fs) \in Nat /\ Len(fs) > 0
         /\ Len(First(fs, Len(fs) - 1)) = Len(fs) - 1
         /\ \A i \in 1 .. Len(fs) - 1 : First(fs, Len(fs) - 1)[i] = fs[i]
         /\ fs[Len(fs)] \in S
<1>1. Len(fs) \in Nat /\ Len(fs) > 0
  BY EmptySeq
<1>2. fs[Len(fs)] \in S
  BY <1>1, ElementOfSeq
<1> QED BY <1>1, <1>2, FirstOf

(* One frame more.                                                         *)
LEMMA AppendOf ==
  ASSUME NEW S, NEW fs \in Seq(S), NEW x \in S
  PROVE  /\ Append(fs, x) \in Seq(S) /\ Append(fs, x) # <<>>
         /\ Len(fs) \in Nat /\ Len(Append(fs, x)) = Len(fs) + 1
         /\ Append(fs, x)[Len(fs) + 1] = x
         /\ \A i \in 1 .. Len(fs) : Append(fs, x)[i] = fs[i]
BY AppendProperties, LenProperties

(* Three sequences of values in a row.                                     *)
LEMMA Associates ==
  ASSUME NEW s \in Stacks, NEW t \in Stacks, NEW u \in Stacks
  PROVE  (s \o t) \o u = s \o (t \o u)
<1> DEFINE S == AllValues
<1> HIDE DEF S
<1>1. s \in Seq(S) /\ t \in Seq(S) /\ u \in Seq(S)
  BY DEF Stacks, S
<1> QED BY <1>1, ConcatAssociative

(* A sequence that begins with t has t as its first values.                *)
LEMMA BeginsFirst ==
  ASSUME NEW S, NEW s \in Seq(S), NEW t \in Seq(S), Begins(s, t)
  PROVE  First(s, Len(t)) = t
<1>1. Len(t) \in Nat /\ Len(t) <= Len(s)
  BY LenProperties DEF Begins
<1>2. First(s, Len(t)) \in Seq(S) /\ Len(First(s, Len(t))) = Len(t)
      /\ \A k \in 1 .. Len(t) : First(s, Len(t))[k] = t[k]
  BY <1>1, FirstOf DEF Begins
<1> QED BY <1>2, SeqEqual

(* These facts, of sequences of values.                                    *)
LEMMA StacksConcat ==
  ASSUME NEW s \in Stacks, NEW t \in Stacks
  PROVE  /\ s \o t \in Stacks /\ Len(s \o t) = Len(s) + Len(t)
         /\ Len(s) \in Nat /\ Len(t) \in Nat
         /\ \A k \in 1 .. Len(s) : (s \o t)[k] = s[k]
<1> DEFINE S == AllValues
<1> HIDE DEF S
<1>1. s \in Seq(S) /\ t \in Seq(S)
  BY DEF Stacks, S
<1>2. s \o t \in Seq(S) /\ Len(s) \in Nat /\ Len(t) \in Nat /\ Len(s \o t) = Len(s) + Len(t)
  BY <1>1, ConcatProperties, LenProperties
<1>3. \A k \in 1 .. Len(s) + Len(t) : (s \o t)[k] = IF k <= Len(s) THEN s[k] ELSE t[k - Len(s)]
  BY <1>1, ConcatProperties
<1> QED BY <1>2, <1>3 DEF Stacks, S

LEMMA StacksFirst ==
  ASSUME NEW s \in Stacks, NEW n \in Nat, n <= Len(s)
  PROVE  /\ First(s, n) \in Stacks /\ Len(First(s, n)) = n
         /\ \A k \in 1 .. n : First(s, n)[k] = s[k]
<1> DEFINE S == AllValues
<1> HIDE DEF S
<1>1. s \in Seq(S)
  BY DEF Stacks, S
<1> QED BY <1>1, FirstOf DEF Stacks, S

LEMMA StacksBegin ==
  ASSUME NEW s \in Stacks, NEW t \in Stacks, Begins(s, t)
  PROVE  First(s, Len(t)) = t
<1> DEFINE S == AllValues
<1> HIDE DEF S
<1>1. s \in Seq(S) /\ t \in Seq(S)
  BY DEF Stacks, S
<1> QED BY <1>1, BeginsFirst

(* The greatest of finitely many numbers.                                  *)
LEMMA GreatestExists ==
  ASSUME NEW n \in Nat, NEW S, S \subseteq 1 .. n, S # {}
  PROVE  \E i \in S : \A j \in S : j <= i
<1> DEFINE From(i) == {k \in S : i <= k}
           Tails == {From(i) : i \in S}
           R == StrictSubsetOrdering(1 .. n)
<1>1. IsFiniteSet(1 .. n)
  BY FS_Interval
<1>2. IsWellFoundedOn(R, SUBSET (1 .. n))
  BY <1>1, FS_StrictSubsetOrderingWellFounded, FS_FiniteSubsetsOfFinite
<1>3. Tails \subseteq SUBSET (1 .. n) /\ Tails # {}
  OBVIOUS
<1>4. PICK T \in Tails : \A U \in Tails : ~ (<<U, T>> \in R)
  <2> HIDE DEF Tails, R
  <2> QED BY <1>2, <1>3, WFMin
<1>5. PICK i \in S : T = From(i)
  BY <1>4
<1>6. ASSUME NEW j \in S, ~ (j <= i) PROVE FALSE
  <2>0. S \subseteq Nat /\ i \in Nat /\ j \in Nat /\ i < j
    BY <1>6
  <2>1. i \in From(i) /\ i \notin From(j) /\ From(j) \subseteq From(i)
    <3>1. i \in From(i) /\ i \notin From(j)
      BY <2>0
    <3>2. ASSUME NEW k \in S, j <= k PROVE i <= k
      BY <2>0, <3>2
    <3> QED BY <3>1, <3>2
  <2>2. From(i) \in SUBSET (1 .. n) /\ From(j) \in SUBSET (1 .. n) /\ From(j) \in Tails
    OBVIOUS
  <2> HIDE DEF From, Tails
  <2>3. From(j) # From(i)
    BY <2>1
  <2>4. <<From(j), From(i)>> \in R
    BY <2>1, <2>2, <2>3 DEF StrictSubsetOrdering
  <2> QED BY <1>4, <1>5, <2>2, <2>4
<1> QED BY <1>6

-----------------------------------------------------------------------------
(* Local variables and frames                                              *)

LEMMA LocalsPush ==
  ASSUME NEW fs \in Seq(FrameType), NEW fr \in FrameType, NEW loc, NEW lb \in Nat, NEW f,
         LocalsOK(fs, loc, lb, f), fr.kind # "fun", fr.lbase = lb
  PROVE  LocalsOK(Append(fs, fr), loc, lb, f)
<1> DEFINE gs == Append(fs, fr)
           n == Len(fs)
<1>1. /\ n \in Nat /\ Len(gs) = n + 1 /\ gs[n + 1] = fr
      /\ \A i \in 1 .. n : gs[i] = fs[i]
  BY AppendOf
<1> HIDE DEF gs, n
<1>2. ASSUME NEW i \in 1 .. n + 1, gs[i].kind = "fun"
      PROVE  /\ Begins(loc, gs[i].callers) /\ Len(gs[i].callers) <= lb
             /\ Len(gs[i].callers) = gs[i].lbase + NumLocals[gs[i].fun]
             /\ \A j \in i + 1 .. n + 1 : Len(gs[i].callers) <= gs[j].lbase
  <2>1. i \in 1 .. n /\ gs[i] = fs[i]
    BY <1>1, <1>2
  <2>2. /\ Begins(loc, fs[i].callers) /\ Len(fs[i].callers) <= lb
        /\ Len(fs[i].callers) = fs[i].lbase + NumLocals[fs[i].fun]
        /\ \A j \in i + 1 .. n : Len(fs[i].callers) <= fs[j].lbase
    BY <1>2, <2>1 DEF LocalsOK, n
  <2>3. \A j \in i + 1 .. n + 1 : Len(fs[i].callers) <= gs[j].lbase
    BY <1>1, <2>1, <2>2
  <2> QED BY <2>1, <2>2, <2>3
<1>3. ASSUME NEW i \in 1 .. n + 1
      PROVE  AfterBase(gs[i]) = (IF i = n + 1 THEN lb ELSE gs[i + 1].lbase)
  <2>1. CASE i = n + 1
    BY <1>1, <2>1 DEF AfterBase
  <2>2. CASE i = n
    BY <1>1, <2>2 DEF LocalsOK, n
  <2>3. CASE i < n
    <3>1. i \in 1 .. n /\ i + 1 \in 1 .. n
      BY <1>1, <2>3
    <3> QED BY <1>1, <2>3, <3>1 DEF LocalsOK, n
  <2> QED BY <1>1, <2>1, <2>2, <2>3
<1>4. Len(loc) = lb + NumLocals[f]
  BY DEF LocalsOK
<1> QED BY <1>1, <1>2, <1>3, <1>4 DEF LocalsOK, gs

(* A function is called: its variables are put above those there are.      *)
LEMMA LocalsCall ==
  ASSUME NEW fs \in Seq(FrameType), NEW fr \in FrameType, NEW loc \in Stacks,
         NEW new \in Stacks, NEW lb \in Nat, NEW f \in Functions, NEW g \in Functions,
         LocalsOK(fs, loc, lb, f), fr.kind = "fun", fr.lbase = lb, fr.fun = f, fr.callers = loc,
         Len(new) = NumLocals[g]
  PROVE  LocalsOK(Append(fs, fr), loc \o new, Len(loc), g)
<1> DEFINE gs == Append(fs, fr)
           n == Len(fs)
           loc2 == loc \o new
<1>1. /\ n \in Nat /\ Len(gs) = n + 1 /\ gs[n + 1] = fr
      /\ \A i \in 1 .. n : gs[i] = fs[i] /\ fs[i] \in FrameType
  BY AppendOf, ElementOfSeq
<1>2. /\ Len(loc) \in Nat /\ Len(new) \in Nat /\ Len(loc2) = Len(loc) + Len(new)
      /\ \A k \in 1 .. Len(loc) : loc2[k] = loc[k]
  BY StacksConcat
<1>3. Len(loc) = lb + NumLocals[f] /\ NumLocals[f] \in Nat
  BY MachineAssumption DEF LocalsOK, Functions
<1> HIDE DEF gs, n, loc2
<1>4. ASSUME NEW i \in 1 .. n + 1, gs[i].kind = "fun"
      PROVE  /\ Begins(loc2, gs[i].callers) /\ Len(gs[i].callers) <= Len(loc)
             /\ Len(gs[i].callers) = gs[i].lbase + NumLocals[gs[i].fun]
             /\ \A j \in i + 1 .. n + 1 : Len(gs[i].callers) <= gs[j].lbase
  <2>1. CASE i = n + 1
    <3>1. gs[i] = fr
      BY <1>1, <2>1
    <3>2. Begins(loc2, loc) /\ Len(loc) <= Len(loc)
      BY <1>2 DEF Begins
    <3>3. i + 1 .. n + 1 = {}
      BY <1>1, <2>1
    <3> QED BY <1>3, <3>1, <3>2, <3>3
  <2>2. CASE i \in 1 .. n
    <3>1. gs[i] = fs[i] /\ Len(fs[i].callers) \in Nat
      BY <1>1, <2>2, LenProperties DEF FrameType, Stacks
    <3>2. /\ Begins(loc, fs[i].callers) /\ Len(fs[i].callers) <= lb
          /\ Len(fs[i].callers) = fs[i].lbase + NumLocals[fs[i].fun]
          /\ \A j \in i + 1 .. n : Len(fs[i].callers) <= fs[j].lbase
      BY <1>4, <2>2, <3>1 DEF LocalsOK, n
    <3>3. \A j \in i + 1 .. n + 1 : Len(fs[i].callers) <= gs[j].lbase
      BY <1>1, <2>2, <3>2
    <3>4. Begins(loc2, fs[i].callers)
      BY <1>2, <3>1, <3>2 DEF Begins
    <3>5. Len(fs[i].callers) <= Len(loc)
      BY <1>2, <1>3, <3>1, <3>2
    <3> QED BY <3>1, <3>2, <3>3, <3>4, <3>5
  <2> QED BY <1>1, <2>1, <2>2
<1>5. ASSUME NEW i \in 1 .. n + 1
      PROVE  AfterBase(gs[i]) = (IF i = n + 1 THEN Len(loc) ELSE gs[i + 1].lbase)
  <2>1. CASE i = n + 1
    BY <1>1, <2>1 DEF AfterBase
  <2>2. CASE i = n
    BY <1>1, <2>2 DEF LocalsOK, n
  <2>3. CASE i < n
    <3>1. i \in 1 .. n /\ i + 1 \in 1 .. n
      BY <1>1, <2>3
    <3> QED BY <1>1, <2>3, <3>1 DEF LocalsOK, n
  <2> QED BY <1>1, <2>1, <2>2, <2>3
<1>6. Len(loc2) = Len(loc) + NumLocals[g]
  BY <1>2
<1> QED BY <1>1, <1>4, <1>5, <1>6 DEF LocalsOK, gs, loc2

(* A frame that is not a function's goes.                                  *)
LEMMA LocalsPopScope ==
  ASSUME NEW fs \in Seq(FrameType), NEW loc, NEW lb \in Nat, NEW f, fs # <<>>,
         LocalsOK(fs, loc, lb, f), fs[Len(fs)].kind # "fun"
  PROVE  LocalsOK(First(fs, Len(fs) - 1), loc, lb, f) /\ fs[Len(fs)].lbase = lb
<1> DEFINE gs == First(fs, Len(fs) - 1)
           n == Len(fs)
<1>1. n \in Nat /\ n > 0 /\ Len(gs) = n - 1 /\ \A i \in 1 .. n - 1 : gs[i] = fs[i]
  BY FrontOf
<1> HIDE DEF gs, n
<1>2. fs[n].lbase = lb
  BY <1>1 DEF LocalsOK, AfterBase, n
<1>3. ASSUME NEW i \in 1 .. n - 1, gs[i].kind = "fun"
      PROVE  /\ Begins(loc, gs[i].callers) /\ Len(gs[i].callers) <= lb
             /\ Len(gs[i].callers) = gs[i].lbase + NumLocals[gs[i].fun]
             /\ \A j \in i + 1 .. n - 1 : Len(gs[i].callers) <= gs[j].lbase
  <2>1. gs[i] = fs[i] /\ i \in 1 .. n
    BY <1>1
  <2>2. /\ Begins(loc, fs[i].callers) /\ Len(fs[i].callers) <= lb
        /\ Len(fs[i].callers) = fs[i].lbase + NumLocals[fs[i].fun]
        /\ \A j \in i + 1 .. n : Len(fs[i].callers) <= fs[j].lbase
    BY <1>3, <2>1 DEF LocalsOK, n
  <2> QED BY <1>1, <2>1, <2>2
<1>4. ASSUME NEW i \in 1 .. n - 1
      PROVE  AfterBase(gs[i]) = (IF i = n - 1 THEN lb ELSE gs[i + 1].lbase)
  <2>1. AfterBase(fs[i]) = fs[i + 1].lbase
    BY <1>1 DEF LocalsOK, n
  <2> QED BY <1>1, <1>2, <2>1
<1>5. Len(loc) = lb + NumLocals[f]
  BY DEF LocalsOK
<1> QED BY <1>1, <1>2, <1>3, <1>4, <1>5 DEF LocalsOK, gs, n

(* A function's frame goes, and with it the variables of the function.     *)
LEMMA LocalsPopFun ==
  ASSUME NEW fs \in Seq(FrameType), NEW loc \in Stacks, NEW lb \in Nat, NEW f \in Functions,
         fs # <<>>, LocalsOK(fs, loc, lb, f), fs[Len(fs)].kind = "fun"
  PROVE  LET top == fs[Len(fs)]
             rest == First(loc, Len(loc) - NumLocals[f])
         IN  /\ LocalsOK(First(fs, Len(fs) - 1), rest, top.lbase, top.fun)
             /\ rest = top.callers
<1> DEFINE gs == First(fs, Len(fs) - 1)
           n == Len(fs)
           top == fs[n]
           rest == First(loc, Len(loc) - NumLocals[f])
<1>1. /\ n \in Nat /\ n > 0 /\ Len(gs) = n - 1 /\ \A i \in 1 .. n - 1 : gs[i] = fs[i]
      /\ \A i \in 1 .. n : fs[i] \in FrameType /\ Len(fs[i].callers) \in Nat
  <2>1. \A i \in 1 .. n : fs[i] \in FrameType
    BY ElementOfSeq
  <2>2. \A i \in 1 .. n : Len(fs[i].callers) \in Nat
    BY <2>1, LenProperties DEF FrameType, Stacks
  <2> QED BY <2>1, <2>2, FrontOf
<1> HIDE DEF gs, n
<1>2. Len(loc) = lb + NumLocals[f] /\ NumLocals[f] \in Nat /\ Len(loc) \in Nat
  BY MachineAssumption, LenProperties DEF LocalsOK, Functions, Stacks
<1>3. Len(top.callers) = lb /\ Begins(loc, top.callers)
      /\ Len(top.callers) = top.lbase + NumLocals[top.fun]
  BY <1>1 DEF LocalsOK, AfterBase, n
<1>4. rest \in Stacks /\ Len(rest) = lb /\ \A k \in 1 .. lb : rest[k] = loc[k]
  <2>1. Len(loc) - NumLocals[f] = lb
    BY <1>2
  <2>2. lb <= Len(loc)
    BY <1>2
  <2> QED BY <2>1, <2>2, StacksFirst
<1>5. rest = top.callers
  <2>1. top.callers \in Stacks
    BY <1>1 DEF FrameType
  <2>2. First(loc, Len(top.callers)) = top.callers
    BY <1>3, <2>1, StacksBegin
  <2> QED BY <1>2, <1>3, <2>2
<1> HIDE DEF rest
<1>6. ASSUME NEW i \in 1 .. n - 1, gs[i].kind = "fun"
      PROVE  /\ Begins(rest, gs[i].callers) /\ Len(gs[i].callers) <= top.lbase
             /\ Len(gs[i].callers) = gs[i].lbase + NumLocals[gs[i].fun]
             /\ \A j \in i + 1 .. n - 1 : Len(gs[i].callers) <= gs[j].lbase
  <2>1. gs[i] = fs[i] /\ i \in 1 .. n /\ n \in i + 1 .. n
    BY <1>1
  <2>2. /\ Begins(loc, fs[i].callers) /\ Len(fs[i].callers) <= lb
        /\ Len(fs[i].callers) = fs[i].lbase + NumLocals[fs[i].fun]
        /\ \A j \in i + 1 .. n : Len(fs[i].callers) <= fs[j].lbase
    BY <1>6, <2>1 DEF LocalsOK, n
  <2>3. Begins(rest, fs[i].callers)
    <3> DEFINE m == Len(fs[i].callers)
    <3>1. m \in Nat /\ m <= lb /\ \A k \in 1 .. m : loc[k] = fs[i].callers[k]
      BY <1>1, <2>1, <2>2 DEF Begins
    <3> HIDE DEF m
    <3>2. \A k \in 1 .. m : rest[k] = fs[i].callers[k]
      BY <1>4, <3>1
    <3> QED BY <1>4, <3>1, <3>2 DEF Begins, m
  <2> QED BY <1>1, <2>1, <2>2, <2>3
<1>7. ASSUME NEW i \in 1 .. n - 1
      PROVE  AfterBase(gs[i]) = (IF i = n - 1 THEN top.lbase ELSE gs[i + 1].lbase)
  <2>1. AfterBase(fs[i]) = fs[i + 1].lbase
    BY <1>1 DEF LocalsOK, n
  <2> QED BY <1>1, <2>1
<1>8. Len(rest) = top.lbase + NumLocals[top.fun]
  BY <1>3, <1>4
<1>9. LocalsOK(gs, rest, top.lbase, top.fun)
  BY <1>1, <1>6, <1>7, <1>8 DEF LocalsOK
<1> QED BY <1>5, <1>9 DEF gs, n, rest

(* A variable of the running function is bound.                            *)
LEMMA LocalsBind ==
  ASSUME NEW fs \in Seq(FrameType), NEW loc \in Stacks, NEW lb \in Nat, NEW f \in Functions,
         LocalsOK(fs, loc, lb, f), NEW i \in 1 .. NumLocals[f], NEW v \in AllValues
  PROVE  /\ LocalsOK(fs, [loc EXCEPT ![lb + i] = v], lb, f)
         /\ [loc EXCEPT ![lb + i] = v] \in Stacks /\ loc[lb + i] \in AllValues
<1> DEFINE loc2 == [loc EXCEPT ![lb + i] = v]
<1>1. Len(loc) = lb + NumLocals[f] /\ NumLocals[f] \in Nat /\ lb + i \in 1 .. Len(loc)
  BY MachineAssumption DEF LocalsOK, Functions
<1>2. loc2 \in Stacks /\ Len(loc2) = Len(loc) /\ \A k \in 1 .. lb : loc2[k] = loc[k]
  BY <1>1, ExceptSeq DEF Stacks
<1>3. loc[lb + i] \in AllValues
  BY <1>1, ElementOfSeq DEF Stacks
<1> HIDE DEF loc2
<1>4. ASSUME NEW k \in 1 .. Len(fs), fs[k].kind = "fun"
      PROVE  Begins(loc2, fs[k].callers)
  <2>1. Begins(loc, fs[k].callers) /\ Len(fs[k].callers) <= lb
    BY <1>4 DEF LocalsOK
  <2>2. fs[k] \in FrameType
    BY ElementOfSeq
  <2>3. Len(fs[k].callers) \in Nat
    BY <2>2, LenProperties DEF FrameType, Stacks
  <2> QED BY <1>2, <2>1, <2>3 DEF Begins
<1>5. LocalsOK(fs, loc2, lb, f)
  BY <1>1, <1>2, <1>4 DEF LocalsOK
<1> QED BY <1>2, <1>3, <1>5 DEF loc2

-----------------------------------------------------------------------------
(* The value stack and frames                                              *)

(* Lengths of what the frames keep.                                        *)
LEMMA FrameNumbers ==
  ASSUME NEW fs \in Seq(FrameType)
  PROVE  /\ Len(fs) \in Nat
         /\ \A i \in 1 .. Len(fs) : /\ fs[i] \in FrameType /\ fs[i].base \in Nat
                                    /\ Len(fs[i].below) \in Nat /\ fs[i].kind \in Kinds
<1>1. Len(fs) \in Nat /\ \A i \in 1 .. Len(fs) : fs[i] \in FrameType
  BY LenProperties, ElementOfSeq
<1>2. \A fr \in FrameType : fr.base \in Nat /\ Len(fr.below) \in Nat /\ fr.kind \in Kinds
  BY LenProperties DEF FrameType, Stacks
<1> QED BY <1>1, <1>2

(* The values below the base are what counts.                              *)
LEMMA ValuesKeep ==
  ASSUME NEW fs \in Seq(FrameType), NEW st, NEW st2, NEW sb \in Nat,
         ValuesOK(fs, st, sb), SameUpTo(st, st2, sb), Len(st) \in Nat, Len(st2) \in Nat
  PROVE  ValuesOK(fs, st2, sb)
<1>1. ASSUME NEW i \in 1 .. Len(fs) PROVE Begins(st2, fs[i].below)
  <2>1. Begins(st, fs[i].below) /\ Len(fs[i].below) <= sb /\ Len(fs[i].below) \in Nat
    BY FrameNumbers DEF ValuesOK
  <2> QED BY <2>1 DEF Begins, SameUpTo
<1> QED BY <1>1 DEF ValuesOK, SameUpTo

LEMMA ValuesPush ==
  ASSUME NEW fs \in Seq(FrameType), NEW fr \in FrameType, NEW st, NEW st2,
         NEW sb \in Nat, NEW sb2 \in Nat, Len(st) \in Nat, Len(st2) \in Nat,
         ValuesOK(fs, st, sb), SameUpTo(st, st2, sb), sb <= fr.base, fr.base <= Len(fr.below),
         Len(fr.below) <= sb2, sb2 <= Len(st2), Begins(st2, fr.below)
  PROVE  ValuesOK(Append(fs, fr), st2, sb2)
<1> DEFINE gs == Append(fs, fr)
           n == Len(fs)
<1>1. /\ n \in Nat /\ Len(gs) = n + 1 /\ gs[n + 1] = fr
      /\ \A i \in 1 .. n : gs[i] = fs[i]
  BY AppendOf
<1>2. \A i \in 1 .. n : Len(fs[i].below) \in Nat
  BY FrameNumbers
<1>3. fr.base \in Nat /\ Len(fr.below) \in Nat
  BY LenProperties DEF FrameType, Stacks
<1> HIDE DEF gs, n
<1>4. ASSUME NEW i \in 1 .. n + 1
      PROVE  /\ Begins(st2, gs[i].below) /\ Len(gs[i].below) <= sb2
             /\ gs[i].base <= Len(gs[i].below)
             /\ \A j \in i + 1 .. n + 1 : Len(gs[i].below) <= gs[j].base
  <2>1. CASE i = n + 1
    <3>1. gs[i] = fr /\ i + 1 .. n + 1 = {}
      BY <1>1, <2>1
    <3> QED BY <3>1
  <2>2. CASE i \in 1 .. n
    <3>1. gs[i] = fs[i] /\ Len(fs[i].below) \in Nat
      BY <1>1, <1>2, <2>2
    <3>2. /\ Begins(st, fs[i].below) /\ Len(fs[i].below) <= sb
          /\ fs[i].base <= Len(fs[i].below)
          /\ \A j \in i + 1 .. n : Len(fs[i].below) <= fs[j].base
      BY <2>2 DEF ValuesOK, n
    <3>3. Begins(st2, fs[i].below)
      BY <3>1, <3>2 DEF Begins, SameUpTo
    <3>4. Len(fs[i].below) <= fr.base /\ Len(fs[i].below) <= sb2
      BY <1>3, <3>1, <3>2
    <3>5. ASSUME NEW j \in i + 1 .. n + 1 PROVE Len(fs[i].below) <= gs[j].base
      <4>1. CASE j = n + 1
        BY <1>1, <3>4, <4>1
      <4>2. CASE j # n + 1
        <5>1. j \in i + 1 .. n /\ j \in 1 .. n
          BY <1>1, <2>2, <4>2
        <5> QED BY <1>1, <3>2, <5>1
      <4> QED BY <4>1, <4>2
    <3> QED BY <3>1, <3>2, <3>3, <3>4, <3>5
  <2> QED BY <1>1, <2>1, <2>2
<1> QED BY <1>1, <1>4 DEF ValuesOK, gs

(* A frame goes, and the base it kept is put back.                         *)
LEMMA ValuesPop ==
  ASSUME NEW fs \in Seq(FrameType), NEW st, NEW st2, NEW sb \in Nat, fs # <<>>,
         ValuesOK(fs, st, sb), SameUpTo(st, st2, sb), Len(st) \in Nat, Len(st2) \in Nat
  PROVE  /\ ValuesOK(First(fs, Len(fs) - 1), st2, fs[Len(fs)].base)
         /\ fs[Len(fs)].base <= sb
<1> DEFINE gs == First(fs, Len(fs) - 1)
           n == Len(fs)
<1>1. n \in Nat /\ n > 0 /\ Len(gs) = n - 1 /\ \A i \in 1 .. n - 1 : gs[i] = fs[i]
  BY FrontOf
<1>2. \A i \in 1 .. n : Len(fs[i].below) \in Nat /\ fs[i].base \in Nat
  BY FrameNumbers
<1>3. ValuesOK(fs, st2, sb)
  BY ValuesKeep
<1> HIDE DEF gs, n
<1>4. fs[n].base <= sb /\ sb <= Len(st2)
  <2>1. n \in 1 .. n
    BY <1>1
  <2> QED BY <1>2, <1>3, <2>1 DEF ValuesOK, n
<1>5. ASSUME NEW i \in 1 .. n - 1
      PROVE  /\ Begins(st2, gs[i].below) /\ Len(gs[i].below) <= fs[n].base
             /\ gs[i].base <= Len(gs[i].below)
             /\ \A j \in i + 1 .. n - 1 : Len(gs[i].below) <= gs[j].base
  <2>1. gs[i] = fs[i] /\ i \in 1 .. n /\ n \in i + 1 .. n
    BY <1>1
  <2>2. /\ Begins(st2, fs[i].below) /\ fs[i].base <= Len(fs[i].below)
        /\ \A j \in i + 1 .. n : Len(fs[i].below) <= fs[j].base
    BY <1>3, <2>1 DEF ValuesOK, n
  <2>3. Len(fs[i].below) <= fs[n].base
    BY <2>1, <2>2
  <2>4. \A j \in i + 1 .. n - 1 : j \in i + 1 .. n /\ gs[j] = fs[j]
    BY <1>1, <2>1
  <2> QED BY <2>1, <2>2, <2>3, <2>4
<1>6. fs[n].base <= Len(st2)
  BY <1>1, <1>2, <1>4
<1> QED BY <1>1, <1>4, <1>5, <1>6 DEF ValuesOK, gs, n

(* A frame goes that leaves the base alone.                                *)
LEMMA ValuesPopGuard ==
  ASSUME NEW fs \in Seq(FrameType), NEW st, NEW sb, fs # <<>>, ValuesOK(fs, st, sb)
  PROVE  ValuesOK(First(fs, Len(fs) - 1), st, sb)
<1> DEFINE gs == First(fs, Len(fs) - 1)
           n == Len(fs)
<1>1. n \in Nat /\ n > 0 /\ Len(gs) = n - 1 /\ \A i \in 1 .. n - 1 : gs[i] = fs[i]
  BY FrontOf
<1> HIDE DEF gs, n
<1>2. ASSUME NEW i \in 1 .. n - 1
      PROVE  /\ Begins(st, gs[i].below) /\ Len(gs[i].below) <= sb
             /\ gs[i].base <= Len(gs[i].below)
             /\ \A j \in i + 1 .. n - 1 : Len(gs[i].below) <= gs[j].base
  <2>1. gs[i] = fs[i] /\ i \in 1 .. n
    BY <1>1
  <2>2. /\ Begins(st, fs[i].below) /\ Len(fs[i].below) <= sb
        /\ fs[i].base <= Len(fs[i].below)
        /\ \A j \in i + 1 .. n : Len(fs[i].below) <= fs[j].base
    BY <2>1 DEF ValuesOK, n
  <2> QED BY <1>1, <2>1, <2>2
<1> QED BY <1>1, <1>2 DEF ValuesOK, gs, n

LEMMA BasesPush ==
  ASSUME NEW fs \in Seq(FrameType), NEW fr \in FrameType, NEW sb \in Nat, NEW sb2 \in Nat,
         BasesOK(fs, sb), sb <= fr.base, fr.kind # "message" => fr.base <= sb2
  PROVE  BasesOK(Append(fs, fr), sb2)
<1> DEFINE gs == Append(fs, fr)
           n == Len(fs)
<1>1. /\ n \in Nat /\ Len(gs) = n + 1 /\ gs[n + 1] = fr
      /\ \A i \in 1 .. n : gs[i] = fs[i] /\ fs[i].base \in Nat
  BY AppendOf, FrameNumbers
<1>2. fr.base \in Nat
  BY DEF FrameType
<1> HIDE DEF gs, n
<1>3. ASSUME NEW i \in 1 .. n + 1, gs[i].kind # "message"
      PROVE  gs[i].base <= (IF i = n + 1 THEN sb2 ELSE gs[i + 1].base)
  <2>1. CASE i = n + 1
    BY <1>1, <1>3, <2>1
  <2>2. CASE i = n
    <3>1. fs[n].base <= sb /\ fs[n].base \in Nat
      BY <1>1, <1>3, <2>2 DEF BasesOK, n
    <3> QED BY <1>1, <1>2, <2>2, <3>1
  <2>3. CASE i < n
    <3>1. i \in 1 .. n /\ i + 1 \in 1 .. n
      BY <1>1, <2>3
    <3> QED BY <1>1, <1>3, <2>3, <3>1 DEF BasesOK, n
  <2> QED BY <1>1, <2>1, <2>2, <2>3
<1> QED BY <1>1, <1>3 DEF BasesOK, gs

(* The frame on top of a message's may have any base.                      *)
LEMMA BasesPushCalled ==
  ASSUME NEW fs \in Seq(FrameType), NEW fr \in FrameType, NEW sb, NEW sb2,
         BasesOK(fs, sb), fr.kind = "message", sb <= fr.base, NEW fr2 \in FrameType,
         sb \in Nat, sb2 \in Nat, fr2.base <= sb2
  PROVE  BasesOK(Append(Append(fs, fr), fr2), sb2)
<1>1. fr2.base \in Nat
  BY DEF FrameType
<1>2. BasesOK(Append(fs, fr), fr2.base)
  BY <1>1, BasesPush
<1>3. Append(fs, fr) \in Seq(FrameType)
  BY AppendOf
<1>4. fr2.base <= fr2.base
  BY <1>1
<1> HIDE DEF BasesOK
<1> QED BY <1>1, <1>2, <1>3, <1>4, BasesPush

LEMMA BasesPop ==
  ASSUME NEW fs \in Seq(FrameType), NEW sb, fs # <<>>, BasesOK(fs, sb)
  PROVE  /\ BasesOK(First(fs, Len(fs) - 1), fs[Len(fs)].base)
         /\ fs[Len(fs)].kind # "message" => fs[Len(fs)].base <= sb
<1> DEFINE gs == First(fs, Len(fs) - 1)
           n == Len(fs)
<1>1. n \in Nat /\ n > 0 /\ Len(gs) = n - 1 /\ \A i \in 1 .. n - 1 : gs[i] = fs[i]
  BY FrontOf
<1> HIDE DEF gs, n
<1>2. ASSUME NEW i \in 1 .. n - 1, gs[i].kind # "message"
      PROVE  gs[i].base <= (IF i = n - 1 THEN fs[n].base ELSE gs[i + 1].base)
  <2>1. fs[i].base <= fs[i + 1].base
    BY <1>1, <1>2 DEF BasesOK, n
  <2> QED BY <1>1, <2>1
<1>3. fs[n].kind # "message" => fs[n].base <= sb
  BY <1>1 DEF BasesOK, n
<1> QED BY <1>1, <1>2, <1>3 DEF BasesOK, gs, n

LEMMA BasesPopGuard ==
  ASSUME NEW fs \in Seq(FrameType), NEW sb \in Nat, fs # <<>>, BasesOK(fs, sb),
         fs[Len(fs)].kind # "message"
  PROVE  BasesOK(First(fs, Len(fs) - 1), sb)
<1> DEFINE gs == First(fs, Len(fs) - 1)
           n == Len(fs)
<1>1. /\ n \in Nat /\ n > 0 /\ Len(gs) = n - 1 /\ \A i \in 1 .. n - 1 : gs[i] = fs[i]
      /\ \A i \in 1 .. n : fs[i].base \in Nat
  BY FrontOf, FrameNumbers
<1>2. BasesOK(gs, fs[n].base) /\ fs[n].base <= sb
  BY BasesPop
<1> HIDE DEF gs, n
<1>3. ASSUME NEW i \in 1 .. n - 1, gs[i].kind # "message"
      PROVE  gs[i].base <= (IF i = n - 1 THEN sb ELSE gs[i + 1].base)
  <2>1. CASE i = n - 1
    <3>1. gs[i].base <= fs[n].base
      BY <1>1, <1>2, <1>3, <2>1 DEF BasesOK
    <3> QED BY <1>1, <1>2, <2>1, <3>1
  <2>2. CASE i # n - 1
    BY <1>1, <1>2, <1>3, <2>2 DEF BasesOK
  <2> QED BY <2>1, <2>2
<1> QED BY <1>1, <1>3 DEF BasesOK, gs, n

-----------------------------------------------------------------------------
(* Exceptions and frames                                                   *)

(* A frame is entered: no handler above a load goes away.                  *)
LEMMA ThrowsPush ==
  ASSUME NEW fs \in Seq(FrameType), NEW fr \in FrameType, NEW m, NEW th,
         ThrowsOK(fs, m, th), m = "throw" => fr.kind # "load"
  PROVE  ThrowsOK(Append(fs, fr), m, th)
<1> DEFINE gs == Append(fs, fr)
           n == Len(fs)
<1>1. /\ n \in Nat /\ Len(gs) = n + 1 /\ gs[n + 1] = fr
      /\ \A i \in 1 .. n : gs[i] = fs[i]
  BY AppendOf
<1> HIDE DEF gs, n
<1> SUFFICES ASSUME NEW l \in th
             PROVE  /\ l = 0 \/ (l \in 1 .. n + 1 /\ gs[l].kind = "load")
                    /\ OnItsWay(gs, m, l)
  BY <1>1 DEF ThrowsOK, gs
<1>2. /\ l = 0 \/ (l \in 1 .. n /\ fs[l].kind = "load")
      /\ OnItsWay(fs, m, l)
  BY DEF ThrowsOK, n
<1>3. l \in Nat /\ l <= n
  BY <1>1, <1>2
<1>4. CASE m = "throw" /\ NoLoad(fs, l + 1, n)
  <2>1. ASSUME NEW k \in l + 1 .. n + 1 PROVE gs[k].kind # "load"
    <3>1. CASE k = n + 1
      BY <1>1, <1>4, <3>1
    <3>2. CASE k # n + 1
      <4>1. k \in l + 1 .. n /\ gs[k] = fs[k]
        BY <1>1, <1>3, <3>2
      <4> QED BY <1>4, <4>1 DEF NoLoad
    <3> QED BY <3>1, <3>2
  <2> QED BY <1>1, <1>2, <1>4, <2>1 DEF OnItsWay, NoLoad
<1>5. CASE \E j \in l + 1 .. n : fs[j].kind \in Handlers /\ NoLoad(fs, l + 1, j)
  <2>1. PICK j \in l + 1 .. n : fs[j].kind \in Handlers /\ NoLoad(fs, l + 1, j)
    BY <1>5
  <2>2. j \in l + 1 .. n + 1 /\ gs[j].kind \in Handlers
    BY <1>1, <1>3, <2>1
  <2>3. NoLoad(gs, l + 1, j)
    BY <1>1, <1>3, <2>1 DEF NoLoad
  <2>4. OnItsWay(gs, m, l)
    BY <1>1, <2>2, <2>3 DEF OnItsWay
  <2> QED BY <1>1, <1>2, <2>4
<1> QED BY <1>2, <1>4, <1>5 DEF OnItsWay, n

(* A frame is left that is not a load; a handler is left by an exception.  *)
LEMMA ThrowsPop ==
  ASSUME NEW fs \in Seq(FrameType), fs # <<>>, NEW m \in {"run", "throw"}, NEW th,
         ThrowsOK(fs, m, th), fs[Len(fs)].kind # "load",
         m = "run" => fs[Len(fs)].kind \notin Handlers
  PROVE  ThrowsOK(First(fs, Len(fs) - 1), m, th)
<1> DEFINE gs == First(fs, Len(fs) - 1)
           n == Len(fs)
<1>1. n \in Nat /\ n > 0 /\ Len(gs) = n - 1 /\ \A i \in 1 .. n - 1 : gs[i] = fs[i]
  BY FrontOf
<1> HIDE DEF gs, n
<1> SUFFICES ASSUME NEW l \in th
             PROVE  /\ l = 0 \/ (l \in 1 .. n - 1 /\ gs[l].kind = "load")
                    /\ OnItsWay(gs, m, l)
  BY <1>1 DEF ThrowsOK, gs, n
<1>2. /\ l = 0 \/ (l \in 1 .. n - 1 /\ fs[l].kind = "load")
      /\ OnItsWay(fs, m, l)
  BY <1>1 DEF ThrowsOK, n
<1>3. l \in Nat /\ l <= n - 1
  BY <1>1, <1>2
<1>4. CASE m = "throw" /\ NoLoad(fs, l + 1, n)
  <2>1. NoLoad(gs, l + 1, n - 1)
    BY <1>1, <1>3, <1>4 DEF NoLoad
  <2> QED BY <1>1, <1>2, <1>4, <2>1 DEF OnItsWay
<1>5. CASE \E j \in l + 1 .. n : fs[j].kind \in Handlers /\ NoLoad(fs, l + 1, j)
  <2>1. PICK j \in l + 1 .. n : fs[j].kind \in Handlers /\ NoLoad(fs, l + 1, j)
    BY <1>5
  <2>2. CASE j = n
    <3>1. m = "throw" /\ NoLoad(fs, l + 1, n)
      BY <2>1, <2>2 DEF n
    <3> QED BY <1>4, <3>1
  <2>3. CASE j # n
    <3>1. j \in l + 1 .. n - 1 /\ gs[j].kind \in Handlers
      BY <1>1, <1>3, <2>1, <2>3
    <3>2. NoLoad(gs, l + 1, j)
      BY <1>1, <1>3, <2>1, <3>1 DEF NoLoad
    <3>3. OnItsWay(gs, m, l)
      BY <1>1, <3>1, <3>2 DEF OnItsWay
    <3> QED BY <1>1, <1>2, <3>3
  <2> QED BY <2>2, <2>3
<1> QED BY <1>2, <1>4, <1>5 DEF OnItsWay, n

(* An exception is thrown.                                                 *)
LEMMA LevelProps ==
  ASSUME TypeOK
  PROVE  /\ Level = 0 \/ (Level \in 1 .. Len(frames) /\ frames[Level].kind = "load")
         /\ Level \in Nat /\ NoLoad(frames, Level + 1, Len(frames))
<1> DEFINE loads == {i \in 1 .. Len(frames) : frames[i].kind = "load"}
<1>1. frames \in Seq(FrameType) /\ Len(frames) \in Nat
  BY LenProperties DEF TypeOK, FrameType, Stacks
<1>2. CASE loads = {}
  <2>1. Level = 0
    BY <1>2 DEF Level
  <2>2. NoLoad(frames, 1, Len(frames))
    BY <1>2 DEF NoLoad
  <2> QED BY <2>1, <2>2
<1>3. CASE loads # {}
  <2>1. \E i \in loads : \A j \in loads : j <= i
    <3>1. loads \subseteq 1 .. Len(frames)
      OBVIOUS
    <3> HIDE DEF loads
    <3> QED BY <1>1, <1>3, <3>1, GreatestExists
  <2>2. Level \in loads /\ \A j \in loads : j <= Level
    BY <1>3, <2>1 DEF Level
  <2>3. ASSUME NEW k \in Level + 1 .. Len(frames) PROVE frames[k].kind # "load"
    <3>1. Level \in Nat /\ Level >= 1
      BY <1>1, <2>2
    <3>2. k \in 1 .. Len(frames) /\ ~ (k <= Level)
      BY <1>1, <3>1
    <3>3. k \notin loads
      BY <2>2, <3>2
    <3> QED BY <3>2, <3>3
  <2> QED BY <1>1, <2>2, <2>3 DEF NoLoad
<1> QED BY <1>2, <1>3

LEMMA ThrowsRaise ==
  ASSUME TypeOK, NEW m, ThrowsOK(frames, m, threw)
  PROVE  /\ ThrowsOK(frames, "throw", threw)
         /\ ThrowsOK(frames, "throw", threw \cup {Level})
<1>1. \A l \in threw : OnItsWay(frames, m, l) => OnItsWay(frames, "throw", l)
  <2> SUFFICES ASSUME NEW l \in threw, OnItsWay(frames, m, l) PROVE OnItsWay(frames, "throw", l)
    OBVIOUS
  <2>1. CASE NoLoad(frames, l + 1, Len(frames))
    BY <2>1 DEF OnItsWay
  <2>2. CASE \E j \in l + 1 .. Len(frames) : frames[j].kind \in Handlers /\ NoLoad(frames, l + 1, j)
    BY <2>2 DEF OnItsWay
  <2> QED BY <2>1, <2>2 DEF OnItsWay
<1>2. OnItsWay(frames, "throw", Level)
  BY LevelProps DEF OnItsWay
<1> QED BY <1>1, <1>2, LevelProps DEF ThrowsOK

(* An exception is thrown again after the handler.                         *)
LEMMA ThrowsAgain ==
  ASSUME NEW fs, NEW th, ThrowsOK(fs, "run", th)
  PROVE  ThrowsOK(fs, "throw", th)
<1>1. ASSUME NEW l \in th PROVE OnItsWay(fs, "throw", l)
  <2>1. \E j \in l + 1 .. Len(fs) : fs[j].kind \in Handlers /\ NoLoad(fs, l + 1, j)
    BY DEF ThrowsOK, OnItsWay
  <2> QED BY <2>1 DEF OnItsWay
<1> QED BY <1>1 DEF ThrowsOK

(* A try or protect catches: its handler is the one that is running.       *)
LEMMA ThrowsCatch ==
  ASSUME NEW fs \in Seq(FrameType), fs # <<>>, NEW th, NEW fr \in FrameType,
         ThrowsOK(fs, "throw", th), fs[Len(fs)].kind \in {"try", "protect"}, fr.kind \in Handlers
  PROVE  ThrowsOK(Append(First(fs, Len(fs) - 1), fr), "run", th)
<1> DEFINE outer == First(fs, Len(fs) - 1)
           gs == Append(outer, fr)
           n == Len(fs)
<1>1. /\ n \in Nat /\ n > 0 /\ Len(outer) = n - 1 /\ outer \in Seq(FrameType)
      /\ \A i \in 1 .. n - 1 : outer[i] = fs[i]
  BY FrontOf
<1>2. /\ Len(gs) = n /\ gs[n] = fr /\ \A i \in 1 .. n - 1 : gs[i] = fs[i]
  <2> HIDE DEF outer
  <2>1. /\ Len(gs) = Len(outer) + 1 /\ gs[Len(outer) + 1] = fr
        /\ \A i \in 1 .. Len(outer) : gs[i] = outer[i]
    BY <1>1, AppendOf
  <2> QED BY <1>1, <2>1
<1>3. ThrowsOK(outer, "throw", th)
  BY ThrowsPop
<1> HIDE DEF gs, n, outer
<1> SUFFICES ASSUME NEW l \in th
             PROVE  /\ l = 0 \/ (l \in 1 .. n /\ gs[l].kind = "load")
                    /\ OnItsWay(gs, "run", l)
  BY <1>2 DEF ThrowsOK, gs, outer
<1>4. /\ l = 0 \/ (l \in 1 .. n - 1 /\ fs[l].kind = "load")
      /\ OnItsWay(outer, "throw", l)
  BY <1>1, <1>3 DEF ThrowsOK
<1>5. l \in Nat /\ l <= n - 1
  BY <1>1, <1>4
<1>6. CASE NoLoad(outer, l + 1, n - 1)
  <2>1. ASSUME NEW k \in l + 1 .. n PROVE gs[k].kind # "load"
    <3>1. CASE k = n
      BY <1>2, <3>1 DEF Handlers
    <3>2. CASE k # n
      <4>1. k \in l + 1 .. n - 1 /\ k \in 1 .. n - 1
        BY <1>1, <1>5, <3>2
      <4> QED BY <1>1, <1>2, <1>6, <4>1 DEF NoLoad
    <3> QED BY <3>1, <3>2
  <2>2. n \in l + 1 .. n
    BY <1>1, <1>5
  <2>3. OnItsWay(gs, "run", l)
    BY <1>2, <2>1, <2>2 DEF OnItsWay, NoLoad
  <2> QED BY <1>1, <1>2, <1>4, <2>3
<1>7. CASE \E j \in l + 1 .. n - 1 : outer[j].kind \in Handlers /\ NoLoad(outer, l + 1, j)
  <2>1. PICK j \in l + 1 .. n - 1 : outer[j].kind \in Handlers /\ NoLoad(outer, l + 1, j)
    BY <1>7
  <2>2. j \in l + 1 .. n /\ gs[j].kind \in Handlers
    BY <1>1, <1>2, <1>5, <2>1
  <2>3. NoLoad(gs, l + 1, j)
    BY <1>1, <1>2, <1>5, <2>1 DEF NoLoad
  <2>4. OnItsWay(gs, "run", l)
    BY <1>2, <2>2, <2>3 DEF OnItsWay
  <2> QED BY <1>1, <1>2, <1>4, <2>4
<1> QED BY <1>1, <1>4, <1>6, <1>7 DEF OnItsWay

(* load reports an exception: what passed through it before is still to be *)
(* thrown again by a handler inside it.                                    *)
LEMMA ThrowsReported ==
  ASSUME NEW fs \in Seq(FrameType), fs # <<>>, NEW th,
         ThrowsOK(fs, "throw", th), fs[Len(fs)].kind = "load"
  PROVE  ThrowsOK(First(fs, Len(fs) - 1), "run", th \ {Len(fs)})
<1> DEFINE gs == First(fs, Len(fs) - 1)
           n == Len(fs)
<1>1. n \in Nat /\ n > 0 /\ Len(gs) = n - 1 /\ \A i \in 1 .. n - 1 : gs[i] = fs[i]
  BY FrontOf
<1> HIDE DEF gs, n
<1> SUFFICES ASSUME NEW l \in th \ {n}
             PROVE  /\ l = 0 \/ (l \in 1 .. n - 1 /\ gs[l].kind = "load")
                    /\ OnItsWay(gs, "run", l)
  BY <1>1 DEF ThrowsOK, gs, n
<1>2. /\ l = 0 \/ (l \in 1 .. n - 1 /\ fs[l].kind = "load")
      /\ OnItsWay(fs, "throw", l)
  BY <1>1 DEF ThrowsOK, n
<1>3. l \in Nat /\ l <= n - 1 /\ n \in l + 1 .. n
  BY <1>1, <1>2
<1>4. ~ NoLoad(fs, l + 1, n)
  BY <1>3 DEF NoLoad, n
<1>5. PICK j \in l + 1 .. n : fs[j].kind \in Handlers /\ NoLoad(fs, l + 1, j)
  BY <1>2, <1>4 DEF OnItsWay, n
<1>6. j # n
  BY <1>5 DEF Handlers, n
<1>7. j \in l + 1 .. n - 1 /\ gs[j].kind \in Handlers /\ NoLoad(gs, l + 1, j)
  BY <1>1, <1>3, <1>5, <1>6 DEF NoLoad
<1>8. OnItsWay(gs, "run", l)
  BY <1>1, <1>7 DEF OnItsWay
<1> QED BY <1>1, <1>2, <1>8

(* While a handler's or any other code runs, the innermost load has not    *)
(* thrown, and with nothing but the line running, neither has the prompt.  *)
LEMMA ThrowsAtLoad ==
  ASSUME NEW fs \in Seq(FrameType), fs # <<>>, NEW th, ThrowsOK(fs, "run", th)
  PROVE  /\ Len(fs) \notin th
         /\ Len(fs) = 1 /\ fs[1].kind = "fun" => 0 \notin th
<1>1. Len(fs) \in Nat /\ \A l \in th : \E j \in l + 1 .. Len(fs) : fs[j].kind \in Handlers
  BY LenProperties DEF ThrowsOK, OnItsWay
<1> QED BY <1>1 DEF Handlers

-----------------------------------------------------------------------------
(* Code that runs                                                          *)

(* What a step of code or of an exception has to start from.               *)
LEMMA Running ==
  ASSUME IInv, mode \in {"run", "throw"}
  PROVE  /\ frames \in Seq(FrameType) /\ frames # <<>> /\ Top \in FrameType
         /\ Len(frames) \in Nat /\ Len(frames) > 0
         /\ stack \in Stacks /\ Len(stack) \in Nat
         /\ local \in Stacks /\ Len(local) \in Nat /\ localBase \in Nat /\ fun \in Functions
         /\ stackBase \in Nat /\ stackBase <= Len(stack) /\ Depth \in Nat
         /\ overdrawn \in BOOLEAN /\ threw \subseteq Nat
<1>1. frames \in Seq(FrameType) /\ frames # <<>>
  BY DEF IInv, TypeOK, FrameType, Stacks
<1>2. stack \in Stacks /\ local \in Stacks /\ localBase \in Nat /\ stackBase \in Nat
      /\ overdrawn \in BOOLEAN /\ threw \subseteq Nat /\ fun \in Functions
  BY DEF IInv, TypeOK, Stacks
<1>3. stackBase <= Len(stack)
  BY DEF IInv
<1>4. Len(stack) \in Nat /\ Len(local) \in Nat
  BY <1>2, LenProperties DEF Stacks
<1>5. Top \in FrameType /\ Len(frames) \in Nat /\ Len(frames) > 0
  BY <1>1, FrontOf DEF Top
<1> QED BY <1>1, <1>2, <1>3, <1>4, <1>5 DEF Depth

(* Zero and what aggregates make are values.                               *)
LEMMA ZeroValue == Zero \in AllValues /\ Aggregate \in AllValues
BY DEF AllValues

(* Functions have so many arguments and variables.                         *)
LEMMA FunNumbers ==
  \A f \in Functions : NumArgs[f] \in Nat /\ NumLocals[f] \in Nat /\ NumArgs[f] <= NumLocals[f]
BY MachineAssumption DEF Functions

LEMMA NoneOfMain == Main \in Functions /\ NumArgs[Main] = 0 /\ NumLocals[Main] = 0
<1>1. Main \in Functions /\ NumLocals[Main] = 0
  BY MachineAssumption DEF Functions
<1> QED BY <1>1, FunNumbers

LEMMA BottomPush ==
  ASSUME NEW fs \in Seq(FrameType), NEW fr \in FrameType, fs # <<>>,
         NEW sb, NEW loc, NEW lb, NEW f, BottomOK(fs, sb, loc, lb, f),
         NEW sb2, NEW loc2, NEW lb2, NEW f2
  PROVE  BottomOK(Append(fs, fr), sb2, loc2, lb2, f2)
<1>1. Len(fs) \in Nat /\ Len(fs) > 0
  BY EmptySeq
<1>2. Append(fs, fr) # <<>> /\ Append(fs, fr)[1] = fs[1]
  BY <1>1, AppendOf
<1> QED BY <1>2 DEF BottomOK

(* Only a function's frame can be the last to go.                          *)
LEMMA BottomPop ==
  ASSUME NEW fs \in Seq(FrameType), fs # <<>>,
         NEW sb, NEW loc, NEW lb, NEW f, BottomOK(fs, sb, loc, lb, f),
         NEW sb2, NEW loc2, NEW lb2, NEW f2
  PROVE  LET gs == First(fs, Len(fs) - 1)
         IN  /\ gs # <<>> => BottomOK(gs, sb2, loc2, lb2, f2)
             /\ gs = <<>> => /\ fs[Len(fs)].kind = "fun" /\ fs[Len(fs)].base = 0
                             /\ fs[Len(fs)].lbase = 0 /\ fs[Len(fs)].fun = Main
                             /\ fs[Len(fs)].callers = <<>>
<1> DEFINE gs == First(fs, Len(fs) - 1)
<1>1. /\ gs \in Seq(FrameType) /\ Len(fs) \in Nat /\ Len(fs) > 0 /\ Len(gs) = Len(fs) - 1
      /\ \A i \in 1 .. Len(fs) - 1 : gs[i] = fs[i]
  BY FrontOf
<1> HIDE DEF gs
<1>2. CASE gs # <<>>
  <2>1. Len(gs) > 0
    BY <1>1, <1>2, EmptySeq
  <2>2. gs[1] = fs[1]
    BY <1>1, <2>1
  <2> QED BY <1>2, <2>2 DEF BottomOK, gs
<1>3. CASE gs = <<>>
  <2>1. Len(fs) = 1
    BY <1>1, <1>3, EmptySeq
  <2> QED BY <1>3, <2>1 DEF BottomOK, gs
<1> QED BY <1>2, <1>3

(* Code that changes the values of its scope and its own variables.        *)
LEMMA StayInv ==
  ASSUME IInv, mode = "run", UNCHANGED <<stackBase, localBase, fun, frames, threw>>, mode' = "run",
         stack' \in Stacks, local' \in Stacks, LocalsOK(frames, local', localBase, fun),
         stackBase <= Len(stack'), overdrawn' \in BOOLEAN,
         overdrawn' \/ (~ overdrawn /\ SameUpTo(stack, stack', stackBase))
  PROVE  IInv'
<1>1. /\ frames \in Seq(FrameType) /\ frames # <<>> /\ stackBase \in Nat /\ Len(stack) \in Nat
      /\ Len(stack') \in Nat
  BY Running, LenProperties DEF Stacks
<1>2. TypeOK'
  BY <1>1 DEF IInv, TypeOK, Stacks
<1>3. overdrawn' \/ ValuesOK(frames, stack', stackBase)
  <2>1. CASE overdrawn'
    BY <2>1
  <2>2. CASE ~ overdrawn'
    <3>1. ValuesOK(frames, stack, stackBase)
      BY <2>2 DEF IInv
    <3> QED BY <1>1, <2>2, <3>1, ValuesKeep
  <2> QED BY <2>1, <2>2
<1>4. BottomOK(frames, stackBase, local', localBase, fun)
  BY <1>1 DEF IInv, BottomOK
<1> QED BY <1>2, <1>3, <1>4 DEF IInv

LEMMA ThrowInv == ASSUME IInv, Throw PROVE IInv'
<1>1. /\ mode = "run" /\ mode' = "throw" /\ threw' \in {threw, threw \cup {Level}} /\ TypeOK
      /\ UNCHANGED <<stack, stackBase, local, localBase, fun, frames, overdrawn>>
  BY DEF IInv, Throw, RunsCode, Raise, RaiseIn
<1>2. ThrowsOK(frames, "throw", threw')
  BY <1>1, ThrowsRaise DEF IInv
<1>3. TypeOK'
  BY <1>1, LevelProps DEF TypeOK
<1> QED BY <1>1, <1>2, <1>3 DEF IInv

LEMMA PushImmediateInv == ASSUME IInv, PushImmediate PROVE IInv'
<1>1. PICK v \in Values : stack' = Append(stack, v)
  BY DEF PushImmediate
<1>2. /\ mode = "run" /\ mode' = "run"
      /\ UNCHANGED <<threw, overdrawn, stackBase, local, localBase, fun, frames>>
  BY DEF PushImmediate, RunsCode, Go, locals
<1>3. /\ stack \in Stacks /\ local \in Stacks /\ stackBase \in Nat /\ Len(stack) \in Nat
      /\ stackBase <= Len(stack) /\ overdrawn \in BOOLEAN
  BY <1>2, Running
<1>4. /\ stack' \in Stacks /\ Len(stack') = Len(stack) + 1
      /\ \A k \in 1 .. Len(stack) : stack'[k] = stack[k]
  BY <1>1, <1>3, AppendOf DEF Stacks, AllValues
<1>5. SameUpTo(stack, stack', stackBase) /\ stackBase <= Len(stack')
  BY <1>3, <1>4 DEF SameUpTo
<1>6. LocalsOK(frames, local', localBase, fun)
  BY <1>2 DEF IInv
<1> QED BY <1>2, <1>3, <1>4, <1>5, <1>6, StayInv

LEMMA PushLocalInv == ASSUME IInv, PushLocal PROVE IInv'
<1>1. PICK i \in Variables : stack' = Append(stack, local[localBase + i])
  BY DEF PushLocal
<1>2. /\ mode = "run" /\ mode' = "run"
      /\ UNCHANGED <<threw, overdrawn, stackBase, local, localBase, fun, frames>>
  BY DEF PushLocal, RunsCode, Go, locals
<1>3. /\ stack \in Stacks /\ local \in Stacks /\ stackBase \in Nat /\ Len(stack) \in Nat
      /\ stackBase <= Len(stack) /\ overdrawn \in BOOLEAN /\ localBase \in Nat /\ fun \in Functions
      /\ frames \in Seq(FrameType)
  BY <1>2, Running
<1>4. LocalsOK(frames, local, localBase, fun)
  BY DEF IInv
<1>5. local[localBase + i] \in AllValues
  BY <1>3, <1>4, LocalsBind, ZeroValue DEF Variables
<1>6. /\ stack' \in Stacks /\ Len(stack') = Len(stack) + 1
      /\ \A k \in 1 .. Len(stack) : stack'[k] = stack[k]
  BY <1>1, <1>3, <1>5, AppendOf DEF Stacks
<1>7. SameUpTo(stack, stack', stackBase) /\ stackBase <= Len(stack')
  BY <1>3, <1>6 DEF SameUpTo
<1> QED BY <1>2, <1>3, <1>4, <1>6, <1>7, StayInv

(* n values are popped that are above the base.                            *)
LEMMA PoppedProps ==
  ASSUME IInv, mode = "run", NEW n \in Nat, Enough(n)
  PROVE  /\ Popped(n) \in Stacks /\ Len(Popped(n)) = Len(stack) - n
         /\ stackBase <= Len(Popped(n)) /\ SameUpTo(stack, Popped(n), stackBase)
         /\ n <= Len(stack)
<1>1. /\ stack \in Stacks /\ stackBase \in Nat /\ Len(stack) \in Nat /\ Len(stack) - stackBase >= n
  BY Running DEF Enough, Depth
<1>2. Len(stack) - n \in Nat /\ Len(stack) - n <= Len(stack) /\ stackBase <= Len(stack) - n
  BY <1>1
<1>3. /\ Popped(n) \in Stacks /\ Len(Popped(n)) = Len(stack) - n
      /\ \A k \in 1 .. Len(stack) - n : Popped(n)[k] = stack[k]
  BY <1>1, <1>2, FirstOf DEF Popped, Stacks
<1> QED BY <1>1, <1>2, <1>3 DEF SameUpTo

LEMMA BindLocalInv == ASSUME IInv, BindLocal PROVE IInv'
<1>1. CASE ~ Enough(1)
  BY <1>1, ThrowInv DEF BindLocal
<1>2. CASE Enough(1)
  <2>1. PICK i \in Variables : local' = [local EXCEPT ![localBase + i] = stack[Len(stack)]]
    BY <1>2 DEF BindLocal
  <2>2. /\ mode = "run" /\ mode' = "run" /\ stack' = Popped(1)
        /\ UNCHANGED <<threw, overdrawn, stackBase, localBase, fun, frames>>
    BY <1>2 DEF BindLocal, RunsCode, Go
  <2>3. /\ stack \in Stacks /\ local \in Stacks /\ stackBase \in Nat /\ Len(stack) \in Nat
        /\ overdrawn \in BOOLEAN /\ localBase \in Nat /\ fun \in Functions
        /\ frames \in Seq(FrameType)
    BY <2>2, Running
  <2>4. /\ stack' \in Stacks /\ stackBase <= Len(stack')
        /\ SameUpTo(stack, stack', stackBase) /\ 1 <= Len(stack)
    BY <1>2, <2>2, PoppedProps
  <2>5. stack[Len(stack)] \in AllValues
    BY <2>3, <2>4, ElementOfSeq DEF Stacks
  <2>6. LocalsOK(frames, local', localBase, fun) /\ local' \in Stacks
    BY <2>1, <2>3, <2>5, LocalsBind DEF IInv, Variables
  <2> QED BY <2>2, <2>3, <2>4, <2>6, StayInv
<1> QED BY <1>1, <1>2

LEMMA ApplyPrimInv == ASSUME IInv, NEW n \in Takes, ApplyPrim(n) PROVE IInv'
<1>1. CASE ~ Enough(n)
  BY <1>1, ThrowInv DEF ApplyPrim
<1>2. CASE Enough(n)
  <2>1. /\ mode = "run" /\ mode' = "run" /\ stack' = Append(Popped(n), Zero)
        /\ UNCHANGED <<threw, overdrawn, stackBase, local, localBase, fun, frames>>
    BY <1>2 DEF ApplyPrim, RunsCode, Go, locals
  <2>2. /\ local \in Stacks /\ stackBase \in Nat /\ overdrawn \in BOOLEAN /\ Len(stack) \in Nat
    BY <2>1, Running
  <2>3. n \in Nat
    BY MachineAssumption
  <2>4. /\ Popped(n) \in Stacks /\ Len(Popped(n)) = Len(stack) - n
        /\ stackBase <= Len(Popped(n)) /\ SameUpTo(stack, Popped(n), stackBase)
    BY <1>2, <2>1, <2>3, PoppedProps
  <2>5. /\ stack' \in Stacks /\ Len(stack') = Len(Popped(n)) + 1 /\ Len(Popped(n)) \in Nat
        /\ \A k \in 1 .. Len(Popped(n)) : stack'[k] = Popped(n)[k]
    BY <2>1, <2>4, ZeroValue, AppendOf DEF Stacks
  <2>6. SameUpTo(stack, stack', stackBase) /\ stackBase <= Len(stack')
    BY <2>2, <2>4, <2>5 DEF SameUpTo
  <2>7. LocalsOK(frames, local', localBase, fun)
    BY <2>1 DEF IInv
  <2> QED BY <2>1, <2>2, <2>5, <2>6, <2>7, StayInv
<1> QED BY <1>1, <1>2

(* The values of the scope go.                                             *)
LEMMA ClearedProps ==
  ASSUME IInv, mode \in {"run", "throw"}
  PROVE  /\ Cleared \in Stacks /\ Len(Cleared) = stackBase
         /\ SameUpTo(stack, Cleared, stackBase)
<1>1. stack \in Stacks /\ stackBase \in Nat /\ Len(stack) \in Nat /\ stackBase <= Len(stack)
  BY Running
<1>2. /\ Cleared \in Stacks /\ Len(Cleared) = stackBase
      /\ \A k \in 1 .. stackBase : Cleared[k] = stack[k]
  BY <1>1, FirstOf DEF Cleared, Stacks
<1> QED BY <1>1, <1>2 DEF SameUpTo

LEMMA ClearInv == ASSUME IInv, Clear PROVE IInv'
<1>1. /\ mode = "run" /\ mode' = "run" /\ stack' = Cleared
      /\ UNCHANGED <<threw, overdrawn, stackBase, local, localBase, fun, frames>>
  BY DEF Clear, RunsCode, Go, locals, Cleared
<1>2. local \in Stacks /\ stackBase \in Nat /\ overdrawn \in BOOLEAN
  BY <1>1, Running
<1>3. LocalsOK(frames, local', localBase, fun)
  BY <1>1 DEF IInv
<1> QED BY <1>1, <1>2, <1>3, ClearedProps, StayInv

-----------------------------------------------------------------------------
(* Entering frames                                                         *)

(* The arguments and the variables of a function that is called.           *)
LEMMA RunParts ==
  ASSUME NEW f \in Functions, NEW s \in Stacks, NumArgs[f] <= Len(s)
  PROVE  LET n == NumArgs[f]
             rest == First(s, Len(s) - n)
             zeros == [i \in 1 .. NumLocals[f] - n |-> Zero]
         IN  /\ rest \in Stacks /\ Len(rest) = Len(s) - n /\ Len(rest) \in Nat
             /\ SameUpTo(s, rest, Len(rest)) /\ Len(s) \in Nat
             /\ Last(s, n) \in Stacks /\ zeros \in Stacks
             /\ Len(Last(s, n) \o zeros) = NumLocals[f]
<1> DEFINE n == NumArgs[f]
           rest == First(s, Len(s) - n)
           zeros == [i \in 1 .. NumLocals[f] - n |-> Zero]
<1>1. n \in Nat /\ NumLocals[f] \in Nat /\ n <= NumLocals[f] /\ Len(s) \in Nat /\ n <= Len(s)
  BY FunNumbers, LenProperties DEF Stacks
<1>2. /\ rest \in Stacks /\ Len(rest) = Len(s) - n /\ Len(rest) \in Nat
      /\ \A k \in 1 .. Len(rest) : rest[k] = s[k]
  <2>1. Len(s) - n \in Nat /\ Len(s) - n <= Len(s)
    BY <1>1
  <2> QED BY <2>1, FirstOf DEF Stacks
<1>3. zeros \in Stacks /\ Len(zeros) = NumLocals[f] - n
  <2>1. NumLocals[f] - n \in Nat
    BY <1>1
  <2> HIDE DEF n
  <2> QED BY <2>1, ZeroValue DEF Stacks
<1>4. Last(s, n) \in Stacks /\ Len(Last(s, n)) = n
  <2>1. \A i \in Len(s) - n + 1 .. Len(s) : s[i] \in AllValues
    BY <1>1, ElementOfSeq DEF Stacks
  <2>2. Len(s) - n + 1 \in Int /\ Len(s) \in Int
    BY <1>1
  <2> DEFINE m == Len(s) - n + 1
  <2>3. /\ SubSeq(s, m, Len(s)) \in Seq(AllValues)
        /\ Len(SubSeq(s, m, Len(s))) = IF m <= Len(s) THEN Len(s) - m + 1 ELSE 0
    <3> HIDE DEF m
    <3>1. m \in Int /\ \A i \in m .. Len(s) : s[i] \in AllValues
      BY <2>1, <2>2 DEF m
    <3> QED BY <2>2, <3>1, SubSeqProperties
  <2>4. Len(SubSeq(s, m, Len(s))) = n
    BY <1>1, <2>3
  <2> QED BY <2>3, <2>4 DEF Last, Stacks
<1>5. Len(Last(s, n) \o zeros) = NumLocals[f]
  <2> HIDE DEF zeros
  <2>1. Len(Last(s, n) \o zeros) = Len(Last(s, n)) + Len(zeros)
    BY <1>3, <1>4, ConcatProperties DEF Stacks
  <2> QED BY <1>1, <1>3, <1>4, <2>1
<1>6. SameUpTo(s, rest, Len(rest))
  BY <1>1, <1>2 DEF SameUpTo
<1> QED BY <1>1, <1>2, <1>3, <1>4, <1>5, <1>6

(* The frame of a call.                                                    *)
CallFrame(b, rest) == [Frame("fun", 0) EXCEPT !.base = b, !.below = rest]
LEMMA CallFrameProps ==
  ASSUME TypeOK, NEW b \in Nat, NEW rest \in Stacks
  PROVE  LET fr == CallFrame(b, rest)
         IN  /\ fr \in FrameType /\ fr.kind = "fun" /\ fr.base = b /\ fr.lbase = localBase
             /\ fr.fun = fun /\ fr.below = rest /\ fr.callers = local
<1> DEFINE r0 == First(stack, 0)
           f0 == [kind |-> "fun", base |-> stackBase, lbase |-> localBase, fun |-> fun,
                  below |-> r0, callers |-> local]
           f1 == [f0 EXCEPT !.base = b]
           f2 == [f1 EXCEPT !.below = rest]
<1>1. local \in Stacks /\ localBase \in Nat /\ fun \in Functions
  BY DEF TypeOK, Stacks
<1>2. f1 = [kind |-> "fun", base |-> b, lbase |-> localBase, fun |-> fun,
            below |-> r0, callers |-> local]
  <2> HIDE DEF r0
  <2> QED OBVIOUS
<1>3. f2 = [kind |-> "fun", base |-> b, lbase |-> localBase, fun |-> fun,
            below |-> rest, callers |-> local]
  <2> HIDE DEF r0, f1
  <2> QED BY <1>2
<1>4. CallFrame(b, rest) = f2
  <2>1. Frame("fun", 0) = f0
    BY DEF Frame
  <2> HIDE DEF f0
  <2> QED BY <2>1 DEF CallFrame
<1> HIDE DEF f2
<1> QED BY <1>1, <1>3, <1>4 DEF FrameType, Kinds

(* A function is called on top of frames that are in order with the stack  *)
(* s as it then is and the base b to go back to.                           *)
LEMMA RunInv ==
  ASSUME TypeOK, NEW f \in Functions, NEW s \in Stacks, NEW b \in Nat,
         NEW outer \in Seq(FrameType), outer # <<>>,
         RunOn(f, s, b, outer), mode' = "run", overdrawn' \in BOOLEAN, threw' \subseteq Nat,
         NumArgs[f] <= Len(s), b <= Len(s) - NumArgs[f],
         BottomOK(outer, stackBase, local, localBase, fun),
         LocalsOK(outer, local, localBase, fun), BasesOK(outer, b),
         overdrawn' \/ ValuesOK(outer, s, b), ThrowsOK(outer, "run", threw')
  PROVE  IInv'
<1> DEFINE n == NumArgs[f]
           rest == First(s, Len(s) - n)
           args == Last(s, n)
           zeros == [i \in 1 .. NumLocals[f] - n |-> Zero]
           new == args \o zeros
           fr == CallFrame(b, rest)
<1>1. /\ rest \in Stacks /\ Len(rest) = Len(s) - n /\ Len(rest) \in Nat
      /\ SameUpTo(s, rest, Len(rest)) /\ Len(s) \in Nat
      /\ args \in Stacks /\ zeros \in Stacks /\ Len(new) = NumLocals[f]
  BY RunParts
<1>2. /\ local' = (local \o args) \o zeros
      /\ localBase' = Len(local) /\ stack' = rest /\ stackBase' = Len(rest) /\ fun' = f
      /\ frames' = Append(outer, fr)
  BY DEF RunOn, CallFrame
<1>3. local \in Stacks /\ localBase \in Nat /\ fun \in Functions /\ Len(local) \in Nat
  BY LenProperties DEF TypeOK, Stacks
<1> HIDE DEF rest, args, zeros
<1>4. /\ fr \in FrameType /\ fr.kind = "fun" /\ fr.base = b /\ fr.lbase = localBase
      /\ fr.fun = fun /\ fr.below = rest /\ fr.callers = local
  BY <1>1, CallFrameProps
<1> HIDE DEF fr
<1>5. new \in Stacks /\ local' = local \o new /\ local' \in Stacks
  <2>1. new \in Stacks
    BY <1>1, ConcatProperties DEF Stacks
  <2>2. (local \o args) \o zeros = local \o new
    <3>1. local \in Stacks /\ args \in Stacks /\ zeros \in Stacks
      BY <1>1, <1>3
    <3> QED BY ONLY <3>1, Associates
  <2>3. local' = local \o new
    BY <1>2, <2>2
  <2> HIDE DEF new
  <2> QED BY <1>3, <2>1, <2>3, ConcatProperties DEF Stacks
<1> HIDE DEF new, n
<1>6. /\ fr.kind = "fun" /\ fr.base = b /\ fr.lbase = localBase /\ fr.fun = fun
      /\ fr.below = rest /\ fr.callers = local
  BY <1>4
<1>7. frames' \in Seq(FrameType) /\ frames' # <<>>
  BY <1>2, <1>4, AppendOf
<1>8. TypeOK'
  BY <1>1, <1>2, <1>3, <1>5, <1>7 DEF TypeOK, FrameType, Stacks
<1>9. BottomOK(frames', stackBase', local', localBase', fun')
  BY <1>2, <1>4, BottomPush
<1>10. LocalsOK(frames', local', localBase', fun')
  BY <1>1, <1>2, <1>3, <1>4, <1>5, <1>6, LocalsCall
<1>11. BasesOK(frames', stackBase')
  <2>1. b <= Len(rest) /\ b <= fr.base
    BY <1>1, <1>6 DEF n
  <2> QED BY <1>1, <1>2, <1>4, <1>6, <2>1, BasesPush
<1>12. overdrawn' \/ ValuesOK(frames', stack', stackBase')
  <2> SUFFICES ASSUME ~ overdrawn' PROVE ValuesOK(frames', stack', stackBase')
    OBVIOUS
  <2>1. ValuesOK(outer, s, b) /\ b <= Len(rest)
    BY <1>1 DEF n
  <2>2. SameUpTo(s, rest, b) /\ Begins(rest, fr.below)
    BY <1>1, <1>6, <2>1 DEF SameUpTo, Begins
  <2>3. b <= fr.base /\ fr.base <= Len(fr.below) /\ Len(fr.below) <= Len(rest)
        /\ Len(rest) <= Len(rest)
    BY <1>1, <1>6, <2>1
  <2> QED BY <1>1, <1>2, <1>4, <2>1, <2>2, <2>3, ValuesPush
<1>13. ThrowsOK(frames', "run", threw')
  BY <1>2, <1>4, ThrowsPush
<1>14. stackBase' <= Len(stack')
  BY <1>1, <1>2
<1> QED BY <1>8, <1>9, <1>10, <1>11, <1>12, <1>13, <1>14 DEF IInv

(* The same with the stack and the base of the thread.                     *)
LEMMA RunHereInv ==
  ASSUME IInv, mode \in {"run", "throw"}, NEW f \in Functions,
         NEW outer \in Seq(FrameType), outer # <<>>,
         Run(f, outer), mode' = "run", UNCHANGED <<threw, overdrawn>>, Enough(NumArgs[f]),
         BottomOK(outer, stackBase, local, localBase, fun),
         LocalsOK(outer, local, localBase, fun), BasesOK(outer, stackBase),
         overdrawn \/ ValuesOK(outer, stack, stackBase), ThrowsOK(outer, "run", threw)
  PROVE  IInv'
<1>1. /\ stack \in Stacks /\ Len(stack) \in Nat /\ stackBase \in Nat /\ threw \subseteq Nat
      /\ overdrawn \in BOOLEAN
  BY Running
<1>2. NumArgs[f] <= Len(stack) /\ stackBase <= Len(stack) - NumArgs[f]
  BY <1>1, FunNumbers DEF Enough, Depth
<1>3. RunOn(f, stack, stackBase, outer) /\ TypeOK
  BY DEF Run, IInv
<1> QED BY <1>1, <1>2, <1>3, RunInv

LEMMA CallFunInv == ASSUME IInv, CallFun PROVE IInv'
<1>1. mode = "run"
  BY DEF CallFun, RunsCode
<1>2. PICK f \in Funs : IF Enough(NumArgs[f]) THEN Run(f, frames) /\ Go ELSE Throw
  BY DEF CallFun
<1>3. CASE ~ Enough(NumArgs[f])
  BY <1>2, <1>3, ThrowInv
<1>4. CASE Enough(NumArgs[f])
  <2>1. /\ frames \in Seq(FrameType) /\ frames # <<>> /\ f \in Functions
        /\ Run(f, frames) /\ mode' = "run" /\ UNCHANGED <<threw, overdrawn>>
    BY <1>1, <1>2, <1>4, Running DEF Go, Functions
  <2>2. ThrowsOK(frames, "run", threw) /\ (overdrawn \/ ValuesOK(frames, stack, stackBase))
    BY <1>1 DEF IInv
  <2> QED BY <1>1, <1>4, <2>1, <2>2, RunHereInv DEF IInv
<1> QED BY <1>3, <1>4

(* A frame that keeps the base and what is below n, which is above it.     *)
LEMMA FrameProps ==
  ASSUME IInv, mode \in {"run", "throw"}, NEW kind \in Kinds, NEW n \in Nat, n <= Len(stack)
  PROVE  /\ Frame(kind, n) \in FrameType
         /\ Frame(kind, n).kind = kind /\ Frame(kind, n).base = stackBase
         /\ Frame(kind, n).lbase = localBase
         /\ Len(Frame(kind, n).below) = n /\ Begins(stack, Frame(kind, n).below)
<1>1. /\ stack \in Stacks /\ stackBase \in Nat /\ local \in Stacks /\ localBase \in Nat
      /\ fun \in Functions /\ Len(stack) \in Nat
  BY Running
<1>2. /\ First(stack, n) \in Stacks /\ Len(First(stack, n)) = n
      /\ \A k \in 1 .. n : First(stack, n)[k] = stack[k]
  BY <1>1, FirstOf DEF Stacks
<1>3. Begins(stack, First(stack, n))
  BY <1>1, <1>2 DEF Begins
<1>4. Frame(kind, n) \in FrameType
  BY <1>1, <1>2 DEF Frame, FrameType
<1> QED BY <1>2, <1>3, <1>4 DEF Frame

LEMMA NestedInv == ASSUME IInv, NEW kind \in {"paren", "list"}, Nested(kind) PROVE IInv'
<1> DEFINE fr == Frame(kind, Len(stack))
<1>1. /\ mode = "run" /\ mode' = "run" /\ frames' = Append(frames, fr) /\ stackBase' = Len(stack)
      /\ UNCHANGED <<stack, local, localBase, fun, threw, overdrawn>>
  BY DEF Nested, RunsCode, Go, locals
<1>2. /\ frames \in Seq(FrameType) /\ frames # <<>> /\ Len(stack) \in Nat /\ stackBase \in Nat
      /\ stackBase <= Len(stack) /\ localBase \in Nat
  BY <1>1, Running
<1>3. /\ fr \in FrameType /\ fr.kind = kind /\ fr.base = stackBase /\ fr.lbase = localBase
      /\ Len(fr.below) = Len(stack) /\ Begins(stack, fr.below)
  BY <1>1, <1>2, FrameProps DEF Kinds
<1> HIDE DEF fr
<1>4. frames' \in Seq(FrameType) /\ frames' # <<>>
  BY <1>1, <1>2, <1>3, AppendOf
<1>5. TypeOK'
  BY <1>1, <1>2, <1>4 DEF IInv, TypeOK, FrameType, Stacks
<1>6. BottomOK(frames', stackBase', local', localBase', fun')
  BY <1>1, <1>2, <1>3, BottomPush DEF IInv
<1>7. LocalsOK(frames', local', localBase', fun')
  BY <1>1, <1>2, <1>3, LocalsPush DEF IInv
<1>8. BasesOK(frames', stackBase')
  <2>1. BasesOK(frames, stackBase) /\ stackBase <= fr.base /\ fr.base <= Len(stack)
    BY <1>2, <1>3 DEF IInv
  <2> QED BY <1>1, <1>2, <1>3, <2>1, BasesPush
<1>9. overdrawn' \/ ValuesOK(frames', stack', stackBase')
  <2> SUFFICES ASSUME ~ overdrawn PROVE ValuesOK(frames', stack', stackBase')
    BY <1>1
  <2>1. ValuesOK(frames, stack, stackBase) /\ SameUpTo(stack, stack, stackBase)
    BY <1>2 DEF IInv, SameUpTo
  <2>2. stackBase <= fr.base /\ fr.base <= Len(fr.below) /\ Len(fr.below) <= Len(stack)
        /\ Len(stack) <= Len(stack)
    BY <1>2, <1>3
  <2> QED BY <1>1, <1>2, <1>3, <2>1, <2>2, ValuesPush
<1>10. ThrowsOK(frames', "run", threw')
  BY <1>1, <1>2, <1>3, ThrowsPush DEF IInv
<1> QED BY <1>1, <1>2, <1>5, <1>6, <1>7, <1>8, <1>9, <1>10 DEF IInv

(* The frame of a try, protect or load.                                    *)
LEMMA GuardProps ==
  ASSUME IInv, mode = "run", NEW kind \in {"try", "protect", "load"}
  PROVE  LET fr == Frame(kind, stackBase)
             outer == Append(frames, fr)
         IN  /\ fr \in FrameType /\ fr.kind = kind
             /\ outer \in Seq(FrameType) /\ outer # <<>>
             /\ BottomOK(outer, stackBase, local, localBase, fun)
             /\ LocalsOK(outer, local, localBase, fun) /\ BasesOK(outer, stackBase)
             /\ overdrawn \/ ValuesOK(outer, stack, stackBase)
             /\ ThrowsOK(outer, "run", threw)
<1> DEFINE fr == Frame(kind, stackBase)
           outer == Append(frames, fr)
<1>1. /\ frames \in Seq(FrameType) /\ frames # <<>> /\ Len(stack) \in Nat /\ stackBase \in Nat
      /\ stackBase <= Len(stack) /\ localBase \in Nat
  BY Running
<1>2. kind \in Kinds /\ kind # "fun" /\ kind # "message"
  BY DEF Kinds
<1>3. /\ fr \in FrameType /\ fr.kind = kind /\ fr.base = stackBase /\ fr.lbase = localBase
      /\ Len(fr.below) = stackBase /\ Begins(stack, fr.below)
  BY <1>1, <1>2, FrameProps
<1> HIDE DEF fr
<1>4. outer \in Seq(FrameType) /\ outer # <<>>
  BY <1>1, <1>3, AppendOf
<1>5. BottomOK(outer, stackBase, local, localBase, fun)
  BY <1>1, <1>3, BottomPush DEF IInv
<1>6. LocalsOK(outer, local, localBase, fun)
  BY <1>1, <1>2, <1>3, LocalsPush DEF IInv
<1>7. BasesOK(outer, stackBase)
  <2>1. BasesOK(frames, stackBase) /\ stackBase <= fr.base /\ fr.base <= stackBase
    BY <1>1, <1>3 DEF IInv
  <2> QED BY <1>1, <1>3, <2>1, BasesPush
<1>8. overdrawn \/ ValuesOK(outer, stack, stackBase)
  <2> SUFFICES ASSUME ~ overdrawn PROVE ValuesOK(outer, stack, stackBase)
    OBVIOUS
  <2>1. ValuesOK(frames, stack, stackBase) /\ SameUpTo(stack, stack, stackBase)
    BY <1>1 DEF IInv, SameUpTo
  <2>2. stackBase <= fr.base /\ fr.base <= Len(fr.below) /\ Len(fr.below) <= stackBase
    BY <1>1, <1>3
  <2> QED BY <1>1, <1>3, <2>1, <2>2, ValuesPush
<1>9. ThrowsOK(outer, "run", threw)
  BY <1>1, <1>3, ThrowsPush DEF IInv
<1> QED BY <1>3, <1>4, <1>5, <1>6, <1>7, <1>8, <1>9 DEF fr

LEMMA GuardingInv ==
  ASSUME IInv, NEW kind \in {"try", "protect", "load"}, NEW f \in Functions,
         Guarding(kind, f), kind = "load" => f = Main
  PROVE  IInv'
<1> DEFINE fr == Frame(kind, stackBase)
           outer == Append(frames, fr)
<1>1. /\ mode = "run"
      /\ IF Enough(NumArgs[f]) THEN Run(f, outer) /\ Go
         ELSE /\ RaiseIn(outer) /\ frames' = outer
              /\ UNCHANGED <<stack, stackBase, locals, overdrawn>>
  BY DEF Guarding, RunsCode
<1>2. /\ fr \in FrameType /\ fr.kind = kind
      /\ outer \in Seq(FrameType) /\ outer # <<>>
      /\ BottomOK(outer, stackBase, local, localBase, fun)
      /\ LocalsOK(outer, local, localBase, fun) /\ BasesOK(outer, stackBase)
      /\ overdrawn \/ ValuesOK(outer, stack, stackBase)
      /\ ThrowsOK(outer, "run", threw)
  BY <1>1, GuardProps
<1> HIDE DEF fr
<1>3. CASE Enough(NumArgs[f])
  <2>1. Run(f, outer) /\ mode' = "run" /\ UNCHANGED <<threw, overdrawn>>
    BY <1>1, <1>3 DEF Go
  <2> HIDE DEF outer
  <2> QED BY <1>1, <1>2, <1>3, <2>1, RunHereInv
<1>4. CASE ~ Enough(NumArgs[f])
  <2>1. /\ mode' = "throw" /\ threw' \in {threw, threw \cup {Level}} /\ frames' = outer /\ TypeOK
        /\ UNCHANGED <<stack, stackBase, local, localBase, fun, overdrawn>>
    BY <1>1, <1>4 DEF IInv, RaiseIn, locals
  <2>2. kind # "load"
    <3>1. Depth \in Nat
      BY <1>1, Running
    <3> QED BY <1>4, <3>1, NoneOfMain DEF Enough
  <2>3. ThrowsOK(frames, "run", threw) /\ frames \in Seq(FrameType) /\ stackBase <= Len(stack)
    BY <1>1, Running DEF IInv
  <2>4. ThrowsOK(frames, "throw", threw')
    BY <2>1, <2>3, ThrowsRaise
  <2>5. ThrowsOK(outer, "throw", threw')
    BY <1>2, <2>2, <2>3, <2>4, ThrowsPush
  <2> HIDE DEF outer
  <2>6. TypeOK'
    BY <1>2, <2>1, LevelProps DEF TypeOK, FrameType, Stacks
  <2> QED BY <1>2, <2>1, <2>3, <2>5, <2>6 DEF IInv
<1> QED BY <1>3, <1>4

(* The frames below one that is not a function's.                          *)
LEMMA OuterProps ==
  ASSUME IInv, mode \in {"run", "throw"}, Top.kind # "fun"
  PROVE  /\ Outer \in Seq(FrameType) /\ Outer # <<>>
         /\ BottomOK(Outer, stackBase, local, localBase, fun)
         /\ LocalsOK(Outer, local, localBase, fun) /\ Top.lbase = localBase
         /\ BasesOK(Outer, Top.base)
         /\ Top.kind # "message" => BasesOK(Outer, stackBase) /\ Top.base <= stackBase
         /\ overdrawn \/ ValuesOK(Outer, stack, stackBase)
<1>1. /\ frames \in Seq(FrameType) /\ frames # <<>> /\ stackBase \in Nat /\ localBase \in Nat
  BY Running
<1>2. Outer \in Seq(FrameType)
  BY <1>1, FrontOf DEF Outer
<1>3. Outer # <<>> /\ BottomOK(Outer, stackBase, local, localBase, fun)
  <2>1. BottomOK(frames, stackBase, local, localBase, fun)
    BY DEF IInv
  <2> QED BY <1>1, <2>1, BottomPop DEF Outer, Top
<1>4. LocalsOK(Outer, local, localBase, fun) /\ Top.lbase = localBase
  BY <1>1, LocalsPopScope DEF IInv, Outer, Top
<1>5. /\ BasesOK(Outer, Top.base)
      /\ Top.kind # "message" => BasesOK(Outer, stackBase) /\ Top.base <= stackBase
  <2>1. BasesOK(frames, stackBase)
    BY DEF IInv
  <2> QED BY <1>1, <2>1, BasesPop, BasesPopGuard DEF Outer, Top
<1>6. overdrawn \/ ValuesOK(Outer, stack, stackBase)
  <2>1. overdrawn \/ ValuesOK(frames, stack, stackBase)
    BY DEF IInv
  <2> QED BY <1>1, <2>1, ValuesPopGuard DEF Outer
<1> QED BY <1>2, <1>3, <1>4, <1>5, <1>6

-----------------------------------------------------------------------------
(* Leaving frames                                                          *)

(* A frame goes that leaves the stack and the variables alone.             *)
LEMMA LeaveInv ==
  ASSUME IInv, mode \in {"run", "throw"}, Top.kind \in {"try", "protect", "load"} \cup Handlers,
         frames' = Outer, UNCHANGED <<stack, stackBase, local, localBase, fun, overdrawn>>,
         mode' \in {"run", "throw"}, threw' \subseteq Nat, ThrowsOK(Outer, mode', threw')
  PROVE  IInv'
<1>1. Top.kind # "fun" /\ Top.kind # "message"
  BY DEF Handlers
<1>2. /\ Outer \in Seq(FrameType) /\ Outer # <<>>
      /\ BottomOK(Outer, stackBase, local, localBase, fun)
      /\ LocalsOK(Outer, local, localBase, fun) /\ BasesOK(Outer, stackBase)
      /\ overdrawn \/ ValuesOK(Outer, stack, stackBase)
  BY <1>1, OuterProps
<1>3. TypeOK'
  BY <1>2 DEF IInv, TypeOK, FrameType, Stacks
<1>4. stackBase <= Len(stack)
  BY Running
<1> HIDE DEF Outer
<1> QED BY <1>2, <1>3, <1>4 DEF IInv

(* load returns: what has passed through it is still to be thrown again by *)
(* a handler inside it, and none is left.                                  *)
LEMMA ThrowsReturned ==
  ASSUME NEW fs \in Seq(FrameType), fs # <<>>, NEW th,
         ThrowsOK(fs, "run", th), fs[Len(fs)].kind = "load"
  PROVE  ThrowsOK(First(fs, Len(fs) - 1), "run", th)
<1> DEFINE n == Len(fs)
<1>1. n \in Nat /\ n > 0
  BY FrontOf
<1>2. ThrowsOK(fs, "throw", th)
  BY ThrowsAgain
<1>3. th \ {n} = th
  BY ThrowsAtLoad
<1> QED BY <1>2, <1>3, ThrowsReported

LEMMA GuardReturnsInv == ASSUME IInv, GuardReturns PROVE IInv'
<1>1. /\ mode = "run" /\ Top.kind \in {"try", "load"} /\ frames' = Outer /\ mode' = "run"
      /\ UNCHANGED <<stack, stackBase, local, localBase, fun, threw, overdrawn>>
  BY DEF GuardReturns, Go, locals
<1>2. frames \in Seq(FrameType) /\ frames # <<>> /\ threw \subseteq Nat
  BY <1>1, Running
<1>3. ThrowsOK(frames, "run", threw)
  BY <1>1 DEF IInv
<1>4. ThrowsOK(Outer, "run", threw)
  <2>1. CASE Top.kind = "load"
    BY <1>2, <1>3, <2>1, ThrowsReturned DEF Outer, Top
  <2>2. CASE Top.kind = "try"
    BY <1>2, <1>3, <2>2, ThrowsPop DEF Handlers, Outer, Top
  <2> QED BY <1>1, <2>1, <2>2
<1> QED BY <1>1, <1>2, <1>4, LeaveInv

LEMMA ProtectReturnsInv == ASSUME IInv, ProtectReturns PROVE IInv'
<1>1. mode = "run" /\ Top.kind = "protect" /\ Handle(Outer)
  BY DEF ProtectReturns
<1>2. PICK g \in Funs :
        IF Enough(NumArgs[g]) THEN Run(g, Outer) /\ Go
        ELSE RaiseIn(Outer) /\ frames' = Outer /\ UNCHANGED <<stack, stackBase, locals, overdrawn>>
  BY <1>1 DEF Handle
<1>3. frames \in Seq(FrameType) /\ frames # <<>> /\ threw \subseteq Nat /\ g \in Functions
      /\ ThrowsOK(frames, "run", threw) /\ TypeOK
  BY <1>1, Running DEF Functions, IInv
<1>4. CASE Enough(NumArgs[g])
  <2>1. Run(g, Outer) /\ mode' = "run" /\ UNCHANGED <<threw, overdrawn>>
    BY <1>2, <1>4 DEF Go
  <2>2. ThrowsOK(Outer, "run", threw)
    BY <1>1, <1>3, ThrowsPop DEF Handlers, Outer, Top
  <2> QED BY <1>1, <1>3, <1>4, <2>1, <2>2, OuterProps, RunHereInv
<1>5. CASE ~ Enough(NumArgs[g])
  <2>1. /\ mode' = "throw" /\ threw' \in {threw, threw \cup {Level}} /\ frames' = Outer
        /\ UNCHANGED <<stack, stackBase, local, localBase, fun, overdrawn>>
    BY <1>2, <1>5 DEF RaiseIn, locals
  <2>2. ThrowsOK(frames, "throw", threw') /\ threw' \subseteq Nat
    BY <1>3, <2>1, ThrowsRaise, LevelProps
  <2>3. ThrowsOK(Outer, "throw", threw')
    BY <1>1, <1>3, <2>2, ThrowsPop DEF Outer, Top
  <2> QED BY <1>1, <2>1, <2>2, <2>3, LeaveInv
<1> QED BY <1>4, <1>5

LEMMA RethrowInv == ASSUME IInv, Rethrow PROVE IInv'
<1>1. /\ mode = "run" /\ Top.kind \in Handlers /\ mode' = "throw" /\ frames' = Outer
      /\ UNCHANGED <<stack, stackBase, local, localBase, fun, threw, overdrawn>>
  BY DEF Rethrow, locals
<1>2. frames \in Seq(FrameType) /\ frames # <<>> /\ threw \subseteq Nat
      /\ ThrowsOK(frames, "run", threw)
  BY <1>1, Running DEF IInv
<1>3. ThrowsOK(frames, "throw", threw)
  BY <1>2, ThrowsAgain
<1>4. ThrowsOK(Outer, "throw", threw)
  BY <1>1, <1>2, <1>3, ThrowsPop DEF Handlers, Outer, Top
<1> QED BY <1>1, <1>2, <1>4, LeaveInv

LEMMA UnwindCatchInv == ASSUME IInv, UnwindCatch PROVE IInv'
<1>1. /\ mode = "throw" /\ Top.kind \in Handlers /\ mode' = "throw" /\ frames' = Outer
      /\ UNCHANGED <<stack, stackBase, local, localBase, fun, threw, overdrawn>>
  BY DEF UnwindCatch, locals
<1>2. frames \in Seq(FrameType) /\ frames # <<>> /\ threw \subseteq Nat
      /\ ThrowsOK(frames, "throw", threw)
  BY <1>1, Running DEF IInv
<1>3. ThrowsOK(Outer, "throw", threw)
  BY <1>1, <1>2, ThrowsPop DEF Handlers, Outer, Top
<1> QED BY <1>1, <1>2, <1>3, LeaveInv

LEMMA LoadFailsInv == ASSUME IInv, LoadFails PROVE IInv'
<1>1. /\ mode = "throw" /\ Top.kind = "load" /\ mode' = "run" /\ frames' = Outer
      /\ threw' = threw \ {Len(frames)}
      /\ UNCHANGED <<stack, stackBase, local, localBase, fun, overdrawn>>
  BY DEF LoadFails, locals
<1>2. frames \in Seq(FrameType) /\ frames # <<>> /\ threw \subseteq Nat
      /\ ThrowsOK(frames, "throw", threw)
  BY <1>1, Running DEF IInv
<1>3. ThrowsOK(Outer, "run", threw') /\ threw' \subseteq Nat
  BY <1>1, <1>2, ThrowsReported DEF Outer, Top
<1> QED BY <1>1, <1>3, LeaveInv

(* A try or protect whose function has thrown applies its handler.         *)
LEMMA CatchInv == ASSUME IInv, Catch PROVE IInv'
<1> DEFINE fr == [Top EXCEPT !.kind = IF @ = "try" THEN "recover" ELSE "catch"]
           outer == Append(Outer, fr)
<1>1. mode = "throw" /\ Top.kind \in {"try", "protect"} /\ Handle(outer)
  BY DEF Catch
<1>2. /\ frames \in Seq(FrameType) /\ frames # <<>> /\ threw \subseteq Nat /\ Top \in FrameType
      /\ ThrowsOK(frames, "throw", threw) /\ TypeOK /\ stack \in Stacks /\ Len(stack) \in Nat
      /\ stackBase \in Nat /\ stackBase <= Len(stack) /\ localBase \in Nat
  BY <1>1, Running DEF IInv
<1>3. /\ fr \in FrameType /\ fr.kind \in Handlers /\ fr.base = Top.base /\ fr.lbase = Top.lbase
      /\ fr.below = Top.below /\ Top.base \in Nat
  BY <1>2 DEF Handlers, FrameType, Kinds
<1> HIDE DEF fr
<1>4. /\ Outer \in Seq(FrameType) /\ Outer # <<>>
      /\ BottomOK(Outer, stackBase, local, localBase, fun)
      /\ LocalsOK(Outer, local, localBase, fun) /\ Top.lbase = localBase
      /\ BasesOK(Outer, Top.base) /\ Top.base <= stackBase
  BY <1>1, OuterProps
<1>5. outer \in Seq(FrameType) /\ outer # <<>>
  BY <1>3, <1>4, AppendOf
<1>6. BottomOK(outer, stackBase, local, localBase, fun)
  BY <1>3, <1>4, BottomPush
<1>7. LocalsOK(outer, local, localBase, fun)
  BY <1>2, <1>3, <1>4, LocalsPush DEF Handlers
<1>8. BasesOK(outer, stackBase)
  <2>1. Top.base <= fr.base /\ fr.base <= stackBase
    BY <1>3, <1>4
  <2> QED BY <1>2, <1>3, <1>4, <2>1, BasesPush
<1>9. overdrawn \/ ValuesOK(outer, stack, stackBase)
  <2> SUFFICES ASSUME ~ overdrawn PROVE ValuesOK(outer, stack, stackBase)
    OBVIOUS
  <2>1. ValuesOK(frames, stack, stackBase) /\ SameUpTo(stack, stack, stackBase)
    BY <1>2 DEF IInv, SameUpTo
  <2>2. ValuesOK(Outer, stack, Top.base)
    BY <1>2, <2>1, ValuesPop DEF Outer, Top
  <2>3. /\ Begins(stack, fr.below) /\ Len(fr.below) <= stackBase /\ fr.base <= Len(fr.below)
    <3>1. Len(frames) \in 1 .. Len(frames)
      BY <1>2, FrontOf
    <3> QED BY <1>3, <2>1, <3>1 DEF ValuesOK, Top
  <2>4. SameUpTo(stack, stack, Top.base) /\ Top.base <= fr.base
    BY <1>2, <1>3, <1>4 DEF SameUpTo
  <2> QED BY <1>2, <1>3, <1>4, <2>2, <2>3, <2>4, ValuesPush
<1>10. PICK g \in Funs :
         IF Enough(NumArgs[g]) THEN Run(g, outer) /\ Go
         ELSE RaiseIn(Outer) /\ frames' = Outer /\ UNCHANGED <<stack, stackBase, locals, overdrawn>>
  BY <1>1 DEF Handle
<1>11. CASE Enough(NumArgs[g])
  <2>1. Run(g, outer) /\ mode' = "run" /\ UNCHANGED <<threw, overdrawn>> /\ g \in Functions
    BY <1>10, <1>11 DEF Go, Functions
  <2>2. ThrowsOK(outer, "run", threw)
    BY <1>1, <1>2, <1>3, ThrowsCatch DEF Outer, Top
  <2> HIDE DEF outer
  <2> QED BY <1>1, <1>5, <1>6, <1>7, <1>8, <1>9, <1>11, <2>1, <2>2, RunHereInv
<1>12. CASE ~ Enough(NumArgs[g])
  <2>1. /\ mode' = "throw" /\ threw' \in {threw, threw \cup {Level}} /\ frames' = Outer
        /\ UNCHANGED <<stack, stackBase, local, localBase, fun, overdrawn>>
    BY <1>10, <1>12 DEF RaiseIn, locals
  <2>2. ThrowsOK(frames, "throw", threw') /\ threw' \subseteq Nat
    BY <1>2, <2>1, ThrowsRaise, LevelProps
  <2>3. ThrowsOK(Outer, "throw", threw')
    BY <1>1, <1>2, <2>2, ThrowsPop DEF Outer, Top
  <2> QED BY <1>1, <2>1, <2>2, <2>3, LeaveInv
<1> QED BY <1>11, <1>12

(* A function's frame goes, as it returns or as an exception passes.       *)
LEMMA LeaveFunInv ==
  ASSUME IInv, NEW m \in {"run", "throw"}, mode = m, Top.kind = "fun",
         PopFunContext, frames' = Outer, UNCHANGED <<stack, threw, overdrawn>>,
         mode' = IF Outer = <<>> THEN "idle" ELSE m
  PROVE  IInv'
<1>1. /\ frames \in Seq(FrameType) /\ frames # <<>> /\ Top \in FrameType
      /\ stack \in Stacks /\ Len(stack) \in Nat /\ stackBase \in Nat /\ stackBase <= Len(stack)
      /\ local \in Stacks /\ localBase \in Nat /\ fun \in Functions /\ threw \subseteq Nat
      /\ overdrawn \in BOOLEAN
  BY Running
<1>2. /\ local' = First(local, Len(local) - NumLocals[fun])
      /\ fun' = Top.fun /\ stackBase' = Top.base /\ localBase' = Top.lbase
  BY DEF PopFunContext
<1>3. /\ Top.base \in Nat /\ Top.lbase \in Nat /\ Top.fun \in Functions /\ Top.callers \in Stacks
  BY <1>1 DEF FrameType
<1>4. Outer \in Seq(FrameType)
  BY <1>1, FrontOf DEF Outer
<1>5. LocalsOK(Outer, local', localBase', fun') /\ local' = Top.callers
  <2>1. LocalsOK(frames, local, localBase, fun)
    BY DEF IInv
  <2> QED BY <1>1, <1>2, <2>1, LocalsPopFun DEF Outer, Top
<1>6. BottomOK(Outer, stackBase', local', localBase', fun')
  <2>1. BottomOK(frames, stackBase, local, localBase, fun)
    BY DEF IInv
  <2>2. CASE Outer # <<>>
    BY <1>1, <2>1, <2>2, BottomPop DEF Outer
  <2>3. CASE Outer = <<>>
    <3>1. Top.base = 0 /\ Top.lbase = 0 /\ Top.fun = Main /\ Top.callers = <<>>
      BY <1>1, <2>1, <2>3, BottomPop DEF Outer, Top
    <3> QED BY <1>2, <1>5, <2>3, <3>1 DEF BottomOK
  <2> QED BY <2>2, <2>3
<1>7. BasesOK(Outer, stackBase') /\ Top.base <= stackBase
  <2>1. BasesOK(frames, stackBase)
    BY DEF IInv
  <2> QED BY <1>1, <1>2, <2>1, BasesPop DEF Outer, Top
<1>8. overdrawn \/ ValuesOK(Outer, stack, stackBase')
  <2> SUFFICES ASSUME ~ overdrawn PROVE ValuesOK(Outer, stack, stackBase')
    OBVIOUS
  <2>1. ValuesOK(frames, stack, stackBase) /\ SameUpTo(stack, stack, stackBase)
    BY <1>1 DEF IInv, SameUpTo
  <2> QED BY <1>1, <1>2, <2>1, ValuesPop DEF Outer, Top
<1>9. ThrowsOK(Outer, m, threw)
  <2>1. ThrowsOK(frames, m, threw)
    BY DEF IInv
  <2> QED BY <1>1, <2>1, ThrowsPop DEF Handlers, Outer, Top
<1>10. TypeOK'
  <2>1. (mode' # "idle") = (Outer # <<>>) /\ mode' \in {"idle", "run", "throw", "undefined"}
    OBVIOUS
  <2> HIDE DEF Outer, Top
  <2> QED BY <1>1, <1>2, <1>3, <1>4, <1>5, <2>1 DEF TypeOK, FrameType, Stacks
<1>11. stackBase' <= Len(stack')
  BY <1>1, <1>2, <1>3, <1>7
<1>12. overdrawn' \/ (mode' # "undefined" /\ ValuesOK(frames', stack', stackBase'))
  BY <1>8
<1>13. mode' \in {"run", "throw"} => ThrowsOK(frames', mode', threw')
  BY <1>9
<1>14. frames' = Outer
  OBVIOUS
<1> HIDE DEF Outer
<1> QED BY <1>5, <1>6, <1>7, <1>10, <1>11, <1>12, <1>13, <1>14 DEF IInv

(* A frame goes whose destructor puts the base back.                       *)
LEMMA LeaveScopeInv ==
  ASSUME IInv, NEW m \in {"run", "throw"}, mode = m, Top.kind \in {"paren", "list", "message"},
         frames' = Outer, stackBase' = Top.base,
         UNCHANGED <<local, localBase, fun, threw, overdrawn>>,
         stack' \in Stacks, SameUpTo(stack, stack', stackBase),
         mode' = IF Len(stack') - stackBase' < 0 THEN "undefined" ELSE m
  PROVE  IInv'
<1>1. /\ frames \in Seq(FrameType) /\ frames # <<>> /\ Top \in FrameType
      /\ stack \in Stacks /\ Len(stack) \in Nat /\ stackBase \in Nat /\ stackBase <= Len(stack)
      /\ threw \subseteq Nat /\ overdrawn \in BOOLEAN
  BY Running
<1>2. Top.base \in Nat /\ Len(stack') \in Nat /\ stackBase <= Len(stack')
  BY <1>1, LenProperties DEF FrameType, Stacks, SameUpTo
<1>3. Top.kind # "fun"
  OBVIOUS
<1>4. /\ Outer \in Seq(FrameType) /\ Outer # <<>>
      /\ BottomOK(Outer, stackBase, local, localBase, fun)
      /\ LocalsOK(Outer, local, localBase, fun) /\ BasesOK(Outer, Top.base)
  BY <1>3, OuterProps
<1>5. ASSUME ~ overdrawn PROVE ValuesOK(Outer, stack', Top.base) /\ Top.base <= stackBase
  <2>1. ValuesOK(frames, stack, stackBase)
    BY <1>5 DEF IInv
  <2> QED BY <1>1, <1>2, <2>1, ValuesPop DEF Outer, Top
<1>6. overdrawn' \/ (mode' # "undefined" /\ ValuesOK(frames', stack', stackBase'))
  <2> SUFFICES ASSUME ~ overdrawn PROVE mode' # "undefined" /\ ValuesOK(Outer, stack', Top.base)
    OBVIOUS
  <2>1. ~ (Len(stack') - Top.base < 0)
    BY <1>2, <1>5, <1>1
  <2> QED BY <1>5, <2>1
<1>7. mode' # "undefined" => stackBase' <= Len(stack') /\ mode' = m
  BY <1>2
<1>8. ThrowsOK(Outer, m, threw)
  <2>1. ThrowsOK(frames, m, threw)
    BY DEF IInv
  <2> QED BY <1>1, <2>1, ThrowsPop DEF Handlers, Outer, Top
<1>9. BottomOK(Outer, stackBase', local, localBase, fun)
  BY <1>4 DEF BottomOK
<1>10. frames' = Outer /\ stackBase' = Top.base /\ mode' \in {"undefined", m}
  OBVIOUS
<1> HIDE DEF Outer, Top
<1>11. TypeOK'
  <2>1. /\ (mode' # "idle") = (frames' # <<>>) /\ mode' \in {"idle", "run", "throw", "undefined"}
    BY <1>4, <1>10
  <2> QED BY <1>1, <1>2, <1>4, <1>10, <2>1 DEF IInv, TypeOK, FrameType, Stacks
<1>12. mode' \in {"run", "throw"} => ThrowsOK(frames', mode', threw')
  BY <1>7, <1>8, <1>10
<1> QED BY <1>4, <1>6, <1>7, <1>9, <1>10, <1>11, <1>12 DEF IInv

LEMMA ReturnInv == ASSUME IInv, Return PROVE IInv'
<1>1. mode = "run" /\ Top.kind \in {"fun", "paren", "list"} /\ frames' = Outer
      /\ UNCHANGED <<threw, overdrawn>> /\ mode' = IF Outer = <<>> THEN "idle" ELSE "run"
  BY DEF Return, RunsCode
<1>2. CASE Top.kind = "fun"
  <2>1. PopFunContext /\ UNCHANGED stack
    BY <1>2 DEF Return
  <2> QED BY <1>1, <1>2, <2>1, LeaveFunInv
<1>3. CASE Top.kind \in {"paren", "list"}
  <2>1. /\ stackBase' = Top.base /\ UNCHANGED <<local, localBase, fun>>
        /\ stack' = IF Top.kind = "paren" THEN stack ELSE Append(Cleared, Aggregate)
    BY <1>3 DEF Return, locals
  <2>2. /\ stack \in Stacks /\ Len(stack) \in Nat /\ stackBase \in Nat /\ stackBase <= Len(stack)
        /\ frames \in Seq(FrameType) /\ frames # <<>>
    BY <1>1, Running
  <2>3. stack' \in Stacks /\ Len(stack') \in Nat /\ SameUpTo(stack, stack', stackBase)
    <3>1. CASE Top.kind = "paren"
      BY <2>1, <2>2, <3>1 DEF SameUpTo
    <3>2. CASE Top.kind # "paren"
      <4>1. /\ Cleared \in Stacks /\ Len(Cleared) = stackBase
            /\ SameUpTo(stack, Cleared, stackBase)
        BY <1>1, ClearedProps
      <4>2. /\ stack' \in Stacks /\ Len(stack') = stackBase + 1
            /\ \A k \in 1 .. stackBase : stack'[k] = Cleared[k]
        BY <2>1, <3>2, <4>1, ZeroValue, AppendOf DEF Stacks
      <4> QED BY <2>2, <4>1, <4>2 DEF SameUpTo
    <3> QED BY <3>1, <3>2
  <2>4. Top.kind # "fun" /\ Top.kind # "message" /\ Top.base \in Nat
    <3>1. Top \in FrameType
      BY <1>1, Running
    <3> QED BY <1>3, <3>1 DEF FrameType
  <2>5. Outer # <<>> /\ Top.base <= stackBase
    BY <1>1, <2>4, OuterProps
  <2>6. mode' = IF Len(stack') - stackBase' < 0 THEN "undefined" ELSE "run"
    <3>1. stackBase <= Len(stack')
      BY <2>3 DEF SameUpTo
    <3> QED BY <1>1, <2>1, <2>2, <2>3, <2>4, <2>5, <3>1
  <2> QED BY <1>1, <1>3, <2>1, <2>3, <2>6, LeaveScopeInv
<1> QED BY <1>1, <1>2, <1>3

LEMMA MessageReturnsInv == ASSUME IInv, MessageReturns PROVE IInv'
<1>1. /\ mode = "run" /\ Top.kind = "message" /\ frames' = Outer /\ stackBase' = Top.base
      /\ stack' = Append(Cleared, Result)
      /\ UNCHANGED <<local, localBase, fun, threw, overdrawn>>
      /\ mode' = IF Wrapped \/ Wrapped' THEN "undefined" ELSE "run"
  BY DEF MessageReturns, locals
<1>2. /\ stack \in Stacks /\ Len(stack) \in Nat /\ stackBase \in Nat /\ stackBase <= Len(stack)
  BY <1>1, Running
<1>3. Result \in AllValues
  <2>1. CASE Depth >= 1
    <3>1. Len(stack) \in 1 .. Len(stack)
      BY <1>2, <2>1 DEF Depth
    <3>2. stack[Len(stack)] \in AllValues
      BY <1>2, <3>1, ElementOfSeq DEF Stacks
    <3> QED BY <2>1, <3>2 DEF Result
  <2>2. CASE ~ (Depth >= 1)
    BY <2>2, ZeroValue DEF Result
  <2> QED BY <2>1, <2>2
<1>4. Cleared \in Stacks /\ Len(Cleared) = stackBase /\ SameUpTo(stack, Cleared, stackBase)
  BY <1>1, ClearedProps
<1>5. /\ stack' \in Stacks /\ Len(stack') = stackBase + 1
      /\ \A k \in 1 .. stackBase : stack'[k] = Cleared[k]
  BY <1>1, <1>3, <1>4, AppendOf DEF Stacks
<1>6. SameUpTo(stack, stack', stackBase)
  BY <1>2, <1>4, <1>5 DEF SameUpTo
<1>7. mode' = IF Len(stack') - stackBase' < 0 THEN "undefined" ELSE "run"
  <2>1. ~ Wrapped
    BY <1>2 DEF Wrapped, Depth
  <2> QED BY <1>1, <2>1 DEF Wrapped, Depth
<1> QED BY <1>1, <1>5, <1>6, <1>7, LeaveScopeInv

-----------------------------------------------------------------------------
(* An exception passes a frame                                             *)

LEMMA UnwindFunInv == ASSUME IInv, UnwindFun PROVE IInv'
BY LeaveFunInv DEF UnwindFun

LEMMA UnwindScopeInv == ASSUME IInv, UnwindScope PROVE IInv'
<1>1. /\ mode = "throw" /\ Top.kind \in {"paren", "list", "message"} /\ frames' = Outer
      /\ stackBase' = Top.base
      /\ stack' = IF Top.kind = "paren" THEN stack ELSE Cleared
      /\ UNCHANGED <<local, localBase, fun, threw, overdrawn>>
      /\ mode' = IF Wrapped \/ Wrapped' THEN "undefined" ELSE "throw"
  BY DEF UnwindScope, PopScope, locals
<1>2. /\ stack \in Stacks /\ Len(stack) \in Nat /\ stackBase \in Nat /\ stackBase <= Len(stack)
  BY <1>1, Running
<1>3. stack' \in Stacks /\ SameUpTo(stack, stack', stackBase)
  <2>1. Cleared \in Stacks /\ SameUpTo(stack, Cleared, stackBase)
    BY <1>1, ClearedProps
  <2>2. SameUpTo(stack, stack, stackBase)
    BY <1>2 DEF SameUpTo
  <2> QED BY <1>1, <1>2, <2>1, <2>2
<1>4. mode' = IF Len(stack') - stackBase' < 0 THEN "undefined" ELSE "throw"
  <2>1. ~ Wrapped
    BY <1>2 DEF Wrapped, Depth
  <2> QED BY <1>1, <2>1 DEF Wrapped, Depth
<1> QED BY <1>1, <1>3, <1>4, LeaveScopeInv

-----------------------------------------------------------------------------
(* Messages                                                                *)

(* Memory outside the stack is touched: nothing is promised any more.      *)
LEMMA UndefinedInv ==
  ASSUME IInv, mode \in {"run", "throw"}, mode' = "undefined", overdrawn' = TRUE,
         UNCHANGED <<stackBase, local, localBase, fun, frames, threw>>, stack' \in Stacks
  PROVE  IInv'
<1>1. frames # <<>>
  BY Running
<1>2. TypeOK'
  BY <1>1 DEF IInv, TypeOK, Stacks
<1> QED BY <1>2 DEF IInv

(* A message with a function makes a frame of its own, and the function's  *)
(* base is above the arguments, wherever they are.                         *)
LEMMA MessageFunInv == ASSUME IInv, MessageFun PROVE IInv'
<1>1. mode = "run"
  BY DEF MessageFun, RunsCode
<1>2. /\ frames \in Seq(FrameType) /\ frames # <<>>
      /\ stack \in Stacks /\ Len(stack) \in Nat /\ stackBase \in Nat /\ stackBase <= Len(stack)
      /\ local \in Stacks /\ localBase \in Nat /\ fun \in Functions /\ threw \subseteq Nat
      /\ overdrawn \in BOOLEAN
  BY <1>1, Running
<1> DEFINE s == Append(Popped(1), Aggregate)
           b(f) == Len(s) - NumArgs[f]
           msg(f) == [Frame("message", 0) EXCEPT !.below = First(s, b(f))]
           outer(f) == Append(frames, msg(f))
<1>3. PICK f \in Funs :
        IF ~ Enough(1) THEN Throw
        ELSE IF b(f) < 0 THEN Undefined
        ELSE /\ RunOn(f, s, b(f), outer(f))
             /\ mode' = "run" /\ UNCHANGED threw
             /\ overdrawn' = (overdrawn \/ b(f) < stackBase)
  BY DEF MessageFun
<1> DEFINE n == b(f)
           fr == msg(f)
<1>4. CASE ~ Enough(1)
  BY <1>3, <1>4, ThrowInv
<1>5. CASE Enough(1) /\ b(f) < 0
  <2>1. Undefined
    BY <1>3, <1>5
  <2> QED BY <1>1, <1>2, <2>1, UndefinedInv DEF Undefined, locals
<1>6. CASE Enough(1) /\ ~ (b(f) < 0)
  <2>1. /\ Popped(1) \in Stacks /\ Len(Popped(1)) = Len(stack) - 1
        /\ stackBase <= Len(Popped(1)) /\ SameUpTo(stack, Popped(1), stackBase)
    BY <1>1, <1>6, PoppedProps
  <2>2. /\ s \in Stacks /\ Len(s) = Len(Popped(1)) + 1
        /\ \A k \in 1 .. Len(Popped(1)) : s[k] = Popped(1)[k]
    BY <2>1, ZeroValue, AppendOf DEF Stacks
  <2>3. SameUpTo(stack, s, stackBase) /\ stackBase <= Len(s) /\ Len(s) \in Nat
    BY <1>2, <2>1, <2>2 DEF SameUpTo
  <2>4. f \in Functions /\ NumArgs[f] \in Nat
    BY FunNumbers DEF Functions
  <2>5. /\ RunOn(f, s, n, outer(f)) /\ mode' = "run" /\ UNCHANGED threw
        /\ overdrawn' = (overdrawn \/ n < stackBase)
    BY <1>3, <1>6
  <2> HIDE DEF s
  <2>6. n \in Nat /\ n <= Len(s) /\ NumArgs[f] <= Len(s) /\ n <= Len(s) - NumArgs[f]
    BY <1>6, <2>3, <2>4
  <2> DEFINE below == First(s, n)
  <2> HIDE DEF b
  <2>7. below \in Stacks /\ Len(below) = n /\ Begins(s, below)
    BY <2>2, <2>6, FirstOf DEF Stacks, Begins
  <2> HIDE DEF below
  <2>8. fr = [Frame("message", 0) EXCEPT !.below = below]
    BY DEF below
  <2> HIDE DEF msg
  <2>9. /\ fr \in FrameType /\ fr.kind = "message" /\ fr.base = stackBase /\ fr.lbase = localBase
        /\ fr.below = below
    <3>1. fr = [kind |-> "message", base |-> stackBase, lbase |-> localBase, fun |-> fun,
                below |-> below, callers |-> local]
      BY <2>8 DEF Frame
    <3> QED BY <1>2, <2>7, <3>1 DEF FrameType, Kinds
  <2> DEFINE fs == Append(frames, fr)
  <2>10. fs = outer(f)
    OBVIOUS
  <2> HIDE DEF fr
  <2>11. fs \in Seq(FrameType) /\ fs # <<>>
    BY <1>2, <2>9, AppendOf
  <2>12. BottomOK(fs, stackBase, local, localBase, fun)
    BY <1>2, <2>9, BottomPush DEF IInv
  <2>13. LocalsOK(fs, local, localBase, fun)
    BY <1>2, <2>9, LocalsPush DEF IInv
  <2> HIDE DEF n
  <2>14. BasesOK(fs, n)
    <3>1. BasesOK(frames, stackBase) /\ stackBase <= fr.base
      BY <1>2, <2>9 DEF IInv
    <3> QED BY <1>2, <2>6, <2>9, <3>1, BasesPush
  <2>15. overdrawn' \in BOOLEAN /\ threw' \subseteq Nat
    BY <1>2, <2>5
  <2>16. overdrawn' \/ ValuesOK(fs, s, n)
    <3> SUFFICES ASSUME ~ overdrawn, ~ (n < stackBase) PROVE ValuesOK(fs, s, n)
      BY <2>5
    <3>1. ValuesOK(frames, stack, stackBase)
      BY DEF IInv
    <3>2. stackBase <= fr.base /\ fr.base <= Len(fr.below) /\ Len(fr.below) <= n
      BY <1>2, <2>6, <2>7, <2>9
    <3> QED BY <1>2, <2>3, <2>6, <2>7, <2>9, <3>1, <3>2, ValuesPush
  <2>17. ThrowsOK(fs, "run", threw')
    <3>1. ThrowsOK(frames, "run", threw)
      BY <1>1 DEF IInv
    <3> QED BY <1>2, <2>5, <2>9, <3>1, ThrowsPush
  <2>18. RunOn(f, s, n, fs) /\ TypeOK
    BY <2>5, <2>10 DEF IInv
  <2> HIDE DEF fs
  <2> QED BY <2>2, <2>4, <2>5, <2>6, <2>11, <2>12, <2>13, <2>14, <2>15, <2>16, <2>17, <2>18, RunInv
<1> QED BY <1>4, <1>5, <1>6

LEMMA MessagePrimInv == ASSUME IInv, NEW n \in Takes, MessagePrim(n) PROVE IInv'
<1> DEFINE s == Popped(1)
           b == Len(s) - n
<1>1. /\ mode = "run"
      /\ IF ~ Enough(1) THEN Throw
         ELSE IF b < 0 \/ b + 1 < stackBase THEN Undefined
         ELSE /\ \/ stack' = Append(First(s, b), Zero) /\ mode' = "run" /\ UNCHANGED threw
                 \/ /\ stack' = First(s, b)
                    /\ IF b < stackBase THEN mode' = "undefined" /\ UNCHANGED threw ELSE Raise
              /\ overdrawn' = (overdrawn \/ b < stackBase)
              /\ UNCHANGED <<stackBase, locals, frames>>
  BY DEF MessagePrim, RunsCode
<1>2. /\ frames \in Seq(FrameType) /\ frames # <<>>
      /\ stack \in Stacks /\ Len(stack) \in Nat /\ stackBase \in Nat /\ stackBase <= Len(stack)
      /\ local \in Stacks /\ overdrawn \in BOOLEAN /\ n \in Nat
  BY <1>1, Running, MachineAssumption
<1>3. CASE ~ Enough(1)
  BY <1>1, <1>3, ThrowInv
<1>4. CASE Enough(1) /\ (b < 0 \/ b + 1 < stackBase)
  <2>1. Undefined
    BY <1>1, <1>4
  <2> QED BY <1>1, <1>2, <2>1, UndefinedInv DEF Undefined, locals
<1>5. CASE Enough(1) /\ ~ (b < 0 \/ b + 1 < stackBase)
  <2>1. /\ s \in Stacks /\ Len(s) = Len(stack) - 1
        /\ stackBase <= Len(s) /\ SameUpTo(stack, s, stackBase)
    BY <1>1, <1>5, PoppedProps
  <2>2. /\ \/ stack' = Append(First(s, b), Zero) /\ mode' = "run" /\ UNCHANGED threw
           \/ /\ stack' = First(s, b)
              /\ IF b < stackBase THEN mode' = "undefined" /\ UNCHANGED threw ELSE Raise
        /\ overdrawn' = (overdrawn \/ b < stackBase)
        /\ UNCHANGED <<stackBase, local, localBase, fun, frames>>
    BY <1>1, <1>5 DEF locals
  <2> HIDE DEF s
  <2>3. b \in Nat /\ b <= Len(s) /\ stackBase <= b + 1 /\ Len(s) \in Nat
    BY <1>2, <1>5, <2>1
  <2> HIDE DEF b
  <2> DEFINE rest == First(s, b)
  <2>4. rest \in Stacks /\ Len(rest) = b /\ \A k \in 1 .. b : rest[k] = s[k]
    BY <2>1, <2>3, FirstOf DEF Stacks
  <2> HIDE DEF rest
  <2>5. stackBase <= b => SameUpTo(stack, rest, stackBase)
    BY <1>2, <2>1, <2>3, <2>4 DEF SameUpTo
  <2>6. LocalsOK(frames, local, localBase, fun) /\ overdrawn' \in BOOLEAN
    BY <2>2 DEF IInv
  <2>7. CASE stack' = Append(rest, Zero) /\ mode' = "run" /\ UNCHANGED threw
    <3>1. /\ stack' \in Stacks /\ Len(stack') = b + 1
          /\ \A k \in 1 .. b : stack'[k] = rest[k]
      BY <2>4, <2>7, ZeroValue, AppendOf DEF Stacks
    <3>2. stackBase <= b => SameUpTo(stack, stack', stackBase)
      BY <1>2, <2>3, <2>4, <2>5, <3>1 DEF SameUpTo
    <3>3. overdrawn' \/ (~ overdrawn /\ SameUpTo(stack, stack', stackBase))
      <4>1. CASE overdrawn \/ b < stackBase
        BY <2>2, <4>1, Zenon
      <4>2. CASE ~ overdrawn /\ stackBase <= b
        BY <3>2, <4>2, Zenon
      <4>3. b < stackBase \/ stackBase <= b
        BY <1>2, <2>3
      <4> QED BY <4>1, <4>2, <4>3, Zenon
    <3>4. /\ UNCHANGED <<stackBase, localBase, fun, frames, threw>> /\ local' \in Stacks
          /\ LocalsOK(frames, local', localBase, fun) /\ stackBase <= Len(stack')
      BY <1>2, <2>2, <2>3, <2>6, <2>7, <3>1
    <3> QED BY <1>1, <2>6, <2>7, <3>1, <3>3, <3>4, StayInv
  <2>8. CASE stack' = rest /\ b < stackBase /\ mode' = "undefined" /\ UNCHANGED threw
    BY <1>1, <2>2, <2>4, <2>8, UndefinedInv
  <2>9. CASE stack' = rest /\ ~ (b < stackBase) /\ Raise
    <3>1. mode' = "throw" /\ threw' \in {threw, threw \cup {Level}} /\ TypeOK /\ overdrawn' = overdrawn
      BY <1>2, <2>2, <2>9 DEF Raise, RaiseIn, IInv
    <3>2. ThrowsOK(frames, "throw", threw')
      BY <1>1, <3>1, ThrowsRaise DEF IInv
    <3>3. TypeOK'
      <4>1. threw' \subseteq Nat
        BY <3>1, LevelProps DEF TypeOK
      <4> QED BY <1>2, <2>2, <2>4, <2>9, <3>1, <4>1 DEF TypeOK, Stacks
    <3>4. overdrawn \/ ValuesOK(frames, rest, stackBase)
      <4> SUFFICES ASSUME ~ overdrawn PROVE ValuesOK(frames, rest, stackBase)
        OBVIOUS
      <4>1. ValuesOK(frames, stack, stackBase)
        BY DEF IInv
      <4>2. stackBase <= b
        BY <1>2, <2>3, <2>9
      <4> QED BY <1>2, <2>3, <2>4, <2>5, <4>1, <4>2, ValuesKeep
    <3>5. stackBase <= Len(rest)
      BY <1>2, <2>3, <2>4, <2>9
    <3> QED BY <2>2, <2>9, <3>1, <3>2, <3>3, <3>4, <3>5 DEF IInv
  <2> QED BY <2>2, <2>7, <2>8, <2>9 DEF rest
<1> QED BY <1>3, <1>4, <1>5

-----------------------------------------------------------------------------
(* The prompt                                                              *)

LEMMA StatementInv == ASSUME IInv, Statement PROVE IInv'
<1> DEFINE fr == [Frame("fun", 0) EXCEPT !.base = stackBase]
<1>1. /\ mode = "idle" /\ frames' = <<fr>> /\ localBase' = Len(local) /\ fun' = Main
      /\ mode' = "run" /\ threw' = {} /\ overdrawn' = FALSE
      /\ UNCHANGED <<stack, stackBase, local>>
  BY DEF Statement
<1>2. stackBase = 0 /\ local = <<>> /\ localBase = 0 /\ fun = Main /\ stack \in Stacks
      /\ Len(stack) \in Nat /\ frames = <<>> /\ <<>> \in Stacks
  <2>1. frames = <<>> /\ stack \in Stacks
    BY <1>1 DEF IInv, TypeOK, Stacks
  <2>2. <<>> \in Stacks
    BY EmptySeq DEF Stacks
  <2> QED BY <2>1, <2>2, LenProperties DEF IInv, BottomOK, Stacks
<1>3. First(stack, 0) \in Stacks /\ Len(First(stack, 0)) = 0
  BY <1>2, FirstOf DEF Stacks
<1>4. /\ fr \in FrameType /\ fr.kind = "fun" /\ fr.base = 0 /\ fr.lbase = 0 /\ fr.fun = Main
      /\ fr.callers = <<>> /\ fr.below \in Stacks /\ Len(fr.below) = 0
  <2> DEFINE r0 == First(stack, 0)
  <2>1. r0 \in Stacks /\ Len(r0) = 0
    BY <1>3
  <2>2. Frame("fun", 0) = [kind |-> "fun", base |-> 0, lbase |-> 0, fun |-> Main,
                           below |-> r0, callers |-> <<>>]
    BY <1>2 DEF Frame
  <2> HIDE DEF r0
  <2>3. fr = [kind |-> "fun", base |-> 0, lbase |-> 0, fun |-> Main,
              below |-> r0, callers |-> <<>>]
    BY <1>2, <2>2
  <2> QED BY <1>2, <2>1, <2>3, NoneOfMain DEF FrameType, Kinds
<1> HIDE DEF fr
<1>5. /\ frames' \in Seq(FrameType) /\ frames' # <<>> /\ Len(frames') = 1 /\ frames'[1] = fr
  BY <1>1, <1>4
<1>6. Len(<<>>) = 0 /\ \A x : x \in Nat => 1 .. 0 = {}
  OBVIOUS
<1>7. TypeOK'
  BY <1>1, <1>2, <1>5, <1>6, NoneOfMain DEF TypeOK, FrameType, Stacks
<1>8. BottomOK(frames', stackBase', local', localBase', fun')
  BY <1>4, <1>5 DEF BottomOK
<1>9. LocalsOK(frames', local', localBase', fun')
  <2>1. Begins(<<>>, <<>>)
    BY DEF Begins
  <2>2. \A i \in 1 .. 1 : i = 1 /\ i + 1 .. 1 = {}
    OBVIOUS
  <2>3. AfterBase(fr) = 0
    BY <1>4 DEF AfterBase
  <2> QED BY <1>1, <1>2, <1>4, <1>5, <2>1, <2>2, <2>3, NoneOfMain DEF LocalsOK
<1>10. BasesOK(frames', stackBase')
  BY <1>1, <1>2, <1>4, <1>5 DEF BasesOK
<1>11. ValuesOK(frames', stack', stackBase')
  <2>1. \A i \in 1 .. 1 : i = 1 /\ i + 1 .. 1 = {}
    OBVIOUS
  <2>2. Begins(stack, fr.below)
    BY <1>2, <1>4 DEF Begins
  <2> QED BY <1>1, <1>2, <1>4, <1>5, <2>1, <2>2 DEF ValuesOK
<1>12. ThrowsOK(frames', "run", threw')
  BY <1>1 DEF ThrowsOK
<1>13. stackBase' <= Len(stack')
  BY <1>1, <1>2
<1> QED BY <1>1, <1>7, <1>8, <1>9, <1>10, <1>11, <1>12, <1>13 DEF IInv

-----------------------------------------------------------------------------
(* The invariant and what follows from it                                  *)

LEMMA InitInv == Init => IInv
<1> SUFFICES ASSUME Init PROVE IInv
  OBVIOUS
<1>1. /\ stack = <<>> /\ stackBase = 0 /\ local = <<>> /\ localBase = 0
      /\ fun = Main /\ frames = <<>> /\ mode = "idle" /\ threw = {} /\ overdrawn = FALSE
  BY DEF Init
<1>2. Len(<<>>) = 0 /\ 1 .. 0 = {} /\ <<>> \in Seq(AllValues) /\ <<>> \in Seq(FrameType)
  BY EmptySeq
<1>3. TypeOK
  BY <1>1, <1>2, NoneOfMain DEF TypeOK, FrameType, Stacks
<1>4. BottomOK(frames, stackBase, local, localBase, fun)
  BY <1>1 DEF BottomOK
<1>5. LocalsOK(frames, local, localBase, fun)
  BY <1>1, <1>2, NoneOfMain DEF LocalsOK
<1>6. BasesOK(frames, stackBase)
  BY <1>1, <1>2 DEF BasesOK
<1>7. ValuesOK(frames, stack, stackBase)
  BY <1>1, <1>2 DEF ValuesOK
<1> QED BY <1>1, <1>2, <1>3, <1>4, <1>5, <1>6, <1>7 DEF IInv

LEMMA NextInv == IInv /\ [Next]_vars => IInv'
<1> SUFFICES ASSUME IInv, [Next]_vars PROVE IInv'
  OBVIOUS
<1>1. CASE Statement
  BY <1>1, StatementInv
<1>2. CASE PushImmediate
  BY <1>2, PushImmediateInv
<1>3. CASE \E n \in Takes : ApplyPrim(n) \/ MessagePrim(n)
  BY <1>3, ApplyPrimInv, MessagePrimInv
<1>4. CASE Clear
  BY <1>4, ClearInv
<1>5. CASE PushLocal
  BY <1>5, PushLocalInv
<1>6. CASE BindLocal
  BY <1>6, BindLocalInv
<1>7. CASE Throw
  BY <1>7, ThrowInv
<1>8. CASE CallFun
  BY <1>8, CallFunInv
<1>9. CASE Parens \/ NewVList
  BY <1>9, NestedInv DEF Parens, NewVList
<1>10. CASE Try \/ Protect \/ Load
  <2>1. PICK kind \in {"try", "protect", "load"}, f \in Functions :
          Guarding(kind, f) /\ (kind = "load" => f = Main)
    <3>1. CASE Try
      BY <3>1 DEF Try, Functions
    <3>2. CASE Protect
      BY <3>2 DEF Protect, Functions
    <3>3. CASE Load
      BY <3>3, NoneOfMain DEF Load
    <3> QED BY <1>10, <3>1, <3>2, <3>3
  <2> QED BY <2>1, GuardingInv
<1>11. CASE MessageFun
  BY <1>11, MessageFunInv
<1>12. CASE Return
  BY <1>12, ReturnInv
<1>13. CASE MessageReturns
  BY <1>13, MessageReturnsInv
<1>14. CASE GuardReturns
  BY <1>14, GuardReturnsInv
<1>15. CASE ProtectReturns
  BY <1>15, ProtectReturnsInv
<1>16. CASE Rethrow
  BY <1>16, RethrowInv
<1>17. CASE UnwindFun
  BY <1>17, UnwindFunInv
<1>18. CASE UnwindScope
  BY <1>18, UnwindScopeInv
<1>19. CASE Catch
  BY <1>19, CatchInv
<1>20. CASE UnwindCatch
  BY <1>20, UnwindCatchInv
<1>21. CASE LoadFails
  BY <1>21, LoadFailsInv
<1>22. CASE UNCHANGED vars
  <2>1. UNCHANGED <<stack, stackBase, local, localBase, fun, frames, mode, threw, overdrawn>>
    BY <1>22 DEF vars
  <2>2. TypeOK'
    BY <2>1 DEF IInv, TypeOK
  <2> QED BY <2>1, <2>2 DEF IInv
<1> QED BY <1>1, <1>2, <1>3, <1>4, <1>5, <1>6, <1>7, <1>8, <1>9, <1>10, <1>11, <1>12, <1>13,
           <1>14, <1>15, <1>16, <1>17, <1>18, <1>19, <1>20, <1>21, <1>22 DEF Next

LEMMA Inductive == Spec => []IInv
BY InitInv, NextInv, PTL DEF Spec

(* The stack, the variables and the frames are what the types say.         *)
THEOREM TypeCorrect == Spec => []TypeOK
<1>1. IInv => TypeOK
  BY DEF IInv
<1> QED BY <1>1, Inductive, PTL

(* What was on the stack below a scope is there when the scope is left, in *)
(* whatever way, and the prompt reaches all of it: opParens, opNewVList,   *)
(* Fun::run, msgSend and their destructors, under any nesting.             *)
THEOREM CallersKeep == Spec => []CallersValuesKept
<1>1. IInv => CallersValuesKept
  <2> SUFFICES ASSUME IInv PROVE CallersValuesKept
    OBVIOUS
  <2>1. mode = "idle" => stackBase = 0
    BY DEF IInv, TypeOK, BottomOK
  <2>2. ASSUME ~ overdrawn
        PROVE  /\ mode # "undefined" /\ stackBase <= Len(stack)
               /\ \A i \in 1 .. Len(frames) : First(stack, Len(frames[i].below)) = frames[i].below
    <3>1. mode # "undefined" /\ ValuesOK(frames, stack, stackBase)
      BY <2>2 DEF IInv
    <3>2. stack \in Stacks /\ frames \in Seq(FrameType)
      BY DEF IInv, TypeOK, FrameType, Stacks
    <3>3. ASSUME NEW i \in 1 .. Len(frames)
          PROVE  First(stack, Len(frames[i].below)) = frames[i].below
      <4>1. frames[i] \in FrameType
        BY <3>2, FrameNumbers
      <4>2. frames[i].below \in Stacks
        BY <4>1 DEF FrameType
      <4>3. Begins(stack, frames[i].below)
        BY <3>1 DEF ValuesOK
      <4> QED BY <3>2, <4>2, <4>3, BeginsFirst DEF Stacks
    <3> QED BY <3>1, <3>3 DEF ValuesOK
  <2>3. overdrawn \in BOOLEAN
    BY DEF IInv, TypeOK
  <2> QED BY <2>1, <2>2, <2>3 DEF CallersValuesKept
<1> QED BY <1>1, Inductive, PTL

(* A function finds its own variables on top and those of its callers as   *)
(* they were, and at the prompt there are none, whatever has thrown.       *)
THEOREM LocalsReturn == Spec => []LocalsKept
<1>1. IInv => LocalsKept
  <2> SUFFICES ASSUME IInv PROVE LocalsKept
    OBVIOUS
  <2>1. mode = "idle" => localBase = 0 /\ local = <<>> /\ fun = Main
    BY DEF IInv, TypeOK, BottomOK
  <2>2. LocalsOK(frames, local, localBase, fun)
    BY DEF IInv
  <2>3. local \in Stacks /\ frames \in Seq(FrameType)
    BY DEF IInv, TypeOK, FrameType, Stacks
  <2>4. ASSUME NEW i \in 1 .. Len(frames), frames[i].kind = "fun"
        PROVE  First(local, Len(frames[i].callers)) = frames[i].callers
    <3>1. frames[i] \in FrameType
      BY <2>3, FrameNumbers
    <3>2. frames[i].callers \in Stacks
      BY <3>1 DEF FrameType
    <3>3. Begins(local, frames[i].callers)
      BY <2>2, <2>4 DEF LocalsOK
    <3> QED BY <2>3, <3>2, <3>3, BeginsFirst DEF Stacks
  <2> QED BY <2>1, <2>2, <2>4 DEF LocalsKept, LocalsOK
<1> QED BY <1>1, Inductive, PTL

(* Nothing but load (and the prompt) stops an exception, through any       *)
(* nesting of handlers that return or throw themselves.                    *)
THEOREM ExceptionsArrive == Spec => []NothingSwallowed
<1>1. IInv => NothingSwallowed
  <2> SUFFICES ASSUME IInv, mode = "run"
               PROVE  /\ Len(frames) = 1 => 0 \notin threw
                      /\ Top.kind = "load" => Len(frames) \notin threw
    BY DEF NothingSwallowed
  <2>1. frames \in Seq(FrameType) /\ frames # <<>> /\ ThrowsOK(frames, "run", threw)
    BY Running DEF IInv
  <2>2. frames[1].kind = "fun"
    BY <2>1 DEF IInv, BottomOK
  <2> QED BY <2>1, <2>2, ThrowsAtLoad
<1> QED BY <1>1, Inductive, PTL
=============================================================================
