-------------------------- MODULE StreamOpsProofs --------------------------
(***************************************************************************)
(* For inputs of any length, divided into arrays in any way, and blocks    *)
(* of any size: the generators that write as many items as they read       *)
(* never read ahead (ReadsWhatItWrites); and what keep, take, ncyc,        *)
(* append, add, cat, keepWhile, stutter, spread and the words that align   *)
(* two lists write is their promise, to its end (ProducedIsPromised,       *)
(* AllIsProduced).                                                         *)
(*                                                                         *)
(* The first argument counts items: what is left to read of an input is    *)
(* the length of its flattened nodes less the offset, and what is written  *)
(* is the length of the flattened nodes and the block.                     *)
(*                                                                         *)
(* The second says which items: the promise is what has been written,      *)
(* joined to what is still to be written (RemainsOK), and this is, word by *)
(* word, a function of what is left to read (Goes).  A turn of a word's    *)
(* loop moves a piece from the one to the other.                           *)
(***************************************************************************)
EXTENDS StreamPromises, FiniteSetTheorems, WellFoundedInduction, TLAPS

-----------------------------------------------------------------------------
(* Lists: sequences of whatever it may be.                                 *)

LEMMA ListIs ==
  ASSUME NEW s, IsList(s)
  PROVE  Len(s) \in Nat /\ DOMAIN s = 1 .. Len(s) /\ \E S : s \in Seq(S)
<1> DEFINE S == {s[i] : i \in 1 .. Len(s)}
<1>1. Len(s) \in Nat /\ s = [i \in 1 .. Len(s) |-> s[i]]
  BY DEF IsList
<1>2. s \in [1 .. Len(s) -> S]
  BY <1>1
<1>3. s \in Seq(S)
  BY <1>1, <1>2
<1> QED BY <1>1, <1>3

LEMMA ListOf ==
  ASSUME NEW S, NEW s \in Seq(S)
  PROVE  IsList(s)
BY DEF IsList

LEMMA ListMade ==
  ASSUME NEW m \in Nat, NEW s, s = [i \in 1 .. m |-> s[i]]
  PROVE  IsList(s) /\ Len(s) = m
<1> DEFINE S == {s[i] : i \in 1 .. m}
<1>1. s \in [1 .. m -> S] OBVIOUS
<1>2. s \in Seq(S) /\ Len(s) = m BY <1>1
<1> QED BY <1>2, ListOf

LEMMA ListEmpty == IsList(<<>>) /\ Len(<<>>) = 0
<1>1. <<>> \in Seq({}) OBVIOUS
<1> QED BY <1>1, ListOf

LEMMA ListOne ==
  ASSUME NEW e
  PROVE  IsList(<<e>>) /\ Len(<<e>>) = 1 /\ <<e>>[1] = e
<1>1. <<e>> \in Seq({e}) OBVIOUS
<1> QED BY <1>1, ListOf

LEMMA ListAppend ==
  ASSUME NEW s, IsList(s), NEW e
  PROVE  /\ IsList(Append(s, e)) /\ Len(Append(s, e)) = Len(s) + 1
         /\ \A i \in 1 .. Len(s) : Append(s, e)[i] = s[i]
         /\ Append(s, e)[Len(s) + 1] = e
<1>1. PICK S : s \in Seq(S) BY ListIs
<1>2. s \in Seq(S \cup {e}) /\ e \in S \cup {e} BY <1>1
<1> DEFINE r == Append(s, e)
<1>3. Len(r) = Len(s) + 1 /\ Len(s) \in Nat BY <1>2
<1>4. r \in Seq(S \cup {e}) BY <1>2
<1>5. (\A i \in 1 .. Len(s) : r[i] = s[i]) /\ r[Len(s) + 1] = e BY <1>2
<1>6. IsList(r)
  <2> HIDE DEF r
  <2> QED BY <1>4, ListOf
<1> QED BY <1>3, <1>5, <1>6

LEMMA ListConcat ==
  ASSUME NEW s, NEW r, IsList(s), IsList(r)
  PROVE  /\ IsList(s \o r) /\ Len(s \o r) = Len(s) + Len(r)
         /\ \A i \in 1 .. Len(s) : (s \o r)[i] = s[i]
         /\ \A i \in 1 .. Len(r) : (s \o r)[Len(s) + i] = r[i]
<1>1. PICK S : s \in Seq(S) BY ListIs
<1>2. PICK R : r \in Seq(R) BY ListIs
<1>3. s \in Seq(S \cup R) /\ r \in Seq(S \cup R) BY <1>1, <1>2
<1>4. s \o r \in Seq(S \cup R) BY <1>3
<1>5. \A i \in 1 .. Len(r) : Len(s) + i \in 1 .. (Len(s) + Len(r)) /\ Len(s) + i > Len(s)
  BY <1>3
<1>6. IsList(s \o r) BY <1>4, ListOf
<1> QED BY <1>3, <1>5, <1>6

LEMMA ListSub ==
  ASSUME NEW s, IsList(s), NEW a \in Nat, NEW b \in Nat, 1 <= a, a <= b + 1, b <= Len(s)
  PROVE  /\ IsList(SubSeq(s, a, b)) /\ Len(SubSeq(s, a, b)) = b + 1 - a
         /\ \A i \in 1 .. (b + 1 - a) : SubSeq(s, a, b)[i] = s[a - 1 + i]
<1>1. PICK S : s \in Seq(S) BY ListIs
<1>2. SubSeq(s, a, b) = [i \in 1 .. (b + 1 - a) |-> s[a - 1 + i]]
  BY <1>1
<1>3. b + 1 - a \in Nat OBVIOUS
<1> DEFINE r == SubSeq(s, a, b)
<1>4. r = [i \in 1 .. (b + 1 - a) |-> r[i]] BY <1>2
<1> QED BY <1>2, <1>3, <1>4, ListMade

(* Two lists of the same items are the same. *)
LEMMA ListSame ==
  ASSUME NEW s, NEW r, IsList(s), IsList(r), Len(s) = Len(r),
         \A i \in 1 .. Len(s) : s[i] = r[i]
  PROVE  s = r
BY DEF IsList

LEMMA JoinedAgain ==
  ASSUME NEW s, NEW t, NEW u, IsList(s), IsList(t), IsList(u)
  PROVE  (s \o t) \o u = s \o (t \o u)
<1>1. PICK S : s \in Seq(S) BY ListIs
<1>2. PICK T : t \in Seq(T) BY ListIs
<1>3. PICK U : u \in Seq(U) BY ListIs
<1>4. PICK V : V = S \cup T \cup U OBVIOUS
<1>5. s \in Seq(V) /\ t \in Seq(V) /\ u \in Seq(V) BY <1>1, <1>2, <1>3, <1>4
<1> QED BY ONLY <1>5

LEMMA JoinedToNone ==
  ASSUME NEW s, IsList(s)
  PROVE  s \o <<>> = s /\ <<>> \o s = s
<1>1. PICK S : s \in Seq(S) BY ListIs
<1> QED BY ONLY <1>1

(* A list of no items. *)
LEMMA NoItems ==
  ASSUME NEW s, IsList(s)
  PROVE  (s = <<>>) <=> (Len(s) = 0)
BY ListEmpty, ListSame

-----------------------------------------------------------------------------
(* Counting up, from a least counterexample.                               *)

LEMMA Descent ==
  ASSUME NEW n \in Nat, NEW D \in [0 .. n -> SUBSET (0 .. n)],
         NEW S, S \subseteq 0 .. n, S # {}
  PROVE  \E i \in S : \A j \in S : ~ (D[j] \subseteq D[i] /\ D[j] # D[i])
<1> DEFINE T == {D[i] : i \in S}
           R == StrictSubsetOrdering(0 .. n)
<1>1. IsWellFoundedOn(R, SUBSET (0 .. n))
  <2>1. IsFiniteSet(0 .. n)
    BY FS_Interval
  <2> QED BY <2>1, FS_StrictSubsetOrderingWellFounded, FS_FiniteSubsetsOfFinite
<1>2. T \subseteq SUBSET (0 .. n) /\ T # {}
  OBVIOUS
<1>3. PICK X \in T : \A Y \in T : ~ (<<Y, X>> \in R)
  <2> HIDE DEF T, R
  <2> QED BY <1>1, <1>2, WFMin
<1>4. PICK i \in S : X = D[i]
  BY <1>3
<1>5. ASSUME NEW j \in S, D[j] \subseteq D[i], D[j] # D[i] PROVE FALSE
  <2>1. D[j] \in T /\ D[j] \in SUBSET (0 .. n) /\ D[i] \in SUBSET (0 .. n)
    OBVIOUS
  <2>2. <<D[j], X>> \in R
    BY <1>4, <1>5, <2>1 DEF StrictSubsetOrdering
  <2> QED BY <1>3, <2>1, <2>2
<1> QED BY <1>5

LEMMA LeastExists ==
  ASSUME NEW n \in Nat, NEW S, S \subseteq 0 .. n, S # {}
  PROVE  \E i \in S : \A j \in S : i <= j
<1> DEFINE D == [i \in 0 .. n |-> 0 .. i]
<1>1. D \in [0 .. n -> SUBSET (0 .. n)]
  OBVIOUS
<1>2. \A i \in 0 .. n : D[i] = 0 .. i
  OBVIOUS
<1> HIDE DEF D
<1>3. PICK i \in S : \A j \in S : ~ (D[j] \subseteq D[i] /\ D[j] # D[i])
  <2>1. S \subseteq 0 .. n /\ S # {} /\ n \in Nat
    OBVIOUS
  <2> QED BY ONLY <1>1, <2>1, Descent, ZenonT(60)
<1>4. ASSUME NEW j \in S, ~ (i <= j) PROVE FALSE
  <2>1. i \in 0 .. n /\ j \in 0 .. n /\ j < i
    BY <1>4
  <2>2. 0 .. j \subseteq 0 .. i /\ i \in 0 .. i /\ i \notin 0 .. j
    BY <2>1
  <2>3. D[j] \subseteq D[i] /\ D[j] # D[i]
    BY <1>2, <2>1, <2>2
  <2> QED BY <1>3, <2>3
<1> QED BY <1>4

(* What holds of one and passes on to the next number holds of all.        *)
LEMMA CountUp ==
  ASSUME NEW m \in Nat, NEW C, 1 \in C, \A i \in 1 .. m : i < m /\ i \in C => i + 1 \in C
  PROVE  1 .. m \subseteq C
<1> DEFINE S == (1 .. m) \ C
<1> SUFFICES ASSUME S # {} PROVE FALSE
  OBVIOUS
<1>1. PICK i \in S : \A j \in S : i <= j
  <2>1. S \subseteq 0 .. m
    OBVIOUS
  <2> HIDE DEF S
  <2> QED BY <2>1, LeastExists
<1>2. i \in 1 .. m /\ i \notin C /\ i # 1
  OBVIOUS
<1>3. i - 1 \in 1 .. m /\ i - 1 < m /\ (i - 1) + 1 = i /\ ~ (i <= i - 1)
  BY <1>2
<1>4. i - 1 \in C
  BY <1>1, <1>3
<1> QED BY <1>2, <1>3, <1>4

-----------------------------------------------------------------------------
(* The items of a list of arrays: FlattenSeq(s) is the last value of the   *)
(* function that joins the arrays one after another.                       *)

Arrays(s) == IsList(s) /\ \A i \in 1 .. Len(s) : IsList(s[i])
Joins(s, f, n) == f = [i \in 1 .. n |-> IF i = 1 THEN s[i] ELSE f[i - 1] \o s[i]]

LEMMA JoinsExists ==
  ASSUME NEW s, NEW m \in Nat, m > 0
  PROVE  \E f : Joins(s, f, m)
<1> DEFINE C == {n \in 1 .. m : \E f : Joins(s, f, n)}
<1>1. 1 \in C
  <2> DEFINE f == [i \in 1 .. 1 |-> s[i]]
  <2>1. Joins(s, f, 1)
    BY DEF Joins
  <2> QED BY <2>1
<1>2. ASSUME NEW n \in 1 .. m, n < m, n \in C PROVE n + 1 \in C
  <2>1. PICK f : Joins(s, f, n) BY <1>2
  <2> DEFINE g == [i \in 1 .. (n + 1) |-> IF i <= n THEN f[i] ELSE f[n] \o s[i]]
  <2>2. ASSUME NEW i \in 1 .. (n + 1)
        PROVE  g[i] = IF i = 1 THEN s[i] ELSE g[i - 1] \o s[i]
    <3>1. CASE i = 1
      BY <2>1, <3>1 DEF Joins
    <3>2. CASE i # 1 /\ i <= n
      <4>3. i \in 1 .. n /\ i - 1 \in 1 .. n BY <3>2
      <4>1. f[i] = f[i - 1] \o s[i] BY <2>1, <3>2, <4>3 DEF Joins
      <4>2. g[i] = f[i] /\ g[i - 1] = f[i - 1] BY <3>2, <4>3
      <4> QED BY <3>2, <4>1, <4>2
    <3>3. CASE i = n + 1
      <4>1. ~ (i <= n) /\ i - 1 = n /\ n \in 1 .. (n + 1) /\ i # 1 BY <3>3
      <4>2. g[i] = f[n] \o s[i] BY <4>1
      <4>3. g[n] = f[n] BY <4>1
      <4> QED BY <4>1, <4>2, <4>3
    <3> QED BY <3>1, <3>2, <3>3
  <2>3. Joins(s, g, n + 1)
    BY <2>2 DEF Joins
  <2> HIDE DEF g
  <2>4. n + 1 \in 1 .. m BY <1>2
  <2> QED BY <2>3, <2>4
<1> HIDE DEF C
<1>3. 1 .. m \subseteq C BY <1>1, <1>2, CountUp
<1>4. m \in C BY <1>3
<1> QED BY <1>4 DEF C

(* Lists that begin alike are joined alike. *)
LEMMA JoinsAgree ==
  ASSUME NEW s, NEW t, NEW f, NEW g, NEW m \in Nat, NEW n \in Nat,
         Joins(s, f, m), Joins(t, g, n), NEW j \in Nat, j <= m, j <= n, j > 0,
         \A i \in 1 .. j : s[i] = t[i]
  PROVE  f[j] = g[j]
<1> DEFINE C == {i \in 1 .. j : f[i] = g[i]}
<1>1. \A i \in 1 .. j : /\ f[i] = IF i = 1 THEN s[i] ELSE f[i - 1] \o s[i]
                        /\ g[i] = IF i = 1 THEN t[i] ELSE g[i - 1] \o t[i]
  <2>1. \A i \in 1 .. j : i \in 1 .. m /\ i \in 1 .. n OBVIOUS
  <2>2. /\ \A i \in 1 .. m : f[i] = IF i = 1 THEN s[i] ELSE f[i - 1] \o s[i]
        /\ \A i \in 1 .. n : g[i] = IF i = 1 THEN t[i] ELSE g[i - 1] \o t[i]
    BY DEF Joins
  <2> QED BY <2>1, <2>2
<1>2. 1 \in C BY <1>1
<1>3. ASSUME NEW i \in 1 .. j, i < j, i \in C PROVE i + 1 \in C
  <2>1. i + 1 \in 1 .. j /\ i + 1 # 1 /\ (i + 1) - 1 = i BY <1>3
  <2>2. f[i + 1] = f[i] \o s[i + 1] /\ g[i + 1] = g[i] \o t[i + 1] BY <1>1, <2>1
  <2> QED BY <1>3, <2>1, <2>2
<1> HIDE DEF C
<1>4. 1 .. j \subseteq C BY <1>2, <1>3, CountUp
<1>5. j \in C BY <1>4
<1> QED BY <1>5 DEF C

LEMMA FlattenedIs ==
  ASSUME NEW s, NEW f, Len(s) \in Nat, Len(s) > 0, Joins(s, f, Len(s))
  PROVE  FlattenSeq(s) = f[Len(s)]
<1> DEFINE J(g) == g = [i \in 1 .. Len(s) |-> IF i = 1 THEN s[i] ELSE g[i - 1] \o s[i]]
           g == CHOOSE g : J(g)
<1>1. J(f) BY Zenon DEF Joins
<1>2. J(g)
  <2> HIDE DEF J
  <2> QED BY <1>1, Zenon
<1>3. Joins(s, g, Len(s)) BY <1>2, Zenon DEF Joins
<1>4. FlattenSeq(s) = g[Len(s)] BY DEF FlattenSeq
<1> HIDE DEF g
<1>5. f[Len(s)] = g[Len(s)] BY <1>3, JoinsAgree
<1> QED BY <1>4, <1>5

LEMMA JoinsAreLists ==
  ASSUME NEW s, NEW f, NEW m \in Nat, Joins(s, f, m), \A i \in 1 .. m : IsList(s[i])
  PROVE  \A i \in 1 .. m : IsList(f[i])
<1> DEFINE C == {i \in 1 .. m : IsList(f[i])}
<1>1. \A i \in 1 .. m : f[i] = IF i = 1 THEN s[i] ELSE f[i - 1] \o s[i]
  BY DEF Joins
<1>2. CASE m = 0 BY <1>2
<1>3. CASE m > 0
  <2>1. 1 \in C BY <1>1, <1>3
  <2>2. ASSUME NEW i \in 1 .. m, i < m, i \in C PROVE i + 1 \in C
    <3>1. i + 1 \in 1 .. m /\ i + 1 # 1 /\ (i + 1) - 1 = i BY <2>2
    <3>2. f[i + 1] = f[i] \o s[i + 1] BY <1>1, <3>1
    <3>3. IsList(f[i]) /\ IsList(s[i + 1]) BY <2>2, <3>1
    <3>4. IsList(f[i + 1]) BY <3>2, <3>3, ListConcat
    <3> QED BY <3>1, <3>4
  <2> HIDE DEF C
  <2>3. 1 .. m \subseteq C BY <2>1, <2>2, CountUp
  <2> QED BY <2>3 DEF C
<1> QED BY <1>2, <1>3

-----------------------------------------------------------------------------
(* How many items there are.                                               *)
Total(s) == Len(FlattenSeq(s))

LEMMA FlattenedEmpty == FlattenSeq(<<>>) = <<>>
BY ListEmpty DEF FlattenSeq

LEMMA FlattenedIsList ==
  ASSUME NEW s, Arrays(s)
  PROVE  IsList(FlattenSeq(s)) /\ Total(s) \in Nat
<1>1. Len(s) \in Nat BY ListIs DEF Arrays
<1>2. CASE Len(s) = 0
  BY <1>2, ListIs DEF Arrays, FlattenSeq, Total
<1>3. CASE Len(s) > 0
  <2>1. PICK f : Joins(s, f, Len(s)) BY <1>1, <1>3, JoinsExists
  <2>2. FlattenSeq(s) = f[Len(s)] BY <1>1, <1>3, <2>1, FlattenedIs
  <2>3. IsList(f[Len(s)]) BY <1>1, <1>3, <2>1, JoinsAreLists DEF Arrays
  <2> QED BY <2>2, <2>3, ListIs DEF Total
<1> QED BY <1>1, <1>2, <1>3

LEMMA FlattenedOne ==
  ASSUME NEW x, IsList(x)
  PROVE  Arrays(<<x>>) /\ FlattenSeq(<<x>>) = x
<1> DEFINE s == <<x>>
<1>1. IsList(s) /\ Len(s) = 1 /\ s[1] = x BY ListOne
<1> HIDE DEF s
<1>2. Arrays(s)
  <2>1. \A i \in 1 .. 1 : i = 1 OBVIOUS
  <2> QED BY <1>1, <2>1 DEF Arrays
<1>3. PICK f : Joins(s, f, 1) BY JoinsExists
<1>4. f[1] = x BY <1>1, <1>3 DEF Joins
<1>5. FlattenSeq(s) = f[1]
  <2>1. Len(s) \in Nat /\ Len(s) > 0 /\ Joins(s, f, Len(s)) BY <1>1, <1>3
  <2> QED BY <1>1, <2>1, FlattenedIs
<1> QED BY <1>2, <1>4, <1>5 DEF s

LEMMA TotalOne ==
  ASSUME NEW x, IsList(x)
  PROVE  Arrays(<<x>>) /\ Total(<<x>>) = Len(x)
BY FlattenedOne DEF Total

LEMMA ArraysConcat ==
  ASSUME NEW s, NEW t, Arrays(s), Arrays(t)
  PROVE  Arrays(s \o t)
<1> DEFINE u == s \o t
<1>1. /\ IsList(u) /\ Len(u) = Len(s) + Len(t) /\ Len(s) \in Nat /\ Len(t) \in Nat
      /\ \A i \in 1 .. Len(s) : u[i] = s[i]
      /\ \A i \in 1 .. Len(t) : u[Len(s) + i] = t[i]
  BY ListConcat, ListIs DEF Arrays
<1> HIDE DEF u
<1>2. ASSUME NEW i \in 1 .. Len(u) PROVE IsList(u[i])
  <2>1. CASE i <= Len(s)
    <3>1. i \in 1 .. Len(s) BY <1>1, <2>1
    <3> QED BY <1>1, <3>1 DEF Arrays
  <2>2. CASE i > Len(s)
    <3>1. PICK k : k = i - Len(s) OBVIOUS
    <3>2. k \in 1 .. Len(t) /\ Len(s) + k = i BY <1>1, <2>2, <3>1
    <3> QED BY <1>1, <3>2 DEF Arrays
  <2> QED BY <1>1, <2>1, <2>2
<1> QED BY <1>1, <1>2 DEF Arrays, u

LEMMA FlattenedConcat ==
  ASSUME NEW s, NEW t, Arrays(s), Arrays(t)
  PROVE  FlattenSeq(s \o t) = FlattenSeq(s) \o FlattenSeq(t)
<1> DEFINE u == s \o t
<1>1. /\ IsList(u) /\ Len(u) = Len(s) + Len(t) /\ Len(s) \in Nat /\ Len(t) \in Nat
      /\ \A i \in 1 .. Len(s) : u[i] = s[i]
      /\ \A i \in 1 .. Len(t) : u[Len(s) + i] = t[i]
  BY ListConcat, ListIs DEF Arrays
<1>2. Arrays(u) BY ArraysConcat
<1>3. IsList(FlattenSeq(s)) /\ IsList(FlattenSeq(t)) BY FlattenedIsList
<1>4. IsList(s) /\ IsList(t) BY DEF Arrays
<1> SUFFICES FlattenSeq(u) = FlattenSeq(s) \o FlattenSeq(t) OBVIOUS
<1>5. CASE Len(t) = 0
  <2>1. u = s
    <3> HIDE DEF u
    <3> QED BY <1>1, <1>4, <1>5, ListSame
  <2>2. t = <<>> BY <1>4, <1>5, ListEmpty, ListSame
  <2>3. FlattenSeq(t) = <<>> BY <2>2, FlattenedEmpty
  <2> HIDE DEF u
  <2> QED BY <1>3, <2>1, <2>3, JoinedToNone
<1>6. CASE Len(t) > 0 /\ Len(s) = 0
  <2>1. u = t
    <3> HIDE DEF u
    <3> QED BY <1>1, <1>4, <1>6, ListSame
  <2>2. s = <<>> BY <1>4, <1>6, ListEmpty, ListSame
  <2>3. FlattenSeq(s) = <<>> BY <2>2, FlattenedEmpty
  <2> HIDE DEF u
  <2> QED BY <1>3, <2>1, <2>3, JoinedToNone
<1>7. CASE Len(t) > 0 /\ Len(s) > 0
  <2> HIDE DEF u
  <2> DEFINE n == Len(s)
             m == Len(t)
  <2>1. PICK f : Joins(s, f, n) BY <1>1, <1>7, JoinsExists
  <2>2. PICK g : Joins(t, g, m) BY <1>1, <1>7, JoinsExists
  <2>3. PICK h : Joins(u, h, n + m) BY <1>1, <1>7, JoinsExists, SMTT(30)
  <2>4. /\ FlattenSeq(s) = f[n] /\ FlattenSeq(t) = g[m] /\ FlattenSeq(u) = h[n + m]
    <3>1. FlattenSeq(s) = f[n] BY <1>1, <1>7, <2>1, FlattenedIs
    <3>2. FlattenSeq(t) = g[m] BY <1>1, <1>7, <2>2, FlattenedIs
    <3>3. Len(u) = n + m /\ Len(u) \in Nat /\ Len(u) > 0 BY <1>1, <1>7
    <3>4. Joins(u, h, Len(u)) BY <2>3, <3>3
    <3>5. FlattenSeq(u) = h[Len(u)] BY <3>3, <3>4, FlattenedIs
    <3> QED BY <3>1, <3>2, <3>3, <3>5
  <2>5. h[n] = f[n]
    <3>1. n <= n + m /\ n <= n /\ n > 0 /\ n + m \in Nat BY <1>1, <1>7
    <3> HIDE DEF m
    <3> QED BY <1>1, <2>1, <2>3, <3>1, JoinsAgree
  <2>6. /\ \A i \in 1 .. n + m : IsList(h[i])
        /\ \A i \in 1 .. m : IsList(g[i])
    BY <1>1, <1>2, <2>2, <2>3, JoinsAreLists, SMTT(30) DEF Arrays
  <2>7. /\ \A i \in 1 .. n + m : h[i] = IF i = 1 THEN u[i] ELSE h[i - 1] \o u[i]
        /\ \A i \in 1 .. m : g[i] = IF i = 1 THEN t[i] ELSE g[i - 1] \o t[i]
    BY <2>2, <2>3 DEF Joins
  <2>8. n \in Nat /\ m \in Nat /\ n > 0 /\ m > 0 /\ Len(u) = n + m BY <1>1, <1>7
  <2>9. /\ \A i \in 1 .. m : u[n + i] = t[i]
        /\ \A i \in 1 .. m : IsList(t[i])
    BY <1>1 DEF Arrays
  <2> DEFINE C == {k \in 1 .. m : h[n + k] = h[n] \o g[k]}
  <2> HIDE DEF n, m
  <2>10. 1 \in C
    <3>1. 1 \in 1 .. m /\ n + 1 \in 1 .. n + m /\ n + 1 # 1 /\ (n + 1) - 1 = n /\ n \in 1 .. n + m
      BY <2>8
    <3>2. h[n + 1] = h[n] \o t[1] /\ g[1] = t[1] BY <2>7, <2>9, <3>1
    <3> QED BY <3>1, <3>2
  <2>11. ASSUME NEW k \in 1 .. m, k < m, k \in C PROVE k + 1 \in C
    <3> DEFINE p == n + k
    <3>1. /\ k + 1 \in 1 .. m /\ k + 1 # 1 /\ (k + 1) - 1 = k
          /\ p + 1 \in 1 .. n + m /\ p + 1 # 1 /\ (p + 1) - 1 = p /\ p \in 1 .. n + m
          /\ n \in 1 .. n + m /\ n + (k + 1) = p + 1
      BY <2>8, <2>11
    <3>2. h[p] = h[n] \o g[k] BY <2>11
    <3> HIDE DEF p
    <3>3. g[k + 1] = g[k] \o t[k + 1] BY <2>7, <3>1
    <3>4. u[p + 1] = t[k + 1] BY <2>9, <3>1
    <3>5. h[p + 1] = h[p] \o t[k + 1] BY <2>7, <3>1, <3>4
    <3>6. IsList(g[k]) /\ IsList(t[k + 1]) /\ IsList(h[n]) BY <2>6, <2>9, <3>1
    <3>7. (h[n] \o g[k]) \o t[k + 1] = h[n] \o (g[k] \o t[k + 1])
      <4>1. PICK a : a = h[n] OBVIOUS
      <4>2. PICK b : b = g[k] OBVIOUS
      <4>3. PICK c : c = t[k + 1] OBVIOUS
      <4>4. IsList(a) /\ IsList(b) /\ IsList(c) BY <3>6, <4>1, <4>2, <4>3
      <4>5. (a \o b) \o c = a \o (b \o c) BY ONLY <4>4, JoinedAgain
      <4> QED BY <4>1, <4>2, <4>3, <4>5
    <3>8. h[p + 1] = h[n] \o g[k + 1] BY <3>2, <3>3, <3>5, <3>7
    <3> QED BY <3>1, <3>8
  <2> HIDE DEF C
  <2>12. 1 .. m \subseteq C BY <2>8, <2>10, <2>11, CountUp
  <2>13. m \in C BY <2>8, <2>12
  <2> QED BY <2>4, <2>5, <2>13 DEF C, n, m
<1> QED BY <1>1, <1>5, <1>6, <1>7

LEMMA TotalConcat ==
  ASSUME NEW s, NEW t, Arrays(s), Arrays(t)
  PROVE  Total(s \o t) = Total(s) + Total(t)
<1>1. IsList(FlattenSeq(s)) /\ IsList(FlattenSeq(t)) BY FlattenedIsList
<1>2. FlattenSeq(s \o t) = FlattenSeq(s) \o FlattenSeq(t) BY FlattenedConcat
<1> QED BY <1>1, <1>2, ListConcat DEF Total

LEMMA FlattenedAppend ==
  ASSUME NEW s, NEW x, Arrays(s), IsList(x)
  PROVE  Arrays(Append(s, x)) /\ FlattenSeq(Append(s, x)) = FlattenSeq(s) \o x
<1>1. Arrays(<<x>>) /\ FlattenSeq(<<x>>) = x BY FlattenedOne
<1>2. Append(s, x) = s \o <<x>>
  <2>1. IsList(s) /\ IsList(<<x>>) /\ Len(<<x>>) = 1 /\ <<x>>[1] = x BY ListOne DEF Arrays
  <2> DEFINE u == Append(s, x)
             v == s \o <<x>>
  <2>2. /\ IsList(u) /\ Len(u) = Len(s) + 1
        /\ \A i \in 1 .. Len(s) : u[i] = s[i]
        /\ u[Len(s) + 1] = x
    BY <2>1, ListAppend
  <2>3. /\ IsList(v) /\ Len(v) = Len(s) + 1
        /\ \A i \in 1 .. Len(s) : v[i] = s[i]
        /\ v[Len(s) + 1] = x
    BY <2>1, ListConcat
  <2> HIDE DEF u, v
  <2>4. Len(s) \in Nat BY <2>1, ListIs
  <2>5. \A i \in 1 .. Len(u) : i \in 1 .. Len(s) \/ i = Len(s) + 1 BY <2>2, <2>4
  <2>6. u = v BY <2>2, <2>3, <2>5, ListSame
  <2> QED BY <2>6 DEF u, v
<1> QED BY <1>1, <1>2, ArraysConcat, FlattenedConcat

LEMMA TotalAppend ==
  ASSUME NEW s, NEW x, Arrays(s), IsList(x)
  PROVE  Arrays(Append(s, x)) /\ Total(Append(s, x)) = Total(s) + Len(x)
<1>1. IsList(FlattenSeq(s)) BY FlattenedIsList
<1> QED BY <1>1, FlattenedAppend, ListConcat DEF Total

LEMMA FlattenedTail ==
  ASSUME NEW s, Arrays(s), Len(s) > 0
  PROVE  Arrays(Tail(s)) /\ FlattenSeq(s) = s[1] \o FlattenSeq(Tail(s))
<1>1. IsList(s) /\ Len(s) \in Nat /\ IsList(s[1]) BY ListIs DEF Arrays
<1> DEFINE t == Tail(s)
           m == Len(s) - 1
<1>2. IsList(t) /\ Len(t) = m /\ \A i \in 1 .. m : t[i] = s[i + 1]
  <2>1. PICK S : s \in Seq(S) BY <1>1, ListIs
  <2>2. s # <<>> BY <1>1, ListEmpty
  <2>3. t \in Seq(S) /\ Len(t) = m /\ \A i \in 1 .. m : t[i] = s[i + 1] BY <2>1, <2>2
  <2> HIDE DEF t
  <2> QED BY <2>3, ListOf
<1>3. m \in Nat /\ Len(s) = 1 + m /\ \A i \in 1 .. m : i + 1 \in 1 .. Len(s) BY <1>1
<1>4. Arrays(t)
  <2> HIDE DEF t, m
  <2> QED BY <1>2, <1>3 DEF Arrays
<1>5. Arrays(<<s[1]>>) /\ FlattenSeq(<<s[1]>>) = s[1] BY <1>1, FlattenedOne
<1>6. <<s[1]>> \o t = s
  <2> DEFINE o == <<s[1]>>
  <2>1. IsList(o) /\ Len(o) = 1 /\ o[1] = s[1] BY ListOne
  <2> HIDE DEF o, t, m
  <2>0. PICK u : u = o \o t OBVIOUS
  <2>2. /\ IsList(u) /\ Len(u) = 1 + m
        /\ \A i \in 1 .. 1 : u[i] = o[i]
        /\ \A i \in 1 .. m : u[1 + i] = t[i]
    <3>1. IsList(t) /\ Len(t) = m BY <1>2
    <3>6. IsList(o) /\ IsList(t) BY <2>1, <3>1
    <3>3. IsList(o \o t) /\ Len(o \o t) = Len(o) + Len(t)
      BY ONLY <3>6, ListConcat
    <3>4. \A i \in 1 .. Len(o) : (o \o t)[i] = o[i]
      BY ONLY <3>6, ListConcat
    <3>5. \A i \in 1 .. Len(t) : (o \o t)[Len(o) + i] = t[i]
      BY ONLY <3>6, ListConcat
    <3>2. /\ IsList(u) /\ Len(u) = Len(o) + Len(t)
          /\ \A i \in 1 .. Len(o) : u[i] = o[i]
          /\ \A i \in 1 .. Len(t) : u[Len(o) + i] = t[i]
      BY ONLY <2>0, <3>3, <3>4, <3>5
    <3> QED BY <2>1, <3>1, <3>2
  <2>3. ASSUME NEW i \in 1 .. Len(u) PROVE u[i] = s[i]
    <3>1. CASE i = 1 BY <2>1, <2>2, <3>1
    <3>2. CASE i # 1
      <4>1. PICK j : j = i - 1 OBVIOUS
      <4>2. j \in 1 .. m /\ 1 + j = i /\ j + 1 = i BY <1>3, <2>2, <3>2, <4>1
      <4> QED BY <1>2, <2>2, <4>2
    <3> QED BY <3>1, <3>2
  <2>4. Len(u) = Len(s) BY <1>3, <2>2
  <2> QED BY <1>1, <2>2, <2>3, <2>4, ListSame, <2>0 DEF o
<1> HIDE DEF t
<1>7. FlattenSeq(<<s[1]>> \o t) = s[1] \o FlattenSeq(t) BY <1>4, <1>5, FlattenedConcat
<1> QED BY <1>4, <1>6, <1>7 DEF t

LEMMA TotalTail ==
  ASSUME NEW s, Arrays(s), Len(s) > 0
  PROVE  Arrays(Tail(s)) /\ Total(s) = Len(s[1]) + Total(Tail(s))
<1>1. Arrays(Tail(s)) /\ FlattenSeq(s) = s[1] \o FlattenSeq(Tail(s)) BY FlattenedTail
<1>2. IsList(s[1]) BY ListIs DEF Arrays
<1>3. IsList(FlattenSeq(Tail(s))) BY <1>1, FlattenedIsList
<1> QED BY <1>1, <1>2, <1>3, ListConcat DEF Total

(* Arrays in which there is nothing. *)
LEMMA FlattenedOfEmpty ==
  ASSUME NEW s, Arrays(s), \A i \in 1 .. Len(s) : s[i] = <<>>
  PROVE  FlattenSeq(s) = <<>>
<1>1. Len(s) \in Nat BY ListIs DEF Arrays
<1>2. CASE Len(s) = 0
  BY <1>2, NoItems DEF Arrays, FlattenSeq
<1>3. CASE Len(s) > 0
  <2> DEFINE n == Len(s)
  <2>1. PICK f : Joins(s, f, n) BY <1>1, <1>3, JoinsExists
  <2>2. FlattenSeq(s) = f[n] BY <1>1, <1>3, <2>1, FlattenedIs
  <2>3. \A i \in 1 .. n : f[i] = IF i = 1 THEN s[i] ELSE f[i - 1] \o s[i]
    BY <2>1 DEF Joins
  <2>4. n \in Nat /\ n > 0 /\ \A i \in 1 .. n : s[i] = <<>> BY <1>1, <1>3
  <2> DEFINE C == {i \in 1 .. n : f[i] = <<>>}
  <2> HIDE DEF n
  <2>5. 1 \in C BY <2>3, <2>4
  <2>6. ASSUME NEW i \in 1 .. n, i < n, i \in C PROVE i + 1 \in C
    <3>1. i + 1 \in 1 .. n /\ i + 1 # 1 /\ (i + 1) - 1 = i BY <2>4, <2>6
    <3>2. f[i + 1] = f[i] \o s[i + 1] BY <2>3, <3>1
    <3>3. <<>> \o <<>> = <<>> OBVIOUS
    <3> QED BY <2>4, <2>6, <3>1, <3>2, <3>3
  <2> HIDE DEF C
  <2>7. 1 .. n \subseteq C BY <2>4, <2>5, <2>6, CountUp
  <2>8. n \in C BY <2>4, <2>7
  <2> QED BY <2>2, <2>8 DEF C
<1> QED BY <1>1, <1>2, <1>3

-----------------------------------------------------------------------------
(* Readers.                                                                *)

IsReader(r) ==
  /\ r = [nodes |-> r.nodes, offset |-> r.offset, constant |-> r.constant]
  /\ Arrays(r.nodes) /\ r.offset \in Nat
  /\ IsConstant(r) => r.nodes = <<>>
  /\ r.offset # 0 => r.nodes # <<>> /\ r.offset < Len(r.nodes[1])

LEMMA InputIsReader ==
  ASSUME NEW r, IsInput(r)
  PROVE  IsReader(r)
<1>1. r = [nodes |-> r.nodes, offset |-> 0, constant |-> r.constant] BY DEF IsInput
<1>2. r.offset = 0 BY <1>1
<1> QED BY <1>1, <1>2 DEF IsInput, IsReader, Arrays

LEMMA LeftIs ==
  ASSUME NEW r, IsReader(r)
  PROVE  LeftOf(r) = Total(r.nodes) - r.offset /\ LeftOf(r) \in Int
<1>1. Total(r.nodes) \in Nat BY FlattenedIsList DEF IsReader
<1> QED BY <1>1 DEF LeftOf, Total, Flattened, IsReader

(* A list is its first arrays and the others. *)
LEMMA ArraysSplit ==
  ASSUME NEW s, Arrays(s), NEW k \in 1 .. Len(s)
  PROVE  /\ Arrays(SubSeq(s, k, Len(s))) /\ SubSeq(s, k, Len(s)) # <<>>
         /\ SubSeq(s, k, Len(s))[1] = s[k]
         /\ Len(SubSeq(s, k, Len(s))) = Len(s) + 1 - k
         /\ (\A i \in 1 .. (k - 1) : s[i] = <<>>) => FlattenSeq(SubSeq(s, k, Len(s))) = FlattenSeq(s)
<1>1. IsList(s) /\ Len(s) \in Nat BY ListIs DEF Arrays
<1> DEFINE t == SubSeq(s, k, Len(s))
           h == SubSeq(s, 1, k - 1)
<1>2. /\ IsList(t) /\ Len(t) = Len(s) + 1 - k
      /\ \A i \in 1 .. (Len(s) + 1 - k) : t[i] = s[k - 1 + i]
  <2>1. k \in Nat /\ 1 <= k /\ k <= Len(s) + 1 BY <1>1
  <2> QED BY <1>1, <2>1, ListSub
<1>3. /\ IsList(h) /\ Len(h) = k - 1
      /\ \A i \in 1 .. (k - 1) : h[i] = s[i]
  <2> DEFINE m == k - 1
  <2>1. m \in Nat /\ 1 \in Nat /\ 1 <= m + 1 /\ m <= Len(s) /\ m + 1 - 1 = m
    BY <1>1
  <2> HIDE DEF m
  <2>2. /\ IsList(SubSeq(s, 1, m)) /\ Len(SubSeq(s, 1, m)) = m
        /\ \A i \in 1 .. m : SubSeq(s, 1, m)[i] = s[1 - 1 + i]
    BY <1>1, <2>1, ListSub
  <2>3. \A i \in 1 .. m : 1 - 1 + i = i BY <2>1
  <2> QED BY <2>2, <2>3 DEF m
<1> HIDE DEF t, h
<1>4. \A i \in 1 .. Len(s) : IsList(s[i]) BY DEF Arrays
<1>5. Arrays(t)
  <2>1. \A i \in 1 .. (Len(s) + 1 - k) : k - 1 + i \in 1 .. Len(s) BY <1>1
  <2> QED BY <1>2, <1>4, <2>1 DEF Arrays
<1>6. Arrays(h)
  <2>1. \A i \in 1 .. (k - 1) : i \in 1 .. Len(s) BY <1>1
  <2> QED BY <1>3, <1>4, <2>1 DEF Arrays
<1>7. t[1] = s[k] /\ t # <<>>
  <2>1. 1 \in 1 .. (Len(s) + 1 - k) /\ k - 1 + 1 = k /\ Len(s) + 1 - k # 0 BY <1>1
  <2> QED BY <1>2, <2>1, ListEmpty
<1>8. h \o t = s
  <2>0. PICK u : u = h \o t OBVIOUS
  <2>1. /\ IsList(u) /\ Len(u) = Len(h) + Len(t)
        /\ \A i \in 1 .. Len(h) : u[i] = h[i]
        /\ \A i \in 1 .. Len(t) : u[Len(h) + i] = t[i]
    <3>3. IsList(h \o t) /\ Len(h \o t) = Len(h) + Len(t)
      BY <1>2, <1>3, ListConcat
    <3>4. \A i \in 1 .. Len(h) : (h \o t)[i] = h[i]
      BY <1>2, <1>3, ListConcat
    <3>5. \A i \in 1 .. Len(t) : (h \o t)[Len(h) + i] = t[i]
      BY <1>2, <1>3, ListConcat
    <3> QED BY ONLY <2>0, <3>3, <3>4, <3>5
  <2>2. Len(u) = Len(s) BY <1>1, <1>2, <1>3, <2>1
  <2>3. ASSUME NEW i \in 1 .. Len(u) PROVE u[i] = s[i]
    <3>1. CASE i <= k - 1
      <4>1. i \in 1 .. (k - 1) BY <2>2, <1>1, <3>1
      <4> QED BY <1>3, <2>1, <4>1
    <3>2. CASE ~ (i <= k - 1)
      <4>1. PICK j : j = i - (k - 1) OBVIOUS
      <4>2. j \in 1 .. (Len(s) + 1 - k) /\ (k - 1) + j = i /\ k - 1 + j = i
        BY <1>1, <2>2, <3>2, <4>1
      <4>3. u[(k - 1) + j] = t[j] BY <1>2, <1>3, <2>1, <4>2
      <4>4. t[j] = s[k - 1 + j] BY <1>2, <4>2
      <4> QED BY <4>2, <4>3, <4>4
    <3> QED BY <3>1, <3>2
  <2> QED BY <1>1, <2>0, <2>1, <2>2, <2>3, ListSame
<1>9. ASSUME \A i \in 1 .. (k - 1) : s[i] = <<>> PROVE FlattenSeq(t) = FlattenSeq(s)
  <2>1. FlattenSeq(h) = <<>> BY <1>3, <1>6, <1>9, FlattenedOfEmpty
  <2>2. FlattenSeq(s) = FlattenSeq(h) \o FlattenSeq(t) BY <1>5, <1>6, <1>8, FlattenedConcat
  <2>3. IsList(FlattenSeq(t)) BY <1>5, FlattenedIsList
  <2> QED BY <2>1, <2>2, <2>3, JoinedToNone
<1> QED BY <1>2, <1>5, <1>7, <1>9 DEF t

(* The reader skips empty arrays and leaves as many items.                 *)
LEMMA AtItemsReads ==
  ASSUME NEW r, IsReader(r), NEW s, s = AtItems(r)
  PROVE  /\ IsReader(s) /\ s.offset = r.offset /\ s.constant = r.constant
         /\ LeftOf(s) = LeftOf(r) /\ FlattenSeq(s.nodes) = FlattenSeq(r.nodes)
         /\ s.nodes # <<>> => s.nodes[1] # <<>>
<1> DEFINE I == {i \in 1 .. Len(r.nodes) : r.nodes[i] # <<>>}
<1>1. /\ IsList(r.nodes) /\ Arrays(r.nodes) /\ Len(r.nodes) \in Nat
      /\ r = [nodes |-> r.nodes, offset |-> r.offset, constant |-> r.constant]
      /\ r.offset \in Nat
  BY ListIs DEF IsReader, Arrays
<1>2. CASE I = {}
  <2>1. s = [r EXCEPT !.nodes = <<>>]
    BY <1>2 DEF AtItems, SelectInSeq
  <2>2. s = [nodes |-> <<>>, offset |-> r.offset, constant |-> r.constant]
    BY <1>1, <2>1
  <2>3. r.offset = 0
    <3>1. SUFFICES ASSUME r.offset # 0 PROVE FALSE OBVIOUS
    <3>2. r.nodes # <<>> /\ r.offset < Len(r.nodes[1]) BY <3>1 DEF IsReader
    <3>3. Len(r.nodes) # 0 BY <1>1, <3>2, ListEmpty, ListSame
    <3>4. 1 \in 1 .. Len(r.nodes) BY <1>1, <3>3
    <3>5. r.nodes[1] = <<>> BY <1>2, <3>4
    <3> QED BY <1>1, <3>2, <3>5, ListEmpty
  <2>4. FlattenSeq(r.nodes) = <<>> /\ Total(r.nodes) = 0
    BY <1>1, <1>2, FlattenedOfEmpty, ListEmpty DEF Total
  <2>5. Arrays(<<>>) /\ Total(<<>>) = 0
    BY ListEmpty, FlattenedEmpty DEF Arrays, Total
  <2>6. IsReader(s)
    BY <1>1, <2>2, <2>3, <2>5 DEF IsReader
  <2> QED BY <2>2, <2>3, <2>4, <2>5, <2>6, LeftIs, FlattenedEmpty
<1>3. CASE I # {}
  <2>1. PICK k \in I : \A j \in I : k <= j
    <3>1. I \subseteq 0 .. Len(r.nodes) BY <1>1
    <3> HIDE DEF I
    <3> QED BY <1>1, <1>3, <3>1, LeastExists
  <2>2. Min(I) = k
    <3>1. \A x \in I : (\A y \in I : x <= y) => x = k
      <4>1. \A x \in I : x \in Int BY <1>1
      <4> HIDE DEF I
      <4> QED BY <2>1, <4>1
    <3> HIDE DEF I
    <3> QED BY <2>1, <3>1 DEF Min
  <2>3. k \in 1 .. Len(r.nodes) /\ r.nodes[k] # <<>> BY <2>1
  <2>4. s = [r EXCEPT !.nodes = SubSeq(r.nodes, k, Len(r.nodes))]
    <3>1. SelectInSeq(r.nodes, LAMBDA array : array # <<>>) = k
      BY <1>3, <2>2 DEF SelectInSeq
    <3>2. k # 0 BY <1>1, <2>3
    <3> QED BY <3>1, <3>2 DEF AtItems
  <2> DEFINE t == SubSeq(r.nodes, k, Len(r.nodes))
  <2>5. s = [nodes |-> t, offset |-> r.offset, constant |-> r.constant]
    BY <1>1, <2>4
  <2>6. \A i \in 1 .. (k - 1) : r.nodes[i] = <<>>
    <3>1. \A i \in 1 .. (k - 1) : i \in 1 .. Len(r.nodes) /\ ~ (k <= i) BY <1>1, <2>3
    <3> QED BY <2>1, <3>1
  <2>7. /\ Arrays(t) /\ t # <<>> /\ t[1] = r.nodes[k] /\ Total(t) = Total(r.nodes)
        /\ FlattenSeq(t) = FlattenSeq(r.nodes)
    BY <1>1, <2>3, <2>6, ArraysSplit DEF Total
  <2> HIDE DEF t
  <2>8. ~ IsConstant(r)
    BY <1>1, <2>3, ListEmpty DEF IsReader
  <2>9. r.offset # 0 => r.offset < Len(t[1])
    <3>1. SUFFICES ASSUME r.offset # 0 PROVE r.offset < Len(t[1]) OBVIOUS
    <3>2. r.nodes # <<>> /\ r.offset < Len(r.nodes[1]) BY <3>1 DEF IsReader
    <3>3. 1 \in 1 .. Len(r.nodes) BY <1>1, <2>3
    <3>4. r.nodes[1] # <<>> BY <1>1, <3>2, ListEmpty
    <3>5. k = 1 BY <1>1, <2>1, <2>3, <3>3, <3>4
    <3> QED BY <2>7, <3>2, <3>5
  <2>10. IsReader(s)
    BY <1>1, <2>5, <2>7, <2>8, <2>9 DEF IsReader, IsConstant
  <2>11. LeftOf(s) = LeftOf(r) BY <2>5, <2>7, <2>10, LeftIs
  <2> QED BY <2>3, <2>5, <2>7, <2>10, <2>11
<1> QED BY <1>2, <1>3

(* A reader that has not ended is a constant or inside an array.           *)
LEMMA NotEnded ==
  ASSUME NEW r, IsReader(r), ~ Ended(r), ~ IsConstant(r), NEW s, s = AtItems(r)
  PROVE  /\ s.nodes # <<>> /\ IsList(s.nodes) /\ Len(s.nodes) > 0 /\ IsList(s.nodes[1])
         /\ Len(s.nodes[1]) \in Nat /\ r.offset \in Nat /\ r.offset < Len(s.nodes[1])
<1>1. /\ IsReader(s) /\ s.offset = r.offset
      /\ s.nodes # <<>> => s.nodes[1] # <<>>
  BY AtItemsReads
<1>2. s.nodes # <<>> BY DEF Ended
<1>3. IsList(s.nodes) /\ s.offset \in Nat BY <1>1 DEF IsReader, Arrays
<1>4. Len(s.nodes) > 0 BY <1>2, <1>3, ListEmpty, ListSame, ListIs
<1>5. IsList(s.nodes[1]) BY <1>1, <1>3, <1>4, ListIs DEF IsReader, Arrays
<1>6. Len(s.nodes[1]) \in Nat /\ Len(s.nodes[1]) # 0
  <2> DEFINE x == s.nodes[1]
  <2>1. IsList(x) /\ x # <<>> BY <1>1, <1>2, <1>5
  <2> HIDE DEF x
  <2>2. Len(x) \in Nat /\ Len(x) # 0 BY <2>1, ListEmpty, ListSame, ListIs
  <2> QED BY <2>2 DEF x
<1>7. s.offset < Len(s.nodes[1]) BY <1>1, <1>3, <1>6 DEF IsReader
<1> QED BY <1>1, <1>2, <1>3, <1>4, <1>5, <1>6, <1>7

LEMMA CountIs ==
  ASSUME NEW r, IsReader(r), ~ Ended(r), NEW n \in Nat
  PROVE  Count(r, n) \in 0 .. n /\ (n > 0 => Count(r, n) > 0)
<1>1. CASE IsConstant(r) BY <1>1 DEF Count
<1>2. CASE ~ IsConstant(r)
  <2>1. PICK s : s = AtItems(r) OBVIOUS
  <2>2. Len(s.nodes[1]) \in Nat /\ r.offset \in Nat /\ r.offset < Len(s.nodes[1])
    BY <1>2, <2>1, NotEnded
  <2>3. Count(r, n) = Smaller(n, Len(s.nodes[1]) - r.offset) BY <1>2, <2>1 DEF Count
  <2> QED BY <2>2, <2>3 DEF Smaller
<1> QED BY <1>1, <1>2

LEMMA ItemsAre ==
  ASSUME NEW r, IsReader(r), ~ Ended(r), NEW n \in Nat, NEW k \in 0 .. Count(r, n)
  PROVE  IsList(Items(r, k)) /\ Len(Items(r, k)) = k
<1>0. k \in Nat BY CountIs
<1>1. CASE IsConstant(r)
  <2>1. PICK s : s = Items(r, k) OBVIOUS
  <2>2. s = [i \in 1 .. k |-> r.constant[1]] BY <1>1, <2>1 DEF Items
  <2>3. s = [i \in 1 .. k |-> s[i]] BY <2>2
  <2>4. IsList(s) /\ Len(s) = k BY <1>0, <2>3, ListMade
  <2> QED BY <2>1, <2>4
<1>2. CASE ~ IsConstant(r)
  <2>1. PICK s : s = AtItems(r) OBVIOUS
  <2>2. PICK x : x = s.nodes[1] OBVIOUS
  <2>3. IsList(x) /\ Len(x) \in Nat /\ r.offset \in Nat /\ r.offset < Len(x)
    BY <1>2, <2>1, <2>2, NotEnded
  <2>4. Count(r, n) = Smaller(n, Len(x) - r.offset) BY <1>2, <2>1, <2>2 DEF Count
  <2>5. PICK a : a = r.offset + 1 OBVIOUS
  <2>6. PICK b : b = r.offset + k OBVIOUS
  <2>7. a \in Nat /\ b \in Nat /\ 1 <= a /\ a <= b + 1 /\ b <= Len(x) /\ b + 1 - a = k
    <3>1. k <= Len(x) - r.offset
      BY <1>0, <2>3, <2>4 DEF Smaller
    <3>2. PICK o : o = r.offset OBVIOUS
    <3>3. PICK l : l = Len(x) OBVIOUS
    <3>4. k \in Nat /\ o \in Nat /\ l \in Nat /\ k <= l - o /\ a = o + 1 /\ b = o + k
      BY <1>0, <2>3, <2>5, <2>6, <3>1, <3>2, <3>3
    <3>5. a \in Nat /\ b \in Nat /\ 1 <= a /\ a <= b + 1 /\ b <= l /\ b + 1 - a = k
      BY ONLY <3>4
    <3> QED BY <3>3, <3>5
  <2>8. Items(r, k) = SubSeq(x, a, b) BY <1>2, <2>1, <2>2, <2>5, <2>6 DEF Items
  <2>9. IsList(SubSeq(x, a, b)) /\ Len(SubSeq(x, a, b)) = b + 1 - a
    BY <2>3, <2>7, ListSub
  <2> QED BY <2>7, <2>8, <2>9
<1> QED BY <1>1, <1>2

(* Reading k items on takes no more than k.                                *)
LEMMA AdvanceReads ==
  ASSUME NEW r, IsReader(r), ~ Ended(r), NEW n \in Nat, NEW k \in 0 .. Count(r, n)
  PROVE  IsReader(Advance(r, k)) /\ LeftOf(r) - LeftOf(Advance(r, k)) <= k
<1>0. k \in Nat BY CountIs
<1>1. CASE IsConstant(r)
  BY <1>0, <1>1, LeftIs DEF Advance
<1>2. CASE ~ IsConstant(r)
  <2>1. PICK s : s = AtItems(r) OBVIOUS
  <2>2. PICK x : x = s.nodes[1] OBVIOUS
  <2>3. /\ s.nodes # <<>> /\ IsList(s.nodes) /\ Len(s.nodes) > 0
        /\ IsList(x) /\ Len(x) \in Nat /\ r.offset \in Nat /\ r.offset < Len(x)
    BY <1>2, <2>1, <2>2, NotEnded
  <2>4. IsReader(s) /\ s.offset = r.offset /\ LeftOf(s) = LeftOf(r) /\ s.constant = r.constant
    BY <2>1, AtItemsReads
  <2>5. s = [nodes |-> s.nodes, offset |-> s.offset, constant |-> s.constant] /\ Arrays(s.nodes)
    BY <2>4 DEF IsReader
  <2>6. k <= Len(x) - s.offset
    <3>1. Count(r, n) = Smaller(n, Len(x) - r.offset) BY <1>2, <2>1, <2>2 DEF Count
    <3> QED BY <1>0, <2>3, <2>4, <3>1 DEF Smaller
  <2>7. ~ IsConstant(s) BY <1>2, <2>4 DEF IsConstant
  <2>8. LeftOf(s) = Total(s.nodes) - s.offset /\ Total(s.nodes) \in Nat
    BY <2>4, <2>5, LeftIs, FlattenedIsList
  <2>9. CASE s.offset + k < Len(x)
    <3>1. PICK a : a = Advance(r, k) OBVIOUS
    <3>2. a = [s EXCEPT !.offset = @ + k] BY <1>2, <2>1, <2>2, <2>9, <3>1 DEF Advance
    <3>3. a = [nodes |-> s.nodes, offset |-> s.offset + k, constant |-> s.constant]
      BY <2>5, <3>2
    <3>4. a.nodes = s.nodes /\ a.offset = s.offset + k /\ a.constant = s.constant BY <3>3
    <3>5. IsReader(a)
      BY <1>0, <2>2, <2>3, <2>4, <2>5, <2>7, <2>9, <3>3, <3>4 DEF IsReader, IsConstant
    <3>6. LeftOf(a) = Total(s.nodes) - (s.offset + k) BY <3>4, <3>5, LeftIs
    <3> QED BY <1>0, <2>3, <2>4, <2>8, <3>1, <3>5, <3>6
  <2>10. CASE ~ (s.offset + k < Len(x))
    <3>1. PICK a : a = Advance(r, k) OBVIOUS
    <3>2. a = [s EXCEPT !.nodes = Tail(@), !.offset = 0]
      BY <1>2, <2>1, <2>2, <2>10, <3>1 DEF Advance
    <3>3. a = [nodes |-> Tail(s.nodes), offset |-> 0, constant |-> s.constant]
      BY <2>5, <3>2
    <3>4. a.nodes = Tail(s.nodes) /\ a.offset = 0 /\ a.constant = s.constant BY <3>3
    <3>5. Arrays(Tail(s.nodes)) /\ Total(s.nodes) = Len(x) + Total(Tail(s.nodes))
      BY <2>2, <2>3, <2>5, TotalTail
    <3>6. IsReader(a) BY <2>7, <3>3, <3>4, <3>5 DEF IsReader, IsConstant
    <3>7. LeftOf(a) = Total(Tail(s.nodes)) /\ Total(Tail(s.nodes)) \in Nat
      BY <3>4, <3>5, <3>6, LeftIs, FlattenedIsList
    <3> QED BY <1>0, <2>3, <2>4, <2>6, <2>8, <2>10, <3>1, <3>5, <3>6, <3>7
  <2> QED BY <2>9, <2>10
<1> QED BY <1>1, <1>2

(* One item. *)
LEMMA PastReads ==
  ASSUME NEW r, IsReader(r), ~ Ended(r)
  PROVE  IsReader(Past(r)) /\ LeftOf(r) - LeftOf(Past(r)) <= 1
<1>1. Count(r, 1) \in 0 .. 1 /\ Count(r, 1) > 0 BY CountIs
<1>2. 1 \in 0 .. Count(r, 1) BY <1>1
<1> QED BY <1>2, AdvanceReads DEF Past

-----------------------------------------------------------------------------
(* The invariant.                                                          *)

Careful == InStep \cup {"merge"}

Gen(op, n, held, other, done, a, b, stack, state) ==
  [op |-> op, n |-> n, held |-> held, other |-> other, done |-> done, a |-> a, b |-> b,
   stack |-> stack, state |-> state]
IsGen(g, op) ==
  /\ g = Gen(g.op, g.n, g.held, g.other, g.done, g.a, g.b, g.stack, g.state)
  /\ g.op = op /\ g.n \in Int /\ IsReader(g.a) /\ IsReader(g.b)

(* How many items of input i the generator g has read. *)
ReadA(i, g) == LeftOf(i.a) - LeftOf(g.a)
ReadB(i, g) == LeftOf(i.b) - LeftOf(g.b)

(* When merge has begun it holds an item that it has not written. *)
Holds(g) == IF g.state = "once" THEN 0 ELSE 1

GivenOK ==
  /\ given.op \in DOMAIN Inputs /\ given \in Inputs[given.op]
  /\ blockSize \in BlockSizes
BlockOK == left \in Nat /\ IsList(block) /\ (pulling \/ block = <<>>)
InStepOK ==
  given.op \in InStep => Arrays(out) /\ ReadA(given, gen) <= Total(out) + Len(block)
MergeOK ==
  given.op = "merge" /\ ~ ended =>
    /\ Arrays(out)
    /\ ReadA(given, gen) + ReadB(given, gen) <= Total(out) + Len(block) + Holds(gen)
IInv ==
  given.op \in Careful => GivenOK /\ IsGen(gen, given.op) /\ BlockOK /\ InStepOK /\ MergeOK

LEMMA GivenIs ==
  ASSUME GivenOK
  PROVE  IsReader(given.a) /\ IsReader(given.b) /\ given.n \in Nat /\ blockSize \in Nat \ {0}
<1>1. IsInput(given.a) /\ IsInput(given.b) /\ given.n \in Nat
  BY StreamOpsAssumption DEF GivenOK
<1>2. blockSize \in Nat \ {0} BY StreamOpsAssumption DEF GivenOK
<1> QED BY <1>1, <1>2, InputIsReader

LEMMA ReadsAre ==
  ASSUME GivenOK, NEW g, IsGen(g, given.op)
  PROVE  /\ ReadA(given, g) = LeftOf(given.a) - LeftOf(g.a)
         /\ ReadB(given, g) = LeftOf(given.b) - LeftOf(g.b)
         /\ LeftOf(given.a) \in Int /\ LeftOf(g.a) \in Int
         /\ LeftOf(given.b) \in Int /\ LeftOf(g.b) \in Int
BY GivenIs, LeftIs DEF ReadA, ReadB, IsGen

LEMMA InitOK == Init => IInv
<1> SUFFICES ASSUME Init, given.op \in Careful
             PROVE  GivenOK /\ IsGen(gen, given.op) /\ BlockOK /\ InStepOK /\ MergeOK
  BY DEF IInv
<1>1. GivenOK
  <2>1. PICK op \in DOMAIN Inputs : given \in Inputs[op] BY DEF Init
  <2>2. given.op = op BY <2>1, StreamOpsAssumption
  <2> QED BY <2>1, <2>2 DEF GivenOK, Init
<1>2. /\ gen = [op |-> given.op, n |-> given.n, held |-> HeldFirst(given), other |-> 0,
                done |-> FALSE, a |-> given.a, b |-> given.b, stack |-> <<>>, state |-> "once"]
  <2>1. given.op # "cat" BY DEF Careful, InStep
  <2> QED BY <2>1 DEF Init, Made
<1>3. /\ gen.a = given.a /\ gen.b = given.b /\ gen.op = given.op
      /\ gen.n = given.n /\ gen.state = "once"
  BY <1>2
<1>4. IsGen(gen, given.op) BY <1>1, <1>2, <1>3, GivenIs DEF IsGen, Gen
<1>5. BlockOK BY ListEmpty DEF Init, BlockOK
<1>6. Arrays(out) /\ Total(out) = 0 /\ Len(block) = 0
  BY ListEmpty, FlattenedEmpty DEF Init, Arrays, Total
<1>7. ReadA(given, gen) = 0 /\ ReadB(given, gen) = 0
  BY <1>1, <1>3, <1>4, ReadsAre
<1>8. InStepOK BY <1>6, <1>7 DEF InStepOK
<1>9. MergeOK BY <1>3, <1>6, <1>7 DEF MergeOK, Holds
<1> QED BY <1>1, <1>4, <1>5, <1>8, <1>9

(* What the steps of a generator that is being followed start from. *)
Followed ==
  /\ given.op \in Careful /\ GivenOK /\ IsGen(gen, given.op) /\ BlockOK
  /\ InStepOK /\ MergeOK

(* A piece is written.                                                     *)
LEMMA Writes ==
  ASSUME Followed, pulling, NEW items, NEW g, Write(items, g),
         IsList(items), Len(items) <= left, IsGen(g, given.op),
         given.op \in InStep => LeftOf(gen.a) - LeftOf(g.a) <= Len(items),
         given.op = "merge" =>
           (LeftOf(gen.a) - LeftOf(g.a)) + (LeftOf(gen.b) - LeftOf(g.b)) + Holds(gen)
             <= Len(items) + Holds(g)
  PROVE  Followed'
<1>1. /\ block' = block \o items /\ left' = left - Len(items) /\ gen' = g
      /\ given' = given /\ blockSize' = blockSize /\ pulling' = pulling
      /\ out' = out /\ ended' = ended
  BY DEF Write, fixed
<1>2. /\ IsList(block) /\ Len(block) \in Nat /\ Len(items) \in Nat /\ left \in Nat
  BY ListIs DEF Followed, BlockOK
<1>3. IsList(block') /\ Len(block') = Len(block) + Len(items)
  BY <1>1, <1>2, ListConcat
<1>4. left' \in Nat BY <1>1, <1>2
<1>5. GivenOK' BY <1>1 DEF Followed, GivenOK
<1>6. IsGen(gen', given'.op) BY <1>1
<1>7. BlockOK' BY <1>1, <1>3, <1>4 DEF BlockOK
<1>8. /\ ReadA(given, gen) = LeftOf(given.a) - LeftOf(gen.a)
      /\ ReadB(given, gen) = LeftOf(given.b) - LeftOf(gen.b)
      /\ ReadA(given, g) = LeftOf(given.a) - LeftOf(g.a)
      /\ ReadB(given, g) = LeftOf(given.b) - LeftOf(g.b)
      /\ LeftOf(given.a) \in Int /\ LeftOf(gen.a) \in Int /\ LeftOf(g.a) \in Int
      /\ LeftOf(given.b) \in Int /\ LeftOf(gen.b) \in Int /\ LeftOf(g.b) \in Int
  BY ReadsAre DEF Followed
<1>9. InStepOK'
  <2> SUFFICES ASSUME given.op \in InStep
               PROVE  Arrays(out) /\ ReadA(given, g) <= Total(out) + Len(block')
    BY <1>1 DEF InStepOK
  <2>1. Arrays(out) /\ ReadA(given, gen) <= Total(out) + Len(block) BY DEF Followed, InStepOK
  <2>2. Total(out) \in Nat BY <2>1, FlattenedIsList
  <2> QED BY <1>2, <1>3, <1>8, <2>1, <2>2, SMTT(30)
<1>10. MergeOK'
  <2> SUFFICES ASSUME given.op = "merge", ~ ended
               PROVE  /\ Arrays(out)
                      /\ ReadA(given, g) + ReadB(given, g) <= Total(out) + Len(block') + Holds(g)
    BY <1>1 DEF MergeOK
  <2>1. /\ Arrays(out)
        /\ ReadA(given, gen) + ReadB(given, gen) <= Total(out) + Len(block) + Holds(gen)
    BY DEF Followed, MergeOK
  <2>2. Total(out) \in Nat /\ Holds(g) \in Nat /\ Holds(gen) \in Nat
    BY <2>1, FlattenedIsList DEF Holds
  <2>3. PICK a : a = LeftOf(gen.a) - LeftOf(g.a) OBVIOUS
  <2>4. PICK b : b = LeftOf(gen.b) - LeftOf(g.b) OBVIOUS
  <2>5. PICK x : x = ReadA(given, gen) OBVIOUS
  <2>6. PICK y : y = ReadB(given, gen) OBVIOUS
  <2>7. /\ a \in Int /\ b \in Int /\ x \in Int /\ y \in Int
        /\ ReadA(given, g) = x + a /\ ReadB(given, g) = y + b
    <3>1. \A p, q, t \in Int : /\ p - q \in Int /\ q - t \in Int
                               /\ p - t = (p - q) + (q - t)
      OBVIOUS
    <3>2. PICK p : p = LeftOf(given.a) OBVIOUS
    <3>3. PICK q : q = LeftOf(gen.a) OBVIOUS
    <3>4. PICK t : t = LeftOf(g.a) OBVIOUS
    <3>5. /\ p \in Int /\ q \in Int /\ t \in Int
          /\ a = q - t /\ x = p - q /\ ReadA(given, g) = p - t
      BY ONLY <1>8, <2>3, <2>5, <3>2, <3>3, <3>4
    <3>6. a \in Int /\ x \in Int /\ ReadA(given, g) = x + a BY ONLY <3>1, <3>5
    <3>7. PICK p2 : p2 = LeftOf(given.b) OBVIOUS
    <3>8. PICK q2 : q2 = LeftOf(gen.b) OBVIOUS
    <3>9. PICK t2 : t2 = LeftOf(g.b) OBVIOUS
    <3>10. /\ p2 \in Int /\ q2 \in Int /\ t2 \in Int
           /\ b = q2 - t2 /\ y = p2 - q2 /\ ReadB(given, g) = p2 - t2
      BY ONLY <1>8, <2>4, <2>6, <3>7, <3>8, <3>9
    <3>11. b \in Int /\ y \in Int /\ ReadB(given, g) = y + b BY ONLY <3>1, <3>10
    <3> QED BY <3>6, <3>11
  <2>8. a + b + Holds(gen) <= Len(items) + Holds(g)
    BY <2>3, <2>4
  <2>9. x + y <= Total(out) + Len(block) + Holds(gen)
    BY <2>1, <2>5, <2>6
  <2>10. (x + a) + (y + b) <= Total(out) + (Len(block) + Len(items)) + Holds(g)
    BY <1>2, <2>2, <2>7, <2>8, <2>9, SMTT(30)
  <2> QED BY <1>3, <2>1, <2>7, <2>10
<1> QED BY <1>1, <1>5, <1>6, <1>7, <1>9, <1>10 DEF Followed

(* The end of the list, or the array that has been filled, is a node.      *)
LEMMA Ends ==
  ASSUME Followed, End
  PROVE  Followed'
<1>1. /\ ended' = TRUE /\ out' = Append(out, <<>>)
      /\ given' = given /\ blockSize' = blockSize /\ gen' = gen
      /\ pulling' = pulling /\ left' = left /\ block' = block
  BY DEF End, fixed
<1>2. InStepOK'
  <2> SUFFICES ASSUME given.op \in InStep
               PROVE  Arrays(out') /\ ReadA(given, gen) <= Total(out') + Len(block)
    BY <1>1 DEF InStepOK
  <2>1. Arrays(out) /\ ReadA(given, gen) <= Total(out) + Len(block) BY DEF Followed, InStepOK
  <2>2. Arrays(out') /\ Total(out') = Total(out) + 0 BY <1>1, <2>1, TotalAppend, ListEmpty
  <2>3. Total(out) \in Nat BY <2>1, FlattenedIsList
  <2> QED BY <2>1, <2>2, <2>3
<1>3. MergeOK' BY <1>1 DEF MergeOK
<1>4. GivenOK' /\ IsGen(gen', given'.op) /\ BlockOK'
  BY <1>1 DEF Followed, GivenOK, BlockOK
<1> QED BY <1>1, <1>2, <1>3, <1>4 DEF Followed

(* An exception leaves the pull: nothing more is read or written.          *)
LEMMA Escapes ==
  ASSUME Followed, Escape(<<>>)
  PROVE  Followed'
<1>1. /\ block' = block \o <<>> /\ left' = left - Len(<<>>)
      /\ given' = given /\ blockSize' = blockSize /\ gen' = gen /\ pulling' = pulling
      /\ out' = out /\ ended' = ended
  BY DEF Escape, fixed
<1>2. IsList(block) /\ left \in Nat BY DEF Followed, BlockOK
<1>3. block' = block /\ left' = left BY <1>1, <1>2, JoinedToNone, ListEmpty
<1>4. InStepOK' /\ MergeOK' BY <1>1, <1>3 DEF Followed, InStepOK, MergeOK
<1>5. GivenOK' /\ IsGen(gen', given'.op) /\ BlockOK'
  BY <1>1, <1>3 DEF Followed, GivenOK, BlockOK
<1> QED BY <1>1, <1>4, <1>5 DEF Followed

LEMMA Produces ==
  ASSUME Followed, Produce
  PROVE  Followed'
<1>1. /\ out' = Append(out, block) /\ pulling' = FALSE /\ left' = 0 /\ block' = <<>>
      /\ given' = given /\ blockSize' = blockSize /\ gen' = gen /\ ended' = ended
  BY DEF Produce, fixed
<1>2. IsList(block) /\ Len(block) \in Nat /\ Len(block') = 0
  BY <1>1, ListIs, ListEmpty DEF Followed, BlockOK
<1>3. ASSUME Arrays(out)
      PROVE  Arrays(out') /\ Total(out') = Total(out) + Len(block) /\ Total(out) \in Nat
  BY <1>1, <1>2, <1>3, TotalAppend, FlattenedIsList
<1>4. InStepOK' BY <1>1, <1>2, <1>3 DEF Followed, InStepOK
<1>5. MergeOK'
  <2> SUFFICES ASSUME given.op = "merge", ~ ended
               PROVE  /\ Arrays(out')
                      /\ ReadA(given, gen) + ReadB(given, gen)
                           <= Total(out') + Len(block') + Holds(gen)
    BY <1>1 DEF MergeOK
  <2>1. /\ Arrays(out)
        /\ ReadA(given, gen) + ReadB(given, gen) <= Total(out) + Len(block) + Holds(gen)
    BY DEF Followed, MergeOK
  <2>2. Total(out') + Len(block') = Total(out) + Len(block) BY <1>2, <1>3, <2>1
  <2> QED BY <1>3, <2>1, <2>2
<1>6. BlockOK' BY <1>1, ListEmpty DEF BlockOK
<1>7. GivenOK' /\ IsGen(gen', given'.op) BY <1>1 DEF Followed, GivenOK
<1> QED BY <1>1, <1>4, <1>5, <1>6, <1>7 DEF Followed

(* A generator with these members. *)
LEMMA GenWith ==
  ASSUME NEW op, NEW n, NEW held, NEW other, NEW done, NEW a, NEW b, NEW stack, NEW state,
         n \in Int, IsReader(a), IsReader(b)
  PROVE  /\ IsGen(Gen(op, n, held, other, done, a, b, stack, state), op)
         /\ Gen(op, n, held, other, done, a, b, stack, state).a = a
         /\ Gen(op, n, held, other, done, a, b, stack, state).b = b
         /\ Gen(op, n, held, other, done, a, b, stack, state).state = state
BY DEF IsGen, Gen

LEMMA GenIs ==
  ASSUME NEW g, NEW op, IsGen(g, op)
  PROVE  /\ g = Gen(op, g.n, g.held, g.other, g.done, g.a, g.b, g.stack, g.state)
         /\ g.op = op /\ g.n \in Int /\ IsReader(g.a) /\ IsReader(g.b)
         /\ LeftOf(g.a) \in Int /\ LeftOf(g.b) \in Int
BY LeftIs DEF IsGen

LEMMA Pulls ==
  ASSUME Followed, Pull
  PROVE  Followed'
<1>1. CASE ToFill <= 0
  <2>1. End BY <1>1 DEF Pull
  <2> QED BY <2>1, Ends
<1>2. CASE ~ (ToFill <= 0)
  <2>1. /\ pulling' = TRUE /\ left' = ToFill /\ block' = <<>>
        /\ gen' = IF gen.op = "keep" THEN [gen EXCEPT !.n = @ - ToFill] ELSE gen
        /\ given' = given /\ blockSize' = blockSize /\ out' = out /\ ended' = ended
    BY <1>2 DEF Pull, fixed
  <2>2. block = <<>> BY DEF Pull, MayForce, Followed, BlockOK
  <2>3. /\ IsGen(gen, given.op) /\ gen.op = given.op /\ gen.n \in Int
        /\ IsReader(gen.a) /\ IsReader(gen.b)
    BY DEF Followed, IsGen
  <2>4. blockSize \in Nat BY GivenIs DEF Followed
  <2>5. ToFill \in Int BY <2>3, <2>4 DEF ToFill, Smaller
  <2>6. left' \in Nat BY <1>2, <2>1, <2>5
  <2>7. PICK n \in Int : gen' = Gen(given.op, n, gen.held, gen.other, gen.done, gen.a, gen.b,
                                   gen.stack, gen.state)
    <3>1. CASE gen.op = "keep"
      <4>1. gen.n - ToFill \in Int BY <2>3, <2>5
      <4>2. PICK n \in Int : n = gen.n - ToFill BY <4>1
      <4>3. gen' = [gen EXCEPT !.n = n] BY <2>1, <3>1, <4>2
      <4> QED BY <2>3, <4>3 DEF IsGen, Gen
    <3>2. CASE gen.op # "keep" BY <2>1, <2>3, <3>2 DEF IsGen
    <3> QED BY <3>1, <3>2
  <2>8. /\ IsGen(gen', given.op) /\ gen'.a = gen.a /\ gen'.b = gen.b /\ gen'.state = gen.state
    BY <2>3, <2>7, GenWith
  <2>9. /\ ReadA(given, gen') = ReadA(given, gen) /\ ReadB(given, gen') = ReadB(given, gen)
        /\ Holds(gen') = Holds(gen)
    BY <2>8 DEF ReadA, ReadB, Holds
  <2>10. InStepOK' BY <2>1, <2>2, <2>9 DEF Followed, InStepOK
  <2>11. MergeOK' BY <2>1, <2>2, <2>9 DEF Followed, MergeOK
  <2>12. BlockOK' BY <2>1, <2>6, ListEmpty DEF BlockOK
  <2>13. GivenOK' BY <2>1 DEF Followed, GivenOK
  <2> QED BY <2>1, <2>8, <2>10, <2>11, <2>12, <2>13 DEF Followed
<1> QED BY <1>1, <1>2

-----------------------------------------------------------------------------
(* The turns of the loops.                                                 *)

LEMMA OthersAreNot ==
  ASSUME given.op \in Careful
  PROVE  /\ given.op \notin Walkers
         /\ given.op \notin {"cat", "flat", "keepWhile", "stutter", "spread", "change", "clump",
                             "hops"}
BY DEF Careful, InStep, Walkers

LEMMA SetsDone ==
  ASSUME Followed, pulling, SetDone(gen)
  PROVE  Followed'
<1>1. PICK g : g = [gen EXCEPT !.done = TRUE] OBVIOUS
<1>2. Write(<<>>, g) BY <1>1 DEF SetDone, Remember
<1>3. IsGen(gen, given.op) BY DEF Followed
<1>9. PICK yes : yes = TRUE OBVIOUS
<1>4. g = Gen(given.op, gen.n, gen.held, gen.other, yes, gen.a, gen.b, gen.stack, gen.state)
  BY <1>1, <1>3, <1>9 DEF IsGen, Gen
<1>5. IsGen(g, given.op) /\ g.a = gen.a /\ g.b = gen.b /\ g.state = gen.state
  <2>1. gen.n \in Int /\ IsReader(gen.a) /\ IsReader(gen.b) BY <1>3, GenIs
  <2> QED BY ONLY <1>4, <2>1, GenWith
<1>6. left \in Nat BY DEF Followed, BlockOK
<1>7. LeftOf(gen.a) \in Int /\ LeftOf(gen.b) \in Int /\ Holds(gen) \in Nat /\ Holds(g) = Holds(gen)
  BY <1>3, <1>5, GenIs DEF Holds
<1>8. /\ LeftOf(gen.a) - LeftOf(g.a) <= Len(<<>>)
      /\ (LeftOf(gen.a) - LeftOf(g.a)) + (LeftOf(gen.b) - LeftOf(g.b)) + Holds(gen)
           <= Len(<<>>) + Holds(g)
  BY <1>5, <1>7, ListEmpty
<1> QED BY <1>2, <1>5, <1>6, <1>8, ListEmpty, Writes

(* A piece that is as long as what is read of a, by words other than merge. *)
LEMMA WritesWhatItReads ==
  ASSUME Followed, pulling, given.op # "merge", NEW items, NEW g, Write(items, g),
         IsList(items), Len(items) <= left, IsGen(g, given.op),
         LeftOf(gen.a) - LeftOf(g.a) <= Len(items)
  PROVE  Followed'
BY Writes

LEMMA KeepStep ==
  ASSUME Followed, Keep
  PROVE  Followed'
<1>1. IsGen(gen, given.op) /\ pulling /\ left \in Nat /\ given.op # "merge"
  BY GenIs DEF Followed, BlockOK, Keep, Turn, Filling
<1>2. CASE Ended(gen.a) BY <1>1, <1>2, SetsDone DEF Keep
<1>3. CASE ~ Ended(gen.a)
  <2>1. PICK k : k = Count(gen.a, left) OBVIOUS
  <2>2. PICK a : a = Advance(gen.a, k) OBVIOUS
  <2>3. PICK g : g = [gen EXCEPT !.a = a] OBVIOUS
  <2>4. Write(Items(gen.a, k), g) BY <1>3, <2>1, <2>2, <2>3 DEF Keep
  <2>5. IsReader(gen.a) /\ IsReader(gen.b) /\ gen.n \in Int BY <1>1, GenIs
  <2>6. k \in 0 .. left /\ k \in 0 .. Count(gen.a, left)
    BY <1>1, <1>3, <2>1, <2>5, CountIs
  <2>7. IsList(Items(gen.a, k)) /\ Len(Items(gen.a, k)) = k
    BY <1>1, <1>3, <2>5, <2>6, ItemsAre
  <2>8. IsReader(a) /\ LeftOf(gen.a) - LeftOf(a) <= k
    BY <1>1, <1>3, <2>2, <2>5, <2>6, AdvanceReads
  <2>9. g = Gen(given.op, gen.n, gen.held, gen.other, gen.done, a, gen.b, gen.stack, gen.state)
    BY <1>1, <2>3 DEF IsGen, Gen
  <2>10. IsGen(g, given.op) /\ g.a = a BY <1>1, <2>5, <2>8, <2>9, GenWith
  <2> QED BY <1>1, <2>4, <2>6, <2>7, <2>8, <2>10, WritesWhatItReads
<1> QED BY <1>2, <1>3

LEMMA TakeStep ==
  ASSUME Followed, Take
  PROVE  Followed'
<1>1. IsGen(gen, given.op) /\ pulling /\ left \in Nat /\ given.op = "take"
  BY GenIs DEF Followed, BlockOK, Take, Turn, Filling
<1>0. IsReader(gen.a) /\ IsReader(gen.b) /\ gen.n \in Int BY <1>1, GenIs
<1>2. CASE Ended(gen.a)
  <2>1. PICK g : g = [gen EXCEPT !.done = TRUE] OBVIOUS
  <2>2. PICK o : o = block \o <<>> OBVIOUS
  <2>3. PICK z : z = Zeros(gen.n) OBVIOUS
  <2>4. /\ out' = (out \o <<o>>) \o <<z>> /\ ended' = TRUE
        /\ pulling' = FALSE /\ left' = 0 /\ block' = <<>> /\ gen' = g
        /\ given' = given /\ blockSize' = blockSize
    BY <1>2, <2>1, <2>2, <2>3 DEF Take, ProduceAndLink, fixed
  <2>0. PICK yes : yes = TRUE OBVIOUS
  <2>5. g = Gen(given.op, gen.n, gen.held, gen.other, yes, gen.a, gen.b, gen.stack, gen.state)
    BY <1>1, <2>0, <2>1 DEF IsGen, Gen
  <2>6. IsGen(g, given.op) /\ g.a = gen.a BY <1>0, <1>1, <2>5, GenWith
  <2>7. IsList(z) /\ Len(z) \in Nat
    <3>1. PICK m \in Nat : 1 .. gen.n = 1 .. m
      <4>1. CASE gen.n >= 0 BY <1>0, <4>1
      <4>2. CASE ~ (gen.n >= 0)
        <5>1. 1 .. gen.n = 1 .. 0 BY <1>0, <4>2
        <5> QED BY <5>1
      <4> QED BY <4>1, <4>2
    <3>2. z = [i \in 1 .. m |-> 0] BY <2>3, <3>1 DEF Zeros
    <3>3. z = [i \in 1 .. m |-> z[i]] BY <3>2
    <3> QED BY <3>3, ListMade
  <2>8. IsList(o) /\ Len(o) = Len(block) /\ Len(block) \in Nat
    <3>1. IsList(block) /\ Len(block) \in Nat BY ListIs DEF Followed, BlockOK
    <3> QED BY <2>2, <3>1, ListEmpty, ListConcat
  <2>9. Arrays(out) /\ ReadA(given, gen) <= Total(out) + Len(block) /\ Total(out) \in Nat
    BY <1>1, FlattenedIsList DEF Followed, InStepOK, InStep
  <2>10. /\ Arrays(<<o>>) /\ Total(<<o>>) = Len(block)
         /\ Arrays(<<z>>) /\ Total(<<z>>) = Len(z)
    BY <2>7, <2>8, TotalOne
  <2>11. Arrays(out \o <<o>>) /\ Total(out \o <<o>>) = Total(out) + Len(block)
    BY <2>9, <2>10, ArraysConcat, TotalConcat
  <2>12. Arrays(out') /\ Total(out') = (Total(out) + Len(block)) + Len(z)
    BY <2>4, <2>10, <2>11, ArraysConcat, TotalConcat
  <2>13. ReadA(given, g) = ReadA(given, gen) BY <2>6 DEF ReadA
  <2>14. ReadA(given, gen) \in Int BY <1>1, ReadsAre DEF Followed
  <2>15. ReadA(given, g) <= Total(out') + Len(block')
    BY <2>4, <2>7, <2>8, <2>9, <2>12, <2>13, <2>14, ListEmpty
  <2>16. InStepOK' BY <2>4, <2>12, <2>15 DEF InStepOK
  <2>17. MergeOK' BY <2>4 DEF MergeOK
  <2>18. BlockOK' BY <2>4, ListEmpty DEF BlockOK
  <2>19. GivenOK' BY <2>4 DEF Followed, GivenOK
  <2>20. IsGen(gen', given'.op) /\ given'.op \in Careful BY <2>4, <2>6 DEF Followed
  <2> QED BY <2>16, <2>17, <2>18, <2>19, <2>20 DEF Followed
<1>3. CASE ~ Ended(gen.a)
  <2>1. PICK k : k = Count(gen.a, left) OBVIOUS
  <2>2. PICK a : a = Advance(gen.a, k) OBVIOUS
  <2>3. PICK g : g = [gen EXCEPT !.a = a, !.n = @ - left] OBVIOUS
  <2>4. Write(Items(gen.a, k), g) BY <1>3, <2>1, <2>2, <2>3 DEF Take
  <2>6. k \in 0 .. left /\ k \in 0 .. Count(gen.a, left)
    BY <1>0, <1>1, <1>3, <2>1, CountIs
  <2>7. IsList(Items(gen.a, k)) /\ Len(Items(gen.a, k)) = k
    BY <1>0, <1>1, <1>3, <2>6, ItemsAre
  <2>8. IsReader(a) /\ LeftOf(gen.a) - LeftOf(a) <= k
    BY <1>0, <1>1, <1>3, <2>2, <2>6, AdvanceReads
  <2>9. g = Gen(given.op, gen.n - left, gen.held, gen.other, gen.done, a, gen.b, gen.stack,
                gen.state)
    BY <1>1, <2>3 DEF IsGen, Gen
  <2>10. gen.n - left \in Int BY <1>0, <1>1
  <2>11. IsGen(g, given.op) /\ g.a = a BY <1>0, <1>1, <2>8, <2>9, <2>10, GenWith
  <2> QED BY <1>1, <2>4, <2>6, <2>7, <2>8, <2>11, WritesWhatItReads
<1> QED BY <1>2, <1>3

LEMMA ExpandStep ==
  ASSUME Followed, Expand
  PROVE  Followed'
<1>1. /\ IsGen(gen, given.op) /\ pulling /\ left \in Nat /\ left > 0 /\ given.op # "merge"
      /\ IsReader(gen.a) /\ IsReader(gen.b) /\ gen.n \in Int /\ LeftOf(gen.a) \in Int
  BY GenIs DEF Followed, BlockOK, Expand, Turn, Filling
<1>2. CASE Ended(gen.b) \/ (One(gen.b) # 0 /\ Ended(gen.a))
  BY <1>1, <1>2, SetsDone DEF Expand
<1>3. CASE ~ Ended(gen.b) /\ One(gen.b) = 0
  <2>1. PICK b : b = Past(gen.b) OBVIOUS
  <2>2. PICK g : g = [gen EXCEPT !.b = b] OBVIOUS
  <2>3. Write(<<0>>, g) BY <1>3, <2>1, <2>2 DEF Expand
  <2>4. IsReader(b) BY <1>1, <1>3, <2>1, PastReads
  <2>5. g = Gen(given.op, gen.n, gen.held, gen.other, gen.done, gen.a, b, gen.stack, gen.state)
    BY <1>1, <2>2 DEF IsGen, Gen
  <2>6. IsGen(g, given.op) /\ g.a = gen.a BY <1>1, <2>4, <2>5, GenWith
  <2>7. IsList(<<0>>) /\ Len(<<0>>) = 1 BY ListOne
  <2>8. Len(<<0>>) <= left /\ LeftOf(gen.a) - LeftOf(g.a) <= Len(<<0>>)
    BY <1>1, <2>6, <2>7
  <2> QED BY <1>1, <2>3, <2>6, <2>7, <2>8, WritesWhatItReads
<1>4. CASE ~ Ended(gen.b) /\ One(gen.b) # 0 /\ ~ Ended(gen.a)
  <2>1. PICK b : b = Past(gen.b) OBVIOUS
  <2>2. PICK a : a = Past(gen.a) OBVIOUS
  <2>3. PICK x : x = One(gen.a) OBVIOUS
  <2>4. PICK g : g = [[gen EXCEPT !.b = b] EXCEPT !.a = a] OBVIOUS
  <2>5. g = Gen(given.op, gen.n, gen.held, gen.other, gen.done, a, b, gen.stack, gen.state)
    BY <1>1, <2>4 DEF IsGen, Gen
  <2>6. Write(<<x>>, g)
    <3>1. [[gen EXCEPT !.b = b] EXCEPT !.a = Past(@)] = g
      <4>1. [gen EXCEPT !.b = b].a = gen.a BY <1>1, GenIs
      <4> QED BY <2>2, <2>4, <4>1
    <3> QED BY <1>4, <2>1, <2>3, <3>1 DEF Expand
  <2>7. IsReader(b) /\ IsReader(a) /\ LeftOf(gen.a) - LeftOf(a) <= 1
    BY <1>1, <1>4, <2>1, <2>2, PastReads
  <2>8. IsGen(g, given.op) /\ g.a = a BY <1>1, <2>5, <2>7, GenWith
  <2>9. IsList(<<x>>) /\ Len(<<x>>) = 1 BY ListOne
  <2>10. Len(<<x>>) <= left /\ LeftOf(gen.a) - LeftOf(g.a) <= Len(<<x>>)
    BY <1>1, <2>7, <2>8, <2>9
  <2> QED BY <1>1, <2>6, <2>8, <2>9, <2>10, WritesWhatItReads
<1> QED BY <1>2, <1>3, <1>4

LEMMA ShortAsStep ==
  ASSUME Followed, ShortAs
  PROVE  Followed'
<1>1. /\ IsGen(gen, given.op) /\ pulling /\ left \in Nat /\ left > 0 /\ given.op # "merge"
      /\ IsReader(gen.a) /\ IsReader(gen.b) /\ gen.n \in Int
  BY GenIs DEF Followed, BlockOK, ShortAs, Turn, Filling
<1>2. CASE Ended(gen.a) \/ Ended(gen.b)
  BY <1>1, <1>2, SetsDone DEF ShortAs
<1>3. CASE ~ Ended(gen.a) /\ ~ Ended(gen.b)
  <2>1. PICK n : n = Count(gen.a, left) OBVIOUS
  <2>2. PICK k : k = Count(gen.b, n) OBVIOUS
  <2>3. PICK a : a = Advance(gen.a, k) OBVIOUS
  <2>4. PICK b : b = Advance(gen.b, k) OBVIOUS
  <2>5. PICK g : g = [gen EXCEPT !.a = a, !.b = b] OBVIOUS
  <2>6. Write(Items(gen.a, k), g) BY <1>3, <2>1, <2>2, <2>3, <2>4, <2>5 DEF ShortAs
  <2>7. n \in 0 .. left BY <1>1, <1>3, <2>1, CountIs
  <2>8. n \in Nat BY <1>1, <2>7
  <2>9. k \in 0 .. n /\ k \in 0 .. Count(gen.b, n) BY <1>1, <1>3, <2>2, <2>8, CountIs
  <2>10. k \in 0 .. Count(gen.a, left) /\ k <= left BY <1>1, <2>1, <2>7, <2>9
  <2>11. IsList(Items(gen.a, k)) /\ Len(Items(gen.a, k)) = k
    BY <1>1, <1>3, <2>10, ItemsAre
  <2>12. IsReader(a) /\ LeftOf(gen.a) - LeftOf(a) <= k
    BY <1>1, <1>3, <2>3, <2>10, AdvanceReads
  <2>13. IsReader(b) BY <1>1, <1>3, <2>4, <2>8, <2>9, AdvanceReads
  <2>14. g = Gen(given.op, gen.n, gen.held, gen.other, gen.done, a, b, gen.stack, gen.state)
    BY <1>1, <2>5 DEF IsGen, Gen
  <2>15. IsGen(g, given.op) /\ g.a = a BY <1>1, <2>12, <2>13, <2>14, GenWith
  <2> QED BY <1>1, <2>6, <2>10, <2>11, <2>12, <2>15, WritesWhatItReads
<1> QED BY <1>2, <1>3

(* longas is as long as b; of a it has read what there was.                *)
LEMMA LongAsStep ==
  ASSUME Followed, NEW op \in {"longas", "longas0"}, LongAs(op)
  PROVE  Followed'
<1>1. /\ IsGen(gen, given.op) /\ pulling /\ left \in Nat /\ left > 0 /\ given.op # "merge"
      /\ IsReader(gen.a) /\ IsReader(gen.b) /\ gen.n \in Int /\ LeftOf(gen.a) \in Int
  BY GenIs DEF Followed, BlockOK, LongAs, Turn, Filling
<1>2. CASE Ended(gen.b)
  BY <1>1, <1>2, SetsDone DEF LongAs
<1>3. CASE ~ Ended(gen.b)
  <2>1. PICK n : n = Count(gen.b, left) OBVIOUS
  <2>2. PICK k : k = IF Ended(gen.a) THEN n ELSE Count(gen.a, n) OBVIOUS
  <2>3. PICK last : last = IF op = "longas" THEN gen.held ELSE 0 OBVIOUS
  <2>4. PICK items : items = IF Ended(gen.a) THEN Repeated(last, k) ELSE Items(gen.a, k) OBVIOUS
  <2>5. PICK a : a = IF Ended(gen.a) THEN gen.a ELSE Advance(gen.a, k) OBVIOUS
  <2>6. PICK b : b = Advance(gen.b, k) OBVIOUS
  <2>7. PICK h : h = Last(items) OBVIOUS
  <2>8. PICK g : g = [gen EXCEPT !.b = b, !.held = h, !.a = a] OBVIOUS
  <2>9. Write(items, g)
    <3>1. [gen EXCEPT !.b = Advance(@, k), !.held = Last(items),
                      !.a = IF Ended(@) THEN @ ELSE Advance(@, k)] = g
      BY <1>1, <2>5, <2>6, <2>7, <2>8, GenIs
    <3> QED BY <1>3, <2>1, <2>2, <2>3, <2>4, <3>1 DEF LongAs
  <2>10. n \in 0 .. left BY <1>1, <1>3, <2>1, CountIs
  <2>11. n \in Nat BY <1>1, <2>10
  <2>12. /\ k \in 0 .. n
         /\ ~ Ended(gen.a) => k \in 0 .. Count(gen.a, n)
    BY <1>1, <2>2, <2>11, CountIs
  <2>13. k \in Nat /\ k <= left /\ k \in 0 .. Count(gen.b, left)
    BY <1>1, <2>1, <2>10, <2>12
  <2>14. IsList(items) /\ Len(items) = k
    <3>1. CASE Ended(gen.a)
      <4>1. items = [i \in 1 .. k |-> last] BY <2>4, <3>1 DEF Repeated
      <4>2. items = [i \in 1 .. k |-> items[i]] BY <4>1
      <4> QED BY <2>13, <4>2, ListMade
    <3>2. CASE ~ Ended(gen.a)
      BY <1>1, <2>4, <2>11, <2>12, <3>2, ItemsAre
    <3> QED BY <3>1, <3>2
  <2>15. IsReader(a) /\ LeftOf(gen.a) - LeftOf(a) <= k
    <3>1. CASE Ended(gen.a) BY <1>1, <2>5, <2>13, <3>1
    <3>2. CASE ~ Ended(gen.a) BY <1>1, <2>5, <2>11, <2>12, <3>2, AdvanceReads
    <3> QED BY <3>1, <3>2
  <2>16. IsReader(b) BY <1>1, <1>3, <2>6, <2>13, AdvanceReads
  <2>17. g = Gen(given.op, gen.n, h, gen.other, gen.done, a, b, gen.stack, gen.state)
    BY <1>1, <2>8 DEF IsGen, Gen
  <2>18. IsGen(g, given.op) /\ g.a = a BY <1>1, <2>15, <2>16, <2>17, GenWith
  <2> QED BY <1>1, <2>9, <2>13, <2>14, <2>15, <2>18, WritesWhatItReads
<1> QED BY <1>2, <1>3

LEMMA Scan1Step ==
  ASSUME Followed, Scan1
  PROVE  Followed'
<1>1. /\ IsGen(gen, given.op) /\ pulling /\ left \in Nat /\ left > 0 /\ given.op # "merge"
      /\ IsReader(gen.a) /\ IsReader(gen.b) /\ gen.n \in Int
  BY GenIs DEF Followed, BlockOK, Scan1, Turn, Filling
<1>2. CASE Ended(gen.a)
  BY <1>1, <1>2, SetsDone DEF Scan1
<1>3. CASE Escape(<<>>) BY <1>3, Escapes
<1>4. CASE ~ Ended(gen.a) /\ ~ Escape(<<>>)
  <2>1. PICK a : a = Past(gen.a) OBVIOUS
  <2>2. PICK x, h, st : Write(<<x>>, [gen EXCEPT !.a = a, !.held = h, !.state = st])
    <3>1. CASE gen.state = "once"
      <4>1. Write(<<One(gen.a)>>, [gen EXCEPT !.a = a, !.held = One(gen.a), !.state = "sum"])
        BY <1>4, <2>1, <3>1 DEF Scan1
      <4> QED BY <4>1
    <3>2. CASE gen.state # "once"
      <4>1. PICK sum : sum = gen.held + One(gen.a) OBVIOUS
      <4>2. Write(<<sum>>, [gen EXCEPT !.a = a, !.held = sum])
        BY <1>4, <2>1, <3>2, <4>1 DEF Scan1
      <4>3. [gen EXCEPT !.a = a, !.held = sum]
              = [gen EXCEPT !.a = a, !.held = sum, !.state = gen.state]
        BY <1>1, GenIs
      <4> QED BY <4>2, <4>3
    <3> QED BY <3>1, <3>2
  <2>3. PICK g : g = [gen EXCEPT !.a = a, !.held = h, !.state = st] OBVIOUS
  <2>4. g = Gen(given.op, gen.n, h, gen.other, gen.done, a, gen.b, gen.stack, st)
    BY <1>1, <2>3 DEF IsGen, Gen
  <2>5. IsReader(a) /\ LeftOf(gen.a) - LeftOf(a) <= 1 BY <1>1, <1>4, <2>1, PastReads
  <2>6. IsGen(g, given.op) /\ g.a = a BY <1>1, <2>4, <2>5, GenWith
  <2>7. IsList(<<x>>) /\ Len(<<x>>) = 1 BY ListOne
  <2>8. Len(<<x>>) <= left /\ LeftOf(gen.a) - LeftOf(g.a) <= Len(<<x>>)
    BY <1>1, <2>5, <2>6, <2>7
  <2>9. Write(<<x>>, g) BY <2>2, <2>3
  <2> QED BY <1>1, <2>6, <2>7, <2>8, <2>9, WritesWhatItReads
<1> QED BY <1>2, <1>3, <1>4

(* merge reads one item for each that it writes, and one more at first.    *)
LEMMA MergeStep ==
  ASSUME Followed, Merge
  PROVE  Followed'
<1> DEFINE readsA == Reads("a")
           readsB == Reads("b")
           x == IF readsA THEN One(gen.a) ELSE gen.held
           y == IF readsB THEN One(gen.b) ELSE gen.other
           a == IF readsA THEN Past(gen.a) ELSE gen.a
           b == IF readsB THEN Past(gen.b) ELSE gen.b
           g == [gen EXCEPT !.a = a, !.b = b, !.held = x, !.other = y]
<1>1. /\ IsGen(gen, given.op) /\ pulling /\ left \in Nat /\ left > 0 /\ given.op = "merge"
      /\ IsReader(gen.a) /\ IsReader(gen.b) /\ gen.n \in Int
      /\ LeftOf(gen.a) \in Int /\ LeftOf(gen.b) \in Int
  BY GenIs DEF Followed, BlockOK, Merge, Turn, Filling
<1>2. ASSUME NEW items, NEW nodes, ProduceAndLink(items, nodes) PROVE Followed'
  <2>1. PICK d : d = [gen EXCEPT !.done = TRUE] OBVIOUS
  <2>2. /\ ended' = TRUE /\ pulling' = FALSE /\ left' = 0 /\ block' = <<>> /\ gen' = d
        /\ given' = given /\ blockSize' = blockSize
    BY <1>2, <2>1 DEF ProduceAndLink, fixed
  <2>3. d = Gen(given.op, gen.n, gen.held, gen.other, TRUE, gen.a, gen.b, gen.stack, gen.state)
    BY <1>1, <2>1 DEF IsGen, Gen
  <2>4. IsGen(d, given.op) BY <1>1, <2>3, GenWith
  <2>5. MergeOK' BY <2>2 DEF MergeOK
  <2>6. InStepOK' BY <1>1, <2>2 DEF InStepOK, InStep
  <2>7. BlockOK' BY <2>2, ListEmpty DEF BlockOK
  <2>8. GivenOK' BY <2>2 DEF Followed, GivenOK
  <2>9. IsGen(gen', given'.op) /\ given'.op \in Careful BY <2>2, <2>4 DEF Followed
  <2> QED BY <2>5, <2>6, <2>7, <2>8, <2>9 DEF Followed
<1>3. CASE readsA /\ Ended(gen.a)
  <2>1. ProduceAndLink(IF gen.state = "once" THEN <<>> ELSE <<gen.other>>, Rest(gen.b))
    BY <1>3 DEF Merge
  <2> QED BY <1>2, <2>1
<1>4. CASE ~ (readsA /\ Ended(gen.a)) /\ readsB /\ Ended(gen.b)
  <2>1. ProduceAndLink(<<x>>, Rest(a))
    BY <1>4 DEF Merge
  <2> HIDE DEF x, a
  <2> QED BY <1>2, <2>1
<1>6. CASE Escape(<<>>) BY <1>6, Escapes
<1>5. CASE ~ (readsA /\ Ended(gen.a)) /\ ~ (readsB /\ Ended(gen.b)) /\ ~ Escape(<<>>)
  <2>1. PICK v, st : st \in {"a", "b"} /\ Write(<<v>>, [g EXCEPT !.state = st])
    <3>1. IF x <= y THEN Write(<<x>>, [g EXCEPT !.state = "a"])
          ELSE Write(<<y>>, [g EXCEPT !.state = "b"])
      BY <1>5 DEF Merge
    <3> HIDE DEF x, y, g
    <3> QED BY <3>1
  <2>2. /\ IsReader(a) /\ readsA => LeftOf(gen.a) - LeftOf(a) <= 1
        /\ ~ readsA => LeftOf(gen.a) - LeftOf(a) <= 0
    BY <1>1, <1>5, PastReads
  <2>3. /\ IsReader(b) /\ readsB => LeftOf(gen.b) - LeftOf(b) <= 1
        /\ ~ readsB => LeftOf(gen.b) - LeftOf(b) <= 0
    BY <1>1, <1>5, PastReads
  <2>0. IsReader(a) /\ IsReader(b) BY <1>1, <1>5, PastReads
  <2>4. (readsA /\ readsB) <=> gen.state = "once" BY DEF Reads
  <2> HIDE DEF readsA, readsB, x, y, a, b
  <2>5. PICK r : r = [g EXCEPT !.state = st] OBVIOUS
  <2>6. r = Gen(given.op, gen.n, x, y, gen.done, a, b, gen.stack, st)
    BY <1>1, <2>5 DEF IsGen, Gen
  <2>7. IsGen(r, given.op) /\ r.a = a /\ r.b = b /\ r.state = st
    BY <1>1, <2>0, <2>6, GenWith
  <2>8. IsList(<<v>>) /\ Len(<<v>>) = 1 BY ListOne
  <2>9. Holds(r) = 1 BY <2>1, <2>7 DEF Holds
  <2>10. LeftOf(a) \in Int /\ LeftOf(b) \in Int BY <2>0, LeftIs
  <2>11. (LeftOf(gen.a) - LeftOf(a)) + (LeftOf(gen.b) - LeftOf(b)) + Holds(gen) <= 2
    <3>1. PICK p : p = LeftOf(gen.a) - LeftOf(a) OBVIOUS
    <3>2. PICK q : q = LeftOf(gen.b) - LeftOf(b) OBVIOUS
    <3>3. /\ p \in Int /\ q \in Int /\ p <= 1 /\ q <= 1
          /\ ~ readsA => p <= 0
          /\ ~ readsB => q <= 0
      BY <1>1, <2>0, <2>2, <2>3, <2>10, <3>1, <3>2
    <3>4. CASE gen.state = "once"
      <4>1. Holds(gen) = 0 BY <3>4 DEF Holds
      <4>2. p + q + Holds(gen) <= 2 BY ONLY <3>3, <4>1
      <4> QED BY <3>1, <3>2, <4>2
    <3>5. CASE gen.state # "once"
      <4>1. Holds(gen) = 1 BY <3>5 DEF Holds
      <4>2. p + q <= 1 BY ONLY <2>4, <3>3, <3>5
      <4>3. p + q + Holds(gen) <= 2 BY ONLY <3>3, <4>1, <4>2
      <4> QED BY <3>1, <3>2, <4>3
    <3> QED BY <3>4, <3>5
  <2>12. (LeftOf(gen.a) - LeftOf(r.a)) + (LeftOf(gen.b) - LeftOf(r.b)) + Holds(gen)
           <= Len(<<v>>) + Holds(r)
    BY <2>7, <2>8, <2>9, <2>11
  <2>13. Len(<<v>>) <= left BY <1>1, <2>8
  <2>14. Write(<<v>>, r) BY <2>1, <2>5
  <2>15. given.op \notin InStep BY <1>1 DEF InStep
  <2> QED BY <1>1, <2>7, <2>8, <2>12, <2>13, <2>14, <2>15, Writes
<1> QED BY <1>3, <1>4, <1>5, <1>6

-----------------------------------------------------------------------------
(* The theorem.                                                            *)

LEMMA NextFollowed ==
  ASSUME Followed, Next
  PROVE  Followed'
<1> USE OthersAreNot
<1>0. gen.op = given.op /\ given.op \in Careful BY GenIs DEF Followed
<1>1. CASE EndDone BY <1>1, Ends DEF EndDone
<1>2. CASE Walk BY <1>0, <1>2 DEF Walk
<1>3. CASE Pull BY <1>3, Pulls
<1>4. CASE Produce BY <1>4, Produces
<1>5. CASE Keep BY <1>5, KeepStep
<1>6. CASE Take BY <1>6, TakeStep
<1>7. CASE Cat \/ Flat \/ KeepWhile \/ Stutter \/ Spread \/ Change \/ Clump \/ Hops
  BY <1>0, <1>7 DEF Cat, Flat, KeepWhile, Stutter, Spread, Change, Clump, Hops, Turn, Filling
<1>8. CASE Expand BY <1>8, ExpandStep
<1>9. CASE ShortAs BY <1>9, ShortAsStep
<1>10. CASE LongAs("longas") \/ LongAs("longas0") BY <1>10, LongAsStep
<1>11. CASE Scan1 BY <1>11, Scan1Step
<1>12. CASE Merge BY <1>12, MergeStep
<1>13. CASE Abort
  BY <1>13 DEF Abort, fixed, Followed, GivenOK, BlockOK, InStepOK, MergeOK
<1> QED
  BY <1>1, <1>2, <1>3, <1>4, <1>5, <1>6, <1>7, <1>8, <1>9, <1>10, <1>11, <1>12, <1>13 DEF Next

(* What the generator was made from stays what it is. *)
LEMMA GivenStays ==
  ASSUME [Next]_vars
  PROVE  given' = given
<1>1. CASE Next
  <2>1. CASE EndDone BY <2>1 DEF EndDone, fixed, End
  <2>2. CASE Walk BY <2>2 DEF Walk, Walkers, fixed, End, Pass, Fill
  <2>3. CASE Pull BY <2>3 DEF Pull, fixed, End
  <2>4. CASE Produce BY <2>4 DEF Produce, fixed
  <2>5. CASE Keep BY <2>5 DEF Keep, fixed, Write, Remember, SetDone
  <2>6. CASE Take BY <2>6 DEF Take, fixed, Write, Remember, SetDone, ProduceAndLink
  <2>7. CASE Cat BY <2>7 DEF Cat, fixed, Write, Remember, SetDone, ApplyThrows, Escape
  <2>8. CASE Flat BY <2>8 DEF Flat, fixed, Write, Remember, SetDone
  <2>9. CASE KeepWhile BY <2>9 DEF KeepWhile, fixed, Write, Remember, SetDone, Escape
  <2>10. CASE Stutter BY <2>10 DEF Stutter, fixed, Write, Remember, SetDone, ApplyThrows, Escape, PadWith
  <2>11. CASE Spread BY <2>11 DEF Spread, fixed, Write, Remember, SetDone, ApplyThrows, Escape, PadWith
  <2>12. CASE Change BY <2>12 DEF Change, fixed, Write, Remember, SetDone
  <2>13. CASE Expand BY <2>13 DEF Expand, fixed, Write, Remember, SetDone
  <2>14. CASE Clump BY <2>14 DEF Clump, fixed, Write, Remember, SetDone
  <2>15. CASE ShortAs BY <2>15 DEF ShortAs, fixed, Write, Remember, SetDone
  <2>16. CASE Scan1 BY <2>16 DEF Scan1, fixed, Write, Remember, SetDone, Escape
  <2>17. CASE Hops BY <2>17 DEF Hops, fixed, Write, Remember, SetDone
  <2>18. CASE Merge BY <2>18 DEF Merge, fixed, Write, Remember, SetDone, ProduceAndLink, Escape
  <2>19. CASE LongAs("longas") \/ LongAs("longas0")
    BY <2>19 DEF LongAs, fixed, Write, Remember, SetDone
  <2>20. CASE Abort BY <2>20 DEF Abort, fixed
  <2> QED BY <1>1, <2>1, <2>2, <2>3, <2>4, <2>5, <2>6, <2>7, <2>8, <2>9, <2>10,
             <2>11, <2>12, <2>13, <2>14, <2>15, <2>16, <2>17, <2>18, <2>19, <2>20 DEF Next
<1>2. CASE UNCHANGED vars BY <1>2 DEF vars
<1> QED BY <1>1, <1>2

LEMMA StepOK == IInv /\ [Next]_vars => IInv'
<1> SUFFICES ASSUME IInv, [Next]_vars PROVE IInv'
  OBVIOUS
<1>1. SUFFICES ASSUME given.op \in Careful PROVE IInv'
  BY GivenStays DEF IInv
<1>2. Followed BY <1>1 DEF IInv, Followed
<1>3. CASE Next
  <2>1. Followed' BY <1>2, <1>3, NextFollowed
  <2> QED BY <2>1 DEF Followed, IInv
<1>4. CASE UNCHANGED vars
  <2>1. /\ given' = given /\ blockSize' = blockSize /\ gen' = gen /\ pulling' = pulling
        /\ left' = left /\ block' = block /\ out' = out /\ ended' = ended
    BY <1>4 DEF vars
  <2>2. GivenOK' /\ IsGen(gen', given'.op) /\ BlockOK'
    BY <1>2, <2>1 DEF Followed, GivenOK, BlockOK
  <2>3. InStepOK' /\ MergeOK' BY <1>2, <2>1 DEF Followed, InStepOK, MergeOK
  <2> QED BY <2>2, <2>3 DEF IInv
<1> QED BY <1>3, <1>4

(* The items written are those of the nodes and of the block. *)
LEMMA WrittenIs ==
  ASSUME Arrays(out), IsList(block)
  PROVE  Len(Written) = Total(out) + Len(block)
BY FlattenedIsList, ListConcat DEF Written, Total

LEMMA ReadsFollow == IInv => ReadsWhatItWrites
<1> SUFFICES ASSUME IInv PROVE ReadsWhatItWrites
  OBVIOUS
<1>1. ASSUME given.op \in InStep
      PROVE  LeftOf(given.a) - LeftOf(gen.a) <= Len(Written)
  <2>1. given.op \in Careful BY <1>1 DEF Careful
  <2>2. /\ Arrays(out) /\ ReadA(given, gen) <= Total(out) + Len(block) /\ IsList(block)
    BY <1>1, <2>1 DEF IInv, InStepOK, BlockOK
  <2> QED BY <2>2, WrittenIs DEF ReadA
<1>2. ASSUME given.op = "merge", ~ ended
      PROVE  (LeftOf(given.a) - LeftOf(gen.a)) + LeftOf(given.b) - LeftOf(gen.b)
               <= Len(Written) + 1
  <2>1. given.op \in Careful BY <1>2 DEF Careful
  <2>2. /\ Arrays(out) /\ IsList(block)
        /\ ReadA(given, gen) + ReadB(given, gen) <= Total(out) + Len(block) + Holds(gen)
    BY <1>2, <2>1 DEF IInv, MergeOK, BlockOK
  <2>3. Len(Written) = Total(out) + Len(block) /\ Len(Written) \in Nat
    BY <2>2, WrittenIs, FlattenedIsList, ListIs
  <2>4. /\ ReadA(given, gen) = LeftOf(given.a) - LeftOf(gen.a)
        /\ ReadB(given, gen) = LeftOf(given.b) - LeftOf(gen.b)
        /\ LeftOf(given.a) \in Int /\ LeftOf(gen.a) \in Int
        /\ LeftOf(given.b) \in Int /\ LeftOf(gen.b) \in Int
    BY <2>1, ReadsAre DEF IInv
  <2>5. \A p, q, t, u, w \in Int :
          (p - q) + (t - u) <= w + 1 => (p - q) + t - u <= w + 1
    OBVIOUS
  <2>6. Holds(gen) \in {0, 1} BY DEF Holds
  <2>7. ReadA(given, gen) + ReadB(given, gen) <= Len(Written) + 1
    <3>1. ReadA(given, gen) \in Int /\ ReadB(given, gen) \in Int BY <2>4
    <3> QED BY ONLY <2>2, <2>3, <2>6, <3>1
  <2> QED BY ONLY <2>3, <2>4, <2>5, <2>7
<1> QED BY <1>1, <1>2 DEF ReadsWhatItWrites

(* Whatever the inputs and however they are divided into arrays, a         *)
(* generator that writes as many items as it reads has read no more than   *)
(* it has written, and merge one more: a list that is defined by itself    *)
(* does not wait for itself.                                               *)
THEOREM NoReadingAhead == Spec => []ReadsWhatItWrites
<1>1. Spec => []IInv
  BY InitOK, StepOK, PTL DEF Spec
<1> QED BY <1>1, ReadsFollow, PTL

-----------------------------------------------------------------------------
(* What is left of a list after its first k items, and pieces put together. *)
After(s, k) == SubSeq(s, k + 1, Len(s))

LEMMA AfterIs ==
  ASSUME NEW s, IsList(s), NEW k \in Nat, k <= Len(s)
  PROVE  /\ IsList(After(s, k)) /\ Len(After(s, k)) = Len(s) - k
         /\ \A i \in 1 .. Len(s) - k : After(s, k)[i] = s[k + i]
<1>1. Len(s) \in Nat BY ListIs
<1>2. PICK a : a = k + 1 OBVIOUS
<1>3. PICK l : l = Len(s) OBVIOUS
<1>4. a \in Nat /\ l \in Nat /\ 1 <= a /\ a <= l + 1 /\ l <= Len(s) /\ l + 1 - a = l - k
  BY <1>1, <1>2, <1>3
<1>5. /\ IsList(SubSeq(s, a, l)) /\ Len(SubSeq(s, a, l)) = l - k
      /\ \A i \in 1 .. l - k : SubSeq(s, a, l)[i] = s[a - 1 + i]
  BY <1>4, ListSub
<1>6. \A i \in 1 .. l - k : a - 1 + i = k + i BY <1>2, <1>3, <1>4
<1> QED BY <1>2, <1>3, <1>5, <1>6 DEF After

LEMMA AfterTo ==
  ASSUME NEW s, NEW k \in Nat, NEW u, IsList(s), k <= Len(s), u = After(s, k)
  PROVE  /\ IsList(u) /\ Len(u) = Len(s) - k
         /\ \A i \in 1 .. Len(u) : u[i] = s[k + i]
BY AfterIs

LEMMA FirstIs ==
  ASSUME NEW s, IsList(s), NEW n \in Nat
  PROVE  /\ IsList(FirstOf(s, n)) /\ Len(FirstOf(s, n)) = Smaller(n, Len(s))
         /\ \A i \in 1 .. Smaller(n, Len(s)) : FirstOf(s, n)[i] = s[i]
<1>1. Len(s) \in Nat BY ListIs
<1>2. PICK m : m = Smaller(n, Len(s)) OBVIOUS
<1>3. m \in Nat /\ m <= Len(s) /\ m + 1 - 1 = m /\ 1 <= m + 1 /\ 1 \in Nat
  BY <1>1, <1>2 DEF Smaller
<1>4. /\ IsList(SubSeq(s, 1, m)) /\ Len(SubSeq(s, 1, m)) = m
      /\ \A i \in 1 .. m : SubSeq(s, 1, m)[i] = s[1 - 1 + i]
  BY <1>3, ListSub
<1>5. \A i \in 1 .. m : 1 - 1 + i = i BY <1>3
<1> QED BY <1>2, <1>4, <1>5 DEF FirstOf

LEMMA FirstOfFew ==
  ASSUME NEW s, IsList(s), NEW n \in Nat, Len(s) <= n
  PROVE  FirstOf(s, n) = s
<1>1. Len(s) \in Nat BY ListIs
<1>2. Smaller(n, Len(s)) = Len(s) BY <1>1 DEF Smaller
<1> QED BY <1>1, <1>2, FirstIs, ListSame

LEMMA FirstOfNone ==
  ASSUME NEW s, IsList(s)
  PROVE  FirstOf(s, 0) = <<>>
<1>1. Len(s) \in Nat BY ListIs
<1>2. Smaller(0, Len(s)) = 0 BY <1>1 DEF Smaller
<1>3. IsList(FirstOf(s, 0)) /\ Len(FirstOf(s, 0)) = 0 BY <1>2, FirstIs
<1> QED BY <1>3, NoItems

(* A list whose first items are s. *)
LEMMA FirstOfBoth ==
  ASSUME NEW s, NEW t, IsList(s), IsList(t), NEW n \in Nat, Len(s) <= n
  PROVE  FirstOf(s \o t, n) = s \o FirstOf(t, n - Len(s))
<1>1. Len(s) \in Nat /\ Len(t) \in Nat BY ListIs
<1>2. PICK m : m = n - Len(s) OBVIOUS
<1>3. m \in Nat BY <1>1, <1>2
<1>4. PICK u : u = FirstOf(s \o t, n) OBVIOUS
<1>5. PICK v : v = FirstOf(t, m) OBVIOUS
<1>6. /\ IsList(s \o t) /\ Len(s \o t) = Len(s) + Len(t)
      /\ \A i \in 1 .. Len(s) : (s \o t)[i] = s[i]
      /\ \A i \in 1 .. Len(t) : (s \o t)[Len(s) + i] = t[i]
  BY ListConcat
<1>7. /\ IsList(v) /\ Len(v) = Smaller(m, Len(t)) /\ \A i \in 1 .. Len(v) : v[i] = t[i]
  BY <1>3, <1>5, FirstIs
<1>8. PICK w : w = s \o v OBVIOUS
<1>9. /\ IsList(w) /\ Len(w) = Len(s) + Len(v)
      /\ \A i \in 1 .. Len(s) : w[i] = s[i]
      /\ \A i \in 1 .. Len(v) : w[Len(s) + i] = v[i]
  <2>1. IsList(s) /\ IsList(v) BY <1>7
  <2>2. IsList(s \o v) /\ Len(s \o v) = Len(s) + Len(v) BY ONLY <2>1, ListConcat
  <2>3. \A i \in 1 .. Len(s) : (s \o v)[i] = s[i] BY ONLY <2>1, ListConcat
  <2>4. \A i \in 1 .. Len(v) : (s \o v)[Len(s) + i] = v[i] BY ONLY <2>1, ListConcat
  <2> QED BY <1>8, <2>2, <2>3, <2>4
<1>10. /\ IsList(u) /\ Len(u) = Smaller(n, Len(s) + Len(t))
       /\ \A i \in 1 .. Len(u) : u[i] = (s \o t)[i]
  BY <1>4, <1>6, FirstIs
<1>11. Len(u) = Len(w) /\ Len(v) \in Nat /\ Len(v) <= Len(t)
  BY <1>1, <1>2, <1>3, <1>7, <1>9, <1>10 DEF Smaller
<1>12. ASSUME NEW i \in 1 .. Len(u) PROVE u[i] = w[i]
  <2>1. CASE i <= Len(s)
    <3>1. i \in 1 .. Len(s) BY <1>1, <2>1
    <3> QED BY <1>6, <1>9, <1>10, <3>1
  <2>2. CASE ~ (i <= Len(s))
    <3>1. PICK j : j = i - Len(s) OBVIOUS
    <3>2. j \in 1 .. Len(v) /\ j \in 1 .. Len(t) /\ Len(s) + j = i
      BY <1>1, <1>9, <1>11, <2>2, <3>1
    <3> QED BY <1>6, <1>7, <1>9, <1>10, <3>2
  <2> QED BY <2>1, <2>2
<1> QED BY <1>2, <1>4, <1>5, <1>8, <1>9, <1>10, <1>11, <1>12, ListSame

(* A piece of s after its first k items, and what follows it. *)
LEMMA AfterPiece ==
  ASSUME NEW s, IsList(s), NEW k \in Nat, NEW j \in Nat, k + j <= Len(s)
  PROVE  After(s, k) = SubSeq(s, k + 1, k + j) \o After(s, k + j)
<1>1. Len(s) \in Nat /\ k <= Len(s) /\ k + j \in Nat BY ListIs
<1>2. PICK u : u = After(s, k) OBVIOUS
<1>3. PICK v : v = After(s, k + j) OBVIOUS
<1>4. PICK x : x = SubSeq(s, k + 1, k + j) OBVIOUS
<1>5. /\ IsList(u) /\ Len(u) = Len(s) - k /\ \A i \in 1 .. Len(u) : u[i] = s[k + i]
  BY <1>1, <1>2, AfterIs, ZenonT(60)
<1>6. /\ IsList(v) /\ Len(v) = Len(s) - (k + j)
      /\ \A i \in 1 .. Len(v) : v[i] = s[(k + j) + i]
  BY <1>1, <1>3, AfterTo
<1>7. /\ IsList(x) /\ Len(x) = j /\ \A i \in 1 .. j : x[i] = s[k + i]
  <2>1. PICK a : a = k + 1 OBVIOUS
  <2>2. PICK b : b = k + j OBVIOUS
  <2>3. a \in Nat /\ b \in Nat /\ 1 <= a /\ a <= b + 1 /\ b <= Len(s) /\ b + 1 - a = j
    BY <1>1, <2>1, <2>2
  <2>4. /\ IsList(SubSeq(s, a, b)) /\ Len(SubSeq(s, a, b)) = j
        /\ \A i \in 1 .. j : SubSeq(s, a, b)[i] = s[a - 1 + i]
    BY <2>3, ListSub
  <2>5. \A i \in 1 .. j : a - 1 + i = k + i BY <2>1
  <2> QED BY <1>4, <2>1, <2>2, <2>4, <2>5
<1>8. PICK w : w = x \o v OBVIOUS
<1>9. /\ IsList(w) /\ Len(w) = Len(x) + Len(v)
      /\ \A i \in 1 .. Len(x) : w[i] = x[i]
      /\ \A i \in 1 .. Len(v) : w[Len(x) + i] = v[i]
  BY <1>6, <1>7, <1>8, ListConcat
<1>10. Len(u) = Len(w) BY <1>1, <1>5, <1>6, <1>7, <1>9
<1>11. ASSUME NEW i \in 1 .. Len(u) PROVE u[i] = w[i]
  <2>1. CASE i <= j
    <3>1. i \in 1 .. j BY <2>1
    <3> QED BY <1>5, <1>7, <1>9, <3>1
  <2>2. CASE ~ (i <= j)
    <3>1. PICK h : h = i - j OBVIOUS
    <3>2. h \in 1 .. Len(v) /\ j + h = i /\ (k + j) + h = k + i
      BY <1>1, <1>5, <1>6, <2>2, <3>1
    <3>3. w[j + h] = v[h] BY <1>7, <1>9, <3>2
    <3>4. v[h] = s[k + i] BY <1>6, <3>2
    <3> QED BY <1>5, <3>2, <3>3, <3>4
  <2> QED BY <2>1, <2>2
<1> QED BY <1>2, <1>3, <1>4, <1>5, <1>8, <1>9, <1>10, <1>11, ListSame

(* After items of s alone, t follows. *)
LEMMA AfterBoth ==
  ASSUME NEW s, NEW t, IsList(s), IsList(t), NEW k \in Nat, k <= Len(s)
  PROVE  After(s \o t, k) = After(s, k) \o t
<1>1. Len(s) \in Nat /\ Len(t) \in Nat BY ListIs
<1>2. PICK u : u = After(s \o t, k) OBVIOUS
<1>3. PICK v : v = After(s, k) OBVIOUS
<1>4. /\ IsList(s \o t) /\ Len(s \o t) = Len(s) + Len(t)
      /\ \A i \in 1 .. Len(s) : (s \o t)[i] = s[i]
      /\ \A i \in 1 .. Len(t) : (s \o t)[Len(s) + i] = t[i]
  BY ListConcat
<1>5. /\ IsList(u) /\ Len(u) = (Len(s) + Len(t)) - k
      /\ \A i \in 1 .. Len(u) : u[i] = (s \o t)[k + i]
  <2>1. k <= Len(s \o t) BY <1>1, <1>4
  <2>2. PICK r : r = s \o t OBVIOUS
  <2>3. IsList(r) /\ k <= Len(r) /\ u = After(r, k) BY <1>2, <1>4, <2>1, <2>2
  <2>4. /\ IsList(u) /\ Len(u) = Len(r) - k /\ \A i \in 1 .. Len(u) : u[i] = r[k + i]
    BY ONLY k \in Nat, <2>3, AfterTo
  <2> QED BY <1>4, <2>2, <2>4
<1>6. /\ IsList(v) /\ Len(v) = Len(s) - k /\ \A i \in 1 .. Len(v) : v[i] = s[k + i]
  BY <1>3, AfterIs
<1>7. PICK w : w = v \o t OBVIOUS
<1>8. /\ IsList(w) /\ Len(w) = Len(v) + Len(t)
      /\ \A i \in 1 .. Len(v) : w[i] = v[i]
      /\ \A i \in 1 .. Len(t) : w[Len(v) + i] = t[i]
  <2>1. IsList(v) /\ IsList(t) BY <1>6
  <2>2. IsList(v \o t) /\ Len(v \o t) = Len(v) + Len(t) BY ONLY <2>1, ListConcat
  <2>3. \A i \in 1 .. Len(v) : (v \o t)[i] = v[i] BY ONLY <2>1, ListConcat
  <2>4. \A i \in 1 .. Len(t) : (v \o t)[Len(v) + i] = t[i] BY ONLY <2>1, ListConcat
  <2> QED BY <1>7, <2>2, <2>3, <2>4
<1>9. Len(u) = Len(w) BY <1>1, <1>5, <1>6, <1>8
<1>10. ASSUME NEW i \in 1 .. Len(u) PROVE u[i] = w[i]
  <2>1. CASE i <= Len(v)
    <3>1. i \in 1 .. Len(v) /\ k + i \in 1 .. Len(s) BY <1>1, <1>6, <2>1
    <3> QED BY <1>4, <1>5, <1>6, <1>8, <3>1
  <2>2. CASE ~ (i <= Len(v))
    <3>1. PICK h : h = i - Len(v) OBVIOUS
    <3>2. h \in 1 .. Len(t) /\ Len(v) + h = i /\ Len(s) + h = k + i
      BY <1>1, <1>5, <1>6, <2>2, <3>1
    <3> QED BY <1>4, <1>5, <1>8, <3>2
  <2> QED BY <2>1, <2>2
<1> QED BY <1>2, <1>3, <1>5, <1>7, <1>8, <1>9, <1>10, ListSame

LEMMA AfterAll ==
  ASSUME NEW s, IsList(s)
  PROVE  After(s, Len(s)) = <<>> /\ After(s, 0) = s
<1>1. Len(s) \in Nat BY ListIs
<1>2. IsList(After(s, Len(s))) /\ Len(After(s, Len(s))) = 0 BY <1>1, AfterIs
<1>3. /\ IsList(After(s, 0)) /\ Len(After(s, 0)) = Len(s)
      /\ \A i \in 1 .. Len(s) : After(s, 0)[i] = s[0 + i]
  BY <1>1, AfterIs
<1>4. \A i \in 1 .. Len(s) : 0 + i = i OBVIOUS
<1>5. After(s, 0) = s BY <1>3, <1>4, ListSame
<1> QED BY <1>2, <1>5, NoItems

(* The same item again and again.                                          *)
LEMMA RepeatedIs ==
  ASSUME NEW v, NEW n \in Int
  PROVE  /\ IsList(Repeated(v, n)) /\ Len(Repeated(v, n)) = IF n > 0 THEN n ELSE 0
         /\ \A i \in 1 .. n : Repeated(v, n)[i] = v
<1>1. PICK m \in Nat : 1 .. n = 1 .. m /\ m = IF n > 0 THEN n ELSE 0
  <2>1. CASE n > 0 BY <2>1
  <2>2. CASE ~ (n > 0)
    <3>1. 1 .. n = 1 .. 0 BY <2>2
    <3> QED BY <2>2, <3>1
  <2> QED BY <2>1, <2>2
<1>2. PICK s : s = Repeated(v, n) OBVIOUS
<1>3. s = [i \in 1 .. m |-> v] BY <1>1, <1>2 DEF Repeated
<1>4. s = [i \in 1 .. m |-> s[i]] /\ \A i \in 1 .. m : s[i] = v BY <1>3
<1>5. IsList(s) /\ Len(s) = m BY <1>4, ListMade
<1> QED BY <1>1, <1>2, <1>4, <1>5

LEMMA RepeatedMore ==
  ASSUME NEW v, NEW n \in Nat, NEW k \in Nat, k <= n
  PROVE  Repeated(v, n) = Repeated(v, k) \o Repeated(v, n - k)
<1>1. PICK m : m = n - k OBVIOUS
<1>2. m \in Nat /\ k + m = n BY <1>1
<1>3. PICK s : s = Repeated(v, n) OBVIOUS
<1>4. PICK x : x = Repeated(v, k) OBVIOUS
<1>5. PICK y : y = Repeated(v, m) OBVIOUS
<1>6. IsList(s) /\ Len(s) = n /\ \A i \in 1 .. n : s[i] = v BY <1>3, RepeatedIs
<1>7. IsList(x) /\ Len(x) = k /\ \A i \in 1 .. k : x[i] = v BY <1>4, RepeatedIs
<1>8. IsList(y) /\ Len(y) = m /\ \A i \in 1 .. m : y[i] = v BY <1>2, <1>5, RepeatedIs
<1>9. PICK w : w = x \o y OBVIOUS
<1>10. /\ IsList(w) /\ Len(w) = k + m
       /\ \A i \in 1 .. k : w[i] = x[i]
       /\ \A i \in 1 .. m : w[k + i] = y[i]
  <2>1. IsList(x) /\ IsList(y) /\ Len(x) = k /\ Len(y) = m BY <1>7, <1>8
  <2>2. IsList(x \o y) /\ Len(x \o y) = Len(x) + Len(y) BY ONLY <2>1, ListConcat
  <2>3. \A i \in 1 .. Len(x) : (x \o y)[i] = x[i] BY ONLY <2>1, ListConcat
  <2>4. \A i \in 1 .. Len(y) : (x \o y)[Len(x) + i] = y[i] BY ONLY <2>1, ListConcat
  <2> QED BY <1>9, <2>1, <2>2, <2>3, <2>4
<1>11. ASSUME NEW i \in 1 .. n PROVE w[i] = v
  <2>1. CASE i <= k BY <1>7, <1>10, <2>1
  <2>2. CASE ~ (i <= k)
    <3>1. PICK j : j = i - k OBVIOUS
    <3>2. j \in 1 .. m /\ k + j = i BY <1>2, <2>2, <3>1
    <3> QED BY <1>8, <1>10, <3>2
  <2> QED BY <2>1, <2>2
<1> QED BY <1>1, <1>2, <1>3, <1>4, <1>5, <1>6, <1>9, <1>10, <1>11, ListSame

LEMMA ZerosAre ==
  ASSUME NEW n
  PROVE  Zeros(n) = Repeated(0, n)
BY DEF Zeros, Repeated
-----------------------------------------------------------------------------
(* What a reader reads.                                                    *)
ToRead(r) == After(Flattened(r.nodes), r.offset)
(* A constant is read m times. *)
Seen(r, m) == IF IsConstant(r) THEN Repeated(r.constant[1], m) ELSE ToRead(r)

LEMMA ReadsInside ==
  ASSUME NEW r, IsReader(r), NEW f, f = FlattenSeq(r.nodes)
  PROVE  IsList(f) /\ Len(f) \in Nat /\ r.offset \in Nat /\ r.offset <= Len(f)
<1>1. IsList(f) /\ Len(f) \in Nat /\ r.offset \in Nat /\ Arrays(r.nodes)
  BY FlattenedIsList, ListIs DEF IsReader
<1>2. CASE r.offset = 0 BY <1>1, <1>2
<1>3. CASE r.offset # 0
  <2>1. r.nodes # <<>> /\ r.offset < Len(r.nodes[1]) BY <1>3 DEF IsReader
  <2>2. IsList(r.nodes) /\ Len(r.nodes) > 0 BY <1>1, <2>1, NoItems, ListIs DEF Arrays
  <2>3. PICK x : x = r.nodes[1] OBVIOUS
  <2>4. PICK t : t = FlattenSeq(Tail(r.nodes)) OBVIOUS
  <2>5. f = x \o t /\ IsList(x) /\ IsList(t)
    <3>1. Arrays(Tail(r.nodes)) /\ f = x \o t BY <1>1, <2>2, <2>3, <2>4, FlattenedTail
    <3>2. IsList(t) BY <2>4, <3>1, FlattenedIsList
    <3>3. IsList(x) BY <1>1, <2>2, <2>3, ListIs DEF Arrays
    <3> QED BY <3>1, <3>2, <3>3
  <2>6. Len(f) = Len(x) + Len(t) /\ Len(x) \in Nat /\ Len(t) \in Nat
    BY <2>5, ListConcat, ListIs
  <2> QED BY <1>1, <2>1, <2>3, <2>6
<1> QED BY <1>1, <1>2, <1>3

LEMMA ToReadIs ==
  ASSUME NEW r, IsReader(r)
  PROVE  /\ IsList(ToRead(r)) /\ Len(ToRead(r)) \in Nat
         /\ r.offset = 0 => ToRead(r) = FlattenSeq(r.nodes)
<1>1. PICK f : f = FlattenSeq(r.nodes) OBVIOUS
<1>2. IsList(f) /\ Len(f) \in Nat /\ r.offset \in Nat /\ r.offset <= Len(f)
  BY <1>1, ReadsInside
<1>3. ToRead(r) = After(f, r.offset) BY <1>1 DEF ToRead, Flattened
<1>4. IsList(ToRead(r)) BY <1>2, <1>3, AfterIs
<1> QED BY <1>1, <1>2, <1>3, <1>4, AfterAll, ListIs

(* A reader that has come to the end reads nothing.                        *)
LEMMA NothingToRead ==
  ASSUME NEW r, IsReader(r), Ended(r)
  PROVE  ~ IsConstant(r) /\ ToRead(r) = <<>>
<1>1. PICK s : s = AtItems(r) OBVIOUS
<1>2. /\ IsReader(s) /\ s.offset = r.offset /\ FlattenSeq(s.nodes) = FlattenSeq(r.nodes)
      /\ s.nodes # <<>> => s.nodes[1] # <<>>
  BY <1>1, AtItemsReads
<1>3. ~ IsConstant(r) /\ (s.nodes = <<>> \/ s.offset = Len(s.nodes[1])) BY <1>1 DEF Ended
<1>4. s.nodes = <<>>
  <2>1. SUFFICES ASSUME s.nodes # <<>> PROVE FALSE OBVIOUS
  <2>2. IsList(s.nodes) /\ Len(s.nodes) > 0 BY <1>2, <2>1, NoItems, ListIs DEF IsReader, Arrays
  <2>3. PICK x : x = s.nodes[1] OBVIOUS
  <2>4. IsList(x) /\ Len(x) \in Nat BY <1>2, <2>2, <2>3, ListIs, SMTT(30) DEF IsReader, Arrays
  <2>5. x # <<>> /\ s.offset = Len(x) BY <1>2, <1>3, <2>1, <2>3
  <2>6. Len(x) # 0 BY <2>4, <2>5, NoItems
  <2>7. s.offset < Len(x) BY <1>2, <2>3, <2>5, <2>6 DEF IsReader
  <2> QED BY <2>4, <2>5, <2>7
<1>5. FlattenSeq(r.nodes) = <<>> /\ r.offset = 0
  BY <1>2, <1>4, FlattenedEmpty DEF IsReader
<1> QED BY <1>3, <1>5, ToReadIs

(* It reads a piece, and what it reads after that.                         *)
LEMMA ReadsPiece ==
  ASSUME NEW r, IsReader(r), ~ Ended(r), ~ IsConstant(r), NEW n \in Nat,
         NEW k \in 0 .. Count(r, n)
  PROVE  /\ ToRead(r) = Items(r, k) \o ToRead(Advance(r, k))
         /\ ~ IsConstant(Advance(r, k))
<1>0. k \in Nat BY CountIs
<1>1. PICK s : s = AtItems(r) OBVIOUS
<1>2. PICK x : x = s.nodes[1] OBVIOUS
<1>3. PICK o : o = r.offset OBVIOUS
<1>4. /\ s.nodes # <<>> /\ IsList(s.nodes) /\ Len(s.nodes) > 0
      /\ IsList(x) /\ Len(x) \in Nat /\ o \in Nat /\ o < Len(x)
  BY <1>1, <1>2, <1>3, NotEnded
<1>5. /\ IsReader(s) /\ s.offset = o /\ s.constant = r.constant
      /\ FlattenSeq(s.nodes) = FlattenSeq(r.nodes)
  BY <1>1, <1>3, AtItemsReads
<1>6. s = [nodes |-> s.nodes, offset |-> s.offset, constant |-> s.constant] /\ Arrays(s.nodes)
  BY <1>5 DEF IsReader
<1>7. PICK t : t = FlattenSeq(Tail(s.nodes)) OBVIOUS
<1>8. Arrays(Tail(s.nodes)) /\ FlattenSeq(s.nodes) = x \o t /\ IsList(t)
  BY <1>2, <1>4, <1>6, <1>7, FlattenedTail, FlattenedIsList
<1>9. o + k <= Len(x)
  <2>1. Count(r, n) = Smaller(n, Len(x) - o) BY <1>1, <1>2, <1>3 DEF Count
  <2> QED BY <1>0, <1>4, <2>1 DEF Smaller
<1>10. PICK y : y = SubSeq(x, o + 1, o + k) OBVIOUS
<1>11. Items(r, k) = y BY <1>1, <1>2, <1>3, <1>10 DEF Items
<1>12. PICK z : z = After(x, o + k) OBVIOUS
<1>13. o + k \in Nat BY <1>0, <1>4
<1>14. IsList(y) /\ IsList(z)
  <2>1. IsList(z) BY <1>4, <1>9, <1>12, <1>13, AfterIs
  <2>2. IsList(y) BY <1>0, <1>11, ItemsAre
  <2> QED BY <2>1, <2>2
<1>15. ToRead(r) = y \o (z \o t)
  <2>1. ToRead(r) = After(x \o t, o) BY <1>3, <1>5, <1>8 DEF ToRead, Flattened
  <2>2. After(x \o t, o) = After(x, o) \o t BY <1>4, <1>8, AfterBoth
  <2>3. After(x, o) = y \o z BY <1>0, <1>4, <1>9, <1>10, <1>12, AfterPiece
  <2>4. (y \o z) \o t = y \o (z \o t) BY <1>8, <1>14, JoinedAgain, SMTT(30)
  <2> QED BY <2>1, <2>2, <2>3, <2>4
<1>16. PICK a : a = Advance(r, k) OBVIOUS
<1>17. CASE o + k < Len(x)
  <2>1. a = [s EXCEPT !.offset = @ + k]
    BY <1>1, <1>2, <1>5, <1>16, <1>17 DEF Advance
  <2>2. a.nodes = s.nodes /\ a.offset = o + k /\ a.constant = r.constant BY <1>5, <1>6, <2>1
  <2>3. ToRead(a) = After(x \o t, o + k) BY <1>8, <2>2 DEF ToRead, Flattened
  <2>4. After(x \o t, o + k) = z \o t BY <1>4, <1>8, <1>9, <1>12, <1>13, AfterBoth
  <2> QED BY <1>11, <1>15, <1>16, <2>2, <2>3, <2>4 DEF IsConstant
<1>18. CASE ~ (o + k < Len(x))
  <2>1. a = [s EXCEPT !.nodes = Tail(@), !.offset = 0]
    BY <1>1, <1>2, <1>5, <1>16, <1>18 DEF Advance
  <2>2. a.nodes = Tail(s.nodes) /\ a.offset = 0 /\ a.constant = r.constant BY <1>5, <1>6, <2>1
  <2>3. ToRead(a) = t BY <1>7, <1>8, <2>2, AfterAll DEF ToRead, Flattened
  <2>4. o + k = Len(x) BY <1>4, <1>9, <1>13, <1>18
  <2>5. z = <<>> BY <1>4, <1>12, <2>4, AfterAll
  <2>6. z \o t = t BY <1>8, <2>5, JoinedToNone
  <2> QED BY <1>11, <1>15, <1>16, <2>2, <2>3, <2>6 DEF IsConstant
<1> QED BY <1>17, <1>18

LEMMA SeenIs ==
  ASSUME NEW r, IsReader(r), NEW m \in Nat
  PROVE  /\ IsList(Seen(r, m)) /\ Len(Seen(r, m)) \in Nat
         /\ IsConstant(r) => Len(Seen(r, m)) = m
<1>1. IsList(Repeated(r.constant[1], m)) /\ Len(Repeated(r.constant[1], m)) = m
  BY RepeatedIs
<1> QED BY <1>1, ToReadIs DEF Seen

LEMMA SeesPiece ==
  ASSUME NEW r, IsReader(r), ~ Ended(r), NEW n \in Nat, NEW k \in 0 .. Count(r, n),
         NEW m \in Nat, k <= m
  PROVE  /\ Seen(r, m) = Items(r, k) \o Seen(Advance(r, k), m - k)
         /\ IsConstant(Advance(r, k)) <=> IsConstant(r)
<1>0. k \in Nat BY CountIs
<1>1. CASE IsConstant(r)
  <2>1. Advance(r, k) = r BY <1>1 DEF Advance
  <2>2. Items(r, k) = Repeated(r.constant[1], k) BY <1>1 DEF Items, Repeated
  <2>3. Repeated(r.constant[1], m) = Repeated(r.constant[1], k) \o Repeated(r.constant[1], m - k)
    BY <1>0, RepeatedMore
  <2> QED BY <1>1, <2>1, <2>2, <2>3 DEF Seen
<1>2. CASE ~ IsConstant(r) BY <1>2, ReadsPiece DEF Seen
<1> QED BY <1>1, <1>2

-----------------------------------------------------------------------------
(* What the words promise, piece by piece.                                 *)

LEMMA FirstOfPart ==
  ASSUME NEW s, NEW t, IsList(s), IsList(t), NEW n \in Nat, n <= Len(s)
  PROVE  FirstOf(s \o t, n) = SubSeq(s, 1, n) /\ FirstOf(s, n) = SubSeq(s, 1, n)
<1>1. Len(s) \in Nat /\ Len(t) \in Nat BY ListIs
<1>2. IsList(s \o t) /\ Len(s \o t) = Len(s) + Len(t) BY ListConcat
<1>3. \A i \in 1 .. Len(s) : (s \o t)[i] = s[i] BY ListConcat
<1>4. Smaller(n, Len(s \o t)) = n /\ Smaller(n, Len(s)) = n BY <1>1, <1>2 DEF Smaller
<1>5. PICK u : u = FirstOf(s \o t, n) OBVIOUS
<1>6. PICK v : v = FirstOf(s, n) OBVIOUS
<1>7. IsList(u) /\ Len(u) = n /\ \A i \in 1 .. n : u[i] = (s \o t)[i]
  BY <1>2, <1>4, <1>5, FirstIs
<1>8. IsList(v) /\ Len(v) = n /\ \A i \in 1 .. n : v[i] = s[i]
  BY <1>4, <1>6, FirstIs
<1>9. \A i \in 1 .. n : u[i] = v[i]
  <2>1. \A i \in 1 .. n : i \in 1 .. Len(s) BY <1>1
  <2> QED BY <1>3, <1>7, <1>8, <2>1
<1>10. u = v BY <1>7, <1>8, <1>9, ListSame
<1>11. v = SubSeq(s, 1, n) BY <1>4, <1>6 DEF FirstOf
<1> QED BY <1>5, <1>6, <1>10, <1>11

LEMMA FirstOfRepeated ==
  ASSUME NEW v, NEW n \in Nat, NEW m \in Nat, n <= m
  PROVE  FirstOf(Repeated(v, m), n) = Repeated(v, n)
<1>1. PICK k : k = m - n OBVIOUS
<1>2. k \in Nat BY <1>1
<1>3. PICK x : x = Repeated(v, n) OBVIOUS
<1>4. PICK y : y = Repeated(v, k) OBVIOUS
<1>5. IsList(x) /\ Len(x) = n BY <1>3, RepeatedIs
<1>6. IsList(y) BY <1>2, <1>4, RepeatedIs
<1>7. Repeated(v, m) = x \o y BY <1>1, <1>3, <1>4, RepeatedMore
<1>8. FirstOf(x \o y, n) = x \o FirstOf(y, n - n) BY <1>5, <1>6, FirstOfBoth
<1>9. FirstOf(y, 0) = <<>> BY <1>6, FirstOfNone
<1>10. n - n = 0 OBVIOUS
<1> QED BY <1>3, <1>5, <1>7, <1>8, <1>9, <1>10, JoinedToNone

(* A list with v after it, as far as n. *)
LEMMA PaddedPiece ==
  ASSUME NEW s, NEW x, IsList(s), IsList(x), NEW z, IsList(z), NEW n \in Nat, Len(s) <= n
  PROVE  FirstOf((s \o x) \o z, n) = s \o FirstOf(x \o z, n - Len(s))
<1>1. (s \o x) \o z = s \o (x \o z) BY JoinedAgain
<1>2. IsList(x \o z) BY ListConcat
<1> QED BY <1>1, <1>2, FirstOfBoth

LEMMA CutAsPiece ==
  ASSUME NEW s, NEW x, NEW t, NEW y, IsList(s), IsList(x), IsList(t), IsList(y), Len(s) = Len(t)
  PROVE  CutAs(s \o x, t \o y) = s \o CutAs(x, y)
<1>1. Len(s) \in Nat /\ Len(y) \in Nat BY ListIs
<1>2. Len(t \o y) = Len(s) + Len(y) BY ListConcat
<1>3. PICK n : n = Len(s) + Len(y) OBVIOUS
<1>4. n \in Nat /\ Len(s) <= n /\ n - Len(s) = Len(y) BY <1>1, <1>3
<1>5. FirstOf(s \o x, n) = s \o FirstOf(x, n - Len(s)) BY <1>4, FirstOfBoth
<1> QED BY <1>2, <1>3, <1>4, <1>5 DEF CutAs

LEMMA CutAsNone ==
  ASSUME NEW x, NEW y, IsList(x), IsList(y), x = <<>> \/ y = <<>>
  PROVE  CutAs(x, y) = <<>>
<1>1. Len(x) \in Nat /\ Len(y) \in Nat BY ListIs
<1>2. CASE y = <<>> BY <1>2, FirstOfNone, ListEmpty DEF CutAs
<1>3. CASE x = <<>>
  <2>1. Len(x) = 0 BY <1>3, ListEmpty
  <2> QED BY <1>1, <1>3, <2>1, FirstOfFew DEF CutAs
<1> QED BY <1>2, <1>3

(* The first item that says no (0).                                        *)
LEMMA FirstNoIs ==
  ASSUME NEW s, IsList(s)
  PROVE  \/ FirstNo(s) = 0 /\ \A i \in 1 .. Len(s) : s[i] # 0
         \/ /\ FirstNo(s) \in 1 .. Len(s) /\ s[FirstNo(s)] = 0
            /\ \A i \in 1 .. Len(s) : i < FirstNo(s) => s[i] # 0
<1> DEFINE I == {i \in 1 .. Len(s) : s[i] = 0}
<1>1. Len(s) \in Nat BY ListIs
<1>2. FirstNo(s) = IF I # {} THEN Min(I) ELSE 0
  BY DEF FirstNo, SelectInSeq
<1>3. CASE I = {} BY <1>2, <1>3
<1>4. CASE I # {}
  <2>1. PICK k \in I : \A j \in I : k <= j
    <3>1. I \subseteq 0 .. Len(s) BY <1>1
    <3> HIDE DEF I
    <3> QED BY <1>1, <1>4, <3>1, LeastExists
  <2>2. Min(I) = k
    <3>1. \A x \in I : (\A y \in I : x <= y) => x = k
      <4>1. \A x \in I : x \in Int BY <1>1
      <4> HIDE DEF I
      <4> QED BY <2>1, <4>1
    <3> HIDE DEF I
    <3> QED BY <2>1, <3>1 DEF Min
  <2>3. FirstNo(s) = k BY <1>2, <1>4, <2>2
  <2>4. k \in 1 .. Len(s) /\ s[k] = 0 BY <2>1
  <2>5. \A i \in 1 .. Len(s) : i < k => s[i] # 0 BY <1>1, <2>1
  <2> QED BY <2>3, <2>4, <2>5
<1> QED BY <1>3, <1>4

(* Told from a list before which there is none. *)
LEMMA FirstNoOnly ==
  ASSUME NEW s, IsList(s), NEW k
  PROVE  /\ (k \in 1 .. Len(s) /\ s[k] = 0 /\ \A i \in 1 .. Len(s) : i < k => s[i] # 0)
               => FirstNo(s) = k
         /\ (\A i \in 1 .. Len(s) : s[i] # 0) => FirstNo(s) = 0
<1>1. Len(s) \in Nat BY ListIs
<1>2. PICK j : j = FirstNo(s) OBVIOUS
<1>3. \/ j = 0 /\ \A i \in 1 .. Len(s) : s[i] # 0
      \/ j \in 1 .. Len(s) /\ s[j] = 0 /\ \A i \in 1 .. Len(s) : i < j => s[i] # 0
  BY <1>2, FirstNoIs
<1>4. ASSUME k \in 1 .. Len(s), s[k] = 0, \A i \in 1 .. Len(s) : i < k => s[i] # 0
      PROVE  j = k
  <2>1. j \in 1 .. Len(s) /\ s[j] = 0 /\ \A i \in 1 .. Len(s) : i < j => s[i] # 0
    BY <1>3, <1>4
  <2>2. ~ (j < k) /\ ~ (k < j) BY <1>4, <2>1
  <2> QED BY <1>1, <1>4, <2>1, <2>2
<1>5. ASSUME \A i \in 1 .. Len(s) : s[i] # 0 PROVE j = 0 BY <1>3, <1>5
<1> QED BY <1>2, <1>4, <1>5

LEMMA FirstNoOfBoth ==
  ASSUME NEW t, NEW u, IsList(t), IsList(u)
  PROVE  FirstNo(t \o u) = IF FirstNo(t) # 0 THEN FirstNo(t)
                           ELSE IF FirstNo(u) # 0 THEN Len(t) + FirstNo(u) ELSE 0
<1>1. Len(t) \in Nat /\ Len(u) \in Nat BY ListIs
<1>2. PICK w : w = t \o u OBVIOUS
<1>3. IsList(w) /\ Len(w) = Len(t) + Len(u) BY <1>2, ListConcat
<1>4. \A i \in 1 .. Len(t) : w[i] = t[i] BY <1>2, ListConcat
<1>5. \A i \in 1 .. Len(u) : w[Len(t) + i] = u[i] BY <1>2, ListConcat
<1>6. PICK j : j = FirstNo(t) OBVIOUS
<1>7. PICK h : h = FirstNo(u) OBVIOUS
<1>8. \/ j = 0 /\ \A i \in 1 .. Len(t) : t[i] # 0
      \/ j \in 1 .. Len(t) /\ t[j] = 0 /\ \A i \in 1 .. Len(t) : i < j => t[i] # 0
  BY <1>6, FirstNoIs
<1>9. \/ h = 0 /\ \A i \in 1 .. Len(u) : u[i] # 0
      \/ h \in 1 .. Len(u) /\ u[h] = 0 /\ \A i \in 1 .. Len(u) : i < h => u[i] # 0
  BY <1>7, FirstNoIs
<1>10. ASSUME j # 0 PROVE FirstNo(w) = j
  <2>1. j \in 1 .. Len(t) /\ t[j] = 0 /\ \A i \in 1 .. Len(t) : i < j => t[i] # 0 BY <1>8, <1>10
  <2>2. j \in 1 .. Len(w) /\ w[j] = 0 BY <1>1, <1>3, <1>4, <2>1
  <2>3. ASSUME NEW i \in 1 .. Len(w), i < j PROVE w[i] # 0
    <3>1. i \in 1 .. Len(t) BY <1>1, <1>3, <2>1, <2>3
    <3> QED BY <1>4, <2>1, <2>3, <3>1
  <2> QED BY <1>3, <2>2, <2>3, FirstNoOnly
<1>11. ASSUME j = 0, h # 0 PROVE FirstNo(w) = Len(t) + h
  <2>1. h \in 1 .. Len(u) /\ u[h] = 0 /\ \A i \in 1 .. Len(u) : i < h => u[i] # 0 BY <1>9, <1>11
  <2>2. \A i \in 1 .. Len(t) : t[i] # 0 BY <1>8, <1>11
  <2>3. PICK k : k = Len(t) + h OBVIOUS
  <2>4. k \in 1 .. Len(w) /\ w[k] = 0 BY <1>1, <1>3, <1>5, <2>1, <2>3
  <2>5. ASSUME NEW i \in 1 .. Len(w), i < k PROVE w[i] # 0
    <3>1. CASE i <= Len(t)
      <4>1. i \in 1 .. Len(t) BY <1>1, <3>1
      <4> QED BY <1>4, <2>2, <4>1
    <3>2. CASE ~ (i <= Len(t))
      <4>1. PICK m : m = i - Len(t) OBVIOUS
      <4>2. m \in 1 .. Len(u) /\ m < h /\ Len(t) + m = i
        BY <1>1, <1>3, <2>1, <2>3, <2>5, <3>2, <4>1
      <4>3. w[Len(t) + m] = u[m] /\ u[m] # 0 BY <1>5, <2>1, <4>2
      <4> QED BY <4>2, <4>3
    <3> QED BY <3>1, <3>2
  <2> QED BY <1>3, <2>3, <2>4, <2>5, FirstNoOnly
<1>12. ASSUME j = 0, h = 0 PROVE FirstNo(w) = 0
  <2>1. \A i \in 1 .. Len(t) : t[i] # 0 BY <1>8, <1>12
  <2>2. \A i \in 1 .. Len(u) : u[i] # 0 BY <1>9, <1>12
  <2>3. ASSUME NEW i \in 1 .. Len(w) PROVE w[i] # 0
    <3>1. CASE i <= Len(t)
      <4>1. i \in 1 .. Len(t) BY <1>1, <3>1
      <4> QED BY <1>4, <2>1, <4>1
    <3>2. CASE ~ (i <= Len(t))
      <4>1. PICK m : m = i - Len(t) OBVIOUS
      <4>2. m \in 1 .. Len(u) /\ Len(t) + m = i BY <1>1, <1>3, <3>2, <4>1
      <4>3. w[Len(t) + m] = u[m] /\ u[m] # 0 BY <1>5, <2>2, <4>2
      <4> QED BY <4>2, <4>3
    <3> QED BY <3>1, <3>2
  <2> QED BY <1>3, <2>3, FirstNoOnly
<1> QED BY <1>2, <1>6, <1>7, <1>10, <1>11, <1>12

LEMMA AcceptedPiece ==
  ASSUME NEW s, NEW x, NEW t, NEW y, IsList(s), IsList(x), IsList(t), IsList(y), Len(s) = Len(t)
  PROVE  Accepted(s \o x, t \o y) =
           IF FirstNo(t) = 0 THEN s \o Accepted(x, y) ELSE SubSeq(s, 1, FirstNo(t) - 1)
<1>1. Len(s) \in Nat /\ Len(x) \in Nat /\ Len(y) \in Nat BY ListIs
<1>2. PICK u : u = CutAs(y, x) OBVIOUS
<1>3. IsList(u) /\ Len(u) \in Nat BY <1>1, <1>2, FirstIs, ListIs DEF CutAs
<1>4. CutAs(t \o y, s \o x) = t \o u
  <2>1. Len(t) = Len(s) OBVIOUS
  <2>2. CutAs(t \o y, s \o x) = t \o CutAs(y, x)
    BY ONLY IsList(s), IsList(x), IsList(t), IsList(y), <2>1, CutAsPiece
  <2> QED BY <1>2, <2>2
<1>5. Len(t \o u) = Len(s) + Len(u) BY <1>3, ListConcat
<1>6. PICK j : j = FirstNo(t) OBVIOUS
<1>7. PICK h : h = FirstNo(u) OBVIOUS
<1>8. j = 0 \/ j \in 1 .. Len(s) BY <1>6, FirstNoIs
<1>9. h = 0 \/ h \in 1 .. Len(u) BY <1>3, <1>7, FirstNoIs
<1>10. FirstNo(t \o u) = IF j # 0 THEN j ELSE IF h # 0 THEN Len(s) + h ELSE 0
  BY <1>3, <1>6, <1>7, FirstNoOfBoth
<1>11. Accepted(x, y) = FirstOf(x, IF h = 0 THEN Len(u) ELSE h - 1)
  BY <1>2, <1>7 DEF Accepted
<1>12. PICK a : a = Accepted(s \o x, t \o y) OBVIOUS
<1>13. a = FirstOf(s \o x, IF FirstNo(t \o u) = 0 THEN Len(t \o u) ELSE FirstNo(t \o u) - 1)
  BY <1>4, <1>12 DEF Accepted
<1>14. CASE j # 0
  <2>1. a = FirstOf(s \o x, j - 1) BY <1>8, <1>10, <1>13, <1>14
  <2>2. j - 1 \in Nat /\ j - 1 <= Len(s) BY <1>1, <1>8, <1>14
  <2>3. a = SubSeq(s, 1, j - 1) BY <2>1, <2>2, FirstOfPart
  <2> QED BY <1>6, <1>12, <1>14, <2>3
<1>15. CASE j = 0
  <2>1. PICK m : m = IF h = 0 THEN Len(u) ELSE h - 1 OBVIOUS
  <2>2. m \in Nat BY <1>3, <1>9, <2>1
  <2>3. a = FirstOf(s \o x, Len(s) + m)
    <3>1. CASE h = 0 BY <1>5, <1>10, <1>13, <1>15, <2>1, <3>1
    <3>2. CASE h # 0
      <4>1. Len(s) + h # 0 /\ (Len(s) + h) - 1 = Len(s) + m BY <1>1, <1>3, <1>9, <2>1, <3>2
      <4> QED BY <1>10, <1>13, <1>15, <3>2, <4>1
    <3> QED BY <3>1, <3>2
  <2>4. PICK n : n = Len(s) + m OBVIOUS
  <2>5. n \in Nat /\ Len(s) <= n /\ n - Len(s) = m BY <1>1, <2>2, <2>4
  <2>6. FirstOf(s \o x, n) = s \o FirstOf(x, n - Len(s)) BY <2>5, FirstOfBoth
  <2> QED BY <1>6, <1>11, <1>12, <1>15, <2>1, <2>3, <2>4, <2>5, <2>6
<1> QED BY <1>14, <1>15

LEMMA AcceptedNone ==
  ASSUME NEW x, NEW y, IsList(x), IsList(y), x = <<>> \/ y = <<>>
  PROVE  Accepted(x, y) = <<>>
<1>1. CutAs(y, x) = <<>> BY CutAsNone
<1>2. FirstNo(<<>>) = 0 BY ListEmpty, FirstNoIs
<1>3. Accepted(x, y) = FirstOf(x, 0) BY <1>1, <1>2, ListEmpty DEF Accepted
<1> QED BY <1>3, FirstOfNone

LEMMA AcceptedIs ==
  ASSUME NEW x, NEW y, IsList(x), IsList(y)
  PROVE  IsList(Accepted(x, y))
<1>1. PICK u : u = CutAs(y, x) OBVIOUS
<1>2. IsList(u) /\ Len(u) \in Nat BY <1>1, ListIs, FirstIs DEF CutAs
<1>3. PICK m : m = IF FirstNo(u) = 0 THEN Len(u) ELSE FirstNo(u) - 1 OBVIOUS
<1>4. m \in Nat BY <1>2, <1>3, FirstNoIs
<1>5. Accepted(x, y) = FirstOf(x, m) BY <1>1, <1>3 DEF Accepted
<1> QED BY <1>4, <1>5, FirstIs

(* An item and the items after it. *)
LEMMA AfterFirst ==
  ASSUME NEW v, NEW x, IsList(x)
  PROVE  /\ IsList(<<v>> \o x) /\ Len(<<v>> \o x) = Len(x) + 1 /\ (<<v>> \o x)[1] = v
         /\ \A i \in 1 .. Len(x) : (<<v>> \o x)[i + 1] = x[i]
<1>1. Len(x) \in Nat BY ListIs
<1>2. PICK o : o = <<v>> OBVIOUS
<1>3. IsList(o) BY <1>2, ListOne
<1>4. Len(o) = 1 /\ o[1] = v BY <1>2, ListOne
<1>5. IsList(o \o x) /\ Len(o \o x) = Len(o) + Len(x) BY ONLY <1>3, IsList(x), ListConcat
<1>6. \A i \in 1 .. Len(o) : (o \o x)[i] = o[i] BY ONLY <1>3, IsList(x), ListConcat
<1>7. \A i \in 1 .. Len(x) : (o \o x)[Len(o) + i] = x[i] BY ONLY <1>3, IsList(x), ListConcat
<1>8. \A i \in 1 .. Len(x) : 1 + i = i + 1 BY <1>1
<1> QED BY <1>1, <1>2, <1>4, <1>5, <1>6, <1>7, <1>8

(* The first array and the others. *)
LEMMA FlattenedFirst ==
  ASSUME NEW q, NEW r, NEW e, IsList(q), Arrays(r), IsList(e), Len(q) = Len(r) + 1, q[1] = e,
         \A i \in 1 .. Len(r) : q[i + 1] = r[i]
  PROVE  Arrays(q) /\ FlattenSeq(q) = e \o FlattenSeq(r)
<1>1. IsList(r) /\ Len(r) \in Nat BY ListIs DEF Arrays
<1>2. PICK o : o = <<e>> OBVIOUS
<1>3. Arrays(o) /\ FlattenSeq(o) = e BY <1>2, FlattenedOne
<1>4. PICK u : u = o \o r OBVIOUS
<1>5. /\ IsList(u) /\ Len(u) = Len(r) + 1 /\ u[1] = e
      /\ \A i \in 1 .. Len(r) : u[i + 1] = r[i]
  BY <1>1, <1>2, <1>4, AfterFirst
<1>6. ASSUME NEW i \in 1 .. Len(q) PROVE q[i] = u[i]
  <2>1. CASE i = 1 BY <1>5, <2>1
  <2>2. CASE i # 1
    <3>1. PICK j : j = i - 1 OBVIOUS
    <3>2. j \in 1 .. Len(r) /\ j + 1 = i BY <1>1, <2>2, <3>1
    <3> QED BY <1>5, <3>2
  <2> QED BY <2>1, <2>2
<1>7. q = u BY <1>5, <1>6, ListSame
<1>8. Arrays(u) /\ FlattenSeq(u) = FlattenSeq(o) \o FlattenSeq(r)
  BY <1>3, <1>4, ArraysConcat, FlattenedConcat
<1> QED BY <1>3, <1>7, <1>8

(* A list of lists. *)
LEMMA JoinedMore ==
  ASSUME NEW v, NEW y, IsList(y), Arrays(v), \A j \in 1 .. Len(y) : Arrays(y[j])
  PROVE  /\ IsList(Joined(y)) /\ Joined(<<>>) = <<>>
         /\ Joined(<<v>> \o y) = FlattenSeq(v) \o Joined(y)
<1>1. PICK n : n = Len(y) OBVIOUS
<1>2. n \in Nat BY <1>1, ListIs
<1>3. PICK r : r = [j \in 1 .. n |-> FlattenSeq(y[j])] OBVIOUS
<1>4. IsList(r) /\ Len(r) = n
  <2>1. r = [j \in 1 .. n |-> r[j]] BY <1>3
  <2> QED BY <1>2, <2>1, ListMade
<1>5. Arrays(r)
  <2>1. \A j \in 1 .. n : IsList(r[j]) BY <1>1, <1>3, FlattenedIsList
  <2> QED BY <1>4, <2>1 DEF Arrays
<1>6. Joined(y) = FlattenSeq(r) BY <1>1, <1>3 DEF Joined, Flattened
<1>7. IsList(Joined(y)) BY <1>5, <1>6, FlattenedIsList
<1>8. Joined(<<>>) = <<>>
  <2>1. PICK e : e = [j \in 1 .. 0 |-> Flattened(<<>>[j])] OBVIOUS
  <2>2. e = [j \in 1 .. 0 |-> e[j]] BY <2>1
  <2>3. IsList(e) /\ Len(e) = 0 BY <2>2, ListMade
  <2>4. e = <<>> BY <2>3, NoItems
  <2>5. Joined(<<>>) = FlattenSeq(e) BY <2>1, ListEmpty DEF Joined
  <2> QED BY <2>4, <2>5, FlattenedEmpty
<1>11. PICK w : w = <<v>> \o y OBVIOUS
<1>12. /\ IsList(w) /\ Len(w) = n + 1 /\ w[1] = v /\ \A i \in 1 .. n : w[i + 1] = y[i]
  BY <1>1, <1>11, AfterFirst
<1>15. PICK q : q = [j \in 1 .. n + 1 |-> FlattenSeq(w[j])] OBVIOUS
<1>16. Joined(w) = FlattenSeq(q) BY <1>12, <1>15 DEF Joined, Flattened
<1>17. IsList(q) /\ Len(q) = n + 1
  <2>1. q = [j \in 1 .. n + 1 |-> q[j]] BY <1>15
  <2>2. n + 1 \in Nat BY <1>2
  <2> QED BY <2>1, <2>2, ListMade
<1>18. q[1] = FlattenSeq(v) BY <1>2, <1>12, <1>15
<1>19. \A i \in 1 .. n : q[i + 1] = r[i]
  <2>1. \A i \in 1 .. n : i + 1 \in 1 .. n + 1 BY <1>2
  <2> QED BY <1>3, <1>12, <1>15, <2>1
<1>20. IsList(FlattenSeq(v)) BY FlattenedIsList
<1>21. FlattenSeq(q) = FlattenSeq(v) \o FlattenSeq(r)
  BY <1>4, <1>5, <1>17, <1>18, <1>19, <1>20, FlattenedFirst
<1> QED BY <1>6, <1>7, <1>8, <1>11, <1>16, <1>21

(* A list again and again. *)
LEMMA TimesMore ==
  ASSUME NEW s, IsList(s), NEW n \in Nat
  PROVE  /\ IsList(Times(s, n)) /\ Times(s, 0) = <<>>
         /\ n > 0 => Times(s, n) = s \o Times(s, n - 1)
<1>1. ASSUME NEW m \in Nat, NEW r, r = [i \in 1 .. m |-> s]
      PROVE  Arrays(r) /\ Len(r) = m /\ IsList(r)
  <2>1. r = [i \in 1 .. m |-> r[i]] BY <1>1
  <2>2. IsList(r) /\ Len(r) = m BY <1>1, <2>1, ListMade
  <2>3. \A i \in 1 .. m : IsList(r[i]) BY <1>1
  <2> QED BY <2>2, <2>3 DEF Arrays
<1>2. PICK q : q = [i \in 1 .. n |-> s] OBVIOUS
<1>3. Arrays(q) /\ Len(q) = n /\ IsList(q) BY <1>1, <1>2
<1>4. Times(s, n) = FlattenSeq(q) BY <1>2 DEF Times
<1>5. IsList(Times(s, n)) BY <1>3, <1>4, FlattenedIsList
<1>6. Times(s, 0) = <<>>
  <2>1. PICK e : e = [i \in 1 .. 0 |-> s] OBVIOUS
  <2>2. Len(e) = 0 /\ IsList(e) BY <1>1, <2>1
  <2>3. e = <<>> BY <2>2, NoItems
  <2> QED BY <2>1, <2>3, FlattenedEmpty DEF Times
<1>7. ASSUME n > 0 PROVE Times(s, n) = s \o Times(s, n - 1)
  <2>1. PICK m : m = n - 1 OBVIOUS
  <2>2. m \in Nat /\ m + 1 = n BY <1>7, <2>1
  <2>3. PICK r : r = [i \in 1 .. m |-> s] OBVIOUS
  <2>4. Arrays(r) /\ Len(r) = m BY <1>1, <2>2, <2>3
  <2>5. Times(s, m) = FlattenSeq(r) BY <2>3 DEF Times
  <2>6. q[1] = s BY <1>2, <1>7
  <2>7. \A i \in 1 .. m : q[i + 1] = r[i]
    <3>1. \A i \in 1 .. m : i + 1 \in 1 .. n BY <2>2
    <3> QED BY <1>2, <2>3, <3>1
  <2>8. FlattenSeq(q) = s \o FlattenSeq(r) BY <1>3, <2>2, <2>4, <2>6, <2>7, FlattenedFirst
  <2> QED BY <1>4, <2>1, <2>5, <2>8
<1> QED BY <1>5, <1>6, <1>7
(* What is made of the pairs of items of two lists: r of those of x and y, *)
(* q of those of x1 and y1, which have one more before them.               *)
OfPairs(x, y, x1, y1, r, q, e) ==
  /\ r = [j \in Both(x, y) |-> r[j]] /\ q = [j \in Both(x1, y1) |-> q[j]]
  /\ \A j \in Both(x, y) : IsList(r[j]) /\ q[j + 1] = r[j]
  /\ q[1] = e /\ IsList(e)

LEMMA PairsMore ==
  ASSUME NEW x, NEW y, IsList(x), IsList(y), NEW v, NEW w, NEW r, NEW q, NEW e,
         OfPairs(x, y, <<v>> \o x, <<w>> \o y, r, q, e)
  PROVE  Arrays(r) /\ Arrays(q) /\ FlattenSeq(q) = e \o FlattenSeq(r)
<1>0. PICK x1, y1 : x1 = <<v>> \o x /\ y1 = <<w>> \o y OBVIOUS
<1>1. Len(x) \in Nat /\ Len(y) \in Nat BY ListIs
<1>2. Len(x1) = Len(x) + 1 /\ Len(y1) = Len(y) + 1 BY <1>0, AfterFirst
<1>3. PICK m : m = Smaller(Len(x), Len(y)) OBVIOUS
<1>4. m \in Nat /\ Smaller(Len(x1), Len(y1)) = m + 1 /\ m + 1 \in Nat
  BY <1>1, <1>2, <1>3 DEF Smaller
<1>5. Both(x, y) = 1 .. m /\ Both(x1, y1) = 1 .. m + 1 BY <1>3, <1>4 DEF Both
<1>6. /\ r = [j \in Both(x, y) |-> r[j]] /\ q = [j \in Both(x1, y1) |-> q[j]]
      /\ \A j \in Both(x, y) : IsList(r[j]) /\ q[j + 1] = r[j]
      /\ q[1] = e /\ IsList(e)
  BY <1>0 DEF OfPairs
<1>7. IsList(r) /\ Len(r) = m
  <2>1. r = [j \in 1 .. m |-> r[j]] BY ONLY <1>5, <1>6
  <2> QED BY ONLY <1>4, <2>1, ListMade
<1>8. IsList(q) /\ Len(q) = m + 1
  <2>1. q = [j \in 1 .. m + 1 |-> q[j]] BY ONLY <1>5, <1>6
  <2> QED BY ONLY <1>4, <2>1, ListMade
<1>9. Arrays(r) BY <1>5, <1>7, <1>6 DEF Arrays
<1>10. \A i \in 1 .. m : q[i + 1] = r[i] BY <1>5, <1>6
<1> QED BY <1>7, <1>8, <1>9, <1>10, <1>6, FlattenedFirst

LEMMA PairsNone ==
  ASSUME NEW x, NEW y, IsList(x), IsList(y), x = <<>> \/ y = <<>>, NEW r,
         r = [j \in Both(x, y) |-> r[j]]
  PROVE  FlattenSeq(r) = <<>>
<1>1. Len(x) \in Nat /\ Len(y) \in Nat /\ (Len(x) = 0 \/ Len(y) = 0) BY ListIs, ListEmpty
<1>2. Both(x, y) = 1 .. 0 BY <1>1 DEF Both, Smaller
<1>3. r = [j \in 1 .. 0 |-> r[j]] BY ONLY <1>2, r = [j \in Both(x, y) |-> r[j]]
<1>4. IsList(r) /\ Len(r) = 0 BY ONLY <1>3, ListMade, 0 \in Nat
<1> QED BY <1>4, NoItems, FlattenedEmpty

LEMMA StutteredMore ==
  ASSUME NEW x, NEW y, IsList(x), IsList(y), NEW v, NEW w \in Int,
         \A j \in 1 .. Len(y) : y[j] \in Int
  PROVE  /\ IsList(Stuttered(x, y))
         /\ Stuttered(<<v>> \o x, <<w>> \o y) = Repeated(v, w) \o Stuttered(x, y)
<1>1. PICK x1 : x1 = <<v>> \o x OBVIOUS
<1>2. PICK y1 : y1 = <<w>> \o y OBVIOUS
<1>3. /\ x1[1] = v /\ \A i \in 1 .. Len(x) : x1[i + 1] = x[i]
      /\ y1[1] = w /\ \A i \in 1 .. Len(y) : y1[i + 1] = y[i]
      /\ Len(x1) = Len(x) + 1 /\ Len(y1) = Len(y) + 1 /\ Len(x) \in Nat /\ Len(y) \in Nat
  <2>1. /\ x1[1] = v /\ \A i \in 1 .. Len(x) : x1[i + 1] = x[i]
        /\ Len(x1) = Len(x) + 1
    BY <1>1, AfterFirst
  <2>2. /\ y1[1] = w /\ \A i \in 1 .. Len(y) : y1[i + 1] = y[i]
        /\ Len(y1) = Len(y) + 1
    BY <1>2, AfterFirst
  <2> QED BY <2>1, <2>2, ListIs
<1>4. PICK r : r = [j \in Both(x, y) |-> Repeated(x[j], y[j])] OBVIOUS
<1>5. PICK q : q = [j \in Both(x1, y1) |-> Repeated(x1[j], y1[j])] OBVIOUS
<1>6. PICK e : e = Repeated(v, w) OBVIOUS
<1>7. IsList(e) BY <1>6, RepeatedIs
<1>8. /\ r = [j \in Both(x, y) |-> r[j]] /\ q = [j \in Both(x1, y1) |-> q[j]]
  BY <1>4, <1>5
<1>9. ASSUME NEW j \in Both(x, y) PROVE IsList(r[j]) /\ q[j + 1] = r[j]
  <2>1. j \in 1 .. Len(x) /\ j \in 1 .. Len(y) BY <1>3 DEF Both, Smaller
  <2>2. j + 1 \in Both(x1, y1) BY <1>3, <2>1 DEF Both, Smaller
  <2>3. r[j] = Repeated(x[j], y[j]) BY <1>4
  <2>4. q[j + 1] = Repeated(x1[j + 1], y1[j + 1]) BY <1>5, <2>2
  <2>5. y[j] \in Int BY <2>1
  <2> QED BY <1>3, <2>1, <2>3, <2>4, <2>5, RepeatedIs
<1>10. q[1] = e
  <2>1. 1 \in Both(x1, y1) BY <1>3 DEF Both, Smaller
  <2> QED BY <1>3, <1>5, <1>6, <2>1
<1>11. Arrays(r) /\ FlattenSeq(q) = e \o FlattenSeq(r)
  <2>1. OfPairs(x, y, x1, y1, r, q, e) BY <1>7, <1>8, <1>9, <1>10 DEF OfPairs
  <2>2. OfPairs(x, y, <<v>> \o x, <<w>> \o y, r, q, e) BY <1>1, <1>2, <2>1
  <2> QED BY ONLY IsList(x), IsList(y), <2>2, PairsMore
<1> QED BY <1>1, <1>2, <1>4, <1>5, <1>6, <1>11, FlattenedIsList DEF Stuttered

LEMMA ApartMore ==
  ASSUME NEW x, NEW y, IsList(x), IsList(y), NEW v, NEW w \in Int,
         \A j \in 1 .. Len(y) : y[j] \in Int
  PROVE  /\ IsList(Apart(x, y))
         /\ Apart(<<v>> \o x, <<w>> \o y) = (<<v>> \o Repeated(0, w)) \o Apart(x, y)
<1>1. PICK x1 : x1 = <<v>> \o x OBVIOUS
<1>2. PICK y1 : y1 = <<w>> \o y OBVIOUS
<1>3. /\ x1[1] = v /\ \A i \in 1 .. Len(x) : x1[i + 1] = x[i]
      /\ y1[1] = w /\ \A i \in 1 .. Len(y) : y1[i + 1] = y[i]
      /\ Len(x1) = Len(x) + 1 /\ Len(y1) = Len(y) + 1 /\ Len(x) \in Nat /\ Len(y) \in Nat
  <2>1. /\ x1[1] = v /\ \A i \in 1 .. Len(x) : x1[i + 1] = x[i]
        /\ Len(x1) = Len(x) + 1
    BY <1>1, AfterFirst
  <2>2. /\ y1[1] = w /\ \A i \in 1 .. Len(y) : y1[i + 1] = y[i]
        /\ Len(y1) = Len(y) + 1
    BY <1>2, AfterFirst
  <2> QED BY <2>1, <2>2, ListIs
<1>4. PICK r : r = [j \in Both(x, y) |-> <<x[j]>> \o Repeated(0, y[j])] OBVIOUS
<1>5. PICK q : q = [j \in Both(x1, y1) |-> <<x1[j]>> \o Repeated(0, y1[j])] OBVIOUS
<1>6. PICK e : e = <<v>> \o Repeated(0, w) OBVIOUS
<1>7. IsList(e) BY <1>6, RepeatedIs, AfterFirst
<1>8. /\ r = [j \in Both(x, y) |-> r[j]] /\ q = [j \in Both(x1, y1) |-> q[j]]
  BY <1>4, <1>5
<1>9. ASSUME NEW j \in Both(x, y) PROVE IsList(r[j]) /\ q[j + 1] = r[j]
  <2>1. j \in 1 .. Len(x) /\ j \in 1 .. Len(y) BY <1>3 DEF Both, Smaller
  <2>2. j + 1 \in Both(x1, y1) BY <1>3, <2>1 DEF Both, Smaller
  <2>3. r[j] = <<x[j]>> \o Repeated(0, y[j]) BY <1>4
  <2>4. q[j + 1] = <<x1[j + 1]>> \o Repeated(0, y1[j + 1]) BY <1>5, <2>2
  <2>5. y[j] \in Int BY <2>1
  <2>6. IsList(Repeated(0, y[j])) BY <2>5, RepeatedIs
  <2>7. IsList(r[j]) BY <2>3, <2>6, AfterFirst
  <2> QED BY <1>3, <2>1, <2>3, <2>4, <2>7
<1>10. q[1] = e
  <2>1. 1 \in Both(x1, y1) BY <1>3 DEF Both, Smaller
  <2> QED BY <1>3, <1>5, <1>6, <2>1
<1>11. Arrays(r) /\ FlattenSeq(q) = e \o FlattenSeq(r)
  <2>1. OfPairs(x, y, x1, y1, r, q, e) BY <1>7, <1>8, <1>9, <1>10 DEF OfPairs
  <2>2. OfPairs(x, y, <<v>> \o x, <<w>> \o y, r, q, e) BY <1>1, <1>2, <2>1
  <2> QED BY ONLY IsList(x), IsList(y), <2>2, PairsMore
<1>12. Apart(x, y) = FlattenSeq(r) /\ Apart(x1, y1) = FlattenSeq(q)
  BY <1>4, <1>5, ZerosAre DEF Apart
<1> QED BY <1>1, <1>2, <1>6, <1>11, <1>12, FlattenedIsList

-----------------------------------------------------------------------------
(* What is still to be written.                                            *)

(* The words whose generator goes over its input as its promise does.      *)
Exact ==
  {"keep", "take", "ncyc", "append", "add", "cat", "keepWhile", "stutter", "spread",
   "shortas", "longas", "longas0"}

ListA(i) == Flattened(i.a.nodes)
ListB(i) == ItemsOf(i.b, Len(ListA(i)))
Counts(r) == \A m \in Nat : \A j \in 1 .. Len(Seen(r, m)) : Seen(r, m)[j] \in Int

(* z is what the generator g, made from i, writes after the first w items, *)
(* l of them in the block it is filling.                                   *)
GoesOn(i, g, l, w, z) ==
  LET a == ToRead(g.a)
      b == Seen(g.b, Len(a))
  IN  /\ i.op = "keep" => z = FirstOf(a, g.n + l)
      /\ i.op = "take" => z = FirstOf(a \o Repeated(0, i.n), i.n - w)
      /\ i.op = "ncyc" => z = a \o Times(ListA(i), g.n - 1)
      /\ i.op = "append" => z = a \o ToRead(i.b)
      /\ i.op = "add" => z = a \o <<i.n>>
      /\ i.op = "cat" => z = a \o Joined(ToRead(g.b))
      /\ i.op = "keepWhile" => z = Accepted(a, b)
      /\ i.op = "stutter" => z = Repeated(g.held, g.n) \o Stuttered(a, b)
      /\ i.op = "spread" => z = Repeated(0, g.n) \o Apart(a, b)
      /\ i.op = "shortas" => z = CutAs(a, b)
      /\ i.op = "longas" =>
           z = FirstOf(a \o Repeated(LastOr(ListA(i), i.n), Len(ListB(i))), Len(ToRead(g.b)))
      /\ i.op = "longas0" =>
           z = FirstOf(a \o Repeated(0, Len(ListB(i))), Len(ToRead(g.b)))

(* longas holds the last item of the list that it has read to its end; n   *)
(* is what it holds at first.                                              *)
HoldsLast(i, g) ==
  LET a == ToRead(g.a)
  IN  IF a = <<>> THEN g.held = LastOr(ListA(i), i.n) ELSE Last(a) = LastOr(ListA(i), i.n)
MembersOK(i, g, l, w) ==
  /\ ~ IsConstant(g.a)
  /\ i.op = "keep" => g.n \in Nat
  /\ i.op = "take" => g.n + w <= i.n /\ l + w <= i.n
  /\ i.op = "ncyc" => g.n > 0
  /\ i.op \in {"ncyc", "append", "add"} => g.a.offset = 0
  /\ i.op = "append" => g.b = i.b
  /\ i.op \in {"cat", "longas", "longas0"} => ~ IsConstant(g.b)
  /\ i.op = "cat" => \A j \in 1 .. Len(ToRead(g.b)) : Arrays(ToRead(g.b)[j])
  /\ i.op \in {"stutter", "spread"} => Counts(g.b)
  /\ i.op \in {"longas", "longas0"} => Len(ToRead(g.b)) <= Len(ListB(i))
  /\ i.op = "longas" => HoldsLast(i, g)

Goes(i, g, l, w, z) == IsGen(g, i.op) /\ MembersOK(i, g, l, w) /\ GoesOn(i, g, l, w, z)

PiecesOK ==
  /\ left \in Nat /\ (pulling \/ (block = <<>> /\ left = 0)) /\ (ended => ~ pulling)
  /\ (threw \in Broken => pulling) /\ IsList(block) /\ Arrays(out)
RemainsOK ==
  \E z : /\ IsList(z) /\ PromiseOf(given) = Written \o z
         /\ IF gen.done \/ ended \/ threw \in Broken
            THEN threw \notin {"no", "again"} \/ given.op = "take" \/ z = <<>>
            ELSE Goes(given, gen, left, Len(Written), z)
Promising == given.op \in Exact => GivenOK /\ PiecesOK /\ RemainsOK

LEMMA PromiseIs ==
  ASSUME NEW i
  PROVE  /\ i.op = "keep" => PromiseOf(i) = FirstOf(ListA(i), i.n)
         /\ i.op = "take" => PromiseOf(i) = FirstOf(ListA(i) \o Zeros(i.n), i.n)
         /\ i.op = "ncyc" => PromiseOf(i) = Times(ListA(i), i.n)
         /\ i.op = "append" => PromiseOf(i) = ListA(i) \o Flattened(i.b.nodes)
         /\ i.op = "add" => PromiseOf(i) = Append(ListA(i), i.n)
         /\ i.op = "cat" => PromiseOf(i) = Joined(ListB(i))
         /\ i.op = "keepWhile" => PromiseOf(i) = Accepted(ListA(i), ListB(i))
         /\ i.op = "stutter" => PromiseOf(i) = Stuttered(ListA(i), ListB(i))
         /\ i.op = "spread" => PromiseOf(i) = Apart(ListA(i), ListB(i))
         /\ i.op = "shortas" => PromiseOf(i) = CutAs(ListA(i), ListB(i))
         /\ i.op = "longas" =>
              PromiseOf(i) = AsLongAs(ListA(i), ListB(i), LastOr(ListA(i), i.n))
         /\ i.op = "longas0" => PromiseOf(i) = AsLongAs(ListA(i), ListB(i), 0)
BY DEF PromiseOf, ListA, ListB

(* What the inputs are. *)
LEMMA InputsAre ==
  ASSUME GivenOK
  PROVE  /\ IsReader(given.a) /\ IsReader(given.b) /\ given.n \in Nat /\ blockSize \in Nat \ {0}
         /\ given.a.offset = 0 /\ given.b.offset = 0
         /\ given.op # "cat" => ~ IsConstant(given.a)
         /\ given.op \in {"cat", "longas", "longas0"} => ~ IsConstant(given.b)
         /\ IsConstant(given.b) => given.b.nodes = <<>>
         /\ given.op = "ncyc" => given.n > 0 /\ given.a.nodes # <<>>
         /\ given.op = "cat" => ~ Ended(given.b) /\ \A v \in ItemsIn(given.b) : IsInput(Reader(v))
         /\ given.op \in {"stutter", "spread"} =>
              given.n = 0 /\ \A v \in ItemsIn(given.b) : v \in Int
<1>1. IsInput(given.a) /\ IsInput(given.b) BY StreamOpsAssumption DEF GivenOK
<1>2. given.a.offset = 0 /\ given.b.offset = 0
  <2>1. /\ given.a = [nodes |-> given.a.nodes, offset |-> 0, constant |-> given.a.constant]
        /\ given.b = [nodes |-> given.b.nodes, offset |-> 0, constant |-> given.b.constant]
    BY <1>1 DEF IsInput
  <2> QED BY <2>1
<1>3. given.op \in DOMAIN Inputs /\ given \in Inputs[given.op] BY DEF GivenOK
<1>4. IsConstant(given.b) => given.b.nodes = <<>> BY <1>1 DEF IsInput
<1> QED BY <1>2, <1>3, <1>4, GivenIs, PromisesAssumption

LEMMA ListsAre ==
  ASSUME GivenOK
  PROVE  /\ IsList(ListA(given)) /\ Len(ListA(given)) \in Nat /\ ListA(given) = ToRead(given.a)
         /\ IsList(ListB(given)) /\ Len(ListB(given)) \in Nat
         /\ \A m : m = Len(ListA(given)) => ListB(given) = Seen(given.b, m)
<1>1. IsReader(given.a) /\ IsReader(given.b) /\ given.a.offset = 0 /\ given.b.offset = 0
  BY InputsAre
<1>2. ToRead(given.a) = FlattenSeq(given.a.nodes) /\ ToRead(given.b) = FlattenSeq(given.b.nodes)
  BY <1>1, ToReadIs
<1>3. IsList(ToRead(given.a)) /\ Len(ToRead(given.a)) \in Nat BY <1>1, ToReadIs
<1>4. ListA(given) = ToRead(given.a) BY <1>2 DEF ListA, Flattened
<1>5. ListB(given) = Seen(given.b, Len(ListA(given)))
  BY <1>2 DEF ListB, ItemsOf, Seen, Flattened
<1>6. IsList(ListB(given)) /\ Len(ListB(given)) \in Nat BY <1>1, <1>3, <1>4, <1>5, SeenIs
<1> QED BY <1>3, <1>4, <1>5, <1>6

(* What all items of the arrays are, all items of the list are. *)
LEMMA FlattenedItems ==
  ASSUME NEW s, Arrays(s), NEW S,
         \A i \in 1 .. Len(s) : \A j \in 1 .. Len(s[i]) : s[i][j] \in S
  PROVE  \A j \in 1 .. Total(s) : FlattenSeq(s)[j] \in S
<1>1. Len(s) \in Nat /\ \A i \in 1 .. Len(s) : IsList(s[i]) BY ListIs DEF Arrays
<1>2. CASE Len(s) = 0
  <2>1. s = <<>> BY <1>2, NoItems DEF Arrays
  <2> QED BY <2>1, FlattenedEmpty, ListEmpty DEF Total
<1>3. CASE Len(s) > 0
  <2>1. PICK f : Joins(s, f, Len(s)) BY <1>1, <1>3, JoinsExists
  <2>2. FlattenSeq(s) = f[Len(s)] BY <1>1, <1>3, <2>1, FlattenedIs
  <2>3. \A i \in 1 .. Len(s) : IsList(f[i]) BY <1>1, <2>1, JoinsAreLists
  <2>4. \A i \in 1 .. Len(s) : f[i] = IF i = 1 THEN s[i] ELSE f[i - 1] \o s[i]
    BY <2>1 DEF Joins
  <2> DEFINE C == {i \in 1 .. Len(s) : \A j \in 1 .. Len(f[i]) : f[i][j] \in S}
  <2>5. 1 \in C BY <1>3, <2>4
  <2>6. ASSUME NEW i \in 1 .. Len(s), i < Len(s), i \in C PROVE i + 1 \in C
    <3>1. i + 1 \in 1 .. Len(s) /\ i + 1 # 1 /\ (i + 1) - 1 = i BY <1>1, <2>6
    <3>2. PICK h : h = i + 1 OBVIOUS
    <3>3. PICK x : x = f[i] OBVIOUS
    <3>4. PICK y : y = s[h] OBVIOUS
    <3>5. f[h] = x \o y BY <2>4, <3>1, <3>2, <3>3, <3>4
    <3>6. IsList(x) /\ IsList(y) BY <1>1, <2>3, <3>1, <3>2, <3>3, <3>4
    <3>7. Len(x) \in Nat /\ Len(y) \in Nat /\ Len(x \o y) = Len(x) + Len(y)
      BY <3>6, ListIs, ListConcat
    <3>8. ASSUME NEW j \in 1 .. Len(f[h]) PROVE f[h][j] \in S
      <4>1. CASE j <= Len(x)
        <5>1. j \in 1 .. Len(x) BY <3>7, <4>1
        <5>2. (x \o y)[j] = x[j] BY <3>6, <5>1, ListConcat
        <5>3. x[j] \in S BY <2>6, <3>3, <5>1
        <5> QED BY <3>5, <5>2, <5>3
      <4>2. CASE ~ (j <= Len(x))
        <5>1. PICK k : k = j - Len(x) OBVIOUS
        <5>2. k \in 1 .. Len(y) /\ Len(x) + k = j BY <3>5, <3>7, <4>2, <5>1
        <5>3. (x \o y)[Len(x) + k] = y[k] BY <3>6, <5>2, ListConcat
        <5>4. y[k] \in S BY <3>1, <3>2, <3>4, <5>2
        <5> QED BY <3>5, <5>2, <5>3, <5>4
      <4> QED BY <4>1, <4>2
    <3> QED BY <3>1, <3>2, <3>8
  <2> HIDE DEF C
  <2>7. 1 .. Len(s) \subseteq C BY <1>1, <2>5, <2>6, CountUp
  <2>8. Len(s) \in C BY <1>1, <1>3, <2>7
  <2> QED BY <2>2, <2>8 DEF C, Total
<1> QED BY <1>1, <1>2, <1>3

-----------------------------------------------------------------------------
(* The steps, as far as they are the same for all words.                   *)

LEMMA WrittenAre ==
  ASSUME IsList(block), Arrays(out)
  PROVE  /\ IsList(Written) /\ Len(Written) \in Nat
         /\ \A items : IsList(items) =>
              FlattenSeq(out) \o (block \o items) = Written \o items
         /\ block = <<>> => Written = FlattenSeq(out)
<1>1. PICK o : o = FlattenSeq(out) OBVIOUS
<1>2. IsList(o) BY <1>1, FlattenedIsList
<1>3. Written = o \o block BY <1>1 DEF Written
<1>4. IsList(o \o block) BY <1>2, ListConcat
<1>5. ASSUME NEW items, IsList(items) PROVE o \o (block \o items) = (o \o block) \o items
  BY <1>2, <1>5, JoinedAgain
<1>6. block = <<>> => o \o block = o BY <1>2, JoinedToNone
<1> QED BY <1>1, <1>3, <1>4, <1>5, <1>6, ListIs

LEMMA PieceWritten ==
  ASSUME GivenOK, PiecesOK, pulling, threw \notin Broken,
         NEW items, NEW g, Write(items, g), IsList(items),
         Len(items) <= left, NEW z, PromiseOf(given) = Written \o z,
         NEW y, IsList(y), z = items \o y,
         IF g.done THEN y = <<>>
         ELSE Goes(given, g, left - Len(items), Len(Written) + Len(items), y)
  PROVE  (GivenOK /\ PiecesOK /\ RemainsOK)'
<1>1. /\ block' = block \o items /\ left' = left - Len(items) /\ gen' = g
      /\ given' = given /\ blockSize' = blockSize /\ pulling' = pulling
      /\ out' = out /\ ended' = ended /\ threw' = threw
  BY DEF Write, fixed
<1>2. IsList(block) /\ Arrays(out) /\ left \in Nat /\ ~ ended BY DEF PiecesOK
<1>3. Len(items) \in Nat BY ListIs
<1>4. IsList(Written) /\ Written' = Written \o items
  <2>1. Written' = FlattenSeq(out) \o (block \o items) BY <1>1 DEF Written
  <2> QED BY <1>2, <2>1, WrittenAre
<1>5. PromiseOf(given) = Written' \o y BY <1>4, JoinedAgain
<1>6. Len(Written') = Len(Written) + Len(items) BY <1>4, ListConcat
<1>7. GivenOK' BY <1>1 DEF GivenOK
<1>8. PiecesOK'
  <2>1. IsList(block') BY <1>1, <1>2, ListConcat
  <2> QED BY <1>1, <1>2, <1>3, <2>1 DEF PiecesOK
<1>9. RemainsOK'
  <2>1. IF gen'.done \/ ended' \/ threw' \in Broken
        THEN threw' \notin {"no", "again"} \/ given'.op = "take" \/ y = <<>>
        ELSE Goes(given', gen', left', Len(Written'), y)
    BY <1>1, <1>2, <1>6
  <2>2. PromiseOf(given') = Written' \o y BY <1>1, <1>5
  <2> QED BY <2>1, <2>2 DEF RemainsOK
<1> QED BY <1>7, <1>8, <1>9

LEMMA NothingIsLeft ==
  ASSUME GivenOK, PiecesOK, pulling, threw \notin Broken, SetDone(gen), NEW op, IsGen(gen, op),
         PromiseOf(given) = Written \o <<>>
  PROVE  (GivenOK /\ PiecesOK /\ RemainsOK)'
<1>1. PICK g : g = [gen EXCEPT !.done = TRUE] OBVIOUS
<1>2. Write(<<>>, g) BY <1>1 DEF SetDone, Remember
<1>3. g.done BY <1>1 DEF IsGen, Gen
<1>4. left \in Nat BY DEF PiecesOK
<1>5. IsList(<<>>) /\ Len(<<>>) <= left /\ <<>> = <<>> \o <<>> BY <1>4, ListEmpty, JoinedToNone
<1> QED BY <1>2, <1>3, <1>5, PieceWritten

LEMMA IsThrown ==
  ASSUME GivenOK, PiecesOK, RemainsOK, pulling,
         NEW g, ApplyThrows(g), NEW op, IsGen(g, op)
  PROVE  (GivenOK /\ PiecesOK /\ RemainsOK)'
<1>1. /\ gen' = [g EXCEPT !.done = TRUE] /\ threw' = "produced"
      /\ given' = given /\ blockSize' = blockSize /\ pulling' = pulling /\ left' = left
      /\ block' = block /\ out' = out /\ ended' = ended
  BY DEF ApplyThrows, fixed
<1>2. gen'.done BY <1>1 DEF IsGen, Gen
<1>3. PICK z : IsList(z) /\ PromiseOf(given) = Written \o z BY DEF RemainsOK
<1>4. Written' = Written BY <1>1 DEF Written
<1>5. RemainsOK' BY <1>1, <1>2, <1>3, <1>4 DEF RemainsOK
<1>6. GivenOK' /\ PiecesOK' BY <1>1 DEF GivenOK, PiecesOK, Broken
<1> QED BY <1>5, <1>6

(* Nobody catches what a function throws: some items have been written. *)
LEMMA IsLeft ==
  ASSUME GivenOK, PiecesOK, pulling, NEW items, Escape(items), IsList(items),
         Len(items) <= left, NEW z, PromiseOf(given) = Written \o z,
         NEW y, IsList(y), z = items \o y
  PROVE  (GivenOK /\ PiecesOK /\ RemainsOK)'
<1>1. /\ block' = block \o items /\ left' = left - Len(items) /\ threw' = "escaped"
      /\ given' = given /\ blockSize' = blockSize /\ gen' = gen /\ pulling' = pulling
      /\ out' = out /\ ended' = ended
  BY DEF Escape, fixed
<1>2. IsList(block) /\ Arrays(out) /\ left \in Nat /\ ~ ended BY DEF PiecesOK
<1>3. Len(items) \in Nat BY ListIs
<1>4. IsList(Written) /\ Written' = Written \o items
  <2>1. Written' = FlattenSeq(out) \o (block \o items) BY <1>1 DEF Written
  <2> QED BY <1>2, <2>1, WrittenAre
<1>5. PromiseOf(given) = Written' \o y
  <2>1. (Written \o items) \o y = Written \o (items \o y) BY <1>4, JoinedAgain
  <2> QED BY <1>4, <2>1
<1>6. GivenOK' BY <1>1 DEF GivenOK
<1>7. PiecesOK'
  <2>1. IsList(block') BY <1>1, <1>2, ListConcat
  <2> QED BY <1>1, <1>2, <1>3, <2>1 DEF PiecesOK
<1>8. RemainsOK'
  <2>1. threw' \in Broken /\ threw' \notin {"no", "again"} BY <1>1 DEF Broken
  <2>2. PromiseOf(given') = Written' \o y BY <1>1, <1>5
  <2> QED BY <2>1, <2>2 DEF RemainsOK
<1> QED BY <1>6, <1>7, <1>8

LEMMA NothingWritten ==
  ASSUME GivenOK, PiecesOK, pulling, Escape(<<>>), NEW z, PromiseOf(given) = Written \o z,
         IsList(z)
  PROVE  (GivenOK /\ PiecesOK /\ RemainsOK)'
<1>1. left \in Nat BY DEF PiecesOK
<1>2. IsList(<<>>) /\ Len(<<>>) <= left /\ z = <<>> \o z BY <1>1, ListEmpty, JoinedToNone
<1> QED BY <1>2, IsLeft

LEMMA WrittenStays ==
  ASSUME PiecesOK, Produce \/ End
  PROVE  Arrays(out') /\ Written' = Written
<1>1. IsList(block) /\ Arrays(out) BY DEF PiecesOK
<1>2. CASE Produce
  <2>1. out' = Append(out, block) /\ block' = <<>> BY <1>2 DEF Produce
  <2>2. Arrays(out') /\ FlattenSeq(out') = FlattenSeq(out) \o block
    BY <1>1, <2>1, FlattenedAppend
  <2>3. IsList(FlattenSeq(out')) BY <2>2, FlattenedIsList
  <2> QED BY <2>1, <2>2, <2>3, JoinedToNone DEF Written
<1>3. CASE End
  <2>1. out' = Append(out, <<>>) /\ block' = block BY <1>3 DEF End
  <2>2. Arrays(out') /\ FlattenSeq(out') = FlattenSeq(out) \o <<>>
    BY <1>1, <2>1, FlattenedAppend, ListEmpty
  <2>3. FlattenSeq(out') = FlattenSeq(out) BY <1>1, <2>2, FlattenedIsList, JoinedToNone
  <2> QED BY <2>1, <2>2, <2>3 DEF Written
<1> QED BY <1>2, <1>3

LEMMA ListEnds ==
  ASSUME GivenOK, PiecesOK, ~ pulling, End, NEW z, IsList(z), PromiseOf(given) = Written \o z,
         threw \notin {"no", "again"} \/ given.op = "take" \/ z = <<>>
  PROVE  (GivenOK /\ PiecesOK /\ RemainsOK)'
<1>1. /\ ended' = TRUE
      /\ given' = given /\ blockSize' = blockSize /\ gen' = gen
      /\ pulling' = pulling /\ left' = left /\ block' = block /\ threw' = threw
  BY DEF End, fixed
<1>2. Arrays(out') /\ Written' = Written BY WrittenStays
<1>3. RemainsOK' BY <1>1, <1>2 DEF RemainsOK
<1>4. GivenOK' /\ PiecesOK' BY <1>1, <1>2 DEF GivenOK, PiecesOK
<1> QED BY <1>3, <1>4

LEMMA BlockProduced ==
  ASSUME GivenOK, PiecesOK, RemainsOK, Produce
  PROVE  (GivenOK /\ PiecesOK /\ RemainsOK)'
<1>1. /\ pulling' = FALSE /\ left' = 0 /\ block' = <<>>
      /\ given' = given /\ blockSize' = blockSize /\ gen' = gen /\ ended' = ended
      /\ threw' = threw /\ threw \notin Broken /\ pulling /\ (left = 0 \/ gen.done)
  BY DEF Produce, Filling, fixed
<1>2. Arrays(out') /\ Written' = Written BY WrittenStays
<1>3. RemainsOK' BY <1>1, <1>2 DEF RemainsOK
<1>4. GivenOK' /\ PiecesOK' BY <1>1, <1>2, ListEmpty DEF GivenOK, PiecesOK
<1> QED BY <1>3, <1>4

-----------------------------------------------------------------------------
(* Reading a single item.                                                  *)

LEMMA OneRead ==
  ASSUME NEW r, IsReader(r), ~ Ended(r)
  PROVE  /\ IsReader(Past(r)) /\ Items(r, 1) = <<One(r)>>
         /\ ~ IsConstant(r) => /\ ToRead(r) = <<One(r)>> \o ToRead(Past(r))
                               /\ ~ IsConstant(Past(r))
<1>1. 1 \in Nat /\ 1 \in 0 .. Count(r, 1) BY CountIs
<1>2. IsReader(Past(r)) BY PastReads
<1>3. IsList(Items(r, 1)) /\ Len(Items(r, 1)) = 1 BY <1>1, ItemsAre
<1>4. Items(r, 1) = <<One(r)>>
  <2>1. IsList(<<One(r)>>) /\ Len(<<One(r)>>) = 1 /\ <<One(r)>>[1] = One(r) BY ListOne
  <2>2. \A i \in 1 .. 1 : Items(r, 1)[i] = <<One(r)>>[i] BY <2>1 DEF One
  <2> QED BY <1>3, <2>1, <2>2, ListSame
<1>5. ASSUME ~ IsConstant(r)
      PROVE  ToRead(r) = <<One(r)>> \o ToRead(Past(r)) /\ ~ IsConstant(Past(r))
  BY <1>1, <1>4, <1>5, ReadsPiece DEF Past
<1> QED BY <1>2, <1>4, <1>5

LEMMA OneSeen ==
  ASSUME NEW r, IsReader(r), ~ Ended(r), NEW m \in Nat, m > 0
  PROVE  /\ Seen(r, m) = <<One(r)>> \o Seen(Past(r), m - 1)
         /\ IsConstant(Past(r)) <=> IsConstant(r)
<1>1. 1 \in Nat /\ 1 \in 0 .. Count(r, 1) /\ 1 <= m BY CountIs
<1>2. /\ Seen(r, m) = Items(r, 1) \o Seen(Advance(r, 1), m - 1)
      /\ IsConstant(Advance(r, 1)) <=> IsConstant(r)
  BY <1>1, SeesPiece
<1> QED BY <1>2, OneRead DEF Past

LEMMA CountsAre ==
  ASSUME NEW r, IsReader(r), r.offset = 0, \A v \in ItemsIn(r) : v \in Int
  PROVE  Counts(r)
<1>1. CASE IsConstant(r)
  <2>1. r.constant[1] \in ItemsIn(r) BY <1>1 DEF ItemsIn
  <2>2. ASSUME NEW m \in Nat, NEW j \in 1 .. Len(Repeated(r.constant[1], m))
        PROVE  Repeated(r.constant[1], m)[j] \in Int
    <3>1. j \in 1 .. m BY RepeatedIs
    <3>2. Repeated(r.constant[1], m)[j] = r.constant[1] BY <3>1, RepeatedIs
    <3> QED BY <2>1, <3>2
  <2> QED BY <1>1, <2>2 DEF Counts, Seen
<1>2. CASE ~ IsConstant(r)
  <2>1. Arrays(r.nodes) BY DEF IsReader
  <2>2. ASSUME NEW i \in 1 .. Len(r.nodes), NEW j \in 1 .. Len(r.nodes[i])
        PROVE  r.nodes[i][j] \in Int
    <3>1. r.nodes[i][j] \in ItemsIn(r) BY DEF ItemsIn
    <3> QED BY <3>1
  <2>3. \A j \in 1 .. Total(r.nodes) : FlattenSeq(r.nodes)[j] \in Int
    BY <2>1, <2>2, FlattenedItems
  <2>4. ToRead(r) = FlattenSeq(r.nodes) BY ToReadIs
  <2> QED BY <1>2, <2>3, <2>4 DEF Counts, Seen, Total
<1> QED BY <1>1, <1>2

LEMMA OneCounted ==
  ASSUME NEW r, IsReader(r), ~ Ended(r), Counts(r)
  PROVE  One(r) \in Int /\ Counts(Past(r))
<1>1. IsReader(Past(r)) BY OneRead
<1>2. \A m \in Nat : IsList(Seen(Past(r), m)) BY <1>1, SeenIs
<1>3. One(r) \in Int
  <2>1. PICK n, m : n = 1 /\ m = n - 1 OBVIOUS
  <2>2. n \in Nat /\ n > 0 /\ m \in Nat BY <2>1
  <2>3. PICK t : t = Seen(Past(r), m) OBVIOUS
  <2>4. Seen(r, 1) = <<One(r)>> \o t BY <2>1, <2>2, <2>3, OneSeen
  <2>5. IsList(t) /\ Len(t) \in Nat BY <1>2, <2>2, <2>3, ListIs
  <2>6. Len(<<One(r)>> \o t) = Len(t) + 1 /\ (<<One(r)>> \o t)[1] = One(r)
    BY <2>5, AfterFirst
  <2>7. 1 \in 1 .. Len(Seen(r, 1)) BY <2>4, <2>5, <2>6
  <2>8. Seen(r, 1)[1] \in Int BY <2>7 DEF Counts
  <2> QED BY <2>4, <2>6, <2>8
<1>4. ASSUME NEW m \in Nat, NEW j \in 1 .. Len(Seen(Past(r), m))
      PROVE  Seen(Past(r), m)[j] \in Int
  <2>1. PICK t : t = Seen(Past(r), m) OBVIOUS
  <2>2. IsList(t) /\ Len(t) \in Nat BY <1>2, <2>1, ListIs
  <2>3. PICK n : n = m + 1 OBVIOUS
  <2>4. n \in Nat /\ n > 0 /\ n - 1 = m BY <2>3
  <2>5. Seen(r, n) = <<One(r)>> \o t BY <2>1, <2>4, OneSeen
  <2>6. Len(<<One(r)>> \o t) = Len(t) + 1 /\ (<<One(r)>> \o t)[j + 1] = t[j]
    BY <2>1, <2>2, AfterFirst
  <2>7. j + 1 \in 1 .. Len(Seen(r, n)) BY <2>1, <2>2, <2>5, <2>6
  <2>8. Seen(r, n)[j + 1] \in Int BY <2>4, <2>7 DEF Counts
  <2> QED BY <2>1, <2>5, <2>6, <2>8
<1> QED BY <1>3, <1>4 DEF Counts

(* The lists that cat is given to join.                                    *)
LEMMA ListsToRead ==
  ASSUME NEW r, IsReader(r), r.offset = 0, ~ IsConstant(r),
         \A v \in ItemsIn(r) : IsInput(Reader(v))
  PROVE  \A j \in 1 .. Len(ToRead(r)) : Arrays(ToRead(r)[j])
<1>1. Arrays(r.nodes) BY DEF IsReader
<1>2. PICK S : S = ItemsIn(r) OBVIOUS
<1>3. \A i \in 1 .. Len(r.nodes) : \A j \in 1 .. Len(r.nodes[i]) : r.nodes[i][j] \in S
  BY <1>2 DEF ItemsIn
<1>4. \A j \in 1 .. Total(r.nodes) : FlattenSeq(r.nodes)[j] \in S BY <1>1, <1>3, FlattenedItems
<1>5. ToRead(r) = FlattenSeq(r.nodes) BY ToReadIs
<1>6. \A v \in S : Arrays(v) BY <1>2 DEF IsInput, Reader, Arrays
<1> QED BY <1>4, <1>5, <1>6 DEF Total
LEMMA ReaderIs ==
  ASSUME NEW v, Arrays(v)
  PROVE  /\ IsReader(Reader(v)) /\ ~ IsConstant(Reader(v)) /\ Reader(v).offset = 0
         /\ ToRead(Reader(v)) = FlattenSeq(v)
<1>1. /\ Reader(v).nodes = v /\ Reader(v).offset = 0 /\ ~ IsConstant(Reader(v))
      /\ Reader(v) = [nodes |-> v, offset |-> 0, constant |-> <<>>]
  BY DEF Reader, IsConstant
<1>2. IsReader(Reader(v)) BY <1>1 DEF IsReader
<1> QED BY <1>1, <1>2, ToReadIs
LEMMA NextList ==
  ASSUME NEW r, IsReader(r), ~ Ended(r), ~ IsConstant(r),
         \A j \in 1 .. Len(ToRead(r)) : Arrays(ToRead(r)[j])
  PROVE  /\ Arrays(One(r)) /\ IsList(Joined(ToRead(Past(r))))
         /\ \A j \in 1 .. Len(ToRead(Past(r))) : Arrays(ToRead(Past(r))[j])
         /\ Joined(ToRead(r)) = FlattenSeq(One(r)) \o Joined(ToRead(Past(r)))
<1>1. PICK v, b, y : v = One(r) /\ b = ToRead(r) /\ y = ToRead(Past(r)) OBVIOUS
<1>2. b = <<v>> \o y /\ IsReader(Past(r)) BY <1>1, OneRead
<1>3. IsList(y) /\ Len(y) \in Nat BY <1>1, <1>2, ToReadIs
<1>4. /\ Len(<<v>> \o y) = Len(y) + 1 /\ (<<v>> \o y)[1] = v
      /\ \A i \in 1 .. Len(y) : (<<v>> \o y)[i + 1] = y[i]
  BY <1>3, AfterFirst
<1>5. \A j \in 1 .. Len(b) : Arrays(b[j]) BY <1>1
<1>6. Arrays(v)
  <2>1. 1 \in 1 .. Len(b) /\ b[1] = v BY <1>2, <1>3, <1>4
  <2> QED BY <1>5, <2>1
<1>7. \A j \in 1 .. Len(y) : Arrays(y[j])
  <2>1. \A j \in 1 .. Len(y) : j + 1 \in 1 .. Len(b) /\ b[j + 1] = y[j] BY <1>2, <1>3, <1>4
  <2> QED BY <1>5, <2>1
<1>8. IsList(Joined(y)) /\ Joined(<<v>> \o y) = FlattenSeq(v) \o Joined(y)
  BY <1>3, <1>6, <1>7, JoinedMore
<1> QED BY <1>1, <1>2, <1>6, <1>7, <1>8

-----------------------------------------------------------------------------
(* The generator as it is made.                                            *)

LEMMA MadeIs ==
  ASSUME GivenOK, NEW g, g = Made(given)
  PROVE  /\ IsGen(g, given.op) /\ g.n = given.n /\ g.held = HeldFirst(given) /\ g.done = FALSE
         /\ given.op # "cat" => g.a = given.a /\ g.b = given.b
         /\ given.op = "cat" => g.a = Reader(One(given.b)) /\ g.b = Past(given.b)
<1>1. PICK a, b, no :
                  /\ a = IF given.op = "cat" THEN Reader(One(given.b)) ELSE given.a
                  /\ b = IF given.op = "cat" THEN Past(given.b) ELSE given.b
                  /\ no = FALSE
  OBVIOUS
<1>2. g = Gen(given.op, given.n, HeldFirst(given), 0, no, a, b, <<>>, "once")
  BY <1>1 DEF Made, Gen
<1>3. IsReader(a) /\ IsReader(b)
  <2>1. CASE given.op # "cat" BY <1>1, <2>1, InputsAre
  <2>2. CASE given.op = "cat"
    <3>1. /\ IsReader(given.b) /\ ~ Ended(given.b) /\ ~ IsConstant(given.b) /\ given.b.offset = 0
          /\ \A v \in ItemsIn(given.b) : IsInput(Reader(v))
      BY <2>2, InputsAre
    <3>2. \A j \in 1 .. Len(ToRead(given.b)) : Arrays(ToRead(given.b)[j]) BY <3>1, ListsToRead
    <3>3. Arrays(One(given.b)) BY <3>1, <3>2, NextList
    <3> QED BY <1>1, <2>2, <3>1, <3>3, OneRead, ReaderIs
  <2> QED BY <2>1, <2>2
<1>4. given.n \in Int BY InputsAre
<1>5. IsGen(g, given.op) BY <1>2, <1>3, <1>4, GenWith
<1> QED BY <1>1, <1>2, <1>5 DEF Gen

LEMMA ReadsFirst ==
  ASSUME GivenOK, given.op # "cat"
  PROVE  /\ ToRead(given.a) = ListA(given) /\ ~ IsConstant(given.a)
         /\ \A m : m = Len(ToRead(given.a)) => Seen(given.b, m) = ListB(given)
         /\ ~ IsConstant(given.b) => ToRead(given.b) = ListB(given)
<1>1. ToRead(given.a) = ListA(given) /\ ~ IsConstant(given.a) BY InputsAre, ListsAre
<1>2. \A m : m = Len(ToRead(given.a)) => Seen(given.b, m) = ListB(given) BY <1>1, ListsAre
<1>3. PICK m : m = Len(ToRead(given.a)) OBVIOUS
<1>4. Seen(given.b, m) = ListB(given) BY <1>2, <1>3
<1>5. ~ IsConstant(given.b) => ToRead(given.b) = ListB(given) BY <1>4 DEF Seen
<1> QED BY <1>1, <1>2, <1>5

(* Words that read only a. *)
LEMMA StartsA ==
  ASSUME GivenOK, given.op \in {"keep", "take", "ncyc", "append", "add"}, NEW z,
         z = PromiseOf(given)
  PROVE  IsList(z) /\ Goes(given, Made(given), 0, 0, z)
<1>1. PICK g : g = Made(given) OBVIOUS
<1>2. IsGen(g, given.op) /\ g.n = given.n /\ g.a = given.a /\ g.b = given.b BY <1>1, MadeIs
<1>3. /\ given.n \in Nat /\ given.a.offset = 0
      /\ given.op = "ncyc" => given.n > 0
      /\ IsReader(given.b) /\ given.b.offset = 0
  BY InputsAre
<1>4. PICK a : a = ListA(given) OBVIOUS
<1>5. IsList(a) /\ Len(a) \in Nat BY <1>4, ListsAre
<1>6. ToRead(g.a) = a /\ ~ IsConstant(g.a) BY <1>2, <1>4, ReadsFirst
<1>7. PICK n : n = given.n OBVIOUS
<1>8. n \in Nat /\ n + 0 = n /\ n - 0 = n /\ 0 + 0 <= n BY <1>3, <1>7
<1>9. CASE given.op = "keep"
  <2>1. z = FirstOf(a, g.n + 0) BY <1>2, <1>4, <1>7, <1>8, <1>9, PromiseIs
  <2>2. z = FirstOf(a, n) BY <1>4, <1>7, <1>9, PromiseIs
  <2>3. IsList(z) BY <1>5, <1>8, <2>2, FirstIs
  <2> QED BY <1>1, <1>2, <1>3, <1>6, <1>9, <2>1, <2>3 DEF Goes, MembersOK, GoesOn
<1>10. CASE given.op = "take"
  <2>1. z = FirstOf(a \o Repeated(0, n), n) BY <1>4, <1>7, <1>10, PromiseIs, ZerosAre
  <2>2. IsList(Repeated(0, n)) BY <1>8, RepeatedIs
  <2>3. IsList(a \o Repeated(0, n)) BY ONLY <1>5, <2>2, ListConcat
  <2>4. IsList(z) BY <1>8, <2>1, <2>3, FirstIs
  <2>5. z = FirstOf(a \o Repeated(0, given.n), given.n - 0) BY <1>7, <1>8, <2>1
  <2> QED BY <1>1, <1>2, <1>6, <1>7, <1>8, <1>10, <2>4, <2>5 DEF Goes, MembersOK, GoesOn
<1>11. CASE given.op = "ncyc"
  <2>1. z = Times(a, n) BY <1>4, <1>7, <1>11, PromiseIs
  <2>2. IsList(z) /\ z = a \o Times(a, n - 1) BY <1>3, <1>5, <1>7, <1>8, <1>11, <2>1, TimesMore
  <2> QED BY <1>1, <1>2, <1>3, <1>4, <1>6, <1>7, <1>11, <2>2 DEF Goes, MembersOK, GoesOn
<1>12. CASE given.op = "append"
  <2>1. z = a \o Flattened(given.b.nodes) BY <1>4, <1>12, PromiseIs
  <2>2. ToRead(given.b) = Flattened(given.b.nodes) BY <1>3, ToReadIs DEF Flattened
  <2>3. IsList(z)
    <3>1. PICK b : b = ToRead(given.b) OBVIOUS
    <3>2. IsList(b) BY <1>3, <3>1, ToReadIs
    <3>3. IsList(a \o b) BY ONLY <1>5, <3>2, ListConcat
    <3> QED BY <2>1, <2>2, <3>1, <3>3
  <2> QED BY <1>1, <1>2, <1>3, <1>6, <1>12, <2>1, <2>2, <2>3 DEF Goes, MembersOK, GoesOn
<1>13. CASE given.op = "add"
  <2>1. z = Append(a, n) BY <1>4, <1>7, <1>13, PromiseIs
  <2>2. IsList(z) BY <1>5, <2>1, ListAppend
  <2>3. z = a \o <<n>>
    <3>1. IsList(<<n>>) /\ Len(<<n>>) = 1 /\ <<n>>[1] = n BY ListOne
    <3>2. PICK e : e = <<n>> OBVIOUS
    <3>3. IsList(e) BY <3>1, <3>2
    <3>4. IsList(a \o e) BY ONLY <1>5, <3>3, ListConcat
    <3>5. Len(a \o e) = Len(a) + Len(e) BY ONLY <1>5, <3>3, ListConcat
    <3>6. \A i \in 1 .. Len(a) : (a \o e)[i] = a[i] BY ONLY <1>5, <3>3, ListConcat
    <3>7. \A i \in 1 .. Len(e) : (a \o e)[Len(a) + i] = e[i] BY ONLY <1>5, <3>3, ListConcat
    <3>8. (a \o e)[Len(a) + 1] = n BY <3>1, <3>2, <3>7
    <3>9. /\ Len(z) = Len(a) + 1 /\ z[Len(a) + 1] = n
          /\ \A i \in 1 .. Len(a) : z[i] = a[i]
      BY <1>5, <2>1, ListAppend
    <3>10. ASSUME NEW i \in 1 .. Len(z) PROVE z[i] = (a \o e)[i]
      <4>1. i \in 1 .. Len(a) \/ i = Len(a) + 1 BY <1>5, <3>9
      <4> QED BY <3>6, <3>8, <3>9, <4>1
    <3>11. Len(z) = Len(a \o e) BY <3>1, <3>2, <3>5, <3>9
    <3> QED BY <2>2, <3>2, <3>4, <3>10, <3>11, ListSame
  <2> QED BY <1>1, <1>2, <1>3, <1>6, <1>7, <1>13, <2>2, <2>3 DEF Goes, MembersOK, GoesOn
<1> QED BY <1>9, <1>10, <1>11, <1>12, <1>13

(* Words that read a and b. *)
LEMMA StartsB ==
  ASSUME GivenOK, given.op \in {"keepWhile", "stutter", "spread", "shortas", "longas", "longas0"},
         NEW z, z = PromiseOf(given)
  PROVE  IsList(z) /\ Goes(given, Made(given), 0, 0, z)
<1>1. PICK g : g = Made(given) OBVIOUS
<1>2. /\ IsGen(g, given.op) /\ g.n = given.n /\ g.a = given.a /\ g.b = given.b
      /\ g.held = HeldFirst(given)
  BY <1>1, MadeIs
<1>3. /\ IsReader(given.b) /\ given.b.offset = 0
      /\ given.op \in {"longas", "longas0"} => ~ IsConstant(given.b)
      /\ given.op \in {"stutter", "spread"} =>
           given.n = 0 /\ \A v \in ItemsIn(given.b) : v \in Int
  BY InputsAre
<1>4. PICK a, b : a = ListA(given) /\ b = ListB(given) OBVIOUS
<1>5. IsList(a) /\ IsList(b) /\ Len(b) \in Nat BY <1>4, ListsAre
<1>6. ToRead(g.a) = a /\ ~ IsConstant(g.a) BY <1>2, <1>4, ReadsFirst
<1>7. Seen(g.b, Len(a)) = b BY <1>2, <1>4, <1>6, ReadsFirst
<1>8. ~ IsConstant(g.b) => ToRead(g.b) = b BY <1>2, <1>4, ReadsFirst
<1>9. CASE given.op = "keepWhile"
  <2>1. z = Accepted(a, b) BY <1>4, <1>9, PromiseIs
  <2>2. IsList(z) BY <1>5, <2>1, AcceptedIs
  <2> QED BY <1>1, <1>2, <1>6, <1>7, <1>9, <2>1, <2>2 DEF Goes, MembersOK, GoesOn
<1>10. CASE given.op = "shortas"
  <2>1. z = CutAs(a, b) BY <1>4, <1>10, PromiseIs
  <2>2. IsList(z) BY <1>5, <2>1, FirstIs DEF CutAs
  <2> QED BY <1>1, <1>2, <1>6, <1>7, <1>10, <2>1, <2>2 DEF Goes, MembersOK, GoesOn
<1>11. CASE given.op \in {"stutter", "spread"}
  <2>1. Counts(g.b) BY <1>2, <1>3, <1>11, CountsAre
  <2>2. \A j \in 1 .. Len(b) : b[j] \in Int
    <3>1. Len(a) \in Nat BY <1>5, ListIs
    <3> QED BY <1>7, <2>1, <3>1 DEF Counts
  <2>3. g.n = 0 BY <1>2, <1>3, <1>11
  <2>4. \A v : Repeated(v, 0) = <<>>
    <3>1. ASSUME NEW v PROVE IsList(Repeated(v, 0)) /\ Len(Repeated(v, 0)) = 0 BY RepeatedIs
    <3> QED BY <3>1, NoItems
  <2>5. IsList(Stuttered(a, b)) /\ IsList(Apart(a, b))
    <3>1. 0 \in Int OBVIOUS
    <3> QED BY <1>5, <2>2, <3>1, StutteredMore, ApartMore
  <2>6. /\ given.op = "stutter" => z = Stuttered(a, b)
        /\ given.op = "spread" => z = Apart(a, b)
    BY <1>4, PromiseIs
  <2>7. /\ given.op = "stutter" => z = Repeated(g.held, g.n) \o Stuttered(a, b)
        /\ given.op = "spread" => z = Repeated(0, g.n) \o Apart(a, b)
    BY <2>3, <2>4, <2>5, <2>6, JoinedToNone
  <2>8. IsList(z) BY <1>11, <2>5, <2>6
  <2> QED BY <1>1, <1>2, <1>6, <1>7, <1>11, <2>1, <2>7, <2>8 DEF Goes, MembersOK, GoesOn
<1>12. CASE given.op \in {"longas", "longas0"}
  <2>1. PICK v : v = IF given.op = "longas" THEN LastOr(a, given.n) ELSE 0 OBVIOUS
  <2>2. z = FirstOf(a \o Repeated(v, Len(b)), Len(b)) BY <1>4, <1>12, <2>1, PromiseIs DEF AsLongAs
  <2>3. IsList(z)
    <3>1. PICK x : x = Repeated(v, Len(b)) OBVIOUS
    <3>2. IsList(x) BY <1>5, <3>1, RepeatedIs
    <3>3. IsList(a \o x) BY ONLY <1>5, <3>2, ListConcat
    <3> QED BY <1>5, <2>2, <3>1, <3>3, FirstIs
  <2>4. ~ IsConstant(g.b) /\ ToRead(g.b) = b BY <1>2, <1>3, <1>8, <1>12
  <2>5. given.op = "longas" => HoldsLast(given, g)
    <3>1. given.op = "longas" => g.held = given.n BY <1>2 DEF HeldFirst, HoldFromStart
    <3> QED BY <1>4, <1>6, <3>1 DEF HoldsLast, LastOr
  <2>6. Len(ToRead(g.b)) <= Len(ListB(given)) BY <1>4, <1>5, <2>4
  <2>7. MembersOK(given, g, 0, 0) BY <1>6, <1>12, <2>4, <2>5, <2>6 DEF MembersOK
  <2>8. GoesOn(given, g, 0, 0, z) BY <1>4, <1>6, <1>12, <2>1, <2>2, <2>4 DEF GoesOn
  <2> QED BY <1>1, <1>2, <2>3, <2>7, <2>8 DEF Goes
<1> QED BY <1>9, <1>10, <1>11, <1>12

LEMMA StartsCat ==
  ASSUME GivenOK, given.op = "cat", NEW z, z = PromiseOf(given)
  PROVE  IsList(z) /\ Goes(given, Made(given), 0, 0, z)
<1>1. PICK g : g = Made(given) OBVIOUS
<1>2. IsGen(g, given.op) /\ g.a = Reader(One(given.b)) /\ g.b = Past(given.b) BY <1>1, MadeIs
<1>3. /\ IsReader(given.b) /\ given.b.offset = 0 /\ ~ IsConstant(given.b) /\ ~ Ended(given.b)
      /\ \A v \in ItemsIn(given.b) : IsInput(Reader(v))
  BY InputsAre
<1>4. PICK v, b, y : v = One(given.b) /\ b = ToRead(given.b) /\ y = ToRead(g.b) OBVIOUS
<1>5. ~ IsConstant(g.b) BY <1>2, <1>3, OneRead
<1>6. \A j \in 1 .. Len(b) : Arrays(b[j]) BY <1>3, <1>4, ListsToRead
<1>7. /\ Arrays(v) /\ \A j \in 1 .. Len(y) : Arrays(y[j])
      /\ IsList(Joined(y)) /\ Joined(b) = FlattenSeq(v) \o Joined(y)
  BY <1>2, <1>3, <1>4, <1>6, NextList
<1>8. z = FlattenSeq(v) \o Joined(y)
  <2>1. PICK m : m = Len(ListA(given)) OBVIOUS
  <2>2. ListB(given) = Seen(given.b, m) BY <2>1, ListsAre
  <2>3. ListB(given) = b BY <1>3, <1>4, <2>2 DEF Seen
  <2> QED BY <1>7, <2>3, PromiseIs
<1>9. ToRead(g.a) = FlattenSeq(v) /\ ~ IsConstant(g.a) BY <1>2, <1>4, <1>7, ReaderIs
<1>10. IsList(z)
  <2>1. PICK x, w : x = FlattenSeq(v) /\ w = Joined(y) OBVIOUS
  <2>2. IsList(x) /\ IsList(w) BY <1>7, <2>1, FlattenedIsList
  <2>3. IsList(x \o w) BY ONLY <2>2, ListConcat
  <2> QED BY <1>8, <2>1, <2>3
<1> QED BY <1>1, <1>2, <1>4, <1>5, <1>7, <1>8, <1>9, <1>10 DEF Goes, MembersOK, GoesOn

LEMMA InitPromises == Init => Promising
<1> SUFFICES ASSUME Init, given.op \in Exact PROVE GivenOK /\ PiecesOK /\ RemainsOK
  BY DEF Promising
<1>1. GivenOK
  <2>1. PICK op \in DOMAIN Inputs : given \in Inputs[op] BY DEF Init
  <2>2. given.op = op BY <2>1, StreamOpsAssumption
  <2> QED BY <2>1, <2>2 DEF Init, GivenOK
<1>2. /\ gen = Made(given) /\ ~ pulling /\ left = 0 /\ block = <<>> /\ out = <<>>
      /\ ~ ended /\ threw \notin Broken
  BY DEF Init, Broken
<1>3. PiecesOK BY <1>2, ListEmpty DEF PiecesOK, Arrays
<1>4. PICK z : z = PromiseOf(given) OBVIOUS
<1>5. IsList(z) /\ Goes(given, Made(given), 0, 0, z)
  BY <1>1, <1>4, StartsA, StartsB, StartsCat DEF Exact
<1>6. Written = <<>> /\ Len(Written) = 0
  BY <1>2, FlattenedEmpty, ListEmpty, JoinedToNone DEF Written
<1>7. PromiseOf(given) = Written \o z BY <1>4, <1>5, <1>6, JoinedToNone
<1>8. gen.done = FALSE BY <1>1, <1>2, MadeIs
<1>9. RemainsOK BY <1>2, <1>5, <1>6, <1>7, <1>8 DEF RemainsOK
<1> QED BY <1>1, <1>3, <1>9

-----------------------------------------------------------------------------
(* The steps of the words.                                                 *)

LEMMA GoesNow ==
  ASSUME PiecesOK, RemainsOK, ~ gen.done, ~ ended, threw \notin Broken
  PROVE  \E z : /\ IsList(z) /\ PromiseOf(given) = Written \o z
                /\ IsGen(gen, given.op) /\ gen.op = given.op
                /\ MembersOK(given, gen, left, Len(Written))
                /\ GoesOn(given, gen, left, Len(Written), z)
BY DEF RemainsOK, Goes, IsGen

LEMMA GenMembers ==
  ASSUME NEW op, NEW n, NEW held, NEW other, NEW done, NEW a, NEW b, NEW stack, NEW state
  PROVE  /\ Gen(op, n, held, other, done, a, b, stack, state).n = n
         /\ Gen(op, n, held, other, done, a, b, stack, state).held = held
         /\ Gen(op, n, held, other, done, a, b, stack, state).done = done
BY DEF Gen

LEMMA Pieces ==
  ASSUME PiecesOK, pulling, left > 0
  PROVE  left \in Nat /\ ~ ended /\ IsList(Written) /\ Len(Written) \in Nat
BY WrittenAre DEF PiecesOK

LEMMA PieceRead ==
  ASSUME NEW r, IsReader(r), ~ Ended(r), NEW n \in Nat, NEW k \in 0 .. Count(r, n)
  PROVE  /\ IsList(Items(r, k)) /\ Len(Items(r, k)) = k
         /\ IsReader(Advance(r, k)) /\ IsList(ToRead(Advance(r, k)))
         /\ IsConstant(Advance(r, k)) <=> IsConstant(r)
         /\ ~ IsConstant(r) => ToRead(r) = Items(r, k) \o ToRead(Advance(r, k))
<1>1. IsList(Items(r, k)) /\ Len(Items(r, k)) = k BY ItemsAre
<1>2. IsReader(Advance(r, k)) BY AdvanceReads
<1>3. IsConstant(Advance(r, k)) <=> IsConstant(r)
  <2>1. k \in Nat /\ k <= k BY <1>1, ListIs
  <2> QED BY <2>1, SeesPiece
<1>4. ASSUME ~ IsConstant(r) PROVE ToRead(r) = Items(r, k) \o ToRead(Advance(r, k))
  BY <1>4, ReadsPiece
<1> QED BY <1>1, <1>2, <1>3, <1>4, ToReadIs

LEMMA KeepGoes ==
  ASSUME GivenOK, PiecesOK, RemainsOK, Keep
  PROVE  (GivenOK /\ PiecesOK /\ RemainsOK)'
<1>1. pulling /\ threw \notin Broken /\ left > 0 /\ ~ gen.done /\ gen.op = "keep"
  BY DEF Keep, Turn, Filling
<1>2. left \in Nat /\ ~ ended /\ Len(Written) \in Nat BY <1>1, Pieces
<1>3. PICK z : /\ IsList(z) /\ PromiseOf(given) = Written \o z
               /\ IsGen(gen, given.op) /\ gen.op = given.op
               /\ MembersOK(given, gen, left, Len(Written))
               /\ GoesOn(given, gen, left, Len(Written), z)
  BY <1>1, <1>2, GoesNow
<1>4. /\ given.op = "keep" /\ ~ IsConstant(gen.a) /\ gen.n \in Nat /\ IsReader(gen.a)
      /\ z = FirstOf(ToRead(gen.a), gen.n + left)
  BY <1>1, <1>3 DEF MembersOK, GoesOn, IsGen
<1>5. CASE Ended(gen.a)
  <2>1. SetDone(gen) BY <1>5 DEF Keep
  <2>2. gen.n + left \in Nat BY <1>2, <1>4
  <2>3. ToRead(gen.a) = <<>> BY <1>4, <1>5, NothingToRead
  <2>4. z = <<>> BY <1>4, <2>2, <2>3, FirstOfFew, ListEmpty
  <2> QED BY <1>1, <1>3, <2>1, <2>4, NothingIsLeft
<1>6. CASE ~ Ended(gen.a)
  <2>1. PICK k, items, g : /\ k = Count(gen.a, left) /\ items = Items(gen.a, k)
                           /\ g = [gen EXCEPT !.a = Advance(@, k)]
    OBVIOUS
  <2>2. Write(items, g) BY <1>6, <2>1 DEF Keep
  <2>3. k \in 0 .. left /\ k \in 0 .. Count(gen.a, left) BY <1>2, <1>4, <1>6, <2>1, CountIs
  <2>4. PICK r : r = Advance(gen.a, k) OBVIOUS
  <2>5. /\ IsList(items) /\ Len(items) = k /\ IsReader(r) /\ IsList(ToRead(r))
        /\ ~ IsConstant(r) /\ ToRead(gen.a) = items \o ToRead(r)
    BY <1>2, <1>4, <1>6, <2>1, <2>3, <2>4, PieceRead, ZenonT(60)
  <2>6. PICK a : a = ToRead(r) OBVIOUS
  <2>7. g = Gen(gen.op, gen.n, gen.held, gen.other, gen.done, r, gen.b, gen.stack, gen.state)
    BY <1>3, <2>1, <2>4 DEF IsGen, Gen
  <2>8. gen.n \in Int /\ IsReader(gen.b) BY <1>3 DEF IsGen
  <2>9. /\ IsGen(g, given.op) /\ g.n = gen.n /\ g.a = r /\ g.done = gen.done
    BY <1>3, <2>5, <2>7, <2>8, GenWith, GenMembers
  <2>10. PICK n, l, y : n = gen.n + left /\ l = left - k /\ y = FirstOf(a, n - k) OBVIOUS
  <2>11. n \in Nat /\ k <= n /\ n - k = gen.n + l /\ n - k \in Nat BY <1>2, <1>4, <2>3, <2>10
  <2>12. z = items \o y BY <1>4, <2>5, <2>6, <2>10, <2>11, FirstOfBoth
  <2>13. IsList(y) BY <2>5, <2>6, <2>10, <2>11, FirstIs
  <2>14. y = FirstOf(ToRead(g.a), g.n + l) BY <2>6, <2>9, <2>10, <2>11
  <2>15. MembersOK(given, g, l, Len(Written) + k) BY <1>4, <2>5, <2>9 DEF MembersOK
  <2>16. GoesOn(given, g, l, Len(Written) + k, y) BY <1>4, <2>14 DEF GoesOn
  <2>17. Goes(given, g, left - Len(items), Len(Written) + Len(items), y)
    BY <2>5, <2>9, <2>10, <2>15, <2>16 DEF Goes
  <2>18. Len(items) <= left /\ ~ g.done BY <1>1, <1>2, <2>3, <2>5, <2>9
  <2> QED BY <1>1, <1>3, <2>2, <2>5, <2>12, <2>13, <2>17, <2>18, PieceWritten
<1> QED BY <1>5, <1>6

LEMMA ZerosLinked ==
  ASSUME PiecesOK, gen.n \in Int, ProduceAndLink(<<>>, <<Zeros(gen.n)>>), NEW m,
         m = IF gen.n > 0 THEN gen.n ELSE 0
  PROVE  Arrays(out') /\ IsList(Repeated(0, m)) /\ Written' = Written \o Repeated(0, m)
<1>1. m \in Nat OBVIOUS
<1>2. Zeros(gen.n) = Repeated(0, m)
  <2>1. Zeros(gen.n) = Repeated(0, gen.n) BY ZerosAre
  <2>2. /\ IsList(Repeated(0, gen.n)) /\ Len(Repeated(0, gen.n)) = m
        /\ \A i \in 1 .. gen.n : Repeated(0, gen.n)[i] = 0
    BY RepeatedIs
  <2>3. /\ IsList(Repeated(0, m)) /\ Len(Repeated(0, m)) = m
        /\ \A i \in 1 .. m : Repeated(0, m)[i] = 0
    BY <1>1, RepeatedIs
  <2>4. \A i \in 1 .. m : Repeated(0, gen.n)[i] = Repeated(0, m)[i] BY <2>2, <2>3
  <2> QED BY <2>1, <2>2, <2>3, <2>4, ListSame
<1>3. PICK s : s = Repeated(0, m) OBVIOUS
<1>4. IsList(s) BY <1>1, <1>3, RepeatedIs
<1>5. out' = (out \o <<block \o <<>> >>) \o <<s>> /\ block' = <<>>
  BY <1>2, <1>3 DEF ProduceAndLink
<1>6. IsList(block) /\ Arrays(out) BY DEF PiecesOK
<1>7. block \o <<>> = block BY <1>6, JoinedToNone
<1>8. PICK o, p, q : o = <<block>> /\ p = <<s>> /\ q = out \o o OBVIOUS
<1>9. Arrays(o) /\ FlattenSeq(o) = block /\ Arrays(p) /\ FlattenSeq(p) = s
  BY <1>4, <1>6, <1>8, FlattenedOne
<1>10. Arrays(q) /\ FlattenSeq(q) = Written
  <2>1. Arrays(out \o o) BY <1>6, <1>9, ArraysConcat
  <2>2. FlattenSeq(out \o o) = FlattenSeq(out) \o FlattenSeq(o)
    BY <1>6, <1>9, FlattenedConcat
  <2> QED BY <1>8, <1>9, <2>1, <2>2 DEF Written
<1>11. out' = q \o p BY <1>5, <1>7, <1>8
<1>12. Arrays(out') /\ FlattenSeq(out') = Written \o s
  <2>1. Arrays(q \o p) BY <1>9, <1>10, ArraysConcat
  <2>2. FlattenSeq(q \o p) = FlattenSeq(q) \o FlattenSeq(p)
    BY <1>9, <1>10, FlattenedConcat
  <2> QED BY <1>9, <1>10, <1>11, <2>1, <2>2
<1>13. IsList(Written \o s) BY <1>12, FlattenedIsList
<1> QED BY <1>3, <1>4, <1>5, <1>12, <1>13, JoinedToNone DEF Written

LEMMA TakeGoes ==
  ASSUME GivenOK, PiecesOK, RemainsOK, Take
  PROVE  (GivenOK /\ PiecesOK /\ RemainsOK)'
<1>1. pulling /\ threw \notin Broken /\ left > 0 /\ ~ gen.done /\ gen.op = "take"
  BY DEF Take, Turn, Filling
<1>2. left \in Nat /\ ~ ended /\ Len(Written) \in Nat /\ IsList(Written) BY <1>1, Pieces
<1>3. PICK z : /\ IsList(z) /\ PromiseOf(given) = Written \o z
               /\ IsGen(gen, given.op) /\ gen.op = given.op
               /\ MembersOK(given, gen, left, Len(Written))
               /\ GoesOn(given, gen, left, Len(Written), z)
  BY <1>1, <1>2, GoesNow
<1>4. PICK N, w : N = given.n /\ w = Len(Written) OBVIOUS
<1>5. /\ given.op = "take" /\ ~ IsConstant(gen.a) /\ gen.n \in Int /\ IsReader(gen.a)
      /\ IsReader(gen.b) /\ gen.n + w <= N /\ left + w <= N
      /\ z = FirstOf(ToRead(gen.a) \o Repeated(0, N), N - w)
  BY <1>1, <1>3, <1>4 DEF MembersOK, GoesOn, IsGen
<1>6. N \in Nat /\ w \in Nat /\ N - w \in Nat BY <1>2, <1>4, <1>5, InputsAre
<1>7. IsList(Repeated(0, N)) BY <1>6, RepeatedIs
<1>8. CASE Ended(gen.a)
  <2>1. ProduceAndLink(<<>>, <<Zeros(gen.n)>>) BY <1>8 DEF Take
  <2>2. PICK m : m = IF gen.n > 0 THEN gen.n ELSE 0 OBVIOUS
  <2>3. m \in Nat /\ m <= N - w /\ (N - w) - m \in Nat BY <1>5, <1>6, <2>2
  <2>4. PICK s, y : s = Repeated(0, m) /\ y = Repeated(0, (N - w) - m) OBVIOUS
  <2>6. IsList(s) /\ IsList(y) BY <2>3, <2>4, RepeatedIs
  <2>7. z = s \o y
    <3>1. z = FirstOf(Repeated(0, N), N - w)
      BY <1>5, <1>7, <1>8, NothingToRead, JoinedToNone
    <3>2. N - w <= N BY <1>6
    <3>3. z = Repeated(0, N - w) BY <1>6, <3>1, <3>2, FirstOfRepeated
    <3> QED BY <1>6, <2>3, <2>4, <3>3, RepeatedMore
  <2>8. /\ ended' = TRUE /\ pulling' = FALSE
        /\ left' = 0 /\ block' = <<>> /\ given' = given /\ blockSize' = blockSize
        /\ threw' = threw
    BY <2>1 DEF ProduceAndLink, fixed
  <2>9. Arrays(out') /\ Written' = Written \o s BY <1>5, <2>1, <2>2, <2>4, ZerosLinked
  <2>10. PromiseOf(given) = Written' \o y
    <3>1. (Written \o s) \o y = Written \o (s \o y) BY <1>2, <2>6, JoinedAgain
    <3> QED BY <1>3, <2>7, <2>9, <3>1
  <2>11. RemainsOK' BY <1>5, <2>6, <2>8, <2>10 DEF RemainsOK
  <2>12. PiecesOK' BY <1>1, <2>8, <2>9, ListEmpty DEF PiecesOK
  <2>13. GivenOK' BY <2>8 DEF GivenOK
  <2> QED BY <2>11, <2>12, <2>13
<1>9. CASE ~ Ended(gen.a)
  <2>1. PICK k, items, r, g :
               /\ k = Count(gen.a, left) /\ items = Items(gen.a, k) /\ r = Advance(gen.a, k)
               /\ g = [gen EXCEPT !.a = r, !.n = @ - left]
    OBVIOUS
  <2>2. Write(items, g) BY <1>9, <2>1 DEF Take
  <2>3. k \in 0 .. left /\ k \in 0 .. Count(gen.a, left) BY <1>2, <1>5, <1>9, <2>1, CountIs
  <2>4. /\ IsList(items) /\ Len(items) = k /\ IsReader(r) /\ IsList(ToRead(r))
        /\ ~ IsConstant(r) /\ ToRead(gen.a) = items \o ToRead(r)
    BY <1>2, <1>5, <1>9, <2>1, <2>3, PieceRead, ZenonT(60)
  <2>5. PICK a, n : a = ToRead(r) /\ n = gen.n - left OBVIOUS
  <2>6. n \in Int /\ n + (w + k) <= N /\ (left - k) + (w + k) <= N
    BY <1>2, <1>5, <1>6, <2>3, <2>5, SMTT(30)
  <2>7. g = Gen(gen.op, n, gen.held, gen.other, gen.done, r, gen.b, gen.stack, gen.state)
    BY <1>3, <2>1, <2>5 DEF IsGen, Gen
  <2>8. IsGen(g, given.op) /\ g.n = n /\ g.a = r /\ g.done = gen.done
    BY <1>3, <1>5, <2>4, <2>6, <2>7, GenWith, GenMembers
  <2>9. PICK y : y = FirstOf(a \o Repeated(0, N), (N - w) - k) OBVIOUS
  <2>10. k <= N - w /\ (N - w) - k = N - (w + k) /\ N - (w + k) \in Nat
    BY <1>2, <1>5, <1>6, <2>3
  <2>11. z = items \o y
    <3>1. PICK p, m : p = Repeated(0, N) /\ m = N - w OBVIOUS
    <3>2. IsList(p) /\ m \in Nat /\ Len(items) <= m /\ IsList(a) /\ IsList(items)
      BY <1>6, <1>7, <2>4, <2>5, <2>10, <3>1
    <3>3. FirstOf((items \o a) \o p, m) = items \o FirstOf(a \o p, m - Len(items))
      BY <3>2, PaddedPiece
    <3> QED BY <1>5, <2>4, <2>5, <2>9, <3>1, <3>3
  <2>12. IsList(y)
    <3>1. PICK x : x = Repeated(0, N) OBVIOUS
    <3>2. IsList(a) /\ IsList(x) BY <1>7, <2>4, <2>5, <3>1
    <3>3. IsList(a \o x) BY ONLY <3>2, ListConcat
    <3> QED BY <2>9, <2>10, <3>1, <3>3, FirstIs
  <2>13. y = FirstOf(ToRead(g.a) \o Repeated(0, given.n), given.n - (w + k))
    BY <1>4, <2>5, <2>8, <2>9, <2>10
  <2>14. MembersOK(given, g, left - k, w + k) BY <1>4, <1>5, <2>4, <2>6, <2>8 DEF MembersOK
  <2>15. GoesOn(given, g, left - k, w + k, y) BY <1>5, <2>13 DEF GoesOn
  <2>16. Goes(given, g, left - Len(items), Len(Written) + Len(items), y)
    BY <1>4, <2>4, <2>8, <2>14, <2>15 DEF Goes
  <2>17. Len(items) <= left /\ ~ g.done BY <1>1, <1>2, <2>3, <2>4, <2>8
  <2> QED BY <1>1, <1>3, <2>2, <2>4, <2>11, <2>12, <2>16, <2>17, PieceWritten
<1> QED BY <1>8, <1>9

(* A piece of both inputs. *)
LEMMA BothRead ==
  ASSUME NEW x, NEW y, IsReader(x), IsReader(y), ~ Ended(x), ~ Ended(y), ~ IsConstant(x),
         NEW n \in Nat, NEW k \in 0 .. Count(y, Count(x, n))
  PROVE  /\ k \in 0 .. n /\ k \in 0 .. Count(x, n)
         /\ IsList(Items(x, k)) /\ Len(Items(x, k)) = k
         /\ IsList(Items(y, k)) /\ Len(Items(y, k)) = k
         /\ IsReader(Advance(x, k)) /\ ~ IsConstant(Advance(x, k)) /\ IsReader(Advance(y, k))
         /\ IsList(ToRead(Advance(x, k))) /\ ToRead(x) = Items(x, k) \o ToRead(Advance(x, k))
         /\ IsList(Seen(Advance(y, k), Len(ToRead(Advance(x, k)))))
         /\ Seen(y, Len(ToRead(x)))
              = Items(y, k) \o Seen(Advance(y, k), Len(ToRead(Advance(x, k))))
<1>1. PICK c : c = Count(x, n) OBVIOUS
<1>2. c \in 0 .. n /\ c \in Nat BY <1>1, CountIs
<1>3. k \in 0 .. c /\ k \in 0 .. Count(y, c)
  <2>1. Count(y, c) \in 0 .. c BY <1>2, CountIs
  <2>2. PICK e : e = Count(y, c) OBVIOUS
  <2>3. k \in 0 .. e BY <1>1, <2>2
  <2> QED BY <1>2, <2>1, <2>2, <2>3
<1>4. k \in 0 .. n /\ k \in 0 .. Count(x, n) BY <1>1, <1>2, <1>3
<1>5. /\ IsList(Items(x, k)) /\ Len(Items(x, k)) = k /\ IsReader(Advance(x, k))
      /\ ~ IsConstant(Advance(x, k)) /\ IsList(ToRead(Advance(x, k)))
      /\ ToRead(x) = Items(x, k) \o ToRead(Advance(x, k))
  BY <1>4, PieceRead
<1>6. IsList(Items(y, k)) /\ Len(Items(y, k)) = k /\ IsReader(Advance(y, k))
  BY <1>2, <1>3, PieceRead
<1>7. PICK a, s, t : a = ToRead(x) /\ s = Items(x, k) /\ t = ToRead(Advance(x, k)) OBVIOUS
<1>8. a = s \o t /\ IsList(s) /\ IsList(t) /\ Len(s) = k /\ Len(t) \in Nat BY <1>5, <1>7, ListIs
<1>9. Len(a) = k + Len(t)
  <2>1. Len(s \o t) = Len(s) + Len(t) BY ONLY <1>8, ListConcat
  <2> QED BY <1>8, <2>1
<1>10. Len(a) \in Nat /\ k <= Len(a) /\ Len(a) - k = Len(t) BY <1>4, <1>8, <1>9
<1>11. Seen(y, Len(a)) = Items(y, k) \o Seen(Advance(y, k), Len(a) - k)
  BY <1>2, <1>3, <1>10, SeesPiece
<1>12. IsList(Seen(Advance(y, k), Len(t))) BY <1>6, <1>8, SeenIs
<1> QED BY <1>4, <1>5, <1>6, <1>7, <1>10, <1>11, <1>12

LEMMA EitherEnded ==
  ASSUME NEW x, NEW y, IsReader(x), IsReader(y), Ended(x) \/ Ended(y)
  PROVE  /\ IsList(ToRead(x)) /\ IsList(Seen(y, Len(ToRead(x))))
         /\ ToRead(x) = <<>> \/ Seen(y, Len(ToRead(x))) = <<>>
<1>1. IsList(ToRead(x)) /\ Len(ToRead(x)) \in Nat BY ToReadIs
<1>2. IsList(Seen(y, Len(ToRead(x)))) BY <1>1, SeenIs
<1>3. CASE Ended(x) BY <1>1, <1>2, <1>3, NothingToRead
<1>4. CASE Ended(y) BY <1>1, <1>2, <1>4, NothingToRead DEF Seen
<1> QED BY <1>3, <1>4

LEMMA ShortAsGoes ==
  ASSUME GivenOK, PiecesOK, RemainsOK, ShortAs
  PROVE  (GivenOK /\ PiecesOK /\ RemainsOK)'
<1>1. pulling /\ threw \notin Broken /\ left > 0 /\ ~ gen.done /\ gen.op = "shortas"
  BY DEF ShortAs, Turn, Filling
<1>2. left \in Nat /\ ~ ended /\ Len(Written) \in Nat BY <1>1, Pieces
<1>3. PICK z : /\ IsList(z) /\ PromiseOf(given) = Written \o z
               /\ IsGen(gen, given.op) /\ gen.op = given.op
               /\ MembersOK(given, gen, left, Len(Written))
               /\ GoesOn(given, gen, left, Len(Written), z)
  BY <1>1, <1>2, GoesNow
<1>4. /\ given.op = "shortas" /\ ~ IsConstant(gen.a) /\ gen.n \in Int
      /\ IsReader(gen.a) /\ IsReader(gen.b)
      /\ z = CutAs(ToRead(gen.a), Seen(gen.b, Len(ToRead(gen.a))))
  BY <1>1, <1>3 DEF MembersOK, GoesOn, IsGen
<1>5. CASE Ended(gen.a) \/ Ended(gen.b)
  <2>1. SetDone(gen) BY <1>5 DEF ShortAs
  <2>2. z = <<>> BY <1>4, <1>5, EitherEnded, CutAsNone
  <2> QED BY <1>1, <1>3, <2>1, <2>2, NothingIsLeft
<1>6. CASE ~ (Ended(gen.a) \/ Ended(gen.b))
  <2>1. PICK k, items, ra, rb, g :
               /\ k = Count(gen.b, Count(gen.a, left)) /\ items = Items(gen.a, k)
               /\ ra = Advance(gen.a, k) /\ rb = Advance(gen.b, k)
               /\ g = [gen EXCEPT !.a = ra, !.b = rb]
    OBVIOUS
  <2>2. Write(items, g) BY <1>6, <2>1 DEF ShortAs
  <2>3. k \in 0 .. Count(gen.b, Count(gen.a, left)) BY <1>2, <1>4, <1>6, <2>1, CountIs
  <2>4. PICK s, a, b : s = Items(gen.b, k) /\ a = ToRead(ra) /\ b = Seen(rb, Len(a)) OBVIOUS
  <2>5. /\ k \in 0 .. left /\ IsList(items) /\ Len(items) = k /\ IsList(s) /\ Len(s) = k
        /\ IsReader(ra) /\ ~ IsConstant(ra) /\ IsReader(rb) /\ IsList(a) /\ IsList(b)
        /\ ToRead(gen.a) = items \o a /\ Seen(gen.b, Len(ToRead(gen.a))) = s \o b
    <3>1. /\ k \in 0 .. left /\ k \in 0 .. Count(gen.a, left)
          /\ IsList(Items(gen.a, k)) /\ Len(Items(gen.a, k)) = k
          /\ IsList(Items(gen.b, k)) /\ Len(Items(gen.b, k)) = k
          /\ IsReader(Advance(gen.a, k)) /\ ~ IsConstant(Advance(gen.a, k))
          /\ IsReader(Advance(gen.b, k))
      <4>1. k \in 0 .. left BY <1>2, <1>4, <1>6, <2>3, BothRead
      <4>2. k \in 0 .. Count(gen.a, left) BY <1>2, <1>4, <1>6, <2>3, BothRead
      <4>3. IsList(Items(gen.a, k)) /\ Len(Items(gen.a, k)) = k
        BY <1>2, <1>4, <1>6, <2>3, BothRead
      <4>4. IsList(Items(gen.b, k)) /\ Len(Items(gen.b, k)) = k
        BY <1>2, <1>4, <1>6, <2>3, BothRead
      <4>5. /\ IsReader(Advance(gen.a, k)) /\ ~ IsConstant(Advance(gen.a, k))
            /\ IsReader(Advance(gen.b, k))
        BY <1>2, <1>4, <1>6, <2>3, BothRead
      <4> QED BY <4>1, <4>2, <4>3, <4>4, <4>5
    <3>2. /\ IsList(ToRead(Advance(gen.a, k)))
          /\ ToRead(gen.a) = Items(gen.a, k) \o ToRead(Advance(gen.a, k))
      BY <1>2, <1>4, <1>6, <3>1, PieceRead
    <3>3. /\ IsList(Seen(Advance(gen.b, k), Len(ToRead(Advance(gen.a, k)))))
          /\ Seen(gen.b, Len(ToRead(gen.a)))
               = Items(gen.b, k) \o Seen(Advance(gen.b, k), Len(ToRead(Advance(gen.a, k))))
      BY <1>2, <1>4, <1>6, <2>3, BothRead
    <3> QED BY <2>1, <2>4, <3>1, <3>2, <3>3
  <2>6. PICK y : y = CutAs(a, b) OBVIOUS
  <2>7. z = items \o y /\ IsList(y)
    <3>1. CutAs(items \o a, s \o b) = items \o CutAs(a, b) BY <2>5, CutAsPiece
    <3>2. Len(b) \in Nat BY <2>5, ListIs
    <3>3. IsList(y) BY <2>5, <2>6, <3>2, FirstIs DEF CutAs
    <3> QED BY <1>4, <2>5, <2>6, <3>1, <3>3
  <2>8. g = Gen(gen.op, gen.n, gen.held, gen.other, gen.done, ra, rb, gen.stack, gen.state)
    BY <1>3, <2>1 DEF IsGen, Gen
  <2>9. IsGen(g, given.op) /\ g.a = ra /\ g.b = rb /\ g.done = gen.done
    BY <1>3, <1>4, <2>5, <2>8, GenWith, GenMembers
  <2>10. Goes(given, g, left - Len(items), Len(Written) + Len(items), y)
    BY <1>4, <2>4, <2>5, <2>6, <2>9 DEF Goes, MembersOK, GoesOn
  <2>11. Len(items) <= left /\ ~ g.done BY <1>1, <1>2, <2>5, <2>9
  <2> QED BY <1>1, <1>3, <2>2, <2>5, <2>7, <2>10, <2>11, PieceWritten
<1> QED BY <1>5, <1>6

LEMMA KeepWhileGoes ==
  ASSUME GivenOK, PiecesOK, RemainsOK, KeepWhile
  PROVE  (GivenOK /\ PiecesOK /\ RemainsOK)'
<1>1. pulling /\ threw \notin Broken /\ left > 0 /\ ~ gen.done /\ gen.op = "keepWhile"
  BY DEF KeepWhile, Turn, Filling
<1>2. left \in Nat /\ ~ ended /\ Len(Written) \in Nat BY <1>1, Pieces
<1>3. PICK z : /\ IsList(z) /\ PromiseOf(given) = Written \o z
               /\ IsGen(gen, given.op) /\ gen.op = given.op
               /\ MembersOK(given, gen, left, Len(Written))
               /\ GoesOn(given, gen, left, Len(Written), z)
  BY <1>1, <1>2, GoesNow
<1>4. /\ given.op = "keepWhile" /\ ~ IsConstant(gen.a) /\ gen.n \in Int
      /\ IsReader(gen.a) /\ IsReader(gen.b)
      /\ z = Accepted(ToRead(gen.a), Seen(gen.b, Len(ToRead(gen.a))))
  BY <1>1, <1>3 DEF MembersOK, GoesOn, IsGen
<1>5. CASE Ended(gen.a) \/ Ended(gen.b)
  <2>1. SetDone(gen) BY <1>5 DEF KeepWhile
  <2>2. z = <<>> BY <1>4, <1>5, EitherEnded, AcceptedNone
  <2> QED BY <1>1, <1>3, <2>1, <2>2, NothingIsLeft
<1>6. CASE ~ (Ended(gen.a) \/ Ended(gen.b))
  <2>1. PICK k, items, s, ra, rb, g, h :
               /\ k = Count(gen.b, Count(gen.a, left)) /\ items = Items(gen.a, k)
               /\ s = Items(gen.b, k) /\ ra = Advance(gen.a, k) /\ rb = Advance(gen.b, k)
               /\ g = [gen EXCEPT !.a = ra, !.b = rb] /\ h = [g EXCEPT !.done = TRUE]
    OBVIOUS
  <2>2. PICK no : no = FirstNo(s) OBVIOUS
  <2>3. \/ no = 0 /\ Write(items, g)
        \/ no # 0 /\ Write(Items(gen.a, no - 1), h)
        \/ \E j \in 0 .. (IF no = 0 THEN k ELSE no) - 1 : Escape(Items(gen.a, j))
    BY <1>6, <2>1, <2>2 DEF KeepWhile, FirstNo
  <2>4. k \in 0 .. Count(gen.b, Count(gen.a, left)) BY <1>2, <1>4, <1>6, <2>1, CountIs
  <2>5. PICK a, b : a = ToRead(ra) /\ b = Seen(rb, Len(a)) OBVIOUS
  <2>6. /\ k \in 0 .. left /\ k \in 0 .. Count(gen.a, left)
        /\ IsList(items) /\ Len(items) = k /\ IsList(s) /\ Len(s) = k
        /\ IsReader(ra) /\ ~ IsConstant(ra) /\ IsReader(rb) /\ IsList(a) /\ IsList(b)
        /\ ToRead(gen.a) = items \o a /\ Seen(gen.b, Len(ToRead(gen.a))) = s \o b
    <3>1. /\ k \in 0 .. left /\ k \in 0 .. Count(gen.a, left)
          /\ IsList(Items(gen.a, k)) /\ Len(Items(gen.a, k)) = k
          /\ IsList(Items(gen.b, k)) /\ Len(Items(gen.b, k)) = k
          /\ IsReader(Advance(gen.a, k)) /\ ~ IsConstant(Advance(gen.a, k))
          /\ IsReader(Advance(gen.b, k))
      <4>1. k \in 0 .. left BY <1>2, <1>4, <1>6, <2>4, BothRead
      <4>2. k \in 0 .. Count(gen.a, left) BY <1>2, <1>4, <1>6, <2>4, BothRead
      <4>3. IsList(Items(gen.a, k)) /\ Len(Items(gen.a, k)) = k
        BY <1>2, <1>4, <1>6, <2>4, BothRead
      <4>4. IsList(Items(gen.b, k)) /\ Len(Items(gen.b, k)) = k
        BY <1>2, <1>4, <1>6, <2>4, BothRead
      <4>5. /\ IsReader(Advance(gen.a, k)) /\ ~ IsConstant(Advance(gen.a, k))
            /\ IsReader(Advance(gen.b, k))
        BY <1>2, <1>4, <1>6, <2>4, BothRead
      <4> QED BY <4>1, <4>2, <4>3, <4>4, <4>5
    <3>2. /\ IsList(ToRead(Advance(gen.a, k)))
          /\ ToRead(gen.a) = Items(gen.a, k) \o ToRead(Advance(gen.a, k))
      BY <1>2, <1>4, <1>6, <3>1, PieceRead
    <3>3. /\ IsList(Seen(Advance(gen.b, k), Len(ToRead(Advance(gen.a, k)))))
          /\ Seen(gen.b, Len(ToRead(gen.a)))
               = Items(gen.b, k) \o Seen(Advance(gen.b, k), Len(ToRead(Advance(gen.a, k))))
      BY <1>2, <1>4, <1>6, <2>4, BothRead
    <3> QED BY <2>1, <2>5, <3>1, <3>2, <3>3
  <2>7. z = IF no = 0 THEN items \o Accepted(a, b) ELSE SubSeq(items, 1, no - 1)
    BY <1>4, <2>2, <2>6, AcceptedPiece
  <2>8. g = Gen(gen.op, gen.n, gen.held, gen.other, gen.done, ra, rb, gen.stack, gen.state)
    BY <1>3, <2>1 DEF IsGen, Gen
  <2>9. IsGen(g, given.op) /\ g.a = ra /\ g.b = rb /\ g.done = gen.done
    BY <1>3, <1>4, <2>6, <2>8, GenWith, GenMembers
  <2>10. CASE no = 0 /\ Write(items, g)
    <3>1. PICK y : y = Accepted(a, b) OBVIOUS
    <3>2. z = items \o y /\ IsList(y) BY <2>6, <2>7, <2>10, <3>1, AcceptedIs
    <3>3. Goes(given, g, left - Len(items), Len(Written) + Len(items), y)
      BY <1>4, <2>5, <2>6, <2>9, <3>1 DEF Goes, MembersOK, GoesOn
    <3>4. Len(items) <= left /\ ~ g.done /\ Write(items, g) BY <1>1, <1>2, <2>6, <2>9, <2>10
    <3> QED BY <1>1, <1>3, <2>6, <3>2, <3>3, <3>4, PieceWritten
  <2>11. CASE no # 0 /\ Write(Items(gen.a, no - 1), h)
    <3>1. no \in 1 .. k BY <2>2, <2>6, <2>11, FirstNoIs
    <3>2. PICK j : j = no - 1 OBVIOUS
    <3>3. j \in Nat /\ j <= k /\ j <= left /\ j \in 0 .. Count(gen.a, left)
      <4>1. PICK e : e = Count(gen.a, left) OBVIOUS
      <4>2. e \in 0 .. left BY <1>2, <1>4, <1>6, <4>1, CountIs
      <4>3. k \in 0 .. e BY <2>6, <4>1
      <4>4. j \in Nat /\ j <= k /\ j <= left /\ j \in 0 .. e
        BY <1>2, <2>6, <3>1, <3>2, <4>2, <4>3
      <4> QED BY <4>1, <4>4
    <3>4. PICK x, t : x = Items(gen.a, j) /\ t = ToRead(Advance(gen.a, j)) OBVIOUS
    <3>5. IsList(x) /\ Len(x) = j /\ IsList(t) /\ ToRead(gen.a) = x \o t
      BY <1>2, <1>4, <1>6, <3>3, <3>4, PieceRead
    <3>6. z = x
      <4>1. z = SubSeq(items, 1, j) BY <2>7, <2>11, <3>2
      <4>2. FirstOf(items \o a, j) = SubSeq(items, 1, j) BY <2>6, <3>3, FirstOfPart
      <4>3. FirstOf(x \o t, j) = SubSeq(x, 1, j) /\ FirstOf(x, j) = SubSeq(x, 1, j)
        BY <3>3, <3>5, FirstOfPart
      <4>4. FirstOf(x, j) = x BY <3>3, <3>5, FirstOfFew
      <4> QED BY <2>6, <3>5, <4>1, <4>2, <4>3, <4>4
    <3>7. z = x \o <<>> BY <3>5, <3>6, JoinedToNone
    <3>8. Write(x, h) /\ Len(x) <= left BY <2>11, <3>2, <3>3, <3>4, <3>5
    <3>9. h.done BY <2>1, <2>9 DEF IsGen, Gen
    <3> QED BY <1>1, <1>3, <3>5, <3>7, <3>8, <3>9, ListEmpty, PieceWritten
  <2>12. ASSUME NEW j \in 0 .. (IF no = 0 THEN k ELSE no) - 1, Escape(Items(gen.a, j))
         PROVE  (GivenOK /\ PiecesOK /\ RemainsOK)'
    <3>1. /\ j \in Nat /\ k \in Nat /\ j <= k /\ j <= left /\ no \in Nat
          /\ no # 0 => j < no
      <4>1. no = 0 \/ no \in 1 .. k BY <2>2, <2>6, FirstNoIs
      <4> QED BY <1>2, <2>6, <2>12, <4>1
    <3>2. j \in 0 .. Count(gen.b, Count(gen.a, left)) BY <2>1, <2>6, <3>1
    <3>3. PICK x, t, u, v :
                 /\ x = Items(gen.a, j) /\ t = Items(gen.b, j)
                 /\ u = ToRead(Advance(gen.a, j)) /\ v = Seen(Advance(gen.b, j), Len(u))
      OBVIOUS
    <3>4. /\ IsList(x) /\ Len(x) = j /\ IsList(t) /\ Len(t) = j /\ IsList(u) /\ IsList(v)
          /\ ToRead(gen.a) = x \o u /\ Seen(gen.b, Len(ToRead(gen.a))) = t \o v
      <4>1. IsList(Items(gen.a, j)) /\ Len(Items(gen.a, j)) = j
        BY <1>2, <1>4, <1>6, <3>2, BothRead
      <4>2. IsList(Items(gen.b, j)) /\ Len(Items(gen.b, j)) = j
        BY <1>2, <1>4, <1>6, <3>2, BothRead
      <4>3. /\ IsList(ToRead(Advance(gen.a, j)))
            /\ ToRead(gen.a) = Items(gen.a, j) \o ToRead(Advance(gen.a, j))
        BY <1>2, <1>4, <1>6, <3>2, BothRead
      <4>4. /\ IsList(Seen(Advance(gen.b, j), Len(ToRead(Advance(gen.a, j)))))
            /\ Seen(gen.b, Len(ToRead(gen.a)))
                 = Items(gen.b, j) \o Seen(Advance(gen.b, j), Len(ToRead(Advance(gen.a, j))))
        BY <1>2, <1>4, <1>6, <3>2, BothRead
      <4> QED BY <3>3, <4>1, <4>2, <4>3, <4>4
    <3>5. ASSUME NEW i \in 1 .. Len(t) PROVE t[i] # 0
      <4>1. i \in 1 .. k /\ (no # 0 => i < no)
        <5>1. i \in 1 .. j BY <3>4
        <5> QED BY <3>1, <5>1
      <4>2. s[i] # 0
        <5>1. IsList(s) BY <2>6
        <5>2. \/ FirstNo(s) = 0 /\ \A m \in 1 .. Len(s) : s[m] # 0
              \/ /\ FirstNo(s) \in 1 .. Len(s) /\ s[FirstNo(s)] = 0
                 /\ \A m \in 1 .. Len(s) : m < FirstNo(s) => s[m] # 0
          BY ONLY <5>1, FirstNoIs
        <5>3. /\ no = 0 => \A m \in 1 .. Len(s) : s[m] # 0
              /\ no # 0 => \A m \in 1 .. Len(s) : m < no => s[m] # 0
          BY <2>2, <5>2
        <5> QED BY <2>6, <4>1, <5>3
      <4>3. (s \o b)[i] = s[i]
        <5>1. IsList(s) /\ IsList(b) /\ i \in 1 .. Len(s) BY <2>6, <4>1
        <5> QED BY ONLY <5>1, ListConcat
      <4>4. (t \o v)[i] = t[i]
        <5>1. IsList(t) /\ IsList(v) /\ i \in 1 .. Len(t) BY <3>4, <3>5
        <5> QED BY ONLY <5>1, ListConcat
      <4> QED BY <2>6, <3>4, <4>2, <4>3, <4>4
    <3>6. FirstNo(t) = 0 BY <3>4, <3>5, FirstNoOnly
    <3>7. PICK y : y = Accepted(u, v) OBVIOUS
    <3>8. z = x \o y /\ IsList(y) BY <1>4, <3>4, <3>6, <3>7, AcceptedPiece, AcceptedIs
    <3>9. Escape(x) /\ Len(x) <= left BY <2>12, <3>1, <3>3, <3>4
    <3> QED BY <1>1, <1>3, <3>4, <3>8, <3>9, IsLeft
  <2> QED BY <2>3, <2>10, <2>11, <2>12
<1> QED BY <1>5, <1>6

LEMMA LastOfBoth ==
  ASSUME NEW s, NEW t, IsList(s), IsList(t), t # <<>>
  PROVE  Last(s \o t) = Last(t) /\ s \o t # <<>>
<1>1. /\ IsList(s) /\ IsList(t)
      /\ Len(s) \in Nat /\ Len(t) \in Nat /\ Len(t) # 0
  BY ListIs, NoItems
<1>2. IsList(s \o t) BY ONLY <1>1, ListConcat
<1>3. Len(s \o t) = Len(s) + Len(t) BY ONLY <1>1, ListConcat
<1>4. \A i \in 1 .. Len(t) : (s \o t)[Len(s) + i] = t[i] BY ONLY <1>1, ListConcat
<1>5. Len(t) \in 1 .. Len(t) BY <1>1
<1>6. (s \o t)[Len(s \o t)] = t[Len(t)] BY <1>3, <1>4, <1>5
<1>7. Len(s \o t) # 0 BY <1>1, <1>3
<1> QED BY <1>2, <1>6, <1>7, NoItems DEF Last

LEMMA LongAsGoes ==
  ASSUME GivenOK, PiecesOK, RemainsOK, NEW op \in {"longas", "longas0"}, LongAs(op)
  PROVE  (GivenOK /\ PiecesOK /\ RemainsOK)'
<1>1. pulling /\ threw \notin Broken /\ left > 0 /\ ~ gen.done /\ gen.op = op
  BY DEF LongAs, Turn, Filling
<1>2. left \in Nat /\ ~ ended /\ Len(Written) \in Nat BY <1>1, Pieces
<1>3. PICK z : /\ IsList(z) /\ PromiseOf(given) = Written \o z
               /\ IsGen(gen, given.op) /\ gen.op = given.op
               /\ MembersOK(given, gen, left, Len(Written))
               /\ GoesOn(given, gen, left, Len(Written), z)
  BY <1>1, <1>2, GoesNow
<1>4. PICK v, M, x, b : /\ v = IF op = "longas" THEN LastOr(ListA(given), given.n) ELSE 0
                        /\ M = Len(ListB(given)) /\ x = Repeated(v, M) /\ b = ToRead(gen.b)
  OBVIOUS
<1>5. /\ given.op = op /\ ~ IsConstant(gen.a) /\ ~ IsConstant(gen.b) /\ gen.n \in Int
      /\ IsReader(gen.a) /\ IsReader(gen.b) /\ Len(b) <= M
      /\ op = "longas" => HoldsLast(given, gen)
      /\ z = FirstOf(ToRead(gen.a) \o x, Len(b))
  BY <1>1, <1>3, <1>4 DEF MembersOK, GoesOn, IsGen
<1>6. M \in Nat /\ IsList(ListA(given)) BY <1>4, <1>5, ListsAre
<1>7. IsList(x) /\ IsList(b) /\ Len(b) \in Nat /\ IsList(ToRead(gen.a))
  BY <1>4, <1>5, <1>6, RepeatedIs, ToReadIs
<1>8. CASE Ended(gen.b)
  <2>1. SetDone(gen) BY <1>8 DEF LongAs
  <2>2. Len(b) = 0 BY <1>4, <1>5, <1>8, NothingToRead, ListEmpty
  <2>3. PICK a : a = ToRead(gen.a) OBVIOUS
  <2>4. IsList(a) BY <1>7, <2>3
  <2>5. IsList(a \o x) BY ONLY <1>7, <2>4, ListConcat
  <2>6. z = <<>> BY <1>5, <2>2, <2>3, <2>5, FirstOfNone
  <2> QED BY <1>1, <1>3, <2>1, <2>6, NothingIsLeft
<1>9. CASE ~ Ended(gen.b)
  <2>1. PICK n0, k, last, items, ra, rb, held, g :
          /\ n0 = Count(gen.b, left)
          /\ k = IF Ended(gen.a) THEN n0 ELSE Count(gen.a, n0)
          /\ last = IF op = "longas" THEN gen.held ELSE 0
          /\ items = IF Ended(gen.a) THEN Repeated(last, k) ELSE Items(gen.a, k)
          /\ ra = IF Ended(gen.a) THEN gen.a ELSE Advance(gen.a, k)
          /\ rb = Advance(gen.b, k) /\ held = Last(items)
          /\ g = [gen EXCEPT !.b = rb, !.held = held, !.a = ra]
    OBVIOUS
  <2>2. Write(items, g) BY <1>9, <2>1 DEF LongAs
  <2>3. n0 \in 0 .. left /\ n0 > 0 /\ n0 \in Nat BY <1>1, <1>2, <1>5, <1>9, <2>1, CountIs
  <2>4. k \in 0 .. n0 /\ k > 0 BY <1>5, <2>1, <2>3, CountIs
  <2>5. k \in 0 .. Count(gen.b, left) BY <2>1, <2>4
  <2>6. PICK s, y : s = Items(gen.b, k) /\ y = ToRead(rb) OBVIOUS
  <2>7. /\ IsList(s) /\ Len(s) = k /\ IsReader(rb) /\ IsList(y) /\ ~ IsConstant(rb)
        /\ b = s \o y
    <3>1. /\ IsList(Items(gen.b, k)) /\ Len(Items(gen.b, k)) = k /\ IsReader(Advance(gen.b, k))
          /\ IsList(ToRead(Advance(gen.b, k))) /\ ~ IsConstant(Advance(gen.b, k))
          /\ ToRead(gen.b) = Items(gen.b, k) \o ToRead(Advance(gen.b, k))
      BY <1>2, <1>5, <1>9, <2>5, PieceRead
    <3> QED BY <1>4, <2>1, <2>6, <3>1
  <2>8. Len(b) = k + Len(y) /\ Len(y) \in Nat
    <3>1. Len(s \o y) = Len(s) + Len(y) BY ONLY <2>7, ListConcat
    <3> QED BY <2>7, <3>1, ListIs
  <2>9. k <= Len(b) /\ Len(b) - k = Len(y) /\ Len(y) <= M /\ k \in Nat
    BY <1>5, <1>6, <1>7, <2>3, <2>4, <2>8
  <2>10. PICK a : a = ToRead(ra) OBVIOUS
  <2>11. PICK rest : rest = FirstOf(a \o x, Len(y)) OBVIOUS
  <2>12. /\ IsReader(ra) /\ ~ IsConstant(ra) /\ IsList(items) /\ Len(items) = k
         /\ z = items \o rest
         /\ op = "longas" => IF a = <<>> THEN held = LastOr(ListA(given), given.n)
                             ELSE Last(a) = LastOr(ListA(given), given.n)
    <3>1. CASE Ended(gen.a)
      <4>1. ToRead(gen.a) = <<>> /\ a = <<>> /\ ra = gen.a BY <1>5, <2>1, <2>10, <3>1, NothingToRead
      <4>2. last = v BY <1>4, <1>5, <2>1, <4>1 DEF HoldsLast
      <4>3. items = Repeated(v, k) BY <2>1, <3>1, <4>2
      <4>4. IsList(items) /\ Len(items) = k /\ \A i \in 1 .. k : items[i] = v
        BY <2>4, <2>9, <4>3, RepeatedIs
      <4>5. held = v BY <2>1, <2>4, <2>9, <4>4 DEF Last
      <4>6. a \o x = x BY <1>7, <4>1, JoinedToNone
      <4>7. z = Repeated(v, Len(b)) BY <1>4, <1>5, <1>6, <1>7, <4>1, <4>6, FirstOfRepeated
      <4>8. rest = Repeated(v, Len(y)) BY <1>4, <1>6, <2>8, <2>9, <2>11, <4>6, FirstOfRepeated
      <4>9. z = items \o rest BY <1>7, <2>9, <4>3, <4>7, <4>8, RepeatedMore, ZenonT(60)
      <4> QED BY <1>4, <1>5, <4>1, <4>4, <4>5, <4>9
    <3>2. CASE ~ Ended(gen.a)
      <4>1. k = Count(gen.a, n0) /\ items = Items(gen.a, k) /\ ra = Advance(gen.a, k)
        BY <2>1, <3>2
      <4>2. k \in 0 .. Count(gen.a, n0) BY <2>4, <2>9, <4>1
      <4>3. /\ IsList(items) /\ Len(items) = k /\ IsReader(ra) /\ IsList(a) /\ ~ IsConstant(ra)
            /\ ToRead(gen.a) = items \o a
        <5>1. /\ IsReader(gen.a) /\ ~ Ended(gen.a) /\ ~ IsConstant(gen.a)
              /\ n0 \in Nat /\ k \in 0 .. Count(gen.a, n0)
          BY <1>5, <2>3, <3>2, <4>2
        <5>2. IsList(Items(gen.a, k)) /\ Len(Items(gen.a, k)) = k
          BY ONLY <5>1, PieceRead
        <5>3. /\ IsReader(Advance(gen.a, k)) /\ IsList(ToRead(Advance(gen.a, k)))
              /\ ~ IsConstant(Advance(gen.a, k))
          BY ONLY <5>1, PieceRead
        <5>4. ToRead(gen.a) = Items(gen.a, k) \o ToRead(Advance(gen.a, k))
          BY ONLY <5>1, PieceRead
        <5> QED BY <2>10, <4>1, <5>2, <5>3, <5>4
      <4>4. Len(items) <= Len(b) BY <2>9, <4>3
      <4>5. FirstOf((items \o a) \o x, Len(b)) = items \o FirstOf(a \o x, Len(b) - Len(items))
        BY <1>7, <4>3, <4>4, PaddedPiece, ZenonT(60)
      <4>6. z = items \o rest BY <1>5, <2>9, <2>11, <4>3, <4>5
      <4>7. ASSUME op = "longas"
            PROVE  IF a = <<>> THEN held = LastOr(ListA(given), given.n)
                   ELSE Last(a) = LastOr(ListA(given), given.n)
        <5>1. items # <<>> BY <2>4, <4>3, ListEmpty
        <5>2. ToRead(gen.a) # <<>>
          <6>1. CASE a = <<>> BY <4>3, <5>1, <6>1, JoinedToNone
          <6>2. CASE a # <<>> BY <4>3, <6>2, LastOfBoth
          <6> QED BY <6>1, <6>2
        <5>3. Last(ToRead(gen.a)) = LastOr(ListA(given), given.n) BY <1>5, <4>7, <5>2 DEF HoldsLast
        <5>4. CASE a = <<>> BY <2>1, <4>3, <5>3, <5>4, JoinedToNone
        <5>5. CASE a # <<>> BY <4>3, <5>3, <5>5, LastOfBoth
        <5> QED BY <5>4, <5>5
      <4> QED BY <4>3, <4>6, <4>7
    <3> QED BY <3>1, <3>2
  <2>13. IsList(rest)
    <3>1. IsList(a) BY <2>10, <2>12, ToReadIs
    <3>2. IsList(a \o x) BY ONLY <1>7, <3>1, ListConcat
    <3> QED BY <2>8, <2>11, <3>2, FirstIs
  <2>14. g = Gen(gen.op, gen.n, held, gen.other, gen.done, ra, rb, gen.stack, gen.state)
    BY <1>3, <2>1 DEF IsGen, Gen
  <2>15. IsGen(g, given.op) /\ g.a = ra /\ g.b = rb /\ g.done = gen.done /\ g.held = held
    BY <1>3, <1>5, <2>7, <2>12, <2>14, GenWith, GenMembers
  <2>16. op = "longas" => HoldsLast(given, g) BY <2>10, <2>12, <2>15 DEF HoldsLast
  <2>17. MembersOK(given, g, left - k, Len(Written) + k)
    BY <1>4, <1>5, <2>6, <2>7, <2>9, <2>12, <2>15, <2>16 DEF MembersOK
  <2>18. GoesOn(given, g, left - k, Len(Written) + k, rest)
    BY <1>4, <1>5, <2>6, <2>10, <2>11, <2>15 DEF GoesOn
  <2>19. Goes(given, g, left - Len(items), Len(Written) + Len(items), rest)
    BY <2>12, <2>15, <2>17, <2>18 DEF Goes
  <2>20. Len(items) <= left /\ ~ g.done BY <1>1, <1>2, <2>3, <2>4, <2>12, <2>15
  <2> QED BY <1>1, <1>3, <2>2, <2>12, <2>13, <2>19, <2>20, PieceWritten
<1> QED BY <1>8, <1>9

LEMMA CatGoes ==
  ASSUME GivenOK, PiecesOK, RemainsOK, Cat
  PROVE  (GivenOK /\ PiecesOK /\ RemainsOK)'
<1>1. pulling /\ threw \notin Broken /\ left > 0 /\ ~ gen.done /\ gen.op = "cat"
  BY DEF Cat, Turn, Filling
<1>2. left \in Nat /\ ~ ended /\ Len(Written) \in Nat BY <1>1, Pieces
<1>3. PICK z : /\ IsList(z) /\ PromiseOf(given) = Written \o z
               /\ IsGen(gen, given.op) /\ gen.op = given.op
               /\ MembersOK(given, gen, left, Len(Written))
               /\ GoesOn(given, gen, left, Len(Written), z)
  BY <1>1, <1>2, GoesNow
<1>4. PICK b : b = ToRead(gen.b) OBVIOUS
<1>5. /\ given.op = "cat" /\ ~ IsConstant(gen.a) /\ ~ IsConstant(gen.b) /\ gen.n \in Int
      /\ IsReader(gen.a) /\ IsReader(gen.b) /\ \A j \in 1 .. Len(b) : Arrays(b[j])
      /\ z = ToRead(gen.a) \o Joined(b)
  BY <1>1, <1>3, <1>4 DEF MembersOK, GoesOn, IsGen
<1>6. IsList(Joined(b)) /\ Joined(<<>>) = <<>>
  <2>1. IsList(b) BY <1>4, <1>5, ToReadIs
  <2>2. Arrays(<<>>) BY ListEmpty DEF Arrays
  <2> QED BY <1>5, <2>1, <2>2, JoinedMore
<1>7. CASE ~ Ended(gen.a)
  <2>1. PICK k, items, r, g :
               /\ k = Count(gen.a, left) /\ items = Items(gen.a, k) /\ r = Advance(gen.a, k)
               /\ g = [gen EXCEPT !.a = r]
    OBVIOUS
  <2>2. Write(items, g) BY <1>7, <2>1 DEF Cat
  <2>3. k \in 0 .. left /\ k \in 0 .. Count(gen.a, left) BY <1>2, <1>5, <1>7, <2>1, CountIs
  <2>4. /\ IsList(items) /\ Len(items) = k /\ IsReader(r) /\ IsList(ToRead(r))
        /\ ~ IsConstant(r) /\ ToRead(gen.a) = items \o ToRead(r)
    <3>1. /\ IsList(Items(gen.a, k)) /\ Len(Items(gen.a, k)) = k /\ IsReader(Advance(gen.a, k))
          /\ IsList(ToRead(Advance(gen.a, k))) /\ ~ IsConstant(Advance(gen.a, k))
          /\ ToRead(gen.a) = Items(gen.a, k) \o ToRead(Advance(gen.a, k))
      <4>1. /\ IsReader(gen.a) /\ ~ Ended(gen.a) /\ ~ IsConstant(gen.a) /\ left \in Nat
            /\ k \in 0 .. Count(gen.a, left)
        BY <1>2, <1>5, <1>7, <2>3
      <4> QED BY ONLY <4>1, PieceRead
    <3> QED BY <2>1, <3>1
  <2>5. g = Gen(gen.op, gen.n, gen.held, gen.other, gen.done, r, gen.b, gen.stack, gen.state)
    BY <1>3, <2>1 DEF IsGen, Gen
  <2>6. IsGen(g, given.op) /\ g.a = r /\ g.b = gen.b /\ g.done = gen.done
    BY <1>3, <1>5, <2>4, <2>5, GenWith, GenMembers
  <2>7. PICK a, t, y : a = ToRead(r) /\ t = Joined(b) /\ y = a \o t OBVIOUS
  <2>8. IsList(a) /\ IsList(t) BY <1>6, <2>4, <2>7
  <2>9. IsList(a \o t) BY ONLY <2>8, ListConcat
  <2>10. z = items \o y
    <3>1. PICK u : u = items OBVIOUS
    <3>2. IsList(u) /\ IsList(a) /\ IsList(t) BY <2>4, <2>8, <3>1
    <3>3. (u \o a) \o t = u \o (a \o t) BY ONLY <3>2, JoinedAgain
    <3> QED BY <1>5, <2>4, <2>7, <3>1, <3>3
  <2>11. Goes(given, g, left - Len(items), Len(Written) + Len(items), y)
    BY <1>4, <1>5, <2>4, <2>6, <2>7 DEF Goes, MembersOK, GoesOn
  <2>12. Len(items) <= left /\ ~ g.done BY <1>1, <1>2, <2>3, <2>4, <2>6
  <2> QED BY <1>1, <1>3, <2>2, <2>4, <2>7, <2>9, <2>10, <2>11, <2>12, PieceWritten
<1>8. CASE Ended(gen.a)
  <2>1. z = Joined(b) BY <1>5, <1>6, <1>8, NothingToRead, JoinedToNone
  <2>2. CASE Ended(gen.b)
    <3>1. SetDone(gen) BY <1>8, <2>2 DEF Cat
    <3>2. z = <<>> BY <1>4, <1>5, <1>6, <2>1, <2>2, NothingToRead
    <3> QED BY <1>1, <1>3, <3>1, <3>2, NothingIsLeft
  <2>3. CASE ~ Ended(gen.b)
    <3>1. PICK v, r, a, g, h : /\ v = One(gen.b) /\ r = Past(gen.b) /\ a = Reader(v)
                               /\ g = [gen EXCEPT !.b = r] /\ h = [g EXCEPT !.a = a]
      OBVIOUS
    <3>2. Remember(h) \/ ApplyThrows(g) \/ Escape(<<>>) BY <1>8, <2>3, <3>1 DEF Cat
    <3>3. IsReader(r) /\ ~ IsConstant(r) BY <1>5, <2>3, <3>1, OneRead
    <3>4. g = Gen(gen.op, gen.n, gen.held, gen.other, gen.done, gen.a, r, gen.stack, gen.state)
      BY <1>3, <3>1 DEF IsGen, Gen
    <3>5. IsGen(g, given.op) BY <1>3, <1>5, <3>3, <3>4, GenWith
    <3>6. CASE ApplyThrows(g) BY <1>1, <3>5, <3>6, IsThrown
    <3>7. CASE Remember(h)
      <4>1. /\ Arrays(v) /\ \A j \in 1 .. Len(ToRead(r)) : Arrays(ToRead(r)[j])
            /\ z = FlattenSeq(v) \o Joined(ToRead(r))
        BY <1>4, <1>5, <2>1, <2>3, <3>1, NextList
      <4>2. IsReader(a) /\ ~ IsConstant(a) /\ ToRead(a) = FlattenSeq(v)
        BY <3>1, <4>1, ReaderIs
      <4>3. h = Gen(gen.op, gen.n, gen.held, gen.other, gen.done, a, r, gen.stack, gen.state)
        BY <3>1, <3>4 DEF Gen
      <4>4. IsGen(h, given.op) /\ h.a = a /\ h.b = r /\ h.done = gen.done
        BY <1>3, <1>5, <3>3, <4>2, <4>3, GenWith, GenMembers
      <4>5. PICK l, w : l = left - Len(<<>>) /\ w = Len(Written) + Len(<<>>) OBVIOUS
      <4>6. Goes(given, h, l, w, z)
        BY <1>5, <3>3, <4>1, <4>2, <4>4 DEF Goes, MembersOK, GoesOn
      <4>7. z = <<>> \o z /\ IsList(<<>>) /\ Len(<<>>) <= left
        BY <1>2, <1>3, ListEmpty, JoinedToNone
      <4>8. Write(<<>>, h) /\ ~ h.done BY <1>1, <3>7, <4>4 DEF Remember
      <4> QED BY <1>1, <1>3, <4>5, <4>6, <4>7, <4>8, PieceWritten
    <3>8. CASE Escape(<<>>) BY <1>1, <1>3, <3>8, NothingWritten
    <3> QED BY <3>2, <3>6, <3>7, <3>8
  <2> QED BY <2>2, <2>3
<1> QED BY <1>7, <1>8

(* An item and its count. *)
LEMMA CountedRead ==
  ASSUME NEW x, NEW y, IsReader(x), IsReader(y), ~ Ended(x), ~ Ended(y), ~ IsConstant(x),
         Counts(y)
  PROVE  /\ ~ IsConstant(Past(x)) /\ ToRead(x) = <<One(x)>> \o ToRead(Past(x))
         /\ One(y) \in Int /\ Counts(Past(y))
         /\ IsList(ToRead(Past(x))) /\ IsList(Seen(Past(y), Len(ToRead(Past(x)))))
         /\ \A j \in 1 .. Len(Seen(Past(y), Len(ToRead(Past(x))))) :
              Seen(Past(y), Len(ToRead(Past(x))))[j] \in Int
         /\ Seen(y, Len(ToRead(x))) = <<One(y)>> \o Seen(Past(y), Len(ToRead(Past(x))))
<1>1. /\ IsReader(Past(x)) /\ ~ IsConstant(Past(x)) /\ IsReader(Past(y))
      /\ ToRead(x) = <<One(x)>> \o ToRead(Past(x))
  BY OneRead
<1>2. One(y) \in Int /\ Counts(Past(y)) BY OneCounted
<1>3. PICK a, v : a = ToRead(Past(x)) /\ v = One(x) OBVIOUS
<1>4. IsList(a) /\ Len(a) \in Nat BY <1>1, <1>3, ToReadIs
<1>5. Len(<<v>> \o a) = Len(a) + 1 BY <1>4, AfterFirst
<1>6. PICK m, n : m = Len(ToRead(x)) /\ n = Len(a) OBVIOUS
<1>7. m \in Nat /\ m > 0 /\ m - 1 = n /\ n \in Nat BY <1>1, <1>3, <1>4, <1>5, <1>6
<1>8. Seen(y, m) = <<One(y)>> \o Seen(Past(y), m - 1) BY <1>7, OneSeen
<1>9. IsList(Seen(Past(y), n)) /\ \A j \in 1 .. Len(Seen(Past(y), n)) : Seen(Past(y), n)[j] \in Int
  BY <1>1, <1>2, <1>7, SeenIs DEF Counts
<1> QED BY <1>1, <1>2, <1>3, <1>4, <1>6, <1>7, <1>8, <1>9

LEMMA NoneIsPadded ==
  ASSUME NEW x, NEW y, IsList(x), IsList(y), x = <<>> \/ y = <<>>
  PROVE  Stuttered(x, y) = <<>> /\ Apart(x, y) = <<>>
<1>1. PICK r, s : /\ r = [j \in Both(x, y) |-> Repeated(x[j], y[j])]
                  /\ s = [j \in Both(x, y) |-> <<x[j]>> \o Zeros(y[j])]
  OBVIOUS
<1>2. r = [j \in Both(x, y) |-> r[j]] /\ s = [j \in Both(x, y) |-> s[j]] BY <1>1
<1> QED BY <1>1, <1>2, PairsNone DEF Stuttered, Apart

(* What is still to be written of the item that has been read, v, and of   *)
(* the next ones, for stutter and spread alike.                            *)
PaddedBy(g) == IF g.op = "stutter" THEN g.held ELSE 0
PaddedItems(op, a, b) == IF op = "stutter" THEN Stuttered(a, b) ELSE Apart(a, b)
LEMMA PaddedGoes ==
  ASSUME GivenOK, PiecesOK, RemainsOK, Stutter \/ Spread
  PROVE  (GivenOK /\ PiecesOK /\ RemainsOK)'
<1>1. /\ pulling /\ threw \notin Broken /\ left > 0 /\ ~ gen.done
      /\ gen.op \in {"stutter", "spread"}
  BY DEF Stutter, Spread, Turn, Filling
<1>2. left \in Nat /\ ~ ended /\ Len(Written) \in Nat BY <1>1, Pieces
<1>3. PICK z : /\ IsList(z) /\ PromiseOf(given) = Written \o z
               /\ IsGen(gen, given.op) /\ gen.op = given.op
               /\ MembersOK(given, gen, left, Len(Written))
               /\ GoesOn(given, gen, left, Len(Written), z)
  BY <1>1, <1>2, GoesNow
<1>4. PICK op, v, a, b, t : /\ op = gen.op /\ v = PaddedBy(gen)
                            /\ a = ToRead(gen.a) /\ b = Seen(gen.b, Len(a))
                            /\ t = PaddedItems(op, a, b)
  OBVIOUS
<1>5. /\ given.op = op /\ op \in {"stutter", "spread"} /\ ~ IsConstant(gen.a) /\ gen.n \in Int
      /\ IsReader(gen.a) /\ IsReader(gen.b) /\ Counts(gen.b)
      /\ z = Repeated(v, gen.n) \o t
  BY <1>1, <1>3, <1>4 DEF MembersOK, GoesOn, IsGen, PaddedBy, PaddedItems
<1>6. IsList(a) /\ IsList(b) /\ IsList(t) /\ \A j \in 1 .. Len(b) : b[j] \in Int
  <2>1. IsList(a) /\ Len(a) \in Nat BY <1>4, <1>5, ToReadIs
  <2>2. IsList(b) /\ \A j \in 1 .. Len(b) : b[j] \in Int
    BY <1>4, <1>5, <2>1, SeenIs DEF Counts
  <2>3. 0 \in Int OBVIOUS
  <2>4. IsList(Stuttered(a, b)) /\ IsList(Apart(a, b)) BY <2>1, <2>2, <2>3, StutteredMore, ApartMore
  <2> QED BY <1>4, <2>1, <2>2, <2>4 DEF PaddedItems
<1>7. CASE Padded
  <2>1. PICK n, k, items, g : /\ n = gen.n /\ k = Smaller(n, left) /\ items = Repeated(v, k)
                              /\ g = [gen EXCEPT !.n = @ - k]
    OBVIOUS
  <2>2. Write(items, g) BY <1>1, <1>4, <1>7, <2>1 DEF Stutter, Spread, Turn, Filling, PadWith, PaddedBy
  <2>3. n \in Nat /\ k \in Nat /\ k <= n /\ k <= left /\ n - k \in Nat
    BY <1>2, <1>5, <1>7, <2>1 DEF Padded, Smaller
  <2>4. PICK rest, y : rest = Repeated(v, n - k) /\ y = rest \o t OBVIOUS
  <2>5. IsList(items) /\ Len(items) = k /\ IsList(rest)
    BY <2>1, <2>3, <2>4, RepeatedIs
  <2>6. Repeated(v, n) = items \o rest BY <2>1, <2>3, <2>4, RepeatedMore, ZenonT(60)
  <2>7. z = items \o y
    <3>1. IsList(items) /\ IsList(rest) /\ IsList(t) BY <1>6, <2>5
    <3>2. (items \o rest) \o t = items \o (rest \o t) BY ONLY <3>1, JoinedAgain
    <3> QED BY <1>5, <2>1, <2>4, <2>6, <3>2
  <2>8. IsList(rest \o t) BY ONLY <1>6, <2>5, ListConcat
  <2>9. PICK m : m = n - k OBVIOUS
  <2>10. g = Gen(gen.op, m, gen.held, gen.other, gen.done, gen.a, gen.b, gen.stack, gen.state)
    BY <1>3, <2>1, <2>9 DEF IsGen, Gen
  <2>11. /\ IsGen(g, given.op) /\ g.n = m /\ g.a = gen.a /\ g.b = gen.b /\ g.held = gen.held
         /\ g.done = gen.done
    <3>1. m \in Int BY <2>3, <2>9
    <3> QED BY <1>3, <1>5, <2>10, <3>1, GenWith, GenMembers
  <2>12. PICK l, w : l = left - Len(items) /\ w = Len(Written) + Len(items) OBVIOUS
  <2>13. y = Repeated(PaddedBy(gen), g.n) \o PaddedItems(gen.op, ToRead(g.a), Seen(g.b, Len(ToRead(g.a))))
    BY <1>4, <2>4, <2>9, <2>11
  <2>14. Goes(given, g, l, w, y)
    BY <1>3, <1>5, <2>11, <2>13 DEF Goes, MembersOK, GoesOn, PaddedBy, PaddedItems
  <2>15. Len(items) <= left /\ ~ g.done BY <1>1, <2>3, <2>5, <2>11
  <2> QED BY <1>1, <1>3, <2>2, <2>4, <2>5, <2>7, <2>8, <2>12, <2>14, <2>15, PieceWritten
<1>8. CASE ~ Padded
  <2>1. z = t
    <3>1. ~ (gen.n > 0) BY <1>8 DEF Padded
    <3>2. IsList(Repeated(v, gen.n)) /\ Len(Repeated(v, gen.n)) = 0 BY <1>5, <3>1, RepeatedIs
    <3>3. Repeated(v, gen.n) = <<>> BY <3>2, NoItems
    <3> QED BY <1>5, <1>6, <3>3, JoinedToNone
  <2>2. CASE Uncounted
    <3>1. SetDone(gen) BY <1>8, <2>2 DEF Stutter, Spread
    <3>2. a = <<>> \/ b = <<>> BY <1>4, <1>5, <2>2, EitherEnded DEF Uncounted
    <3>3. z = <<>> BY <1>4, <1>6, <2>1, <3>2, NoneIsPadded DEF PaddedItems
    <3> QED BY <1>1, <1>3, <3>1, <3>3, NothingIsLeft
  <2>3. CASE ~ Uncounted
    <3>1. ~ Ended(gen.a) /\ ~ Ended(gen.b) BY <2>3 DEF Uncounted
    <3>2. PICK x, n, ra, rb, h, items :
                 /\ x = One(gen.a) /\ n = One(gen.b) /\ ra = Past(gen.a) /\ rb = Past(gen.b)
                 /\ h = ReadCounted /\ items = IF op = "stutter" THEN <<>> ELSE <<x>>
      OBVIOUS
    <3>3. Write(items, h) \/ ApplyThrows(h) \/ Escape(<<>>)
      BY <1>1, <1>4, <1>8, <2>3, <3>2 DEF Stutter, Spread, Turn, Filling, Remember
    <3>4. IsReader(ra) /\ IsReader(rb) BY <1>5, <3>1, <3>2, OneRead
    <3>5. /\ ~ IsConstant(ra) /\ n \in Int /\ Counts(rb) /\ a = <<x>> \o ToRead(ra)
      BY <1>4, <1>5, <3>1, <3>2, CountedRead
    <3>6. PICK a1, b1, t1 : /\ a1 = ToRead(ra) /\ b1 = Seen(rb, Len(a1))
                            /\ t1 = PaddedItems(op, a1, b1)
      OBVIOUS
    <3>7. /\ IsList(a1) /\ IsList(b1) /\ \A j \in 1 .. Len(b1) : b1[j] \in Int
          /\ b = <<n>> \o b1
      BY <1>4, <1>5, <3>1, <3>2, <3>6, CountedRead
    <3>8. h = Gen(gen.op, n, x, gen.other, gen.done, ra, rb, gen.stack, gen.state)
      BY <1>3, <3>2 DEF ReadCounted, IsGen, Gen
    <3>9. /\ IsGen(h, given.op) /\ h.n = n /\ h.held = x /\ h.a = ra /\ h.b = rb
          /\ h.done = gen.done
      BY <1>3, <3>4, <3>5, <3>8, GenWith, GenMembers
    <3>10. CASE ApplyThrows(h) BY <1>1, <3>9, <3>10, IsThrown
    <3>11. CASE Write(items, h)
      <4>1. PICK v1, y, p : /\ v1 = IF op = "stutter" THEN x ELSE 0
                            /\ p = Repeated(v1, n) /\ y = p \o t1
        OBVIOUS
      <4>2. IsList(p) BY <3>5, <4>1, RepeatedIs
      <4>3. /\ IsList(Stuttered(a1, b1)) /\ IsList(Apart(a1, b1))
            /\ Stuttered(<<x>> \o a1, <<n>> \o b1) = Repeated(x, n) \o Stuttered(a1, b1)
            /\ Apart(<<x>> \o a1, <<n>> \o b1) = (<<x>> \o Repeated(0, n)) \o Apart(a1, b1)
        BY <3>5, <3>7, StutteredMore, ApartMore
      <4>4. IsList(t1) BY <3>6, <4>3 DEF PaddedItems
      <4>5. IsList(p \o t1) BY ONLY <4>2, <4>4, ListConcat
      <4>6. IsList(items) /\ Len(items) <= 1 /\ Len(items) \in Nat
        BY <3>2, ListEmpty, ListOne
      <4>7. z = items \o y
        <5>1. CASE op = "stutter"
          <6>1. z = y BY <1>4, <2>1, <3>5, <3>6, <3>7, <4>1, <4>3, <5>1 DEF PaddedItems
          <6> QED BY <1>3, <3>2, <5>1, <6>1, JoinedToNone
        <5>2. CASE op # "stutter"
          <6>1. z = (<<x>> \o p) \o t1
            BY <1>4, <2>1, <3>5, <3>6, <3>7, <4>1, <4>3, <5>2 DEF PaddedItems
          <6>2. items = <<x>> BY <3>2, <5>2
          <6> QED BY <4>1, <4>2, <4>4, <4>6, <6>1, <6>2, JoinedAgain
        <5> QED BY <5>1, <5>2
      <4>8. PICK l, w : l = left - Len(items) /\ w = Len(Written) + Len(items) OBVIOUS
      <4>9. y = Repeated(PaddedBy(h), h.n) \o PaddedItems(op, ToRead(h.a), Seen(h.b, Len(ToRead(h.a))))
        BY <1>5, <3>6, <3>9, <4>1 DEF PaddedBy, IsGen
      <4>10. Goes(given, h, l, w, y)
        BY <1>5, <3>5, <3>9, <4>9 DEF Goes, MembersOK, GoesOn, PaddedBy, PaddedItems, IsGen
      <4>11. Len(items) <= left /\ ~ h.done BY <1>1, <1>2, <3>9, <4>6
      <4> QED BY <1>1, <1>3, <3>11, <4>1, <4>5, <4>6, <4>7, <4>8, <4>10, <4>11, PieceWritten
    <3>12. CASE Escape(<<>>) BY <1>1, <1>3, <3>12, NothingWritten
    <3> QED BY <3>3, <3>10, <3>11, <3>12
  <2> QED BY <2>2, <2>3
<1> QED BY <1>7, <1>8

-----------------------------------------------------------------------------
(* The words that pass on arrays.                                          *)

LEMMA PassGoes ==
  ASSUME GivenOK, PiecesOK, ~ pulling, ~ ended, NEW array, NEW g, Pass(array, g), IsList(array),
         NEW z, PromiseOf(given) = Written \o z, NEW y, IsList(y), z = array \o y,
         IF g.done THEN y = <<>>
         ELSE Goes(given, g, 0, Len(Written) + Len(array), y)
  PROVE  (GivenOK /\ PiecesOK /\ RemainsOK)'
<1>1. /\ out' = Append(out, array) /\ gen' = g
      /\ given' = given /\ blockSize' = blockSize /\ pulling' = pulling /\ left' = left
      /\ block' = block /\ ended' = ended /\ threw' = threw
  BY DEF Pass, fixed
<1>2. block = <<>> /\ left = 0 /\ Arrays(out) /\ IsList(block) /\ threw \notin Broken
  BY DEF PiecesOK
<1>3. Written = FlattenSeq(out) /\ IsList(Written) BY <1>2, WrittenAre
<1>4. Arrays(out') /\ FlattenSeq(out') = FlattenSeq(out) \o array BY <1>1, <1>2, FlattenedAppend
<1>5. IsList(FlattenSeq(out')) BY <1>4, FlattenedIsList
<1>6. Written' = Written \o array BY <1>1, <1>2, <1>3, <1>4, <1>5, JoinedToNone DEF Written
<1>7. PromiseOf(given) = Written' \o y
  <2>1. (Written \o array) \o y = Written \o (array \o y) BY <1>3, JoinedAgain, SMTT(30)
  <2> QED BY <1>6, <2>1
<1>8. Len(Written') = Len(Written) + Len(array)
  <2>1. PICK w : w = Written OBVIOUS
  <2>2. IsList(w) /\ IsList(array) BY <1>3, <2>1
  <2>3. Len(w \o array) = Len(w) + Len(array) BY ONLY <2>2, ListConcat
  <2> QED BY <1>6, <2>1, <2>3
<1>9. RemainsOK'
  <2>1. IF gen'.done \/ ended' \/ threw' \in Broken
        THEN threw' \notin {"no", "again"} \/ given'.op = "take" \/ y = <<>>
        ELSE Goes(given', gen', left', Len(Written'), y)
    BY <1>1, <1>2, <1>8
  <2> QED BY <1>1, <1>7, <2>1 DEF RemainsOK
<1>10. GivenOK' /\ PiecesOK' BY <1>1, <1>4 DEF GivenOK, PiecesOK
<1> QED BY <1>9, <1>10

LEMMA NextArray ==
  ASSUME NEW r, IsReader(r), r.offset = 0, r.nodes # <<>>, NEW s,
         s = [r EXCEPT !.nodes = Tail(@)]
  PROVE  /\ IsReader(s) /\ s.offset = 0 /\ ~ IsConstant(s) /\ ~ IsConstant(r)
         /\ IsList(r.nodes[1]) /\ ToRead(r) = r.nodes[1] \o ToRead(s)
<1>1. ~ IsConstant(r) BY DEF IsReader
<1>2. Arrays(r.nodes) /\ IsList(r.nodes) BY DEF IsReader, Arrays
<1>3. Len(r.nodes) \in Nat /\ Len(r.nodes) > 0 BY <1>2, ListIs, NoItems
<1>4. Arrays(Tail(r.nodes)) /\ FlattenSeq(r.nodes) = r.nodes[1] \o FlattenSeq(Tail(r.nodes))
  BY <1>2, <1>3, FlattenedTail
<1>5. IsList(r.nodes[1]) BY <1>2, <1>3 DEF Arrays
<1>6. /\ s = [nodes |-> Tail(r.nodes), offset |-> 0, constant |-> r.constant]
  BY DEF IsReader
<1>7. ~ IsConstant(s) /\ s.nodes = Tail(r.nodes) /\ s.offset = 0 BY <1>1, <1>6 DEF IsConstant
<1>8. IsReader(s) BY <1>4, <1>6, <1>7 DEF IsReader
<1>9. ToRead(r) = FlattenSeq(r.nodes) /\ ToRead(s) = FlattenSeq(s.nodes) BY <1>7, <1>8, ToReadIs
<1> QED BY <1>1, <1>4, <1>5, <1>7, <1>8, <1>9

(* A walker whose generator g goes on to its next array. *)
LEMMA NextArrayPassed ==
  ASSUME GivenOK, PiecesOK, ~ pulling, ~ ended, NEW g, IsGen(g, given.op),
         MembersOK(given, g, 0, Len(Written)), given.op \in {"ncyc", "append", "add"},
         g.a.nodes # <<>>, ~ g.done, NEW z, IsList(z), PromiseOf(given) = Written \o z,
         GoesOn(given, g, 0, Len(Written), z),
         Pass(g.a.nodes[1], [g EXCEPT !.a.nodes = Tail(@)])
  PROVE  (GivenOK /\ PiecesOK /\ RemainsOK)'
<1>1. PICK s, h, array : /\ s = [g.a EXCEPT !.nodes = Tail(@)] /\ h = [g EXCEPT !.a = s]
                         /\ array = g.a.nodes[1]
  OBVIOUS
<1>2. Pass(array, h) BY <1>1 DEF IsGen, Gen
<1>3. IsReader(g.a) /\ IsReader(g.b) /\ g.n \in Int /\ g.a.offset = 0 /\ g.op = given.op
  BY DEF IsGen, MembersOK
<1>4. /\ IsReader(s) /\ s.offset = 0 /\ ~ IsConstant(s)
      /\ IsList(array) /\ ToRead(g.a) = array \o ToRead(s)
  BY <1>1, <1>3, NextArray
<1>5. h = Gen(g.op, g.n, g.held, g.other, g.done, s, g.b, g.stack, g.state)
  BY <1>1 DEF IsGen, Gen
<1>6. IsGen(h, given.op) /\ h.n = g.n /\ h.a = s /\ h.b = g.b /\ h.done = g.done
  BY <1>3, <1>4, <1>5, GenWith, GenMembers
<1>7. PICK x, rest : /\ x = ToRead(s)
                     /\ rest = IF given.op = "ncyc" THEN Times(ListA(given), g.n - 1)
                               ELSE IF given.op = "append" THEN ToRead(given.b)
                               ELSE <<given.n>>
  OBVIOUS
<1>8. z = (array \o x) \o rest BY <1>4, <1>7 DEF GoesOn
<1>9. IsList(x) /\ IsList(rest)
  <2>1. CASE given.op = "ncyc"
    <3>1. PICK n : n = g.n - 1 OBVIOUS
    <3>2. n \in Nat BY <1>3, <2>1, <3>1 DEF MembersOK
    <3>3. IsList(ListA(given)) BY ListsAre
    <3>4. IsList(Times(ListA(given), n)) BY <3>2, <3>3, TimesMore
    <3> QED BY <1>4, <1>7, <2>1, <3>1, <3>4, ToReadIs
  <2>2. CASE given.op = "append" BY <1>4, <1>7, <2>2, InputsAre, ToReadIs
  <2>3. CASE given.op = "add"
    <3>1. rest = <<given.n>> BY <1>7, <2>3
    <3>2. IsList(<<given.n>>) BY ListOne
    <3> QED BY <1>4, <1>7, <3>1, <3>2, ToReadIs
  <2> QED BY <2>1, <2>2, <2>3
<1>10. PICK y : y = x \o rest OBVIOUS
<1>11. IsList(x \o rest) BY ONLY <1>9, ListConcat
<1>12. z = array \o y
  <2>1. IsList(array) /\ IsList(x) /\ IsList(rest) BY <1>4, <1>9
  <2>2. (array \o x) \o rest = array \o (x \o rest) BY ONLY <2>1, JoinedAgain
  <2> QED BY <1>8, <1>10, <2>2
<1>13. PICK w : w = Len(Written) + Len(array) OBVIOUS
<1>14. Goes(given, h, 0, w, y)
  <2>1. MembersOK(given, h, 0, w) BY <1>4, <1>6, SMTT(30) DEF MembersOK
  <2>2. GoesOn(given, h, 0, w, y) BY <1>6, <1>7, <1>10 DEF GoesOn
  <2> QED BY <1>6, <2>1, <2>2 DEF Goes
<1> QED BY <1>2, <1>4, <1>6, <1>10, <1>11, <1>12, <1>13, <1>14, PassGoes

LEMMA WalkGoes ==
  ASSUME GivenOK, PiecesOK, RemainsOK, given.op \in Exact, Walk
  PROVE  (GivenOK /\ PiecesOK /\ RemainsOK)'
<1>1. ~ pulling /\ ~ ended /\ ~ gen.done BY DEF Walk, MayForce
<1>2. left = 0 /\ threw \notin Broken BY <1>1 DEF PiecesOK
<1>3. PICK z : /\ IsList(z) /\ PromiseOf(given) = Written \o z
               /\ IsGen(gen, given.op) /\ gen.op = given.op
               /\ MembersOK(given, gen, 0, Len(Written))
               /\ GoesOn(given, gen, 0, Len(Written), z)
  BY <1>1, <1>2, GoesNow
<1>4. given.op \in {"ncyc", "append", "add"} BY <1>3 DEF Walk, Walkers, Exact
<1>5. IsReader(gen.a) /\ IsReader(gen.b) /\ gen.n \in Int /\ gen.a.offset = 0
  BY <1>3, <1>4 DEF IsGen, MembersOK
<1>6. PICK nodes : nodes = gen.a.nodes OBVIOUS
<1>7. FlattenSeq(nodes) = ToRead(gen.a) /\ Arrays(nodes) BY <1>5, <1>6, ToReadIs DEF IsReader
<1>8. nodes = <<>> => ToRead(gen.a) = <<>> BY <1>7, FlattenedEmpty
<1>9. CASE nodes # <<>> /\ Pass(nodes[1], [gen EXCEPT !.a.nodes = Tail(@)])
  BY <1>1, <1>3, <1>4, <1>6, <1>9, NextArrayPassed
<1>10. CASE given.op = "ncyc"
  <2>1. CASE nodes # <<>> BY <1>3, <1>6, <1>9, <1>10, <2>1 DEF Walk
  <2>2. CASE nodes = <<>> /\ gen.n <= 1
    <3>1. End BY <1>3, <1>6, <1>10, <2>2 DEF Walk
    <3>2. gen.n = 1 BY <1>3, <1>5, <1>10, <2>2 DEF MembersOK
    <3>3. PICK n : n = gen.n - 1 OBVIOUS
    <3>4. n = 0 /\ 0 \in Nat BY <3>2, <3>3
    <3>5. Times(ListA(given), n) = <<>> BY <3>4, ListsAre, TimesMore
    <3>6. z = <<>> \o <<>> BY <1>3, <1>8, <1>10, <2>2, <3>3, <3>5 DEF GoesOn
    <3>7. z = <<>> BY <3>6, ListEmpty, JoinedToNone
    <3> QED BY <1>1, <1>3, <3>1, <3>7, ListEnds
  <2>3. CASE nodes = <<>> /\ ~ (gen.n <= 1)
    <3>1. PICK n, g : n = gen.n - 1 /\ g = [[gen EXCEPT !.a = given.a] EXCEPT !.n = @ - 1] OBVIOUS
    <3>2. Pass(g.a.nodes[1], [g EXCEPT !.a.nodes = Tail(@)])
      BY <1>3, <1>6, <1>10, <2>3, <3>1 DEF Walk
    <3>3. n \in Nat /\ n > 0 /\ n - 1 \in Nat /\ n \in Int BY <1>5, <2>3, <3>1
    <3>4. /\ IsReader(given.a) /\ given.a.offset = 0 /\ ~ IsConstant(given.a)
          /\ given.a.nodes # <<>>
      BY <1>10, InputsAre
    <3>5. g = Gen(gen.op, n, gen.held, gen.other, gen.done, given.a, gen.b, gen.stack, gen.state)
      BY <1>3, <3>1 DEF IsGen, Gen
    <3>6. IsGen(g, given.op) /\ g.n = n /\ g.a = given.a /\ g.done = gen.done
      BY <1>3, <1>5, <3>3, <3>4, <3>5, GenWith, GenMembers
    <3>7. PICK a : a = ListA(given) OBVIOUS
    <3>8. IsList(a) /\ a = ToRead(given.a) BY <3>7, ListsAre
    <3>9. Times(a, n) = a \o Times(a, n - 1) /\ IsList(Times(a, n)) BY <3>3, <3>8, TimesMore
    <3>10. z = <<>> \o Times(a, n) BY <1>3, <1>8, <1>10, <2>3, <3>1, <3>7 DEF GoesOn
    <3>11. z = a \o Times(a, n - 1) BY <3>9, <3>10, JoinedToNone
    <3>12. GoesOn(given, g, 0, Len(Written), z) BY <1>10, <3>6, <3>7, <3>8, <3>11 DEF GoesOn
    <3>13. MembersOK(given, g, 0, Len(Written)) BY <1>10, <3>3, <3>4, <3>6 DEF MembersOK
    <3> QED BY <1>1, <1>3, <1>4, <3>2, <3>4, <3>6, <3>12, <3>13, NextArrayPassed
  <2> QED BY <2>1, <2>2, <2>3
<1>11. CASE given.op = "append"
  <2>1. CASE nodes # <<>> BY <1>3, <1>6, <1>9, <1>11, <2>1 DEF Walk
  <2>2. CASE nodes = <<>> /\ Linked(gen.b.nodes) /\ UNCHANGED <<fixed, gen, pulling, left, block, threw>>
    <3>1. PICK rest : rest = given.b.nodes OBVIOUS
    <3>2. /\ ended' = TRUE /\ out' = out \o rest /\ pulling' = pulling /\ left' = left
          /\ block' = block /\ threw' = threw /\ given' = given /\ blockSize' = blockSize
      BY <1>3, <1>11, <2>2, <3>1 DEF Linked, fixed, MembersOK
    <3>3. IsReader(given.b) /\ ToRead(given.b) = FlattenSeq(rest) /\ Arrays(rest)
      BY <3>1, InputsAre, ToReadIs DEF IsReader
    <3>4. IsList(FlattenSeq(rest)) BY <3>3, FlattenedIsList
    <3>5. z = FlattenSeq(rest) BY <1>3, <1>8, <1>11, <2>2, <3>3, <3>4, JoinedToNone DEF GoesOn
    <3>6. block = <<>> /\ Arrays(out) BY <1>1 DEF PiecesOK
    <3>7. Arrays(out \o rest) BY <3>3, <3>6, ArraysConcat
    <3>8. FlattenSeq(out \o rest) = FlattenSeq(out) \o FlattenSeq(rest)
      BY <3>3, <3>6, FlattenedConcat
    <3>9. Written = FlattenSeq(out) BY <3>6, FlattenedIsList, JoinedToNone DEF Written
    <3>10. IsList(FlattenSeq(out \o rest)) BY <3>7, FlattenedIsList
    <3>11. Written' = Written \o z
      BY <3>2, <3>5, <3>6, <3>8, <3>9, <3>10, JoinedToNone DEF Written
    <3>12. IsList(Written') BY <3>2, <3>6, <3>10, JoinedToNone DEF Written
    <3>13. PromiseOf(given) = Written' \o <<>> BY <1>3, <3>11, <3>12, JoinedToNone
    <3>14. RemainsOK' BY <3>2, <3>13, ListEmpty DEF RemainsOK
    <3>15. GivenOK' /\ PiecesOK' BY <1>1, <3>2, <3>7 DEF GivenOK, PiecesOK
    <3> QED BY <3>14, <3>15
  <2>3. CASE nodes = <<>> /\ IsConstant(gen.b) /\ End
    <3>1. IsReader(given.b) /\ given.b.offset = 0 /\ given.b.nodes = <<>>
      BY <1>3, <1>11, <2>3, InputsAre DEF MembersOK
    <3>2. ToRead(given.b) = <<>> BY <3>1, FlattenedEmpty, ToReadIs
    <3>3. z = <<>> \o <<>> BY <1>3, <1>8, <1>11, <2>3, <3>2 DEF GoesOn
    <3>4. z = <<>> BY <3>3, ListEmpty, JoinedToNone
    <3> QED BY <1>1, <1>3, <2>3, <3>4, ListEnds
  <2>4. CASE threw' = "again" /\ UNCHANGED <<fixed, gen, pulling, left, block, out, ended>>
    <3>1. /\ given' = given /\ blockSize' = blockSize /\ gen' = gen /\ pulling' = pulling
          /\ left' = left /\ block' = block /\ out' = out /\ ended' = ended
          /\ threw' \notin Broken
      BY <2>4 DEF fixed, Broken
    <3>2. Written' = Written BY <3>1 DEF Written
    <3>3. Goes(given, gen, 0, Len(Written), z) BY <1>3 DEF Goes
    <3>4. RemainsOK' BY <1>1, <1>2, <1>3, <3>1, <3>2, <3>3 DEF RemainsOK
    <3>5. GivenOK' /\ PiecesOK' BY <3>1 DEF GivenOK, PiecesOK
    <3> QED BY <3>4, <3>5
  <2>5. nodes = <<>> =>
          \/ IsConstant(gen.b) /\ End
          \/ Linked(gen.b.nodes) /\ UNCHANGED <<fixed, gen, pulling, left, block, threw>>
          \/ threw' = "again" /\ UNCHANGED <<fixed, gen, pulling, left, block, out, ended>>
    BY <1>3, <1>6, <1>11 DEF Walk
  <2> QED BY <2>1, <2>2, <2>3, <2>4, <2>5
<1>12. CASE given.op = "add"
  <2>1. CASE nodes \notin {<<>>, << <<>> >>} BY <1>3, <1>6, <1>9, <1>12, <2>1 DEF Walk
  <2>2. CASE nodes \in {<<>>, << <<>> >>}
    <3>1. PICK n, g : n = given.n /\ g = [gen EXCEPT !.done = TRUE] OBVIOUS
    <3>2. Pass(<<n>>, g) BY <1>3, <1>6, <1>12, <2>2, <3>1 DEF Walk, Fill
    <3>3. g.done BY <1>3, <3>1 DEF IsGen, Gen
    <3>4. ToRead(gen.a) = <<>>
      <4>1. CASE nodes = <<>> BY <1>8, <4>1
      <4>2. CASE nodes = << <<>> >>
        <5>1. FlattenSeq(<< <<>> >>) = <<>> BY ListEmpty, FlattenedOne
        <5> QED BY <1>7, <4>2, <5>1
      <4> QED BY <2>2, <4>1, <4>2
    <3>5. IsList(<<n>>) BY ListOne
    <3>6. z = <<>> \o <<n>> BY <1>3, <1>12, <3>1, <3>4 DEF GoesOn
    <3>7. <<>> \o <<n>> = <<n>> /\ <<n>> \o <<>> = <<n>> BY <3>5, JoinedToNone
    <3>8. z = <<n>> \o <<>> BY <3>6, <3>7
    <3> QED BY <1>1, <1>3, <3>2, <3>3, <3>5, <3>8, ListEmpty, PassGoes
  <2> QED BY <2>1, <2>2
<1> QED BY <1>4, <1>10, <1>11, <1>12

LEMMA PullGoes ==
  ASSUME GivenOK, PiecesOK, RemainsOK, given.op \in Exact, Pull
  PROVE  (GivenOK /\ PiecesOK /\ RemainsOK)'
<1>1. ~ pulling /\ ~ ended /\ ~ gen.done BY DEF Pull, MayForce
<1>2. left = 0 /\ block = <<>> /\ threw \notin Broken BY <1>1 DEF PiecesOK
<1>3. PICK z : /\ IsList(z) /\ PromiseOf(given) = Written \o z
               /\ IsGen(gen, given.op) /\ gen.op = given.op
               /\ MembersOK(given, gen, 0, Len(Written))
               /\ GoesOn(given, gen, 0, Len(Written), z)
  BY <1>1, <1>2, GoesNow
<1>4. given.op \notin {"ncyc", "append", "add"} BY <1>3 DEF Pull, Walkers
<1>5. IsReader(gen.a) /\ IsReader(gen.b) /\ gen.n \in Int BY <1>3 DEF IsGen
<1>6. blockSize \in Nat /\ blockSize > 0
  <2>1. blockSize \in Nat \ {0} BY InputsAre
  <2> QED BY <2>1
<1>7. PICK f : f = ToFill OBVIOUS
<1>8. /\ given.op \in {"keep", "take"} => f = Smaller(gen.n, blockSize)
      /\ given.op \notin {"keep", "take"} => f = blockSize
  BY <1>3, <1>7 DEF ToFill
<1>9. f \in Int /\ f <= blockSize /\ (given.op \in {"keep", "take"} => f <= gen.n)
  BY <1>5, <1>6, <1>8 DEF Smaller
<1>10. CASE f <= 0
  <2>1. End BY <1>7, <1>10 DEF Pull
  <2>2. given.op \in {"keep", "take"} BY <1>6, <1>8, <1>10
  <2>3. given.op = "keep" => z = <<>>
    <3>1. ASSUME given.op = "keep" PROVE z = <<>>
      <4>1. gen.n \in Nat BY <1>3, <3>1 DEF MembersOK
      <4>2. gen.n = 0 BY <1>6, <1>8, <1>10, <3>1, <4>1 DEF Smaller
      <4>3. PICK m : m = gen.n + 0 OBVIOUS
      <4>4. m = 0 BY <4>2, <4>3
      <4>5. z = FirstOf(ToRead(gen.a), m) BY <1>3, <3>1, <4>3 DEF GoesOn
      <4> QED BY <1>5, <4>4, <4>5, ToReadIs, FirstOfNone
    <3> QED BY <3>1
  <2> QED BY <1>1, <1>3, <2>1, <2>2, <2>3, ListEnds
<1>11. CASE ~ (f <= 0)
  <2>1. PICK n, g : /\ n = IF given.op = "keep" THEN gen.n - f ELSE gen.n
                    /\ g = IF given.op = "keep" THEN [gen EXCEPT !.n = @ - f] ELSE gen
    OBVIOUS
  <2>2. /\ pulling' = TRUE /\ left' = f /\ block' = <<>> /\ gen' = g /\ given' = given
        /\ blockSize' = blockSize /\ out' = out /\ ended' = ended /\ threw' = threw
    BY <1>3, <1>7, <1>11, <2>1 DEF Pull, fixed
  <2>3. n \in Int /\ f \in Nat BY <1>5, <1>9, <1>11, <2>1
  <2>4. g = Gen(gen.op, n, gen.held, gen.other, gen.done, gen.a, gen.b, gen.stack, gen.state)
    BY <1>3, <2>1 DEF IsGen, Gen
  <2>5. /\ IsGen(g, given.op) /\ g.n = n /\ g.held = gen.held /\ g.a = gen.a /\ g.b = gen.b
        /\ g.done = gen.done
    BY <1>3, <1>5, <2>3, <2>4, GenWith, GenMembers
  <2>6. PICK w : w = Len(Written) OBVIOUS
  <2>7. Written' = Written BY <1>2, <2>2 DEF Written
  <2>8. w \in Nat BY <2>6, WrittenAre DEF PiecesOK
  <2>9. MembersOK(given, g, f, w)
    <3>1. given.op = "keep" => g.n \in Nat
      <4>1. given.op = "keep" => gen.n \in Nat BY <1>3 DEF MembersOK
      <4> QED BY <1>9, <2>1, <2>3, <2>5, <4>1
    <3>2. given.op = "take" => g.n + w <= given.n /\ f + w <= given.n
      <4>1. given.op = "take" => gen.n + w <= given.n BY <1>3, <2>6 DEF MembersOK
      <4>2. given.n \in Nat BY InputsAre
      <4> QED BY <1>5, <1>9, <2>1, <2>3, <2>5, <2>8, <4>1, <4>2
    <3> QED BY <1>3, <1>4, <2>5, <3>1, <3>2 DEF MembersOK, HoldsLast
  <2>10. GoesOn(given, g, f, w, z)
    <3>1. given.op = "keep" => z = FirstOf(ToRead(g.a), g.n + f)
      <4>1. given.op = "keep" => z = FirstOf(ToRead(gen.a), gen.n + 0) BY <1>3 DEF GoesOn
      <4>2. given.op = "keep" => gen.n + 0 = g.n + f BY <1>5, <2>1, <2>3, <2>5
      <4> QED BY <2>5, <4>1, <4>2
    <3> QED BY <1>3, <1>4, <2>1, <2>5, <2>6, <3>1 DEF GoesOn
  <2>11. Goes(given', gen', left', Len(Written'), z)
    BY <2>2, <2>5, <2>6, <2>7, <2>9, <2>10 DEF Goes
  <2>12. RemainsOK'
    <3>1. ~ (gen'.done \/ ended' \/ threw' \in Broken) BY <1>1, <1>2, <2>2, <2>5
    <3>2. PromiseOf(given') = Written' \o z BY <1>3, <2>2, <2>7
    <3> QED BY <1>3, <2>11, <3>1, <3>2 DEF RemainsOK
  <2>13. GivenOK' /\ PiecesOK' BY <1>1, <2>2, <2>3, ListEmpty DEF GivenOK, PiecesOK
  <2> QED BY <2>12, <2>13
<1> QED BY <1>10, <1>11

-----------------------------------------------------------------------------
(* take, when no piece is shorter than what is left of the block.          *)

TakesWhole ==
  given.op = "take" /\ OnePiece =>
    LET w == Len(Written)
    IN  IF gen.done \/ ended THEN w = given.n
        ELSE /\ gen.n + w = given.n
             /\ w = 0 \/ ListA(given) = <<>> => gen.a = given.a
             /\ left > 0 /\ ~ Ended(gen.a) => Count(gen.a, left) = left
             /\ blockSize = 1 \/ ListA(given) = <<>>
                  \/ /\ blockSize >= given.n /\ Len(given.a.nodes[1]) >= given.n
                     /\ gen.n = 0 \/ w = 0
                     /\ left > 0 => left = gen.n

LEMMA WholeArray ==
  ASSUME NEW r, IsReader(r), r.offset = 0, ~ IsConstant(r), ToRead(r) # <<>>, NEW n \in Nat,
         n > 0, Len(r.nodes[1]) >= n
  PROVE  Count(r, n) = n
<1>1. /\ IsList(r.nodes) /\ Arrays(r.nodes) /\ Len(r.nodes) \in Nat
      /\ r = [nodes |-> r.nodes, offset |-> r.offset, constant |-> r.constant]
  BY ListIs DEF IsReader, Arrays
<1>2. Len(r.nodes) # 0
  <2>1. r.nodes # <<>> BY FlattenedEmpty, ToReadIs
  <2> QED BY <1>1, <2>1, NoItems
<1>3. 1 \in 1 .. Len(r.nodes) /\ r.nodes[1] # <<>> BY <1>1, <1>2, ListEmpty
<1>4. PICK I : I = {i \in 1 .. Len(r.nodes) : r.nodes[i] # <<>>} OBVIOUS
<1>5. 1 \in I /\ \A j \in I : j \in Int /\ 1 <= j BY <1>1, <1>3, <1>4
<1>6. Min(I) = 1
  <2>1. \A x \in I : (\A y \in I : x <= y) => x = 1 BY <1>5
  <2> QED BY <1>5, <2>1 DEF Min
<1>7. SelectInSeq(r.nodes, LAMBDA array : array # <<>>) = 1
  BY <1>4, <1>5, <1>6 DEF SelectInSeq
<1>8. PICK t : t = SubSeq(r.nodes, 1, Len(r.nodes)) OBVIOUS
<1>9. t[1] = r.nodes[1] BY <1>1, <1>3, <1>8, ArraysSplit
<1>10. AtItems(r) = [r EXCEPT !.nodes = t] BY <1>7, <1>8 DEF AtItems
<1>11. AtItems(r).nodes = t BY <1>1, <1>10
<1>12. PICK x : x = r.nodes[1] OBVIOUS
<1>13. Len(x) \in Nat BY <1>1, <1>3, <1>12, ListIs DEF Arrays
<1>14. Count(r, n) = Smaller(n, Len(x) - 0) BY <1>9, <1>11, <1>12 DEF Count
<1> QED BY <1>12, <1>13, <1>14 DEF Smaller

LEMMA TakeIs ==
  ASSUME GivenOK, PiecesOK, RemainsOK, given.op = "take"
  PROVE  /\ given.n \in Nat /\ Len(Written) \in Nat /\ left \in Nat
         /\ blockSize \in Nat \ {0}
         /\ ~ gen.done /\ ~ ended /\ threw \notin Broken =>
              /\ IsGen(gen, "take") /\ gen.op = "take" /\ IsReader(gen.a) /\ gen.n \in Int
              /\ ~ IsConstant(gen.a) /\ left + Len(Written) <= given.n
<1>1. Len(Written) \in Nat /\ left \in Nat BY WrittenAre DEF PiecesOK
<1>2. ASSUME ~ gen.done /\ ~ ended /\ threw \notin Broken
      PROVE  /\ IsGen(gen, "take") /\ gen.op = "take"
             /\ ~ IsConstant(gen.a) /\ left + Len(Written) <= given.n
  BY <1>2, GoesNow DEF MembersOK
<1> QED BY <1>1, <1>2, InputsAre DEF IsGen

LEMMA TakesWholeAtOnce ==
  ASSUME GivenOK, PiecesOK, RemainsOK, given.op = "take", OnePiece, TakesWhole, Take
  PROVE  TakesWhole'
<1>1. /\ pulling /\ left > 0 /\ ~ gen.done /\ gen.op = "take" /\ left \in Nat
      /\ threw \notin Broken
  BY TakeIs DEF Take, Turn, Filling
<1>2. ~ ended BY <1>1 DEF PiecesOK
<1>3. PICK w, N : w = Len(Written) /\ N = given.n OBVIOUS
<1>4. /\ N \in Nat /\ w \in Nat /\ gen.n \in Int /\ IsReader(gen.a) /\ ~ IsConstant(gen.a)
      /\ IsGen(gen, "take") /\ left + w <= N
  BY <1>1, <1>2, <1>3, TakeIs
<1>5. /\ gen.n + w = N
      /\ w = 0 \/ ListA(given) = <<>> => gen.a = given.a
      /\ ~ Ended(gen.a) => Count(gen.a, left) = left
      /\ blockSize = 1 \/ ListA(given) = <<>>
           \/ /\ blockSize >= N /\ Len(given.a.nodes[1]) >= N
              /\ gen.n = 0 \/ w = 0
              /\ left = gen.n
  BY <1>1, <1>2, <1>3 DEF TakesWhole
<1>6. CASE Ended(gen.a)
  <2>1. ProduceAndLink(<<>>, <<Zeros(gen.n)>>) BY <1>6 DEF Take
  <2>2. PICK m : m = IF gen.n > 0 THEN gen.n ELSE 0 OBVIOUS
  <2>3. PICK s : s = Repeated(0, m) OBVIOUS
  <2>4. Written' = Written \o s /\ IsList(s) BY <1>4, <2>1, <2>2, <2>3, ZerosLinked
  <2>5. m \in Nat /\ w + m = N BY <1>1, <1>4, <1>5, <2>2
  <2>6. Len(s) = m BY <2>3, <2>5, RepeatedIs
  <2>7. IsList(Written) BY WrittenAre DEF PiecesOK
  <2>8. Len(Written \o s) = Len(Written) + Len(s) BY ONLY <2>4, <2>7, ListConcat
  <2>9. Len(Written') = N BY <1>3, <2>4, <2>5, <2>6, <2>8
  <2>10. ended' = TRUE /\ given' = given BY <2>1 DEF ProduceAndLink, fixed
  <2> QED BY <1>3, <2>9, <2>10 DEF TakesWhole
<1>7. CASE ~ Ended(gen.a)
  <2>1. PICK k, items, r, g :
               /\ k = Count(gen.a, left) /\ items = Items(gen.a, k) /\ r = Advance(gen.a, k)
               /\ g = [gen EXCEPT !.a = r, !.n = @ - left]
    OBVIOUS
  <2>2. Write(items, g) BY <1>7, <2>1 DEF Take
  <2>3. k = left /\ k \in 0 .. Count(gen.a, left) BY <1>1, <1>5, <1>7, <2>1
  <2>4. IsList(Items(gen.a, k)) /\ Len(Items(gen.a, k)) = k BY <1>1, <1>4, <1>7, <2>3, PieceRead
  <2>5. /\ block' = block \o items /\ left' = left - Len(items) /\ gen' = g
        /\ given' = given /\ blockSize' = blockSize /\ out' = out /\ ended' = ended
    BY <2>2 DEF Write, fixed
  <2>6. left' = 0
    <3>1. Len(items) = left BY <2>1, <2>3, <2>4
    <3> QED BY <1>1, <2>5, <3>1
  <2>7. Len(Written') = w + left
    <3>1. IsList(block) /\ Arrays(out) BY DEF PiecesOK
    <3>2. FlattenSeq(out) \o (block \o items) = Written \o items /\ IsList(Written)
      BY <2>1, <2>4, <3>1, WrittenAre
    <3>3. Written' = Written \o items BY <2>5, <3>2 DEF Written
    <3>4. PICK o : o = Written OBVIOUS
    <3>5. IsList(o) /\ IsList(items) BY <2>1, <2>4, <3>2, <3>4
    <3>6. Len(o \o items) = Len(o) + Len(items) BY ONLY <3>5, ListConcat
    <3> QED BY <1>3, <2>1, <2>3, <2>4, <3>3, <3>4, <3>6
  <2>8. gen'.n = gen.n - left /\ gen'.done = gen.done
    BY <1>4, <2>1, <2>5 DEF IsGen, Gen
  <2>9. gen'.n + (w + left) = N /\ w + left # 0 /\ w + left \in Nat
    BY <1>1, <1>4, <1>5, <2>8
  <2>10. ListA(given) # <<>>
    <3>1. ASSUME ListA(given) = <<>> PROVE FALSE
      <4>1. ToRead(gen.a) = <<>> BY <1>5, <3>1, ListsAre
      <4>2. PICK x, y : x = Items(gen.a, k) /\ y = ToRead(Advance(gen.a, k)) OBVIOUS
      <4>3. IsList(x) /\ IsList(y) /\ Len(x) = k /\ ToRead(gen.a) = x \o y
        BY <1>1, <1>4, <1>7, <2>3, <4>2, PieceRead
      <4>4. Len(x \o y) = Len(x) + Len(y) BY ONLY <4>3, ListConcat
      <4>5. Len(y) \in Nat BY <4>3, ListIs
      <4> QED BY <1>1, <2>3, <4>1, <4>3, <4>4, <4>5, ListEmpty
    <3> QED BY <3>1
  <2>11. blockSize' = 1 \/ (/\ blockSize' >= N /\ Len(given'.a.nodes[1]) >= N
                            /\ gen'.n = 0)
    BY <1>4, <1>5, <2>5, <2>8, <2>10
  <2>12. PICK w1, n1 : w1 = Len(Written') /\ n1 = gen'.n OBVIOUS
  <2>13. /\ ~ (gen'.done \/ ended') /\ n1 + w1 = N /\ w1 # 0
         /\ ListA(given') # <<>> /\ ~ (left' > 0) /\ given'.n = N
    BY <1>1, <1>2, <1>3, <2>5, <2>6, <2>7, <2>8, <2>9, <2>10, <2>12
  <2> QED BY <2>11, <2>12, <2>13 DEF TakesWhole
<1> QED BY <1>6, <1>7

LEMMA TakesWholePulled ==
  ASSUME GivenOK, PiecesOK, RemainsOK, given.op = "take", OnePiece, TakesWhole, Pull
  PROVE  TakesWhole'
<1>1. ~ pulling /\ ~ gen.done /\ ~ ended BY DEF Pull, MayForce
<1>2. left = 0 /\ block = <<>> /\ threw \notin Broken BY <1>1 DEF PiecesOK
<1>3. PICK w, N, n : w = Len(Written) /\ N = given.n /\ n = gen.n OBVIOUS
<1>4. /\ N \in Nat /\ w \in Nat /\ n \in Int /\ IsReader(gen.a) /\ ~ IsConstant(gen.a)
      /\ gen.op = "take" /\ w <= N /\ blockSize \in Nat \ {0}
  <2>1. left + Len(Written) <= given.n BY <1>1, <1>2, TakeIs
  <2>2. w <= N BY <1>2, <1>3, <2>1, TakeIs
  <2> QED BY <1>1, <1>2, <1>3, <2>2, TakeIs
<1>5. /\ n + w = N
      /\ w = 0 \/ ListA(given) = <<>> => gen.a = given.a
      /\ blockSize = 1 \/ ListA(given) = <<>>
           \/ (blockSize >= N /\ Len(given.a.nodes[1]) >= N /\ (n = 0 \/ w = 0))
  BY <1>1, <1>3 DEF TakesWhole
<1>6. PICK f : f = ToFill OBVIOUS
<1>7. f = Smaller(n, blockSize) BY <1>3, <1>4, <1>6 DEF ToFill
<1>8. CASE f <= 0
  <2>1. End BY <1>6, <1>8 DEF Pull
  <2>2. ended' = TRUE /\ given' = given BY <2>1 DEF End, fixed
  <2>3. Written' = Written BY <2>1, WrittenStays
  <2>4. w = N BY <1>4, <1>5, <1>7, <1>8 DEF Smaller
  <2> QED BY <1>3, <2>2, <2>3, <2>4 DEF TakesWhole
<1>9. CASE ~ (f <= 0)
  <2>1. /\ left' = f /\ block' = <<>> /\ gen' = gen /\ given' = given
        /\ blockSize' = blockSize /\ out' = out /\ ended' = ended
    BY <1>4, <1>6, <1>9 DEF Pull, fixed
  <2>2. Written' = Written BY <1>2, <2>1 DEF Written
  <2>3. f \in Nat /\ f > 0 /\ f <= blockSize /\ f <= n
    BY <1>4, <1>7, <1>9 DEF Smaller
  <2>4. ASSUME ~ Ended(gen.a) PROVE Count(gen.a, f) = f
    <3>1. CASE blockSize = 1
      <4>1. f = 1 BY <2>3, <3>1
      <4>2. Count(gen.a, f) \in 0 .. f /\ Count(gen.a, f) > 0 BY <1>4, <2>3, <2>4, CountIs
      <4> QED BY <4>1, <4>2
    <3>2. CASE blockSize # 1
      <4>1. ToRead(gen.a) # <<>>
        <5>1. PICK c, x, y : /\ c = Count(gen.a, f) /\ x = Items(gen.a, c)
                             /\ y = ToRead(Advance(gen.a, c))
          OBVIOUS
        <5>2. c \in 0 .. Count(gen.a, f) /\ c \in Nat /\ c > 0
          BY <1>4, <2>3, <2>4, <5>1, CountIs
        <5>3. IsList(x) /\ IsList(y) /\ Len(x) = c /\ ToRead(gen.a) = x \o y
          BY <1>4, <2>3, <2>4, <5>1, <5>2, PieceRead, ZenonT(60)
        <5>4. Len(x \o y) = Len(x) + Len(y) BY ONLY <5>3, ListConcat
        <5>5. Len(y) \in Nat BY <5>3, ListIs
        <5> QED BY <5>2, <5>3, <5>4, <5>5, ListEmpty
      <4>2. ListA(given) # <<>> BY <1>5, <4>1, ListsAre
      <4>3. w = 0 /\ blockSize >= N /\ Len(given.a.nodes[1]) >= N /\ gen.a = given.a
        BY <1>4, <1>5, <2>3, <3>2, <4>2
      <4>4. f = n /\ n = N BY <1>4, <1>5, <1>7, <4>3 DEF Smaller
      <4>5. given.a.offset = 0 BY InputsAre
      <4> QED BY <1>4, <2>3, <4>1, <4>3, <4>4, <4>5, WholeArray
    <3> QED BY <3>1, <3>2
  <2>5. f = n \/ blockSize = 1 \/ ListA(given) = <<>>
    BY <1>4, <1>5, <1>7, <2>3 DEF Smaller
  <2>6. /\ ~ (gen'.done \/ ended') /\ gen'.n + Len(Written') = given'.n
        /\ Len(Written') = 0 \/ ListA(given') = <<>> => gen'.a = given'.a
        /\ left' > 0 /\ ~ Ended(gen'.a) => Count(gen'.a, left') = left'
        /\ blockSize' = 1 \/ ListA(given') = <<>>
             \/ /\ blockSize' >= given'.n /\ Len(given'.a.nodes[1]) >= given'.n
                /\ gen'.n = 0 \/ Len(Written') = 0
                /\ left' > 0 => left' = gen'.n
    <3>1. ~ (gen'.done \/ ended') /\ gen'.n + Len(Written') = given'.n
      BY <1>1, <1>3, <1>5, <2>1, <2>2
    <3>2. Len(Written') = 0 \/ ListA(given') = <<>> => gen'.a = given'.a
      BY <1>3, <1>5, <2>1, <2>2
    <3>3. left' > 0 /\ ~ Ended(gen'.a) => Count(gen'.a, left') = left' BY <2>1, <2>4
    <3>4. blockSize' = 1 \/ ListA(given') = <<>>
            \/ /\ blockSize' >= given'.n /\ Len(given'.a.nodes[1]) >= given'.n
               /\ gen'.n = 0 \/ Len(Written') = 0
               /\ left' > 0 => left' = gen'.n
      BY <1>3, <1>5, <2>1, <2>2, <2>5
    <3> QED BY <3>1, <3>2, <3>3, <3>4
  <2> QED BY <2>6 DEF TakesWhole
<1> QED BY <1>8, <1>9

LEMMA TakesWholeStep ==
  ASSUME Promising, TakesWhole, [Next]_vars
  PROVE  TakesWhole'
<1>1. given' = given BY GivenStays
<1>2. SUFFICES ASSUME given.op = "take", OnePiece' PROVE TakesWhole'
  BY <1>1 DEF TakesWhole
<1>3. GivenOK /\ PiecesOK /\ RemainsOK BY <1>2 DEF Promising, Exact
<1>4. blockSize' = blockSize => OnePiece BY <1>1, <1>2 DEF OnePiece
<1>5. CASE Take
  <2>1. blockSize' = blockSize
    BY <1>5 DEF Take, SetDone, Remember, Write, ProduceAndLink, fixed
  <2> QED BY <1>2, <1>3, <1>4, <1>5, <2>1, TakesWholeAtOnce
<1>6. CASE Pull
  <2>1. blockSize' = blockSize BY <1>6 DEF Pull, End, fixed
  <2> QED BY <1>2, <1>3, <1>4, <1>6, <2>1, TakesWholePulled
<1>7. CASE Produce
  <2>1. /\ left' = 0 /\ gen' = gen /\ ended' = ended /\ blockSize' = blockSize
        /\ Written' = Written
    BY <1>3, <1>7, WrittenStays DEF Produce, fixed
  <2>2. PICK l : l = left' OBVIOUS
  <2>3. ~ (l > 0) BY <2>1, <2>2
  <2> QED BY <1>1, <1>2, <1>4, <2>1, <2>2, <2>3 DEF TakesWhole
<1>8. CASE EndDone
  <2>1. gen.done /\ End BY <1>8 DEF EndDone
  <2>2. /\ ended' = TRUE /\ blockSize' = blockSize /\ Written' = Written
    BY <1>3, <2>1, WrittenStays DEF End, fixed
  <2> QED BY <1>1, <1>2, <1>4, <2>1, <2>2 DEF TakesWhole
<1>9. CASE UNCHANGED vars
  <2>1. /\ left' = left /\ gen' = gen /\ ended' = ended /\ blockSize' = blockSize
        /\ block' = block /\ out' = out
    BY <1>9 DEF vars
  <2>2. Written' = Written BY <2>1 DEF Written
  <2> QED BY <1>1, <1>2, <1>4, <2>1, <2>2 DEF TakesWhole
<1>10. CASE \/ Walk \/ Keep \/ Cat \/ Flat \/ KeepWhile \/ Stutter \/ Spread \/ Change \/ Expand
            \/ Clump \/ ShortAs \/ LongAs("longas") \/ LongAs("longas0") \/ Scan1 \/ Hops \/ Merge
  <2>1. ~ gen.done /\ gen.op # "take" /\ ~ ended /\ threw \notin Broken
    <3>1. CASE Walk BY <1>3, <3>1 DEF Walk, Walkers, MayForce, PiecesOK
    <3>2. CASE ~ Walk
      <4>1. pulling /\ ~ gen.done /\ gen.op # "take" /\ threw \notin Broken
        BY <1>10, <3>2 DEF Keep, Cat, Flat, KeepWhile, Stutter, Spread, Change, Expand, Clump,
                           ShortAs, LongAs, Scan1, Hops, Merge, Turn, Filling
      <4> QED BY <1>3, <4>1 DEF PiecesOK
    <3> QED BY <3>1, <3>2
  <2>2. gen.op = "take" BY <1>2, <1>3, <2>1, TakeIs
  <2> QED BY <2>1, <2>2
<1>11. CASE Abort
  <2>1. /\ left' = left /\ gen' = gen /\ ended' = ended /\ blockSize' = blockSize
        /\ block' = block /\ out' = out
    BY <1>11 DEF Abort, fixed
  <2>2. Written' = Written BY <2>1 DEF Written
  <2> QED BY <1>1, <1>2, <1>4, <2>1, <2>2 DEF TakesWhole
<1> QED
  BY <1>5, <1>6, <1>7, <1>8, <1>9, <1>10, <1>11 DEF Next

LEMMA TakesWholeFirst == Init => TakesWhole
<1> SUFFICES ASSUME Init, given.op = "take", OnePiece PROVE TakesWhole
  BY DEF TakesWhole
<1>1. GivenOK /\ PiecesOK BY InitPromises DEF Promising, Exact
<1>2. /\ gen = Made(given) /\ left = 0 /\ ended = FALSE /\ out = <<>> /\ block = <<>>
  BY DEF Init
<1>3. gen.n = given.n /\ gen.a = given.a /\ gen.done = FALSE BY <1>1, <1>2, MadeIs
<1>4. Len(Written) = 0 BY <1>2, FlattenedEmpty, ListEmpty, JoinedToNone DEF Written
<1>5. given.n \in Nat /\ blockSize \in Nat /\ Len(ListA(given)) \in Nat /\ IsList(ListA(given))
  BY <1>1, InputsAre, ListsAre
<1>6. blockSize = 1 \/ ListA(given) = <<>>
        \/ (blockSize >= given.n /\ Len(given.a.nodes[1]) >= given.n)
  <2>1. Len(Flattened(given.a.nodes)) = 0 => ListA(given) = <<>> BY <1>5, NoItems DEF ListA
  <2> QED BY <1>5, <2>1 DEF OnePiece
<1>7. PICK l : l = left OBVIOUS
<1>8. ~ (l > 0) BY <1>2, <1>7
<1>9. PICK w : w = Len(Written) OBVIOUS
<1>10. w = 0 /\ gen.n + w = given.n BY <1>3, <1>4, <1>5, <1>9
<1> QED BY <1>2, <1>3, <1>6, <1>7, <1>8, <1>9, <1>10 DEF TakesWhole

LEMMA NextGoes ==
  ASSUME GivenOK, PiecesOK, RemainsOK, given.op \in Exact, Next
  PROVE  (GivenOK /\ PiecesOK /\ RemainsOK)'
<1>1. CASE EndDone
  <2>1. ~ pulling /\ gen.done /\ End BY <1>1 DEF EndDone, MayForce
  <2>2. PICK z : /\ IsList(z) /\ PromiseOf(given) = Written \o z
                 /\ threw \notin {"no", "again"} \/ given.op = "take" \/ z = <<>>
    BY <2>1 DEF RemainsOK
  <2> QED BY <2>1, <2>2, ListEnds
<1>2. CASE Walk BY <1>2, WalkGoes
<1>3. CASE Pull BY <1>3, PullGoes
<1>4. CASE Produce BY <1>4, BlockProduced
<1>5. CASE Keep BY <1>5, KeepGoes
<1>6. CASE Take BY <1>6, TakeGoes
<1>7. CASE Cat BY <1>7, CatGoes
<1>8. CASE KeepWhile BY <1>8, KeepWhileGoes
<1>9. CASE Stutter \/ Spread BY <1>9, PaddedGoes
<1>10. CASE ShortAs BY <1>10, ShortAsGoes
<1>11. CASE LongAs("longas") \/ LongAs("longas0") BY <1>11, LongAsGoes
<1>12. CASE Flat \/ Change \/ Expand \/ Clump \/ Scan1 \/ Hops \/ Merge
  <2>1. pulling /\ threw \notin Broken /\ ~ gen.done /\ gen.op \notin Exact
    BY <1>12 DEF Flat, Change, Expand, Clump, Scan1, Hops, Merge, Turn, Filling, Exact
  <2>2. ~ ended BY <2>1 DEF PiecesOK
  <2>3. gen.op = given.op BY <2>1, <2>2, GoesNow
  <2> QED BY <2>1, <2>3
<1>13. CASE Abort
  <2>1. /\ given' = given /\ blockSize' = blockSize /\ gen' = gen /\ pulling' = pulling
        /\ left' = left /\ block' = block /\ out' = out /\ ended' = ended
        /\ threw = "escaped" /\ threw' = "aborted"
    BY <1>13 DEF Abort, fixed
  <2>2. Written' = Written BY <2>1 DEF Written
  <2>3. PICK z : IsList(z) /\ PromiseOf(given) = Written \o z BY DEF RemainsOK
  <2>4. threw \in Broken /\ threw' \in Broken /\ threw' \notin {"no", "again"}
    BY <2>1 DEF Broken
  <2>5. RemainsOK' BY <2>1, <2>2, <2>3, <2>4 DEF RemainsOK
  <2>6. GivenOK' /\ PiecesOK' BY <2>1, <2>4 DEF GivenOK, PiecesOK
  <2> QED BY <2>5, <2>6
<1> QED
  BY <1>1, <1>2, <1>3, <1>4, <1>5, <1>6, <1>7, <1>8, <1>9, <1>10, <1>11, <1>12, <1>13 DEF Next

LEMMA StepPromises == Promising /\ [Next]_vars => Promising'
<1> SUFFICES ASSUME Promising, [Next]_vars PROVE Promising'
  OBVIOUS
<1>1. given' = given BY GivenStays
<1>2. SUFFICES ASSUME given.op \in Exact PROVE (GivenOK /\ PiecesOK /\ RemainsOK)'
  BY <1>1 DEF Promising
<1>3. GivenOK /\ PiecesOK /\ RemainsOK BY <1>2 DEF Promising
<1>4. CASE Next BY <1>2, <1>3, <1>4, NextGoes
<1>5. CASE UNCHANGED vars
  <2>1. /\ given' = given /\ blockSize' = blockSize /\ gen' = gen /\ pulling' = pulling
        /\ left' = left /\ block' = block /\ out' = out /\ ended' = ended /\ threw' = threw
    BY <1>5 DEF vars
  <2>2. Written' = Written BY <2>1 DEF Written
  <2> QED BY <1>3, <2>1, <2>2 DEF GivenOK, PiecesOK, RemainsOK
<1> QED BY <1>4, <1>5

LEMMA PromisesFollow ==
  Promising =>
    /\ given.op \in Exact => ProducedIsPromised
    /\ given.op \in Exact \ {"take"} => AllIsProduced
<1> SUFFICES ASSUME Promising, given.op \in Exact
             PROVE  ProducedIsPromised /\ (given.op # "take" => AllIsProduced)
  OBVIOUS
<1>1. PiecesOK /\ RemainsOK BY DEF Promising
<1>2. PICK z : /\ IsList(z) /\ PromiseOf(given) = Written \o z
               /\ ended => threw \notin {"no", "again"} \/ given.op = "take" \/ z = <<>>
  BY <1>1 DEF RemainsOK
<1>3. IsList(Written) /\ Len(Written) \in Nat BY <1>1, WrittenAre DEF PiecesOK
<1>4. Produced = Written /\ Promised = Written \o z BY <1>2 DEF Produced, Promised, Exact
<1>5. ProducedIsPromised
  <2>1. PICK w, n : w = Written /\ n = Len(w) OBVIOUS
  <2>2. IsList(w) /\ IsList(z) /\ n \in Nat /\ n <= Len(w) /\ Len(z) \in Nat
    BY <1>2, <1>3, <2>1, ListIs
  <2>3. Len(w \o z) = Len(w) + Len(z) BY ONLY <2>2, ListConcat
  <2>4. IsList(w \o z) BY ONLY <2>2, ListConcat
  <2>5. FirstOf(w \o z, n) = SubSeq(w, 1, n) BY <2>2, FirstOfPart
  <2>6. Smaller(n, Len(w \o z)) = n BY <2>1, <2>2, <2>3 DEF Smaller
  <2>7. SubSeq(w \o z, 1, n) = SubSeq(w, 1, n) BY <2>5, <2>6 DEF FirstOf
  <2>8. Len(w) <= Len(w \o z) BY <2>1, <2>2, <2>3
  <2>9. IsPrefix(w, w \o z) BY <2>1, <2>7, <2>8 DEF IsPrefix
  <2> QED BY <1>4, <2>1, <2>9 DEF ProducedIsPromised
<1>6. ASSUME given.op # "take" PROVE AllIsProduced
  <2>1. ended /\ threw \in {"no", "again"} => z = <<>> BY <1>2, <1>6
  <2>2. Written \o <<>> = Written BY <1>3, JoinedToNone
  <2>3. Complete BY <1>4, <2>1, <2>2 DEF Complete
  <2> QED BY <2>3 DEF AllIsProduced
<1> QED BY <1>5, <1>6

(* However the arrays of the inputs and the blocks divide the items: what  *)
(* keep, take, ncyc, append, add, cat, keepWhile, stutter, spread and the  *)
(* words that align two lists have written is the beginning of the list    *)
(* they are meant to make.  So it is when a function throws, whether the   *)
(* pull catches it (cat, stutter, spread), the reader tries again (append) *)
(* or nobody does (keepWhile): the default values that are left behind the *)
(* written items of that last array are then not part of what is written.  *)
(* longas of an empty signal repeats whatever the item is that it holds.   *)
THEOREM WrittenAsPromised == Spec => [](given.op \in Exact => ProducedIsPromised)
<1>1. Spec => []Promising BY InitPromises, StepPromises, PTL DEF Spec
<1>2. Promising => (given.op \in Exact => ProducedIsPromised) BY PromisesFollow
<1> QED BY <1>1, <1>2, PTL

(* What take promises is as long as it was asked for. *)
LEMMA TakenIsAll ==
  ASSUME Promising, TakesWhole, given.op = "take", OnePiece
  PROVE  Complete
<1>1. GivenOK /\ PiecesOK /\ RemainsOK BY DEF Promising, Exact
<1>2. SUFFICES ASSUME ended, threw \in {"no", "again"} PROVE Produced = Promised
  BY DEF Complete
<1>3. PICK z : IsList(z) /\ PromiseOf(given) = Written \o z BY <1>1 DEF RemainsOK
<1>4. PICK w, N : w = Written /\ N = given.n OBVIOUS
<1>5. IsList(w) /\ Len(w) = N /\ N \in Nat
  BY <1>1, <1>2, <1>4, WrittenAre, InputsAre DEF TakesWhole, PiecesOK
<1>6. Len(PromiseOf(given)) = N
  <2>1. PICK x, o : x = ListA(given) /\ o = Repeated(0, N) OBVIOUS
  <2>2. PromiseOf(given) = FirstOf(x \o o, N) BY <1>4, <2>1, PromiseIs, ZerosAre
  <2>3. IsList(x) /\ IsList(o) /\ Len(x) \in Nat /\ Len(o) = N
    BY <1>1, <1>5, <2>1, ListsAre, RepeatedIs
  <2>4. IsList(x \o o) /\ Len(x \o o) = Len(x) + Len(o) BY ONLY <2>3, ListConcat
  <2>5. Len(FirstOf(x \o o, N)) = Smaller(N, Len(x \o o)) BY <1>5, <2>4, FirstIs
  <2> QED BY <1>5, <2>2, <2>3, <2>4, <2>5 DEF Smaller
<1>7. Len(w \o z) = Len(w) + Len(z) BY ONLY <1>3, <1>5, ListConcat
<1>8. Len(z) = 0
  <2>1. Len(z) \in Nat BY <1>3, ListIs
  <2> QED BY <1>3, <1>4, <1>5, <1>6, <1>7, <2>1
<1>9. z = <<>> BY <1>3, <1>8, NoItems
<1>10. w \o <<>> = w BY <1>5, JoinedToNone
<1> QED BY <1>3, <1>4, <1>9, <1>10 DEF Produced, Promised

(* And they end their list only when the whole of it has been written, or  *)
(* the pull has caught what the function threw (for cat, stutter, spread); *)
(* a list that nobody's catch has ended is not ended.  take, whose count   *)
(* goes by what is left of a block, ends it so when no piece is shorter    *)
(* than what it has room for.                                              *)
THEOREM WrittenToTheEnd == Spec => [](given.op \in Exact => AllIsProduced)
<1>1. Init => Promising /\ TakesWhole BY InitPromises, TakesWholeFirst
<1>2. (Promising /\ TakesWhole) /\ [Next]_vars => (Promising /\ TakesWhole)'
  BY StepPromises, TakesWholeStep
<1>3. Spec => [](Promising /\ TakesWhole) BY <1>1, <1>2, PTL DEF Spec
<1>4. Promising /\ TakesWhole => (given.op \in Exact => AllIsProduced)
  BY PromisesFollow, TakenIsAll DEF AllIsProduced
<1> QED BY <1>3, <1>4, PTL
=============================================================================
