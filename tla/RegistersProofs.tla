-------------------------- MODULE RegistersProofs --------------------------
(***************************************************************************)
(* Proofs about Registers for any finite set of interpreter threads, any   *)
(* lists and any block size: reference counts, the plug, and its stream.   *)
(***************************************************************************)
EXTENDS Registers, SequenceTheorems, FiniteSetTheorems, TLAPS

Pulling == audio \in {"pull", "filled"}

(* What can be said of a thread or a pull from where it is.                *)
PlaceInv ==
  /\ \A t \in Threads : pc[t] = "idle" => old[t] = Null
  /\ ~ Pulling => cursor = Nothing
  /\ audio = "pull" => ~ done
  /\ base = Null <=> audio \notin {"chase", "chased"}
  /\ audio # "chased" => next = Null /\ last = Null

(* An object the program has not made has no pointer to it and no count.   *)
FreshInv == \A o \in fresh : Pointers(o) = 0 /\ surplus[o] = 0
LeaksInv == \A o \in Objects : surplus[o] <= gets
MemoryInv ==
  /\ fresh \subseteq Objects /\ freed \subseteq Objects \ fresh
  /\ count \in [Objects -> Nat] /\ surplus \in [Objects -> 0 .. MaxGets]
  /\ CountsExact /\ FreshInv /\ LeaksInv

PlugInv ==
  /\ PlugHasLastInput
  /\ changes = sets /\ seen <= changes
  /\ Pulling => cursor.set = seen

Frame == [set : 0 .. MaxSets, at : Nat, left : Nat]
LastHeard == heard[Len(heard)]

(* A cursor at the place of the stream where the next frame comes from:    *)
(* the beginning of an input, or right behind the last frame heard.        *)
AtBeginning(c) == c.list # Null /\ c.off = 0
Continues(c) ==
  /\ c.list = Number => LastHeard.at = 0
  /\ c.list \in Objects => LastHeard.at = c.off
  /\ c.list = Null => LastHeard.left = 0
Ready(c) ==
  IF heard = <<>> THEN AtBeginning(c)
  ELSE \/ LastHeard.set < c.set /\ AtBeginning(c)
       \/ LastHeard.set = c.set /\ Continues(c)

StreamInv ==
  /\ InputsInOrder
  /\ Pulling => Ready(cursor)
  /\ ~ Pulling => Ready(plug)
  /\ Pulling /\ seen # changes => AtBeginning(plug)

IInv ==
  /\ TypeOK /\ PlaceInv /\ MemoryInv
  /\ PlugInv /\ StreamInv

-----------------------------------------------------------------------------
(* Counting pointers                                                       *)

Held(f, o) == {t \in Threads : f[t] = o}

(* The bounds are numbers.                                                 *)
LEMMA BoundsNat ==
  /\ MaxGets \in Nat /\ MaxSets \in Nat /\ MaxPulls \in Nat
  /\ BlockSize \in Nat /\ BlockSize > 0
  /\ \A o \in Objects : Length[o] \in Nat /\ Length[o] > 0
BY RegistersAssumption

(* What the proofs use of the types.                                       *)
LEMMA TypeFacts ==
  ASSUME TypeOK
  PROVE  /\ surplus \in [Objects -> Nat] /\ gets \in Nat /\ gets <= MaxGets
         /\ sets \in Nat /\ sets <= MaxSets /\ seen \in Nat /\ changes \in Nat
         /\ \A t \in Threads : /\ value[t] \in Values \cup {Null} /\ old[t] \in Values \cup {Null}
                               /\ old = [old EXCEPT ![t] = old[t]]
                               /\ value = [value EXCEPT ![t] = value[t]]
<1>1. surplus \in [Objects -> 0 .. MaxGets] /\ gets \in 0 .. MaxGets
      /\ sets \in 0 .. MaxSets /\ seen \in 0 .. MaxSets /\ changes \in 0 .. MaxSets
  BY DEF TypeOK
<1>2. value \in [Threads -> Values \cup {Null}] /\ old \in [Threads -> Values \cup {Null}]
  BY DEF TypeOK
<1> QED BY <1>1, <1>2, BoundsNat

(* One pointer to an object or none.                                       *)
LEMMA IsNat == \A o, v : Is(o, v) \in {0, 1} /\ (Is(o, v) = 1 <=> v = o)
BY DEF Is

LEMMA IsNull == \A o \in Objects : Is(o, Null) = 0 /\ Is(o, Number) = 0
BY RegistersAssumption DEF Is

(* How often an object is in a tuple of three.                             *)
LEMMA TimesIs == \A o, a, b, c : Times(o, <<a, b, c>>) = Is(o, a) + Is(o, b) + Is(o, c)
BY DEF Times

(* Threads hold finitely many pointers.                                    *)
LEMMA HeldFinite ==
  ASSUME NEW f, NEW o
  PROVE  /\ IsFiniteSet(Held(f, o)) /\ Cardinality(Held(f, o)) \in Nat
         /\ \A t \in Threads : Is(o, f[t]) <= Cardinality(Held(f, o))
<1>1. IsFiniteSet(Held(f, o))
  BY RegistersAssumption, FS_Subset DEF Held
<1>2. Cardinality(Held(f, o)) \in Nat
  BY <1>1, FS_CardinalityType
<1>3. ASSUME NEW t \in Threads PROVE Is(o, f[t]) <= Cardinality(Held(f, o))
  <2>1. CASE f[t] = o
    <3>1. Held(f, o) # {}
      BY <2>1 DEF Held
    <3> QED BY <1>1, <1>2, <3>1, FS_EmptySet, IsNat
  <2>2. CASE f[t] # o
    BY <1>2, <2>2, IsNat
  <2> QED BY <2>1, <2>2
<1> QED BY <1>1, <1>2, <1>3

(* A thread's pointer that changes from one value to another.              *)
LEMMA HeldAfter ==
  ASSUME NEW S, NEW f \in [Threads -> S], NEW t \in Threads, NEW v, NEW o
  PROVE  Cardinality(Held([f EXCEPT ![t] = v], o))
           = Cardinality(Held(f, o)) + Is(o, v) - Is(o, f[t])
<1> DEFINE g == [f EXCEPT ![t] = v]
           rest == {u \in Threads \ {t} : f[u] = o}
<1>1. IsFiniteSet(rest) /\ t \notin rest
  BY RegistersAssumption, FS_Subset
<1>2. Cardinality(rest) \in Nat
  BY <1>1, FS_CardinalityType
<1>3. Cardinality(rest \cup {t}) = Cardinality(rest) + 1
  BY <1>1, FS_AddElement
<1>4. Cardinality(Held(f, o)) = Cardinality(rest) + Is(o, f[t])
  <2>1. CASE f[t] = o
    <3>1. Held(f, o) = rest \cup {t}
      BY <2>1 DEF Held
    <3> QED BY <1>3, <2>1, <3>1, IsNat
  <2>2. CASE f[t] # o
    <3>1. Held(f, o) = rest
      BY <2>2 DEF Held
    <3> QED BY <1>2, <2>2, <3>1, IsNat
  <2> QED BY <2>1, <2>2
<1>5. Cardinality(Held(g, o)) = Cardinality(rest) + Is(o, v)
  <2>0. g[t] = v /\ \A u \in Threads \ {t} : g[u] = f[u]
    OBVIOUS
  <2> HIDE DEF g
  <2>1. CASE v = o
    <3>1. Held(g, o) = rest \cup {t}
      BY <2>0, <2>1 DEF Held
    <3> QED BY <1>3, <2>1, <3>1, IsNat
  <2>2. CASE v # o
    <3>1. Held(g, o) = rest
      BY <2>0, <2>2 DEF Held
    <3> QED BY <1>2, <2>2, <3>1, IsNat
  <2> QED BY <2>1, <2>2
<1> QED BY <1>2, <1>4, <1>5, IsNat

(* All pointers to an object add up to their number, which is natural.     *)
LEMMA PointersSum ==
  ASSUME NEW o
  PROVE  Pointers(o) = Is(o, ref) + Is(o, plug.list) + Is(o, cursor.list) + Is(o, base)
           + Is(o, next) + Is(o, last) + Cardinality(Held(value, o)) + Cardinality(Held(old, o))
BY DEF Pointers, Held

LEMMA PointersCount ==
  ASSUME NEW o
  PROVE  /\ Pointers(o) \in Nat
         /\ Is(o, ref) + Is(o, plug.list) + Is(o, cursor.list) + Is(o, base) + Is(o, next)
              + Is(o, last) <= Pointers(o)
         /\ \A t \in Threads : Is(o, ref) + Is(o, plug.list) + Is(o, value[t]) + Is(o, old[t])
                               <= Pointers(o)
<1>1. /\ Cardinality(Held(value, o)) \in Nat /\ Cardinality(Held(old, o)) \in Nat
      /\ \A t \in Threads : /\ Is(o, value[t]) <= Cardinality(Held(value, o))
                            /\ Is(o, old[t]) <= Cardinality(Held(old, o))
  BY HeldFinite
<1>2. \A v : Is(o, v) \in Nat
  BY IsNat
<1> QED BY <1>1, <1>2, PointersSum

LEMMA PointersNat == \A o : Pointers(o) \in Nat
BY PointersCount

(* Retains and releases that add up with what happened to the pointers     *)
(* keep every count exact.  Only an object that is made gets a pointer     *)
(* where there was none.                                                   *)
LEMMA RecountStep ==
  ASSUME IInv, NEW gained, NEW lost, Recount(gained, lost),
         fresh' \subseteq fresh, surplus' \in [Objects -> Nat], gets' \in 0 .. MaxGets,
         \A o \in Objects :
           /\ Times(o, gained) \in Nat /\ Times(o, lost) \in Nat
           /\ Pointers(o)' \in Nat
           /\ Times(o, lost) <= Pointers(o)
           /\ Pointers(o)' + surplus'[o]
                = Pointers(o) + surplus[o] + Times(o, gained) - Times(o, lost)
           /\ surplus'[o] - surplus[o] <= gets' - gets
           /\ Pointers(o) = 0 /\ o \notin fresh \ fresh'
                => Pointers(o)' = 0 /\ surplus'[o] = surplus[o]
  PROVE  MemoryInv'
<1>1. /\ fresh \subseteq Objects /\ freed \subseteq Objects \ fresh
      /\ count \in [Objects -> Nat] /\ surplus \in [Objects -> Nat] /\ gets \in Nat
      /\ \A o \in Objects : count[o] = Pointers(o) + surplus[o]
      /\ \A o \in freed : Pointers(o) = 0
      /\ \A o \in fresh : Pointers(o) = 0 /\ surplus[o] = 0
      /\ \A o \in Objects : surplus[o] <= gets /\ Pointers(o) \in Nat
  <2>1. /\ fresh \subseteq Objects /\ freed \subseteq Objects \ fresh
        /\ count \in [Objects -> Nat] /\ surplus \in [Objects -> 0 .. MaxGets]
        /\ gets \in 0 .. MaxGets
    BY DEF IInv, TypeOK, MemoryInv
  <2>2. surplus \in [Objects -> Nat] /\ gets \in Nat
    BY <2>1, BoundsNat
  <2>3. \A o \in freed : o \in Objects /\ Pointers(o) = 0
    BY <2>1 DEF IInv, MemoryInv, CountsExact
  <2> QED BY <2>1, <2>2, <2>3, PointersNat DEF IInv, MemoryInv, CountsExact, FreshInv, LeaksInv
<1>2. /\ count' = [o \in Objects |-> count[o] + Times(o, gained) - Times(o, lost)]
      /\ freed' = freed \cup {o \in Objects : Times(o, lost) > 0 /\ count'[o] = 0}
  BY DEF Recount
<1>3. ASSUME NEW o \in Objects
      PROVE  count'[o] = Pointers(o)' + surplus'[o] /\ count'[o] \in Nat
  BY <1>1, <1>2
<1>4. count' \in [Objects -> Nat]
  BY <1>2, <1>3
<1>5. LeaksInv' /\ surplus' \in [Objects -> 0 .. MaxGets]
  <2>1. MaxGets \in Nat /\ gets' \in Nat /\ gets' <= MaxGets
    BY BoundsNat
  <2>2. ASSUME NEW o \in Objects PROVE surplus'[o] \in Nat /\ surplus'[o] <= gets'
    BY <1>1, <2>1
  <2> QED BY <2>1, <2>2 DEF LeaksInv
<1>6. FreshInv'
  BY <1>1 DEF FreshInv
<1>7. ASSUME NEW o \in freed' PROVE o \in Objects /\ o \notin fresh' /\ Pointers(o)' = 0
  <2>1. CASE o \in freed
    BY <1>1, <2>1
  <2>2. CASE o \notin freed
    <3>1. o \in Objects /\ Times(o, lost) > 0 /\ count'[o] = 0
      BY <1>2, <2>2
    <3>2. Pointers(o)' = 0
      BY <1>3, <3>1
    <3>3. o \notin fresh
      BY <1>1, <3>1
    <3> QED BY <3>1, <3>2, <3>3
  <2> QED BY <2>1, <2>2
<1>8. CountsExact'
  BY <1>3, <1>7 DEF CountsExact
<1> QED BY <1>1, <1>4, <1>5, <1>6, <1>7, <1>8 DEF MemoryInv

(* The last frame heard is a frame.                                        *)
LEMMA LastHeardType ==
  ASSUME TypeOK, heard # <<>>
  PROVE  LastHeard \in Frame /\ LastHeard.set \in Nat
<1>1. heard \in Seq(Frame)
  BY DEF TypeOK, Frame
<1>2. Len(heard) \in 1 .. Len(heard)
  BY <1>1, EmptySeq
<1>3. LastHeard \in Frame
  BY <1>1, <1>2, ElementOfSeq DEF LastHeard
<1>4. LastHeard.set \in 0 .. MaxSets
  BY <1>3 DEF Frame
<1> QED BY <1>3, <1>4, BoundsNat

(* What a step of an interpreter thread does to the pointers.              *)
LEMMA ThreadMoves ==
  ASSUME TypeOK, NEW t \in Threads, NEW v, NEW w, NEW o,
         value' = [value EXCEPT ![t] = v], old' = [old EXCEPT ![t] = w],
         UNCHANGED <<cursor, chase>>
  PROVE  Pointers(o)' = Pointers(o) + (Is(o, ref') - Is(o, ref)) + (Is(o, plug'.list) - Is(o, plug.list))
           + (Is(o, v) - Is(o, value[t])) + (Is(o, w) - Is(o, old[t]))
<1>1. /\ Cardinality(Held(value', o)) = Cardinality(Held(value, o)) + Is(o, v) - Is(o, value[t])
      /\ Cardinality(Held(old', o)) = Cardinality(Held(old, o)) + Is(o, w) - Is(o, old[t])
  BY HeldAfter DEF TypeOK
<1>2. Pointers(o)' = Is(o, ref') + Is(o, plug'.list) + Is(o, cursor.list) + Is(o, base)
        + Is(o, next) + Is(o, last) + Cardinality(Held(value', o)) + Cardinality(Held(old', o))
  BY DEF Pointers, Held, chase
<1>3. Cardinality(Held(value, o)) \in Nat /\ Cardinality(Held(old, o)) \in Nat
  BY HeldFinite
<1>4. \A x : Is(o, x) \in Nat
  BY IsNat
<1> QED BY <1>1, <1>2, <1>3, <1>4, PointersSum

(* What a step of the audio thread does to them.                           *)
LEMMA AudioMoves ==
  ASSUME NEW o, UNCHANGED locals
  PROVE  Pointers(o)' = Pointers(o) + (Is(o, ref') - Is(o, ref)) + (Is(o, plug'.list) - Is(o, plug.list))
           + (Is(o, cursor'.list) - Is(o, cursor.list)) + (Is(o, base') - Is(o, base))
           + (Is(o, next') - Is(o, next)) + (Is(o, last') - Is(o, last))
<1>1. Pointers(o)' = Is(o, ref') + Is(o, plug'.list) + Is(o, cursor'.list) + Is(o, base')
        + Is(o, next') + Is(o, last') + Cardinality(Held(value, o)) + Cardinality(Held(old, o))
  BY DEF Pointers, Held, locals
<1>2. Cardinality(Held(value, o)) \in Nat /\ Cardinality(Held(old, o)) \in Nat
  BY HeldFinite
<1>3. \A x : Is(o, x) \in Nat
  BY IsNat
<1> QED BY <1>1, <1>2, <1>3, PointersSum

-----------------------------------------------------------------------------
(* The interpreter threads                                                 *)

LEMMA InitInv == Init => IInv
<1> SUFFICES ASSUME Init PROVE IInv
  OBVIOUS
<1>1. \A o \in Objects : Pointers(o) = 0
  <2> SUFFICES ASSUME NEW o \in Objects PROVE Pointers(o) = 0
    OBVIOUS
  <2>1. Held(value, o) = {} /\ Held(old, o) = {}
    BY RegistersAssumption DEF Init, Held
  <2>2. Cardinality({}) = 0
    BY FS_EmptySet
  <2>3. /\ Is(o, ref) = 0 /\ Is(o, plug.list) = 0 /\ Is(o, cursor.list) = 0
        /\ Is(o, base) = 0 /\ Is(o, next) = 0 /\ Is(o, last) = 0
    BY IsNull DEF Init, Nothing
  <2> QED BY <2>1, <2>2, <2>3, PointersSum
<1>2. MemoryInv
  BY <1>1, BoundsNat DEF Init, MemoryInv, CountsExact, FreshInv, LeaksInv
<1>3. TypeOK
  <2>1. plug \in Cursors /\ cursor \in Cursors
    BY BoundsNat DEF Init, Cursors, Values, Nothing
  <2>2. heard \in Seq(Frame)
    BY DEF Init
  <2>3. ref \in Values /\ {base, next, last} \subseteq Values \cup {Null}
        /\ value \in [Threads -> Values \cup {Null}] /\ old \in [Threads -> Values \cup {Null}]
    BY DEF Init, Values
  <2>4. plug.list \notin Objects /\ cursor.list \notin Objects
    BY RegistersAssumption DEF Init, Nothing
  <2>5. pc \in [Threads -> {"idle", "swapped"}] /\ done \in BOOLEAN
        /\ audio \in {"idle", "pull", "filled", "chase", "chased"}
    BY DEF Init
  <2>6. /\ changes \in 0 .. MaxSets /\ seen \in 0 .. MaxSets /\ sets \in 0 .. MaxSets
        /\ gets \in 0 .. MaxGets /\ pulls \in 0 .. MaxPulls
    BY BoundsNat DEF Init
  <2> QED BY <1>2, <2>1, <2>2, <2>3, <2>4, <2>5, <2>6 DEF TypeOK, MemoryInv, Frame
<1>4. PlaceInv /\ PlugInv
  BY DEF Init, PlaceInv, PlugInv, PlugHasLastInput, Pulling
<1>5. StreamInv
  BY RegistersAssumption
  DEF Init, StreamInv, InputsInOrder, Pulling, Ready, AtBeginning
<1> QED BY <1>2, <1>3, <1>4, <1>5 DEF IInv

(* A step outside the plug leaves the stream where it was.                 *)
LEMMA StreamKept ==
  ASSUME IInv, UNCHANGED <<plug, changes, sets, cursor, seen, heard, done>>, Pulling' <=> Pulling
  PROVE  PlugInv' /\ StreamInv'
<1>1. PlugInv'
  BY DEF IInv, PlugInv, PlugHasLastInput
<1>2. InputsInOrder' /\ (Ready(cursor)' <=> Ready(cursor)) /\ (Ready(plug)' <=> Ready(plug))
  BY DEF IInv, StreamInv, InputsInOrder, Ready, AtBeginning, Continues, LastHeard
<1>3. AtBeginning(plug)' <=> AtBeginning(plug)
  BY DEF AtBeginning
<1> QED BY <1>1, <1>2, <1>3 DEF IInv, StreamInv

LEMMA MakeListInv == ASSUME IInv, NEW t \in Threads, MakeList(t) PROVE IInv'
<1>1. PICK o \in fresh : /\ fresh' = fresh \ {o} /\ value' = [value EXCEPT ![t] = o]
                         /\ Recount(<<o, Null, Null>>, None3)
  BY DEF MakeList
<1>2. /\ TypeOK /\ PlaceInv /\ pc[t] = "idle" /\ value[t] = Null
      /\ UNCHANGED <<surplus, ref, plugs, pc, old, audio, stream, chase, gets>>
  BY DEF IInv, MakeList, Calls
<1>3. MemoryInv'
  <2>1. fresh' \subseteq fresh /\ surplus' \in [Objects -> Nat] /\ gets' \in 0 .. MaxGets
    BY <1>1, <1>2, TypeFacts DEF TypeOK
  <2>2. ASSUME NEW p \in Objects
        PROVE  /\ Times(p, <<o, Null, Null>>) = Is(p, o) /\ Times(p, None3) = 0
               /\ Pointers(p) \in Nat
               /\ Pointers(p)' = Pointers(p) + Is(p, o)
    <3>1. Is(p, Null) = 0 /\ Is(p, o) \in Nat /\ Pointers(p) \in Nat
      BY IsNat, IsNull, PointersNat
    <3>2. Pointers(p)' = Pointers(p) + (Is(p, ref') - Is(p, ref)) + (Is(p, plug'.list) - Is(p, plug.list))
            + (Is(p, o) - Is(p, value[t])) + (Is(p, old[t]) - Is(p, old[t]))
      <4>1. old' = [old EXCEPT ![t] = old[t]]
        BY <1>2, TypeFacts
      <4>2. UNCHANGED <<cursor, chase>>
        BY <1>2 DEF stream
      <4>3. value' = [value EXCEPT ![t] = o] /\ TypeOK
        BY <1>1, <1>2
      <4> QED BY <4>1, <4>2, <4>3, ThreadMoves, ZenonT(40)
    <3>3. ref' = ref /\ plug' = plug /\ \A x : Is(p, x) \in Nat
      BY <1>2, IsNat DEF plugs
    <3> QED BY <1>2, <3>1, <3>2, <3>3, TimesIs DEF None3
  <2>3. ASSUME NEW p \in Objects, p \notin fresh \ fresh'
        PROVE  Is(p, o) = 0
    BY <1>1, <2>3, IsNat
  <2>4. \A p \in Objects : Is(p, o) \in Nat /\ surplus'[p] = surplus[p] /\ surplus[p] \in Nat
    BY <1>2, IsNat, TypeFacts
  <2>5. gets' = gets /\ gets \in Nat
    BY <1>2, TypeFacts
  <2> QED BY <1>1, <2>1, <2>2, <2>3, <2>4, <2>5, RecountStep
<1>4. TypeOK'
  <2>1. o \in Values
    BY <1>1, <1>2 DEF TypeOK, Values
  <2> QED BY <1>1, <1>2, <1>3, <2>1 DEF TypeOK, MemoryInv, plugs, stream, chase
<1>5. PlaceInv' /\ PlugInv' /\ StreamInv'
  BY <1>2, StreamKept DEF PlaceInv, Pulling, plugs, stream, chase
<1> QED BY <1>3, <1>4, <1>5 DEF IInv

LEMMA DropInv == ASSUME IInv, NEW t \in Threads, Drop(t) PROVE IInv'
<1>1. /\ TypeOK /\ PlaceInv /\ pc[t] = "idle"
      /\ Recount(None3, <<value[t], Null, Null>>) /\ value' = [value EXCEPT ![t] = Null]
      /\ UNCHANGED <<fresh, surplus, ref, plugs, pc, old, audio, stream, chase, gets>>
  BY DEF IInv, Drop, Calls
<1>2. MemoryInv'
  <2>1. fresh' \subseteq fresh /\ surplus' \in [Objects -> Nat] /\ gets' \in 0 .. MaxGets
    BY <1>1, TypeFacts DEF TypeOK
  <2>2. ASSUME NEW p \in Objects
        PROVE  /\ Times(p, <<value[t], Null, Null>>) = Is(p, value[t]) /\ Times(p, None3) = 0
               /\ Pointers(p)' = Pointers(p) - Is(p, value[t])
    <3>1. Is(p, Null) = 0 /\ Pointers(p) \in Nat /\ \A x : Is(p, x) \in Nat
      BY IsNat, IsNull, PointersNat
    <3>2. Pointers(p)' = Pointers(p) + (Is(p, ref') - Is(p, ref)) + (Is(p, plug'.list) - Is(p, plug.list))
            + (Is(p, Null) - Is(p, value[t])) + (Is(p, old[t]) - Is(p, old[t]))
      <4>1. old' = [old EXCEPT ![t] = old[t]]
        BY <1>1, TypeFacts
      <4>2. UNCHANGED <<cursor, chase>>
        BY <1>1 DEF stream
      <4>3. value' = [value EXCEPT ![t] = Null] /\ TypeOK
        BY <1>1
      <4> QED BY <4>1, <4>2, <4>3, ThreadMoves, ZenonT(40)
    <3>3. ref' = ref /\ plug' = plug
      BY <1>1 DEF plugs
    <3> QED BY <3>1, <3>2, <3>3, TimesIs DEF None3
  <2>3. \A p \in Objects : /\ Is(p, value[t]) \in Nat /\ Is(p, value[t]) <= Pointers(p)
                           /\ Pointers(p) \in Nat
                           /\ surplus'[p] = surplus[p] /\ surplus[p] \in Nat
    <3> SUFFICES ASSUME NEW p \in Objects PROVE Is(p, value[t]) <= Pointers(p)
      BY <1>1, IsNat, PointersNat, TypeFacts
    <3>1. \A x : Is(p, x) \in Nat
      BY IsNat
    <3> QED BY <3>1, PointersCount
  <2>4. gets' = gets /\ gets \in Nat
    BY <1>1, TypeFacts
  <2> QED BY <1>1, <2>1, <2>2, <2>3, <2>4, RecountStep
<1>3. TypeOK'
  BY <1>1, <1>2 DEF TypeOK, MemoryInv, plugs, stream, chase
<1>4. PlaceInv' /\ PlugInv' /\ StreamInv'
  BY <1>1, StreamKept DEF PlaceInv, Pulling, plugs, stream, chase
<1> QED BY <1>2, <1>3, <1>4 DEF IInv

LEMMA SetRefInv == ASSUME IInv, NEW t \in Threads, SetRef(t) PROVE IInv'
<1>1. /\ TypeOK /\ PlaceInv /\ pc[t] = "idle" /\ value[t] # Null
      /\ Recount(<<value[t], Null, Null>>, None3)
      /\ ref' = value[t] /\ old' = [old EXCEPT ![t] = ref] /\ pc' = [pc EXCEPT ![t] = "swapped"]
      /\ UNCHANGED <<fresh, surplus, plugs, value, audio, stream, chase, gets>>
  BY DEF IInv, SetRef, Calls, SetRefTo
<1>2. old[t] = Null
  BY <1>1 DEF PlaceInv
<1>3. MemoryInv'
  <2>1. fresh' \subseteq fresh /\ surplus' \in [Objects -> Nat] /\ gets' \in 0 .. MaxGets
    BY <1>1, TypeFacts DEF TypeOK
  <2>2. ASSUME NEW p \in Objects
        PROVE  /\ Times(p, <<value[t], Null, Null>>) = Is(p, value[t]) /\ Times(p, None3) = 0
               /\ Pointers(p)' = Pointers(p) + Is(p, value[t])
    <3>1. Is(p, Null) = 0 /\ Pointers(p) \in Nat /\ \A x : Is(p, x) \in Nat
      BY IsNat, IsNull, PointersNat
    <3>2. Pointers(p)' = Pointers(p) + (Is(p, ref') - Is(p, ref)) + (Is(p, plug'.list) - Is(p, plug.list))
            + (Is(p, value[t]) - Is(p, value[t])) + (Is(p, ref) - Is(p, old[t]))
      <4>1. value' = [value EXCEPT ![t] = value[t]] /\ old' = [old EXCEPT ![t] = ref] /\ TypeOK
        BY <1>1, TypeFacts
      <4>2. UNCHANGED <<cursor, chase>>
        BY <1>1 DEF stream
      <4> QED BY <4>1, <4>2, ThreadMoves, ZenonT(40)
    <3>3. ref' = value[t] /\ plug' = plug
      BY <1>1 DEF plugs
    <3> QED BY <1>2, <3>1, <3>2, <3>3, TimesIs DEF None3
  <2>3. \A p \in Objects : /\ Is(p, value[t]) \in Nat /\ Is(p, value[t]) <= Pointers(p)
                           /\ Pointers(p) \in Nat
                           /\ surplus'[p] = surplus[p] /\ surplus[p] \in Nat
    <3> SUFFICES ASSUME NEW p \in Objects PROVE Is(p, value[t]) <= Pointers(p)
      BY <1>1, IsNat, PointersNat, TypeFacts
    <3>1. \A x : Is(p, x) \in Nat
      BY IsNat
    <3> QED BY <3>1, PointersCount
  <2>4. gets' = gets /\ gets \in Nat
    BY <1>1, TypeFacts
  <2> QED BY <1>1, <2>1, <2>2, <2>3, <2>4, RecountStep
<1>4. TypeOK'
  <2>1. value[t] \in Values
    BY <1>1, TypeFacts
  <2> QED BY <1>1, <1>3, <2>1 DEF TypeOK, MemoryInv, plugs, stream, chase
<1>5. PlaceInv' /\ PlugInv' /\ StreamInv'
  <2>1. \A u \in Threads : pc'[u] = "idle" => old'[u] = Null
    BY <1>1 DEF PlaceInv, TypeOK
  <2> QED BY <1>1, <2>1, StreamKept DEF PlaceInv, Pulling, plugs, stream, chase
<1> QED BY <1>3, <1>4, <1>5 DEF IInv

LEMMA ReleaseOldInv == ASSUME IInv, NEW t \in Threads, ReleaseOld(t) PROVE IInv'
<1>1. /\ TypeOK /\ PlaceInv
      /\ Recount(None3, <<old[t], value[t], Null>>)
      /\ value' = [value EXCEPT ![t] = Null] /\ old' = [old EXCEPT ![t] = Null]
      /\ pc' = [pc EXCEPT ![t] = "idle"]
      /\ UNCHANGED <<fresh, surplus, ref, plugs, audio, stream, chase, gets>>
  BY DEF IInv, ReleaseOld
<1>2. MemoryInv'
  <2>1. fresh' \subseteq fresh /\ surplus' \in [Objects -> Nat] /\ gets' \in 0 .. MaxGets
    BY <1>1, TypeFacts DEF TypeOK
  <2>2. ASSUME NEW p \in Objects
        PROVE  /\ Times(p, <<old[t], value[t], Null>>) = Is(p, old[t]) + Is(p, value[t])
               /\ Times(p, None3) = 0
               /\ Pointers(p)' = Pointers(p) - Is(p, value[t]) - Is(p, old[t])
    <3>1. Is(p, Null) = 0 /\ Pointers(p) \in Nat /\ \A x : Is(p, x) \in Nat
      BY IsNat, IsNull, PointersNat
    <3>2. Pointers(p)' = Pointers(p) + (Is(p, ref') - Is(p, ref)) + (Is(p, plug'.list) - Is(p, plug.list))
            + (Is(p, Null) - Is(p, value[t])) + (Is(p, Null) - Is(p, old[t]))
      <4>1. UNCHANGED <<cursor, chase>>
        BY <1>1 DEF stream
      <4>2. TypeOK /\ value' = [value EXCEPT ![t] = Null] /\ old' = [old EXCEPT ![t] = Null]
        BY <1>1
      <4> QED BY <4>1, <4>2, ThreadMoves, ZenonT(40)
    <3>3. ref' = ref /\ plug' = plug
      BY <1>1 DEF plugs
    <3> QED BY <3>1, <3>2, <3>3, TimesIs DEF None3
  <2>3. \A p \in Objects : /\ Is(p, value[t]) \in Nat /\ Is(p, old[t]) \in Nat
                           /\ Is(p, value[t]) + Is(p, old[t]) <= Pointers(p)
                           /\ Pointers(p) \in Nat
                           /\ surplus'[p] = surplus[p] /\ surplus[p] \in Nat
    <3> SUFFICES ASSUME NEW p \in Objects PROVE Is(p, value[t]) + Is(p, old[t]) <= Pointers(p)
      BY <1>1, IsNat, PointersNat, TypeFacts
    <3>1. \A x : Is(p, x) \in Nat
      BY IsNat
    <3> QED BY <3>1, PointersCount
  <2>4. gets' = gets /\ gets \in Nat
    BY <1>1, TypeFacts
  <2> QED BY <1>1, <2>1, <2>2, <2>3, <2>4, RecountStep
<1>3. TypeOK'
  BY <1>1, <1>2 DEF TypeOK, MemoryInv, plugs, stream, chase
<1>4. PlaceInv' /\ PlugInv' /\ StreamInv'
  <2>1. \A u \in Threads : pc'[u] = "idle" => old'[u] = Null
    BY <1>1 DEF PlaceInv, TypeOK
  <2> QED BY <1>1, <2>1, StreamKept DEF PlaceInv, Pulling, plugs, stream, chase
<1> QED BY <1>2, <1>3, <1>4 DEF IInv

LEMMA GetRefInv == ASSUME IInv, NEW t \in Threads, GetRef(t) PROVE IInv'
<1>1. /\ TypeOK /\ PlaceInv /\ pc[t] = "idle" /\ value[t] = Null /\ gets < MaxGets
      /\ Recount(<<ref, ref, Null>>, None3)
      /\ surplus' = [o \in Objects |-> surplus[o] + Is(o, ref)]
      /\ value' = [value EXCEPT ![t] = ref] /\ gets' = gets + 1
      /\ UNCHANGED <<fresh, ref, plugs, pc, old, audio, stream, chase>>
  BY DEF IInv, GetRef, Calls, Deref
<1>2. MemoryInv'
  <2>1. fresh' \subseteq fresh /\ surplus' \in [Objects -> Nat] /\ gets' \in 0 .. MaxGets
    <3>1. \A o \in Objects : surplus[o] + Is(o, ref) \in Nat
      BY <1>1, TypeFacts, IsNat
    <3> QED BY <1>1, <3>1, TypeFacts, BoundsNat
  <2>2. ASSUME NEW p \in Objects
        PROVE  /\ Times(p, <<ref, ref, Null>>) = Is(p, ref) + Is(p, ref) /\ Times(p, None3) = 0
               /\ Pointers(p)' = Pointers(p) + Is(p, ref)
    <3>1. Is(p, Null) = 0 /\ Pointers(p) \in Nat /\ \A x : Is(p, x) \in Nat
      BY IsNat, IsNull, PointersNat
    <3>2. Pointers(p)' = Pointers(p) + (Is(p, ref') - Is(p, ref)) + (Is(p, plug'.list) - Is(p, plug.list))
            + (Is(p, ref) - Is(p, value[t])) + (Is(p, old[t]) - Is(p, old[t]))
      <4>1. old' = [old EXCEPT ![t] = old[t]]
        BY <1>1, TypeFacts
      <4>2. UNCHANGED <<cursor, chase>>
        BY <1>1 DEF stream
      <4>3. value' = [value EXCEPT ![t] = ref] /\ TypeOK
        BY <1>1
      <4> QED BY <4>1, <4>2, <4>3, ThreadMoves, ZenonT(40)
    <3>3. ref' = ref /\ plug' = plug
      BY <1>1 DEF plugs
    <3> QED BY <1>1, <3>1, <3>2, <3>3, TimesIs DEF None3
  <2>3. \A p \in Objects : /\ Is(p, ref) \in {0, 1} /\ Is(p, ref) <= Pointers(p)
                           /\ Pointers(p) \in Nat
                           /\ surplus'[p] = surplus[p] + Is(p, ref) /\ surplus[p] \in Nat
    <3> SUFFICES ASSUME NEW p \in Objects PROVE Is(p, ref) <= Pointers(p)
      BY <1>1, IsNat, PointersNat, TypeFacts
    <3>1. \A x : Is(p, x) \in Nat
      BY IsNat
    <3> QED BY <3>1, PointersCount
  <2>4. gets' = gets + 1 /\ gets \in Nat
    BY <1>1, TypeFacts
  <2> QED BY <1>1, <2>1, <2>2, <2>3, <2>4, RecountStep
<1>3. TypeOK'
  <2>1. gets' \in 0 .. MaxGets
    BY <1>1, TypeFacts, BoundsNat
  <2> QED BY <1>1, <1>2, <2>1 DEF TypeOK, MemoryInv, plugs, stream, chase
<1>4. PlaceInv' /\ PlugInv' /\ StreamInv'
  BY <1>1, StreamKept DEF PlaceInv, Pulling, plugs, stream, chase
<1> QED BY <1>2, <1>3, <1>4 DEF IInv

(* A plug that is set while the audio thread pulls is at its beginning     *)
(* then; otherwise the stream goes on with the new input.                  *)
LEMMA SetPlugInv == ASSUME IInv, NEW t \in Threads, SetPlug(t) PROVE IInv'
<1>1. /\ TypeOK /\ PlaceInv /\ pc[t] = "idle" /\ value[t] # Null /\ sets < MaxSets
      /\ plug' = [list |-> value[t], off |-> 0, set |-> sets + 1]
      /\ changes' = changes + 1 /\ sets' = sets + 1
      /\ Recount(<<value[t], Null, Null>>, <<plug.list, value[t], Null>>)
      /\ value' = [value EXCEPT ![t] = Null]
      /\ UNCHANGED <<fresh, surplus, ref, pc, old, audio, stream, chase, gets>>
  BY DEF IInv, SetPlug, Calls, Fresh, Counted
<1>2. plug'.list = value[t] /\ plug'.off = 0 /\ plug'.set = sets + 1 /\ value[t] \in Values
  BY <1>1, TypeFacts
<1>3. MemoryInv'
  <2>1. fresh' \subseteq fresh /\ surplus' \in [Objects -> Nat] /\ gets' \in 0 .. MaxGets
    BY <1>1, TypeFacts DEF TypeOK
  <2>2. ASSUME NEW p \in Objects
        PROVE  /\ Times(p, <<plug.list, value[t], Null>>) = Is(p, plug.list) + Is(p, value[t])
               /\ Times(p, <<value[t], Null, Null>>) = Is(p, value[t])
               /\ Pointers(p)' = Pointers(p) - Is(p, plug.list)
    <3>1. Is(p, Null) = 0 /\ Pointers(p) \in Nat /\ \A x : Is(p, x) \in Nat
      BY IsNat, IsNull, PointersNat
    <3>2. Pointers(p)' = Pointers(p) + (Is(p, ref') - Is(p, ref)) + (Is(p, plug'.list) - Is(p, plug.list))
            + (Is(p, Null) - Is(p, value[t])) + (Is(p, old[t]) - Is(p, old[t]))
      <4>1. old' = [old EXCEPT ![t] = old[t]]
        BY <1>1, TypeFacts
      <4>2. UNCHANGED <<cursor, chase>>
        BY <1>1 DEF stream
      <4>3. value' = [value EXCEPT ![t] = Null] /\ TypeOK
        BY <1>1
      <4> QED BY <4>1, <4>2, <4>3, ThreadMoves
    <3> QED BY <1>1, <1>2, <3>1, <3>2, TimesIs
  <2>3. \A p \in Objects : /\ Is(p, value[t]) \in Nat /\ Is(p, plug.list) \in Nat
                           /\ Is(p, plug.list) + Is(p, value[t]) <= Pointers(p)
                           /\ Pointers(p) \in Nat
                           /\ surplus'[p] = surplus[p] /\ surplus[p] \in Nat
    <3> SUFFICES ASSUME NEW p \in Objects
                 PROVE  Is(p, plug.list) + Is(p, value[t]) <= Pointers(p)
      BY <1>1, IsNat, PointersNat, TypeFacts
    <3>1. \A x : Is(p, x) \in Nat
      BY IsNat
    <3> QED BY <3>1, PointersCount
  <2>4. gets' = gets /\ gets \in Nat
    BY <1>1, TypeFacts
  <2> QED BY <1>1, <2>1, <2>2, <2>3, <2>4, RecountStep
<1>4. sets' \in 0 .. MaxSets /\ sets \in Nat /\ changes = sets /\ seen \in Nat /\ seen <= sets
  BY <1>1, TypeFacts, BoundsNat DEF IInv, PlugInv
<1>5. TypeOK'
  <2>1. plug' \in Cursors /\ changes' \in 0 .. MaxSets
    BY <1>1, <1>2, <1>4 DEF Cursors
  <2>2. \A c \in {plug', cursor'} : c.list \in Objects => c.off < Length[c.list]
    BY <1>1, <1>2, BoundsNat DEF TypeOK, stream
  <2> QED BY <1>1, <1>3, <1>4, <2>1, <2>2 DEF TypeOK, MemoryInv, stream, chase
<1>6. PlaceInv' /\ PlugInv'
  BY <1>1, <1>2, <1>4 DEF PlaceInv, PlugInv, PlugHasLastInput, Pulling, stream, chase, IInv
<1>7. StreamInv'
  <2>1. AtBeginning(plug)'
    BY <1>1, <1>2 DEF AtBeginning
  <2>2. InputsInOrder' /\ (Ready(cursor)' <=> Ready(cursor)) /\ (Pulling' <=> Pulling)
    BY <1>1 DEF IInv, StreamInv, InputsInOrder, Ready, AtBeginning, Continues, LastHeard,
                stream, Pulling
  <2>3. ASSUME ~ Pulling PROVE Ready(plug)'
    <3>1. Ready(plug) /\ plug.set = sets /\ heard' = heard
      BY <1>1, <2>3 DEF IInv, StreamInv, PlugInv, PlugHasLastInput, stream
    <3>2. CASE heard = <<>>
      BY <2>1, <3>1, <3>2 DEF Ready
    <3>3. CASE heard # <<>>
      <4>1. LastHeard.set \in Nat /\ LastHeard.set <= sets
        <5>1. LastHeard.set < sets \/ LastHeard.set = sets
          BY <3>1, <3>3 DEF Ready
        <5>2. LastHeard.set \in Nat
          BY <1>1, <3>3, LastHeardType
        <5> QED BY <1>4, <5>1, <5>2
      <4>2. LastHeard' = LastHeard /\ LastHeard.set < plug'.set
        BY <1>2, <1>4, <3>1, <4>1 DEF LastHeard
      <4> QED BY <2>1, <3>1, <3>3, <4>2 DEF Ready
    <3> QED BY <3>2, <3>3
  <2> QED BY <2>1, <2>2, <2>3 DEF IInv, StreamInv
<1> QED BY <1>3, <1>5, <1>6, <1>7 DEF IInv

-----------------------------------------------------------------------------
(* The audio thread pulls the plug                                         *)

LEMMA GetPlugInv == ASSUME IInv, GetPlug PROVE IInv'
<1>1. /\ TypeOK /\ PlaceInv /\ audio = "idle" /\ ~ done /\ pulls < MaxPulls
      /\ cursor' = plug /\ seen' = changes /\ pulls' = pulls + 1 /\ audio' = "pull"
      /\ Recount(<<plug.list, Null, Null>>, None3)
      /\ UNCHANGED <<fresh, surplus, ref, plugs, locals, chase, heard, done, gets>>
  BY DEF IInv, GetPlug
<1>2. ~ Pulling /\ Pulling' /\ cursor = Nothing /\ cursor.list = Null
  BY <1>1 DEF Pulling, PlaceInv, Nothing
<1>3. MemoryInv'
  <2>1. fresh' \subseteq fresh /\ surplus' \in [Objects -> Nat] /\ gets' \in 0 .. MaxGets
    BY <1>1, TypeFacts DEF TypeOK
  <2>2. ASSUME NEW p \in Objects
        PROVE  /\ Times(p, <<plug.list, Null, Null>>) = Is(p, plug.list) /\ Times(p, None3) = 0
               /\ Pointers(p)' = Pointers(p) + Is(p, plug.list)
               /\ Is(p, plug.list) \in Nat /\ Is(p, plug.list) <= Pointers(p)
               /\ Pointers(p) \in Nat
    <3>1. Is(p, Null) = 0 /\ \A x : Is(p, x) \in Nat
      BY IsNat, IsNull
    <3>2. UNCHANGED <<ref, plug, base, next, last, locals>>
      BY <1>1 DEF plugs, chase
    <3>3. Pointers(p)' = Pointers(p) + Is(p, plug.list)
      BY <1>1, <1>2, <3>1, <3>2, AudioMoves, PointersNat
    <3>4. Is(p, plug.list) <= Pointers(p)
      BY <3>1, PointersCount
    <3> QED BY <3>1, <3>3, <3>4, PointersNat, TimesIs DEF None3
  <2>3. \A p \in Objects : surplus'[p] = surplus[p] /\ surplus[p] \in Nat
    BY <1>1, TypeFacts
  <2>4. gets' = gets /\ gets \in Nat
    BY <1>1, TypeFacts
  <2> QED BY <1>1, <2>1, <2>2, <2>3, <2>4, RecountStep
<1>4. TypeOK'
  <2>1. pulls' \in 0 .. MaxPulls
    BY <1>1, BoundsNat DEF TypeOK
  <2> QED BY <1>1, <1>3, <2>1 DEF TypeOK, MemoryInv, plugs, locals, chase
<1>5. PlaceInv' /\ PlugInv'
  BY <1>1, <1>2, TypeFacts DEF IInv, PlaceInv, PlugInv, PlugHasLastInput, Pulling, plugs, locals, chase
<1>6. StreamInv'
  <2>1. InputsInOrder' /\ Ready(plug)
    BY <1>1, <1>2 DEF IInv, StreamInv, InputsInOrder
  <2>2. Ready(cursor)'
    BY <1>1, <2>1 DEF Ready, AtBeginning, Continues, LastHeard
  <2> QED BY <1>1, <1>2, <2>1, <2>2 DEF StreamInv, plugs
<1> QED BY <1>3, <1>4, <1>5, <1>6 DEF IInv

(* More frames that follow each other and what was heard before.           *)
LEMMA HeardGrows ==
  ASSUME TypeOK, InputsInOrder, NEW more \in Seq(Frame), more # <<>>,
         heard' = heard \o more,
         \A i \in 1 .. Len(more) - 1 : Follows(more[i], more[i + 1]),
         IF heard = <<>> THEN more[1].at \in {0, 1} ELSE Follows(LastHeard, more[1]),
         done' => more[Len(more)].left = 0
  PROVE  /\ InputsInOrder' /\ heard' \in Seq(Frame) /\ heard' # <<>>
         /\ LastHeard' = more[Len(more)]
<1> DEFINE n == Len(heard)
           m == Len(more)
<1>1. heard \in Seq(Frame)
  BY DEF TypeOK, Frame
<1>2. /\ n \in Nat /\ m \in Nat /\ m > 0 /\ (heard = <<>> <=> n = 0)
      /\ heard' \in Seq(Frame) /\ Len(heard') = n + m
      /\ \A i \in 1 .. n + m : heard'[i] = IF i <= n THEN heard[i] ELSE more[i - n]
  BY <1>1, EmptySeq, LenProperties, ConcatProperties
<1> HIDE DEF n, m
<1>3. heard' # <<>> /\ LastHeard' = more[m]
  BY <1>2, EmptySeq DEF LastHeard
<1>4. heard'[1].at \in {0, 1}
  <2>1. CASE n = 0
    BY <1>2, <2>1
  <2>2. CASE n # 0
    BY <1>2, <2>2 DEF InputsInOrder
  <2> QED BY <2>1, <2>2
<1>5. ASSUME NEW i \in 1 .. n + m - 1 PROVE Follows(heard'[i], heard'[i + 1])
  <2>1. CASE i < n
    <3>1. heard'[i] = heard[i] /\ heard'[i + 1] = heard[i + 1]
      BY <1>2, <2>1
    <3>2. i \in 1 .. n - 1
      BY <1>2, <2>1
    <3> QED BY <3>1, <3>2 DEF InputsInOrder, n
  <2>2. CASE i = n
    <3>1. heard'[i] = LastHeard /\ heard'[i + 1] = more[1] /\ heard # <<>>
      BY <1>2, <2>2 DEF LastHeard, n
    <3> QED BY <3>1
  <2>3. CASE i > n
    <3>1. heard'[i] = more[i - n] /\ heard'[i + 1] = more[i - n + 1]
      BY <1>2, <2>3
    <3>2. i - n \in 1 .. m - 1
      BY <1>2, <2>3
    <3> QED BY <3>1, <3>2 DEF m
  <2> QED BY <1>2, <2>1, <2>2, <2>3
<1>6. InputsInOrder'
  BY <1>2, <1>3, <1>4, <1>5 DEF InputsInOrder, LastHeard, m
<1> QED BY <1>2, <1>3, <1>6 DEF m

LEMMA FillConstantInv == ASSUME IInv, FillConstant PROVE IInv'
<1> DEFINE more == [i \in 1 .. BlockSize |-> [set |-> cursor.set, at |-> 0, left |-> 1]]
<1>1. /\ TypeOK /\ PlaceInv /\ audio = "pull" /\ cursor.list = Number /\ audio' = "filled"
      /\ heard' = heard \o more
      /\ UNCHANGED <<memory, ref, plugs, locals, cursor, seen, chase, done, gets, pulls>>
  BY DEF IInv, FillConstant
<1>2. Pulling /\ Pulling' /\ ~ done
  BY <1>1 DEF Pulling, PlaceInv
<1>3. /\ more \in Seq(Frame) /\ more # <<>> /\ Len(more) = BlockSize
      /\ \A i \in 1 .. BlockSize : more[i].set = cursor.set /\ more[i].at = 0
  <2>1. cursor.set \in 0 .. MaxSets
    BY <1>1 DEF TypeOK, Cursors
  <2>2. [set |-> cursor.set, at |-> 0, left |-> 1] \in Frame
    BY <2>1 DEF Frame
  <2>3. more \in Seq(Frame) /\ Len(more) = BlockSize
    BY <2>2, BoundsNat
  <2>4. more # <<>>
    BY <2>3, BoundsNat, EmptySeq
  <2> QED BY <2>3, <2>4
<1> HIDE DEF more
<1>4. Ready(cursor) /\ InputsInOrder
  BY <1>2 DEF IInv, StreamInv
<1>5. /\ InputsInOrder' /\ heard' \in Seq(Frame) /\ heard' # <<>>
      /\ LastHeard' = more[BlockSize]
  <2>1. \A i \in 1 .. Len(more) - 1 : Follows(more[i], more[i + 1])
    BY <1>3, BoundsNat DEF Follows
  <2>2. more[1].set = cursor.set /\ more[1].at = 0
    BY <1>3, BoundsNat
  <2>3. heard # <<>> => Follows(LastHeard, more[1])
    BY <1>1, <1>4, <2>2 DEF Ready, Continues, Follows
  <2>4. ~ done'
    BY <1>1, <1>2
  <2> QED BY <1>1, <1>3, <1>4, <2>1, <2>2, <2>3, <2>4, HeardGrows
<1>6. LastHeard'.set = cursor'.set /\ LastHeard'.at = 0
  BY <1>1, <1>3, <1>5, BoundsNat
<1>7. MemoryInv'
  BY <1>1, ZenonT(40)
     DEF IInv, MemoryInv, CountsExact, FreshInv, LeaksInv, Pointers, memory, plugs, locals, chase
<1>8. TypeOK' /\ PlaceInv' /\ PlugInv'
  <2>1. TypeOK'
    BY <1>1, <1>5 DEF TypeOK, Frame, memory, plugs, locals, chase
  <2>2. PlaceInv' /\ PlugInv'
    BY <1>1, <1>2 DEF IInv, PlaceInv, PlugInv, PlugHasLastInput, Pulling, plugs, locals, chase
  <2> QED BY <2>1, <2>2
<1>9. StreamInv'
  <2>1. Ready(cursor)'
    BY <1>1, <1>5, <1>6, RegistersAssumption DEF Ready, Continues
  <2>2. seen' # changes' => AtBeginning(plug)'
    BY <1>1, <1>2 DEF IInv, StreamInv, AtBeginning, plugs
  <2> QED BY <1>2, <1>5, <2>1, <2>2 DEF StreamInv
<1> QED BY <1>7, <1>8, <1>9 DEF IInv

LEMMA FillNothingInv == ASSUME IInv, FillNothing PROVE IInv'
<1>1. /\ TypeOK /\ PlaceInv /\ audio = "pull" /\ cursor.list = Null /\ audio' = "filled"
      /\ done' = TRUE
      /\ UNCHANGED <<memory, ref, plugs, locals, cursor, seen, heard, chase, gets, pulls>>
  BY DEF IInv, FillNothing
<1>2. Pulling /\ Pulling'
  BY <1>1 DEF Pulling
<1>3. MemoryInv'
  BY <1>1 DEF IInv, MemoryInv, CountsExact, FreshInv, LeaksInv, Pointers, memory, plugs, locals, chase
<1>4. TypeOK' /\ PlaceInv' /\ PlugInv'
  <2>1. TypeOK'
    BY <1>1 DEF TypeOK, memory, plugs, locals, chase
  <2>2. PlaceInv' /\ PlugInv'
    BY <1>1, <1>2 DEF IInv, PlaceInv, PlugInv, PlugHasLastInput, Pulling, plugs, locals, chase
  <2> QED BY <2>1, <2>2
<1>5. Ready(cursor) /\ InputsInOrder
  BY <1>2 DEF IInv, StreamInv
<1>6. heard # <<>> /\ LastHeard.left = 0
  BY <1>1, <1>5 DEF Ready, AtBeginning, Continues
<1>7. StreamInv'
  <2>1. InputsInOrder'
    BY <1>1, <1>5, <1>6 DEF InputsInOrder, LastHeard
  <2>2. Ready(cursor)' /\ (seen' # changes' => AtBeginning(plug)')
    BY <1>1, <1>2, <1>5
    DEF IInv, StreamInv, Ready, AtBeginning, Continues, LastHeard, plugs
  <2> QED BY <1>2, <2>1, <2>2 DEF StreamInv
<1> QED BY <1>3, <1>4, <1>7 DEF IInv

LEMMA FillFromListInv == ASSUME IInv, FillFromList PROVE IInv'
<1> DEFINE n == IF Left < BlockSize THEN Left ELSE BlockSize
           more == Frames(n)
<1>1. /\ TypeOK /\ PlaceInv /\ audio = "pull" /\ cursor.list \in Objects /\ audio' = "filled"
      /\ heard' = heard \o more /\ done' = (n < BlockSize)
      /\ IF n = Left
         THEN /\ cursor' = [cursor EXCEPT !.list = Null, !.off = 0]
              /\ Recount(None3, <<cursor.list, Null, Null>>)
         ELSE /\ cursor' = [cursor EXCEPT !.off = @ + n]
              /\ UNCHANGED <<count, freed>>
      /\ UNCHANGED <<fresh, surplus, ref, plugs, locals, seen, chase, gets, pulls>>
  BY DEF IInv, FillFromList, Ends
<1>2. Pulling /\ Pulling' /\ ~ done /\ Ready(cursor) /\ InputsInOrder
  BY <1>1 DEF Pulling, PlaceInv, IInv, StreamInv
<1>3. cursor \in Cursors /\ cursor.off \in Nat /\ cursor.set \in 0 .. MaxSets
      /\ cursor.off < Length[cursor.list]
  BY <1>1 DEF TypeOK, Cursors
<1>4. Left \in Nat /\ Left > 0 /\ Length[cursor.list] = cursor.off + Left
  BY <1>1, <1>3, BoundsNat DEF Left
<1>5. n \in Nat /\ n > 0 /\ n <= Left /\ (n < BlockSize => n = Left)
  BY <1>4, BoundsNat
<1>6. /\ more \in Seq(Frame) /\ more # <<>> /\ Len(more) = n
      /\ \A i \in 1 .. n : /\ more[i].set = cursor.set /\ more[i].at = cursor.off + i
                          /\ more[i].left = Left - i
  <2>1. \A i \in 1 .. n : [set |-> cursor.set, at |-> cursor.off + i, left |-> Left - i] \in Frame
    BY <1>3, <1>4, <1>5 DEF Frame
  <2>2. more = [i \in 1 .. n |-> [set |-> cursor.set, at |-> cursor.off + i, left |-> Left - i]]
    BY DEF Frames
  <2> HIDE DEF n, more
  <2>3. more \in Seq(Frame) /\ Len(more) = n
    BY <1>5, <2>1, <2>2
  <2>4. more # <<>>
    BY <1>5, <2>3, EmptySeq
  <2> QED BY <2>2, <2>3, <2>4
<1>7. cursor'.set = cursor.set /\ (n = Left => cursor'.list = Null /\ cursor'.off = 0)
      /\ (n # Left => cursor'.list = cursor.list /\ cursor'.off = cursor.off + n)
      /\ cursor' \in Cursors
  <2> HIDE DEF n, more
  <2>1. CASE n = Left
    <3>1. cursor' = [cursor EXCEPT !.list = Null, !.off = 0]
      BY <1>1, <2>1
    <3> QED BY <1>3, <2>1, <3>1 DEF Cursors
  <2>2. CASE n # Left
    <3>1. cursor' = [cursor EXCEPT !.off = @ + n] /\ cursor.off + n \in Nat
      BY <1>1, <1>3, <1>5, <2>2
    <3> QED BY <1>3, <2>2, <3>1 DEF Cursors
  <2> QED BY <2>1, <2>2
<1> HIDE DEF n, more
<1>8. /\ InputsInOrder' /\ heard' \in Seq(Frame) /\ heard' # <<>>
      /\ LastHeard' = more[n]
  <2>1. \A i \in 1 .. Len(more) - 1 : Follows(more[i], more[i + 1])
    <3> SUFFICES ASSUME NEW i \in 1 .. n - 1 PROVE Follows(more[i], more[i + 1])
      BY <1>6
    <3>1. i \in 1 .. n /\ i + 1 \in 1 .. n
      BY <1>5
    <3>2. /\ more[i].set = cursor.set /\ more[i].at = cursor.off + i
          /\ more[i + 1].set = cursor.set /\ more[i + 1].at = cursor.off + (i + 1)
      BY <1>6, <3>1
    <3>3. more[i + 1].at = more[i].at + 1
      BY <1>3, <3>2
    <3> QED BY <3>2, <3>3 DEF Follows
  <2>2. more[1].set = cursor.set /\ more[1].at = cursor.off + 1
    BY <1>5, <1>6
  <2>3. heard = <<>> => more[1].at \in {0, 1}
    BY <1>2, <2>2 DEF Ready, AtBeginning
  <2>4. heard # <<>> => Follows(LastHeard, more[1])
    BY <1>1, <1>2, <2>2 DEF Ready, AtBeginning, Continues, Follows
  <2>5. done' => more[Len(more)].left = 0
    <3> SUFFICES ASSUME done' PROVE more[n].left = 0
      BY <1>6
    <3>1. n = Left
      BY <1>1, <1>5
    <3>2. more[n].left = Left - n
      BY <1>5, <1>6
    <3> QED BY <1>4, <3>1, <3>2
  <2> QED BY <1>1, <1>2, <1>6, <2>1, <2>3, <2>4, <2>5, HeardGrows
<1>9. /\ LastHeard'.set = cursor'.set /\ LastHeard'.at = cursor.off + n
      /\ LastHeard'.left = Left - n
  BY <1>5, <1>6, <1>7, <1>8
<1>10. MemoryInv'
  <2>1. CASE n = Left
    <3>1. cursor'.list = Null /\ Recount(None3, <<cursor.list, Null, Null>>)
      BY <1>1, <1>7, <2>1
    <3>2. fresh' \subseteq fresh /\ surplus' \in [Objects -> Nat] /\ gets' \in 0 .. MaxGets
      BY <1>1, TypeFacts DEF TypeOK
    <3>3. ASSUME NEW p \in Objects
          PROVE  /\ Times(p, <<cursor.list, Null, Null>>) = Is(p, cursor.list) /\ Times(p, None3) = 0
                 /\ Pointers(p)' = Pointers(p) - Is(p, cursor.list)
                 /\ Is(p, cursor.list) \in Nat /\ Is(p, cursor.list) <= Pointers(p)
                 /\ Pointers(p) \in Nat
      <4>1. Is(p, Null) = 0 /\ \A x : Is(p, x) \in Nat
        BY IsNat, IsNull
      <4>2. UNCHANGED <<ref, plug, base, next, last, locals>>
        BY <1>1 DEF plugs, chase
      <4> QED BY <3>1, <4>1, <4>2, AudioMoves, PointersCount, TimesIs DEF None3
    <3>4. \A p \in Objects : surplus'[p] = surplus[p] /\ surplus[p] \in Nat
      BY <1>1, TypeFacts
    <3>5. gets' = gets /\ gets \in Nat
      BY <1>1, TypeFacts
    <3> QED BY <3>1, <3>2, <3>3, <3>4, <3>5, RecountStep
  <2>2. CASE n # Left
    <3>1. UNCHANGED <<fresh, count, freed, surplus, ref, plug, locals, chase, gets>>
          /\ cursor'.list = cursor.list
      BY <1>1, <1>7, <2>2 DEF plugs
    <3> QED BY <3>1
        DEF IInv, MemoryInv, CountsExact, FreshInv, LeaksInv, Pointers, locals, chase
  <2> QED BY <2>1, <2>2
<1>11. TypeOK' /\ PlaceInv' /\ PlugInv'
  <2>1. cursor'.list \in Objects => cursor'.off < Length[cursor'.list]
    BY <1>1, <1>3, <1>4, <1>5, <1>7, RegistersAssumption
  <2>2. TypeOK'
    <3>1. done' \in BOOLEAN /\ heard' \in Seq([set : 0 .. MaxSets, at : Nat, left : Nat])
      BY <1>1, <1>8 DEF Frame
    <3> QED BY <1>1, <1>7, <1>10, <2>1, <3>1 DEF TypeOK, MemoryInv, plugs, locals, chase
  <2>3. PlaceInv' /\ PlugInv'
    BY <1>1, <1>2, <1>7 DEF IInv, PlaceInv, PlugInv, PlugHasLastInput, Pulling, plugs, locals, chase
  <2> QED BY <2>2, <2>3
<1>12. StreamInv'
  <2>1. Continues(cursor)'
    BY <1>1, <1>4, <1>5, <1>7, <1>9, RegistersAssumption DEF Continues
  <2>2. Ready(cursor)'
    BY <1>8, <1>9, <2>1 DEF Ready
  <2>3. seen' # changes' => AtBeginning(plug)'
    BY <1>1, <1>2 DEF IInv, StreamInv, AtBeginning, plugs
  <2> QED BY <1>2, <1>8, <2>2, <2>3 DEF StreamInv
<1> QED BY <1>10, <1>11, <1>12 DEF IInv

(* The cursor is written back only if the plug has not been set; if it has *)
(* then the last frame heard is of an earlier input than the plug's.       *)
LEMMA WriteBackInv == ASSUME IInv, WriteBack PROVE IInv'
<1>1. /\ TypeOK /\ PlaceInv /\ audio = "filled" /\ cursor' = Nothing /\ audio' = "idle"
      /\ IF seen = changes
         THEN /\ plug' = cursor
              /\ Recount(<<cursor.list, Null, Null>>, <<plug.list, cursor.list, Null>>)
         ELSE /\ UNCHANGED plug
              /\ Recount(None3, <<cursor.list, Null, Null>>)
      /\ UNCHANGED <<fresh, surplus, ref, changes, sets, locals, seen, heard, done, chase, gets, pulls>>
  BY DEF IInv, WriteBack, Unchanged
<1>2. Pulling /\ ~ Pulling' /\ Ready(cursor) /\ InputsInOrder /\ cursor'.list = Null
  BY <1>1 DEF Pulling, IInv, StreamInv, Nothing
<1>3. /\ cursor.set = seen /\ plug.set = sets /\ changes = sets /\ seen <= sets
      /\ seen \in Nat /\ sets \in Nat
  BY <1>1, <1>2, TypeFacts DEF IInv, PlugInv, PlugHasLastInput
<1>4. MemoryInv'
  <2>1. fresh' \subseteq fresh /\ surplus' \in [Objects -> Nat] /\ gets' \in 0 .. MaxGets
    BY <1>1, TypeFacts DEF TypeOK
  <2>2. /\ \A p \in Objects : surplus'[p] = surplus[p] /\ surplus[p] \in Nat
        /\ gets' = gets /\ gets \in Nat
    BY <1>1, TypeFacts
  <2>3. ASSUME NEW p \in Objects
        PROVE  /\ Pointers(p)' = Pointers(p) + (Is(p, plug'.list) - Is(p, plug.list)) - Is(p, cursor.list)
               /\ Is(p, plug.list) \in Nat /\ Is(p, cursor.list) \in Nat /\ Is(p, plug'.list) \in Nat
               /\ Is(p, plug.list) + Is(p, cursor.list) <= Pointers(p)
               /\ Pointers(p) \in Nat /\ Is(p, Null) = 0
    <3>1. Is(p, Null) = 0 /\ \A x : Is(p, x) \in Nat
      BY IsNat, IsNull
    <3>2. UNCHANGED <<ref, base, next, last, locals>>
      BY <1>1 DEF chase
    <3>3. Pointers(p)' = Pointers(p) + (Is(p, plug'.list) - Is(p, plug.list)) - Is(p, cursor.list)
      BY <1>2, <3>1, <3>2, AudioMoves, PointersNat
    <3>4. Is(p, plug.list) + Is(p, cursor.list) <= Pointers(p)
      BY <3>1, PointersCount
    <3> QED BY <3>1, <3>3, <3>4, PointersNat
  <2>4. CASE seen = changes
    <3>1. plug' = cursor /\ Recount(<<cursor.list, Null, Null>>, <<plug.list, cursor.list, Null>>)
      BY <1>1, <2>4
    <3>2. ASSUME NEW p \in Objects
          PROVE  /\ Times(p, <<cursor.list, Null, Null>>) = Is(p, cursor.list)
                 /\ Times(p, <<plug.list, cursor.list, Null>>) = Is(p, plug.list) + Is(p, cursor.list)
                 /\ Pointers(p)' = Pointers(p) - Is(p, plug.list)
      BY <2>3, <3>1, TimesIs
    <3> QED BY <2>1, <2>2, <2>3, <3>1, <3>2, RecountStep
  <2>5. CASE seen # changes
    <3>1. plug' = plug /\ Recount(None3, <<cursor.list, Null, Null>>)
      BY <1>1, <2>5
    <3>2. ASSUME NEW p \in Objects
          PROVE  /\ Times(p, None3) = 0
                 /\ Times(p, <<cursor.list, Null, Null>>) = Is(p, cursor.list)
                 /\ Pointers(p)' = Pointers(p) - Is(p, cursor.list)
      BY <2>3, <3>1, TimesIs DEF None3
    <3> QED BY <2>1, <2>2, <2>3, <3>1, <3>2, RecountStep
  <2> QED BY <2>4, <2>5
<1>5. TypeOK' /\ PlaceInv' /\ PlugInv'
  <2>1. cursor' \in Cursors /\ cursor'.list \notin Objects
    BY <1>1, BoundsNat, RegistersAssumption DEF Nothing, Cursors
  <2>2. plug' \in Cursors /\ (plug'.list \in Objects => plug'.off < Length[plug'.list])
    BY <1>1 DEF TypeOK
  <2>3. TypeOK'
    BY <1>1, <1>4, <2>1, <2>2 DEF TypeOK, MemoryInv, locals, chase
  <2>4. plug'.set = sets'
    BY <1>1, <1>3
  <2>5. PlaceInv' /\ PlugInv'
    BY <1>1, <1>2, <2>4 DEF IInv, PlaceInv, PlugInv, PlugHasLastInput, Pulling, locals, chase, Nothing
  <2> QED BY <2>3, <2>5
<1>6. StreamInv'
  <2>1. InputsInOrder' /\ heard' = heard
    BY <1>1, <1>2 DEF InputsInOrder
  <2>2. CASE seen = changes
    <3>1. plug' = cursor
      BY <1>1, <2>2
    <3>2. Ready(plug)'
      BY <1>2, <2>1, <3>1 DEF Ready, AtBeginning, Continues, LastHeard
    <3> QED BY <1>2, <2>1, <3>2 DEF StreamInv
  <2>3. CASE seen # changes
    <3>1. plug' = plug /\ AtBeginning(plug)
      BY <1>1, <1>2, <2>3 DEF IInv, StreamInv
    <3>2. heard # <<>> => LastHeard.set < plug.set
      <4> SUFFICES ASSUME heard # <<>> PROVE LastHeard.set < plug.set
        OBVIOUS
      <4>1. LastHeard.set \in Nat
        BY <1>1, LastHeardType
      <4>2. LastHeard.set < seen \/ LastHeard.set = seen
        BY <1>2, <1>3 DEF Ready
      <4> QED BY <1>3, <2>3, <4>1, <4>2
    <3>3. Ready(plug)'
      BY <2>1, <3>1, <3>2 DEF Ready, AtBeginning, LastHeard
    <3> QED BY <1>2, <2>1, <3>3 DEF StreamInv
  <2> QED BY <2>2, <2>3
<1> QED BY <1>4, <1>5, <1>6 DEF IInv

-----------------------------------------------------------------------------
(* The audio thread chases the Ref                                         *)

LEMMA ChaseReadInv == ASSUME IInv, ChaseRead PROVE IInv'
<1>1. /\ TypeOK /\ PlaceInv /\ audio = "idle" /\ gets < MaxGets
      /\ Recount(<<ref, ref, Null>>, None3)
      /\ surplus' = [o \in Objects |-> surplus[o] + Is(o, ref)]
      /\ base' = ref /\ gets' = gets + 1 /\ audio' = "chase"
      /\ UNCHANGED <<fresh, ref, plugs, locals, next, last, stream>>
  BY DEF IInv, ChaseRead, Deref
<1>2. base = Null
  BY <1>1 DEF PlaceInv
<1>3. MemoryInv'
  <2>1. fresh' \subseteq fresh /\ surplus' \in [Objects -> Nat] /\ gets' \in 0 .. MaxGets
    <3>1. \A o \in Objects : surplus[o] + Is(o, ref) \in Nat
      BY <1>1, TypeFacts, IsNat
    <3> QED BY <1>1, <3>1, TypeFacts, BoundsNat
  <2>2. ASSUME NEW p \in Objects
        PROVE  /\ Times(p, <<ref, ref, Null>>) = Is(p, ref) + Is(p, ref) /\ Times(p, None3) = 0
               /\ Pointers(p)' = Pointers(p) + Is(p, ref)
               /\ Is(p, ref) \in {0, 1} /\ Is(p, ref) <= Pointers(p) /\ Pointers(p) \in Nat
    <3>1. Is(p, Null) = 0 /\ \A x : Is(p, x) \in Nat
      BY IsNat, IsNull
    <3>2. UNCHANGED <<ref, plug, cursor, next, last, locals>>
      BY <1>1 DEF plugs, stream
    <3>3. Pointers(p)' = Pointers(p) + Is(p, ref)
      BY <1>1, <1>2, <3>1, <3>2, AudioMoves, PointersNat
    <3>4. Is(p, ref) <= Pointers(p)
      BY <3>1, PointersCount
    <3> QED BY <3>1, <3>3, <3>4, IsNat, PointersNat, TimesIs DEF None3
  <2>3. \A p \in Objects : surplus'[p] = surplus[p] + Is(p, ref) /\ surplus[p] \in Nat
    BY <1>1, TypeFacts
  <2>4. gets' = gets + 1 /\ gets \in Nat
    BY <1>1, TypeFacts
  <2> QED BY <1>1, <2>1, <2>2, <2>3, <2>4, RecountStep
<1>4. TypeOK'
  <2>1. gets' \in 0 .. MaxGets
    BY <1>1, TypeFacts, BoundsNat
  <2> QED BY <1>1, <1>3, <2>1 DEF TypeOK, MemoryInv, plugs, stream, locals
<1>5. PlaceInv' /\ PlugInv' /\ StreamInv'
  <2>1. base' # Null
    BY <1>1, RegistersAssumption DEF TypeOK, Values
  <2> QED BY <1>1, <2>1, StreamKept DEF PlaceInv, Pulling, plugs, stream, locals
<1> QED BY <1>3, <1>4, <1>5 DEF IInv

LEMMA ChaseWriteInv == ASSUME IInv, ChaseWrite PROVE IInv'
<1>1. PICK w \in Chased(base) : /\ next' = w /\ last' = ref /\ ref' = w /\ fresh' = fresh \ {w}
                               /\ Recount(<<w, w, Null>>, None3)
  BY DEF ChaseWrite
<1>2. /\ TypeOK /\ PlaceInv /\ audio = "chase" /\ audio' = "chased"
      /\ UNCHANGED <<surplus, plugs, locals, base, stream, gets>>
  BY DEF IInv, ChaseWrite
<1>3. next = Null /\ last = Null
  BY <1>2 DEF PlaceInv
<1>4. w \in fresh \/ w = base \/ w = Number
  BY <1>1 DEF Chased
<1>5. w \in Values
  <2>1. base \in Values /\ fresh \subseteq Objects
    BY <1>2 DEF TypeOK, PlaceInv
  <2> QED BY <1>4, <2>1 DEF Values
<1>6. MemoryInv'
  <2>1. fresh' \subseteq fresh /\ surplus' \in [Objects -> Nat] /\ gets' \in 0 .. MaxGets
    BY <1>1, <1>2, TypeFacts DEF TypeOK
  <2>2. ASSUME NEW p \in Objects
        PROVE  /\ Times(p, <<w, w, Null>>) = Is(p, w) + Is(p, w) /\ Times(p, None3) = 0
               /\ Pointers(p)' = Pointers(p) + Is(p, w) + Is(p, w)
               /\ Is(p, w) \in {0, 1} /\ Pointers(p) \in Nat
    <3>1. Is(p, Null) = 0 /\ \A x : Is(p, x) \in Nat
      BY IsNat, IsNull
    <3>2. UNCHANGED <<plug, cursor, base, locals>>
      BY <1>2 DEF plugs, stream
    <3>3. Pointers(p)' = Pointers(p) + Is(p, w) + Is(p, w)
      BY <1>1, <1>3, <3>1, <3>2, AudioMoves, PointersNat
    <3> QED BY <3>1, <3>3, IsNat, PointersNat, TimesIs DEF None3
  <2>3. ASSUME NEW p \in Objects, Pointers(p) = 0, p \notin fresh \ fresh'
        PROVE  Is(p, w) = 0
    <3>1. \A x : Is(p, x) \in Nat
      BY IsNat
    <3>2. Is(p, base) = 0
      BY <2>3, <3>1, PointersCount
    <3>3. w \in fresh => p # w
      BY <1>1, <2>3
    <3> QED BY <1>4, <3>2, <3>3, IsNat, IsNull
  <2>4. \A p \in Objects : surplus'[p] = surplus[p] /\ surplus[p] \in Nat
    BY <1>2, TypeFacts
  <2>5. gets' = gets /\ gets \in Nat
    BY <1>2, TypeFacts
  <2> QED BY <1>1, <2>1, <2>2, <2>3, <2>4, <2>5, RecountStep
<1>7. TypeOK'
  BY <1>1, <1>2, <1>5, <1>6 DEF TypeOK, MemoryInv, plugs, stream, locals
<1>8. PlaceInv' /\ PlugInv' /\ StreamInv'
  BY <1>2, StreamKept DEF PlaceInv, Pulling, plugs, stream, locals
<1> QED BY <1>6, <1>7, <1>8 DEF IInv

LEMMA ChaseReturnInv == ASSUME IInv, ChaseReturn PROVE IInv'
<1>1. /\ TypeOK /\ PlaceInv /\ audio = "chased" /\ audio' = "idle"
      /\ Recount(None3, <<last, next, base>>)
      /\ base' = Null /\ next' = Null /\ last' = Null
      /\ UNCHANGED <<fresh, surplus, ref, plugs, locals, stream, gets>>
  BY DEF IInv, ChaseReturn
<1>2. MemoryInv'
  <2>1. fresh' \subseteq fresh /\ surplus' \in [Objects -> Nat] /\ gets' \in 0 .. MaxGets
    BY <1>1, TypeFacts DEF TypeOK
  <2>2. ASSUME NEW p \in Objects
        PROVE  LET freedNow == Is(p, last) + Is(p, next) + Is(p, base)
               IN  /\ Times(p, <<last, next, base>>) = freedNow /\ Times(p, None3) = 0
                   /\ Pointers(p)' = Pointers(p) - freedNow
                   /\ freedNow \in Nat /\ freedNow <= Pointers(p) /\ Pointers(p) \in Nat
    <3>1. Is(p, Null) = 0 /\ \A x : Is(p, x) \in Nat
      BY IsNat, IsNull
    <3>2. UNCHANGED <<ref, plug, cursor, locals>>
      BY <1>1 DEF plugs, stream
    <3>3. Pointers(p)' = Pointers(p) - (Is(p, last) + Is(p, next) + Is(p, base))
      BY <1>1, <3>1, <3>2, AudioMoves, PointersNat
    <3>4. Is(p, last) + Is(p, next) + Is(p, base) <= Pointers(p)
      BY <3>1, PointersCount
    <3> QED BY <3>1, <3>3, <3>4, PointersNat, TimesIs DEF None3
  <2>3. \A p \in Objects : surplus'[p] = surplus[p] /\ surplus[p] \in Nat
    BY <1>1, TypeFacts
  <2>4. gets' = gets /\ gets \in Nat
    BY <1>1, TypeFacts
  <2> QED BY <1>1, <2>1, <2>2, <2>3, <2>4, RecountStep
<1>3. TypeOK'
  BY <1>1, <1>2 DEF TypeOK, MemoryInv, plugs, stream, locals
<1>4. PlaceInv' /\ PlugInv' /\ StreamInv'
  BY <1>1, StreamKept DEF PlaceInv, Pulling, plugs, stream, locals
<1> QED BY <1>2, <1>3, <1>4 DEF IInv

-----------------------------------------------------------------------------
(* The theorems                                                            *)

LEMMA StutterInv == ASSUME IInv, UNCHANGED vars PROVE IInv'
<1>1. /\ UNCHANGED <<fresh, count, freed, surplus, ref, plug, changes, pc, value, old, audio>>
      /\ UNCHANGED <<cursor, seen, base, next, last, heard, done, sets, gets, pulls>>
  BY DEF vars
<1>2. TypeOK' /\ MemoryInv'
  BY <1>1, ZenonT(40) DEF IInv, TypeOK, MemoryInv, CountsExact, FreshInv, LeaksInv, Pointers
<1>3. PlaceInv' /\ PlugInv' /\ StreamInv'
  BY <1>1, StreamKept DEF IInv, PlaceInv, Pulling
<1> QED BY <1>2, <1>3 DEF IInv

(* Whatever a thread does, the inductive invariant stays.                  *)
LEMMA NextInv == IInv /\ [Next]_vars => IInv'
<1> SUFFICES ASSUME IInv, [Next]_vars PROVE IInv'
  OBVIOUS
<1>1. ASSUME NEW t \in Threads, Interpreter(t) PROVE IInv'
  BY <1>1, MakeListInv, DropInv, SetRefInv, ReleaseOldInv, GetRefInv, SetPlugInv DEF Interpreter
<1>2. CASE AudioThread
  BY <1>2, GetPlugInv, FillConstantInv, FillFromListInv, FillNothingInv, WriteBackInv,
     ChaseReadInv, ChaseWriteInv, ChaseReturnInv DEF AudioThread
<1>3. CASE UNCHANGED vars
  BY <1>3, StutterInv
<1> QED BY <1>1, <1>2, <1>3 DEF Next

LEMMA Inductive == Spec => []IInv
BY InitInv, NextInv, PTL DEF Spec

(* Every variable keeps its type: a reference count never goes below zero, *)
(* and no cursor ever stands behind the end of its list.                   *)
THEOREM TypeCorrect == Spec => []TypeOK
<1>1. IInv => TypeOK
  BY DEF IInv
<1> QED BY <1>1, Inductive, PTL

(* Every retain and release of Ref::set, deref and chase, of setPlug,      *)
(* getPlug and pull is accounted for: the count of an object is the        *)
(* pointers to it and what deref leaked, and no pointer is left to an      *)
(* object that has been deleted.                                           *)
THEOREM ReferencesCounted == Spec => []CountsExact
<1>1. IInv => CountsExact
  BY DEF IInv, MemoryInv
<1> QED BY <1>1, Inductive, PTL

(* A pull that began before the plug was set never takes it back.          *)
THEOREM PlugKept == Spec => []PlugHasLastInput
<1>1. IInv => PlugHasLastInput
  BY DEF IInv, PlugInv
<1> QED BY <1>1, Inductive, PTL

(* The stream of a plug has its inputs' frames in order, each once.        *)
THEOREM StreamInOrder == Spec => []InputsInOrder
<1>1. IInv => InputsInOrder
  BY DEF IInv, StreamInv
<1> QED BY <1>1, Inductive, PTL
=============================================================================
