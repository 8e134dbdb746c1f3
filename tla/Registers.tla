----------------------------- MODULE Registers -----------------------------
(***************************************************************************)
(* The mutable objects of SAPF that interpreter threads write while an     *)
(* audio thread uses them: a Ref, and the Plug of a pair (plug, stream).   *)
(* Both hold their value under a spinlock and change its reference count   *)
(* outside or inside it.  The audio thread chases the Ref (OverlapAdd      *)
(* advances the signals of a form that way) and pulls the plug's stream    *)
(* (PlugOut), whose cursor it copies out of the plug, advances without the *)
(* lock and writes back if the plug has not been set meanwhile.            *)
(*                                                                         *)
(* An object is a packed list.  What happens between                       *)
(* taking and releasing the spinlock is one action, together with what the *)
(* thread does to objects it holds itself.                                 *)
(***************************************************************************)
EXTENDS Naturals, FiniteSets, Sequences

CONSTANTS
  Threads,   (* interpreter threads                                        *)
  Objects,   (* the lists the program makes                                *)
  Number,    (* a value that is not an object                              *)
  Null,      (* no value                                                   *)
  Length,    (* how many values each list has                              *)
  BlockSize, (* mBlockSize of the plug's stream                            *)
  MaxGets,   (* bound: how often deref is called                           *)
  MaxSets,   (* bound: how often the plug is set                           *)
  MaxPulls   (* bound: how often the plug's stream is pulled               *)

ASSUME RegistersAssumption ==
  /\ Number \notin Objects /\ Null \notin Objects /\ Number # Null
  /\ Length \in [Objects -> Nat \ {0}] /\ BlockSize \in Nat \ {0}
  /\ {MaxGets, MaxSets, MaxPulls} \subseteq Nat
  /\ IsFiniteSet(Threads)

Values == Objects \cup {Number}

VARIABLES
  fresh,     (* objects that do not exist yet                              *)
  count,     (* reference counts                                           *)
  freed,     (* objects that have been deleted                             *)
  surplus,   (* surplus[o]: references to o that nobody will ever release  *)
  ref,       (* what the Ref refers to                                     *)
  plug,      (* the plug's VIn: its list, its offset, and which set it is of *)
  changes,   (* mChangeCount                                               *)
  pc, value, old, (* per interpreter thread: where it is, the value on its *)
             (* stack, and oldval of Ref::set                              *)
  audio,     (* where the audio thread is                                  *)
  cursor, seen, (* in and changeCount of PlugOut::pull                     *)
  base, next, last, (* chase: the value read, the one computed, oldval     *)
  heard,     (* the frames of the plug's stream so far                     *)
  done,      (* mDone of the plug's generator                              *)
  sets, gets, pulls

memory == <<fresh, count, freed, surplus>>
plugs  == <<plug, changes, sets>>
stream == <<cursor, seen, heard, done, pulls>>
chase  == <<base, next, last>>
locals == <<pc, value, old>>
vars   == <<fresh, count, freed, surplus, ref, plug, changes, pc, value, old, audio,
            cursor, seen, base, next, last, heard, done, sets, gets, pulls>>

Nothing == [list |-> Null, off |-> 0, set |-> 0]

(* The plug starts with a number; so does the Ref. *)
Init ==
  /\ fresh = Objects /\ freed = {}
  /\ count = [o \in Objects |-> 0] /\ surplus = [o \in Objects |-> 0]
  /\ ref = Number
  /\ plug = [list |-> Number, off |-> 0, set |-> 0] /\ changes = 0
  /\ pc = [t \in Threads |-> "idle"]
  /\ value = [t \in Threads |-> Null] /\ old = [t \in Threads |-> Null]
  /\ audio = "idle" /\ cursor = Nothing /\ seen = 0
  /\ base = Null /\ next = Null /\ last = Null
  /\ heard = <<>> /\ done = FALSE
  /\ sets = 0 /\ gets = 0 /\ pulls = 0

(* Retaining and releasing: up to three values each; what is not an object *)
(* has no count.  An object whose last reference goes is deleted.          *)
Is(o, v) == IF v = o THEN 1 ELSE 0
Times(o, vs) == Is(o, vs[1]) + Is(o, vs[2]) + Is(o, vs[3])
Recount(gained, lost) ==
  /\ count' = [o \in Objects |-> count[o] + Times(o, gained) - Times(o, lost)]
  /\ freed' = freed \cup {o \in Objects : Times(o, lost) > 0 /\ count'[o] = 0}
None3 == <<Null, Null, Null>>

-----------------------------------------------------------------------------
(* Interpreter threads                                                     *)

Calls(t) == pc[t] = "idle"

(* The program makes a list, which is on its stack. *)
MakeList(t) ==
  /\ Calls(t) /\ value[t] = Null
  /\ \E o \in fresh :
       /\ fresh' = fresh \ {o}
       /\ value' = [value EXCEPT ![t] = o]
       /\ Recount(<<o, Null, Null>>, None3)
  /\ UNCHANGED <<surplus, ref, plugs, pc, old, audio, stream, chase, gets>>

(* The value on the stack is popped and forgotten. *)
Drop(t) ==
  /\ Calls(t) /\ value[t] # Null
  /\ Recount(None3, <<value[t], Null, Null>>)
  /\ value' = [value EXCEPT ![t] = Null]
  /\ UNCHANGED <<fresh, surplus, ref, plugs, pc, old, audio, stream, chase, gets>>

(* Ref::set: the new value is retained, and changes places with the old. *)
SetRefTo(t, v) ==
  /\ ref' = v /\ old' = [old EXCEPT ![t] = ref]
  /\ Recount(<<v, Null, Null>>, None3)
SetRef(t) ==
  /\ Calls(t) /\ value[t] # Null
  /\ SetRefTo(t, value[t])
  /\ pc' = [pc EXCEPT ![t] = "swapped"]
  /\ UNCHANGED <<fresh, surplus, plugs, value, audio, stream, chase, gets>>

ReleaseOnlyValue(t) ==                                           (* mutant *)
  /\ pc[t] = "swapped"
  /\ Recount(None3, <<value[t], Null, Null>>)
  /\ value' = [value EXCEPT ![t] = Null] /\ old' = [old EXCEPT ![t] = Null]
  /\ pc' = [pc EXCEPT ![t] = "idle"]
  /\ UNCHANGED <<fresh, surplus, ref, plugs, audio, stream, chase, gets>>
(* After the lock has been released: oldval, and the value of set_. *)
ReleaseOld(t) ==
  /\ pc[t] = "swapped"
  /\ Recount(None3, <<old[t], value[t], Null>>)
  /\ value' = [value EXCEPT ![t] = Null] /\ old' = [old EXCEPT ![t] = Null]
  /\ pc' = [pc EXCEPT ![t] = "idle"]
  /\ UNCHANGED <<fresh, surplus, ref, plugs, audio, stream, chase, gets>>

(* Ref::deref: "out = o" retains for the value that is returned, and       *)
(* "o->retain()" once more, which no one ever makes good.                  *)
Deref(v) ==
  /\ Recount(<<v, v, Null>>, None3)
  /\ surplus' = [o \in Objects |-> surplus[o] + Is(o, v)]

GetRef(t) ==
  /\ Calls(t) /\ value[t] = Null /\ gets < MaxGets
  /\ Deref(ref)
  /\ value' = [value EXCEPT ![t] = ref]
  /\ gets' = gets + 1
  /\ UNCHANGED <<fresh, ref, plugs, pc, old, audio, stream, chase>>

Counted == changes + 1

(* VIn::set: a list from its beginning, or a constant. *)
Fresh(v) == [list |-> v, off |-> 0, set |-> sets + 1]

(* Plug::setPlug(Arg): the list that was there is released under the lock; *)
(* so is, by set_, the value afterwards.                                   *)
SetPlug(t) ==
  /\ Calls(t) /\ value[t] # Null /\ sets < MaxSets
  /\ plug' = Fresh(value[t]) /\ changes' = Counted /\ sets' = sets + 1
  /\ Recount(<<value[t], Null, Null>>, <<plug.list, value[t], Null>>)
  /\ value' = [value EXCEPT ![t] = Null]
  /\ UNCHANGED <<fresh, surplus, ref, pc, old, audio, stream, chase, gets>>

Interpreter(t) ==
  MakeList(t) \/ Drop(t) \/ SetRef(t) \/ ReleaseOld(t) \/ GetRef(t) \/ SetPlug(t)

-----------------------------------------------------------------------------
(* PlugOut::pull on the audio thread                                       *)

(* getPlug copies the cursor, and with it a reference to the list. *)
GetPlug ==
  /\ audio = "idle" /\ ~ done /\ pulls < MaxPulls
  /\ cursor' = plug /\ seen' = changes /\ pulls' = pulls + 1
  /\ Recount(<<plug.list, Null, Null>>, None3)
  /\ audio' = "pull"
  /\ UNCHANGED <<fresh, surplus, ref, plugs, locals, chase, heard, done, gets>>

(* A constant fills the block. *)
FillConstant ==
  /\ audio = "pull" /\ cursor.list = Number
  /\ heard' = heard \o [i \in 1 .. BlockSize |-> [set |-> cursor.set, at |-> 0, left |-> 1]]
  /\ audio' = "filled"
  /\ UNCHANGED <<memory, ref, plugs, locals, cursor, seen, chase, done, gets, pulls>>

(* A list gives what it has left; at its end In::advance lets go of it,    *)
(* and if the block is not full then the stream is done.                   *)
Left == Length[cursor.list] - cursor.off
Frames(n) == [i \in 1 .. n |-> [set |-> cursor.set, at |-> cursor.off + i, left |-> Left - i]]
Ends(n) == n < BlockSize
FillFromList ==
  LET n == IF Left < BlockSize THEN Left ELSE BlockSize
  IN  /\ audio = "pull" /\ cursor.list \in Objects
      /\ heard' = heard \o Frames(n)
      /\ done' = Ends(n)
      /\ IF n = Left
         THEN /\ cursor' = [cursor EXCEPT !.list = Null, !.off = 0]
              /\ Recount(None3, <<cursor.list, Null, Null>>)
         ELSE /\ cursor' = [cursor EXCEPT !.off = @ + n]
              /\ UNCHANGED <<count, freed>>
      /\ audio' = "filled"
      /\ UNCHANGED <<fresh, surplus, ref, plugs, locals, seen, chase, gets, pulls>>

(* A cursor that had come to the end before. *)
FillNothing ==
  /\ audio = "pull" /\ cursor.list = Null
  /\ done' = TRUE
  /\ audio' = "filled"
  /\ UNCHANGED <<memory, ref, plugs, locals, cursor, seen, heard, chase, gets, pulls>>

ChangesIgnored == TRUE                                           (* mutant *)
NeverCurrent == FALSE                                            (* mutant *)
Unchanged == seen = changes

(* setPlug(VIn, changeCount), and the end of pull. *)
WriteBack ==
  /\ audio = "filled"
  /\ IF Unchanged
     THEN /\ plug' = cursor
          /\ Recount(<<cursor.list, Null, Null>>, <<plug.list, cursor.list, Null>>)
     ELSE /\ UNCHANGED plug
          /\ Recount(None3, <<cursor.list, Null, Null>>)
  /\ cursor' = Nothing
  /\ audio' = "idle"
  /\ UNCHANGED <<fresh, surplus, ref, changes, sets, locals, seen, heard, done, chase, gets, pulls>>

-----------------------------------------------------------------------------
(* Ref::chase on the audio thread                                          *)

ChaseRead ==
  /\ audio = "idle" /\ gets < MaxGets
  /\ Deref(ref)
  /\ base' = ref /\ gets' = gets + 1
  /\ audio' = "chase"
  /\ UNCHANGED <<fresh, ref, plugs, locals, next, last, stream>>

(* What chase computes for a signal is the rest of it, a new list, or the  *)
(* list itself if there is nothing to skip; a list of values comes out as  *)
(* a null pointer, the number 0; a number stays what it is.  Then Ref::set *)
(* replaces whatever the Ref holds by now.                                 *)
Chased(v) == IF v = Number THEN {Number} ELSE {v, Number} \cup fresh
ChaseWrite ==
  /\ audio = "chase"
  /\ \E w \in Chased(base) :
       /\ next' = w /\ last' = ref /\ ref' = w
       /\ fresh' = fresh \ {w}
       /\ Recount(<<w, w, Null>>, None3)
  /\ audio' = "chased"
  /\ UNCHANGED <<surplus, plugs, locals, base, stream, gets>>

ChaseReturn ==
  /\ audio = "chased"
  /\ Recount(None3, <<last, next, base>>)
  /\ base' = Null /\ next' = Null /\ last' = Null
  /\ audio' = "idle"
  /\ UNCHANGED <<fresh, surplus, ref, plugs, locals, stream, gets>>

AudioThread ==
  \/ GetPlug \/ FillConstant \/ FillFromList \/ FillNothing \/ WriteBack
  \/ ChaseRead \/ ChaseWrite \/ ChaseReturn

Next == AudioThread \/ \E t \in Threads : Interpreter(t)
Spec == Init /\ [][Next]_vars

-----------------------------------------------------------------------------
Cursors == [list : Values \cup {Null}, off : Nat, set : 0 .. MaxSets]

TypeOK ==
  /\ fresh \subseteq Objects /\ freed \subseteq Objects \ fresh
  /\ count \in [Objects -> Nat] /\ surplus \in [Objects -> 0 .. MaxGets]
  /\ ref \in Values /\ plug \in Cursors
  /\ \A c \in {plug, cursor} : c.list \in Objects => c.off < Length[c.list]
  /\ changes \in 0 .. MaxSets
  /\ pc \in [Threads -> {"idle", "swapped"}]
  /\ value \in [Threads -> Values \cup {Null}] /\ old \in [Threads -> Values \cup {Null}]
  /\ audio \in {"idle", "pull", "filled", "chase", "chased"}
  /\ cursor \in Cursors /\ seen \in 0 .. MaxSets
  /\ {base, next, last} \subseteq Values \cup {Null}
  /\ heard \in Seq([set : 0 .. MaxSets, at : Nat, left : Nat]) /\ done \in BOOLEAN
  /\ sets \in 0 .. MaxSets /\ gets \in 0 .. MaxGets /\ pulls \in 0 .. MaxPulls

(* Every pointer to an object that the program may still follow.           *)
Pointers(o) ==
  Is(o, ref) + Is(o, plug.list) + Is(o, cursor.list) + Is(o, base) + Is(o, next) + Is(o, last)
  + Cardinality({t \in Threads : value[t] = o}) + Cardinality({t \in Threads : old[t] = o})

(* An object has one reference for every pointer to it, plus one for each  *)
(* call of Ref::deref that returned it: retains and releases that are made *)
(* with and without the lock by three threads add up, and what leaks       *)
(* comes from deref alone.  Nobody is left with a pointer to an object     *)
(* that has been deleted.                                                  *)
CountsExact ==
  \A o \in Objects :
    /\ count[o] = Pointers(o) + surplus[o]
    /\ o \in freed => Pointers(o) = 0

(* An input that is set while a pull is under way is not overwritten by    *)
(* the cursor the pull writes back: between pulls and during them the plug *)
(* has the input that was set last.                                        *)
PlugHasLastInput == plug.set = sets

(* The stream of a plug is made of its inputs, each from its first frame,  *)
(* in the order they were set, with no frame skipped or given twice.  It   *)
(* ends when, and only when, a pull has come to the end of an input and    *)
(* given out its last frame.  (An input that is set during that pull is    *)
(* never heard, as the generator is done.)                                 *)
Follows(f, g) ==
  \/ g.set = f.set /\ (g.at = f.at + 1 \/ (g.at = 0 /\ f.at = 0))
  \/ g.set > f.set /\ g.at \in {0, 1}
InputsInOrder ==
  /\ heard # <<>> => heard[1].at \in {0, 1}
  /\ \A i \in 1 .. Len(heard) - 1 : Follows(heard[i], heard[i + 1])
  /\ done => heard # <<>> /\ heard[Len(heard)].left = 0
=============================================================================
