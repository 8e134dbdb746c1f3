------------------------------ MODULE LazyList ------------------------------
(***************************************************************************)
(* The lazy streams of SAPF (Object.hpp, Object.cpp): chains of List cells *)
(* that a Gen fills on demand, and the In cursors that read them.          *)
(*                                                                         *)
(* A list is a chain of cells 0, 1, 2, ...  A cell is a thunk while its    *)
(* mGen is set; forcing a thunk runs Gen::pull under the cell's spinlock,  *)
(* which fulfills the cell with an array of BlockSize frames, hangs a new  *)
(* thunk behind it, writes the frames and calls produce.  The generator is *)
(* itself a client of another list, which its pull forces in turn, so one  *)
(* thread may hold the locks of one cell of every list of a pipeline.      *)
(*                                                                         *)
(* A client is a reader (a thread of the REPL or of an audio backend with  *)
(* its In cursor) or a generator (its In cursor, moved only while the      *)
(* generator is pulled).  The k-th item of every list is represented by k; *)
(* the value V() that a fresh array holds is Unwritten.                    *)
(***************************************************************************)
EXTENDS Naturals, Sequences

CONSTANTS
  Readers,    (* threads that read a list                                  *)
  Gens,       (* the generators; the list a generator fills has its name   *)
  Root,       (* the packed list every pipeline starts from                *)
  Input,      (* the list each client reads                                *)
  Length,     (* the number of items of Root                               *)
  BlockSize,  (* mBlockSize of each generator                              *)
  Faulty,     (* <<g, k>>: computing item k throws inside the pull of g    *)
  MaxCell,    (* bound: no list has a cell beyond this index               *)
  MaxReads,   (* bound: how often a reader starts the list from its head   *)
  None        (* a null pointer, a free lock, no client                    *)

Lists   == Gens \cup {Root}
Clients == Readers \cup Gens
Cells   == 0 .. MaxCell

ASSUME ListAssumption ==
  /\ Readers \cap Gens = {}
  /\ Root \notin Gens
  /\ None \notin Clients \cup Lists \cup Nat \cup Seq(Nat)
  /\ Input \in [Clients -> Lists]
  /\ Length \in Nat
  /\ BlockSize \in [Gens -> Nat \ {0}]
  /\ MaxCell \in Nat \ {0}
  /\ MaxReads \in Nat \ {0}

VARIABLES
  thunk,    (* thunk[l]: the cells of l whose mGen is set                  *)
  next,     (* next[l]: the cells of l whose mNext is set                  *)
  array,    (* array[l][i]: mArray of cell i, None while it is null        *)
  lock,     (* lock[l][i]: the client holding mSpinLock of cell i          *)
  out,      (* out[g]: mOut, the cell the next block goes to               *)
  done,     (* done[g]: mDone                                              *)
  puller,   (* puller[g]: the client inside g->pull(), None if there is none *)
  filled,   (* filled[g]: frames written by the pull in progress           *)
  pc,       (* pc[c]: where client c is in the calls below                 *)
  at, off,  (* mList (None is null) and mOffset of the client's cursor     *)
  got,      (* got[r]: the items reader r took since it started            *)
  reads,    (* reads[r]: how often reader r started                        *)
  aborted   (* assert(mGen) failed                                         *)

cells  == <<thunk, next, array, lock>>
gen    == <<out, done, puller, filled>>
cursor == <<at, off>>
vars   == <<thunk, next, array, lock, out, done, puller, filled, pc, at, off,
            got, reads, aborted>>

Unwritten == 0
Blocks == Seq(Nat)
Min2(a, b) == IF a < b THEN a ELSE b

PCs == {"idle", "lock", "held", "pulling", "chunk", "eof", "thrown", "failed"}

-----------------------------------------------------------------------------
(* Every reader's variable refers to the head of its list; every generator *)
(* has been attached to a fresh thunk (List::List(P<Gen>)).                *)
Init ==
  /\ thunk  = [l \in Lists |-> IF l = Root THEN {} ELSE {0}]
  /\ next   = [l \in Lists |-> {}]
  /\ array  = [l \in Lists |-> [i \in Cells |->
                 IF l = Root /\ i = 0 THEN [k \in 1 .. Length |-> k] ELSE None]]
  /\ lock   = [l \in Lists |-> [i \in Cells |-> None]]
  /\ out    = [g \in Gens |-> 0]
  /\ done   = [g \in Gens |-> FALSE]
  /\ puller = [g \in Gens |-> None]
  /\ filled = [g \in Gens |-> 0]
  /\ pc     = [c \in Clients |-> "idle"]
  /\ at     = [c \in Clients |-> 0]
  /\ off    = [c \in Clients |-> 0]
  /\ got    = [r \in Readers |-> <<>>]
  /\ reads  = [r \in Readers |-> 1]
  /\ aborted = FALSE

-----------------------------------------------------------------------------
(* The cursor: VIn::operator() and In::advance.                            *)

Goto(c, label) == pc' = [pc EXCEPT ![c] = label]

(* mNext of the cell the cursor is on. *)
NextCell(c) == IF at[c] \in next[Input[c]] THEN at[c] + 1 ELSE None

(* mArray->size() - mOffset *)
Avail(c) == Len(array[Input[c]][at[c]]) - off[c]

(* In::advance: the cursor leaves a cell it has read to its end. *)
Advance(c, n) ==
  IF off[c] + n = Len(array[Input[c]][at[c]])
  THEN /\ at'  = [at EXCEPT ![c] = NextCell(c)]
       /\ off' = [off EXCEPT ![c] = 0]
  ELSE /\ off' = [off EXCEPT ![c] = @ + n]
       /\ UNCHANGED at

(* A reader asks for more at any time; a generator while its pull still    *)
(* has frames to fill.                                                     *)
Wants(c) == c \in Gens => puller[c] # None /\ filled[c] < BlockSize[c]

(* VIn::operator() is entered: with a null mList the stream has ended. *)
Call(c) ==
  /\ pc[c] = "idle" /\ Wants(c)
  /\ Goto(c, IF at[c] = None THEN "eof" ELSE "lock")
  /\ UNCHANGED <<cells, gen, cursor, got, reads, aborted>>

(* A cell without items: the cursor moves on, keeping its offset. *)
Skip(c) ==
  /\ pc[c] = "chunk" /\ Avail(c) = 0
  /\ IF NextCell(c) = None
     THEN Goto(c, "eof") /\ UNCHANGED at
     ELSE Goto(c, "lock") /\ at' = [at EXCEPT ![c] = NextCell(c)]
  /\ UNCHANGED <<cells, gen, off, got, reads, aborted>>

(* A reader consumes n of the items it was handed. *)
Take(r) ==
  /\ pc[r] = "chunk" /\ Avail(r) # 0
  /\ \E n \in 1 .. Avail(r) :
       /\ got' = [got EXCEPT ![r] = @ \o
                    SubSeq(array[Input[r]][at[r]], off[r] + 1, off[r] + n)]
       /\ Advance(r, n)
  /\ Goto(r, "idle")
  /\ UNCHANGED <<cells, gen, reads, aborted>>

(* The program evaluates the same variable again, after the end of the     *)
(* list or after catching an exception (the repl loop, the try primitive). *)
Reread(r) ==
  /\ pc[r] \in {"eof", "failed"} /\ reads[r] < MaxReads
  /\ Goto(r, "idle")
  /\ at'    = [at EXCEPT ![r] = 0]
  /\ off'   = [off EXCEPT ![r] = 0]
  /\ got'   = [got EXCEPT ![r] = <<>>]
  /\ reads' = [reads EXCEPT ![r] = @ + 1]
  /\ UNCHANGED <<cells, gen, aborted>>

-----------------------------------------------------------------------------
(* List::force: everything between the two ends of the SpinLocker.         *)

LockIgnored(c, owner) == UNCHANGED lock                          (* mutant *)
LockKept(c, owner) == lock' = [lock EXCEPT ![Input[c]][at[c]] = c]  (* mutant *)
LockCell(c, owner) == lock' = [lock EXCEPT ![Input[c]][at[c]] = owner]

(* assert(mGen) of List::end and List::fulfill, both called on mOut. *)
HasGen(g) == out[g] \in thunk[g]

(* List::end *)
EndPrevious(g) ==                                                (* mutant *)
  LET o == IF out[g] = 0 THEN 0 ELSE out[g] - 1
  IN /\ thunk' = [thunk EXCEPT ![g] = @ \ {out[g]}]
     /\ next'  = [next EXCEPT ![g] = @ \ {o}]
     /\ array' = [array EXCEPT ![g][o] = <<>>]
End(g) ==
  /\ thunk' = [thunk EXCEPT ![g] = @ \ {out[g]}]
  /\ next'  = [next EXCEPT ![g] = @ \ {out[g]}]
  /\ array' = [array EXCEPT ![g][out[g]] = <<>>]

(* List::fulfill: mOut gets an array of default values, and mGen moves to  *)
(* a new cell behind it.                                                   *)
FulfillKeepsGen(g) ==                                            (* mutant *)
  /\ thunk' = [thunk EXCEPT ![g] = @ \cup {out[g] + 1}]
  /\ next'  = [next EXCEPT ![g] = @ \cup {out[g]}]
  /\ array' = [array EXCEPT ![g][out[g]] = [k \in 1 .. BlockSize[g] |-> Unwritten]]
Fulfill(g) ==
  /\ thunk' = [thunk EXCEPT ![g] = (@ \ {out[g]}) \cup {out[g] + 1}]
  /\ next'  = [next EXCEPT ![g] = @ \cup {out[g]}]
  /\ array' = [array EXCEPT ![g][out[g]] = [k \in 1 .. BlockSize[g] |-> Unwritten]]

Acquire(c) ==
  /\ pc[c] = "lock"
  /\ lock[Input[c]][at[c]] = None
  /\ LockCell(c, c)
  /\ Goto(c, "held")
  /\ UNCHANGED <<thunk, next, array, gen, cursor, got, reads, aborted>>

(* The cell was fulfilled already. *)
ForceFilled(c) ==
  /\ pc[c] = "held" /\ at[c] \notin thunk[Input[c]]
  /\ LockCell(c, None)
  /\ Goto(c, "chunk")
  /\ UNCHANGED <<thunk, next, array, gen, cursor, got, reads, aborted>>

(* end or fulfill is called on a cell that has no generator any more. *)
AbortForce(c) ==
  /\ pc[c] = "held" /\ at[c] \in thunk[Input[c]]
  /\ ~ HasGen(Input[c])
  /\ aborted' = TRUE
  /\ UNCHANGED <<cells, gen, pc, cursor, got, reads>>

(* Gen::end: the list stops at mOut. *)
ForceEnd(c) ==
  /\ pc[c] = "held" /\ at[c] \in thunk[Input[c]]
  /\ done[Input[c]] /\ HasGen(Input[c])
  /\ End(Input[c])
  /\ LockCell(c, None)
  /\ Goto(c, "chunk")
  /\ UNCHANGED <<gen, cursor, got, reads, aborted>>

(* gen->pull() starts; the lock stays taken until it is over. *)
ForcePull(c) ==
  /\ pc[c] = "held" /\ at[c] \in thunk[Input[c]]
  /\ ~done[Input[c]] /\ HasGen(Input[c])
  /\ out[Input[c]] < MaxCell
  /\ Fulfill(Input[c])
  /\ puller' = [puller EXCEPT ![Input[c]] = c]
  /\ filled' = [filled EXCEPT ![Input[c]] = 0]
  /\ Goto(c, "pulling")
  /\ UNCHANGED <<lock, out, done, cursor, got, reads, aborted>>

-----------------------------------------------------------------------------
(* The loop of a pull (Comma::pull and its many likes), run by the client  *)
(* puller[g] with the cursor of g.                                         *)

(* The frames one turn of the loop computes, and what it has written to    *)
(* the output array when it stops after n of them.                         *)
Turn(g) == Min2(Avail(g), BlockSize[g] - filled[g])
Written(g, n) ==
  [k \in 1 .. BlockSize[g] |->
     IF k \in filled[g] + 1 .. filled[g] + n
     THEN array[Input[g]][at[g]][off[g] + k - filled[g]]
     ELSE array[g][out[g]][k]]
FirstFault(g, n) ==
  /\ <<g, array[Input[g]][at[g]][off[g] + n + 1]>> \in Faulty
  /\ \A k \in 1 .. n : <<g, array[Input[g]][at[g]][off[g] + k]>> \notin Faulty

Copy(g) ==
  LET n == Turn(g)
  IN /\ pc[g] = "chunk" /\ Avail(g) # 0
     /\ \A k \in 1 .. n : <<g, array[Input[g]][at[g]][off[g] + k]>> \notin Faulty
     /\ array'  = [array EXCEPT ![g][out[g]] = Written(g, n)]
     /\ filled' = [filled EXCEPT ![g] = @ + n]
     /\ Advance(g, n)
     /\ Goto(g, "idle")
     /\ UNCHANGED <<thunk, next, lock, out, done, puller, got, reads, aborted>>

(* The exception leaves pull: neither advance nor produce is called. *)
Throw(g) ==
  /\ pc[g] = "chunk" /\ Avail(g) # 0
  /\ \E n \in 0 .. Turn(g) - 1 :
       /\ FirstFault(g, n)
       /\ array' = [array EXCEPT ![g][out[g]] = Written(g, n)]
  /\ pc'     = [pc EXCEPT ![g] = "idle", ![puller[g]] = "thrown"]
  /\ puller' = [puller EXCEPT ![g] = None]
  /\ UNCHANGED <<thunk, next, lock, out, done, filled, cursor, got, reads, aborted>>

(* SpinLocker's destructor as the exception leaves List::force; it goes on *)
(* through the pull that called force, up to the reader.                   *)
Unwind(c) ==
  /\ pc[c] = "thrown"
  /\ LockCell(c, None)
  /\ IF c \in Readers
     THEN Goto(c, "failed") /\ UNCHANGED puller
     ELSE /\ pc'     = [pc EXCEPT ![c] = "idle", ![puller[c]] = "thrown"]
          /\ puller' = [puller EXCEPT ![c] = None]
  /\ UNCHANGED <<thunk, next, array, out, done, filled, cursor, got, reads, aborted>>

(* Gen::produce drops the frames that were not written and moves mOut to   *)
(* the new thunk; pull returns and force releases the lock.                *)
Unshrunk(g) == array[g][out[g]]                                  (* mutant *)
Shrunk(g) == SubSeq(array[g][out[g]], 1, filled[g])

Produce(g) ==
  /\ array'  = [array EXCEPT ![g][out[g]] = Shrunk(g)]
  /\ out'    = [out EXCEPT ![g] = @ + 1]
  /\ puller' = [puller EXCEPT ![g] = None]
  /\ pc'     = [pc EXCEPT ![g] = "idle", ![puller[g]] = "chunk"]
  /\ LockCell(puller[g], None)
  /\ UNCHANGED <<thunk, next, filled, cursor, got, reads, aborted>>

FinishBlock(g) ==
  /\ pc[g] = "idle" /\ puller[g] # None /\ filled[g] = BlockSize[g]
  /\ Produce(g)
  /\ UNCHANGED done

(* The input has ended: setDone, and the block is as long as it got. *)
FinishStreamForgetsDone(g) ==                                    (* mutant *)
  /\ pc[g] = "eof" /\ puller[g] # None
  /\ Produce(g)
  /\ UNCHANGED done
FinishStream(g) ==
  /\ pc[g] = "eof" /\ puller[g] # None
  /\ Produce(g)
  /\ done' = [done EXCEPT ![g] = TRUE]

-----------------------------------------------------------------------------
Cursor(c) == Call(c) \/ Skip(c)
ForceStep(c) == Acquire(c) \/ ForceFilled(c) \/ AbortForce(c) \/ ForceEnd(c) \/ ForcePull(c)
Pull(g)   == Copy(g) \/ Throw(g) \/ FinishBlock(g) \/ FinishStream(g)

Next ==
  /\ ~aborted
  /\ \/ \E c \in Clients : Cursor(c) \/ ForceStep(c) \/ Unwind(c)
     \/ \E r \in Readers : Take(r) \/ Reread(r)
     \/ \E g \in Gens : Pull(g)

(* Every thread keeps running, and a spinlock that stays free is taken.    *)
(* The spinlock is not fair; nothing stronger than weak fairness is        *)
(* assumed, which is enough because every reader stops contending.         *)
Fairness ==
  /\ \A c \in Clients : WF_vars(~aborted /\ (Cursor(c) \/ ForceStep(c) \/ Unwind(c)))
  /\ \A r \in Readers : WF_vars(~aborted /\ Take(r))
  /\ \A g \in Gens : WF_vars(~aborted /\ Pull(g))

Spec == Init /\ [][Next]_vars
FairSpec == Spec /\ Fairness

-----------------------------------------------------------------------------
(* Type correctness of the cells, the generators and the cursors; a pull   *)
(* never writes beyond the end of its block.                               *)
TypeOK ==
  /\ thunk  \in [Lists -> SUBSET Cells]
  /\ next   \in [Lists -> SUBSET Cells]
  /\ array  \in [Lists -> [Cells -> Blocks \cup {None}]]
  /\ lock   \in [Lists -> [Cells -> Clients \cup {None}]]
  /\ out    \in [Gens -> Cells]
  /\ done   \in [Gens -> BOOLEAN]
  /\ puller \in [Gens -> Clients \cup {None}]
  /\ filled \in [Gens -> Nat] /\ \A g \in Gens : filled[g] <= BlockSize[g]
  /\ pc     \in [Clients -> PCs]
  /\ at     \in [Clients -> Cells \cup {None}]
  /\ off    \in [Clients -> Nat]
  /\ got    \in [Readers -> Blocks]
  /\ reads  \in [Readers -> 1 .. MaxReads]
  /\ aborted \in BOOLEAN

(* A generator keeps its state (mOut, its inputs' cursors) unlocked and    *)
(* relies on the spinlock of the cell being forced: at most one client is  *)
(* ever inside its pull, whichever cells the clients force.                *)
PullExclusive ==
  \A c, d \in Clients :
    pc[c] = "pulling" /\ pc[d] = "pulling" /\ Input[c] = Input[d] => c = d

(* A cell is published once its block has been produced or ended. *)
Published(l, i) ==
  /\ array[l][i] # None
  /\ ~ (l \in Gens /\ puller[l] # None /\ out[l] = i)

(* The items of a published cell never change: readers use mArray with no  *)
(* lock after force has returned.                                          *)
PublishedStable ==
  [][\A l \in Lists, i \in Cells :
       Published(l, i) => array'[l][i] = array[l][i]]_vars

(* A client that waits for nothing holds no lock, even after an exception. *)
NoOrphanLock ==
  \A l \in Lists, i \in Cells :
    lock[l][i] # None =>
      /\ pc[lock[l][i]] \in {"held", "pulling", "thrown"}
      /\ Input[lock[l][i]] = l /\ at[lock[l][i]] = i

(* Every reader gets to the end of its list, and has all of it by then:    *)
(* no item is lost, read twice, out of order or before it was written,     *)
(* however the forcing interleaves.                                        *)
ReadersFinish ==
  \A r \in Readers : <>[](pc[r] = "eof" /\ got[r] = [k \in 1 .. Length |-> k])

(* With generators that may throw, a reader still always comes back: with  *)
(* the end of the list or with the exception.                              *)
ReadersReturn ==
  \A r \in Readers : <>[](aborted \/ pc[r] \in {"eof", "failed"})

(* "mGen should be NULL at this point because one of the following should  *)
(* have been called" (List::force): whenever the lock of a cell is free    *)
(* again and its array is set, the generator's mOut is the thunk behind    *)
(* it; this is what assert(mGen) in fulfill and end checks.                *)
NoAbort == ~aborted
=============================================================================
