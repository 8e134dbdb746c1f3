---------------------------- MODULE SymbolTable ----------------------------
(***************************************************************************)
(* getsym (symbol.cpp): symbols are interned in bins of a lock-free hash   *)
(* table.  A bin is a list that grows at its head by compare-and-swap; the *)
(* symbols are reference counted, and the table is meant to own one count  *)
(* of each, so that they live forever.                                     *)
(*                                                                         *)
(* Bins do not interact: this is one bin, Names the names that hash to it. *)
(* A linked symbol is represented by its place in the order of insertion:  *)
(* the bin's head is symbol Len(chain), nextSymbol of symbol i is i - 1,   *)
(* and 0 is the null pointer.  A symbol that was never linked is known to  *)
(* its thread only.                                                        *)
(***************************************************************************)
EXTENDS Naturals, Sequences, FiniteSets

CONSTANTS
  Threads,   (* threads that call getsym: parser, primitives, other VMs    *)
  Names,     (* the names of one bin                                       *)
  MaxGets    (* bound: calls of getsym per thread                          *)

ASSUME SymbolAssumption == IsFiniteSet(Threads) /\ Names # {} /\ MaxGets \in Nat

VARIABLES
  chain,     (* chain[i]: the name of symbol i                             *)
  refcount,  (* refcount[i]                                                *)
  freed,     (* the symbols that release has deleted                       *)
  pc, want,  (* where thread t is in getsym, and the name it looks for     *)
  head, cur, (* the local variables head and existingSymbol (or newSymbol) *)
  holds,     (* the symbol of the P<String> thread t keeps, 0 if none      *)
  gets,      (* how often t called getsym                                  *)
  dangling   (* a thread has touched a deleted symbol                      *)

table == <<chain, refcount, freed>>
vars  == <<chain, refcount, freed, pc, want, head, cur, holds, gets, dangling>>

PCs == {"idle", "load", "walk", "cas", "publish", "found"}
Symbols == 1 .. Len(chain)

Init ==
  /\ chain = <<>> /\ refcount = <<>> /\ freed = {}
  /\ pc = [t \in Threads |-> "idle"]
  /\ want = [t \in Threads |-> CHOOSE n \in Names : TRUE]
  /\ head = [t \in Threads |-> 0]
  /\ cur = [t \in Threads |-> 0]
  /\ holds = [t \in Threads |-> 0]
  /\ gets = [t \in Threads |-> 0]
  /\ dangling = FALSE

Goto(t, label) == pc' = [pc EXCEPT ![t] = label]

(* getsym(name) is entered by a thread that keeps no symbol. *)
Enter(t) ==
  /\ pc[t] = "idle" /\ holds[t] = 0 /\ gets[t] < MaxGets
  /\ \E n \in Names : want' = [want EXCEPT ![t] = n]
  /\ gets' = [gets EXCEPT ![t] = @ + 1]
  /\ Goto(t, "load")
  /\ UNCHANGED <<table, head, cur, holds, dangling>>

(* bin->load() *)
Load(t) ==
  /\ pc[t] = "load"
  /\ head' = [head EXCEPT ![t] = Len(chain)]
  /\ cur' = [cur EXCEPT ![t] = Len(chain)]
  /\ Goto(t, "walk")
  /\ UNCHANGED <<table, want, holds, gets, dangling>>

(* One turn of the search; at the end of the list a new symbol is made. *)
Compare(t) ==
  /\ pc[t] = "walk"
  /\ dangling' = (cur[t] \in freed)
  /\ IF cur[t] = 0
     THEN Goto(t, "cas") /\ UNCHANGED cur
     ELSE IF chain[cur[t]] = want[t]
     THEN Goto(t, "found") /\ UNCHANGED cur
     ELSE cur' = [cur EXCEPT ![t] = @ - 1] /\ UNCHANGED pc
  /\ UNCHANGED <<table, want, head, holds, gets>>

HeadIgnored(t) == TRUE                                           (* mutant *)
HeadIsCurrent(t) == Len(chain) = head[t]

(* compare_exchange_weak; the new symbol has no reference yet. *)
CasSucceeds(t) ==
  /\ pc[t] = "cas" /\ HeadIsCurrent(t)
  /\ chain' = Append(chain, want[t])
  /\ refcount' = Append(refcount, 0)
  /\ cur' = [cur EXCEPT ![t] = Len(chain) + 1]
  /\ Goto(t, "publish")
  /\ UNCHANGED <<freed, want, head, holds, gets, dangling>>

(* The head moved, or the weak compare failed for no reason: the new       *)
(* symbol is deleted and the search starts again.                          *)
CasRepeats(t) == pc[t] = "cas" /\ UNCHANGED vars                 (* mutant *)
CasFails(t) ==
  /\ pc[t] = "cas"
  /\ Goto(t, "load")
  /\ UNCHANGED <<table, want, head, cur, holds, gets, dangling>>

(* RCObj::retain *)
Retain(i) ==
  /\ refcount' = [refcount EXCEPT ![i] = @ + 1]
  /\ dangling' = (i \in freed)

(* newSymbol->retain(): the count that belongs to the table. *)
RetainForgotten(t) ==                                            (* mutant *)
  /\ pc[t] = "publish"
  /\ Goto(t, "found")
  /\ UNCHANGED <<table, want, head, cur, holds, gets, dangling>>
RetainForTable(t) ==
  /\ pc[t] = "publish"
  /\ Retain(cur[t])
  /\ Goto(t, "found")
  /\ UNCHANGED <<chain, freed, want, head, cur, holds, gets>>

(* The result is converted to a P<String>, which retains it. *)
Return(t) ==
  /\ pc[t] = "found"
  /\ Retain(cur[t])
  /\ holds' = [holds EXCEPT ![t] = cur[t]]
  /\ Goto(t, "idle")
  /\ UNCHANGED <<chain, freed, want, head, cur, gets>>

(* The P<String> goes out of scope: RCObj::release, and norefs at zero. *)
Release(t) ==
  /\ pc[t] = "idle" /\ holds[t] # 0
  /\ refcount' = [refcount EXCEPT ![holds[t]] = @ - 1]
  /\ freed' = IF refcount[holds[t]] = 1 THEN freed \cup {holds[t]} ELSE freed
  /\ holds' = [holds EXCEPT ![t] = 0]
  /\ UNCHANGED <<chain, pc, want, head, cur, gets, dangling>>

Getsym(t) ==
  Load(t) \/ Compare(t) \/ CasSucceeds(t) \/ CasFails(t) \/ RetainForTable(t) \/ Return(t)

(* Nothing is said of a program that has touched a deleted symbol. *)
Next ==
  /\ ~ dangling
  /\ \E t \in Threads : Enter(t) \/ Getsym(t) \/ Release(t)

Spec == Init /\ [][Next]_vars

-----------------------------------------------------------------------------
TypeOK ==
  /\ chain \in Seq(Names) /\ freed \subseteq Symbols
  /\ refcount \in Seq(Nat) /\ Len(refcount) = Len(chain)
  /\ pc \in [Threads -> PCs] /\ want \in [Threads -> Names]
  /\ head \in [Threads -> 0 .. Len(chain)] /\ cur \in [Threads -> 0 .. Len(chain)]
  /\ holds \in [Threads -> 0 .. Len(chain)]
  /\ gets \in [Threads -> 0 .. MaxGets]
  /\ dangling \in BOOLEAN

(* A name is interned once, however many threads ask for it at once. *)
Interned == \A i, j \in Symbols : chain[i] = chain[j] => i = j

(* Threads that asked for the same name have the same symbol, and got the  *)
(* name they asked for: symbols are compared by address.                   *)
Agreement ==
  \A t, u \in Threads :
    holds[t] # 0 /\ holds[u] # 0 =>
      /\ chain[holds[t]] = want[t]
      /\ want[t] = want[u] <=> holds[t] = holds[u]

(* Counts are neither lost nor invented by retains and releases that race: *)
(* a symbol has one for each holder, and one of the table's own as soon as *)
(* its maker has taken it.                                                 *)
RefcountExact ==
  \A i \in Symbols :
    refcount[i] = Cardinality({t \in Threads : holds[t] = i})
                  + IF \E t \in Threads : pc[t] = "publish" /\ cur[t] = i THEN 0 ELSE 1

(* A symbol is not deleted while a P<String> refers to it. *)
HeldAlive == dangling \/ \A t \in Threads : holds[t] \notin freed

(* Only a symbol that its maker has linked but not yet retained is ever    *)
(* deleted, because another thread found it and dropped it: every other    *)
(* symbol is there for good, which getsym needs to walk the list with no   *)
(* protection against deletion.                                            *)
DeletedOnlyUnretained ==
  [][\A i \in freed' \ freed : \E t \in Threads : pc[t] = "publish" /\ cur[t] = i]_vars
=============================================================================
