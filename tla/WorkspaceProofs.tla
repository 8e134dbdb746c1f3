--------------------------- MODULE WorkspaceProofs ---------------------------
(* What holds of Workspace for any number of threads, names and hashes,    *)
(* and for any number of bindings, reads and scopes.  Find, Lookup and     *)
(* Tree are recursive functions: that they satisfy their equations, and    *)
(* with them the properties that they state, is proved from the order of   *)
(* the trees, which leaves none with a cycle.                              *)
EXTENDS Workspace, FiniteSetTheorems, WellFoundedInduction, TLAPS

(* The types of nodes and forms on a heap of n nodes and m forms.          *)
NodesOver(n) == [key : Names, value : Values \ {NoValue}, left : 0 .. n, right : 0 .. n]
FormsOver(n, m) == [root : 0 .. n, next : 0 .. m]
Stops(n) == [node : 1 .. n, left : 0 .. n, right : 0 .. n]
Slots(n, m) == ({"root"} \X (1 .. m)) \cup ({"left", "right"} \X (1 .. n))

HeapOK ==
  /\ nodes \in Seq(NodesOver(Len(nodes)))
  /\ forms \in Seq(FormsOver(Len(nodes), Len(forms)))

(* What the threads hold is on a heap of n nodes and m forms.              *)
HoldingsOK(n, m) ==
  /\ ws \in [Threads -> 1 .. m] /\ fun \in [Threads -> 1 .. m] /\ saved \subseteq 1 .. m
  /\ slot \in [Threads -> Slots(n, m)]
  /\ cur \in [Threads -> 0 .. n]
  /\ path \in [Threads -> Seq(Stops(n))]
  /\ form \in [Threads -> 0 .. m]

Labels == {"run", "bound", "probe", "cas", "copyLeft", "copyRight", "build", "get", "got"}
ControlOK ==
  /\ pc \in [Threads -> Labels]
  /\ key \in [Threads -> Names] /\ side \in [Threads -> {"fun", "thread"}]
  /\ value \in [Threads -> Values]
  /\ binds \in 0 .. MaxBinds /\ gets \in 0 .. MaxGets /\ pushes \in 0 .. MaxPushes

(* TypeOK but for the type of seen, which depends on what Lookup computes. *)
Shape == HeapOK /\ HoldingsOK(Len(nodes), Len(forms)) /\ ControlOK

(* The lengths are numbers, and what is looked up on the heap is on it.    *)
LEMMA HeapLengths ==
  ASSUME HeapOK
  PROVE  /\ Len(nodes) \in Nat /\ Len(forms) \in Nat
         /\ \A n \in 1 .. Len(nodes) : nodes[n] \in NodesOver(Len(nodes))
         /\ \A f \in 1 .. Len(forms) : forms[f] \in FormsOver(Len(nodes), Len(forms))
  BY DEF HeapOK

(* A longer heap holds what a shorter one holds.                           *)
LEMMA HoldingsGrow ==
  ASSUME NEW n \in Nat, NEW m \in Nat, NEW n2 \in Nat, NEW m2 \in Nat, n <= n2, m <= m2,
         HoldingsOK(n, m)
  PROVE  HoldingsOK(n2, m2)
<1>1. 1 .. m \subseteq 1 .. m2 /\ 0 .. m \subseteq 0 .. m2 /\ 0 .. n \subseteq 0 .. n2 /\ 1 .. n \subseteq 1 .. n2
  OBVIOUS
<1>2. Slots(n, m) \subseteq Slots(n2, m2)
  BY <1>1 DEF Slots
<1>3. Stops(n) \subseteq Stops(n2)
  BY <1>1 DEF Stops
<1>4. \A s \in Seq(Stops(n)) : s \in Seq(Stops(n2))
  BY <1>3
<1> QED BY <1>1, <1>2, <1>4 DEF HoldingsOK

LEMMA AppendType ==
  ASSUME NEW S, NEW q \in Seq(S), NEW e \in S
  PROVE  /\ Append(q, e) \in Seq(S) /\ Append(q, e) # <<>>
         /\ Len(Append(q, e)) = Len(q) + 1 /\ Len(q) \in Nat
         /\ \A i \in 1 .. Len(q) : Append(q, e)[i] = q[i]
         /\ Append(q, e)[Len(q) + 1] = e
<1>1. /\ Append(q, e) \in Seq(S)
      /\ Len(Append(q, e)) = Len(q) + 1 /\ Len(q) \in Nat
      /\ \A i \in 1 .. Len(q) : Append(q, e)[i] = q[i]
      /\ Append(q, e)[Len(q) + 1] = e
  OBVIOUS
<1>2. Append(q, e) # <<>>
  <2>1. Len(Append(q, e)) # 0 BY <1>1
  <2>2. Len(<<>>) = 0 OBVIOUS
  <2> QED BY <2>1, <2>2
<1> QED BY <1>1, <1>2

LEMMA NodesGrow ==
  ASSUME NEW n \in Nat, NEW n2 \in Nat, n <= n2
  PROVE  NodesOver(n) \subseteq NodesOver(n2)
  BY DEF NodesOver

LEMMA FormsGrow ==
  ASSUME NEW n \in Nat, NEW n2 \in Nat, NEW m \in Nat, NEW m2 \in Nat, n <= n2, m <= m2
  PROVE  FormsOver(n, m) \subseteq FormsOver(n2, m2)
  BY DEF FormsOver

-----------------------------------------------------------------------------
(* Shape is not inductive: a thread that copies must be at a node and     *)
(* must have a path, a thread that probes must be in its own table, and a  *)
(* thread that reads must be in a form.                                    *)
Putting == {"probe", "cas", "copyLeft", "copyRight", "build"}
PutOK(t) ==
  /\ pc[t] \in Putting => value[t] # NoValue
  /\ pc[t] \in {"probe", "cas"} =>
       IF slot[t][1] = "root" THEN slot[t][2] = Target(t) ELSE forms[Target(t)].root # 0
  /\ pc[t] \in {"copyLeft", "copyRight"} => cur[t] # 0
  /\ pc[t] \in {"copyRight", "build"} => path[t] # <<>>
  /\ pc[t] = "get" => form[t] # 0
PutsOK == \A t \in Threads : PutOK(t)

Inv == Shape /\ PutsOK

LEMMA InvInit == Init => Inv
<1> SUFFICES ASSUME Init PROVE Inv
  OBVIOUS
<1> USE DEF Init
<1> DEFINE k == Len(Start)
<1>0. k \in Nat /\ Start \in Seq(NodesOver(k)) /\ nodes = Start
      /\ \E r \in 0 .. k : forms = <<[root |-> r, next |-> 0]>>
  <2> DEFINE N == [key : Names, value : 1 .. MaxBinds, left : 0 .. k, right : 0 .. k]
  <2>1. MaxBinds \in Nat /\ Start \in Seq(N) /\ k \in Nat /\ k <= MaxBinds
    BY WorkspaceAssumption
  <2>2. N \subseteq NodesOver(k)
    <3>1. 1 .. MaxBinds \subseteq Values \ {NoValue}
      BY <2>1 DEF Values, NoValue
    <3> QED BY <3>1 DEF NodesOver
  <2>3. Start \in Seq(NodesOver(k))
    <3>1. ASSUME NEW S, NEW T, S \subseteq T, NEW q \in Seq(S) PROVE q \in Seq(T)
      BY <3>1
    <3> HIDE DEF N
    <3> QED BY <2>1, <2>2, <3>1
  <2>4. (IF k = 0 THEN 0 ELSE 1) \in 0 .. k
    BY <2>1
  <2> QED BY <2>1, <2>3, <2>4
<1>1. HeapOK
  <2>1. PICK r \in 0 .. k : forms = <<[root |-> r, next |-> 0]>>
    BY <1>0
  <2>2. Len(forms) = 1 /\ Len(nodes) = k
    BY <1>0, <2>1
  <2>3. [root |-> r, next |-> 0] \in FormsOver(k, 1)
    BY <2>1 DEF FormsOver
  <2> QED BY <1>0, <2>1, <2>2, <2>3 DEF HeapOK
<1>2. HoldingsOK(Len(nodes), Len(forms))
  <2>1. Len(nodes) = k /\ Len(forms) = 1
    BY <1>0
  <2>2. <<"root", 1>> \in Slots(k, 1)
    BY DEF Slots
  <2>3. HoldingsOK(k, 1)
    BY <1>0, <2>2 DEF HoldingsOK
  <2> QED BY <2>1, <2>3
<1>3. ControlOK
  <2>1. (CHOOSE n \in Names : TRUE) \in Names
    BY WorkspaceAssumption
  <2>2. /\ pc \in [Threads -> Labels] /\ side \in [Threads -> {"fun", "thread"}]
        /\ value \in [Threads -> Values]
    BY WorkspaceAssumption DEF Labels, Values, NoValue
  <2>3. binds \in 0 .. MaxBinds /\ gets \in 0 .. MaxGets /\ pushes \in 0 .. MaxPushes
    BY WorkspaceAssumption
  <2> QED BY <2>1, <2>2, <2>3 DEF ControlOK
<1>4. PutsOK
  BY DEF PutsOK, PutOK, Putting
<1> QED BY <1>1, <1>2, <1>3, <1>4 DEF Inv, Shape

-----------------------------------------------------------------------------
(* A step that leaves the heap alone.                                      *)
LEMMA QuietStep ==
  ASSUME Inv, UNCHANGED heap, NEW t \in Threads,
         \A u \in Threads \ {t} :
           /\ pc'[u] = pc[u] /\ value'[u] = value[u] /\ slot'[u] = slot[u]
           /\ cur'[u] = cur[u] /\ path'[u] = path[u]
           /\ side'[u] = side[u] /\ ws'[u] = ws[u] /\ fun'[u] = fun[u] /\ form'[u] = form[u],
         HoldingsOK(Len(nodes), Len(forms))', ControlOK', PutOK(t)'
  PROVE  Inv'
<1>1. HeapOK'
  BY DEF Inv, Shape, HeapOK, heap
<1>2. \A u \in Threads \ {t} : PutOK(u)'
  BY DEF Inv, Shape, PutsOK, PutOK, Target, heap
<1> QED BY <1>1, <1>2 DEF Inv, Shape, PutsOK

(* The types of what is read from the heap.                                *)
LEMMA Loads ==
  ASSUME HeapOK, NEW s \in Slots(Len(nodes), Len(forms))
  PROVE  Load(s) \in 0 .. Len(nodes)
<1>1. CASE s \in {"root"} \X (1 .. Len(forms))
  BY <1>1, HeapLengths DEF Load, FormsOver
<1>2. CASE s \in {"left", "right"} \X (1 .. Len(nodes))
  BY <1>2, HeapLengths DEF Load, NodesOver
<1> QED BY <1>1, <1>2 DEF Slots

LEMMA TowardChild ==
  ASSUME HeapOK, NEW k, NEW n \in 1 .. Len(nodes)
  PROVE  <<Toward(k, n), n>> \in Slots(Len(nodes), Len(forms))
  BY DEF Toward, Slots

-----------------------------------------------------------------------------
LEMMA CompileKeeps ==
  ASSUME Inv, NEW t \in Threads, Compile(t)
  PROVE  Inv'
<1> USE DEF Compile, Goto, put, read, used
<1>1. HoldingsOK(Len(nodes), Len(forms))'
  BY DEF Inv, Shape, HoldingsOK, heap
<1>2. ControlOK'
  BY DEF Inv, Shape, ControlOK, Labels
<1>3. pc'[t] = "run"
  BY DEF Inv, Shape, ControlOK
<1>4. PutOK(t)'
  BY <1>3 DEF PutOK, Putting
<1> QED BY <1>1, <1>2, <1>4, QuietStep DEF Inv, Shape, ControlOK, HoldingsOK

LEMMA PopWorkspaceKeeps ==
  ASSUME Inv, NEW t \in Threads, PopWorkspace(t)
  PROVE  Inv'
<1> USE DEF PopWorkspace, Goto, put, read, used
<1>1. HoldingsOK(Len(nodes), Len(forms))'
  <2>1. ws[t] \in 1 .. Len(forms)
    BY DEF Inv, Shape, HoldingsOK
  <2>2. forms[ws[t]].next \in 1 .. Len(forms)
    BY <2>1, HeapLengths DEF Inv, Shape, FormsOver
  <2>3. ws' \in [Threads -> 1 .. Len(forms)]
    BY <2>2 DEF Inv, Shape, HoldingsOK
  <2> QED BY <2>3 DEF Inv, Shape, HoldingsOK, heap
<1>2. ControlOK'
  BY DEF Inv, Shape, ControlOK, Labels
<1>3. pc'[t] = "run"
  BY DEF Inv, Shape, ControlOK
<1>4. PutOK(t)'
  BY <1>3 DEF PutOK, Putting
<1> QED BY <1>1, <1>2, <1>4, QuietStep DEF Inv, Shape, ControlOK, HoldingsOK

LEMMA BindKeeps ==
  ASSUME Inv, NEW t \in Threads, Bind(t)
  PROVE  Inv'
<1> USE DEF Bind, Goto, read
<1>1. HoldingsOK(Len(nodes), Len(forms))'
  <2>1. <<"root", fun[t]>> \in Slots(Len(nodes), Len(forms))
    BY DEF Inv, Shape, HoldingsOK, Slots
  <2>2. slot' \in [Threads -> Slots(Len(nodes), Len(forms))]
    BY <2>1 DEF Inv, Shape, HoldingsOK
  <2> QED BY <2>2 DEF Inv, Shape, HoldingsOK, heap
<1>2. ControlOK'
  <2>1. binds' \in 0 .. MaxBinds /\ binds' # NoValue /\ value' = [value EXCEPT ![t] = binds']
    BY WorkspaceAssumption DEF Inv, Shape, ControlOK, NoValue
  <2>2. value' \in [Threads -> Values]
    BY <2>1 DEF Inv, Shape, ControlOK, Values
  <2>3. key' \in [Threads -> Names]
    BY DEF Inv, Shape, ControlOK
  <2>4. pc' \in [Threads -> Labels] /\ side' \in [Threads -> {"fun", "thread"}]
    BY DEF Inv, Shape, ControlOK, Labels
  <2> QED BY <2>1, <2>2, <2>3, <2>4 DEF Inv, Shape, ControlOK
<1>3. PutOK(t)'
  <2>1. /\ pc'[t] = "probe" /\ side'[t] = "fun" /\ fun'[t] = fun[t]
        /\ slot'[t] = <<"root", fun[t]>>
    BY DEF Inv, Shape, ControlOK, HoldingsOK
  <2>2. value'[t] # NoValue
    BY WorkspaceAssumption DEF Inv, Shape, ControlOK, NoValue
  <2> QED BY <2>1, <2>2 DEF PutOK, Target
<1> QED BY <1>1, <1>2, <1>3, QuietStep DEF Inv, Shape, ControlOK, HoldingsOK

LEMMA ProbeKeeps ==
  ASSUME Inv, NEW t \in Threads, Probe(t)
  PROVE  Inv'
<1> DEFINE n == Load(slot[t])
<1>0. /\ HeapOK /\ HoldingsOK(Len(nodes), Len(forms)) /\ ControlOK /\ PutOK(t)
      /\ pc[t] = "probe" /\ n \in 0 .. Len(nodes)
  BY Loads DEF Inv, Shape, PutsOK, HoldingsOK, Probe
<1>1. Target(t) \in 1 .. Len(forms) /\ forms[Target(t)].root \in 0 .. Len(nodes)
  BY <1>0, HeapLengths DEF HoldingsOK, ControlOK, Target, FormsOver
<1>2. n # 0 => forms[Target(t)].root # 0
  BY <1>0 DEF PutOK, Load
<1>3. /\ UNCHANGED <<nodes, forms, ws, fun, saved, key, value, side, path, form, seen>>
      /\ UNCHANGED <<binds, gets, pushes>>
  BY DEF Probe, heap, read, used
<1>4. CASE n = 0 /\ Goto(t, "cas") /\ UNCHANGED <<slot, cur>>
  <2>1. ControlOK' BY <1>0, <1>3, <1>4 DEF ControlOK, Goto, Labels
  <2>2. HoldingsOK(Len(nodes), Len(forms))' BY <1>0, <1>3, <1>4 DEF HoldingsOK
  <2>3. PutOK(t)' BY <1>0, <1>3, <1>4 DEF PutOK, Goto, Target, Putting, ControlOK
  <2> QED BY <1>0, <1>3, <1>4, <2>1, <2>2, <2>3, QuietStep DEF Goto, ControlOK, heap
<1>5. CASE n # 0 /\ slot' = [slot EXCEPT ![t] = <<Toward(key[t], n), n>>] /\ UNCHANGED <<pc, cur>>
  <2>1. ControlOK' BY <1>0, <1>3, <1>5 DEF ControlOK
  <2>2. slot' \in [Threads -> Slots(Len(nodes), Len(forms))]
    BY <1>0, <1>5, TowardChild DEF HoldingsOK
  <2>3. HoldingsOK(Len(nodes), Len(forms))' BY <1>0, <1>3, <1>5, <2>2 DEF HoldingsOK
  <2>4. slot'[t][1] # "root"
    BY <1>0, <1>5 DEF HoldingsOK, Toward
  <2>5. PutOK(t)' BY <1>0, <1>2, <1>3, <1>5, <2>4 DEF PutOK, Target
  <2> QED BY <1>0, <1>3, <1>5, <2>1, <2>3, <2>5, QuietStep DEF HoldingsOK, heap
<1>6. CASE /\ n # 0 /\ cur' = [cur EXCEPT ![t] = forms[Target(t)].root]
           /\ Goto(t, "copyLeft") /\ UNCHANGED slot
  <2>1. ControlOK' BY <1>0, <1>3, <1>6 DEF ControlOK, Goto, Labels
  <2>2. HoldingsOK(Len(nodes), Len(forms))' BY <1>0, <1>1, <1>3, <1>6 DEF HoldingsOK
  <2>3. pc'[t] = "copyLeft" /\ cur'[t] # 0 /\ value'[t] = value[t]
    BY <1>0, <1>2, <1>3, <1>6 DEF ControlOK, HoldingsOK, Goto
  <2>4. PutOK(t)' BY <1>0, <2>3 DEF PutOK, Putting
  <2> QED BY <1>0, <1>3, <1>6, <2>1, <2>2, <2>4, QuietStep DEF Goto, ControlOK, HoldingsOK, heap
<1> QED BY <1>4, <1>5, <1>6 DEF Probe

LEMMA CasFailsKeeps ==
  ASSUME Inv, NEW t \in Threads, CasFails(t)
  PROVE  Inv'
<1>0. HeapOK /\ HoldingsOK(Len(nodes), Len(forms)) /\ ControlOK /\ PutOK(t)
  BY DEF Inv, Shape, PutsOK
<1>1. /\ pc[t] = "cas" /\ pc' = [pc EXCEPT ![t] = "probe"]
      /\ UNCHANGED <<nodes, forms, ws, fun, saved, key, value, cur, side, slot, path>>
      /\ UNCHANGED <<form, seen, binds, gets, pushes>>
  BY DEF CasFails, Goto, heap, put, read, used
<1>2. ControlOK' BY <1>0, <1>1 DEF ControlOK, Labels
<1>3. HoldingsOK(Len(nodes), Len(forms))' BY <1>0, <1>1 DEF HoldingsOK
<1>4. PutOK(t)' BY <1>0, <1>1 DEF PutOK, Target, Putting, ControlOK
<1> QED BY <1>0, <1>1, <1>2, <1>3, <1>4, QuietStep DEF ControlOK, heap
LEMMA CopyLeftKeeps ==
  ASSUME Inv, NEW t \in Threads, CopyLeft(t)
  PROVE  Inv'
<1>0. HeapOK /\ HoldingsOK(Len(nodes), Len(forms)) /\ ControlOK /\ PutOK(t)
  BY DEF Inv, Shape, PutsOK
<1> DEFINE s == [node |-> cur[t], left |-> nodes[cur[t]].left, right |-> 0]
<1>1. /\ pc[t] = "copyLeft" /\ pc' = [pc EXCEPT ![t] = "copyRight"]
      /\ path' = [path EXCEPT ![t] = Append(@, s)]
      /\ UNCHANGED <<nodes, forms, ws, fun, saved, key, value, side, slot, cur>>
      /\ UNCHANGED <<form, seen, binds, gets, pushes>>
  BY DEF CopyLeft, Goto, heap, read, used
<1>2. s \in Stops(Len(nodes))
  <2>1. cur[t] \in 1 .. Len(nodes)
    BY <1>0, <1>1, HeapLengths DEF PutOK, HoldingsOK
  <2>2. nodes[cur[t]].left \in 0 .. Len(nodes)
    BY <1>0, <2>1, HeapLengths DEF NodesOver
  <2> QED BY <1>0, <2>1, <2>2, HeapLengths DEF Stops
<1> HIDE DEF s
<1>3. path[t] \in Seq(Stops(Len(nodes)))
  BY <1>0 DEF HoldingsOK
<1>4. Append(path[t], s) \in Seq(Stops(Len(nodes))) /\ Append(path[t], s) # <<>>
  BY <1>2, <1>3, AppendType
<1>5. path' \in [Threads -> Seq(Stops(Len(nodes)))] /\ path'[t] # <<>>
  BY <1>0, <1>1, <1>4 DEF HoldingsOK
<1>6. HoldingsOK(Len(nodes), Len(forms))' BY <1>0, <1>1, <1>5 DEF HoldingsOK
<1>7. ControlOK' BY <1>0, <1>1 DEF ControlOK, Labels
<1>8. PutOK(t)' BY <1>0, <1>1, <1>5 DEF PutOK, Putting, ControlOK
<1> QED BY <1>0, <1>1, <1>6, <1>7, <1>8, QuietStep DEF ControlOK, HoldingsOK, heap

LEMMA CopyRightKeeps ==
  ASSUME Inv, NEW t \in Threads, CopyRight(t)
  PROVE  Inv'
<1>0. HeapOK /\ HoldingsOK(Len(nodes), Len(forms)) /\ ControlOK /\ PutOK(t)
  BY DEF Inv, Shape, PutsOK
<1> DEFINE n == cur[t]
           right == nodes[n].right
           m == Len(path[t])
           next == IF Toward(key[t], n) = "left" THEN path[t][m].left ELSE right
<1>1. /\ pc[t] = "copyRight"
      /\ path' = [path EXCEPT ![t][m].right = right]
      /\ \/ pc' = [pc EXCEPT ![t] = "build"] /\ cur' = cur
         \/ /\ next # 0 /\ pc' = [pc EXCEPT ![t] = "copyLeft"]
            /\ cur' = [cur EXCEPT ![t] = next]
      /\ UNCHANGED <<nodes, forms, ws, fun, saved, key, value, side, slot>>
      /\ UNCHANGED <<form, seen, binds, gets, pushes>>
  BY DEF CopyRight, Goto, heap, read, used
<1>2. right \in 0 .. Len(nodes)
  <2>1. n \in 1 .. Len(nodes)
    BY <1>0, <1>1, HeapLengths DEF PutOK, HoldingsOK
  <2> QED BY <1>0, <2>1, HeapLengths DEF NodesOver
<1>3. path[t] \in Seq(Stops(Len(nodes))) /\ path[t] # <<>>
  BY <1>0, <1>1 DEF HoldingsOK, PutOK
<1>4. m \in 1 .. Len(path[t]) /\ path[t][m] \in Stops(Len(nodes))
  BY <1>3
<1>5. next \in 0 .. Len(nodes)
  BY <1>2, <1>4 DEF Stops
<1> HIDE DEF right, next
<1> DEFINE p == [path[t] EXCEPT ![m].right = right]
<1>6. p \in Seq(Stops(Len(nodes))) /\ p # <<>>
  <2>1. [path[t][m] EXCEPT !.right = right] \in Stops(Len(nodes))
    BY <1>2, <1>4 DEF Stops
  <2>2. p = [path[t] EXCEPT ![m] = [path[t][m] EXCEPT !.right = right]]
    OBVIOUS
  <2> QED BY <1>3, <1>4, <2>1, <2>2
<1>7. path'[t] = p /\ path' = [path EXCEPT ![t] = p]
  BY <1>0, <1>1 DEF HoldingsOK
<1> HIDE DEF p
<1>8. cur' \in [Threads -> 0 .. Len(nodes)]
  BY <1>0, <1>1, <1>5 DEF HoldingsOK
<1>9. HoldingsOK(Len(nodes), Len(forms))'
  BY <1>0, <1>1, <1>6, <1>7, <1>8 DEF HoldingsOK
<1>10. ControlOK' BY <1>0, <1>1 DEF ControlOK, Labels
<1>11. PutOK(t)'
  <2>1. value'[t] # NoValue BY <1>0, <1>1 DEF PutOK, Putting
  <2>2. CASE pc' = [pc EXCEPT ![t] = "build"]
    BY <1>0, <1>6, <1>7, <2>1, <2>2 DEF PutOK, ControlOK
  <2>3. CASE /\ next # 0 /\ pc' = [pc EXCEPT ![t] = "copyLeft"]
             /\ cur' = [cur EXCEPT ![t] = next]
    BY <1>0, <2>1, <2>3 DEF PutOK, ControlOK, HoldingsOK
  <2> QED BY <1>1, <2>2, <2>3
<1>12. \A u \in Threads \ {t} : pc'[u] = pc[u] /\ cur'[u] = cur[u] /\ path'[u] = path[u]
  BY <1>0, <1>1, <1>7 DEF ControlOK, HoldingsOK
<1> QED BY <1>0, <1>1, <1>9, <1>10, <1>11, <1>12, QuietStep DEF heap
LEMMA GetKeeps ==
  ASSUME Inv, NEW t \in Threads, Get(t)
  PROVE  Inv'
<1>0. HeapOK /\ HoldingsOK(Len(nodes), Len(forms)) /\ ControlOK
  BY DEF Inv, Shape
<1>1. PICK f \in saved \cup {fun[t]}, k \in Names :
        /\ key' = [key EXCEPT ![t] = k]
        /\ form' = [form EXCEPT ![t] = f]
        /\ cur' = [cur EXCEPT ![t] = forms[f].root]
  BY DEF Get
<1>2. /\ pc' = [pc EXCEPT ![t] = "get"] /\ gets' = gets + 1 /\ gets < MaxGets
      /\ UNCHANGED <<nodes, forms, ws, fun, saved, value, side, slot, path, binds, pushes>>
  BY DEF Get, Goto, heap, put
<1>3. f \in 1 .. Len(forms)
  BY <1>0 DEF HoldingsOK
<1>4. forms[f].root \in 0 .. Len(nodes)
  BY <1>0, <1>3, HeapLengths DEF FormsOver
<1>5. HoldingsOK(Len(nodes), Len(forms))'
  BY <1>0, <1>1, <1>2, <1>3, <1>4, HeapLengths DEF HoldingsOK
<1>6. ControlOK'
  BY <1>0, <1>1, <1>2, WorkspaceAssumption DEF ControlOK, Labels
<1>7. PutOK(t)'
  BY <1>0, <1>1, <1>2, <1>3 DEF PutOK, Putting, ControlOK, HoldingsOK
<1> QED BY <1>0, <1>1, <1>2, <1>5, <1>6, <1>7, QuietStep DEF ControlOK, HoldingsOK, heap

LEMMA GetStepKeeps ==
  ASSUME Inv, NEW t \in Threads, GetStep(t)
  PROVE  Inv'
<1>0. HeapOK /\ HoldingsOK(Len(nodes), Len(forms)) /\ ControlOK
  BY DEF Inv, Shape
<1>1. /\ pc[t] = "get"
      /\ UNCHANGED <<nodes, forms, ws, fun, saved, key, value, side, slot, path, binds, gets, pushes>>
  BY DEF GetStep, heap, put, used
<1>2. \/ pc' = [pc EXCEPT ![t] = "got"] /\ UNCHANGED <<cur, form>>
      \/ \E g \in 1 .. Len(forms) : /\ form' = [form EXCEPT ![t] = g]
                                   /\ cur' = [cur EXCEPT ![t] = forms[g].root]
                                   /\ UNCHANGED pc
      \/ \E s \in Slots(Len(nodes), Len(forms)) : /\ cur' = [cur EXCEPT ![t] = Load(s)]
                                                  /\ UNCHANGED <<pc, form>>
  <2> DEFINE n == cur[t]
             next == forms[form[t]].next
  <2>1. CASE n = 0 /\ next = 0 /\ GetReturns(t, NoValue) /\ UNCHANGED <<cur, form>>
    BY <2>1 DEF GetReturns, Goto
  <2>2. CASE /\ n = 0 /\ next # 0 /\ form' = [form EXCEPT ![t] = next]
             /\ cur' = [cur EXCEPT ![t] = forms[next].root] /\ UNCHANGED <<pc, seen>>
    <3>1. form[t] \in 1 .. Len(forms)
      BY <1>0, <1>1, HeapLengths DEF Inv, PutsOK, PutOK, HoldingsOK
    <3>2. next \in 1 .. Len(forms)
      BY <1>0, <2>2, <3>1, HeapLengths DEF FormsOver
    <3> QED BY <2>2, <3>2
  <2>3. CASE GetReturns(t, nodes[n].value) /\ UNCHANGED <<cur, form>>
    BY <2>3 DEF GetReturns, Goto
  <2>4. CASE /\ n # 0 /\ cur' = [cur EXCEPT ![t] = Load(<<Toward(key[t], n), n>>)]
             /\ UNCHANGED <<pc, seen, form>>
    <3>1. n \in 1 .. Len(nodes)
      BY <1>0, <2>4, HeapLengths DEF HoldingsOK
    <3> QED BY <1>0, <2>4, <3>1, TowardChild
  <2> QED BY <2>1, <2>2, <2>3, <2>4 DEF GetStep
<1>3. HoldingsOK(Len(nodes), Len(forms))'
  <2>1. cur' \in [Threads -> 0 .. Len(nodes)] /\ form' \in [Threads -> 0 .. Len(forms)]
    <3>1. \A g \in 1 .. Len(forms) : forms[g].root \in 0 .. Len(nodes)
      BY <1>0, HeapLengths DEF FormsOver
    <3>2. \A s \in Slots(Len(nodes), Len(forms)) : Load(s) \in 0 .. Len(nodes)
      BY <1>0, Loads
    <3>3. CASE UNCHANGED <<cur, form>>
      BY <1>0, <3>3 DEF HoldingsOK
    <3>4. ASSUME NEW g \in 1 .. Len(forms), form' = [form EXCEPT ![t] = g],
                 cur' = [cur EXCEPT ![t] = forms[g].root]
          PROVE  cur' \in [Threads -> 0 .. Len(nodes)] /\ form' \in [Threads -> 0 .. Len(forms)]
      BY <1>0, <3>1, <3>4, HeapLengths DEF HoldingsOK
    <3>5. ASSUME NEW s \in Slots(Len(nodes), Len(forms)),
                 cur' = [cur EXCEPT ![t] = Load(s)], UNCHANGED form
          PROVE  cur' \in [Threads -> 0 .. Len(nodes)] /\ form' \in [Threads -> 0 .. Len(forms)]
      BY <1>0, <3>2, <3>5 DEF HoldingsOK
    <3> QED BY <1>2, <3>3, <3>4, <3>5
  <2> QED BY <1>0, <1>1, <2>1 DEF HoldingsOK
<1>4. ControlOK'
  BY <1>0, <1>1, <1>2 DEF ControlOK, Labels
<1>5. PutOK(t)' 
  <2>1. pc'[t] \in {"get", "got"}
    BY <1>0, <1>1, <1>2 DEF ControlOK
  <2>2. pc'[t] = "get" => form'[t] # 0
    BY <1>0, <1>1, <1>2 DEF ControlOK, HoldingsOK, Inv, PutsOK, PutOK
  <2> QED BY <2>1, <2>2 DEF PutOK, Putting
<1>6. \A u \in Threads \ {t} : pc'[u] = pc[u] /\ cur'[u] = cur[u] /\ form'[u] = form[u]
  BY <1>0, <1>2 DEF ControlOK, HoldingsOK
<1> QED BY <1>0, <1>1, <1>3, <1>4, <1>5, <1>6, QuietStep DEF heap

LEMMA GotKeeps ==
  ASSUME Inv, NEW t \in Threads, Got(t)
  PROVE  Inv'
<1>0. HeapOK /\ HoldingsOK(Len(nodes), Len(forms)) /\ ControlOK
  BY DEF Inv, Shape
<1>1. /\ pc' = [pc EXCEPT ![t] = "run"]
      /\ cur' = [cur EXCEPT ![t] = 0] /\ form' = [form EXCEPT ![t] = 0]
      /\ UNCHANGED <<nodes, forms, ws, fun, saved, key, value, side, slot, path, binds, gets, pushes>>
  BY DEF Got, Goto, heap, put, used
<1>2. HoldingsOK(Len(nodes), Len(forms))'
  BY <1>0, <1>1, HeapLengths DEF HoldingsOK
<1>3. ControlOK'
  BY <1>0, <1>1 DEF ControlOK, Labels
<1>4. PutOK(t)'
  BY <1>0, <1>1 DEF PutOK, Putting, ControlOK
<1> QED BY <1>0, <1>1, <1>2, <1>3, <1>4, QuietStep DEF ControlOK, HoldingsOK, heap
-----------------------------------------------------------------------------
(* A step that extends the heap.                                           *)
LEMMA HeapStep ==
  ASSUME Inv, HeapOK', Grows, NEW t \in Threads,
         \A u \in Threads \ {t} :
           /\ pc'[u] = pc[u] /\ value'[u] = value[u] /\ slot'[u] = slot[u]
           /\ cur'[u] = cur[u] /\ path'[u] = path[u]
           /\ side'[u] = side[u] /\ ws'[u] = ws[u] /\ fun'[u] = fun[u] /\ form'[u] = form[u],
         HoldingsOK(Len(nodes), Len(forms))', ControlOK', PutOK(t)'
  PROVE  Inv'
<1>1. \A u \in Threads : Target(u) \in 1 .. Len(forms)
  BY DEF Inv, Shape, HoldingsOK, Target
<1>2. \A u \in Threads \ {t} : Target(u)' = Target(u)
  BY DEF Target
<1>3. \A f \in 1 .. Len(forms) : forms[f].root # 0 => forms'[f].root # 0
  BY DEF Grows, Forms
<1>4. ASSUME NEW u \in Threads \ {t} PROVE PutOK(u)'
  <2>1. PutOK(u) BY DEF Inv, PutsOK
  <2> QED BY <1>1, <1>2, <1>3, <2>1 DEF PutOK
<1> QED BY <1>4 DEF Inv, Shape, PutsOK

(* PutReturns, on a heap that has grown.                                   *)
LEMMA Returning ==
  ASSUME Inv, HeapOK', Grows, Len(nodes) <= Len(nodes'), Len(forms) <= Len(forms'),
         NEW t \in Threads, pc[t] \in Putting, NEW f \in 1 .. Len(forms'), PutReturns(t, f),
         UNCHANGED <<saved, key, value, form, binds, gets, pushes>>,
         \/ UNCHANGED cur
         \/ cur' = [cur EXCEPT ![t] = 0]
  PROVE  Inv'
<1> DEFINE n2 == Len(nodes')
           m2 == Len(forms')
<1>0. /\ HeapOK /\ ControlOK /\ PutOK(t) /\ n2 \in Nat /\ m2 \in Nat
      /\ Len(nodes) \in Nat /\ Len(forms) \in Nat
  BY HeapLengths DEF Inv, Shape, PutsOK, HeapOK
<1>1. HoldingsOK(n2, m2)
  BY <1>0, HoldingsGrow DEF Inv, Shape
<1>2. /\ path' = [path EXCEPT ![t] = <<>>]
      /\ \/ /\ fun' = [fun EXCEPT ![t] = f] /\ side' = [side EXCEPT ![t] = "thread"]
            /\ slot' = [slot EXCEPT ![t] = <<"root", ws[t]>>]
            /\ pc' = [pc EXCEPT ![t] = "probe"] /\ ws' = ws
         \/ /\ ws' = [ws EXCEPT ![t] = f] /\ slot' = [slot EXCEPT ![t] = <<"root", f>>]
            /\ pc' = [pc EXCEPT ![t] = "bound"] /\ fun' = fun /\ side' = side
  BY DEF PutReturns, Goto
<1> HIDE DEF n2, m2
<1>3. f \in 1 .. m2
  BY DEF m2
<1>4. ws' \in [Threads -> 1 .. m2] /\ fun' \in [Threads -> 1 .. m2]
  BY <1>1, <1>2, <1>3, ZenonT(30) DEF HoldingsOK
<1>5. slot' \in [Threads -> Slots(n2, m2)]
  <2>1. <<"root", ws[t]>> \in Slots(n2, m2) /\ <<"root", f>> \in Slots(n2, m2)
    BY <1>1, <1>3 DEF HoldingsOK, Slots
  <2> QED BY <1>1, <1>2, <2>1 DEF HoldingsOK
<1>6. path' \in [Threads -> Seq(Stops(n2))]
  <2>1. <<>> \in Seq(Stops(n2)) OBVIOUS
  <2> QED BY <1>1, <1>2, <2>1 DEF HoldingsOK
<1>7. cur' \in [Threads -> 0 .. n2]
  <2>1. cur \in [Threads -> 0 .. n2] /\ 0 \in 0 .. n2
    BY <1>0, <1>1 DEF HoldingsOK
  <2> QED BY <2>1
<1>8. HoldingsOK(Len(nodes), Len(forms))'
  BY <1>1, <1>4, <1>5, <1>6, <1>7 DEF HoldingsOK, n2, m2
<1>9. ControlOK'
  BY <1>0, <1>2 DEF ControlOK, Labels
<1>10. PutOK(t)'
  <2>1. CASE /\ fun' = [fun EXCEPT ![t] = f] /\ side' = [side EXCEPT ![t] = "thread"]
             /\ slot' = [slot EXCEPT ![t] = <<"root", ws[t]>>]
             /\ pc' = [pc EXCEPT ![t] = "probe"] /\ ws' = ws
    <3>1. /\ pc'[t] = "probe" /\ side'[t] = "thread" /\ slot'[t] = <<"root", ws[t]>>
          /\ value'[t] # NoValue
      BY <1>0, <1>1, <2>1 DEF ControlOK, HoldingsOK, PutOK
    <3> QED BY <2>1, <3>1 DEF PutOK, Target
  <2>2. CASE pc' = [pc EXCEPT ![t] = "bound"]
    BY <1>0, <2>2 DEF PutOK, Putting, ControlOK
  <2> QED BY <1>2, <2>1, <2>2
<1>11. \A u \in Threads \ {t} :
           /\ pc'[u] = pc[u] /\ value'[u] = value[u] /\ slot'[u] = slot[u]
           /\ cur'[u] = cur[u] /\ path'[u] = path[u]
           /\ side'[u] = side[u] /\ ws'[u] = ws[u] /\ fun'[u] = fun[u] /\ form'[u] = form[u]
  <2>1. /\ DOMAIN pc = Threads /\ DOMAIN slot = Threads /\ DOMAIN cur = Threads
        /\ DOMAIN path = Threads /\ DOMAIN side = Threads /\ DOMAIN ws = Threads
        /\ DOMAIN fun = Threads
    BY <1>0, <1>1 DEF ControlOK, HoldingsOK
  <2>2. \A u \in Threads \ {t} : /\ pc'[u] = pc[u] /\ slot'[u] = slot[u]
                                /\ path'[u] = path[u] /\ cur'[u] = cur[u]
    BY <1>2, <2>1
  <2>3. \A u \in Threads \ {t} : side'[u] = side[u] /\ ws'[u] = ws[u] /\ fun'[u] = fun[u]
    BY <1>2, <2>1
  <2> QED BY <2>2, <2>3
<1> QED BY <1>8, <1>9, <1>10, <1>11, HeapStep
LEMMA PushWorkspaceKeeps ==
  ASSUME Inv, NEW t \in Threads, PushWorkspace(t)
  PROVE  Inv' /\ Grows
<1> DEFINE g == [root |-> 0, next |-> ws[t]]
           n == Len(nodes)
           m == Len(forms)
<1>0. /\ HeapOK /\ ControlOK /\ HoldingsOK(n, m) /\ n \in Nat /\ m \in Nat
  BY HeapLengths DEF Inv, Shape
<1>1. /\ forms' = Append(forms, g) /\ ws' = [ws EXCEPT ![t] = m + 1]
      /\ pushes < MaxPushes /\ pushes' = pushes + 1 /\ pc' = [pc EXCEPT ![t] = "run"]
      /\ UNCHANGED <<nodes, fun, saved, key, value, cur, side, slot, path, form, binds, gets>>
  BY DEF PushWorkspace, Goto, put, read
<1>2. g \in FormsOver(n, m + 1)
  BY <1>0 DEF FormsOver, HoldingsOK
<1>3. forms \in Seq(FormsOver(n, m + 1))
  <2>1. FormsOver(n, m) \subseteq FormsOver(n, m + 1) BY <1>0, FormsGrow
  <2> QED BY <1>0, <2>1 DEF HeapOK
<1> HIDE DEF g
<1>4. /\ forms' \in Seq(FormsOver(n, m + 1)) /\ Len(forms') = m + 1
      /\ \A f \in 1 .. m : forms'[f] = forms[f]
  BY <1>1, <1>2, <1>3, AppendType
<1>5. HeapOK'
  BY <1>0, <1>1, <1>4 DEF HeapOK
<1>6. Grows
  BY <1>1, <1>4 DEF Grows, Nodes, Forms
<1>8. HoldingsOK(Len(nodes), Len(forms))'
  <2>1. HoldingsOK(n, m + 1) BY <1>0, HoldingsGrow
  <2>2. ws' \in [Threads -> 1 .. m + 1] BY <1>0, <1>1, <2>1 DEF HoldingsOK
  <2> QED BY <1>1, <1>4, <2>1, <2>2 DEF HoldingsOK
<1>9. ControlOK'
  BY <1>0, <1>1, WorkspaceAssumption DEF ControlOK, Labels
<1>10. PutOK(t)'
  BY <1>0, <1>1 DEF PutOK, Putting, ControlOK
<1>11. \A u \in Threads \ {t} : pc'[u] = pc[u] /\ ws'[u] = ws[u]
  BY <1>0, <1>1 DEF ControlOK, HoldingsOK
<1> QED BY <1>1, <1>5, <1>6, <1>8, <1>9, <1>10, <1>11, HeapStep

-----------------------------------------------------------------------------
(* A node is linked: the slot that takes it was null.                      *)
LEMMA CasSucceedsKeeps ==
  ASSUME Inv, NEW t \in Threads, CasSucceeds(t)
  PROVE  Inv' /\ Grows
<1> DEFINE n == Len(nodes)
           m == Len(forms)
           s == slot[t]
           ns == Append(nodes, Leaf(t))
<1>0. /\ HeapOK /\ ControlOK /\ HoldingsOK(n, m) /\ PutOK(t) /\ n \in Nat /\ m \in Nat
      /\ pc[t] = "cas" /\ s \in Slots(n, m) /\ Target(t) \in 1 .. m
  BY HeapLengths DEF Inv, Shape, PutsOK, CasSucceeds, HoldingsOK, Target
<1>1. /\ Load(s) = 0
      /\ Store(s, n + 1)
      /\ nodes' = AndChild(s, n + 1, ns)
      /\ PutReturns(t, Target(t))
      /\ UNCHANGED <<saved, key, value, cur, form, binds, gets, pushes>>
  BY DEF CasSucceeds, SlotIsNull, read, used
<1>2. Leaf(t) \in NodesOver(n + 1)
  BY <1>0 DEF Leaf, NodesOver, ControlOK, PutOK, Putting, NoValue
<1>3. /\ ns \in Seq(NodesOver(n + 1)) /\ Len(ns) = n + 1
      /\ \A i \in 1 .. n : ns[i] = nodes[i]
  <2>1. NodesOver(n) \subseteq NodesOver(n + 1) BY <1>0, NodesGrow
  <2>2. nodes \in Seq(NodesOver(n + 1)) BY <1>0, <2>1 DEF HeapOK
  <2> QED BY <1>2, <2>2, AppendType
<1>4. forms \in Seq(FormsOver(n + 1, m))
  <2>1. FormsOver(n, m) \subseteq FormsOver(n + 1, m) BY <1>0, FormsGrow
  <2> QED BY <1>0, <2>1 DEF HeapOK
<1> HIDE DEF ns
<1>5. HeapOK' /\ Grows /\ Len(nodes') = n + 1 /\ Len(forms') = m
  <2>1. CASE s \in {"root"} \X (1 .. m)
    <3>0. s[1] = "root" /\ s[2] \in 1 .. m
      BY <2>1
    <3>1. /\ forms' = [forms EXCEPT ![s[2]].root = n + 1] /\ nodes' = ns
          /\ s[2] \in 1 .. m /\ forms[s[2]].root = 0
      BY <1>1, <3>0 DEF Store, AndChild, Load
    <3>2. [forms[s[2]] EXCEPT !.root = n + 1] \in FormsOver(n + 1, m)
      <4>1. forms[s[2]] \in FormsOver(n + 1, m)
        BY <1>0, <3>0, HeapLengths, FormsGrow
      <4>2. n + 1 \in 0 .. n + 1
        BY <1>0
      <4> QED BY <4>1, <4>2 DEF FormsOver
    <3>3. forms' = [forms EXCEPT ![s[2]] = [forms[s[2]] EXCEPT !.root = n + 1]]
      BY <3>1
    <3>4. /\ forms' \in Seq(FormsOver(n + 1, m)) /\ Len(forms') = m
          /\ \A f \in 1 .. m : f # s[2] => forms'[f] = forms[f]
          /\ forms'[s[2]] = [forms[s[2]] EXCEPT !.root = n + 1]
      BY <1>4, <3>1, <3>2, <3>3
    <3>5. forms'[s[2]].next = forms[s[2]].next
      BY <1>0, <3>1, <3>4, HeapLengths DEF FormsOver
    <3> QED BY <1>0, <1>3, <3>1, <3>4, <3>5 DEF HeapOK, Grows, Nodes, Forms
  <2>2. CASE s \in {"left", "right"} \X (1 .. n)
    <3>1. /\ forms' = forms /\ s[2] \in 1 .. n
          /\ \/ /\ s[1] = "left" /\ nodes' = [ns EXCEPT ![s[2]].left = n + 1]
                /\ nodes[s[2]].left = 0
             \/ /\ s[1] = "right" /\ nodes' = [ns EXCEPT ![s[2]].right = n + 1]
                /\ nodes[s[2]].right = 0
      BY <1>1, <2>2 DEF Store, AndChild, Load
    <3>2. s[2] \in 1 .. n + 1 /\ ns[s[2]] = nodes[s[2]] /\ ns[s[2]] \in NodesOver(n + 1)
      BY <1>0, <1>3, <3>1
    <3> DEFINE d == IF s[1] = "left" THEN [ns[s[2]] EXCEPT !.left = n + 1]
                    ELSE [ns[s[2]] EXCEPT !.right = n + 1]
    <3>3. nodes' = [ns EXCEPT ![s[2]] = d]
      BY <3>1
    <3>4. /\ d \in NodesOver(n + 1) /\ d.key = nodes[s[2]].key /\ d.value = nodes[s[2]].value
          /\ nodes[s[2]].left # 0 => d.left = nodes[s[2]].left
          /\ nodes[s[2]].right # 0 => d.right = nodes[s[2]].right
      BY <1>0, <3>1, <3>2 DEF NodesOver
    <3> HIDE DEF d
    <3>5. /\ nodes' \in Seq(NodesOver(n + 1)) /\ Len(nodes') = n + 1
          /\ \A i \in 1 .. n : i # s[2] => nodes'[i] = nodes[i]
          /\ nodes'[s[2]] = d
      BY <1>3, <3>2, <3>3, <3>4
    <3> QED BY <1>0, <1>4, <3>1, <3>4, <3>5 DEF HeapOK, Grows, Nodes, Forms
  <2> QED BY <1>0, <2>1, <2>2 DEF Slots
<1>6. Target(t) \in 1 .. Len(forms')
  BY <1>0, <1>5
<1> QED BY <1>0, <1>1, <1>5, <1>6, Returning DEF Putting
-----------------------------------------------------------------------------
(* The copy of a path is a path on the longer heap.                        *)
LEMMA CopiedType ==
  ASSUME HeapOK, NEW t \in Threads, value[t] \in Values \ {NoValue},
         path[t] \in Seq(Stops(Len(nodes))), NEW i \in 1 .. Len(path[t]),
         NEW k \in Nat, Len(nodes) <= k,
         (i = Len(path[t]) /\ IsKey(key[t], path[t][i].node)) \/ Len(nodes) + i + 1 <= k
  PROVE  Copied(t, i) \in NodesOver(k)
<1> DEFINE p == path[t][i]
           n == [key |-> nodes[p.node].key, value |-> nodes[p.node].value,
                 left |-> p.left, right |-> p.right]
           child == Len(nodes) + i + 1
<1>1. p \in Stops(Len(nodes))
  <2>1. ASSUME NEW S, NEW q \in Seq(S), NEW j \in 1 .. Len(q) PROVE q[j] \in S
    OBVIOUS
  <2> QED BY <2>1
<1>2. nodes[p.node] \in NodesOver(Len(nodes))
  BY <1>1, HeapLengths DEF Stops
<1>3. n \in NodesOver(k)
  <2>1. nodes[p.node].key \in Names /\ nodes[p.node].value \in Values \ {NoValue}
    BY <1>2 DEF NodesOver
  <2>2. p.left \in 0 .. k /\ p.right \in 0 .. k
    <3>1. p.left \in 0 .. Len(nodes) /\ p.right \in 0 .. Len(nodes)
      BY <1>1 DEF Stops
    <3>2. 0 .. Len(nodes) \subseteq 0 .. k
      BY HeapLengths
    <3> QED BY <3>1, <3>2
  <2> DEFINE x == p.left
             y == p.right
             z == nodes[p.node]
  <2>3. z.key \in Names /\ z.value \in Values \ {NoValue} /\ x \in 0 .. k /\ y \in 0 .. k
    BY <2>1, <2>2
  <2> HIDE DEF x, y, z
  <2>4. [key |-> z.key, value |-> z.value, left |-> x, right |-> y] \in NodesOver(k)
    BY <2>3 DEF NodesOver
  <2> QED BY <2>4 DEF x, y, z
<1>4. [n EXCEPT !.value = value[t]] \in NodesOver(k)
  BY <1>3 DEF NodesOver
<1>5. child <= k => /\ [n EXCEPT !.left = child] \in NodesOver(k)
                    /\ [n EXCEPT !.right = child] \in NodesOver(k)
  <2>1. child <= k => child \in 0 .. k BY HeapLengths
  <2> HIDE DEF child, n
  <2> QED BY <1>3, <2>1 DEF NodesOver
<1> QED BY <1>4, <1>5 DEF Copied

LEMMA CopiedPathType ==
  ASSUME Inv, NEW t \in Threads, pc[t] = "build"
  PROVE  /\ Len(CopiedPath(t)) \in Nat \ {0}
         /\ CopiedPath(t) \in Seq(NodesOver(Len(nodes) + Len(CopiedPath(t))))
<1> DEFINE n == Len(nodes)
           m == Len(path[t])
           last == IsKey(key[t], path[t][m].node)
           copies == [i \in 1 .. m |-> Copied(t, i)]
<1>0. /\ HeapOK /\ ControlOK /\ n \in Nat /\ path[t] \in Seq(Stops(n)) /\ path[t] # <<>>
      /\ value[t] \in Values \ {NoValue} /\ key[t] \in Names
  BY HeapLengths DEF Inv, Shape, PutsOK, PutOK, Putting, HoldingsOK, ControlOK
<1>1. m \in Nat \ {0}
  BY <1>0
<1>2. CASE last
  <2>1. \A i \in 1 .. m : Copied(t, i) \in NodesOver(n + m)
    <3>1. \A i \in 1 .. m : i = m \/ n + i + 1 <= n + m BY <1>0, <1>1
    <3> QED BY <1>0, <1>1, <1>2, <3>1, CopiedType
  <2>2. CopiedPath(t) = copies BY <1>2 DEF CopiedPath
  <2>3. copies \in Seq(NodesOver(n + m)) /\ Len(copies) = m
    BY <1>1, <2>1
  <2> QED BY <1>1, <2>2, <2>3
<1>3. CASE ~ last
  <2>1. \A i \in 1 .. m : Copied(t, i) \in NodesOver(n + m + 1)
    <3>1. \A i \in 1 .. m : n + i + 1 <= n + m + 1 /\ n <= n + m + 1 BY <1>0, <1>1
    <3> QED BY <1>0, <1>1, <3>1, CopiedType
  <2>2. CopiedPath(t) = Append(copies, Leaf(t)) BY <1>3 DEF CopiedPath
  <2>3. copies \in Seq(NodesOver(n + m + 1)) /\ Len(copies) = m
    BY <1>1, <2>1
  <2>4. Leaf(t) \in NodesOver(n + m + 1)
    BY <1>0, <1>1 DEF Leaf, NodesOver
  <2> HIDE DEF copies
  <2>5. /\ Append(copies, Leaf(t)) \in Seq(NodesOver(n + m + 1))
        /\ Len(Append(copies, Leaf(t))) = m + 1
    BY <2>3, <2>4, AppendType
  <2>6. n + m + 1 = n + (m + 1) BY <1>0, <1>1
  <2> QED BY <1>1, <2>2, <2>5, <2>6
<1> QED BY <1>2, <1>3

LEMMA BuildKeeps ==
  ASSUME Inv, NEW t \in Threads, Build(t)
  PROVE  Inv' /\ Grows
<1> DEFINE n == Len(nodes)
           m == Len(forms)
           cp == CopiedPath(t)
           n2 == n + Len(cp)
           f == [root |-> n + 1, next |-> forms[Target(t)].next]
<1>0. /\ HeapOK /\ ControlOK /\ HoldingsOK(n, m) /\ n \in Nat /\ m \in Nat
      /\ pc[t] = "build" /\ Target(t) \in 1 .. m
  BY HeapLengths DEF Inv, Shape, Build, HoldingsOK, Target
<1>1. /\ nodes' = nodes \o cp /\ forms' = Append(forms, f)
      /\ PutReturns(t, m + 1)
      /\ cur' = [cur EXCEPT ![t] = 0]
      /\ UNCHANGED <<saved, key, value, form, binds, gets, pushes>>
  BY DEF Build, read, used
<1>2. /\ cp \in Seq(NodesOver(n2)) /\ Len(cp) \in Nat \ {0}
      /\ n2 \in Nat /\ n <= n2 /\ n + 1 \in 0 .. n2
  BY <1>0, CopiedPathType
<1> HIDE DEF cp
<1>3. nodes \in Seq(NodesOver(n2))
  <2>1. NodesOver(n) \subseteq NodesOver(n2) BY <1>0, <1>2, NodesGrow
  <2> QED BY <1>0, <2>1 DEF HeapOK
<1>4. /\ nodes' \in Seq(NodesOver(n2)) /\ Len(nodes') = n2
      /\ \A i \in 1 .. n : nodes'[i] = nodes[i]
  BY <1>0, <1>1, <1>2, <1>3
<1>5. f \in FormsOver(n2, m + 1)
  <2>1. forms[Target(t)].next \in 0 .. m BY <1>0, HeapLengths DEF FormsOver
  <2> QED BY <1>0, <1>2, <2>1 DEF FormsOver
<1>6. forms \in Seq(FormsOver(n2, m + 1))
  <2>1. FormsOver(n, m) \subseteq FormsOver(n2, m + 1) BY <1>0, <1>2, FormsGrow
  <2> QED BY <1>0, <2>1 DEF HeapOK
<1> HIDE DEF f
<1>7. /\ forms' \in Seq(FormsOver(n2, m + 1)) /\ Len(forms') = m + 1
      /\ \A i \in 1 .. m : forms'[i] = forms[i]
  BY <1>1, <1>5, <1>6, AppendType
<1>8. HeapOK'
  BY <1>4, <1>7 DEF HeapOK
<1>9. Grows
  BY <1>4, <1>7 DEF Grows, Nodes, Forms
<1>10. /\ Len(nodes) <= Len(nodes') /\ Len(forms) <= Len(forms')
       /\ m + 1 \in 1 .. Len(forms')
  BY <1>0, <1>2, <1>4, <1>7
<1> QED BY <1>0, <1>1, <1>8, <1>9, <1>10, Returning DEF Putting

-----------------------------------------------------------------------------
LEMMA NextKeeps == Inv /\ [Next]_vars => Inv' /\ (Grows \/ UNCHANGED vars)
<1> SUFFICES ASSUME Inv, [Next]_vars PROVE Inv' /\ (Grows \/ UNCHANGED vars)
  OBVIOUS
<1>1. UNCHANGED heap => Grows
  BY DEF heap, Grows
<1>2. ASSUME NEW t \in Threads,
             Compile(t) \/ PopWorkspace(t) \/ Bind(t) \/ Get(t) \/ Got(t)
      PROVE  Inv' /\ Grows
  <2>1. UNCHANGED heap
    BY <1>2 DEF Compile, PopWorkspace, Bind, Get, Got, heap
  <2> QED BY <1>1, <1>2, <2>1, CompileKeeps, PopWorkspaceKeeps, BindKeeps, GetKeeps, GotKeeps
<1>3. ASSUME NEW t \in Threads,
             Probe(t) \/ CasFails(t) \/ CopyLeft(t) \/ CopyRight(t) \/ GetStep(t)
      PROVE  Inv' /\ Grows
  <2>1. UNCHANGED heap
    BY <1>3 DEF Probe, CasFails, CopyLeft, CopyRight, GetStep, heap
  <2> QED
    BY <1>1, <1>3, <2>1, ProbeKeeps, CasFailsKeeps, CopyLeftKeeps, CopyRightKeeps, GetStepKeeps
<1>4. ASSUME NEW t \in Threads, PushWorkspace(t) \/ CasSucceeds(t) \/ Build(t)
      PROVE  Inv' /\ Grows
  BY <1>4, PushWorkspaceKeeps, CasSucceedsKeeps, BuildKeeps
<1>5. CASE UNCHANGED vars
  BY <1>5 DEF vars, heap, put, read, used, Inv, Shape, HeapOK, HoldingsOK, ControlOK, PutsOK,
         PutOK, Target
<1> QED BY <1>2, <1>3, <1>4, <1>5 DEF Next, Step

(* No step of any thread changes a key, a value, or a pointer that is set: *)
(* the only store into the heap of tables is the compare-and-swap of a     *)
(* null child, and putPure writes to fresh nodes.                          *)
THEOREM TablesGrowAtLeaves == Spec => GrowsAtLeaves
<1>1. Inv /\ [Next]_vars => [Grows]_vars
  BY NextKeeps
<1>2. Inv /\ [Next]_vars => Inv'
  BY NextKeeps
<1> QED BY <1>1, <1>2, InvInit, PTL DEF Spec, GrowsAtLeaves

(* No step meets a null pointer or leaves the heap: a copy always has a    *)
(* node under it, and a probe is in the table of its own form.             *)
THEOREM PutsAreSound == Spec => []PutsOK
<1>1. Inv /\ [Next]_vars => Inv'
  BY NextKeeps
<1>2. Inv => PutsOK
  BY DEF Inv
<1> QED BY <1>1, <1>2, InvInit, PTL DEF Spec

-----------------------------------------------------------------------------
(* Among finitely many things that are ranked by sets of numbers, one has  *)
(* a set that no other's is strictly inside: how induction is done here.   *)
LEMMA Descent ==
  ASSUME NEW n \in Nat, NEW D \in [0 .. n -> SUBSET (0 .. n)],
         NEW S, S \subseteq 0 .. n, S # {}
  PROVE  \E i \in S : \A j \in S : ~ (D[j] \subseteq D[i] /\ D[j] # D[i])
<1> DEFINE T == {D[i] : i \in S}
           R == StrictSubsetOrdering(0 .. n)
<1>1. IsWellFoundedOn(R, SUBSET (0 .. n))
  <2>1. IsFiniteSet(0 .. n)
    BY FS_Interval
  <2> QED BY <2>1, FS_StrictSubsetOrderingWellFounded, FS_FiniteSubsetsOfFinite
<1>2. T \subseteq SUBSET (0 .. n) /\ T # {}
  OBVIOUS
<1>3. PICK X \in T : \A Y \in T : ~ (<<Y, X>> \in R)
  <2> HIDE DEF T, R
  <2> QED BY <1>1, <1>2, WFMin
<1>4. PICK i \in S : X = D[i]
  BY <1>3
<1>5. ASSUME NEW j \in S, D[j] \subseteq D[i], D[j] # D[i] PROVE FALSE
  <2>1. D[j] \in T /\ D[j] \in SUBSET (0 .. n) /\ D[i] \in SUBSET (0 .. n)
    OBVIOUS
  <2>2. <<D[j], X>> \in R
    BY <1>4, <1>5, <2>1 DEF StrictSubsetOrdering
  <2> QED BY <1>3, <2>1, <2>2
<1> QED BY <1>5

(* A nonempty set of numbers has a least one.                              *)
LEMMA LeastExists ==
  ASSUME NEW n \in Nat, NEW S, S \subseteq 0 .. n, S # {}
  PROVE  \E i \in S : \A j \in S : i <= j
<1> DEFINE D == [i \in 0 .. n |-> 0 .. i]
<1>1. D \in [0 .. n -> SUBSET (0 .. n)]
  OBVIOUS
<1>2. \A i \in 0 .. n : D[i] = 0 .. i
  OBVIOUS
<1> HIDE DEF D
<1>3. PICK i \in S : \A j \in S : ~ (D[j] \subseteq D[i] /\ D[j] # D[i])
  <2>1. S \subseteq 0 .. n /\ S # {} /\ n \in Nat
    OBVIOUS
  <2> QED BY ONLY <1>1, <2>1, Descent, ZenonT(60)
<1>4. ASSUME NEW j \in S, ~ (i <= j) PROVE FALSE
  <2>1. i \in 0 .. n /\ j \in 0 .. n /\ j < i
    BY <1>4
  <2>2. 0 .. j \subseteq 0 .. i /\ i \in 0 .. i /\ i \notin 0 .. j
    BY <2>1
  <2>3. D[j] \subseteq D[i] /\ D[j] # D[i]
    BY <1>2, <2>1, <2>2
  <2> QED BY <1>3, <2>3
<1> QED BY <1>4

(* What holds of one and passes on to the next number holds of all.        *)
LEMMA CountUp ==
  ASSUME NEW m \in Nat, NEW C, 1 \in C, \A i \in 1 .. m : i < m /\ i \in C => i + 1 \in C
  PROVE  1 .. m \subseteq C
<1> DEFINE S == (1 .. m) \ C
<1> SUFFICES ASSUME S # {} PROVE FALSE
  OBVIOUS
<1>1. PICK i \in S : \A j \in S : i <= j
  <2>1. S \subseteq 0 .. m
    OBVIOUS
  <2> HIDE DEF S
  <2> QED BY <2>1, LeastExists
<1>2. i \in 1 .. m /\ i \notin C /\ i # 1
  OBVIOUS
<1>3. i - 1 \in 1 .. m /\ i - 1 < m /\ (i - 1) + 1 = i /\ ~ (i <= i - 1)
  BY <1>2
<1>4. i - 1 \in C
  BY <1>1, <1>3
<1> QED BY <1>2, <1>3, <1>4

-----------------------------------------------------------------------------
(* The recursive functions of Workspace have the values their equations    *)
(* give: for each, some function that satisfies its equation.              *)
LEMMA TreeIs ==
  ASSUME HeapOK
  PROVE  \A i \in 0 .. Len(nodes) :
           Tree(i) = IF i = 0 THEN {} ELSE {i} \cup Tree(nodes[i].left) \cup Tree(nodes[i].right)
<1> DEFINE n == Len(nodes)
           IsTree(f) == f = [i \in 0 .. n |-> IF i = 0 THEN {}
                               ELSE {i} \cup f[nodes[i].left] \cup f[nodes[i].right]]
           T == CHOOSE f : IsTree(f)
           Closed(C) == \A a \in C : /\ nodes[a].left # 0 => nodes[a].left \in C
                                     /\ nodes[a].right # 0 => nodes[a].right \in C
           Reach(i) == {j \in 1 .. n : \A C \in SUBSET (1 .. n) : i \in C /\ Closed(C) => j \in C}
           g == [i \in 0 .. n |-> IF i = 0 THEN {} ELSE Reach(i)]
<1>1. n \in Nat /\ \A i \in 1 .. n : nodes[i].left \in 0 .. n /\ nodes[i].right \in 0 .. n
  BY HeapLengths DEF NodesOver
<1>2. ASSUME NEW i \in 1 .. n, NEW c \in {nodes[i].left, nodes[i].right}
      PROVE  g[c] \subseteq Reach(i)
  <2>1. CASE c = 0
    BY <1>1, <2>1
  <2>2. CASE c # 0
    <3>1. c \in 1 .. n /\ g[c] = Reach(c)
      BY <1>1, <2>2
    <3>2. \A C \in SUBSET (1 .. n) : i \in C /\ Closed(C) => c \in C
      BY <2>2
    <3> HIDE DEF g, Closed
    <3> QED BY <3>1, <3>2
  <2> QED BY <2>1, <2>2
<1>3. ASSUME NEW i \in 1 .. n
      PROVE  Reach(i) \subseteq {i} \cup g[nodes[i].left] \cup g[nodes[i].right]
  <2> DEFINE C == {i} \cup g[nodes[i].left] \cup g[nodes[i].right]
  <2>1. ASSUME NEW r \in 0 .. n
        PROVE  g[r] \subseteq 1 .. n /\ Closed(g[r]) /\ (r # 0 => r \in g[r])
    <3>1. CASE r = 0
      BY <1>1, <3>1
    <3>2. CASE r # 0
      <4>1. r \in 1 .. n /\ g[r] = Reach(r) /\ r \in Reach(r)
        BY <1>1, <3>2
      <4>2. ASSUME NEW a \in Reach(r), NEW c \in {nodes[a].left, nodes[a].right}, c # 0
            PROVE  c \in Reach(r)
        <5>1. a \in 1 .. n /\ c \in 1 .. n
          BY <1>1, <4>2
        <5>2. \A D \in SUBSET (1 .. n) : a \in D /\ Closed(D) => c \in D
          BY <4>2
        <5> HIDE DEF Closed
        <5> QED BY <4>2, <5>1, <5>2
      <4>3. Closed(Reach(r))
        <5> HIDE DEF Reach
        <5> QED BY <4>2
      <4> QED BY <4>1, <4>3
    <3> QED BY <3>1, <3>2
  <2>2. nodes[i].left \in 0 .. n /\ nodes[i].right \in 0 .. n
    BY <1>1
  <2>3. C \in SUBSET (1 .. n) /\ i \in C
    BY <2>1, <2>2
  <2>4. Closed(C)
    <3> HIDE DEF g, Reach
    <3> QED BY <2>1, <2>2
  <2> HIDE DEF g, C, Closed
  <2> QED BY <2>3, <2>4 DEF C
<1>4. IsTree(g)
  <2>1. ASSUME NEW i \in 1 .. n
        PROVE  g[i] = {i} \cup g[nodes[i].left] \cup g[nodes[i].right]
    <3>1. i \in Reach(i) /\ g[i] = Reach(i)
      BY <1>1
    <3> HIDE DEF g, Reach
    <3> QED BY <1>2, <1>3, <3>1
  <2>2. g[0] = {} /\ DOMAIN g = 0 .. n /\ g = [i \in DOMAIN g |-> g[i]]
    BY <1>1
  <2> HIDE DEF g
  <2> QED BY <1>1, <2>1, <2>2
<1>5. \A i : Tree(i) = T[i]
  BY SMT DEF Tree
<1>6. IsTree(T)
  <2> HIDE DEF IsTree, g
  <2> QED BY <1>4
<1> HIDE DEF T
<1> QED BY <1>5, <1>6

(* f goes on from place to place until it stops, and has the value there.  *)
Chases(f, n, next, stops, val) ==
  /\ f = [i \in 0 .. n |-> f[i]]
  /\ \A i \in stops : f[i] = val[i]
  /\ \A i \in (0 .. n) \ stops : f[i] = f[next[i]]

LEMMA Chase ==
  ASSUME NEW n \in Nat, NEW next \in [0 .. n -> 0 .. n], NEW stops, stops \subseteq 0 .. n, NEW val
  PROVE  \E f : Chases(f, n, next, stops, val)
<1> DEFINE Closed(C) == \A a \in C : a \notin stops => next[a] \in C
           Ends(i) == {s \in stops : \A C \in SUBSET (0 .. n) : i \in C /\ Closed(C) => s \in C}
           One(S) == CHOOSE s : s \in S
           End(i) == One(Ends(i))
           f == [i \in 0 .. n |-> val[End(i)]]
<1>1. ASSUME NEW i \in stops PROVE End(i) = i
  <2>1. i \in Ends(i)
    OBVIOUS
  <2>2. ASSUME NEW s \in Ends(i) PROVE s = i
    <3>1. {i} \in SUBSET (0 .. n) /\ Closed({i})
      OBVIOUS
    <3> HIDE DEF Closed
    <3> QED BY <3>1, <2>2
  <2> HIDE DEF Ends
  <2> QED BY <2>1, <2>2
<1>2. ASSUME NEW i \in 0 .. n, i \notin stops PROVE Ends(i) = Ends(next[i])
  <2>1. next[i] \in 0 .. n
    OBVIOUS
  <2>2. ASSUME NEW s \in Ends(i), NEW C \in SUBSET (0 .. n), next[i] \in C, Closed(C) PROVE s \in C
    <3>1. C \cup {i} \in SUBSET (0 .. n) /\ Closed(C \cup {i}) /\ i \in C \cup {i}
      BY <2>2
    <3>2. s \in C \cup {i} /\ s \in stops
      <4> HIDE DEF Closed
      <4> QED BY <2>2, <3>1
    <3> QED BY <1>2, <3>2
  <2>3. ASSUME NEW s \in Ends(next[i]), NEW C \in SUBSET (0 .. n), i \in C, Closed(C) PROVE s \in C
    <3>1. next[i] \in C
      BY <1>2, <2>3
    <3> HIDE DEF Closed
    <3> QED BY <2>3, <3>1
  <2> HIDE DEF Closed
  <2> QED BY <2>2, <2>3
<1>3. ASSUME NEW i \in 0 .. n, i \notin stops PROVE End(i) = End(next[i])
  <2> HIDE DEF Ends, One
  <2> QED BY <1>2, <1>3
<1> HIDE DEF End
<1>4. f = [i \in 0 .. n |-> f[i]] /\ \A i \in 0 .. n : f[i] = val[End(i)]
  OBVIOUS
<1> HIDE DEF f
<1>5. \A i \in stops : f[i] = val[i]
  BY <1>1, <1>4
<1>6. \A i \in (0 .. n) \ stops : f[i] = f[next[i]]
  BY <1>3, <1>4
<1> QED BY <1>4, <1>5, <1>6 DEF Chases

LEMMA FindIs ==
  ASSUME HeapOK, NEW k
  PROVE  \A r \in 0 .. Len(nodes) :
           Find(k, r) = IF r = 0 THEN NoValue ELSE IF SameHash(k, r) THEN nodes[r].value
                        ELSE Find(k, Load(<<Toward(k, r), r>>))
<1> DEFINE n == Len(nodes)
           IsFind(f) == f = [i \in 0 .. n |-> IF i = 0 THEN NoValue
                               ELSE IF SameHash(k, i) THEN nodes[i].value
                               ELSE f[Load(<<Toward(k, i), i>>)]]
           F == CHOOSE f : IsFind(f)
           next == [i \in 0 .. n |-> IF i = 0 THEN 0 ELSE Load(<<Toward(k, i), i>>)]
           stops == {i \in 0 .. n : i = 0 \/ SameHash(k, i)}
           val == [i \in 0 .. n |-> IF i = 0 THEN NoValue ELSE nodes[i].value]
<1>0. n \in Nat
  BY HeapLengths
<1>1. next \in [0 .. n -> 0 .. n] /\ stops \subseteq 0 .. n
  <2>1. \A i \in 1 .. n : Load(<<Toward(k, i), i>>) \in 0 .. n
    BY TowardChild, Loads
  <2>2. 0 \in 0 .. n
    BY HeapLengths
  <2> QED BY <2>1, <2>2
<1>2. PICK g : Chases(g, n, next, stops, val)
  <2> HIDE DEF next, stops, val, n
  <2> QED BY <1>0, <1>1, Chase
<1>3. \A i \in 0 .. n : g[i] =
                           IF i = 0 THEN NoValue ELSE IF SameHash(k, i) THEN nodes[i].value
                           ELSE g[Load(<<Toward(k, i), i>>)]
  BY <1>2 DEF Chases
<1>4. IsFind(g)
  <2> HIDE DEF next, stops, val, n
  <2> QED BY <1>2, <1>3 DEF Chases
<1>5. \A r : Find(k, r) = F[r]
  BY SMT DEF Find
<1>6. IsFind(F)
  <2> HIDE DEF IsFind
  <2> QED BY <1>4
<1>7. \A i \in 1 .. n : Load(<<Toward(k, i), i>>) \in 0 .. n
  BY TowardChild, Loads
<1> HIDE DEF F
<1> QED BY <1>5, <1>6, <1>7

LEMMA LookupIs ==
  ASSUME HeapOK, NEW k
  PROVE  \A f \in 0 .. Len(forms) :
           Lookup(k, f) = IF f = 0 THEN NoValue
                          ELSE IF Find(k, forms[f].root) = NoValue THEN Lookup(k, forms[f].next)
                          ELSE Find(k, forms[f].root)
<1> DEFINE m == Len(forms)
           v(i) == Find(k, forms[i].root)
           IsLookup(f) == f = [i \in 0 .. m |-> IF i = 0 THEN NoValue
                                 ELSE IF v(i) = NoValue THEN f[forms[i].next] ELSE v(i)]
           F == CHOOSE f : IsLookup(f)
           next == [i \in 0 .. m |-> IF i = 0 THEN 0 ELSE forms[i].next]
           stops == {i \in 0 .. m : i = 0 \/ v(i) # NoValue}
           val == [i \in 0 .. m |-> IF i = 0 THEN NoValue ELSE v(i)]
<1>0. m \in Nat
  BY HeapLengths
<1>1. next \in [0 .. m -> 0 .. m] /\ stops \subseteq 0 .. m
  <2>1. \A i \in 1 .. m : forms[i].next \in 0 .. m
    BY HeapLengths DEF FormsOver
  <2>2. 0 \in 0 .. m
    BY HeapLengths
  <2> QED BY <2>1, <2>2
<1>2. PICK g : Chases(g, m, next, stops, val)
  <2> HIDE DEF next, stops, val, m
  <2> QED BY <1>0, <1>1, Chase
<1>3. \A i \in 0 .. m : g[i] =
                           IF i = 0 THEN NoValue
                           ELSE IF v(i) = NoValue THEN g[forms[i].next] ELSE v(i)
  BY <1>2 DEF Chases
<1>4. IsLookup(g)
  <2> HIDE DEF next, stops, val, m
  <2> QED BY <1>2, <1>3 DEF Chases
<1>5. \A f : Lookup(k, f) = F[f]
  BY SMT DEF Lookup
<1>6. IsLookup(F)
  <2> HIDE DEF IsLookup
  <2> QED BY <1>4
<1>7. \A i \in 1 .. m : forms[i].next \in 0 .. m
  BY HeapLengths DEF FormsOver
<1> HIDE DEF F
<1> QED BY <1>5, <1>6, <1>7

-----------------------------------------------------------------------------
(* The order of the trees, without recursion: zone[n] are the names whose  *)
(* search passes node n.  The root of a form has all names, a child those  *)
(* of its node that are looked for on its side.                            *)
ChildZone(zone, d, n) ==
  IF d = "left" THEN {k \in zone[n] : Hash[k] < Hash[nodes[n].key]}
  ELSE {k \in zone[n] : Hash[k] >= Hash[nodes[n].key] /\ k # nodes[n].key}
SlotZone(zone, s) == IF s[1] = "root" THEN Names ELSE ChildZone(zone, s[1], s[2])

TablesZoned(zone) ==
  /\ zone \in [1 .. Len(nodes) -> SUBSET Names]
  /\ \A n \in 1 .. Len(nodes) : nodes[n].key \in zone[n]
  /\ \A s \in Slots(Len(nodes), Len(forms)) : Load(s) # 0 => zone[Load(s)] = SlotZone(zone, s)

(* What putPure has read: a path of nodes from a root towards name k, and  *)
(* of each node children that it has or had not yet.                       *)
PathFits(zone, k, p) ==
  \A i \in 1 .. Len(p) :
    LET n == p[i].node
    IN  /\ k \in zone[n]
        /\ i = 1 => zone[n] = Names
        /\ p[i].left \in {0, nodes[n].left} /\ p[i].right \in {0, nodes[n].right}
        /\ i < Len(p) => /\ ~ IsKey(k, n)
                         /\ zone[p[i + 1].node] = ChildZone(zone, Toward(k, n), n)

Stop(n) == [node |-> n, left |-> 0, right |-> 0]
ThreadZoned(zone, t) ==
  /\ pc[t] \notin {"copyLeft", "copyRight", "build"} => path[t] = <<>>
  /\ pc[t] \in {"probe", "cas"} => key[t] \in SlotZone(zone, slot[t])
  /\ pc[t] = "copyLeft" => PathFits(zone, key[t], Append(path[t], Stop(cur[t])))
  /\ pc[t] \in {"copyRight", "build"} => PathFits(zone, key[t], path[t])
  /\ pc[t] = "copyRight" => path[t][Len(path[t])].node = cur[t]

Zoned(zone) == TablesZoned(zone) /\ \A t \in Threads : ThreadZoned(zone, t)

LEMMA ChildrenZoned ==
  ASSUME HeapOK, NEW zone, TablesZoned(zone), NEW n \in 1 .. Len(nodes), NEW d \in {"left", "right"},
         Load(<<d, n>>) # 0
  PROVE  /\ Load(<<d, n>>) \in 1 .. Len(nodes)
         /\ zone[Load(<<d, n>>)] = ChildZone(zone, d, n)
         /\ zone[Load(<<d, n>>)] \subseteq zone[n] /\ nodes[n].key \notin zone[Load(<<d, n>>)]
<1>1. <<d, n>> \in Slots(Len(nodes), Len(forms))
  BY DEF Slots
<1>2. Load(<<d, n>>) \in 1 .. Len(nodes)
  BY <1>1, Loads, HeapLengths
<1>3. zone[Load(<<d, n>>)] = ChildZone(zone, d, n)
  BY <1>1 DEF TablesZoned, SlotZone
<1>4. Hash[nodes[n].key] \in Int
  BY WorkspaceAssumption, HeapLengths DEF NodesOver
<1>5. ChildZone(zone, d, n) \subseteq zone[n] /\ nodes[n].key \notin ChildZone(zone, d, n)
  BY <1>4 DEF ChildZone
<1> QED BY <1>2, <1>3, <1>5

(* The trees have no cycles: among any nodes there is one both whose       *)
(* children are not.                                                       *)
LEMMA Downward ==
  ASSUME HeapOK, NEW zone, TablesZoned(zone), NEW S, S \subseteq 1 .. Len(nodes), S # {}
  PROVE  \E i \in S : \A d \in {"left", "right"} : Load(<<d, i>>) \notin S
<1> DEFINE n == Len(nodes)
           Below(i) == {j \in 1 .. n : zone[j] \subseteq zone[i] /\ zone[j] # zone[i]}
           D == [i \in 0 .. n |-> Below(i)]
<1>1. n \in Nat /\ S \subseteq 0 .. n /\ D \in [0 .. n -> SUBSET (0 .. n)]
  BY HeapLengths
<1>2. \A i \in S : D[i] = Below(i)
  BY <1>1
<1>3. PICK i \in S : \A j \in S : ~ (D[j] \subseteq D[i] /\ D[j] # D[i])
  <2> HIDE DEF D, n
  <2> QED BY <1>1, Descent
<1>4. ASSUME NEW d \in {"left", "right"}, Load(<<d, i>>) \in S PROVE FALSE
  <2> DEFINE c == Load(<<d, i>>)
  <2>0. \A x \in S : x \in 1 .. n /\ x # 0
    BY <1>1
  <2>1. c \in 1 .. n /\ i \in 1 .. n /\ c # 0
    BY <1>4, <2>0
  <2>2. zone[c] \subseteq zone[i] /\ nodes[i].key \notin zone[c]
    BY <2>1, ChildrenZoned
  <2>3. nodes[i].key \in zone[i]
    BY <2>1 DEF TablesZoned
  <2> HIDE DEF c
  <2>4. Below(c) \subseteq Below(i) /\ c \in Below(i) /\ c \notin Below(c)
    BY <2>1, <2>2, <2>3
  <2>5. c \in S
    BY <1>4 DEF c
  <2>6. D[c] = Below(c) /\ D[i] = Below(i)
    BY <1>2, <2>5
  <2>7. D[c] \subseteq D[i] /\ D[c] # D[i]
    BY <2>4, <2>6
  <2> QED BY <1>3, <2>5, <2>7
<1> QED BY <1>4

LEMMA TreeZoned ==
  ASSUME HeapOK, NEW zone, TablesZoned(zone)
  PROVE  \A i \in 1 .. Len(nodes) : \A m \in Tree(i) : m \in 1 .. Len(nodes) /\ zone[m] \subseteq zone[i]
<1> DEFINE Good(i) == \A m \in Tree(i) : m \in 1 .. Len(nodes) /\ zone[m] \subseteq zone[i]
           S == {i \in 1 .. Len(nodes) : ~ Good(i)}
<1> SUFFICES ASSUME S # {} PROVE FALSE
  OBVIOUS
<1>1. PICK i \in S : \A d \in {"left", "right"} : Load(<<d, i>>) \notin S
  <2> HIDE DEF S
  <2>1. S \subseteq 1 .. Len(nodes)
    BY DEF S
  <2> QED BY <2>1, Downward
<1>2. i \in 1 .. Len(nodes) /\ ~ Good(i)
  OBVIOUS
<1>3. ASSUME NEW d \in {"left", "right"}, NEW m \in Tree(Load(<<d, i>>))
      PROVE  m \in 1 .. Len(nodes) /\ zone[m] \subseteq zone[i]
  <2>1. Load(<<d, i>>) \in 0 .. Len(nodes)
    BY <1>2, HeapLengths DEF Load, NodesOver
  <2>2. Tree(0) = {} /\ Load(<<d, i>>) # 0
    BY <1>2, <1>3, <2>1, TreeIs, HeapLengths
  <2>3. Load(<<d, i>>) \in 1 .. Len(nodes) /\ zone[Load(<<d, i>>)] \subseteq zone[i]
    BY <1>2, <2>2, ChildrenZoned
  <2>4. Good(Load(<<d, i>>))
    BY <1>1, <2>3
  <2> QED BY <1>3, <2>3, <2>4
<1>4. Tree(i) = {i} \cup Tree(Load(<<"left", i>>)) \cup Tree(Load(<<"right", i>>))
  BY <1>2, TreeIs DEF Load
<1>5. Good(i)
  <2> SUFFICES ASSUME NEW m \in Tree(i) PROVE m \in 1 .. Len(nodes) /\ zone[m] \subseteq zone[i]
    OBVIOUS
  <2> QED BY <1>2, <1>3, <1>4
<1> QED BY <1>2, <1>5

(* The order that the zones state is the one that the trees have.          *)
LEMMA ZonedIsOrdered ==
  ASSUME HeapOK, NEW zone, TablesZoned(zone)
  PROVE  Ordered
<1>1. ASSUME NEW f \in Forms, NEW n \in Tree(forms[f].root) PROVE n \in 1 .. Len(nodes)
  <2>1. forms[f].root \in 0 .. Len(nodes)
    BY HeapLengths DEF Forms, FormsOver
  <2>2. Tree(0) = {}
    BY TreeIs, HeapLengths
  <2> QED BY <1>1, <2>1, <2>2, TreeZoned
<1>2. ASSUME NEW n \in 1 .. Len(nodes), NEW d \in {"left", "right"}, NEW m \in Tree(Load(<<d, n>>))
      PROVE  m \in 1 .. Len(nodes) /\ nodes[m].key \in ChildZone(zone, d, n)
  <2>1. Load(<<d, n>>) \in 0 .. Len(nodes) /\ Load(<<d, n>>) # 0
    <3>1. Tree(0) = {}
      BY TreeIs, HeapLengths
    <3>2. Load(<<d, n>>) \in 0 .. Len(nodes)
      BY HeapLengths DEF Load, NodesOver
    <3> QED BY <1>2, <3>1, <3>2
  <2>2. /\ Load(<<d, n>>) \in 1 .. Len(nodes)
        /\ zone[Load(<<d, n>>)] = ChildZone(zone, d, n)
    <3>1. <<d, n>> \in Slots(Len(nodes), Len(forms))
      BY DEF Slots
    <3> QED BY <2>1, <3>1, HeapLengths DEF TablesZoned, SlotZone
  <2>3. m \in 1 .. Len(nodes) /\ zone[m] \subseteq ChildZone(zone, d, n)
    BY <1>2, <2>2, TreeZoned
  <2> QED BY <2>3 DEF TablesZoned
<1>3. ASSUME NEW n \in 1 .. Len(nodes)
      PROVE  /\ \A m \in Tree(nodes[n].left) : Hash[nodes[m].key] < Hash[nodes[n].key]
             /\ \A m \in Tree(nodes[n].right) :
                  nodes[m].key # nodes[n].key /\ Hash[nodes[m].key] >= Hash[nodes[n].key]
  <2>1. /\ Load(<<"left", n>>) = nodes[n].left /\ Load(<<"right", n>>) = nodes[n].right
    BY DEF Load
  <2> QED BY <1>2, <2>1 DEF ChildZone
<1> QED BY <1>1, <1>3 DEF Ordered

(* What the zones say of a thread stays true while the tables grow.        *)
LEMMA PathStays ==
  ASSUME HeapOK, Grows, NEW zone, NEW zone2, \A n \in 1 .. Len(nodes) : zone2[n] = zone[n],
         NEW k, NEW p \in Seq(Stops(Len(nodes))), PathFits(zone, k, p)
  PROVE  PathFits(zone2, k, p)'
<1> SUFFICES ASSUME NEW i \in 1 .. Len(p)
             PROVE  LET n == p[i].node
                    IN  /\ k \in zone2[n]
                        /\ i = 1 => zone2[n] = Names
                        /\ p[i].left \in {0, nodes'[n].left} /\ p[i].right \in {0, nodes'[n].right}
                        /\ i < Len(p) => /\ ~ IsKey(k, n)'
                                         /\ zone2[p[i + 1].node] = ChildZone(zone2, Toward(k, n), n)'
  BY DEF PathFits
<1> DEFINE n == p[i].node
<1>1. \A j \in 1 .. Len(p) : p[j] \in Stops(Len(nodes))
  OBVIOUS
<1>2. n \in 1 .. Len(nodes)
  BY <1>1 DEF Stops
<1>3. /\ nodes'[n].key = nodes[n].key /\ zone2[n] = zone[n]
      /\ nodes[n].left # 0 => nodes'[n].left = nodes[n].left
      /\ nodes[n].right # 0 => nodes'[n].right = nodes[n].right
  BY <1>2 DEF Grows, Nodes
<1>4. /\ k \in zone[n]
      /\ i = 1 => zone[n] = Names
      /\ p[i].left \in {0, nodes[n].left} /\ p[i].right \in {0, nodes[n].right}
      /\ i < Len(p) => /\ ~ IsKey(k, n)
                       /\ zone[p[i + 1].node] = ChildZone(zone, Toward(k, n), n)
  BY DEF PathFits
<1>5. i < Len(p) => zone2[p[i + 1].node] = zone[p[i + 1].node]
  <2> SUFFICES ASSUME i < Len(p) PROVE zone2[p[i + 1].node] = zone[p[i + 1].node]
    OBVIOUS
  <2>1. i + 1 \in 1 .. Len(p)
    OBVIOUS
  <2>2. p[i + 1].node \in 1 .. Len(nodes)
    BY <1>1, <2>1 DEF Stops
  <2> QED BY <2>2
<1> HIDE DEF n
<1>6. (IsKey(k, n)' <=> IsKey(k, n)) /\ Toward(k, n)' = Toward(k, n)
  BY <1>3 DEF IsKey, Toward
<1>7. ChildZone(zone2, Toward(k, n), n)' = ChildZone(zone, Toward(k, n), n)
  BY <1>3, <1>6 DEF ChildZone
<1> QED BY <1>3, <1>4, <1>5, <1>6, <1>7 DEF n

LEMMA ThreadStays ==
  ASSUME Inv, Grows, NEW zone, NEW zone2, \A n \in 1 .. Len(nodes) : zone2[n] = zone[n],
         NEW u \in Threads, ThreadZoned(zone, u),
         pc'[u] = pc[u], key'[u] = key[u], slot'[u] = slot[u], cur'[u] = cur[u], path'[u] = path[u]
  PROVE  ThreadZoned(zone2, u)'
<1>0. /\ HeapOK /\ HoldingsOK(Len(nodes), Len(forms)) /\ PutOK(u)
      /\ slot[u] \in Slots(Len(nodes), Len(forms)) /\ path[u] \in Seq(Stops(Len(nodes)))
      /\ cur[u] \in 0 .. Len(nodes) /\ Len(nodes) \in Nat
  BY HeapLengths DEF Inv, Shape, PutsOK, HoldingsOK
<1>1. SlotZone(zone2, slot[u])' = SlotZone(zone, slot[u])
  <2>1. CASE slot[u][1] = "root"
    BY <2>1 DEF SlotZone
  <2>2. CASE slot[u][1] # "root"
    <3>1. slot[u][2] \in 1 .. Len(nodes)
      BY <1>0, <2>2 DEF Slots
    <3>2. zone2[slot[u][2]] = zone[slot[u][2]]
      BY <3>1
    <3>3. nodes'[slot[u][2]].key = nodes[slot[u][2]].key
      BY <3>1 DEF Grows, Nodes
    <3> QED BY <2>2, <3>2, <3>3 DEF SlotZone, ChildZone
  <2> QED BY <2>1, <2>2
<1>2. ASSUME pc[u] = "copyLeft"
      PROVE  PathFits(zone2, key[u], Append(path[u], Stop(cur[u])))'
  <2> DEFINE p == Append(path[u], Stop(cur[u]))
  <2>1. p \in Seq(Stops(Len(nodes)))
    <3>1. Stop(cur[u]) \in Stops(Len(nodes))
      BY <1>0, <1>2 DEF PutOK, Stop, Stops
    <3> QED BY <1>0, <3>1, AppendType
  <2>2. PathFits(zone, key[u], p)
    BY <1>2 DEF ThreadZoned
  <2> HIDE DEF p
  <2>3. PICK q, k : q = p /\ k = key[u]
    OBVIOUS
  <2>4. PathFits(zone2, k, q)'
    BY <1>0, <2>1, <2>2, <2>3, PathStays
  <2>5. q = Append(path[u], Stop(cur[u]))' /\ k = key'[u]
    BY <2>3 DEF p, Stop
  <2> QED BY <2>4, <2>5 DEF PathFits
<1>3. ASSUME pc[u] \in {"copyRight", "build"}
      PROVE  PathFits(zone2, key[u], path[u])'
  <2>2. PathFits(zone, key[u], path[u])
    BY <1>3 DEF ThreadZoned
  <2>3. PICK q, k : q = path[u] /\ k = key[u]
    OBVIOUS
  <2>4. PathFits(zone2, k, q)'
    BY <1>0, <2>2, <2>3, PathStays
  <2>5. q = path'[u] /\ k = key'[u]
    BY <2>3
  <2> QED BY <2>4, <2>5 DEF PathFits
<1> QED BY <1>1, <1>2, <1>3 DEF ThreadZoned

(* A step that leaves the heap alone.                                      *)
LEMMA ZonedQuiet ==
  ASSUME Inv, UNCHANGED heap, NEW zone, Zoned(zone), NEW t \in Threads,
         \A u \in Threads \ {t} : /\ pc'[u] = pc[u] /\ key'[u] = key[u] /\ slot'[u] = slot[u]
                                  /\ cur'[u] = cur[u] /\ path'[u] = path[u],
         ThreadZoned(zone, t)'
  PROVE  Zoned(zone)'
<1>1. Grows
  BY DEF Grows, heap
<1>2. TablesZoned(zone)'
  BY DEF Zoned, TablesZoned, heap, SlotZone, ChildZone, Load
<1>3. ASSUME NEW u \in Threads \ {t} PROVE ThreadZoned(zone, u)'
  <2>1. ThreadZoned(zone, u) BY DEF Zoned
  <2> QED BY <1>1, <2>1, ThreadStays
<1> QED BY <1>2, <1>3 DEF Zoned

-----------------------------------------------------------------------------
LEMMA TowardZone ==
  ASSUME HeapOK, NEW zone, NEW n \in 1 .. Len(nodes), NEW k \in Names, k \in zone[n], ~ IsKey(k, n)
  PROVE  k \in ChildZone(zone, Toward(k, n), n)
<1>1. Hash[k] \in Int /\ Hash[nodes[n].key] \in Int
  BY WorkspaceAssumption, HeapLengths DEF NodesOver
<1> QED BY <1>1 DEF ChildZone, Toward, IsKey

(* A path whose last stop has another child filled in.                     *)
LEMMA PathFilled ==
  ASSUME NEW zone, NEW k, NEW S, NEW p \in Seq(S), NEW q \in Seq(S), PathFits(zone, k, p),
         Len(q) = Len(p), \A i \in 1 .. Len(p) : q[i].node = p[i].node,
         \A i \in 1 .. Len(p) : i < Len(p) => q[i] = p[i],
         \A i \in 1 .. Len(p) : i = Len(p) =>
           q[i].left \in {0, nodes[q[i].node].left} /\ q[i].right \in {0, nodes[q[i].node].right}
  PROVE  PathFits(zone, k, q)
<1> SUFFICES ASSUME NEW i \in 1 .. Len(q)
             PROVE  LET n == q[i].node
                    IN  /\ k \in zone[n]
                        /\ i = 1 => zone[n] = Names
                        /\ q[i].left \in {0, nodes[n].left} /\ q[i].right \in {0, nodes[n].right}
                        /\ i < Len(q) => /\ ~ IsKey(k, n)
                                         /\ zone[q[i + 1].node] = ChildZone(zone, Toward(k, n), n)
  BY DEF PathFits
<1>1. i \in 1 .. Len(p) /\ q[i].node = p[i].node /\ Len(p) \in Nat
  OBVIOUS
<1>2. i < Len(p) => q[i + 1].node = p[i + 1].node /\ q[i] = p[i]
  OBVIOUS
<1>3. LET n == p[i].node
      IN  /\ k \in zone[n]
          /\ i = 1 => zone[n] = Names
          /\ p[i].left \in {0, nodes[n].left} /\ p[i].right \in {0, nodes[n].right}
          /\ i < Len(p) => /\ ~ IsKey(k, n)
                           /\ zone[p[i + 1].node] = ChildZone(zone, Toward(k, n), n)
  BY <1>1 DEF PathFits
<1>4. i = Len(p) => q[i].left \in {0, nodes[q[i].node].left} /\ q[i].right \in {0, nodes[q[i].node].right}
  BY <1>1
<1>5. i = Len(p) \/ i < Len(p)
  OBVIOUS
<1> QED BY <1>1, <1>2, <1>3, <1>4, <1>5

(* A path that goes on to the child that its name is looked for at.        *)
LEMMA PathLonger ==
  ASSUME HeapOK, NEW zone, TablesZoned(zone), NEW k \in Names, NEW p \in Seq(Stops(Len(nodes))),
         PathFits(zone, k, p), NEW m \in 1 .. Len(p), m = Len(p),
         NEW n \in 1 .. Len(nodes), p[m].node = n, ~ IsKey(k, n),
         NEW c \in 1 .. Len(nodes), c = Load(<<Toward(k, n), n>>)
  PROVE  PathFits(zone, k, Append(p, Stop(c)))
<1> DEFINE q == Append(p, Stop(c))
<1>1. Stop(c) \in Stops(Len(nodes)) /\ Stop(c).node = c /\ Stop(c).left = 0 /\ Stop(c).right = 0
  BY HeapLengths DEF Stop, Stops
<1>2. /\ q \in Seq(Stops(Len(nodes))) /\ Len(q) = m + 1
      /\ \A i \in 1 .. m : q[i] = p[i]
      /\ q[m + 1] = Stop(c)
  BY <1>1, AppendType
<1>3. zone[c] = ChildZone(zone, Toward(k, n), n) /\ k \in zone[n] /\ k \in zone[c]
  <2>1. k \in zone[n]
    BY DEF PathFits
  <2>2. Toward(k, n) \in {"left", "right"} /\ Load(<<Toward(k, n), n>>) # 0
    BY DEF Toward
  <2>3. zone[Load(<<Toward(k, n), n>>)] = ChildZone(zone, Toward(k, n), n)
    <3> DEFINE s == <<Toward(k, n), n>>
    <3>1. s \in Slots(Len(nodes), Len(forms)) /\ s[1] # "root" /\ s[1] = Toward(k, n) /\ s[2] = n
      BY <2>2 DEF Slots
    <3> HIDE DEF s
    <3>2. Load(s) # 0 => zone[Load(s)] = ChildZone(zone, s[1], s[2])
      BY <3>1 DEF TablesZoned, SlotZone
    <3> QED BY <2>2, <3>1, <3>2 DEF s
  <2> QED BY <2>1, <2>3, TowardZone
<1> HIDE DEF q
<1>4. ASSUME NEW i \in 1 .. m
      PROVE  LET x == q[i].node
             IN  /\ k \in zone[x]
                 /\ i = 1 => zone[x] = Names
                 /\ q[i].left \in {0, nodes[x].left} /\ q[i].right \in {0, nodes[x].right}
                 /\ /\ ~ IsKey(k, x)
                    /\ zone[q[i + 1].node] = ChildZone(zone, Toward(k, x), x)
  <2>1. q[i] = p[i]
    BY <1>2
  <2>2. CASE i < m
    <3>1. q[i + 1] = p[i + 1]
      BY <1>2, <2>2
    <3> QED BY <2>1, <2>2, <3>1 DEF PathFits
  <2>3. CASE i = m
    <3>1. q[i + 1].node = c /\ q[i].node = n
      BY <1>1, <1>2, <2>1, <2>3
    <3> QED BY <1>3, <2>1, <2>3, <3>1 DEF PathFits
  <2> QED BY <2>2, <2>3
<1>5. LET x == q[m + 1].node
      IN  /\ k \in zone[x]
          /\ q[m + 1].left \in {0, nodes[x].left} /\ q[m + 1].right \in {0, nodes[x].right}
          /\ m + 1 # 1
  BY <1>1, <1>2, <1>3
<1>6. \A i \in 1 .. m + 1 : i \in 1 .. m \/ i = m + 1
  OBVIOUS
<1>7. ASSUME NEW i \in 1 .. m + 1
      PROVE  LET x == q[i].node
             IN  /\ k \in zone[x]
                 /\ i = 1 => zone[x] = Names
                 /\ q[i].left \in {0, nodes[x].left} /\ q[i].right \in {0, nodes[x].right}
                 /\ i < m + 1 => /\ ~ IsKey(k, x)
                                 /\ zone[q[i + 1].node] = ChildZone(zone, Toward(k, x), x)
  <2>1. CASE i \in 1 .. m
    BY <1>4, <2>1
  <2>2. CASE i = m + 1
    BY <1>5, <2>2
  <2> QED BY <1>6, <2>1, <2>2
<1>8. PathFits(zone, k, q)
  BY <1>2, <1>7 DEF PathFits
<1> QED BY <1>8 DEF q

-----------------------------------------------------------------------------
LEMMA BindZoned ==
  ASSUME Inv, NEW zone, Zoned(zone), NEW t \in Threads, Bind(t)
  PROVE  Zoned(zone)'
<1>0. ControlOK /\ HoldingsOK(Len(nodes), Len(forms)) /\ ThreadZoned(zone, t) /\ ControlOK'
  BY BindKeeps DEF Inv, Shape, Zoned
<1>1. /\ pc[t] \in Ready /\ pc' = [pc EXCEPT ![t] = "probe"]
      /\ slot' = [slot EXCEPT ![t] = <<"root", fun[t]>>]
      /\ \E k \in Names : key' = [key EXCEPT ![t] = k]
      /\ UNCHANGED <<nodes, forms, cur, path>>
  BY DEF Bind, Goto, heap
<1>2. pc'[t] = "probe" /\ slot'[t][1] = "root" /\ key'[t] \in Names /\ path'[t] = <<>>
  BY <1>0, <1>1 DEF ControlOK, HoldingsOK, ThreadZoned, Ready
<1>3. ThreadZoned(zone, t)'
  BY <1>2 DEF ThreadZoned, SlotZone
<1>4. \A u \in Threads \ {t} : /\ pc'[u] = pc[u] /\ key'[u] = key[u] /\ slot'[u] = slot[u]
  BY <1>0, <1>1 DEF ControlOK, HoldingsOK
<1> QED BY <1>1, <1>3, <1>4, ZonedQuiet DEF heap

LEMMA PathStarts ==
  ASSUME NEW zone, NEW k \in Names, NEW r, zone[r] = Names
  PROVE  PathFits(zone, k, Append(<<>>, Stop(r)))
<1> DEFINE p == Append(<<>>, Stop(r))
<1>1. /\ Len(p) = 1 /\ p[1].node = r /\ p[1].left = 0 /\ p[1].right = 0
  BY DEF Stop
<1> HIDE DEF p
<1>2. PathFits(zone, k, p)
  BY <1>1 DEF PathFits
<1> QED BY <1>2 DEF p

(* A thread that copies, in the terms of the path it has.                  *)
LEMMA CopyingZoned ==
  ASSUME UNCHANGED nodes, NEW t \in Threads, NEW zone, NEW k, NEW p, PathFits(zone, k, p),
         k = key'[t], pc'[t] \in {"copyLeft", "copyRight", "build"},
         pc'[t] = "copyLeft" => p = Append(path'[t], Stop(cur'[t])),
         pc'[t] # "copyLeft" => p = path'[t],
         pc'[t] = "copyRight" => p[Len(p)].node = cur'[t]
  PROVE  ThreadZoned(zone, t)'
<1>1. PathFits(zone, k, p)'
  BY DEF PathFits, IsKey, Toward, ChildZone
<1>2. CASE pc'[t] = "copyLeft"
  <2>1. p = Append(path[t], Stop(cur[t]))' /\ k = key'[t]
    BY <1>2 DEF Stop
  <2>2. PathFits(zone, key[t], Append(path[t], Stop(cur[t])))'
    BY <1>1, <2>1 DEF PathFits
  <2> QED BY <1>2, <2>2 DEF ThreadZoned
<1>3. CASE pc'[t] # "copyLeft"
  <2>1. p = path'[t] /\ k = key'[t]
    BY <1>3
  <2>2. PathFits(zone, key[t], path[t])'
    BY <1>1, <2>1 DEF PathFits
  <2> QED BY <1>3, <2>1, <2>2 DEF ThreadZoned
<1> QED BY <1>2, <1>3

LEMMA ProbeZoned ==
  ASSUME Inv, NEW zone, Zoned(zone), NEW t \in Threads, Probe(t)
  PROVE  Zoned(zone)'
<1> DEFINE n == Load(slot[t])
           k == key[t]
<1>0. /\ HeapOK /\ ControlOK /\ HoldingsOK(Len(nodes), Len(forms)) /\ PutOK(t)
      /\ TablesZoned(zone) /\ ThreadZoned(zone, t)
      /\ pc[t] = "probe" /\ slot[t] \in Slots(Len(nodes), Len(forms))
      /\ n \in 0 .. Len(nodes) /\ k \in Names /\ Len(nodes) \in Nat
  BY Loads, HeapLengths DEF Inv, Shape, PutsOK, Zoned, HoldingsOK, ControlOK, Probe
<1>1. k \in SlotZone(zone, slot[t]) /\ path[t] = <<>>
  BY <1>0 DEF ThreadZoned
<1>2. n # 0 => n \in 1 .. Len(nodes) /\ k \in zone[n]
  BY <1>0, <1>1 DEF TablesZoned
<1>3. UNCHANGED <<nodes, forms, ws, fun, key, value, side, path>>
  BY DEF Probe, heap
<1>4. CASE n = 0 /\ Goto(t, "cas") /\ UNCHANGED <<slot, cur>>
  <2>1. pc'[t] = "cas"
    BY <1>0, <1>4 DEF Goto, ControlOK
  <2>2. ThreadZoned(zone, t)'
    BY <1>1, <1>3, <1>4, <2>1 DEF ThreadZoned, SlotZone, ChildZone
  <2>3. \A u \in Threads \ {t} : pc'[u] = pc[u]
    BY <1>0, <1>4 DEF Goto, ControlOK
  <2> QED BY <1>3, <1>4, <2>2, <2>3, ZonedQuiet DEF heap
<1>5. CASE /\ n # 0 /\ ~ SameHash(k, n) /\ slot' = [slot EXCEPT ![t] = <<Toward(k, n), n>>]
           /\ UNCHANGED <<pc, cur>>
  <2>1. ~ IsKey(k, n)
    BY <1>5 DEF SameHash, IsKey
  <2>2. k \in ChildZone(zone, Toward(k, n), n)
    <3> HIDE DEF n, k
    <3> QED BY <1>0, <1>2, <1>5, <2>1, TowardZone
  <2>3. slot'[t] = <<Toward(k, n), n>>
    BY <1>0, <1>5 DEF HoldingsOK
  <2>4. slot'[t][1] # "root" /\ slot'[t][1] = Toward(k, n) /\ slot'[t][2] = n
    BY <2>3 DEF Toward
  <2> HIDE DEF n
  <2>5. key'[t] \in SlotZone(zone, slot[t])'
    BY <1>3, <2>2, <2>4, SMTT(30) DEF SlotZone, ChildZone
  <2>6. ThreadZoned(zone, t)'
    BY <1>0, <1>1, <1>3, <1>5, <2>5 DEF ThreadZoned, SlotZone, ChildZone
  <2>7. \A u \in Threads \ {t} : slot'[u] = slot[u]
    BY <1>0, <1>5 DEF HoldingsOK
  <2> QED BY <1>3, <1>5, <2>6, <2>7, ZonedQuiet DEF heap
<1>6. CASE /\ n # 0 /\ cur' = [cur EXCEPT ![t] = forms[Target(t)].root]
           /\ Goto(t, "copyLeft") /\ UNCHANGED slot
  <2> DEFINE r == forms[Target(t)].root
  <2>1. r \in 1 .. Len(nodes) /\ zone[r] = Names
    <3>1. Target(t) \in 1 .. Len(forms)
      BY <1>0 DEF HoldingsOK, ControlOK, Target
    <3>2. r \in 0 .. Len(nodes)
      BY <1>0, <3>1, HeapLengths DEF FormsOver
    <3>3. r # 0
      BY <1>0, <1>6 DEF PutOK, Load
    <3> DEFINE s == <<"root", Target(t)>>
    <3>4. s \in Slots(Len(nodes), Len(forms)) /\ s[1] = "root" /\ Load(s) = r
      BY <3>1 DEF Slots, Load
    <3> HIDE DEF s, r
    <3>5. zone[r] = Names
      BY <1>0, <3>3, <3>4 DEF TablesZoned, SlotZone
    <3> QED BY <1>0, <3>2, <3>3, <3>5
  <2>2. pc'[t] = "copyLeft" /\ cur'[t] = r /\ path'[t] = <<>> /\ key'[t] = k
    BY <1>0, <1>1, <1>3, <1>6 DEF Goto, ControlOK, HoldingsOK
  <2> HIDE DEF r
  <2>3. PICK c : c = r
    OBVIOUS
  <2>4. PathFits(zone, k, Append(<<>>, Stop(c)))
    BY <1>0, <2>1, <2>3, PathStarts
  <2>6. ThreadZoned(zone, t)'
    BY <1>3, <2>2, <2>3, <2>4, CopyingZoned
  <2>7. \A u \in Threads \ {t} : pc'[u] = pc[u] /\ cur'[u] = cur[u]
    BY <1>0, <1>6 DEF Goto, ControlOK, HoldingsOK
  <2> QED BY <1>3, <1>6, <2>6, <2>7, ZonedQuiet DEF heap
<1> QED BY <1>4, <1>5, <1>6 DEF Probe

LEMMA CasFailsZoned ==
  ASSUME Inv, NEW zone, Zoned(zone), NEW t \in Threads, CasFails(t)
  PROVE  Zoned(zone)'
<1>0. ControlOK /\ ThreadZoned(zone, t)
  BY DEF Inv, Shape, Zoned
<1>1. /\ pc[t] = "cas" /\ pc' = [pc EXCEPT ![t] = "probe"]
      /\ UNCHANGED <<nodes, forms, key, cur, slot, path>>
  BY DEF CasFails, Goto, heap, put
<1>2. pc'[t] = "probe" /\ \A u \in Threads \ {t} : pc'[u] = pc[u]
  BY <1>0, <1>1 DEF ControlOK
<1>3. ThreadZoned(zone, t)'
  BY <1>0, <1>1, <1>2 DEF ThreadZoned, SlotZone, ChildZone
<1> QED BY <1>1, <1>2, <1>3, ZonedQuiet DEF heap

LEMMA CopyLeftZoned ==
  ASSUME Inv, NEW zone, Zoned(zone), NEW t \in Threads, CopyLeft(t)
  PROVE  Zoned(zone)'
<1> DEFINE n == cur[t]
           s == [node |-> n, left |-> nodes[n].left, right |-> 0]
           old == Append(path[t], Stop(n))
           new == Append(path[t], s)
<1>0. /\ HeapOK /\ ControlOK /\ HoldingsOK(Len(nodes), Len(forms)) /\ PutOK(t) /\ ThreadZoned(zone, t)
      /\ Len(nodes) \in Nat
  BY HeapLengths DEF Inv, Shape, PutsOK, Zoned
<1>1. /\ pc[t] = "copyLeft" /\ pc' = [pc EXCEPT ![t] = "copyRight"]
      /\ path' = [path EXCEPT ![t] = new]
      /\ UNCHANGED <<nodes, forms, key, slot, cur>>
  BY DEF CopyLeft, Goto, heap
<1>2. n \in 1 .. Len(nodes) /\ nodes[n].left \in 0 .. Len(nodes) /\ path[t] \in Seq(Stops(Len(nodes)))
  <2>1. n \in 1 .. Len(nodes) /\ path[t] \in Seq(Stops(Len(nodes)))
    BY <1>0, <1>1 DEF HoldingsOK, PutOK
  <2> QED BY <1>0, <2>1, HeapLengths DEF NodesOver
<1>3. Stop(n) \in Stops(Len(nodes)) /\ s \in Stops(Len(nodes)) /\ Stop(n).node = n /\ s.node = n
      /\ s.left = nodes[n].left /\ s.right = 0
  BY <1>0, <1>2 DEF Stop, Stops
<1> HIDE DEF s, n
<1>4. PICK m \in Nat : m = Len(path[t]) + 1
  BY <1>2
<1>5. /\ old \in Seq(Stops(Len(nodes))) /\ Len(old) = m
      /\ new \in Seq(Stops(Len(nodes))) /\ Len(new) = m
      /\ \A i \in 1 .. m : i < m => old[i] = path[t][i] /\ new[i] = path[t][i]
      /\ old[m] = Stop(n) /\ new[m] = s
  <2>1. \A i \in 1 .. m : i < m => i \in 1 .. Len(path[t])
    BY <1>2, <1>4
  <2> QED BY <1>2, <1>3, <1>4, <2>1, AppendType
<1>6. PathFits(zone, key[t], old)
  BY <1>0, <1>1 DEF ThreadZoned, n
<1> HIDE DEF old, new
<1>7. PathFits(zone, key[t], new)
  <2>1. \A i \in 1 .. m : new[i].node = old[i].node
    BY <1>3, <1>5
  <2>2. \A i \in 1 .. m : i < m => new[i] = old[i]
    BY <1>5
  <2>3. \A i \in 1 .. m : i = m =>
          new[i].left \in {0, nodes[new[i].node].left} /\ new[i].right \in {0, nodes[new[i].node].right}
    BY <1>3, <1>5
  <2> QED BY <1>5, <1>6, <2>1, <2>2, <2>3, PathFilled
<1>8. PICK k, p : k = key[t] /\ p = new
  OBVIOUS
<1>9. pc'[t] = "copyRight" /\ path'[t] = p /\ key'[t] = k /\ cur'[t] = n
  BY <1>0, <1>1, <1>8 DEF ControlOK, HoldingsOK, n
<1>10. p[Len(p)].node = n
  BY <1>3, <1>5, <1>8
<1>11. ThreadZoned(zone, t)'
  BY <1>1, <1>7, <1>8, <1>9, <1>10, CopyingZoned
<1>12. \A u \in Threads \ {t} : pc'[u] = pc[u] /\ path'[u] = path[u]
  BY <1>0, <1>1 DEF ControlOK, HoldingsOK
<1> QED BY <1>1, <1>11, <1>12, ZonedQuiet DEF heap

LEMMA CopyRightZoned ==
  ASSUME Inv, NEW zone, Zoned(zone), NEW t \in Threads, CopyRight(t)
  PROVE  Zoned(zone)'
<1> DEFINE n == cur[t]
           right == nodes[n].right
           m == Len(path[t])
           old == path[t]
           new == [old EXCEPT ![m].right = right]
           next == IF Toward(key[t], n) = "left" THEN old[m].left ELSE right
<1>0. /\ HeapOK /\ ControlOK /\ HoldingsOK(Len(nodes), Len(forms)) /\ PutOK(t) /\ ThreadZoned(zone, t)
      /\ TablesZoned(zone) /\ Len(nodes) \in Nat /\ key[t] \in Names
  BY HeapLengths DEF Inv, Shape, PutsOK, Zoned, ControlOK
<1>1. /\ pc[t] = "copyRight"
      /\ path' = [path EXCEPT ![t][m].right = right]
      /\ \/ pc' = [pc EXCEPT ![t] = "build"] /\ cur' = cur
         \/ /\ ~ IsKey(key[t], n) /\ next # 0 /\ pc' = [pc EXCEPT ![t] = "copyLeft"]
            /\ cur' = [cur EXCEPT ![t] = next]
      /\ UNCHANGED <<nodes, forms, key, slot>>
  BY DEF CopyRight, Goto, heap
<1>2. /\ n \in 1 .. Len(nodes) /\ right \in 0 .. Len(nodes)
      /\ old \in Seq(Stops(Len(nodes))) /\ m \in Nat /\ m \in 1 .. m
  <2>1. n \in 1 .. Len(nodes) /\ old \in Seq(Stops(Len(nodes))) /\ old # <<>>
    BY <1>0, <1>1 DEF HoldingsOK, PutOK
  <2>2. right \in 0 .. Len(nodes)
    BY <1>0, <2>1, HeapLengths DEF NodesOver
  <2> QED BY <2>1, <2>2
<1>3. PathFits(zone, key[t], old) /\ old[m].node = n
  BY <1>0, <1>1 DEF ThreadZoned
<1>4. path' = [path EXCEPT ![t] = new] /\ path'[t] = new
  BY <1>0, <1>1 DEF HoldingsOK
<1>5. /\ old[m] \in Stops(Len(nodes)) /\ old[m].left \in {0, nodes[n].left}
      /\ old[m].left \in 0 .. Len(nodes)
  <2>1. old[m] \in Stops(Len(nodes))
    BY <1>2
  <2>2. old[m].left \in {0, nodes[old[m].node].left}
    BY <1>2, <1>3 DEF PathFits
  <2> QED BY <1>3, <2>1, <2>2 DEF Stops
<1> DEFINE s == [old[m] EXCEPT !.right = right]
<1>6. s \in Stops(Len(nodes)) /\ s.node = n /\ s.left = old[m].left /\ s.right = right
  BY <1>2, <1>3, <1>5 DEF Stops
<1>7. new = [old EXCEPT ![m] = s]
  OBVIOUS
<1>8. next # 0 => next \in 1 .. Len(nodes) /\ next = Load(<<Toward(key[t], n), n>>)
  BY <1>2, <1>5 DEF Load, Toward
<1> HIDE DEF s, right, n, next
<1>9. /\ new \in Seq(Stops(Len(nodes))) /\ Len(new) = m
      /\ \A i \in 1 .. m : i < m => new[i] = old[i]
      /\ new[m] = s
  BY <1>2, <1>6, <1>7
<1> HIDE DEF new, old
<1>10. PathFits(zone, key[t], new)
  <2>0. Len(old) = m
    BY DEF old
  <2>1. \A i \in 1 .. m : new[i].node = old[i].node
    <3>1. \A i \in 1 .. m : i < m \/ i = m
      BY <1>2
    <3> QED BY <1>3, <1>6, <1>9, <3>1
  <2>2. \A i \in 1 .. m : i < m => new[i] = old[i]
    BY <1>9
  <2>3. new[m].left \in {0, nodes[n].left} /\ new[m].right \in {0, nodes[n].right} /\ new[m].node = n
    BY <1>5, <1>6, <1>9 DEF right
  <2>4. \A i \in 1 .. m : i = m =>
          new[i].left \in {0, nodes[new[i].node].left} /\ new[i].right \in {0, nodes[new[i].node].right}
    BY <2>3
  <2> HIDE DEF m
  <2> QED BY <1>2, <1>3, <1>9, <2>0, <2>1, <2>2, <2>4, PathFilled
<1>11. ThreadZoned(zone, t)'
  <2>1. CASE pc' = [pc EXCEPT ![t] = "build"]
    <3>1. PICK k, p : k = key[t] /\ p = new
      OBVIOUS
    <3>2. pc'[t] = "build" /\ path'[t] = p /\ key'[t] = k
      BY <1>0, <1>1, <1>4, <2>1, <3>1 DEF ControlOK
    <3> QED BY <1>1, <1>10, <3>1, <3>2, CopyingZoned
  <2>2. CASE /\ ~ IsKey(key[t], n) /\ next # 0 /\ pc' = [pc EXCEPT ![t] = "copyLeft"]
             /\ cur' = [cur EXCEPT ![t] = next]
    <3>1. PICK k, p : k = key[t] /\ p = Append(new, Stop(next))
      OBVIOUS
    <3>2. pc'[t] = "copyLeft" /\ path'[t] = new /\ key'[t] = k /\ cur'[t] = next
      BY <1>0, <1>1, <1>4, <2>2, <3>1 DEF ControlOK, HoldingsOK
    <3>3. new[m].node = n /\ Len(new) = m /\ m \in 1 .. Len(new)
      BY <1>2, <1>6, <1>9
    <3>4. PathFits(zone, key[t], Append(new, Stop(next)))
      <4> HIDE DEF m
      <4> QED BY <1>0, <1>2, <1>8, <1>9, <1>10, <2>2, <3>3, PathLonger
    <3>5. p = Append(path'[t], Stop(cur'[t]))
      BY <3>1, <3>2
    <3> QED BY <1>1, <3>1, <3>2, <3>4, <3>5, CopyingZoned
  <2> QED BY <1>1, <2>1, <2>2
<1>12. \A u \in Threads \ {t} : pc'[u] = pc[u] /\ path'[u] = path[u] /\ cur'[u] = cur[u]
  BY <1>0, <1>1, <1>4 DEF ControlOK, HoldingsOK
<1> QED BY <1>1, <1>11, <1>12, ZonedQuiet DEF heap

-----------------------------------------------------------------------------
(* A step that extends the heap.                                           *)
LEMMA ZonedGrows ==
  ASSUME Inv, Grows, NEW zone, Zoned(zone), NEW zone2, \A n \in 1 .. Len(nodes) : zone2[n] = zone[n],
         TablesZoned(zone2)', NEW t \in Threads,
         \A u \in Threads \ {t} : /\ pc'[u] = pc[u] /\ key'[u] = key[u] /\ slot'[u] = slot[u]
                                  /\ cur'[u] = cur[u] /\ path'[u] = path[u],
         ThreadZoned(zone2, t)'
  PROVE  Zoned(zone2)'
<1>1. ASSUME NEW u \in Threads \ {t} PROVE ThreadZoned(zone2, u)'
  <2>1. ThreadZoned(zone, u) BY DEF Zoned
  <2> QED BY <2>1, ThreadStays
<1> QED BY <1>1 DEF Zoned

(* A thread whose put has returned is at a root, or does not put.          *)
LEMMA ReturningZoned ==
  ASSUME Inv, NEW t \in Threads, NEW f, PutReturns(t, f), UNCHANGED key, NEW zone
  PROVE  /\ ThreadZoned(zone, t)'
         /\ pc'[t] \in {"probe", "bound"} /\ pc' = [pc EXCEPT ![t] = pc'[t]]
         /\ slot' = [slot EXCEPT ![t] = slot'[t]] /\ path' = [path EXCEPT ![t] = path'[t]]
<1>0. ControlOK /\ HoldingsOK(Len(nodes), Len(forms)) /\ key[t] \in Names
  BY DEF Inv, Shape, ControlOK
<1>1. /\ path' = [path EXCEPT ![t] = <<>>]
      /\ \/ pc' = [pc EXCEPT ![t] = "probe"] /\ slot' = [slot EXCEPT ![t] = <<"root", ws[t]>>]
         \/ pc' = [pc EXCEPT ![t] = "bound"] /\ slot' = [slot EXCEPT ![t] = <<"root", f>>]
  BY DEF PutReturns, Goto
<1>2. /\ path'[t] = <<>> /\ pc'[t] \in {"probe", "bound"} /\ slot'[t][1] = "root"
      /\ pc' = [pc EXCEPT ![t] = pc'[t]]
      /\ slot' = [slot EXCEPT ![t] = slot'[t]] /\ path' = [path EXCEPT ![t] = path'[t]]
  BY <1>0, <1>1 DEF ControlOK, HoldingsOK
<1>3. ThreadZoned(zone, t)'
  BY <1>0, <1>2 DEF ThreadZoned, SlotZone
<1> QED BY <1>2, <1>3

LEMMA PushWorkspaceZoned ==
  ASSUME Inv, NEW zone, Zoned(zone), NEW t \in Threads, PushWorkspace(t)
  PROVE  Zoned(zone)'
<1> DEFINE n == Len(nodes)
           m == Len(forms)
           g == [root |-> 0, next |-> ws[t]]
<1>0. /\ HeapOK /\ ControlOK /\ HoldingsOK(n, m) /\ n \in Nat /\ m \in Nat
      /\ TablesZoned(zone) /\ ThreadZoned(zone, t) /\ Grows
  BY HeapLengths, PushWorkspaceKeeps DEF Inv, Shape, Zoned
<1>1. /\ forms' = Append(forms, g) /\ pc[t] \in Ready /\ pc' = [pc EXCEPT ![t] = "run"]
      /\ UNCHANGED <<nodes, key, cur, slot, path>>
  BY DEF PushWorkspace, Goto, put, read
<1>2. Len(forms') = m + 1 /\ (\A f \in 1 .. m : forms'[f] = forms[f]) /\ forms'[m + 1].root = 0
  BY <1>0, <1>1, AppendType DEF HeapOK
<1>3. TablesZoned(zone)'
  <2>1. ASSUME NEW s \in Slots(n, m + 1), Load(s)' # 0
        PROVE  s \in Slots(n, m) /\ Load(s)' = Load(s) /\ SlotZone(zone, s)' = SlotZone(zone, s)
    <3>1. CASE s[1] = "root"
      <4>1. s[2] \in 1 .. m + 1 /\ Load(s)' = forms'[s[2]].root
        BY <2>1, <3>1 DEF Slots, Load
      <4>2. s[2] \in 1 .. m
        BY <1>0, <1>2, <2>1, <4>1
      <4> QED BY <1>2, <2>1, <3>1, <4>2 DEF Slots, Load, SlotZone
    <3>2. CASE s[1] # "root"
      BY <1>1, <2>1, <3>2 DEF Slots, Load, SlotZone, ChildZone
    <3> QED BY <3>1, <3>2
  <2> QED BY <1>0, <1>1, <1>2, <2>1 DEF TablesZoned
<1>4. ThreadZoned(zone, t)' /\ \A u \in Threads \ {t} : pc'[u] = pc[u]
  <2>1. pc'[t] = "run" /\ path'[t] = <<>> /\ \A u \in Threads \ {t} : pc'[u] = pc[u]
    BY <1>0, <1>1 DEF ControlOK, ThreadZoned, Ready
  <2> QED BY <2>1 DEF ThreadZoned
<1> QED BY <1>0, <1>1, <1>3, <1>4, ZonedGrows

(* What a successful compare-and-swap does to the heap.                    *)
LEMMA CasLoads ==
  ASSUME Inv, NEW t \in Threads, CasSucceeds(t)
  PROVE  /\ Len(nodes') = Len(nodes) + 1 /\ Len(forms') = Len(forms)
         /\ nodes'[Len(nodes) + 1] = Leaf(t)
         /\ \A x \in Slots(Len(nodes), Len(forms)) :
              Load(x)' = IF x = slot[t] THEN Len(nodes) + 1 ELSE Load(x)
         /\ \A x \in Slots(Len(nodes) + 1, Len(forms)) \ Slots(Len(nodes), Len(forms)) :
              Load(x)' = 0
<1> DEFINE n == Len(nodes)
           m == Len(forms)
           s == slot[t]
           ns == Append(nodes, Leaf(t))
<1>0. /\ HeapOK /\ n \in Nat /\ m \in Nat /\ s \in Slots(n, m)
  BY HeapLengths DEF Inv, Shape, HoldingsOK
<1>1. Store(s, n + 1) /\ nodes' = AndChild(s, n + 1, ns)
  BY DEF CasSucceeds
<1>2. /\ ns \in Seq(NodesOver(n) \cup {Leaf(t)}) /\ Len(ns) = n + 1 /\ ns[n + 1] = Leaf(t)
      /\ \A i \in 1 .. n : ns[i] = nodes[i]
  <2>1. nodes \in Seq(NodesOver(n) \cup {Leaf(t)})
    BY <1>0 DEF HeapOK
  <2> QED BY <2>1, AppendType
<1> HIDE DEF ns
<1>3. \A x \in Slots(n + 1, m) : \/ x[1] = "root" /\ x[2] \in 1 .. m
                                 \/ x[1] \in {"left", "right"} /\ x[2] \in 1 .. n + 1
  BY DEF Slots
<1>4. \A x \in Slots(n + 1, m) \ Slots(n, m) : x[1] \in {"left", "right"} /\ x[2] = n + 1
  <2> SUFFICES ASSUME NEW x \in Slots(n + 1, m), x \notin Slots(n, m)
               PROVE x[1] \in {"left", "right"} /\ x[2] = n + 1
    OBVIOUS
  <2>1. CASE x \in {"root"} \X (1 .. m)
    BY <2>1 DEF Slots
  <2>2. CASE x \in {"left", "right"} \X (1 .. n + 1)
    <3>1. x[2] \notin 1 .. n
      BY <2>2 DEF Slots
    <3> QED BY <1>0, <2>2, <3>1
  <2> QED BY <2>1, <2>2 DEF Slots
<1>5. Leaf(t).left = 0 /\ Leaf(t).right = 0
  BY DEF Leaf
<1>6. CASE s[1] = "root"
  <2>1. s[2] \in 1 .. m /\ nodes' = ns /\ forms' = [forms EXCEPT ![s[2]].root = n + 1]
    BY <1>0, <1>1, <1>6 DEF Store, AndChild, Slots
  <2>2. /\ Len(forms') = m /\ \A f \in 1 .. m : f # s[2] => forms'[f] = forms[f]
        /\ forms'[s[2]].root = n + 1
    <3>1. forms[s[2]] \in FormsOver(n, m) /\ forms \in Seq(FormsOver(n, m))
      BY <1>0, <2>1, HeapLengths DEF HeapOK
    <3> QED BY <2>1, <3>1 DEF FormsOver
  <2>3. \A x \in Slots(n, m) : x[1] = "root" /\ x[2] = s[2] => x = s
    BY <1>0, <1>6 DEF Slots
  <2>4. \A x \in Slots(n, m) : Load(x)' = IF x = s THEN n + 1 ELSE Load(x)
    <3> SUFFICES ASSUME NEW x \in Slots(n, m) PROVE Load(x)' = IF x = s THEN n + 1 ELSE Load(x)
      OBVIOUS
    <3>1. CASE x[1] = "root"
      <4>1. x[2] \in 1 .. m
        BY <3>1 DEF Slots
      <4> QED BY <2>2, <2>3, <3>1, <4>1, <1>6 DEF Load
    <3>2. CASE x[1] # "root"
      <4>1. x[2] \in 1 .. n
        BY <3>2 DEF Slots
      <4> QED BY <1>2, <1>6, <2>1, <3>2, <4>1 DEF Load
    <3> QED BY <3>1, <3>2
  <2>5. \A x \in Slots(n + 1, m) \ Slots(n, m) : Load(x)' = 0
    BY <1>2, <1>4, <1>5, <2>1 DEF Load
  <2> QED BY <1>2, <2>1, <2>2, <2>4, <2>5
<1>7. CASE s[1] # "root"
  <2>1. s[1] \in {"left", "right"} /\ s[2] \in 1 .. n /\ forms' = forms
    BY <1>0, <1>1, <1>7 DEF Store, Slots
  <2> DEFINE d == IF s[1] = "left" THEN [ns[s[2]] EXCEPT !.left = n + 1]
                  ELSE [ns[s[2]] EXCEPT !.right = n + 1]
  <2>2. nodes' = [ns EXCEPT ![s[2]] = d]
    BY <1>1, <2>1 DEF AndChild
  <2>3. ns[s[2]] = nodes[s[2]] /\ nodes[s[2]] \in NodesOver(n) /\ s[2] \in 1 .. n + 1
    BY <1>0, <1>2, <2>1, HeapLengths
  <2>4. /\ s[1] = "left" => d.left = n + 1 /\ d.right = nodes[s[2]].right
        /\ s[1] = "right" => d.right = n + 1 /\ d.left = nodes[s[2]].left
    BY <2>3 DEF NodesOver
  <2> HIDE DEF d
  <2>5. /\ Len(nodes') = n + 1 /\ nodes'[s[2]] = d
        /\ \A i \in 1 .. n + 1 : i # s[2] => nodes'[i] = ns[i]
    BY <1>2, <2>2, <2>3
  <2>6. nodes'[n + 1] = Leaf(t)
    BY <1>0, <1>2, <2>1, <2>5
  <2>7. \A x \in Slots(n, m) : x[1] = s[1] /\ x[2] = s[2] => x = s
    BY <1>0 DEF Slots
  <2>8. \A x \in Slots(n, m) : Load(x)' = IF x = s THEN n + 1 ELSE Load(x)
    <3> SUFFICES ASSUME NEW x \in Slots(n, m) PROVE Load(x)' = IF x = s THEN n + 1 ELSE Load(x)
      OBVIOUS
    <3>1. CASE x[1] = "root"
      BY <1>7, <2>1, <3>1 DEF Load
    <3>2. CASE x[1] # "root"
      <4>1. x[1] \in {"left", "right"} /\ x[2] \in 1 .. n
        BY <3>2 DEF Slots
      <4>2. CASE x[2] # s[2]
        <5>1. nodes'[x[2]] = nodes[x[2]]
          BY <1>0, <1>2, <2>5, <4>1, <4>2
        <5> QED BY <3>2, <4>2, <5>1 DEF Load
      <4>3. CASE x[2] = s[2]
        BY <2>1, <2>4, <2>5, <2>7, <4>1, <4>3 DEF Load
      <4> QED BY <4>2, <4>3
    <3> QED BY <3>1, <3>2
  <2>9. \A x \in Slots(n + 1, m) \ Slots(n, m) : Load(x)' = 0
    BY <1>4, <1>5, <2>6 DEF Load
  <2> QED BY <2>1, <2>5, <2>6, <2>8, <2>9
<1> QED BY <1>6, <1>7

LEMMA CasSucceedsZoned ==
  ASSUME Inv, NEW zone, Zoned(zone), NEW t \in Threads, CasSucceeds(t)
  PROVE  \E zone2 : Zoned(zone2)'
<1> DEFINE n == Len(nodes)
           m == Len(forms)
           s == slot[t]
<1>0. /\ HeapOK /\ ControlOK /\ HoldingsOK(n, m) /\ n \in Nat /\ m \in Nat
      /\ TablesZoned(zone) /\ ThreadZoned(zone, t) /\ Grows /\ s \in Slots(n, m)
      /\ pc[t] = "cas" /\ key[t] \in Names
  BY HeapLengths, CasSucceedsKeeps DEF Inv, Shape, Zoned, HoldingsOK, ControlOK, CasSucceeds
<1>1. /\ Len(nodes') = n + 1 /\ Len(forms') = m /\ nodes'[n + 1] = Leaf(t)
      /\ \A x \in Slots(n, m) : Load(x)' = IF x = s THEN n + 1 ELSE Load(x)
      /\ \A x \in Slots(n + 1, m) \ Slots(n, m) : Load(x)' = 0
  BY CasLoads
<1>2. PutReturns(t, Target(t)) /\ UNCHANGED <<key, cur>>
  BY DEF CasSucceeds
<1>3. PICK zone2 : zone2 = [i \in 1 .. n + 1 |-> IF i <= n THEN zone[i] ELSE SlotZone(zone, s)]
  OBVIOUS
<1>4. /\ \A i \in 1 .. n : zone2[i] = zone[i]
      /\ zone2[n + 1] = SlotZone(zone, s) /\ DOMAIN zone2 = 1 .. n + 1
  BY <1>0, <1>3
<1>5. \A x \in Slots(n, m) : SlotZone(zone, x) \subseteq Names
  <2> SUFFICES ASSUME NEW x \in Slots(n, m) PROVE SlotZone(zone, x) \subseteq Names
    OBVIOUS
  <2>1. x[1] = "root" \/ x[2] \in 1 .. n
    BY DEF Slots
  <2>2. x[1] # "root" => zone[x[2]] \subseteq Names
    BY <1>0, <2>1 DEF TablesZoned
  <2> QED BY <2>2 DEF SlotZone, ChildZone
<1>6. \A x \in Slots(n, m) : SlotZone(zone2, x)' = SlotZone(zone, x)
  <2> SUFFICES ASSUME NEW x \in Slots(n, m) PROVE SlotZone(zone2, x)' = SlotZone(zone, x)
    OBVIOUS
  <2>1. x[1] = "root" \/ x[2] \in 1 .. n
    BY DEF Slots
  <2>2. x[1] # "root" => zone2[x[2]] = zone[x[2]] /\ nodes'[x[2]].key = nodes[x[2]].key
    BY <1>0, <1>4, <2>1 DEF Grows, Nodes
  <2> QED BY <2>2 DEF SlotZone, ChildZone
<1>7. TablesZoned(zone2)'
  <2>1. zone2 \in [1 .. n + 1 -> SUBSET Names]
    BY <1>0, <1>3, <1>5 DEF TablesZoned
  <2>2. ASSUME NEW i \in 1 .. n + 1 PROVE nodes'[i].key \in zone2[i]
    <3>1. CASE i \in 1 .. n
      BY <1>0, <1>4, <3>1 DEF Grows, Nodes, TablesZoned
    <3>2. CASE i = n + 1
      BY <1>0, <1>1, <1>4, <3>2 DEF ThreadZoned, Leaf
    <3> QED BY <1>0, <3>1, <3>2
  <2>3. ASSUME NEW x \in Slots(n + 1, m), Load(x)' # 0 PROVE zone2[Load(x)'] = SlotZone(zone2, x)'
    <3>1. x \in Slots(n, m)
      BY <1>1, <2>3
    <3>2. CASE x = s
      <4>1. Load(x)' = n + 1
        BY <1>1, <3>1, <3>2
      <4> QED BY <1>4, <1>6, <3>1, <3>2, <4>1
    <3>3. CASE x # s
      <4>1. Load(x)' = Load(x) /\ Load(x) \in 1 .. n
        BY <1>0, <1>1, <2>3, <3>1, <3>3, Loads
      <4>2. zone[Load(x)] = SlotZone(zone, x)
        BY <1>0, <2>3, <3>1, <4>1 DEF TablesZoned
      <4> QED BY <1>4, <1>6, <3>1, <4>1, <4>2
    <3> QED BY <3>2, <3>3
  <2> QED BY <1>1, <2>1, <2>2, <2>3 DEF TablesZoned
<1>8. /\ ThreadZoned(zone2, t)'
      /\ \A u \in Threads \ {t} : pc'[u] = pc[u] /\ slot'[u] = slot[u] /\ path'[u] = path[u]
  <2>1. /\ ThreadZoned(zone2, t)' /\ pc' = [pc EXCEPT ![t] = pc'[t]]
        /\ slot' = [slot EXCEPT ![t] = slot'[t]] /\ path' = [path EXCEPT ![t] = path'[t]]
    BY <1>2, ReturningZoned
  <2> QED BY <1>0, <2>1 DEF ControlOK, HoldingsOK
<1>9. Zoned(zone2)'
  BY <1>0, <1>2, <1>4, <1>7, <1>8, ZonedGrows
<1> QED BY <1>9

(* What putPure builds.                                                    *)
LEMMA CopiedParts ==
  ASSUME NEW t \in Threads, NEW i \in 1 .. Len(path[t])
  PROVE  LET p == path[t][i]
             rebound == i = Len(path[t]) /\ IsKey(key[t], p.node)
             child == Len(nodes) + i + 1
             d == Toward(key[t], p.node)
         IN  /\ Copied(t, i).key = nodes[p.node].key
             /\ rebound => Copied(t, i).value = value[t]
             /\ Copied(t, i).left = IF ~ rebound /\ d = "left" THEN child ELSE p.left
             /\ Copied(t, i).right = IF ~ rebound /\ d = "right" THEN child ELSE p.right
  BY DEF Copied, Toward

LEMMA BuildHeap ==
  ASSUME Inv, NEW t \in Threads, Build(t)
  PROVE  LET n == Len(nodes)
             m == Len(path[t])
             last == IsKey(key[t], path[t][m].node)
             f == Len(forms)
         IN  /\ m \in Nat \ {0} /\ path[t] \in Seq(Stops(n))
             /\ Len(nodes') = IF last THEN n + m ELSE n + m + 1
             /\ \A i \in 1 .. n : nodes'[i] = nodes[i]
             /\ \A i \in 1 .. m : nodes'[n + i] = Copied(t, i)
             /\ ~ last => nodes'[n + m + 1] = Leaf(t)
             /\ Len(forms') = f + 1 /\ \A g \in 1 .. f : forms'[g] = forms[g]
             /\ forms'[f + 1].root = n + 1 /\ forms'[f + 1].next = forms[Target(t)].next
<1> DEFINE n == Len(nodes)
           m == Len(path[t])
           last == IsKey(key[t], path[t][m].node)
           f == Len(forms)
           cp == CopiedPath(t)
           copies == [i \in 1 .. m |-> Copied(t, i)]
           g == [root |-> n + 1, next |-> forms[Target(t)].next]
<1>0. /\ HeapOK /\ n \in Nat /\ f \in Nat /\ path[t] \in Seq(Stops(n)) /\ path[t] # <<>>
      /\ pc[t] = "build"
  BY HeapLengths DEF Inv, Shape, PutsOK, PutOK, HoldingsOK, Build
<1>1. m \in Nat \ {0}
  BY <1>0
<1>2. nodes' = nodes \o cp /\ forms' = Append(forms, g)
  BY DEF Build
<1>3. /\ Len(forms') = f + 1 /\ \A h \in 1 .. f : forms'[h] = forms[h]
      /\ forms'[f + 1] = g
  <2>1. forms \in Seq(FormsOver(n, f) \cup {g})
    BY <1>0 DEF HeapOK
  <2> HIDE DEF g
  <2> QED BY <1>2, <2>1, AppendType
<1>4. /\ Len(cp) = IF last THEN m ELSE m + 1
      /\ cp \in Seq(NodesOver(n + Len(cp)))
      /\ \A i \in 1 .. m : cp[i] = Copied(t, i)
      /\ ~ last => cp[m + 1] = Leaf(t)
  <2>0. cp \in Seq(NodesOver(n + Len(cp)))
    BY <1>0, CopiedPathType
  <2>1. copies \in Seq({Copied(t, i) : i \in 1 .. m} \cup {Leaf(t)}) /\ Len(copies) = m
        /\ \A i \in 1 .. m : copies[i] = Copied(t, i)
    BY <1>1
  <2>2. cp = IF last THEN copies ELSE Append(copies, Leaf(t))
    BY DEF CopiedPath
  <2> DEFINE T == {Copied(t, i) : i \in 1 .. m} \cup {Leaf(t)}
  <2>3. copies \in Seq(T) /\ Leaf(t) \in T
    BY <2>1
  <2> HIDE DEF copies, cp, T, m, last
  <2>4. /\ Len(Append(copies, Leaf(t))) = m + 1
        /\ \A i \in 1 .. m : Append(copies, Leaf(t))[i] = copies[i]
        /\ Append(copies, Leaf(t))[m + 1] = Leaf(t)
    BY <2>1, <2>3, AppendType
  <2> QED BY <2>0, <2>1, <2>2, <2>4
<1> HIDE DEF cp, m, last
<1>5. /\ Len(nodes') = n + Len(cp)
      /\ \A i \in 1 .. n : nodes'[i] = nodes[i]
      /\ \A i \in 1 .. Len(cp) : nodes'[n + i] = cp[i]
  <2> DEFINE S == NodesOver(n) \cup NodesOver(n + Len(cp))
  <2>0. cp \in Seq(NodesOver(n + Len(cp))) /\ nodes \in Seq(NodesOver(n))
    BY <1>0, <1>4 DEF HeapOK
  <2>1. nodes \in Seq(S) /\ cp \in Seq(S)
    <3> DEFINE A == NodesOver(n)
               B == NodesOver(n + Len(cp))
    <3>1. nodes \in Seq(A) /\ cp \in Seq(B)
      BY <2>0
    <3> HIDE DEF A, B
    <3>2. nodes \in Seq(A \cup B) /\ cp \in Seq(A \cup B)
      BY <3>1
    <3> QED BY <3>2 DEF A, B
  <2> HIDE DEF S
  <2> QED BY <1>0, <1>2, <2>1
<1>6. \A i \in 1 .. m : nodes'[n + i] = Copied(t, i)
  BY <1>1, <1>4, <1>5
<1>7. ~ last => nodes'[n + m + 1] = Leaf(t)
  <2> SUFFICES ASSUME ~ last PROVE nodes'[n + m + 1] = Leaf(t)
    OBVIOUS
  <2>1. m + 1 \in 1 .. Len(cp) /\ n + (m + 1) = n + m + 1
    BY <1>0, <1>1, <1>4
  <2>2. nodes'[n + (m + 1)] = cp[m + 1]
    BY <1>5, <2>1
  <2> QED BY <1>4, <2>1, <2>2
<1>8. Len(nodes') = IF last THEN n + m ELSE n + m + 1
  BY <1>0, <1>1, <1>4, <1>5
<1>9. g.root = n + 1 /\ g.next = forms[Target(t)].next
  OBVIOUS
<1> HIDE DEF g
<1> QED BY <1>0, <1>1, <1>3, <1>5, <1>6, <1>7, <1>8, <1>9 DEF m, last

LEMMA BuildZoned ==
  ASSUME Inv, NEW zone, Zoned(zone), NEW t \in Threads, Build(t)
  PROVE  \E zone2 : Zoned(zone2)'
<1> DEFINE n == Len(nodes)
           m == Len(path[t])
           k == key[t]
           at(i) == path[t][i].node
           last == IsKey(k, at(m))
           n2 == Len(nodes')
           f == Len(forms)
           leaf == ChildZone(zone, Toward(k, at(m)), at(m))
           Z(i) == IF i <= n THEN zone[i] ELSE IF i <= n + m THEN zone[at(i - n)] ELSE leaf
<1>0. /\ HeapOK /\ ControlOK /\ HoldingsOK(n, f) /\ n \in Nat /\ f \in Nat
      /\ TablesZoned(zone) /\ Grows /\ k \in Names /\ PathFits(zone, k, path[t])
      /\ HeapOK'
  BY HeapLengths, BuildKeeps DEF Inv, Shape, Zoned, ThreadZoned, ControlOK, Build
<1>1. /\ m \in Nat \ {0} /\ path[t] \in Seq(Stops(n))
      /\ n2 = IF last THEN n + m ELSE n + m + 1
      /\ \A i \in 1 .. n : nodes'[i] = nodes[i]
      /\ \A i \in 1 .. m : nodes'[n + i] = Copied(t, i)
      /\ ~ last => nodes'[n + m + 1] = Leaf(t)
      /\ Len(forms') = f + 1 /\ \A g \in 1 .. f : forms'[g] = forms[g]
      /\ forms'[f + 1].root = n + 1
  BY BuildHeap
<1>2. PutReturns(t, Len(forms) + 1) /\ UNCHANGED key /\ cur' = [cur EXCEPT ![t] = 0]
  BY DEF Build
<1>3. \A i \in 1 .. m : at(i) \in 1 .. n /\ path[t][i].left \in 0 .. n /\ path[t][i].right \in 0 .. n
  <2>1. \A i \in 1 .. m : path[t][i] \in Stops(n)
    BY <1>1
  <2> QED BY <2>1 DEF Stops
<1>4. \A i \in 1 .. n : zone[i] \subseteq Names /\ nodes[i].key \in zone[i]
  BY <1>0 DEF TablesZoned
<1>5. PICK zone2 : zone2 = [i \in 1 .. n2 |-> Z(i)]
  OBVIOUS
<1>6. /\ DOMAIN zone2 = 1 .. n2 /\ zone2 = [i \in 1 .. n2 |-> zone2[i]]
      /\ \A i \in 1 .. n : zone2[i] = zone[i]
      /\ \A i \in 1 .. m : zone2[n + i] = zone[at(i)]
      /\ ~ last => zone2[n + m + 1] = leaf
  <2>1. \A i \in 1 .. n : i \in 1 .. n2 /\ Z(i) = zone[i]
    BY <1>0, <1>1
  <2>2. \A i \in 1 .. m : n + i \in 1 .. n2 /\ Z(n + i) = zone[at(i)]
    <3> SUFFICES ASSUME NEW i \in 1 .. m PROVE n + i \in 1 .. n2 /\ Z(n + i) = zone[at(i)]
      OBVIOUS
    <3>1. n + i \in 1 .. n2 /\ ~ (n + i <= n) /\ n + i <= n + m /\ (n + i) - n = i
      BY <1>0, <1>1
    <3> QED BY <3>1
  <2>3. ~ last => n + m + 1 \in 1 .. n2 /\ Z(n + m + 1) = leaf
    BY <1>0, <1>1
  <2> HIDE DEF Z, leaf, n2, at, last
  <2> QED BY <1>5, <2>1, <2>2, <2>3, SMTT(30)
<1> HIDE DEF Z
<1>7. \A i \in 1 .. n2 : i \in 1 .. n \/ (\E j \in 1 .. m : i = n + j) \/ (~ last /\ i = n + m + 1)
  <2> SUFFICES ASSUME NEW i \in 1 .. n2, i \notin 1 .. n, ~ (~ last /\ i = n + m + 1)
               PROVE  \E j \in 1 .. m : i = n + j
    OBVIOUS
  <2>1. i - n \in 1 .. m /\ i = n + (i - n)
    BY <1>0, <1>1
  <2> QED BY <2>1
<1>8. ~ last => k \in leaf /\ leaf \subseteq Names
  <2> SUFFICES ASSUME ~ last PROVE k \in leaf /\ leaf \subseteq Names
    OBVIOUS
  <2>1. m \in 1 .. m /\ at(m) \in 1 .. n /\ k \in zone[at(m)]
    <3>1. m \in 1 .. m
      BY <1>1
    <3>2. k \in zone[at(m)]
      BY <1>0, <3>1 DEF PathFits
    <3> QED BY <1>3, <3>1, <3>2
  <2>2. k \in leaf
    <3> HIDE DEF at, k
    <3> QED BY <1>0, <2>1, TowardZone
  <2> QED BY <1>4, <2>1, <2>2 DEF ChildZone
<1>9. \A i \in 1 .. n2 : zone2[i] \subseteq Names /\ nodes'[i].key \in zone2[i]
  <2> SUFFICES ASSUME NEW i \in 1 .. n2 PROVE zone2[i] \subseteq Names /\ nodes'[i].key \in zone2[i]
    OBVIOUS
  <2>1. CASE i \in 1 .. n
    BY <1>1, <1>4, <1>6, <2>1
  <2>2. ASSUME NEW j \in 1 .. m, i = n + j PROVE zone2[i] \subseteq Names /\ nodes'[i].key \in zone2[i]
    <3>1. nodes'[i] = Copied(t, j) /\ Copied(t, j).key = nodes[at(j)].key /\ zone2[i] = zone[at(j)]
      BY <1>1, <1>6, <2>2, CopiedParts
    <3> QED BY <1>3, <1>4, <3>1
  <2>3. CASE ~ last /\ i = n + m + 1
    <3>1. nodes'[i].key = k /\ zone2[i] = leaf
      BY <1>1, <1>6, <2>3 DEF Leaf
    <3> QED BY <1>8, <2>3, <3>1
  <2> QED BY <1>7, <2>1, <2>2, <2>3
<1>10. ASSUME NEW j \in 1 .. m, NEW d \in {"left", "right"}, NEW x, x = <<d, n + j>>, Load(x)' # 0
       PROVE  zone2[Load(x)'] = SlotZone(zone2, x)'
  <2> DEFINE p == path[t][j]
             rebound == j = m /\ IsKey(k, p.node)
             old == IF d = "left" THEN p.left ELSE p.right
  <2>0. x[1] = d /\ x[2] = n + j /\ d # "root"
    BY <1>10
  <2>1. /\ Load(x)' = IF ~ rebound /\ d = Toward(k, p.node) THEN n + j + 1 ELSE old
        /\ nodes'[n + j].key = nodes[p.node].key
    <3>1. nodes'[n + j] = Copied(t, j)
      BY <1>1
    <3>2. Load(x)' = IF d = "left" THEN nodes'[n + j].left ELSE nodes'[n + j].right
      BY <2>0 DEF Load
    <3> QED BY <3>1, <3>2, CopiedParts
  <2>2. p.node \in 1 .. n /\ zone2[n + j] = zone[p.node]
    BY <1>3, <1>6
  <2>3. SlotZone(zone2, x)' = ChildZone(zone, d, p.node)
    BY <2>0, <2>1, <2>2 DEF SlotZone, ChildZone
  <2>4. CASE ~ rebound /\ d = Toward(k, p.node)
    <3>1. Load(x)' = n + j + 1
      BY <2>1, <2>4
    <3>2. CASE j < m
      <4>1. j + 1 \in 1 .. m /\ n + (j + 1) = n + j + 1
        BY <1>0, <1>1, <3>2
      <4>2. zone2[n + j + 1] = zone[at(j + 1)]
        BY <1>6, <4>1
      <4>3. zone[at(j + 1)] = ChildZone(zone, Toward(k, p.node), p.node)
        BY <1>0, <3>2 DEF PathFits
      <4> QED BY <2>3, <2>4, <3>1, <4>2, <4>3
    <3>3. CASE j = m
      <4>1. ~ last
        BY <2>4, <3>3
      <4> QED BY <1>6, <2>3, <2>4, <3>1, <3>3, <4>1
    <3> QED BY <3>2, <3>3
  <2>5. CASE ~ (~ rebound /\ d = Toward(k, p.node))
    <3>1. Load(x)' = old /\ old # 0
      BY <1>10, <2>1, <2>5
    <3>2. old = Load(<<d, p.node>>) /\ old \in 1 .. n
      <4>1. p.left \in {0, nodes[p.node].left} /\ p.right \in {0, nodes[p.node].right}
        BY <1>0 DEF PathFits
      <4>2. old \in 0 .. n
        BY <1>3
      <4>3. old = Load(<<d, p.node>>)
        BY <3>1, <4>1 DEF Load
      <4> QED BY <1>0, <3>1, <4>2, <4>3
    <3>3. zone[old] = ChildZone(zone, d, p.node)
      <4> DEFINE s == <<d, p.node>>
      <4>1. s \in Slots(n, f) /\ s[1] # "root" /\ s[1] = d /\ s[2] = p.node
        BY <2>2 DEF Slots
      <4> HIDE DEF s, p
      <4>2. Load(s) # 0 => zone[Load(s)] = ChildZone(zone, s[1], s[2])
        BY <1>0, <4>1 DEF TablesZoned, SlotZone
      <4> QED BY <3>1, <3>2, <4>1, <4>2 DEF s
    <3> QED BY <1>6, <2>3, <3>1, <3>2, <3>3
  <2> QED BY <2>4, <2>5
<1>11. ASSUME NEW x \in Slots(n2, f + 1), Load(x)' # 0 PROVE zone2[Load(x)'] = SlotZone(zone2, x)'
  <2>1. CASE x[1] = "root" /\ x[2] = f + 1
    <3>1. Load(x)' = n + 1 /\ 1 \in 1 .. m
      BY <1>1, <2>1 DEF Load
    <3>2. zone2[n + 1] = zone[at(1)] /\ zone[at(1)] = Names
      BY <1>0, <1>6, <3>1 DEF PathFits
    <3> QED BY <2>1, <3>1, <3>2 DEF SlotZone
  <2>2. CASE x \in Slots(n, f)
    <3>1. Load(x)' = Load(x) /\ SlotZone(zone2, x)' = SlotZone(zone, x)
      <4>1. CASE x[1] = "root"
        <5>1. x[2] \in 1 .. f
          BY <2>2, <4>1 DEF Slots
        <5> QED BY <1>1, <4>1, <5>1 DEF Load, SlotZone
      <4>2. CASE x[1] # "root"
        <5>1. x[2] \in 1 .. n
          BY <2>2, <4>2 DEF Slots
        <5>2. nodes'[x[2]] = nodes[x[2]] /\ zone2[x[2]] = zone[x[2]]
          BY <1>1, <1>6, <5>1
        <5> QED BY <4>2, <5>2 DEF Load, SlotZone, ChildZone
      <4> QED BY <4>1, <4>2
    <3>2. Load(x) \in 1 .. n /\ zone[Load(x)] = SlotZone(zone, x)
      BY <1>0, <1>11, <2>2, <3>1, Loads DEF TablesZoned
    <3> QED BY <1>6, <3>1, <3>2
  <2>3. ASSUME NEW d \in {"left", "right"}, NEW i \in 1 .. n2, x = <<d, i>>, i \notin 1 .. n
        PROVE  zone2[Load(x)'] = SlotZone(zone2, x)'
    <3>1. CASE \E j \in 1 .. m : i = n + j
      <4>1. PICK j \in 1 .. m : i = n + j
        BY <3>1
      <4>2. x = <<d, n + j>>
        BY <2>3, <4>1
      <4> QED BY <1>10, <1>11, <4>2
    <3>2. CASE ~ last /\ i = n + m + 1
      <4>1. nodes'[i] = Leaf(t)
        BY <1>1, <3>2
      <4>2. Load(x)' = 0
        BY <2>3, <4>1 DEF Load, Leaf
      <4> QED BY <1>11, <4>2
    <3> QED BY <1>7, <2>3, <3>1, <3>2
  <2>4. \/ x[1] = "root" /\ x[2] = f + 1
        \/ x \in Slots(n, f)
        \/ \E d \in {"left", "right"}, i \in 1 .. n2 : x = <<d, i>> /\ i \notin 1 .. n
    <3>1. CASE x \in {"root"} \X (1 .. f + 1)
      BY <1>0, <3>1 DEF Slots
    <3>2. CASE x \in {"left", "right"} \X (1 .. n2)
      <4>1. CASE x[2] \in 1 .. n
        BY <3>2, <4>1 DEF Slots
      <4>2. CASE x[2] \notin 1 .. n
        <5>1. x[1] \in {"left", "right"} /\ x[2] \in 1 .. n2 /\ x = <<x[1], x[2]>>
          BY <3>2
        <5> QED BY <4>2, <5>1
      <4> QED BY <4>1, <4>2
    <3> QED BY <3>1, <3>2 DEF Slots
  <2> QED BY <2>1, <2>2, <2>3, <2>4
<1>12. TablesZoned(zone2)'
  <2>1. zone2 \in [1 .. n2 -> SUBSET Names]
    BY <1>6, <1>9
  <2> QED BY <1>1, <1>9, <1>11, <2>1 DEF TablesZoned
<1>13. /\ ThreadZoned(zone2, t)'
       /\ \A u \in Threads \ {t} : /\ pc'[u] = pc[u] /\ slot'[u] = slot[u] /\ path'[u] = path[u]
                                   /\ cur'[u] = cur[u]
  <2>1. /\ ThreadZoned(zone2, t)' /\ pc' = [pc EXCEPT ![t] = pc'[t]]
        /\ slot' = [slot EXCEPT ![t] = slot'[t]] /\ path' = [path EXCEPT ![t] = path'[t]]
    BY <1>2, ReturningZoned
  <2> QED BY <1>0, <1>2, <2>1 DEF ControlOK, HoldingsOK
<1>14. Zoned(zone2)'
  BY <1>0, <1>2, <1>6, <1>12, <1>13, ZonedGrows
<1> QED BY <1>14

-----------------------------------------------------------------------------
(* Some zones fit the trees and what the threads hold.                     *)
HasZones == \E zone : Zoned(zone)

LEMMA ZonesInit == Init => HasZones
<1> SUFFICES ASSUME Init PROVE HasZones
  OBVIOUS
<1> DEFINE n == Len(Start)
<1>1. /\ nodes = Start /\ n \in Nat /\ Start \in Seq(NodesOver(n)) /\ DOMAIN Start = 1 .. n
      /\ Len(forms) = 1 /\ forms[1].root = IF n = 0 THEN 0 ELSE 1
      /\ \A t \in Threads : pc[t] = "run" /\ path[t] = <<>>
  <2>1. HeapOK /\ nodes = Start
    BY InvInit DEF Inv, Shape, Init
  <2>2. Start \in Seq(NodesOver(n))
    BY <2>1 DEF HeapOK
  <2>3. forms = <<[root |-> IF n = 0 THEN 0 ELSE 1, next |-> 0]>>
    BY DEF Init
  <2>4. \A t \in Threads : pc[t] = "run" /\ path[t] = <<>>
    BY DEF Init
  <2>5. n \in Nat /\ DOMAIN Start = 1 .. n
    BY <2>2
  <2> QED BY <2>1, <2>2, <2>3, <2>4, <2>5
<1>2. PICK zone \in [DOMAIN Start -> SUBSET Names] :
        /\ Start # <<>> => zone[1] = Names
        /\ \A i \in DOMAIN Start :
             LET k == Start[i].key
                 l == Start[i].left
                 r == Start[i].right
             IN  /\ k \in zone[i]
                 /\ l # 0 => zone[l] = {j \in zone[i] : Hash[j] < Hash[k]}
                 /\ r # 0 => zone[r] = {j \in zone[i] : Hash[j] >= Hash[k] /\ j # k}
  BY StartAssumption
<1>3. n # 0 => zone[1] = Names
  <2>1. n # 0 => Start # <<>>
    OBVIOUS
  <2> QED BY <1>2, <2>1
<1>4. ASSUME NEW s \in Slots(n, 1), Load(s) # 0 PROVE zone[Load(s)] = SlotZone(zone, s)
  <2>1. CASE s[1] = "root"
    <3>1. s[2] = 1
      BY <2>1 DEF Slots
    <3> QED BY <1>1, <1>3, <1>4, <2>1, <3>1 DEF Load, SlotZone
  <2>2. CASE s[1] # "root"
    <3>1. s[1] \in {"left", "right"} /\ s[2] \in 1 .. n
      BY <2>2 DEF Slots
    <3>2. PICK i \in 1 .. n : i = s[2]
      BY <3>1
    <3>3. /\ nodes[i].left # 0 =>
               zone[nodes[i].left] = {j \in zone[i] : Hash[j] < Hash[nodes[i].key]}
          /\ nodes[i].right # 0 =>
               zone[nodes[i].right] = {j \in zone[i] : Hash[j] >= Hash[nodes[i].key] /\ j # nodes[i].key}
      BY <1>1, <1>2
    <3> QED BY <1>4, <3>1, <3>2, <3>3 DEF Load, SlotZone, ChildZone
  <2> QED BY <2>1, <2>2
<1>5. TablesZoned(zone)
  <2>1. \A i \in 1 .. n : nodes[i].key \in zone[i]
    BY <1>1, <1>2
  <2> QED BY <1>1, <1>4, <2>1 DEF TablesZoned
<1>6. \A t \in Threads : ThreadZoned(zone, t)
  BY <1>1 DEF ThreadZoned
<1> QED BY <1>5, <1>6 DEF Zoned, HasZones

(* A thread that is not in a put.                                          *)
LEMMA IdleZoned ==
  ASSUME Inv, NEW zone, Zoned(zone), NEW t \in Threads,
         Compile(t) \/ PopWorkspace(t) \/ Get(t) \/ GetStep(t) \/ Got(t)
  PROVE  Zoned(zone)'
<1>0. ControlOK /\ HoldingsOK(Len(nodes), Len(forms)) /\ ThreadZoned(zone, t)
  BY DEF Inv, Shape, Zoned
<1>1. /\ UNCHANGED <<nodes, forms, slot, path>>
      /\ pc[t] \in {"run", "bound", "get", "got"}
      /\ pc' = [pc EXCEPT ![t] = "run"] \/ pc' = [pc EXCEPT ![t] = "get"]
         \/ pc' = [pc EXCEPT ![t] = "got"] \/ pc' = pc
      /\ \A u \in Threads \ {t} : key'[u] = key[u] /\ cur'[u] = cur[u]
  <2>1. CASE Compile(t) \/ PopWorkspace(t)
    BY <2>1 DEF Compile, PopWorkspace, Ready, Goto, heap, put
  <2>2. CASE Get(t)
    BY <1>0, <2>2 DEF Get, Ready, Goto, heap, put, ControlOK, HoldingsOK
  <2>3. CASE GetStep(t)
    BY <1>0, <2>3 DEF GetStep, GetReturns, Goto, heap, put, ControlOK, HoldingsOK
  <2>4. CASE Got(t)
    BY <1>0, <2>4 DEF Got, Goto, heap, put, ControlOK, HoldingsOK
  <2> QED BY <2>1, <2>2, <2>3, <2>4
<1>2. /\ pc'[t] \in {"run", "bound", "get", "got"} /\ path'[t] = <<>>
      /\ \A u \in Threads \ {t} : pc'[u] = pc[u]
  BY <1>0, <1>1 DEF ControlOK, ThreadZoned
<1>3. ThreadZoned(zone, t)'
  BY <1>2 DEF ThreadZoned
<1> QED BY <1>1, <1>2, <1>3, ZonedQuiet DEF heap

LEMMA ZonesNext == Inv /\ HasZones /\ [Next]_vars => HasZones'
<1> SUFFICES ASSUME Inv, HasZones, [Next]_vars PROVE HasZones'
  OBVIOUS
<1>1. PICK zone : Zoned(zone)
  BY DEF HasZones
<1>2. ASSUME NEW t \in Threads, Compile(t) \/ PopWorkspace(t) \/ Get(t) \/ GetStep(t) \/ Got(t)
      PROVE  HasZones'
  BY <1>1, <1>2, IdleZoned DEF HasZones
<1>3. ASSUME NEW t \in Threads,
             Bind(t) \/ Probe(t) \/ CasFails(t) \/ CopyLeft(t) \/ CopyRight(t) \/ PushWorkspace(t)
      PROVE  HasZones'
  BY <1>1, <1>3, BindZoned, ProbeZoned, CasFailsZoned, CopyLeftZoned, CopyRightZoned,
     PushWorkspaceZoned DEF HasZones
<1>4. ASSUME NEW t \in Threads, CasSucceeds(t) \/ Build(t) PROVE HasZones'
  <2>1. \E zone2 : Zoned(zone2)'
    BY <1>1, <1>4, CasSucceedsZoned, BuildZoned
  <2> QED BY <2>1 DEF HasZones
<1>5. CASE UNCHANGED vars
  <2>0. Grows /\ UNCHANGED <<nodes, forms, pc, key, slot, cur, path>>
    BY <1>5 DEF vars, Grows
  <2>1. TablesZoned(zone)'
    BY <1>1, <2>0 DEF Zoned, TablesZoned, SlotZone, ChildZone, Load
  <2>2. ASSUME NEW u \in Threads PROVE ThreadZoned(zone, u)'
    <3>1. ThreadZoned(zone, u)
      BY <1>1 DEF Zoned
    <3> QED BY <2>0, <3>1, ThreadStays
  <2>3. Zoned(zone)'
    BY <2>1, <2>2 DEF Zoned
  <2> QED BY <2>3 DEF HasZones
<1> QED BY <1>2, <1>3, <1>4, <1>5 DEF Next, Step

(* The trees of all forms stay ordered, however puts interleave: what a    *)
(* compare-and-swap links and what putPure builds is where every later     *)
(* search for its name goes.                                               *)
THEOREM TreesStayOrdered == Spec => []Ordered
<1>1. Inv /\ HasZones /\ [Next]_vars => (Inv /\ HasZones)'
  BY NextKeeps, ZonesNext
<1>2. Inv /\ HasZones => Ordered
  BY ZonedIsOrdered DEF HasZones, Zoned, Inv, Shape
<1>3. Init => Inv /\ HasZones
  BY InvInit, ZonesInit
<1> QED BY <1>1, <1>2, <1>3, PTL DEF Spec

-----------------------------------------------------------------------------
(* The search for name k that is at node r comes to node n: n is in every  *)
(* set that holds r and what the search goes on to.                        *)
Followed(k, C) ==
  \A i \in C : i # 0 /\ ~ SameHash(k, i) => Load(<<Toward(k, i), i>>) \in C
Leads(k, r, n) ==
  \A C \in SUBSET (0 .. Len(nodes)) : r \in C /\ Followed(k, C) => n \in C
(* The search for name k in form f finds value v.                          *)
Holds(k, f, v) ==
  \E n \in 1 .. Len(nodes) :
    Leads(k, forms[f].root, n) /\ SameHash(k, n) /\ nodes[n].value = v

(* A put searches its own form; once the function's form is done, and when *)
(* both are, the name is found there.                                      *)
PutVisible(t) ==
  /\ pc[t] \in {"probe", "cas"} /\ slot[t][1] # "root" =>
       /\ slot[t][1] = Toward(key[t], slot[t][2])
       /\ ~ SameHash(key[t], slot[t][2])
       /\ Leads(key[t], forms[Target(t)].root, slot[t][2])
  /\ pc[t] \in Putting /\ side[t] = "thread" => Holds(key[t], fun[t], value[t])
  /\ pc[t] = "bound" => /\ value[t] # NoValue
                        /\ Holds(key[t], fun[t], value[t]) /\ Holds(key[t], ws[t], value[t])

VisOK == \A t \in Threads : PutVisible(t)

(* What GTable::get needs to tell names apart.                             *)
DistinctHashes == \A a, b \in Names : Hash[a] = Hash[b] => a = b

(* The search for a name comes to the nodes it leads to, and still does    *)
(* when the tables have grown.                                             *)
LEMMA LeadsOn ==
  ASSUME HeapOK, NEW k, NEW r, NEW i \in 1 .. Len(nodes), Leads(k, r, i), ~ SameHash(k, i)
  PROVE  Leads(k, r, Load(<<Toward(k, i), i>>))
<1> SUFFICES ASSUME NEW C \in SUBSET (0 .. Len(nodes)), r \in C, Followed(k, C)
             PROVE  Load(<<Toward(k, i), i>>) \in C
  BY DEF Leads
<1>1. i \in C
  BY DEF Leads
<1> QED BY <1>1 DEF Followed

(* What is ahead of a node where the search goes on is ahead of the next.  *)
LEMMA LeadsFrom ==
  ASSUME HeapOK, NEW k, NEW i \in 1 .. Len(nodes), NEW n \in 1 .. Len(nodes), Leads(k, i, n),
         ~ SameHash(k, i), SameHash(k, n)
  PROVE  Leads(k, Load(<<Toward(k, i), i>>), n)
<1> DEFINE j == Load(<<Toward(k, i), i>>)
<1> SUFFICES ASSUME NEW C \in SUBSET (0 .. Len(nodes)), j \in C, Followed(k, C)
             PROVE  n \in C
  BY DEF Leads
<1>1. C \cup {i} \in SUBSET (0 .. Len(nodes)) /\ i \in C \cup {i}
  OBVIOUS
<1>2. Followed(k, C \cup {i})
  BY DEF Followed
<1>3. n \in C \cup {i}
  BY <1>1, <1>2 DEF Leads
<1>4. n # i
  OBVIOUS
<1> QED BY <1>3, <1>4

LEMMA LeadsNowhere ==
  ASSUME HeapOK, NEW k, NEW n \in 1 .. Len(nodes)
  PROVE  ~ Leads(k, 0, n)
<1>1. {0} \in SUBSET (0 .. Len(nodes)) /\ Followed(k, {0}) /\ n \notin {0}
  BY HeapLengths DEF Followed
<1> QED BY <1>1 DEF Leads

LEMMA LeadsGrows ==
  ASSUME HeapOK, HeapOK', Grows, NEW k, NEW r \in 0 .. Len(nodes), NEW n \in 1 .. Len(nodes),
         Leads(k, r, n)
  PROVE  Leads(k, r, n)'
<1> SUFFICES ASSUME NEW D \in SUBSET (0 .. Len(nodes')), r \in D, Followed(k, D)'
             PROVE  n \in D
  BY DEF Leads
<1> DEFINE C == (D \cap (0 .. Len(nodes))) \cup {0}
<1>1. C \in SUBSET (0 .. Len(nodes)) /\ r \in C
  BY HeapLengths
<1>2. Followed(k, C)
  <2> SUFFICES ASSUME NEW i \in C, i # 0, ~ SameHash(k, i)
               PROVE  Load(<<Toward(k, i), i>>) \in C
    BY DEF Followed
  <2>1. i \in 1 .. Len(nodes) /\ i \in D
    BY HeapLengths
  <2>2. /\ nodes'[i].key = nodes[i].key
        /\ nodes[i].left # 0 => nodes'[i].left = nodes[i].left
        /\ nodes[i].right # 0 => nodes'[i].right = nodes[i].right
    BY <2>1 DEF Grows, Nodes
  <2>3. ~ SameHash(k, i)' /\ Toward(k, i)' = Toward(k, i)
    BY <2>2 DEF SameHash, Toward
  <2>4. Load(<<Toward(k, i), i>>)' \in D
    BY <2>1, <2>3 DEF Followed
  <2>5. Load(<<Toward(k, i), i>>) \in 0 .. Len(nodes)
    BY <2>1, Loads, TowardChild
  <2>6. Load(<<Toward(k, i), i>>) # 0 =>
          Load(<<Toward(k, i), i>>)' = Load(<<Toward(k, i), i>>)
    BY <2>2, <2>3 DEF Load, Toward
  <2> QED BY <2>4, <2>5, <2>6
<1>3. n \in C
  BY <1>1, <1>2 DEF Leads
<1> QED BY <1>3

LEMMA FindLeads ==
  ASSUME HeapOK, NEW k, NEW r \in 0 .. Len(nodes), NEW n \in 1 .. Len(nodes), Leads(k, r, n)
  PROVE  Find(k, r) = Find(k, n)
<1> DEFINE C == {i \in 0 .. Len(nodes) : Find(k, i) = Find(k, r)}
<1>1. r \in C /\ C \in SUBSET (0 .. Len(nodes))
  OBVIOUS
<1>2. Followed(k, C)
  <2> SUFFICES ASSUME NEW i \in C, i # 0, ~ SameHash(k, i)
               PROVE  Load(<<Toward(k, i), i>>) \in C
    BY DEF Followed
  <2>1. i \in 1 .. Len(nodes)
    BY HeapLengths
  <2>2. Load(<<Toward(k, i), i>>) \in 0 .. Len(nodes)
    BY <2>1, Loads, TowardChild
  <2>3. Find(k, Load(<<Toward(k, i), i>>)) = Find(k, i)
    BY <2>1, FindIs
  <2> QED BY <2>2, <2>3
<1> HIDE DEF C
<1>3. n \in C
  BY <1>1, <1>2 DEF Leads
<1> QED BY <1>3 DEF C

LEMMA HoldsFound ==
  ASSUME HeapOK, NEW k, NEW f \in 1 .. Len(forms), NEW v, v # NoValue, Holds(k, f, v)
  PROVE  Lookup(k, f) = v
<1>1. PICK n \in 1 .. Len(nodes) : Leads(k, forms[f].root, n) /\ SameHash(k, n) /\ nodes[n].value = v
  BY DEF Holds
<1>2. PICK r \in 0 .. Len(nodes) : r = forms[f].root
  BY HeapLengths DEF FormsOver
<1>3. Find(k, forms[f].root) = Find(k, n)
  <2>1. Leads(k, r, n)
    BY <1>1, <1>2
  <2>2. Find(k, r) = Find(k, n)
    BY <2>1, FindLeads
  <2> QED BY <1>2, <2>2
<1>4. Find(k, n) = v
  <2>1. n \in 0 .. Len(nodes) /\ n # 0
    BY HeapLengths
  <2> QED BY <1>1, <2>1, FindIs
<1>5. f \in 0 .. Len(forms) /\ f # 0
  BY HeapLengths
<1> QED BY <1>3, <1>4, <1>5, LookupIs

LEMMA HoldsGrows ==
  ASSUME HeapOK, HeapOK', Grows, Len(nodes) <= Len(nodes'), NEW k, NEW f \in 1 .. Len(forms), NEW v,
         Holds(k, f, v)
  PROVE  Holds(k, f, v)'
<1>1. PICK n \in 1 .. Len(nodes) : Leads(k, forms[f].root, n) /\ SameHash(k, n) /\ nodes[n].value = v
  BY DEF Holds
<1>2. PICK r \in 0 .. Len(nodes) : r = forms[f].root
  BY HeapLengths DEF FormsOver
<1>3. r # 0
  BY <1>1, <1>2, LeadsNowhere
<1>4. Leads(k, r, n)' /\ forms'[f].root = r
  BY <1>1, <1>2, <1>3, LeadsGrows DEF Grows, Forms
<1>5. nodes'[n].key = nodes[n].key /\ nodes'[n].value = v /\ n \in 1 .. Len(nodes')
  <2>1. nodes'[n].key = nodes[n].key /\ nodes'[n].value = nodes[n].value
    BY DEF Grows, Nodes
  <2>2. n \in 1 .. Len(nodes')
    BY HeapLengths DEF HeapOK
  <2> QED BY <1>1, <2>1, <2>2
<1>6. Leads(k, forms[f].root, n)'
  BY <1>4 DEF Leads
<1>7. SameHash(k, n)'
  BY <1>1, <1>5 DEF SameHash
<1> QED BY <1>5, <1>6, <1>7 DEF Holds

-----------------------------------------------------------------------------
(* The same of what a thread holds after a step.                           *)
LEMMA HoldsThen ==
  ASSUME NEW u, NEW k, NEW f \in Nat, NEW v, k = key'[u], v = value'[u], Holds(k, f, v)'
  PROVE  /\ f = fun'[u] => Holds(key[u], fun[u], value[u])'
         /\ f = ws'[u] => Holds(key[u], ws[u], value[u])'
  BY DEF Holds, Leads, Followed, SameHash, Toward, Load

LEMMA HoldsStays ==
  ASSUME Inv, HeapOK', Grows, Len(nodes) <= Len(nodes'), NEW u \in Threads,
         key'[u] = key[u], value'[u] = value[u]
  PROVE  /\ fun'[u] = fun[u] /\ Holds(key[u], fun[u], value[u]) => Holds(key[u], fun[u], value[u])'
         /\ ws'[u] = ws[u] /\ Holds(key[u], ws[u], value[u]) => Holds(key[u], ws[u], value[u])'
<1>0. HeapOK /\ fun[u] \in 1 .. Len(forms) /\ ws[u] \in 1 .. Len(forms)
  BY DEF Inv, Shape, HoldingsOK
<1>1. PICK k, v : k = key[u] /\ v = value[u]
  OBVIOUS
<1>2. ASSUME NEW f \in 1 .. Len(forms), Holds(k, f, v) PROVE Holds(k, f, v)'
  BY <1>0, <1>2, HoldsGrows
<1>3. ASSUME fun'[u] = fun[u], Holds(key[u], fun[u], value[u])
      PROVE  Holds(key[u], fun[u], value[u])'
  <2>1. PICK f \in 1 .. Len(forms) : f = fun[u]
    BY <1>0
  <2>2. Holds(k, f, v)'
    BY <1>1, <1>2, <1>3, <2>1
  <2>3. k = key'[u] /\ v = value'[u] /\ f = fun'[u]
    BY <1>1, <1>3, <2>1
  <2>4. Holds(key[u], fun[u], value[u])'
    BY <1>0, <2>2, <2>3, HeapLengths, HoldsThen
  <2> QED BY <2>4
<1>4. ASSUME ws'[u] = ws[u], Holds(key[u], ws[u], value[u])
      PROVE  Holds(key[u], ws[u], value[u])'
  <2>1. PICK f \in 1 .. Len(forms) : f = ws[u]
    BY <1>0
  <2>2. Holds(k, f, v)'
    BY <1>1, <1>2, <1>4, <2>1
  <2>3. k = key'[u] /\ v = value'[u] /\ f = ws'[u]
    BY <1>1, <1>4, <2>1
  <2>4. Holds(key[u], ws[u], value[u])'
    BY <1>0, <2>2, <2>3, HeapLengths, HoldsThen
  <2> QED BY <2>4
<1> QED BY <1>3, <1>4

(* The same of the slot a thread has come to.                              *)
LEMMA SlotStays ==
  ASSUME Inv, HeapOK', Grows, NEW u \in Threads, pc[u] \in {"probe", "cas"}, PutVisible(u),
         key'[u] = key[u], slot'[u] = slot[u], slot[u][1] # "root", Target(u)' = Target(u)
  PROVE  /\ slot[u][1] = Toward(key[u], slot[u][2])'
         /\ ~ SameHash(key[u], slot[u][2])'
         /\ Leads(key[u], forms[Target(u)].root, slot[u][2])'
<1>0. /\ HeapOK /\ slot[u][2] \in 1 .. Len(nodes) /\ Target(u) \in 1 .. Len(forms)
      /\ forms[Target(u)].root # 0
  BY DEF Inv, Shape, HoldingsOK, PutsOK, PutOK, Slots, Target
<1>1. PICK k : k = key[u]
  OBVIOUS
<1>2. PICK i \in 1 .. Len(nodes), g \in 1 .. Len(forms) : i = slot[u][2] /\ g = Target(u)
  BY <1>0
<1>3. PICK r \in 0 .. Len(nodes) : r = forms[g].root
  BY <1>0, HeapLengths DEF FormsOver
<1>4. /\ slot[u][1] = Toward(k, i) /\ ~ SameHash(k, i) /\ Leads(k, r, i)
  <2>1. /\ slot[u][1] = Toward(key[u], slot[u][2]) /\ ~ SameHash(key[u], slot[u][2])
        /\ Leads(key[u], forms[Target(u)].root, slot[u][2])
    BY DEF PutVisible
  <2> QED BY <1>1, <1>2, <1>3, <2>1 DEF Toward, SameHash, Leads, Followed, Load
<1>5. nodes'[i].key = nodes[i].key /\ forms'[g].root = r
  BY <1>0, <1>1, <1>2, <1>3 DEF Grows, Nodes, Forms
<1>6. Leads(k, r, i)'
  BY <1>0, <1>4, LeadsGrows
<1>7. Leads(key[u], forms[Target(u)].root, slot[u][2])'
  <2>1. key'[u] = k /\ slot'[u][2] = i /\ Target(u)' = g
    BY <1>1, <1>2, <1>3
  <2>2. forms'[Target(u)'].root = r
    BY <1>5, <2>1
  <2> QED BY <1>6, <2>1, <2>2 DEF Leads, Followed, SameHash, Toward, Load
<1>8. slot[u][1] = Toward(key[u], slot[u][2])' /\ ~ SameHash(key[u], slot[u][2])'
  BY <1>1, <1>2, <1>3, <1>4, <1>5 DEF Toward, SameHash
<1> QED BY <1>7, <1>8

LEMMA VisibleStays ==
  ASSUME Inv, HeapOK', Grows, Len(nodes) <= Len(nodes'), NEW u \in Threads, PutVisible(u),
         pc'[u] = pc[u], key'[u] = key[u], value'[u] = value[u], side'[u] = side[u],
         slot'[u] = slot[u], ws'[u] = ws[u], fun'[u] = fun[u]
  PROVE  PutVisible(u)'
<1>1. Target(u)' = Target(u)
  BY DEF Target
<1>2. CASE pc[u] \in {"probe", "cas"} /\ slot[u][1] # "root"
  <2>1. /\ slot[u][1] = Toward(key[u], slot[u][2])'
        /\ ~ SameHash(key[u], slot[u][2])'
        /\ Leads(key[u], forms[Target(u)].root, slot[u][2])'
    BY <1>1, <1>2, SlotStays
  <2>2. pc[u] \in Putting /\ side[u] = "thread" => Holds(key[u], fun[u], value[u])'
    BY HoldsStays DEF PutVisible
  <2> QED BY <1>2, <2>1, <2>2 DEF PutVisible
<1>3. CASE ~ (pc[u] \in {"probe", "cas"} /\ slot[u][1] # "root")
  <2>1. pc[u] \in Putting /\ side[u] = "thread" => Holds(key[u], fun[u], value[u])'
    BY HoldsStays DEF PutVisible
  <2>2. pc[u] = "bound" => /\ value[u] # NoValue
                           /\ Holds(key[u], fun[u], value[u])' /\ Holds(key[u], ws[u], value[u])'
    BY HoldsStays DEF PutVisible
  <2> QED BY <1>3, <2>1, <2>2 DEF PutVisible
<1> QED BY <1>2, <1>3

(* A put that has returned a form that holds what was put.                 *)
LEMMA ReturningVisible ==
  ASSUME Inv, HeapOK', Grows, Len(nodes) <= Len(nodes'), VisOK, NEW t \in Threads, pc[t] \in Putting,
         NEW f \in Nat, PutReturns(t, f), UNCHANGED <<key, value>>,
         NEW k, NEW v, k = key[t], v = value[t], Holds(k, f, v)'
  PROVE  VisOK'
<1>0. ControlOK /\ HoldingsOK(Len(nodes), Len(forms)) /\ PutOK(t) /\ PutVisible(t)
  BY DEF Inv, Shape, PutsOK, VisOK
<1>1. \/ /\ fun' = [fun EXCEPT ![t] = f] /\ side' = [side EXCEPT ![t] = "thread"]
         /\ slot' = [slot EXCEPT ![t] = <<"root", ws[t]>>]
         /\ pc' = [pc EXCEPT ![t] = "probe"] /\ ws' = ws
      \/ /\ ws' = [ws EXCEPT ![t] = f] /\ slot' = [slot EXCEPT ![t] = <<"root", f>>]
         /\ pc' = [pc EXCEPT ![t] = "bound"] /\ fun' = fun /\ side' = side
         /\ side[t] # "fun"
  BY DEF PutReturns, Goto
<1>2. PutVisible(t)'
  <2>1. CASE /\ fun' = [fun EXCEPT ![t] = f] /\ side' = [side EXCEPT ![t] = "thread"]
             /\ slot' = [slot EXCEPT ![t] = <<"root", ws[t]>>]
             /\ pc' = [pc EXCEPT ![t] = "probe"] /\ ws' = ws
    <3>1. fun'[t] = f /\ slot'[t][1] = "root" /\ pc'[t] = "probe" /\ k = key'[t] /\ v = value'[t]
      BY <1>0, <2>1 DEF ControlOK, HoldingsOK
    <3>2. Holds(key[t], fun[t], value[t])'
      BY <3>1, HoldsThen
    <3> QED BY <3>1, <3>2 DEF PutVisible
  <2>2. CASE /\ ws' = [ws EXCEPT ![t] = f] /\ slot' = [slot EXCEPT ![t] = <<"root", f>>]
             /\ pc' = [pc EXCEPT ![t] = "bound"] /\ fun' = fun /\ side' = side
             /\ side[t] # "fun"
    <3>1. /\ ws'[t] = f /\ pc'[t] = "bound" /\ k = key'[t] /\ v = value'[t] /\ side[t] = "thread"
          /\ value'[t] # NoValue
      BY <1>0, <2>2 DEF ControlOK, HoldingsOK, PutOK
    <3>2. Holds(key[t], ws[t], value[t])'
      BY <3>1, HoldsThen
    <3>3. Holds(key[t], fun[t], value[t])'
      BY <1>0, <2>2, <3>1, HoldsStays DEF PutVisible
    <3> QED BY <3>1, <3>2, <3>3 DEF PutVisible, Putting
  <2> QED BY <1>1, <2>1, <2>2
<1>3. ASSUME NEW u \in Threads \ {t} PROVE PutVisible(u)'
  <2>1. /\ pc'[u] = pc[u] /\ slot'[u] = slot[u] /\ side'[u] = side[u] /\ ws'[u] = ws[u]
        /\ fun'[u] = fun[u] /\ key'[u] = key[u] /\ value'[u] = value[u]
    <3>1. /\ DOMAIN pc = Threads /\ DOMAIN slot = Threads /\ DOMAIN side = Threads
          /\ DOMAIN ws = Threads /\ DOMAIN fun = Threads
      BY <1>0 DEF ControlOK, HoldingsOK
    <3> QED BY <1>1, <3>1
  <2>2. PutVisible(u)
    BY DEF VisOK
  <2> QED BY <2>1, <2>2, VisibleStays
<1> QED BY <1>2, <1>3 DEF VisOK

-----------------------------------------------------------------------------
(* A step that leaves the heap alone.                                      *)
LEMMA VisibleQuiet ==
  ASSUME Inv, UNCHANGED heap, VisOK, NEW t \in Threads,
         \A u \in Threads \ {t} :
           /\ pc'[u] = pc[u] /\ key'[u] = key[u] /\ value'[u] = value[u] /\ side'[u] = side[u]
           /\ slot'[u] = slot[u] /\ ws'[u] = ws[u] /\ fun'[u] = fun[u],
         PutVisible(t)'
  PROVE  VisOK'
<1>1. HeapOK' /\ Grows /\ Len(nodes) <= Len(nodes')
  BY HeapLengths DEF Inv, Shape, HeapOK, heap, Grows
<1>2. ASSUME NEW u \in Threads \ {t} PROVE PutVisible(u)'
  BY <1>1, VisibleStays DEF VisOK
<1> QED BY <1>2 DEF VisOK

(* A thread that is not in a put, or begins one.                           *)
LEMMA IdleVisible ==
  ASSUME Inv, VisOK, NEW t \in Threads,
         Compile(t) \/ PopWorkspace(t) \/ Bind(t) \/ Get(t) \/ GetStep(t) \/ Got(t)
  PROVE  VisOK'
<1>0. ControlOK /\ HoldingsOK(Len(nodes), Len(forms))
  BY DEF Inv, Shape
<1>1. ASSUME pc'[t] \in {"run", "get", "got"} PROVE PutVisible(t)'
  BY <1>1 DEF PutVisible, Putting
<1>2. CASE Compile(t)
  <2>1. pc'[t] = "run" /\ \A u \in Threads \ {t} : pc'[u] = pc[u] /\ fun'[u] = fun[u]
    BY <1>0, <1>2 DEF Compile, Goto, ControlOK, HoldingsOK
  <2> QED BY <1>1, <1>2, <2>1, VisibleQuiet DEF Compile, put
<1>3. CASE PopWorkspace(t)
  <2>1. pc'[t] = "run" /\ \A u \in Threads \ {t} : pc'[u] = pc[u] /\ ws'[u] = ws[u]
    BY <1>0, <1>3 DEF PopWorkspace, Goto, ControlOK, HoldingsOK
  <2> QED BY <1>1, <1>3, <2>1, VisibleQuiet DEF PopWorkspace, put
<1>4. CASE Bind(t)
  <2>1. /\ pc'[t] = "probe" /\ slot'[t][1] = "root" /\ side'[t] = "fun"
        /\ \A u \in Threads \ {t} : /\ pc'[u] = pc[u] /\ slot'[u] = slot[u] /\ side'[u] = side[u]
                                    /\ key'[u] = key[u] /\ value'[u] = value[u]
    BY <1>0, <1>4 DEF Bind, Goto, ControlOK, HoldingsOK
  <2>2. PutVisible(t)'
    BY <2>1 DEF PutVisible
  <2> QED BY <1>4, <2>1, <2>2, VisibleQuiet DEF Bind
<1>5. CASE Get(t)
  <2>1. pc'[t] = "get" /\ \A u \in Threads \ {t} : pc'[u] = pc[u] /\ key'[u] = key[u]
    BY <1>0, <1>5 DEF Get, Goto, ControlOK, HoldingsOK
  <2> QED BY <1>1, <1>5, <2>1, VisibleQuiet DEF Get, put
<1>6. CASE GetStep(t)
  <2>1. pc'[t] \in {"get", "got"} /\ \A u \in Threads \ {t} : pc'[u] = pc[u]
    BY <1>0, <1>6 DEF GetStep, GetReturns, Goto, ControlOK
  <2> QED BY <1>1, <1>6, <2>1, VisibleQuiet DEF GetStep, put
<1>7. CASE Got(t)
  <2>1. pc'[t] = "run" /\ \A u \in Threads \ {t} : pc'[u] = pc[u]
    BY <1>0, <1>7 DEF Got, Goto, ControlOK
  <2> QED BY <1>1, <1>7, <2>1, VisibleQuiet DEF Got, put
<1> QED BY <1>2, <1>3, <1>4, <1>5, <1>6, <1>7

(* A thread that goes on with a put.                                       *)
LEMMA PuttingVisible ==
  ASSUME Inv, VisOK, NEW t \in Threads, CasFails(t) \/ CopyLeft(t) \/ CopyRight(t) \/ Probe(t)
  PROVE  VisOK'
<1>0. /\ ControlOK /\ HoldingsOK(Len(nodes), Len(forms)) /\ HeapOK /\ PutVisible(t) /\ PutOK(t)
      /\ HeapOK' /\ Grows /\ Len(nodes) <= Len(nodes')
  <2>1. UNCHANGED heap
    BY DEF CasFails, CopyLeft, CopyRight, Probe
  <2> QED BY <2>1, HeapLengths DEF Inv, Shape, HeapOK, heap, Grows, VisOK, PutsOK
<1>1. UNCHANGED <<nodes, forms, ws, fun, key, value, side>> /\ pc[t] \in Putting
  BY DEF CasFails, CopyLeft, CopyRight, Probe, heap, put, Putting
<1>2. side[t] = "thread" => Holds(key[t], fun[t], value[t])'
  BY <1>0, <1>1, HoldsStays DEF PutVisible
<1>3. Target(t)' = Target(t)
  BY <1>1 DEF Target
<1>4. CASE CasFails(t)
  <2>1. /\ pc[t] = "cas" /\ pc'[t] = "probe" /\ UNCHANGED slot
        /\ \A u \in Threads \ {t} : pc'[u] = pc[u]
    BY <1>0, <1>4 DEF CasFails, Goto, ControlOK, put
  <2>2. slot[t][1] # "root" => /\ slot[t][1] = Toward(key[t], slot[t][2])'
                               /\ ~ SameHash(key[t], slot[t][2])'
                               /\ Leads(key[t], forms[Target(t)].root, slot[t][2])'
    BY <1>0, <1>1, <1>3, <2>1, SlotStays
  <2>3. PutVisible(t)'
    BY <1>1, <1>2, <2>1, <2>2 DEF PutVisible
  <2> QED BY <1>1, <2>1, <2>3, VisibleQuiet DEF heap
<1>5. CASE CopyLeft(t) \/ CopyRight(t)
  <2>1. /\ pc'[t] \in {"copyLeft", "copyRight", "build"} /\ UNCHANGED slot
        /\ \A u \in Threads \ {t} : pc'[u] = pc[u]
    BY <1>0, <1>5 DEF CopyLeft, CopyRight, Goto, ControlOK
  <2>2. PutVisible(t)'
    BY <1>1, <1>2, <2>1 DEF PutVisible
  <2> QED BY <1>1, <2>1, <2>2, VisibleQuiet DEF heap
<1>6. CASE Probe(t)
  <2> DEFINE n == Load(slot[t])
  <2>0. pc[t] = "probe" /\ slot[t] \in Slots(Len(nodes), Len(forms))
    BY <1>0, <1>6 DEF Probe, HoldingsOK
  <2>1. CASE n = 0 /\ Goto(t, "cas") /\ UNCHANGED <<slot, cur>>
    <3>1. /\ pc'[t] = "cas" /\ \A u \in Threads \ {t} : pc'[u] = pc[u]
      BY <1>0, <2>1 DEF Goto, ControlOK
    <3>2. slot[t][1] # "root" => /\ slot[t][1] = Toward(key[t], slot[t][2])'
                                 /\ ~ SameHash(key[t], slot[t][2])'
                                 /\ Leads(key[t], forms[Target(t)].root, slot[t][2])'
      BY <1>0, <1>1, <1>3, <2>0, <2>1, SlotStays
    <3>3. PutVisible(t)'
      BY <1>1, <1>2, <2>1, <3>1, <3>2 DEF PutVisible
    <3> QED BY <1>1, <2>1, <3>1, <3>3, VisibleQuiet DEF heap
  <2>2. CASE /\ n # 0 /\ ~ SameHash(key[t], n) /\ slot' = [slot EXCEPT ![t] = <<Toward(key[t], n), n>>]
             /\ UNCHANGED <<pc, cur>>
    <3>1. PICK i : i = n
      OBVIOUS
    <3>2. slot'[t] = <<Toward(key[t], i), i>> /\ \A u \in Threads \ {t} : slot'[u] = slot[u]
      BY <1>0, <2>2, <3>1 DEF HoldingsOK
    <3>3. Leads(key[t], forms[Target(t)].root, i)
      <4>1. CASE slot[t][1] = "root"
        BY <1>0, <2>0, <3>1, <4>1 DEF PutOK, Load, Leads
      <4>2. CASE slot[t][1] # "root"
        <5>1. PICK j \in 1 .. Len(nodes) : j = slot[t][2]
          BY <2>0, <4>2 DEF Slots
        <5>2. /\ ~ SameHash(key[t], j) /\ Leads(key[t], forms[Target(t)].root, j)
              /\ slot[t][1] = Toward(key[t], j)
          BY <1>0, <2>0, <4>2, <5>1 DEF PutVisible
        <5>3. slot[t] = <<Toward(key[t], j), j>>
          BY <2>0, <4>2, <5>1, <5>2 DEF Slots
        <5>4. PICK k, r : k = key[t] /\ r = forms[Target(t)].root
          OBVIOUS
        <5>5. Leads(k, r, Load(<<Toward(k, j), j>>))
          BY <1>0, <5>2, <5>4, LeadsOn
        <5> QED BY <3>1, <5>3, <5>4, <5>5
      <4> QED BY <4>1, <4>2
    <3>4. Leads(key[t], forms[Target(t)].root, i)'
      BY <1>1, <1>3, <3>3 DEF Leads, Followed, SameHash, Toward, Load
    <3>5. ~ SameHash(key[t], i)' /\ Toward(key[t], i)' = Toward(key[t], i)
      BY <1>1, <2>2, <3>1 DEF SameHash, Toward
    <3>6. slot'[t][1] = Toward(key[t], i)' /\ slot'[t][2] = i
      BY <3>2, <3>5
    <3>7. /\ slot'[t][1] = Toward(key[t], slot[t][2])'
          /\ ~ SameHash(key[t], slot[t][2])'
          /\ Leads(key[t], forms[Target(t)].root, slot[t][2])'
      BY <3>4, <3>5, <3>6 DEF Leads, Followed, SameHash, Toward, Load
    <3>8. PutVisible(t)'
      BY <1>1, <1>2, <2>0, <2>2, <3>7 DEF PutVisible
    <3> QED BY <1>1, <2>2, <3>2, <3>8, VisibleQuiet DEF heap
  <2>3. CASE Goto(t, "copyLeft") /\ UNCHANGED slot
    <3>1. pc'[t] = "copyLeft" /\ \A u \in Threads \ {t} : pc'[u] = pc[u]
      BY <1>0, <2>3 DEF Goto, ControlOK
    <3>2. PutVisible(t)'
      BY <1>1, <1>2, <3>1 DEF PutVisible
    <3> QED BY <1>1, <2>3, <3>1, <3>2, VisibleQuiet DEF heap
  <2> QED BY <1>6, <2>1, <2>2, <2>3 DEF Probe
<1> QED BY <1>4, <1>5, <1>6

LEMMA PushWorkspaceVisible ==
  ASSUME Inv, VisOK, NEW t \in Threads, PushWorkspace(t)
  PROVE  VisOK'
<1>0. ControlOK /\ HoldingsOK(Len(nodes), Len(forms)) /\ HeapOK' /\ Grows /\ Len(nodes) <= Len(nodes')
  <2>1. nodes' = nodes /\ Inv' /\ Grows
    BY PushWorkspaceKeeps DEF PushWorkspace
  <2> QED BY <2>1, HeapLengths DEF Inv, Shape
<1>1. /\ UNCHANGED <<key, value, side, slot, fun>> /\ pc'[t] = "run"
      /\ \A u \in Threads \ {t} : pc'[u] = pc[u] /\ ws'[u] = ws[u]
  BY <1>0 DEF PushWorkspace, Goto, put, ControlOK, HoldingsOK
<1>2. PutVisible(t)'
  BY <1>1 DEF PutVisible, Putting
<1>3. ASSUME NEW u \in Threads \ {t} PROVE PutVisible(u)'
  BY <1>0, <1>1, VisibleStays DEF VisOK
<1> QED BY <1>2, <1>3 DEF VisOK

-----------------------------------------------------------------------------
(* The leaf that is linked is where the search for its name goes.          *)
LEMMA CasSucceedsVisible ==
  ASSUME Inv, VisOK, NEW t \in Threads, CasSucceeds(t)
  PROVE  VisOK'
<1> DEFINE n == Len(nodes)
           m == Len(forms)
<1>0. /\ HeapOK /\ ControlOK /\ HoldingsOK(n, m) /\ PutOK(t) /\ PutVisible(t) /\ n \in Nat /\ m \in Nat
      /\ HeapOK' /\ Grows /\ pc[t] = "cas" /\ slot[t] \in Slots(n, m)
      /\ PutReturns(t, Target(t)) /\ UNCHANGED <<key, value>>
  BY HeapLengths, CasSucceedsKeeps DEF Inv, Shape, PutsOK, VisOK, HoldingsOK, CasSucceeds
<1>1. Len(nodes') = n + 1 /\ nodes'[n + 1] = Leaf(t)
  BY CasLoads
<1>2. PICK k, v : k = key[t] /\ v = value[t]
  OBVIOUS
<1>3. PICK g \in 1 .. m : g = Target(t)
  BY <1>0 DEF HoldingsOK, Target
<1>4. PICK z : z = n + 1
  OBVIOUS
<1>5. PICK s \in Slots(n, m) : s = slot[t]
  BY <1>0
<1>6. Load(s)' = z /\ z \in 1 .. Len(nodes')
  <2>1. Load(s)' = n + 1
    BY <1>5, CasLoads
  <2> QED BY <1>0, <1>1, <1>4, <2>1
<1>7. SameHash(k, z)' /\ nodes'[z].value = v
  BY <1>1, <1>2, <1>4 DEF SameHash, Leaf
<1>8. PICK r : r = forms'[g].root
  OBVIOUS
<1>9. Leads(k, r, z)'
  <2>1. CASE s[1] = "root"
    <3>1. r = z
      BY <1>0, <1>3, <1>5, <1>6, <1>8, <2>1 DEF PutOK, Load
    <3> QED BY <3>1 DEF Leads
  <2>2. CASE s[1] # "root"
    <3>1. PICK i \in 1 .. n : i = s[2]
      BY <2>2 DEF Slots
    <3>2. ~ SameHash(k, i) /\ s[1] = Toward(k, i) /\ Leads(k, forms[g].root, i)
      <4>1. /\ s[1] = Toward(key[t], s[2]) /\ ~ SameHash(key[t], s[2])
            /\ Leads(key[t], forms[Target(t)].root, s[2])
        BY <1>0, <1>5, <2>2 DEF PutVisible
      <4> QED BY <1>2, <1>3, <3>1, <4>1 DEF Toward, SameHash, Leads, Followed, Load
    <3>3. PICK r0 \in 0 .. n : r0 = forms[g].root
      BY <1>0, HeapLengths DEF FormsOver
    <3>4. r0 = r /\ nodes'[i].key = nodes[i].key
      BY <1>0, <1>3, <1>5, <1>8, <2>2, <3>3 DEF PutOK, Grows, Nodes, Forms
    <3>5. Leads(k, r0, i)'
      BY <1>0, <3>2, <3>3, LeadsGrows
    <3>6. ~ SameHash(k, i)' /\ Toward(k, i)' = Toward(k, i)
      BY <3>2, <3>4 DEF SameHash, Toward
    <3>7. Load(<<Toward(k, i), i>>)' = z
      <4>1. s = <<Toward(k, i), i>>
        BY <2>2, <3>1, <3>2 DEF Slots
      <4> QED BY <1>6, <3>6, <4>1 DEF Load
    <3> SUFFICES ASSUME NEW D \in SUBSET (0 .. Len(nodes')), r \in D, Followed(k, D)'
                 PROVE  z \in D
      BY DEF Leads
    <3>8. i \in D /\ i # 0
      BY <3>4, <3>5 DEF Leads
    <3> QED BY <3>6, <3>7, <3>8 DEF Followed
  <2> QED BY <2>1, <2>2
<1>10. Holds(k, g, v)'
  <2>1. Leads(k, forms[g].root, z)'
    BY <1>8, <1>9 DEF Leads
  <2> QED BY <1>6, <1>7, <2>1 DEF Holds
<1>11. PutReturns(t, g) /\ g \in Nat /\ pc[t] \in Putting
  BY <1>0, <1>3 DEF Putting
<1> QED BY <1>0, <1>1, <1>2, <1>10, <1>11, ReturningVisible

(* So is the copy that is rebound, or the leaf added below the copies.     *)
LEMMA BuildVisible ==
  ASSUME Inv, HasZones, DistinctHashes, VisOK, NEW t \in Threads, Build(t)
  PROVE  VisOK'
<1> DEFINE n == Len(nodes)
           m == Len(path[t])
           F == Len(forms)
           at(i) == path[t][i].node
           last == IsKey(key[t], at(m))
<1>0. /\ HeapOK /\ ControlOK /\ HoldingsOK(n, F) /\ n \in Nat /\ F \in Nat
      /\ HeapOK' /\ Grows /\ key[t] \in Names /\ pc[t] = "build"
      /\ PutReturns(t, F + 1) /\ UNCHANGED <<key, value>>
  BY HeapLengths, BuildKeeps DEF Inv, Shape, ControlOK, Build
<1>1. /\ m \in Nat \ {0} /\ path[t] \in Seq(Stops(n))
      /\ Len(nodes') = IF last THEN n + m ELSE n + m + 1
      /\ \A i \in 1 .. m : nodes'[n + i] = Copied(t, i)
      /\ ~ last => nodes'[n + m + 1] = Leaf(t)
      /\ forms'[F + 1].root = n + 1
  BY BuildHeap
<1>2. PICK k \in Names, v \in Values : k = key[t] /\ v = value[t]
  BY <1>0 DEF ControlOK
<1>3. PICK zone : PathFits(zone, k, path[t])
  BY <1>0, <1>2 DEF HasZones, Zoned, ThreadZoned
<1>4. \A i \in 1 .. m : at(i) \in 1 .. n /\ nodes[at(i)].key \in Names
  <2>1. \A i \in 1 .. m : path[t][i] \in Stops(n)
    BY <1>1
  <2> QED BY <1>0, <2>1, HeapLengths DEF Stops, NodesOver
<1>5. PICK z : z = IF last THEN n + m ELSE n + m + 1
  OBVIOUS
<1>6. z \in 1 .. Len(nodes') /\ SameHash(k, z)' /\ nodes'[z].value = v
  <2>1. CASE last
    <3>1. z = n + m /\ m \in 1 .. m
      BY <1>1, <1>5, <2>1
    <3>2. nodes'[z] = Copied(t, m)
      BY <1>1, <3>1
    <3>3. Copied(t, m).key = nodes[at(m)].key /\ Copied(t, m).value = value[t]
      BY <2>1, <3>1, CopiedParts
    <3>4. nodes[at(m)].key = k
      BY <1>2, <2>1 DEF IsKey
    <3> QED BY <1>0, <1>1, <1>2, <2>1, <3>1, <3>2, <3>3, <3>4 DEF SameHash
  <2>2. CASE ~ last
    BY <1>0, <1>1, <1>2, <1>5, <2>2 DEF SameHash, Leaf
  <2> QED BY <2>1, <2>2
<1>7. ASSUME NEW i \in 1 .. m, i < m \/ ~ last, NEW y, y = n + i
      PROVE  ~ SameHash(k, y)' /\ Load(<<Toward(k, y), y>>)' = n + i + 1
  <2>1. ~ IsKey(k, at(i))
    <3>1. CASE i < m
      BY <1>3, <3>1 DEF PathFits
    <3>2. CASE ~ (i < m)
      <4>1. i = m
        BY <1>1, <3>2
      <4> QED BY <1>2, <1>7, <4>1
    <3> QED BY <3>1, <3>2
  <2>2. nodes'[y] = Copied(t, i) /\ nodes'[y].key = nodes[at(i)].key
    BY <1>1, <1>7, CopiedParts
  <2>3. ~ SameHash(k, y)'
    BY <1>4, <2>1, <2>2 DEF SameHash, IsKey, DistinctHashes
  <2>4. /\ Toward(k, at(i)) = "left" => Copied(t, i).left = n + i + 1
        /\ Toward(k, at(i)) = "right" => Copied(t, i).right = n + i + 1
    BY <1>2, <2>1, CopiedParts
  <2>5. Toward(k, y)' = Toward(k, at(i)) /\ Toward(k, at(i)) \in {"left", "right"}
    BY <2>2 DEF Toward
  <2> QED BY <2>2, <2>3, <2>4, <2>5 DEF Load
<1>8. PICK r : r = n + 1
  OBVIOUS
<1>9. Leads(k, r, z)'
  <2> SUFFICES ASSUME NEW D \in SUBSET (0 .. Len(nodes')), r \in D, Followed(k, D)'
               PROVE  z \in D
    BY DEF Leads
  <2> DEFINE C == {i \in 1 .. m : n + i \in D}
  <2>1. 1 \in C
    BY <1>1, <1>8
  <2>2. ASSUME NEW i \in 1 .. m, i \in C, i < m \/ ~ last PROVE n + i + 1 \in D
    <3>1. PICK y : y = n + i
      OBVIOUS
    <3>2. ~ SameHash(k, y)' /\ Load(<<Toward(k, y), y>>)' = n + i + 1
      BY <1>7, <2>2, <3>1
    <3>3. y \in D /\ y # 0
      BY <1>0, <2>2, <3>1
    <3> QED BY <3>2, <3>3 DEF Followed
  <2>3. \A i \in 1 .. m : i < m /\ i \in C => i + 1 \in C
    <3> SUFFICES ASSUME NEW i \in 1 .. m, i < m, i \in C PROVE i + 1 \in C
      OBVIOUS
    <3>1. i + 1 \in 1 .. m /\ n + (i + 1) = n + i + 1
      BY <1>0, <1>1
    <3> QED BY <2>2, <3>1
  <2>4. 1 .. m \subseteq C
    <3>1. m \in Nat
      BY <1>1
    <3> HIDE DEF C, m
    <3> QED BY ONLY <2>1, <2>3, <3>1, CountUp
  <2>5. m \in 1 .. m /\ n + m \in D
    <3>1. m \in 1 .. m
      BY <1>1
    <3>2. m \in C
      <4> HIDE DEF C, m
      <4> QED BY <2>4, <3>1
    <3> QED BY <3>1, <3>2
  <2>6. CASE last
    BY <1>5, <2>5, <2>6
  <2>7. CASE ~ last
    BY <1>5, <2>2, <2>5, <2>7
  <2> QED BY <2>6, <2>7
<1>10. PICK g \in Nat : g = F + 1
  BY <1>0
<1>11. Holds(k, g, v)'
  <2>1. forms'[g].root = r
    BY <1>1, <1>8, <1>10
  <2>2. Leads(k, forms[g].root, z)'
    BY <1>9, <2>1 DEF Leads
  <2> QED BY <1>6, <2>2 DEF Holds
<1>12. PutReturns(t, g) /\ pc[t] \in Putting /\ Len(nodes) <= Len(nodes')
  BY <1>0, <1>1, <1>10 DEF Putting
<1> QED BY <1>0, <1>2, <1>11, <1>12, ReturningVisible

LEMMA VisibleNext ==
  Inv /\ HasZones /\ DistinctHashes /\ VisOK /\ [Next]_vars => VisOK'
<1> SUFFICES ASSUME Inv, HasZones, DistinctHashes, VisOK, [Next]_vars PROVE VisOK'
  OBVIOUS
<1>1. ASSUME NEW t \in Threads,
             Compile(t) \/ PopWorkspace(t) \/ Bind(t) \/ Get(t) \/ GetStep(t) \/ Got(t)
      PROVE  VisOK'
  BY <1>1, IdleVisible
<1>2. ASSUME NEW t \in Threads, CasFails(t) \/ CopyLeft(t) \/ CopyRight(t) \/ Probe(t)
      PROVE  VisOK'
  BY <1>2, PuttingVisible
<1>3. ASSUME NEW t \in Threads, PushWorkspace(t) \/ CasSucceeds(t) \/ Build(t)
      PROVE  VisOK'
  BY <1>3, PushWorkspaceVisible, CasSucceedsVisible, BuildVisible
<1>4. CASE UNCHANGED vars
  <2>1. HeapOK' /\ Grows /\ Len(nodes) <= Len(nodes')
    BY <1>4, HeapLengths DEF Inv, Shape, HeapOK, vars, Grows
  <2>2. ASSUME NEW u \in Threads PROVE PutVisible(u)'
    <3>1. PutVisible(u)
      BY DEF VisOK
    <3> QED BY <1>4, <2>1, <3>1, VisibleStays DEF vars
  <2> QED BY <2>2 DEF VisOK
<1> QED BY <1>1, <1>2, <1>3, <1>4 DEF Next, Step

(* Where no two names share a hash, a thread that has bound a name reads   *)
(* the value it bound, in its workspace and in its function, while other   *)
(* threads bind names in the same tables.                                  *)
THEOREM BoundIsVisible ==
  ASSUME DistinctHashes
  PROVE  Spec => []BindVisible
<1> DEFINE I == Inv /\ HasZones /\ DistinctHashes /\ VisOK
<1>1. Init => I
  <2>1. Init => VisOK
    BY DEF Init, VisOK, PutVisible, Putting
  <2> QED BY <2>1, InvInit, ZonesInit
<1>2. I /\ [Next]_vars => I'
  <2>1. DistinctHashes => DistinctHashes'
    BY DEF DistinctHashes
  <2> QED BY <2>1, NextKeeps, ZonesNext, VisibleNext
<1>3. I => BindVisible
  <2> SUFFICES ASSUME I, NEW t \in Threads, pc[t] = "bound"
               PROVE  Lookup(key[t], ws[t]) = value[t] /\ Lookup(key[t], fun[t]) = value[t]
    BY DEF BindVisible
  <2>1. /\ HeapOK /\ ws[t] \in 1 .. Len(forms) /\ fun[t] \in 1 .. Len(forms) /\ value[t] # NoValue
        /\ Holds(key[t], fun[t], value[t]) /\ Holds(key[t], ws[t], value[t])
    BY DEF Inv, Shape, HoldingsOK, VisOK, PutVisible
  <2> QED BY <2>1, HoldsFound
<1> QED BY <1>1, <1>2, <1>3, PTL DEF Spec

-----------------------------------------------------------------------------
(* The forms that are searched from form g on.                             *)
ScopeOf(g, h) ==
  \A C \in SUBSET (0 .. Len(forms)) :
    g \in C /\ (\A i \in C : i # 0 => forms[i].next \in C) => h \in C

(* What was bound when a reader started is ahead of it.                    *)
Ahead(t) ==
  \E h \in 1 .. Len(forms), n \in 1 .. Len(nodes) :
    /\ ScopeOf(form[t], h)
    /\ Leads(key[t], forms[h].root, n) /\ SameHash(key[t], n)
    /\ nodes[n].value = seen[t].before
    /\ h = form[t] => Leads(key[t], cur[t], n)
(* A reader is on the path of its search, with what was bound ahead of it; *)
(* it ends with that or with what its last form has.                       *)
GetOK(t) ==
  /\ pc[t] = "get" =>
       /\ cur[t] # 0 => Leads(key[t], forms[form[t]].root, cur[t])
       /\ seen[t].before # NoValue => Ahead(t)
  /\ pc[t] = "got" =>
       \/ seen[t].got = seen[t].before
       \/ seen[t].got # NoValue /\ form[t] # 0 /\ Holds(key[t], form[t], seen[t].got)
(* Forms are chained to older ones, so a search through them ends.         *)
FormsFirst == \A f \in 1 .. Len(forms) : forms[f].next < f
SeenOK == seen \in [Threads -> [before : Values, got : Values]]
ReadsOK == FormsFirst /\ SeenOK /\ \A t \in Threads : GetOK(t)

(* The forms that are searched from a form on.                             *)
LEMMA ScopeBack ==
  ASSUME HeapOK, NEW g \in 1 .. Len(forms), NEW h, ScopeOf(forms[g].next, h)
  PROVE  ScopeOf(g, h)
<1> SUFFICES ASSUME NEW C \in SUBSET (0 .. Len(forms)), g \in C,
                    \A i \in C : i # 0 => forms[i].next \in C
             PROVE  h \in C
  BY DEF ScopeOf
<1>1. forms[g].next \in C
  BY HeapLengths
<1> QED BY <1>1 DEF ScopeOf

LEMMA ScopeOn ==
  ASSUME HeapOK, NEW g \in 1 .. Len(forms), NEW h \in 1 .. Len(forms), ScopeOf(g, h), h # g
  PROVE  ScopeOf(forms[g].next, h)
<1> DEFINE Closed(C) == \A i \in C : i # 0 => forms[i].next \in C
<1> SUFFICES ASSUME NEW C \in SUBSET (0 .. Len(forms)), forms[g].next \in C, Closed(C)
             PROVE  h \in C
  BY DEF ScopeOf
<1>1. C \cup {g} \in SUBSET (0 .. Len(forms)) /\ g \in C \cup {g} /\ Closed(C \cup {g})
  OBVIOUS
<1>2. h \in C \cup {g}
  BY <1>1 DEF ScopeOf
<1> QED BY <1>2

LEMMA ScopeNowhere ==
  ASSUME HeapOK, NEW h \in 1 .. Len(forms)
  PROVE  ~ ScopeOf(0, h)
<1>1. {0} \in SUBSET (0 .. Len(forms)) /\ h \notin {0}
  BY HeapLengths
<1> QED BY <1>1 DEF ScopeOf

LEMMA ScopeGrows ==
  ASSUME HeapOK, HeapOK', Grows, NEW g \in 1 .. Len(forms), NEW h \in 1 .. Len(forms), ScopeOf(g, h)
  PROVE  ScopeOf(g, h)'
<1> SUFFICES ASSUME NEW D \in SUBSET (0 .. Len(forms')), g \in D,
                    \A i \in D : i # 0 => forms'[i].next \in D
             PROVE  h \in D
  BY DEF ScopeOf
<1> DEFINE C == D \cap (0 .. Len(forms))
<1>1. C \in SUBSET (0 .. Len(forms)) /\ g \in C
  BY HeapLengths
<1>2. ASSUME NEW i \in C, i # 0 PROVE forms[i].next \in C
  <2>1. i \in 1 .. Len(forms) /\ i \in D
    BY <1>2, HeapLengths
  <2>2. forms[i].next \in 0 .. Len(forms) /\ forms'[i].next = forms[i].next
    BY <2>1, HeapLengths DEF FormsOver, Grows, Forms
  <2> QED BY <1>2, <2>1, <2>2
<1> HIDE DEF C
<1>3. h \in C
  BY <1>1, <1>2 DEF ScopeOf
<1> QED BY <1>3 DEF C

(* What a search finds is at a node that it leads to, in a form that it    *)
(* comes to.                                                               *)
LEMMA FoundHeld ==
  ASSUME HeapOK, NEW zone, TablesZoned(zone), NEW k
  PROVE  \A r \in 0 .. Len(nodes) : Find(k, r) # NoValue =>
           \E n \in 1 .. Len(nodes) : Leads(k, r, n) /\ SameHash(k, n) /\ nodes[n].value = Find(k, r)
<1> DEFINE Good(r) == \E n \in 1 .. Len(nodes) :
                        Leads(k, r, n) /\ SameHash(k, n) /\ nodes[n].value = Find(k, r)
           S == {i \in 1 .. Len(nodes) : Find(k, i) # NoValue /\ ~ Good(i)}
<1>1. Find(k, 0) = NoValue
  <2>1. PICK z \in 0 .. Len(nodes) : z = 0
    BY HeapLengths
  <2>2. Find(k, z) = NoValue
    BY <2>1, FindIs
  <2> QED BY <2>1, <2>2
<1>2. ASSUME S # {} PROVE FALSE
  <2>1. PICK i \in S : \A d \in {"left", "right"} : Load(<<d, i>>) \notin S
    <3>1. S \subseteq 1 .. Len(nodes)
      OBVIOUS
    <3> HIDE DEF S
    <3> QED BY <1>2, <3>1, Downward
  <2>2. i \in 1 .. Len(nodes) /\ Find(k, i) # NoValue /\ ~ Good(i)
    OBVIOUS
  <2>3. i \in 0 .. Len(nodes) /\ i # 0
    BY <2>2, HeapLengths
  <2>4. CASE SameHash(k, i)
    <3>1. Find(k, i) = nodes[i].value
      BY <2>3, <2>4, FindIs
    <3>2. Leads(k, i, i)
      BY DEF Leads
    <3> QED BY <2>2, <2>4, <3>1, <3>2
  <2>5. CASE ~ SameHash(k, i)
    <3>1. PICK c : c = Load(<<Toward(k, i), i>>)
      OBVIOUS
    <3>2. Find(k, c) = Find(k, i)
      BY <2>3, <2>5, <3>1, FindIs
    <3>3. c \in 1 .. Len(nodes)
      <4>1. c \in 0 .. Len(nodes)
        BY <2>2, <3>1, Loads, TowardChild
      <4>2. c # 0
        BY <1>1, <2>2, <3>2
      <4> QED BY <4>1, <4>2, HeapLengths
    <3>4. c \notin S
      BY <2>1, <3>1 DEF Toward
    <3>5. Good(c)
      BY <2>2, <3>2, <3>3, <3>4
    <3>6. PICK n \in 1 .. Len(nodes) : Leads(k, c, n) /\ SameHash(k, n) /\ nodes[n].value = Find(k, c)
      BY <3>5
    <3>7. Leads(k, i, n)
      <4> SUFFICES ASSUME NEW C \in SUBSET (0 .. Len(nodes)), i \in C, Followed(k, C)
                   PROVE  n \in C
        BY DEF Leads
      <4>1. c \in C
        BY <2>3, <2>5, <3>1 DEF Followed
      <4> QED BY <3>6, <4>1 DEF Leads
    <3> QED BY <2>2, <3>2, <3>6, <3>7
  <2> QED BY <2>4, <2>5
<1>3. ASSUME NEW r \in 0 .. Len(nodes), Find(k, r) # NoValue PROVE Good(r)
  <2>1. r \in 1 .. Len(nodes)
    BY <1>1, <1>3, HeapLengths
  <2> QED BY <1>2, <1>3, <2>1
<1> QED BY <1>3

LEMMA LookedUp ==
  ASSUME HeapOK, FormsFirst, NEW k
  PROVE  \A f \in 1 .. Len(forms) : Lookup(k, f) # NoValue =>
           \E h \in 1 .. Len(forms) : ScopeOf(f, h) /\ Find(k, forms[h].root) = Lookup(k, f)
<1> DEFINE Good(f) == \E h \in 1 .. Len(forms) : ScopeOf(f, h) /\ Find(k, forms[h].root) = Lookup(k, f)
           S == {f \in 1 .. Len(forms) : Lookup(k, f) # NoValue /\ ~ Good(f)}
<1> SUFFICES ASSUME S # {} PROVE FALSE
  OBVIOUS
<1>0. Lookup(k, 0) = NoValue
  BY LookupIs, HeapLengths
<1>1. PICK f \in S : \A j \in S : f <= j
  <2>1. S \subseteq 0 .. Len(forms) /\ Len(forms) \in Nat
    BY HeapLengths
  <2> HIDE DEF S
  <2> QED BY <2>1, LeastExists
<1>2. f \in 1 .. Len(forms) /\ Lookup(k, f) # NoValue /\ ~ Good(f) /\ f \in 0 .. Len(forms) /\ f # 0
  BY HeapLengths
<1>3. CASE Find(k, forms[f].root) # NoValue
  <2>1. Lookup(k, f) = Find(k, forms[f].root)
    BY <1>2, <1>3, LookupIs
  <2>2. ScopeOf(f, f)
    BY DEF ScopeOf
  <2> QED BY <1>2, <2>1, <2>2
<1>4. CASE Find(k, forms[f].root) = NoValue
  <2>1. PICK g : g = forms[f].next
    OBVIOUS
  <2>2. Lookup(k, f) = Lookup(k, g)
    BY <1>2, <1>4, <2>1, LookupIs
  <2>3. g \in 1 .. Len(forms) /\ g < f
    <3>1. g \in 0 .. Len(forms) /\ g < f
      BY <1>2, <2>1, HeapLengths DEF FormsOver, FormsFirst
    <3>2. g # 0
      BY <1>0, <1>2, <2>2
    <3> QED BY <3>1, <3>2, HeapLengths
  <2>4. g \notin S
    <3> HIDE DEF S
    <3> QED BY <1>1, <1>2, <2>3, HeapLengths
  <2>5. PICK h \in 1 .. Len(forms) : ScopeOf(g, h) /\ Find(k, forms[h].root) = Lookup(k, g)
    BY <1>2, <2>2, <2>3, <2>4
  <2>6. ScopeOf(f, h)
    BY <1>2, <2>1, <2>5, ScopeBack
  <2> QED BY <1>2, <2>2, <2>5, <2>6
<1> QED BY <1>3, <1>4

-----------------------------------------------------------------------------
(* What is ahead of a reader stays ahead of it while the tables grow.      *)
LEMMA GetStays ==
  ASSUME Inv, HeapOK', Grows, Len(nodes) <= Len(nodes'), Len(forms) <= Len(forms'),
         NEW u \in Threads, GetOK(u),
         pc'[u] = pc[u], pc[u] \in {"get", "got"} => key'[u] = key[u],
         form'[u] = form[u], cur'[u] = cur[u], seen'[u] = seen[u]
  PROVE  GetOK(u)'
<1>0. /\ HeapOK /\ form[u] \in 0 .. Len(forms) /\ cur[u] \in 0 .. Len(nodes)
      /\ Len(nodes) \in Nat /\ Len(forms) \in Nat
      /\ pc[u] = "get" => form[u] # 0
  BY HeapLengths DEF Inv, Shape, HoldingsOK, PutsOK, PutOK
<1>1. PICK k : k = key[u]
  OBVIOUS
<1>2. ASSUME NEW f \in 1 .. Len(forms), NEW n \in 1 .. Len(nodes), Leads(k, forms[f].root, n)
      PROVE  Leads(k, forms[f].root, n)'
  <2>1. PICK r \in 0 .. Len(nodes) : r = forms[f].root
    BY <1>0, HeapLengths DEF FormsOver
  <2>2. Leads(k, r, n)
    BY <1>2, <2>1
  <2>3. r # 0
    BY <1>0, <2>2, LeadsNowhere
  <2>4. Leads(k, r, n)' /\ forms'[f].root = r
    BY <1>0, <2>1, <2>2, <2>3, LeadsGrows DEF Grows, Forms
  <2> QED BY <2>4 DEF Leads
<1>3. CASE pc[u] = "get"
  <2>1. PICK g \in 1 .. Len(forms), c \in 0 .. Len(nodes) : g = form[u] /\ c = cur[u]
    BY <1>0, <1>3
  <2>2. key'[u] = k /\ form'[u] = g /\ cur'[u] = c
    BY <1>1, <1>3, <2>1
  <2>3. c # 0 => Leads(k, forms[g].root, c)'
    <3> SUFFICES ASSUME c # 0 PROVE Leads(k, forms[g].root, c)'
      OBVIOUS
    <3>1. c \in 1 .. Len(nodes)
      BY <1>0
    <3>2. Leads(k, forms[g].root, c)
      BY <1>1, <1>3, <2>1 DEF GetOK
    <3> QED BY <1>2, <3>1, <3>2
  <2>4. c # 0 => Leads(key[u], forms[form[u]].root, cur[u])'
    BY <2>2, <2>3 DEF Leads, Followed, SameHash, Toward, Load
  <2>5. ASSUME seen[u].before # NoValue PROVE Ahead(u)'
    <3>1. PICK h \in 1 .. Len(forms), n \in 1 .. Len(nodes) :
            /\ ScopeOf(g, h)
            /\ Leads(k, forms[h].root, n) /\ SameHash(k, n)
            /\ nodes[n].value = seen[u].before
            /\ h = g => Leads(k, c, n)
      BY <1>1, <1>3, <2>1, <2>5 DEF GetOK, Ahead
    <3>2. ScopeOf(g, h)' /\ Leads(k, forms[h].root, n)'
      BY <1>0, <1>2, <3>1, ScopeGrows
    <3>3. h = g => Leads(k, c, n)'
      BY <1>0, <3>1, LeadsGrows
    <3>4. SameHash(k, n)' /\ nodes'[n].value = seen[u].before
      BY <3>1 DEF Grows, Nodes, SameHash
    <3>5. h \in 1 .. Len(forms') /\ n \in 1 .. Len(nodes')
      BY <1>0, HeapLengths DEF HeapOK
    <3>6. ScopeOf(form[u], h)'
      BY <2>2, <3>2 DEF ScopeOf
    <3>7. /\ Leads(key[u], forms[h].root, n)' /\ SameHash(key[u], n)'
          /\ h = form'[u] => Leads(key[u], cur[u], n)'
      BY <2>2, <3>2, <3>3, <3>4 DEF Leads, Followed, SameHash, Toward, Load
    <3>8. nodes'[n].value = seen'[u].before
      BY <3>4
    <3> QED BY <3>5, <3>6, <3>7, <3>8 DEF Ahead
  <2> QED BY <1>3, <2>2, <2>4, <2>5 DEF GetOK
<1>4. CASE pc[u] = "got"
  <2>1. CASE seen[u].got = seen[u].before
    BY <1>4, <2>1 DEF GetOK
  <2>2. CASE seen[u].got # NoValue /\ form[u] # 0 /\ Holds(key[u], form[u], seen[u].got)
    <3>1. PICK g \in 1 .. Len(forms) : g = form[u]
      BY <1>0, <2>2
    <3>2. PICK v : v = seen[u].got
      OBVIOUS
    <3>3. Holds(k, g, v)'
      BY <1>0, <1>1, <2>2, <3>1, <3>2, HoldsGrows
    <3>4. key'[u] = k /\ form'[u] = g /\ seen'[u].got = v
      BY <1>1, <1>4, <3>1, <3>2
    <3>5. Holds(key[u], form[u], seen[u].got)'
      BY <3>3, <3>4 DEF Holds, Leads, Followed, SameHash, Toward, Load
    <3> QED BY <1>4, <2>2, <3>5 DEF GetOK
  <2> QED BY <1>4, <2>1, <2>2 DEF GetOK
<1> QED BY <1>3, <1>4 DEF GetOK

(* A step of a thread that does not read.                                  *)
LEMMA ReadsStay ==
  ASSUME Inv, HeapOK', Grows, Len(nodes) <= Len(nodes'), Len(forms) <= Len(forms'),
         ReadsOK, FormsFirst', SeenOK', NEW t \in Threads, GetOK(t)',
         \A u \in Threads \ {t} :
           /\ pc'[u] = pc[u] /\ key'[u] = key[u]
           /\ form'[u] = form[u] /\ cur'[u] = cur[u] /\ seen'[u] = seen[u]
  PROVE  ReadsOK'
<1>1. ASSUME NEW u \in Threads \ {t} PROVE GetOK(u)'
  BY GetStays DEF ReadsOK
<1> QED BY <1>1 DEF ReadsOK

(* A reader begins: what is bound is ahead of it.                          *)
LEMMA GetReads ==
  ASSUME Inv, HasZones, ReadsOK, NEW t \in Threads, Get(t)
  PROVE  ReadsOK'
<1>0. /\ HeapOK /\ ControlOK /\ HoldingsOK(Len(nodes), Len(forms)) /\ FormsFirst /\ SeenOK
      /\ Len(nodes) \in Nat /\ Len(forms) \in Nat
  BY HeapLengths DEF Inv, Shape, ReadsOK
<1>1. PICK f \in saved \cup {fun[t]}, k \in Names :
        /\ key' = [key EXCEPT ![t] = k]
        /\ form' = [form EXCEPT ![t] = f]
        /\ seen' = [seen EXCEPT ![t].before = Lookup(k, f)]
        /\ cur' = [cur EXCEPT ![t] = forms[f].root]
  BY DEF Get
<1>2. /\ UNCHANGED <<nodes, forms>> /\ f \in 1 .. Len(forms)
      /\ pc' = [pc EXCEPT ![t] = "get"]
  BY <1>0 DEF Get, Goto, heap, HoldingsOK
<1>3. HeapOK' /\ Grows /\ Len(nodes) <= Len(nodes') /\ Len(forms) <= Len(forms') /\ FormsFirst'
  BY <1>0, <1>2 DEF HeapOK, Grows, FormsFirst
<1>4. PICK v : v = Lookup(k, f)
  OBVIOUS
<1>5. v # NoValue =>
        \E h \in 1 .. Len(forms), n \in 1 .. Len(nodes) :
          ScopeOf(f, h) /\ Leads(k, forms[h].root, n) /\ SameHash(k, n) /\ nodes[n].value = v
  <2> SUFFICES ASSUME v # NoValue
               PROVE \E h \in 1 .. Len(forms), n \in 1 .. Len(nodes) :
                 ScopeOf(f, h) /\ Leads(k, forms[h].root, n) /\ SameHash(k, n) /\ nodes[n].value = v
    OBVIOUS
  <2>1. PICK h \in 1 .. Len(forms) : ScopeOf(f, h) /\ Find(k, forms[h].root) = v
    BY <1>0, <1>2, <1>4, LookedUp
  <2>2. PICK zone : TablesZoned(zone)
    BY DEF HasZones, Zoned
  <2>3. PICK r \in 0 .. Len(nodes) : r = forms[h].root
    BY <1>0, HeapLengths DEF FormsOver
  <2>4. PICK n \in 1 .. Len(nodes) : Leads(k, r, n) /\ SameHash(k, n) /\ nodes[n].value = Find(k, r)
    BY <1>0, <2>1, <2>2, <2>3, FoundHeld
  <2> QED BY <2>1, <2>3, <2>4
<1>6. v \in Values
  <2>1. CASE v = NoValue
    BY <2>1, WorkspaceAssumption DEF NoValue, Values
  <2>2. CASE v # NoValue
    <3>1. PICK n \in 1 .. Len(nodes) : nodes[n].value = v
      BY <1>5, <2>2
    <3> QED BY <1>0, <3>1, HeapLengths DEF NodesOver
  <2> QED BY <2>1, <2>2
<1>7. /\ key'[t] = k /\ form'[t] = f /\ cur'[t] = forms[f].root /\ seen'[t].before = v
      /\ pc'[t] = "get" /\ SeenOK'
      /\ \A u \in Threads \ {t} :
           /\ pc'[u] = pc[u] /\ key'[u] = key[u]
           /\ form'[u] = form[u] /\ cur'[u] = cur[u] /\ seen'[u] = seen[u]
  <2>1. /\ key'[t] = k /\ form'[t] = f /\ cur'[t] = forms[f].root /\ pc'[t] = "get"
        /\ \A u \in Threads \ {t} :
             pc'[u] = pc[u] /\ key'[u] = key[u] /\ form'[u] = form[u] /\ cur'[u] = cur[u]
    BY <1>0, <1>1, <1>2 DEF ControlOK, HoldingsOK
  <2>2. /\ seen'[t].before = v /\ SeenOK' /\ \A u \in Threads \ {t} : seen'[u] = seen[u]
    BY <1>0, <1>1, <1>4, <1>6 DEF SeenOK
  <2> QED BY <2>1, <2>2
<1>8. Leads(key[t], forms[form[t]].root, cur[t])'
  BY <1>2, <1>7 DEF Leads
<1>9. ASSUME v # NoValue PROVE Ahead(t)'
  <2>1. PICK h \in 1 .. Len(forms), n \in 1 .. Len(nodes) :
          ScopeOf(f, h) /\ Leads(k, forms[h].root, n) /\ SameHash(k, n) /\ nodes[n].value = v
    BY <1>5, <1>9
  <2>2. ScopeOf(form[t], h)'
    BY <1>2, <1>7, <2>1 DEF ScopeOf
  <2>3. Leads(key[t], forms[h].root, n)' /\ SameHash(key[t], n)'
    BY <1>2, <1>7, <2>1 DEF Leads, Followed, SameHash, Toward, Load
  <2>4. h = form'[t] => Leads(key[t], cur[t], n)'
    BY <1>2, <1>7, <2>1 DEF Leads, Followed, SameHash, Toward, Load
  <2>5. nodes'[n].value = seen'[t].before /\ h \in 1 .. Len(forms') /\ n \in 1 .. Len(nodes')
    BY <1>2, <1>7, <2>1
  <2> QED BY <2>2, <2>3, <2>4, <2>5 DEF Ahead
<1>10. GetOK(t)'
  BY <1>7, <1>8, <1>9 DEF GetOK
<1> QED BY <1>3, <1>7, <1>10, ReadsStay

(* A reader goes on: what is bound is still ahead of it, or it is there.   *)
LEMMA GetStepReads ==
  ASSUME Inv, ReadsOK, NEW t \in Threads, GetStep(t)
  PROVE  ReadsOK'
<1> DEFINE next == forms[form[t]].next
<1>0. /\ HeapOK /\ ControlOK /\ HoldingsOK(Len(nodes), Len(forms)) /\ FormsFirst /\ SeenOK
      /\ GetOK(t) /\ pc[t] = "get" /\ form[t] \in 1 .. Len(forms) /\ cur[t] \in 0 .. Len(nodes)
      /\ Len(nodes) \in Nat /\ Len(forms) \in Nat
  BY HeapLengths DEF Inv, Shape, ReadsOK, PutsOK, PutOK, HoldingsOK, GetStep
<1>1. UNCHANGED <<nodes, forms, key>>
  BY DEF GetStep, heap
<1>2. HeapOK' /\ Grows /\ Len(nodes) <= Len(nodes') /\ Len(forms) <= Len(forms') /\ FormsFirst'
  BY <1>0, <1>1 DEF HeapOK, Grows, FormsFirst
<1>3. PICK k, b : k = key[t] /\ b = seen[t].before
  OBVIOUS
<1>4. PICK g \in 1 .. Len(forms), c \in 0 .. Len(nodes) :
        g = form[t] /\ c = cur[t] /\ k = key[t] /\ b = seen[t].before
  BY <1>0, <1>3
<1>5. c # 0 => Leads(k, forms[g].root, c)
  BY <1>0, <1>4 DEF GetOK
<1>6. b # NoValue =>
        \E h \in 1 .. Len(forms), n \in 1 .. Len(nodes) :
          /\ ScopeOf(g, h) /\ Leads(k, forms[h].root, n) /\ SameHash(k, n) /\ nodes[n].value = b
          /\ h = g => Leads(k, c, n)
  BY <1>0, <1>4 DEF GetOK, Ahead
<1>7. ASSUME NEW v \in Values, GetReturns(t, v), UNCHANGED <<cur, form>>,
             v # b => v # NoValue /\ Holds(k, g, v)
      PROVE  ReadsOK'
  <2>1. /\ pc'[t] = "got" /\ seen'[t].got = v /\ seen'[t].before = b /\ SeenOK'
        /\ \A u \in Threads \ {t} : pc'[u] = pc[u] /\ seen'[u] = seen[u]
    <3>1. pc'[t] = "got" /\ \A u \in Threads \ {t} : pc'[u] = pc[u]
      BY <1>0, <1>7 DEF GetReturns, Goto, ControlOK
    <3>2. /\ seen'[t].got = v /\ seen'[t].before = b /\ SeenOK'
          /\ \A u \in Threads \ {t} : seen'[u] = seen[u]
      BY <1>0, <1>4, <1>7 DEF GetReturns, SeenOK
    <3> QED BY <3>1, <3>2
  <2>2. Holds(k, g, v) => Holds(key[t], form[t], seen[t].got)'
    BY <1>1, <1>4, <1>7, <2>1 DEF Holds, Leads, Followed, SameHash, Toward, Load
  <2>3. form'[t] # 0
    BY <1>0, <1>7
  <2>4. GetOK(t)'
    BY <1>7, <2>1, <2>2, <2>3 DEF GetOK
  <2> QED BY <1>1, <1>2, <1>7, <2>1, <2>4, ReadsStay
<1>8. ASSUME NEW g2 \in 1 .. Len(forms), NEW c2 \in 0 .. Len(nodes), pc' = pc, seen' = seen,
             form'[t] = g2, cur'[t] = c2,
             \A u \in Threads \ {t} : form'[u] = form[u] /\ cur'[u] = cur[u],
             c2 # 0 => Leads(k, forms[g2].root, c2),
             b # NoValue =>
               \E h \in 1 .. Len(forms), n \in 1 .. Len(nodes) :
                 /\ ScopeOf(g2, h) /\ Leads(k, forms[h].root, n) /\ SameHash(k, n)
                 /\ nodes[n].value = b
                 /\ h = g2 => Leads(k, c2, n)
      PROVE  ReadsOK'
  <2>1. cur'[t] # 0 => Leads(key[t], forms[form[t]].root, cur[t])'
    BY <1>1, <1>4, <1>8 DEF Leads, Followed, SameHash, Toward, Load
  <2>2. ASSUME seen'[t].before # NoValue PROVE Ahead(t)'
    <3>1. PICK h \in 1 .. Len(forms), n \in 1 .. Len(nodes) :
            /\ ScopeOf(g2, h) /\ Leads(k, forms[h].root, n) /\ SameHash(k, n)
            /\ nodes[n].value = b
            /\ h = g2 => Leads(k, c2, n)
      BY <1>4, <1>8, <2>2
    <3>2. ScopeOf(form[t], h)'
      BY <1>1, <1>8, <3>1 DEF ScopeOf
    <3>3. Leads(key[t], forms[h].root, n)' /\ SameHash(key[t], n)'
      BY <1>1, <1>4, <3>1 DEF Leads, Followed, SameHash, Toward, Load
    <3>4. h = form'[t] => Leads(key[t], cur[t], n)'
      BY <1>1, <1>4, <1>8, <3>1 DEF Leads, Followed, SameHash, Toward, Load
    <3>5. nodes'[n].value = seen'[t].before /\ h \in 1 .. Len(forms') /\ n \in 1 .. Len(nodes')
      BY <1>1, <1>4, <1>8, <3>1
    <3> QED BY <3>2, <3>3, <3>4, <3>5 DEF Ahead
  <2>3. GetOK(t)' /\ SeenOK'
    BY <1>0, <1>8, <2>1, <2>2 DEF GetOK, SeenOK
  <2> QED BY <1>1, <1>2, <1>8, <2>3, ReadsStay
<1>9. c = 0 => \A n \in 1 .. Len(nodes) : ~ Leads(k, c, n)
  BY <1>0, LeadsNowhere
<1>10. CASE c = 0 /\ next = 0 /\ GetReturns(t, NoValue) /\ UNCHANGED <<cur, form>>
  <2>1. b = NoValue
    <3> SUFFICES ASSUME b # NoValue PROVE FALSE
      OBVIOUS
    <3>1. PICK h \in 1 .. Len(forms) : ScopeOf(g, h) /\ h # g
      BY <1>6, <1>9, <1>10
    <3>2. ScopeOf(forms[g].next, h)
      BY <1>0, <3>1, ScopeOn
    <3>3. forms[g].next = 0
      BY <1>4, <1>10
    <3> QED BY <1>0, <3>2, <3>3, ScopeNowhere
  <2>2. PICK v \in Values : v = NoValue
    BY WorkspaceAssumption DEF NoValue, Values
  <2>3. GetReturns(t, v)
    BY <1>10, <2>2 DEF GetReturns
  <2>4. v = b
    BY <2>1, <2>2
  <2> QED BY <1>7, <1>10, <2>3, <2>4
<1>11. CASE /\ c = 0 /\ next # 0 /\ form' = [form EXCEPT ![t] = next]
            /\ cur' = [cur EXCEPT ![t] = forms[next].root] /\ UNCHANGED <<pc, seen>>
  <2>1. PICK g2 \in 1 .. Len(forms) : g2 = next
    BY <1>0, <1>11, HeapLengths DEF FormsOver
  <2>2. PICK c2 \in 0 .. Len(nodes) : c2 = forms[g2].root
    BY <1>0, HeapLengths DEF FormsOver
  <2>3. /\ form'[t] = g2 /\ cur'[t] = c2
        /\ \A u \in Threads \ {t} : form'[u] = form[u] /\ cur'[u] = cur[u]
    BY <1>0, <1>11, <2>1, <2>2 DEF HoldingsOK
  <2>4. Leads(k, forms[g2].root, c2)
    BY <2>2 DEF Leads
  <2>5. ASSUME b # NoValue
        PROVE  \E h \in 1 .. Len(forms), n \in 1 .. Len(nodes) :
                 /\ ScopeOf(g2, h) /\ Leads(k, forms[h].root, n) /\ SameHash(k, n)
                 /\ nodes[n].value = b
                 /\ h = g2 => Leads(k, c2, n)
    <3>1. PICK h \in 1 .. Len(forms), n \in 1 .. Len(nodes) :
            /\ ScopeOf(g, h) /\ Leads(k, forms[h].root, n) /\ SameHash(k, n) /\ nodes[n].value = b
            /\ h # g
      BY <1>6, <1>9, <1>11, <2>5
    <3>2. ScopeOf(g2, h)
      <4>1. ScopeOf(forms[g].next, h)
        BY <1>0, <3>1, ScopeOn
      <4> QED BY <1>4, <2>1, <4>1
    <3>3. h = g2 => Leads(k, c2, n)
      BY <2>2, <3>1
    <3> QED BY <3>1, <3>2, <3>3
  <2> QED BY <1>8, <1>11, <2>3, <2>4, <2>5
<1>12. CASE c # 0 /\ SameHash(k, c) /\ GetReturns(t, nodes[c].value) /\ UNCHANGED <<cur, form>>
  <2>1. c \in 1 .. Len(nodes)
    BY <1>0, <1>12
  <2>2. PICK v : v = nodes[c].value
    OBVIOUS
  <2>3. v \in Values /\ v # NoValue
    BY <1>0, <2>1, <2>2, HeapLengths DEF NodesOver
  <2>4. Holds(k, g, v)
    BY <1>5, <1>12, <2>1, <2>2 DEF Holds
  <2> QED BY <1>7, <1>12, <2>2, <2>3, <2>4
<1>13. CASE /\ c # 0 /\ ~ SameHash(k, c)
            /\ cur' = [cur EXCEPT ![t] = Load(<<Toward(k, c), c>>)]
            /\ UNCHANGED <<pc, seen, form>>
  <2>1. PICK i \in 1 .. Len(nodes) : i = c
    BY <1>0, <1>13
  <2>2. PICK c2 \in 0 .. Len(nodes) : c2 = Load(<<Toward(k, i), i>>)
    BY <1>0, Loads, TowardChild
  <2>3. /\ form'[t] = g /\ cur'[t] = c2
        /\ \A u \in Threads \ {t} : form'[u] = form[u] /\ cur'[u] = cur[u]
    BY <1>0, <1>4, <1>13, <2>1, <2>2 DEF HoldingsOK
  <2>4. Leads(k, forms[g].root, c2)
    <3>1. PICK r : r = forms[g].root
      OBVIOUS
    <3>2. Leads(k, r, i) /\ ~ SameHash(k, i)
      BY <1>5, <1>13, <2>1, <3>1
    <3>3. Leads(k, r, Load(<<Toward(k, i), i>>))
      BY <1>0, <3>2, LeadsOn
    <3> QED BY <2>2, <3>1, <3>3
  <2>5. ASSUME b # NoValue
        PROVE  \E h \in 1 .. Len(forms), n \in 1 .. Len(nodes) :
                 /\ ScopeOf(g, h) /\ Leads(k, forms[h].root, n) /\ SameHash(k, n)
                 /\ nodes[n].value = b
                 /\ h = g => Leads(k, c2, n)
    <3>1. PICK h \in 1 .. Len(forms), n \in 1 .. Len(nodes) :
            /\ ScopeOf(g, h) /\ Leads(k, forms[h].root, n) /\ SameHash(k, n) /\ nodes[n].value = b
            /\ h = g => Leads(k, i, n)
      BY <1>6, <2>1, <2>5
    <3>2. h = g => Leads(k, c2, n)
      <4> SUFFICES ASSUME h = g PROVE Leads(k, c2, n)
        OBVIOUS
      <4>1. Leads(k, Load(<<Toward(k, i), i>>), n)
        BY <1>0, <1>13, <2>1, <3>1, LeadsFrom
      <4> QED BY <2>2, <4>1
    <3> QED BY <3>1, <3>2
  <2> QED BY <1>8, <1>13, <2>3, <2>4, <2>5
<1> QED BY <1>4, <1>10, <1>11, <1>12, <1>13 DEF GetStep

(* A thread that does not read.                                            *)
LEMMA OtherReads ==
  ASSUME Inv, Inv', Grows, ReadsOK, NEW t \in Threads,
         \/ Compile(t) \/ PopWorkspace(t) \/ Bind(t) \/ Got(t) \/ PushWorkspace(t)
         \/ Probe(t) \/ CasSucceeds(t) \/ CasFails(t) \/ CopyLeft(t) \/ CopyRight(t) \/ Build(t)
  PROVE  ReadsOK'
<1>0. /\ HeapOK /\ ControlOK /\ HoldingsOK(Len(nodes), Len(forms)) /\ FormsFirst /\ SeenOK /\ HeapOK'
      /\ Len(nodes) \in Nat /\ Len(forms) \in Nat /\ Target(t) \in 1 .. Len(forms)
  BY HeapLengths DEF Inv, Shape, ReadsOK, HoldingsOK, Target
<1>1. Len(nodes) <= Len(nodes') /\ Len(forms) <= Len(forms') /\ FormsFirst'
  <2>1. CASE UNCHANGED heap
    BY <1>0, <2>1 DEF heap, FormsFirst
  <2>2. CASE CasSucceeds(t)
    <3>1. Len(nodes') = Len(nodes) + 1 /\ Len(forms') = Len(forms)
      BY <2>2, CasLoads
    <3> QED BY <1>0, <3>1 DEF Grows, Forms, FormsFirst
  <2>3. CASE Build(t)
    <3>1. /\ Len(forms') = Len(forms) + 1 /\ Len(nodes) <= Len(nodes')
          /\ \A g \in 1 .. Len(forms) : forms'[g] = forms[g]
          /\ forms'[Len(forms) + 1].next = forms[Target(t)].next
      <4>1. Len(forms') = Len(forms) + 1 /\ \A g \in 1 .. Len(forms) : forms'[g] = forms[g]
        BY <2>3, BuildHeap
      <4>2. forms'[Len(forms) + 1].next = forms[Target(t)].next
        BY <2>3, BuildHeap
      <4>3. Len(nodes) <= Len(nodes')
        BY <1>0, <2>3, BuildHeap
      <4> QED BY <4>1, <4>2, <4>3
    <3>2. forms'[Len(forms) + 1].next < Len(forms) + 1
      <4>1. forms[Target(t)].next < Target(t) /\ forms[Target(t)].next \in 0 .. Len(forms)
        BY <1>0, HeapLengths DEF FormsFirst, FormsOver
      <4> QED BY <1>0, <3>1, <4>1
    <3> QED BY <1>0, <3>1, <3>2 DEF FormsFirst
  <2>4. CASE PushWorkspace(t)
    <3> DEFINE g == [root |-> 0, next |-> ws[t]]
    <3>1. /\ forms' = Append(forms, g) /\ nodes' = nodes
          /\ g.next = ws[t] /\ ws[t] \in 1 .. Len(forms)
      BY <1>0, <2>4 DEF PushWorkspace, HoldingsOK
    <3> HIDE DEF g
    <3>2. /\ Len(forms') = Len(forms) + 1 /\ forms'[Len(forms) + 1] = g
          /\ \A f \in 1 .. Len(forms) : forms'[f] = forms[f]
      <4>1. forms \in Seq(FormsOver(Len(nodes), Len(forms)) \cup {g})
        BY <1>0 DEF HeapOK
      <4> QED BY <3>1, <4>1, AppendType
    <3> QED BY <1>0, <3>1, <3>2 DEF FormsFirst
  <2> QED BY <2>1, <2>2, <2>3, <2>4
       DEF Compile, PopWorkspace, Bind, Got, Probe, CasFails, CopyLeft, CopyRight
<1>2. /\ pc'[t] \notin {"get", "got"} /\ SeenOK'
      /\ \A u \in Threads \ {t} : pc'[u] = pc[u] /\ key'[u] = key[u] /\ form'[u] = form[u]
                                  /\ cur'[u] = cur[u] /\ seen'[u] = seen[u]
  <2>1. CASE Compile(t) \/ PopWorkspace(t) \/ PushWorkspace(t)
    BY <1>0, <2>1 DEF Compile, PopWorkspace, PushWorkspace, Goto, ControlOK, read, SeenOK
  <2>2. CASE Bind(t)
    BY <1>0, <2>2 DEF Bind, Goto, ControlOK, read, SeenOK
  <2>3. CASE Got(t)
    <3>1. pc'[t] = "run" /\ \A u \in Threads \ {t} : pc'[u] = pc[u] /\ key'[u] = key[u]
      BY <1>0, <2>3 DEF Got, Goto, ControlOK
    <3>2. \A u \in Threads \ {t} : form'[u] = form[u] /\ cur'[u] = cur[u]
      BY <1>0, <2>3 DEF Got, HoldingsOK
    <3>3. SeenOK' /\ \A u \in Threads \ {t} : seen'[u] = seen[u]
      <4>1. NoValue \in Values
        BY WorkspaceAssumption DEF NoValue, Values
      <4> QED BY <1>0, <2>3, <4>1 DEF Got, SeenOK
    <3> QED BY <3>1, <3>2, <3>3
  <2>4. CASE Probe(t) \/ CasFails(t) \/ CopyLeft(t) \/ CopyRight(t)
    BY <1>0, <2>4, SMTT(30)
       DEF Probe, CasFails, CopyLeft, CopyRight, Goto, ControlOK, HoldingsOK, read, SeenOK
  <2>5. CASE CasSucceeds(t) \/ Build(t)
    <3>1. \/ pc' = [pc EXCEPT ![t] = "probe"]
          \/ pc' = [pc EXCEPT ![t] = "bound"]
      BY <2>5 DEF CasSucceeds, Build, PutReturns, Goto
    <3>2. pc'[t] \notin {"get", "got"} /\ \A u \in Threads \ {t} : pc'[u] = pc[u]
      BY <1>0, <3>1 DEF ControlOK
    <3>3. /\ UNCHANGED <<key, form, seen>>
          /\ \A u \in Threads \ {t} : cur'[u] = cur[u]
      BY <1>0, <2>5 DEF CasSucceeds, Build, read, HoldingsOK
    <3> QED BY <1>0, <3>2, <3>3 DEF SeenOK
  <2> QED BY <2>1, <2>2, <2>3, <2>4, <2>5
<1>3. GetOK(t)'
  BY <1>2 DEF GetOK
<1> QED BY <1>0, <1>1, <1>2, <1>3, ReadsStay

LEMMA ReadsInit == Init => ReadsOK
<1> SUFFICES ASSUME Init PROVE ReadsOK
  OBVIOUS
<1>1. FormsFirst
  BY DEF Init, FormsFirst
<1>2. SeenOK
  <2>1. NoValue \in Values
    BY WorkspaceAssumption DEF NoValue, Values
  <2> QED BY <2>1 DEF Init, SeenOK
<1>3. \A t \in Threads : GetOK(t)
  BY DEF Init, GetOK
<1> QED BY <1>1, <1>2, <1>3 DEF ReadsOK

LEMMA ReadsNext == Inv /\ HasZones /\ ReadsOK /\ [Next]_vars => ReadsOK'
<1> SUFFICES ASSUME Inv, HasZones, ReadsOK, [Next]_vars PROVE ReadsOK'
  OBVIOUS
<1>0. Inv' /\ Grows
  <2>1. UNCHANGED vars => Grows
    BY DEF vars, Grows
  <2> QED BY <2>1, NextKeeps
<1>1. ASSUME NEW t \in Threads, Get(t) \/ GetStep(t) PROVE ReadsOK'
  BY <1>1, GetReads, GetStepReads
<1>2. ASSUME NEW t \in Threads,
             \/ Compile(t) \/ PopWorkspace(t) \/ Bind(t) \/ Got(t) \/ PushWorkspace(t)
             \/ Probe(t) \/ CasSucceeds(t) \/ CasFails(t) \/ CopyLeft(t) \/ CopyRight(t) \/ Build(t)
      PROVE  ReadsOK'
  BY <1>0, <1>2, OtherReads
<1>3. CASE UNCHANGED vars
  <2>1. /\ HeapOK' /\ Len(nodes) <= Len(nodes') /\ Len(forms) <= Len(forms') /\ FormsFirst' /\ SeenOK'
    BY <1>3, HeapLengths DEF Inv, Shape, HeapOK, vars, ReadsOK, FormsFirst, SeenOK
  <2>2. ASSUME NEW u \in Threads PROVE GetOK(u)'
    <3>1. GetOK(u)
      BY DEF ReadsOK
    <3> QED BY <1>0, <1>3, <2>1, <3>1, GetStays DEF vars
  <2> QED BY <2>1, <2>2 DEF ReadsOK
<1> QED BY <1>1, <1>2, <1>3 DEF Next, Step

(* A reader that walks the trees while other threads link nodes in them    *)
(* and push scopes gets what was bound when it started, or a value that is *)
(* bound in the form it got to: it never misses a name that was bound.     *)
THEOREM GetsStayConsistent == Spec => []GetsConsistent
<1>1. Init => Inv /\ HasZones /\ ReadsOK
  BY InvInit, ZonesInit, ReadsInit
<1>2. Inv /\ HasZones /\ ReadsOK /\ [Next]_vars => (Inv /\ HasZones /\ ReadsOK)'
  BY NextKeeps, ZonesNext, ReadsNext
<1>3. Inv /\ ReadsOK => GetsConsistent
  <2> SUFFICES ASSUME Inv, ReadsOK, NEW t \in Threads, pc[t] = "got", seen[t].got # seen[t].before
               PROVE  seen[t].got # NoValue /\ seen[t].got = Lookup(key[t], form[t])
    BY DEF GetsConsistent
  <2>1. /\ seen[t].got # NoValue /\ form[t] # 0 /\ Holds(key[t], form[t], seen[t].got)
        /\ HeapOK /\ form[t] \in 0 .. Len(forms)
    BY DEF ReadsOK, GetOK, Inv, Shape, HoldingsOK
  <2>2. form[t] \in 1 .. Len(forms)
    BY <2>1, HeapLengths
  <2> QED BY <2>1, <2>2, HoldsFound
<1> QED BY <1>1, <1>2, <1>3, PTL DEF Spec

(* The types of all that the threads share and hold, what a reader has     *)
(* seen among it.                                                          *)
THEOREM TypesAreCorrect == Spec => []TypeOK
<1>1. Init => Inv /\ HasZones /\ ReadsOK
  BY InvInit, ZonesInit, ReadsInit
<1>2. Inv /\ HasZones /\ ReadsOK /\ [Next]_vars => (Inv /\ HasZones /\ ReadsOK)'
  BY NextKeeps, ZonesNext, ReadsNext
<1>3. Inv /\ ReadsOK => TypeOK
  <2> SUFFICES ASSUME Inv, ReadsOK PROVE TypeOK
    OBVIOUS
  <2> USE DEF Inv, Shape
  <2>1. /\ nodes \in Seq([key : Names, value : Values \ {NoValue},
                          left : 0 .. Len(nodes), right : 0 .. Len(nodes)])
        /\ forms \in Seq([root : 0 .. Len(nodes), next : 0 .. Len(forms)])
    BY DEF HeapOK, NodesOver, FormsOver
  <2>2. /\ ws \in [Threads -> Forms] /\ fun \in [Threads -> Forms] /\ saved \subseteq Forms
        /\ slot \in [Threads -> ({"root"} \X Forms) \cup ({"left", "right"} \X Nodes)]
        /\ cur \in [Threads -> 0 .. Len(nodes)]
        /\ path \in [Threads -> Seq([node : Nodes, left : 0 .. Len(nodes), right : 0 .. Len(nodes)])]
        /\ form \in [Threads -> 0 .. Len(forms)]
    BY DEF HoldingsOK, Forms, Nodes, Slots, Stops
  <2>3. /\ pc \in [Threads -> {"run", "bound", "probe", "cas", "copyLeft", "copyRight", "build", "get", "got"}]
        /\ key \in [Threads -> Names] /\ side \in [Threads -> {"fun", "thread"}]
        /\ value \in [Threads -> Values]
        /\ binds \in 0 .. MaxBinds /\ gets \in 0 .. MaxGets /\ pushes \in 0 .. MaxPushes
    BY DEF ControlOK, Labels
  <2>4. seen \in [Threads -> [before : Values, got : Values]]
    BY DEF ReadsOK, SeenOK
  <2> QED BY ONLY <2>1, <2>2, <2>3, <2>4 DEF TypeOK
<1> QED BY <1>1, <1>2, <1>3, PTL DEF Spec
=============================================================================
