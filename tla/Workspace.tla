----------------------------- MODULE Workspace -----------------------------
(***************************************************************************)
(* The global name space (GTable, GForm; opBindWorkspaceVar).  A table is  *)
(* a binary search tree on the hashes of the names that grows at its       *)
(* leaves by compare-and-swap and is read without a lock.  A name that is  *)
(* bound already is not bound again: putPure builds a new table that       *)
(* shares the subtrees it does not rebuild, and every function goes on     *)
(* reading the form it was compiled in.                                    *)
(*                                                                         *)
(* Node 0 and form 0 are the null pointers.  A slot is the address of an   *)
(* atomic pointer: <<"root", form>>, <<"left", node>> or <<"right", node>>.*)
(* Reference counts of nodes and forms are not modelled, nor what becomes  *)
(* of a node that lost the race for its slot.                              *)
(***************************************************************************)
EXTENDS Integers, Sequences, FiniteSets

CONSTANTS
  Threads,    (* threads that share the workspace they were copied from    *)
  Names,      (* interned symbols                                          *)
  Hash,       (* Hash[name]                                                *)
  Start,      (* the nodes of the table when the threads begin to share it *)
  MaxBinds,   (* bound: bindings made, those of Start among them           *)
  MaxGets,    (* bound: names read                                         *)
  MaxPushes,  (* bound: scopes pushed                                      *)
  MaxOps      (* bound: of all three together, beside Start                *)

ASSUME WorkspaceAssumption ==
  /\ Names # {} /\ Hash \in [Names -> Int]
  /\ Start \in Seq([key : Names, value : 1 .. MaxBinds,
                   left : 0 .. Len(Start), right : 0 .. Len(Start)])
  /\ Len(Start) <= MaxBinds
  /\ {MaxBinds, MaxGets, MaxPushes, MaxOps} \subseteq Nat

(* Start is as putImpure builds a table: for some sets zone[n] of the      *)
(* names whose search passes node n, each child has the names of its node  *)
(* that belong on its side.                                                *)
ASSUME StartAssumption ==
  \E zone \in [DOMAIN Start -> SUBSET Names] :
    /\ Start # <<>> => zone[1] = Names
    /\ \A n \in DOMAIN Start :
         LET k == Start[n].key
             l == Start[n].left
             r == Start[n].right
         IN  /\ k \in zone[n]
             /\ l # 0 => zone[l] = {j \in zone[n] : Hash[j] < Hash[k]}
             /\ r # 0 => zone[r] = {j \in zone[n] : Hash[j] >= Hash[k] /\ j # k}

VARIABLES
  nodes,      (* TreeNode: key, value and the two children                 *)
  forms,      (* GForm: the root of mTable, and mNextForm                  *)
  ws, fun,    (* th.mWorkspace, and Workspace() of the function it runs    *)
  saved,      (* the forms that compiled functions have captured           *)
  pc, key,    (* what thread t is doing, with which name                   *)
  value,      (* the value it binds: all bindings have different values    *)
  side,       (* which of the two forms is being put into                  *)
  slot,       (* treeNodePtr of GTable::putImpure                          *)
  cur,        (* the node a reader or putPure is at                        *)
  path,       (* what the nested calls of putPure have read so far         *)
  form,       (* GForm::get: the form being searched                       *)
  seen,       (* the outcome of the last get, and what it had to be        *)
  binds, gets, pushes

heap == <<nodes, forms>>
put  == <<side, slot, path>>
read == <<form, seen>>
used == <<binds, gets, pushes>>
vars == <<nodes, forms, ws, fun, saved, pc, key, value, side, slot, cur, path, form, seen, binds, gets, pushes>>

NoValue == 0
Values  == 0 .. MaxBinds
Nodes   == 1 .. Len(nodes)
Forms   == 1 .. Len(forms)
Ready   == {"run", "bound"}

Load(s) ==
  IF s[1] = "root" THEN forms[s[2]].root
  ELSE IF s[1] = "left" THEN nodes[s[2]].left ELSE nodes[s[2]].right

(* The side of node n on which name k is looked for. *)
Toward(k, n) == IF Hash[k] < Hash[nodes[n].key] THEN "left" ELSE "right"
SameHash(k, n) == Hash[k] = Hash[nodes[n].key]

(* GTable::get, and GForm::get along mNextForm, on the current heap. *)
Find(k, root) ==
  LET find[n \in 0 .. Len(nodes)] ==
        IF n = 0 THEN NoValue
        ELSE IF SameHash(k, n) THEN nodes[n].value
        ELSE find[Load(<<Toward(k, n), n>>)]
  IN  find[root]
Lookup(k, f) ==
  LET lookup[g \in 0 .. Len(forms)] ==
        IF g = 0 THEN NoValue
        ELSE LET v == Find(k, forms[g].root)
             IN  IF v = NoValue THEN lookup[forms[g].next] ELSE v
  IN  lookup[f]

(* The threads are copies of one whose workspace holds what it has bound:  *)
(* nothing, or names whose nodes were linked in the order of Start, the    *)
(* i-th with the i-th value.                                               *)
Init ==
  /\ nodes = Start
  /\ forms = <<[root |-> IF Len(Start) = 0 THEN 0 ELSE 1, next |-> 0]>>
  /\ ws = [t \in Threads |-> 1] /\ fun = [t \in Threads |-> 1] /\ saved = {1}
  /\ pc = [t \in Threads |-> "run"]
  /\ key = [t \in Threads |-> CHOOSE k \in Names : TRUE]
  /\ value = [t \in Threads |-> NoValue]
  /\ side = [t \in Threads |-> "fun"]
  /\ slot = [t \in Threads |-> <<"root", 1>>]
  /\ cur = [t \in Threads |-> 0] /\ path = [t \in Threads |-> <<>>]
  /\ form = [t \in Threads |-> 0]
  /\ seen = [t \in Threads |-> [before |-> NoValue, got |-> NoValue]]
  /\ binds = Len(Start) /\ gets = 0 /\ pushes = 0

(* Bindings, reads and pushes so far. *)
Begun == (binds - Len(Start)) + gets + pushes

Goto(t, label) == pc' = [pc EXCEPT ![t] = label]

(* A new top level statement: its functions capture th.mWorkspace. *)
Compile(t) ==
  /\ pc[t] \in Ready
  /\ fun' = [fun EXCEPT ![t] = ws[t]]
  /\ saved' = saved \cup {ws[t]}
  /\ Goto(t, "run")
  /\ UNCHANGED <<heap, ws, key, value, cur, put, read, used>>

PushWorkspace(t) ==
  /\ pc[t] \in Ready /\ pushes < MaxPushes /\ Begun < MaxOps
  /\ forms' = Append(forms, [root |-> 0, next |-> ws[t]])
  /\ ws' = [ws EXCEPT ![t] = Len(forms) + 1]
  /\ pushes' = pushes + 1
  /\ Goto(t, "run")
  /\ UNCHANGED <<nodes, fun, saved, key, value, cur, put, read, binds, gets>>

(* popWorkspace leaves the last scope alone. *)
PopWorkspace(t) ==
  /\ pc[t] \in Ready /\ forms[ws[t]].next # 0
  /\ ws' = [ws EXCEPT ![t] = forms[ws[t]].next]
  /\ Goto(t, "run")
  /\ UNCHANGED <<heap, fun, saved, key, value, cur, put, read, used>>

-----------------------------------------------------------------------------
(* opBindWorkspaceVar: the binding is put into the form of the function    *)
(* that runs, then into th.mWorkspace, which usually is the same form.     *)

Bind(t) ==
  /\ pc[t] \in Ready /\ binds < MaxBinds /\ Begun < MaxOps
  /\ \E k \in Names : key' = [key EXCEPT ![t] = k]
  /\ binds' = binds + 1 /\ value' = [value EXCEPT ![t] = binds + 1]
  /\ side' = [side EXCEPT ![t] = "fun"]
  /\ slot' = [slot EXCEPT ![t] = <<"root", fun[t]>>]
  /\ Goto(t, "probe")
  /\ UNCHANGED <<heap, ws, fun, saved, cur, path, read, gets, pushes>>

(* putImpure or putPure has returned form f. *)
PutReturns(t, f) ==
  /\ path' = [path EXCEPT ![t] = <<>>]
  /\ IF side[t] = "fun"
     THEN /\ fun' = [fun EXCEPT ![t] = f]
          /\ side' = [side EXCEPT ![t] = "thread"]
          /\ slot' = [slot EXCEPT ![t] = <<"root", ws[t]>>]
          /\ Goto(t, "probe")
          /\ UNCHANGED ws
     ELSE /\ ws' = [ws EXCEPT ![t] = f]
          /\ slot' = [slot EXCEPT ![t] = <<"root", f>>]
          /\ Goto(t, "bound")
          /\ UNCHANGED <<fun, side>>

Target(t) == IF side[t] = "fun" THEN fun[t] ELSE ws[t]

(* putImpure: one turn of the loop as far as the compare-and-swap.         *)
Probe(t) ==
  /\ pc[t] = "probe"
  /\ LET n == Load(slot[t])
     IN  \/ n = 0 /\ Goto(t, "cas") /\ UNCHANGED <<slot, cur>>
         \/ /\ n # 0 /\ ~ SameHash(key[t], n)
            /\ slot' = [slot EXCEPT ![t] = <<Toward(key[t], n), n>>]
            /\ UNCHANGED <<pc, cur>>
         \/ /\ n # 0 /\ SameHash(key[t], n)
            /\ cur' = [cur EXCEPT ![t] = forms[Target(t)].root]
            /\ Goto(t, "copyLeft") /\ UNCHANGED slot
  /\ UNCHANGED <<heap, ws, fun, saved, key, value, side, path, read, used>>

Store(s, n) ==
  IF s[1] = "root"
  THEN forms' = [forms EXCEPT ![s[2]].root = n]
  ELSE UNCHANGED forms
Leaf(t) == [key |-> key[t], value |-> value[t], left |-> 0, right |-> 0]
AndChild(s, n, seq) ==
  IF s[1] = "left" THEN [seq EXCEPT ![s[2]].left = n]
  ELSE IF s[1] = "right" THEN [seq EXCEPT ![s[2]].right = n] ELSE seq

SlotIgnored(t) == TRUE                                           (* mutant *)
SlotIsNull(t) == Load(slot[t]) = 0

CasSucceeds(t) ==
  /\ pc[t] = "cas" /\ SlotIsNull(t)
  /\ Store(slot[t], Len(nodes) + 1)
  /\ nodes' = AndChild(slot[t], Len(nodes) + 1, Append(nodes, Leaf(t)))
  /\ PutReturns(t, Target(t))
  /\ UNCHANGED <<saved, key, value, cur, read, used>>

CasRepeats(t) == pc[t] = "cas" /\ UNCHANGED vars                 (* mutant *)
CasGivesUp(t) ==                                                 (* mutant *)
  /\ pc[t] = "cas"
  /\ PutReturns(t, Target(t))
  /\ UNCHANGED <<heap, saved, key, value, cur, read, used>>
(* The slot was taken, or the weak compare failed for no reason. *)
CasFails(t) ==
  /\ pc[t] = "cas"
  /\ Goto(t, "probe")
  /\ UNCHANGED <<heap, ws, fun, saved, key, value, cur, put, read, used>>

-----------------------------------------------------------------------------
(* putPure copies the path from the root down to the name.                 *)

CopyLeft(t) ==
  /\ pc[t] = "copyLeft"
  /\ path' = [path EXCEPT ![t] =
                Append(@, [node |-> cur[t], left |-> nodes[cur[t]].left, right |-> 0])]
  /\ Goto(t, "copyRight")
  /\ UNCHANGED <<heap, ws, fun, saved, key, value, side, slot, cur, read, used>>

IsKey(k, n) == nodes[n].key = k

CopyRight(t) ==
  /\ pc[t] = "copyRight"
  /\ LET n == cur[t]
         right == nodes[n].right
         next == IF Toward(key[t], n) = "left" THEN path[t][Len(path[t])].left ELSE right
     IN  /\ path' = [path EXCEPT ![t][Len(path[t])].right = right]
         /\ IF IsKey(key[t], n) \/ next = 0
            THEN Goto(t, "build") /\ UNCHANGED cur
            ELSE Goto(t, "copyLeft") /\ cur' = [cur EXCEPT ![t] = next]
  /\ UNCHANGED <<heap, ws, fun, saved, key, value, side, slot, read, used>>

CopiedRight(t, i) ==                                             (* mutant *)
  LET p == path[t][i]
      n == [key |-> nodes[p.node].key, value |-> nodes[p.node].value,
            left |-> p.left, right |-> p.right]
  IN  IF i = Len(path[t]) /\ IsKey(key[t], p.node) THEN [n EXCEPT !.value = value[t]]
      ELSE [n EXCEPT !.right = Len(nodes) + i + 1]
(* The copy of the i-th node of the path; its copied child is the next.    *)
Copied(t, i) ==
  LET p == path[t][i]
      last == i = Len(path[t])
      child == Len(nodes) + i + 1
      n == [key |-> nodes[p.node].key, value |-> nodes[p.node].value,
            left |-> p.left, right |-> p.right]
  IN  IF last /\ IsKey(key[t], p.node) THEN [n EXCEPT !.value = value[t]]
      ELSE IF Toward(key[t], p.node) = "left" THEN [n EXCEPT !.left = child]
      ELSE [n EXCEPT !.right = child]

CopiedPath(t) ==
  LET m == Len(path[t])
      copies == [i \in 1 .. m |-> Copied(t, i)]
  IN  IF IsKey(key[t], path[t][m].node) THEN copies ELSE Append(copies, Leaf(t))

Build(t) ==
  /\ pc[t] = "build"
  /\ nodes' = nodes \o CopiedPath(t)
  /\ forms' = Append(forms, [root |-> Len(nodes) + 1, next |-> forms[Target(t)].next])
  /\ PutReturns(t, Len(forms) + 1)
  /\ cur' = [cur EXCEPT ![t] = 0]
  /\ UNCHANGED <<saved, key, value, read, used>>

-----------------------------------------------------------------------------
(* opPushWorkspaceVar: a thread runs a function that has captured form f   *)
(* and reads name k, walking the tree while others extend it.              *)

Get(t) ==
  /\ pc[t] \in Ready /\ gets < MaxGets /\ Begun < MaxOps
  /\ \E f \in saved \cup {fun[t]}, k \in Names :
       /\ key' = [key EXCEPT ![t] = k]
       /\ form' = [form EXCEPT ![t] = f]
       /\ seen' = [seen EXCEPT ![t].before = Lookup(k, f)]
       /\ cur' = [cur EXCEPT ![t] = forms[f].root]
  /\ gets' = gets + 1
  /\ Goto(t, "get")
  /\ UNCHANGED <<heap, ws, fun, saved, value, put, binds, pushes>>

GetReturns(t, v) ==
  /\ seen' = [seen EXCEPT ![t].got = v]
  /\ Goto(t, "got")

GetInTable(t) ==                                                 (* mutant *)
  /\ pc[t] = "get"
  /\ LET n == cur[t]
     IN  IF n # 0 /\ ~ SameHash(key[t], n)
         THEN cur' = [cur EXCEPT ![t] = Load(<<Toward(key[t], n), n>>)] /\ UNCHANGED <<pc, seen>>
         ELSE GetReturns(t, IF n = 0 THEN NoValue ELSE nodes[n].value) /\ UNCHANGED cur
  /\ UNCHANGED <<heap, ws, fun, saved, key, value, put, form, used>>
GetStep(t) ==
  /\ pc[t] = "get"
  /\ LET n == cur[t]
         next == forms[form[t]].next
     IN  \/ /\ n = 0 /\ next = 0
            /\ GetReturns(t, NoValue) /\ UNCHANGED <<cur, form>>
         \/ /\ n = 0 /\ next # 0
            /\ form' = [form EXCEPT ![t] = next]
            /\ cur' = [cur EXCEPT ![t] = forms[next].root]
            /\ UNCHANGED <<pc, seen>>
         \/ /\ n # 0 /\ SameHash(key[t], n)
            /\ GetReturns(t, nodes[n].value) /\ UNCHANGED <<cur, form>>
         \/ /\ n # 0 /\ ~ SameHash(key[t], n)
            /\ cur' = [cur EXCEPT ![t] = Load(<<Toward(key[t], n), n>>)]
            /\ UNCHANGED <<pc, seen, form>>
  /\ UNCHANGED <<heap, ws, fun, saved, key, value, put, used>>

Got(t) ==
  /\ pc[t] = "got"
  /\ seen' = [seen EXCEPT ![t] = [before |-> NoValue, got |-> NoValue]]
  /\ cur' = [cur EXCEPT ![t] = 0] /\ form' = [form EXCEPT ![t] = 0]
  /\ Goto(t, "run")
  /\ UNCHANGED <<heap, ws, fun, saved, key, value, put, used>>

Step(t) ==
  \/ Probe(t) \/ CasSucceeds(t) \/ CasFails(t)
  \/ CopyLeft(t) \/ CopyRight(t) \/ Build(t) \/ GetStep(t)

Next ==
  \E t \in Threads :
    Compile(t) \/ PushWorkspace(t) \/ PopWorkspace(t) \/ Bind(t) \/ Get(t) \/ Got(t) \/ Step(t)

(* A thread inside a put or a get keeps running; a weak compare that could *)
(* succeed again and again does not fail for no reason forever.            *)
Fairness == \A t \in Threads : WF_vars(Step(t)) /\ SF_vars(CasSucceeds(t))

Spec == Init /\ [][Next]_vars
FairSpec == Spec /\ Fairness

-----------------------------------------------------------------------------
TypeOK ==
  /\ nodes \in Seq([key : Names, value : Values \ {NoValue},
                    left : 0 .. Len(nodes), right : 0 .. Len(nodes)])
  /\ forms \in Seq([root : 0 .. Len(nodes), next : 0 .. Len(forms)])
  /\ ws \in [Threads -> Forms] /\ fun \in [Threads -> Forms] /\ saved \subseteq Forms
  /\ pc \in [Threads -> {"run", "bound", "probe", "cas", "copyLeft", "copyRight", "build", "get", "got"}]
  /\ key \in [Threads -> Names] /\ side \in [Threads -> {"fun", "thread"}]
  /\ slot \in [Threads -> ({"root"} \X Forms) \cup ({"left", "right"} \X Nodes)]
  /\ cur \in [Threads -> 0 .. Len(nodes)]
  /\ path \in [Threads -> Seq([node : Nodes, left : 0 .. Len(nodes), right : 0 .. Len(nodes)])]
  /\ form \in [Threads -> 0 .. Len(forms)]
  /\ seen \in [Threads -> [before : Values, got : Values]]
  /\ value \in [Threads -> Values]
  /\ binds \in 0 .. MaxBinds /\ gets \in 0 .. MaxGets /\ pushes \in 0 .. MaxPushes

(* The nodes of the tree at node n.                                        *)
Tree(n) ==
  LET tree[i \in 0 .. Len(nodes)] ==
        IF i = 0 THEN {} ELSE {i} \cup tree[nodes[i].left] \cup tree[nodes[i].right]
  IN  tree[n]

(* The subtrees that forms share stay in the order every form searches     *)
(* them in, whoever extends them: no name is out of reach or bound twice   *)
(* in one table.                                                           *)
Ordered ==
  \A f \in Forms : \A n \in Tree(forms[f].root) :
    /\ \A m \in Tree(nodes[n].left) : Hash[nodes[m].key] < Hash[nodes[n].key]
    /\ \A m \in Tree(nodes[n].right) :
         nodes[m].key # nodes[n].key /\ Hash[nodes[m].key] >= Hash[nodes[n].key]

(* No step changes a node's key, its value, or a pointer that is not null: *)
(* that a node once read remains what it was is what lets readers go       *)
(* without a lock and forms share subtrees.                                *)
Grows ==
  /\ \A n \in Nodes :
       /\ nodes'[n].key = nodes[n].key /\ nodes'[n].value = nodes[n].value
       /\ nodes[n].left # 0 => nodes'[n].left = nodes[n].left
       /\ nodes[n].right # 0 => nodes'[n].right = nodes[n].right
  /\ \A f \in Forms :
       /\ forms[f].root # 0 => forms'[f].root = forms[f].root
       /\ forms'[f].next = forms[f].next
GrowsAtLeaves == [][Grows]_vars

(* After = name the thread and the rest of the statement read the value    *)
(* that was bound, whether or not the name was bound before.               *)
BindVisible ==
  \A t \in Threads : pc[t] = "bound" =>
    Lookup(key[t], ws[t]) = value[t] /\ Lookup(key[t], fun[t]) = value[t]

(* A reader that walks the trees while others extend them finds what was   *)
(* bound when it started, or else what has been bound since, which may be  *)
(* in an inner scope and hide what it would have found before: what a name *)
(* is bound to is never missed.                                            *)
GetsConsistent ==
  \A t \in Threads : pc[t] = "got" =>
    \/ seen[t].got = seen[t].before
    \/ seen[t].got # NoValue /\ seen[t].got = Lookup(key[t], form[t])

(* Every put ends, whatever other threads link in its way. *)
PutsReturn == \A t \in Threads : pc[t] = "probe" ~> pc[t] = "bound"
=============================================================================
