------------------------------ MODULE Closures ------------------------------
(***************************************************************************)
(* What the words of a program denote: the scopes of the compiler          *)
(* (Thread::compile, CompileScope and the parts of the parser that use     *)
(* them), the closures that the code builds when it runs (Fun::Fun,        *)
(* Fun::run), and the forms in which top level names are looked up.        *)
(*                                                                         *)
(* A text is a line of the REPL, a file, or a string given to compile.     *)
(* Parsing goes token by token; the code is then run opcode by opcode.     *)
(* The tokens are words, bindings and functions; arrays, forms and         *)
(* parentheses compile in the scope they stand in and add nothing here.    *)
(* Built-in words are taken to leave one value and to need none.  Of a     *)
(* form only what it binds is kept: Workspace has the trees.               *)
(***************************************************************************)
EXTENDS Integers, Sequences, SequencesExt

CONSTANTS
  Names,       (* interned symbols                                         *)
  Builtins,    (* the names in vm.builtins                                 *)
  Known,       (* the names that earlier texts may have bound              *)
  ArgLists,    (* the argument lists that functions are written with       *)
  None,        (* no value                                                 *)
  MaxTexts,    (* bound: texts compiled                                    *)
  MaxTokens,   (* bound: tokens in all texts, a function counting as two   *)
  MaxNested    (* bound: functions inside one another                      *)

ASSUME ClosuresAssumption ==
  /\ {Builtins, Known} \subseteq SUBSET Names /\ ArgLists \subseteq Seq(Names)
  /\ {MaxTexts, MaxTokens, MaxNested} \subseteq Nat
  /\ None \notin {"number", "prim", "fun"} \X (Nat \cup Names)

VARIABLES
  mode,        (* at the prompt, parsing or running                        *)
  inTopLevel,  (* the argument of Thread::compile                          *)
  scopes,      (* th.mCompileScope and the scopes around it, outermost     *)
               (* first, each with the code that is parsed into it         *)
  mWorkspaceVars, (* of the TopCompileScope                                *)
  frames,      (* the functions that run                                   *)
  stack,       (* th.stack                                                 *)
  funs,        (* the Fun objects                                          *)
  forms,       (* the GForms: what each binds                              *)
  mWorkspace,  (* th.mWorkspace                                            *)
  history,     (* of each text: what it found bound, what it bound first,  *)
               (* whether it has bound a bound name again, and the names   *)
               (* it bound first after that                                *)
  tokens       (* how many have been parsed                                 *)

compiling == <<inTopLevel, scopes, mWorkspaceVars>>
running   == <<frames, stack, funs, forms, mWorkspace, history>>
vars == <<mode, inTopLevel, scopes, mWorkspaceVars, frames, stack, funs, forms, mWorkspace, history, tokens>>

Number(k)  == <<"number", k>>
Builtin(n) == <<"prim", n>>
FunObj(i)  == <<"fun", i>>
Unbound    == [n \in Names |-> None]

Init ==
  /\ mode = "prompt" /\ inTopLevel = TRUE /\ scopes = <<>> /\ mWorkspaceVars = {}
  /\ frames = <<>> /\ stack = <<>> /\ funs = <<>>
  /\ (\E known \in SUBSET Known : forms = <<[n \in Names |-> IF n \in known THEN Number(0) ELSE None]>>)
  /\ mWorkspace = 1 /\ history = <<>> /\ tokens = 0

-----------------------------------------------------------------------------
(* Scopes.                                                                 *)

NewScope(kind, args) == [kind |-> kind, args |-> args, mLocals |-> args, mVars |-> <<>>, code |-> <<>>]
Here == Last(scopes)
Level == Len(scopes)
TextLevel == IF inTopLevel THEN 1 ELSE 2

Op(op, n, i) == [op |-> op, name |-> n, slot |-> i]
CallOp(scope) == IF scope = "Local" THEN "CallLocal" ELSE "CallFunVar"
PushOp(scope) == IF scope = "Local" THEN "PushLocal" ELSE "PushFunVar"

(* The first entry of that name in a list of definitions. *)
IndexOf(n, names) == IF \E i \in DOMAIN names : names[i] = n
                     THEN CHOOSE i \in DOMAIN names :
                            names[i] = n /\ \A j \in 1 .. (i - 1) : names[j] # n
                     ELSE 0
VarNames(s) == [i \in DOMAIN s.mVars |-> s.mVars[i].mName]

(* CompileScope::directLookup. *)
Slot(s, n) ==
  IF IndexOf(n, s.mLocals) # 0 THEN [scope |-> "Local", index |-> IndexOf(n, s.mLocals)]
  ELSE IF IndexOf(n, VarNames(s)) # 0 THEN [scope |-> "FunVar", index |-> IndexOf(n, VarNames(s))]
  ELSE [scope |-> "Undefined", index |-> 0]

(* The innermost scope that knows the name as a variable, 0 for none. *)
Home(n) ==
  IF \E i \in DOMAIN scopes : Slot(scopes[i], n).index # 0
  THEN CHOOSE i \in DOMAIN scopes :
         /\ Slot(scopes[i], n).index # 0
         /\ \A j \in (i + 1) .. Level : Slot(scopes[j], n).index = 0
  ELSE 0

(* The variable by which the function of scope i gets name n from the one  *)
(* around it.                                                              *)
Captured(i, n) ==
  IF i = Home(n) + 1
  THEN LET from == Slot(scopes[i - 1], n)
       IN  [mName |-> n, mFromScope |-> from.scope, mFromIndex |-> from.index]
  ELSE [mName |-> n, mFromScope |-> "FunVar", mFromIndex |-> Len(scopes[i - 1].mVars) + 1]

(* InnerCompileScope::indirectLookup: every scope on the way in from Home  *)
(* gets the name as a free variable.                                       *)
WithCaptures(n) ==
  [i \in DOMAIN scopes |->
     IF Home(n) # 0 /\ i > Home(n) THEN [scopes[i] EXCEPT !.mVars = Append(@, Captured(i, n))]
     ELSE scopes[i]]

(* TopCompileScope::directLookup, after the variables. *)
InWorkspace(n) == n \in mWorkspaceVars \/ forms[mWorkspace][n] # None

Emitted(ss, ops) == [ss EXCEPT ![Len(ss)].code = @ \o ops]
Emit(op) == scopes' = Emitted(scopes, <<op>>)

-----------------------------------------------------------------------------
(* Parsing.                                                                *)

Begin ==
  /\ mode = "prompt" /\ Len(history) < MaxTexts
  /\ \E top \in BOOLEAN :
       /\ inTopLevel' = top
       /\ scopes' = <<NewScope("top", <<>>)>> \o (IF top THEN <<>> ELSE <<NewScope("inner", <<>>)>>)
  /\ mWorkspaceVars' = {}
  /\ history' = Append(history, [start |-> forms[mWorkspace], first |-> Unbound,
                                 again |-> FALSE, late |-> {}])
  /\ mode' = "parse"
  /\ UNCHANGED <<frames, stack, funs, forms, mWorkspace, tokens>>

Tokens(n) == mode = "parse" /\ tokens + n <= MaxTokens /\ tokens' = tokens + n

(* A syntax error: the text is given up; SaveCompileScope restores.        *)
Refuse ==
  /\ mode' = "prompt" /\ scopes' = <<>> /\ mWorkspaceVars' = {}

ParseWord ==
  /\ Tokens(1) /\ UNCHANGED <<inTopLevel, running>>
  /\ \E n \in Names :
       LET found == WithCaptures(n)
           slot == Slot(Last(found), n)
       IN  \/ /\ Home(n) # 0
              /\ scopes' = Emitted(found, <<Op(CallOp(slot.scope), n, slot.index)>>)
              /\ UNCHANGED <<mode, mWorkspaceVars>>
           \/ /\ Home(n) = 0 /\ InWorkspace(n)
              /\ Emit(Op("CallWorkspaceVar", n, 0))
              /\ UNCHANGED <<mode, mWorkspaceVars>>
           \/ /\ Home(n) = 0 /\ ~ InWorkspace(n) /\ n \in Builtins
              /\ Emit(Op("CallImmediate", n, 0))
              /\ UNCHANGED <<mode, mWorkspaceVars>>
           \/ Home(n) = 0 /\ ~ InWorkspace(n) /\ n \notin Builtins /\ Refuse

(* What is bound is the function just written, or else a number. *)
Bound(op) ==
  IF Here.code # <<>> /\ Last(Here.code).op = "PushFun" THEN <<op>>
  ELSE <<Op("PushImmediate", None, tokens'), op>>

(* "= n", at the top level of a line or a file. *)
ParseBindTop ==
  /\ Tokens(1) /\ Here.kind = "top"
  /\ \E n \in Names :
       /\ mWorkspaceVars' = (IF InWorkspace(n) THEN mWorkspaceVars ELSE mWorkspaceVars \cup {n})
       /\ scopes' = Emitted(scopes, Bound(Op("BindWorkspaceVar", n, 0)))
  /\ UNCHANGED <<mode, inTopLevel, running>>

InUse(n) == Slot(Here, n).scope = "FunVar"
(* "= n" in a function, or in a string given to compile: innerBindVar. *)
ParseBindInner ==
  /\ Tokens(1) /\ Here.kind = "inner" /\ UNCHANGED <<inTopLevel, running>>
  /\ \E n \in Names :
       \/ InUse(n) /\ Refuse
       \/ /\ ~ InUse(n)
          /\ LET bound == IF Slot(Here, n).scope = "Local" THEN scopes
                          ELSE [scopes EXCEPT ![Level].mLocals = Append(@, n)]
             IN  scopes' = Emitted(bound, Bound(Op("BindLocal", n, Slot(Last(bound), n).index)))
          /\ UNCHANGED <<mode, mWorkspaceVars>>

ParseLambda ==
  /\ Tokens(2) /\ Level - TextLevel < MaxNested
  /\ \E args \in ArgLists : scopes' = Append(scopes, NewScope("inner", args))
  /\ UNCHANGED <<mode, inTopLevel, mWorkspaceVars, running>>

PushReversed(s) ==                                               (* mutant *)
  [i \in DOMAIN s.mVars |->
     LET def == s.mVars[Len(s.mVars) + 1 - i]
     IN  Op(PushOp(def.mFromScope), def.mName, def.mFromIndex)]
PushFunVars(s) ==
  [i \in DOMAIN s.mVars |->
     Op(PushOp(s.mVars[i].mFromScope), s.mVars[i].mName, s.mVars[i].mFromIndex)]
NewFunDef(s) ==
  [code |-> s.code, args |-> s.args, mNumLocals |-> Len(s.mLocals), mNumVars |-> Len(s.mVars),
   mWorkspace |-> mWorkspace, text |-> Len(history)]
ParseLambdaEnd ==
  /\ mode = "parse" /\ Level > TextLevel
  /\ \E after \in {<<>>, <<Op("Apply", None, 0)>>} :
       scopes' = Emitted(Front(scopes),
                   PushFunVars(Here) \o <<[op |-> "PushFun", def |-> NewFunDef(Here)]>> \o after)
  /\ UNCHANGED <<mode, inTopLevel, mWorkspaceVars, running, tokens>>

-----------------------------------------------------------------------------
(* Running.                                                                *)

Top == Last(frames)
Fetch == Top.code[Top.pc]
Running(op) == mode = "run" /\ Top.pc <= Len(Top.code) /\ Fetch.op = op
Advanced == [frames EXCEPT ![Len(frames)].pc = @ + 1]

(* Args are the last values of the stack; env is the reference: what every *)
(* variable is bound to where the function stands.                         *)
NewFrame(def, base, args, theVars, form, env) ==
  [code |-> def.code, pc |-> 1, stackBase |-> base,
   mLocals |-> args \o [i \in 1 .. (def.mNumLocals - Len(args)) |-> None],
   mVars |-> theVars, mWorkspace |-> form, text |-> def.text,
   env |-> [n \in Names |-> IF IndexOf(n, def.args) = 0 THEN env[n] ELSE args[IndexOf(n, def.args)]]]

(* The end of the text: it becomes a function, which is run. *)
EndText ==
  /\ mode = "parse" /\ Level = TextLevel /\ mode' = "run"
  /\ frames' = <<NewFrame(NewFunDef(Here), IF inTopLevel THEN 0 ELSE Len(stack), <<>>, <<>>,
                          mWorkspace, Unbound)>>
  /\ scopes' = <<>> /\ mWorkspaceVars' = {}
  /\ UNCHANGED <<inTopLevel, stack, funs, forms, mWorkspace, history, tokens>>

(* A function is not closed: "expected ']'". *)
EndTooSoon ==
  /\ mode = "parse" /\ Level > TextLevel /\ Refuse
  /\ UNCHANGED <<inTopLevel, running, tokens>>

Throw ==
  /\ frames' = <<>> /\ mode' = "prompt" /\ UNCHANGED stack

(* V::apply on the values below: a function is run, anything else pushed.  *)
ApplyTo(v, below) ==
  \/ /\ v[1] # "fun"
     /\ stack' = Append(below, v) /\ frames' = Advanced /\ UNCHANGED mode
  \/ /\ v[1] = "fun"
     /\ LET f == funs[v[2]]
            rest == Len(below) - Len(f.def.args)
        IN  \/ rest < Top.stackBase /\ Throw
            \/ /\ rest >= Top.stackBase
               /\ stack' = SubSeq(below, 1, rest)
               /\ frames' = Append(Advanced,
                    NewFrame(f.def, rest, SubSeq(below, rest + 1, Len(below)),
                             f.mVars, f.mWorkspace, f.env))
               /\ UNCHANGED mode

Locals    == {"CallLocal", "PushLocal"}
FunVars   == {"CallFunVar", "PushFunVar"}
Constants == {"CallImmediate", "PushImmediate"}
(* The value an opcode gets. *)
Value(op) ==
  CASE op.op \in Locals    -> Top.mLocals[op.slot]
    [] op.op \in FunVars   -> Top.mVars[op.slot]
    [] op.op = "CallWorkspaceVar" -> forms[Top.mWorkspace][op.name]
    [] op.op \in Constants -> IF op.slot = 0 THEN Builtin(op.name) ELSE Number(op.slot)

(* mustGet throws when the name is not bound. *)
Call ==
  /\ \E op \in {"CallLocal", "CallFunVar", "CallWorkspaceVar", "CallImmediate"} : Running(op)
  /\ IF Value(Fetch) = None THEN Throw ELSE ApplyTo(Value(Fetch), stack)
  /\ UNCHANGED <<compiling, funs, forms, mWorkspace, history, tokens>>

Push ==
  /\ \E op \in {"PushLocal", "PushFunVar", "PushImmediate"} : Running(op)
  /\ stack' = Append(stack, Value(Fetch)) /\ frames' = Advanced
  /\ UNCHANGED <<mode, compiling, funs, forms, mWorkspace, history, tokens>>

(* The word "!". *)
Apply ==
  /\ Running("Apply")
  /\ IF Len(stack) = Top.stackBase THEN Throw ELSE ApplyTo(Last(stack), Front(stack))
  /\ UNCHANGED <<compiling, funs, forms, mWorkspace, history, tokens>>

(* Fun::Fun takes the captured values off the stack. *)
PushFun ==
  /\ Running("PushFun")
  /\ LET d == Fetch.def
         rest == Len(stack) - d.mNumVars
     IN  /\ funs' = Append(funs, [def |-> d, mVars |-> SubSeq(stack, rest + 1, Len(stack)),
                                  mWorkspace |-> d.mWorkspace, env |-> Top.env])
         /\ stack' = Append(SubSeq(stack, 1, rest), FunObj(Len(funs) + 1))
  /\ frames' = Advanced
  /\ UNCHANGED <<mode, compiling, forms, mWorkspace, history, tokens>>

BindLocal ==
  /\ Running("BindLocal")
  /\ IF Len(stack) = Top.stackBase THEN Throw
     ELSE /\ stack' = Front(stack)
          /\ frames' = [Advanced EXCEPT ![Len(frames)].mLocals[Fetch.slot] = Last(stack),
                                        ![Len(frames)].env[Fetch.name] = Last(stack)]
          /\ UNCHANGED mode
  /\ UNCHANGED <<compiling, funs, forms, mWorkspace, history, tokens>>

(* GForm::putImpure: a name that form f does not bind is added in place,   *)
(* and then shows in any other forms that share the subtree it is added    *)
(* to, which depends on the hashes: those forms are seen.  A name that is  *)
(* bound makes a new form.                                                 *)
Sharers(fs, f, n) ==
  {g \in DOMAIN fs \ {f} :
     fs[g][n] = None /\ \E m \in Names : fs[f][m] # None /\ fs[g][m] = fs[f][m]}
Put(fs, f, n, v, seen) ==
  IF fs[f][n] = None
  THEN [forms |-> [g \in DOMAIN fs |-> IF g \in {f} \cup seen THEN [fs[g] EXCEPT ![n] = v] ELSE fs[g]],
        form |-> f]
  ELSE [forms |-> Append(fs, [fs[f] EXCEPT ![n] = v]), form |-> Len(fs) + 1]

(* Kept for the properties. *)
Remembered(h, n, v) ==
  [h EXCEPT !.again = @ \/ forms[Top.mWorkspace][n] # None,
            !.first[n] = IF @ = None THEN v ELSE @,
            !.late = IF h.again /\ h.first[n] = None THEN @ \cup {n} ELSE @]

PutInFun(n, v) ==                                                (* mutant *)
  \E seen \in SUBSET Sharers(forms, Top.mWorkspace, n) :
    LET p == Put(forms, Top.mWorkspace, n, v, seen)
    IN  /\ forms' = p.forms /\ UNCHANGED mWorkspace
        /\ frames' = [Advanced EXCEPT ![Len(frames)].mWorkspace = p.form]
(* The binding is put into the form of the function that runs, then into   *)
(* th.mWorkspace.                                                          *)
PutTwice(n, v) ==
  \E seen \in SUBSET Sharers(forms, Top.mWorkspace, n) :
    LET p == Put(forms, Top.mWorkspace, n, v, seen)
    IN  \E seenToo \in SUBSET Sharers(p.forms, mWorkspace, n) :
          LET q == Put(p.forms, mWorkspace, n, v, seenToo)
          IN  /\ forms' = q.forms /\ mWorkspace' = q.form
              /\ frames' = [Advanced EXCEPT ![Len(frames)].mWorkspace = p.form]

BindWorkspaceVar ==
  /\ Running("BindWorkspaceVar")
  /\ IF Len(stack) = Top.stackBase THEN Throw /\ UNCHANGED <<forms, mWorkspace, history>>
     ELSE /\ PutTwice(Fetch.name, Last(stack))
          /\ history' = [history EXCEPT ![Len(history)] = Remembered(@, Fetch.name, Last(stack))]
          /\ stack' = Front(stack) /\ UNCHANGED mode
  /\ UNCHANGED <<compiling, funs, tokens>>

Return ==
  /\ mode = "run" /\ Top.pc > Len(Top.code)
  /\ frames' = Front(frames)
  /\ mode' = (IF Len(frames) = 1 THEN "prompt" ELSE "run")
  /\ UNCHANGED <<compiling, stack, funs, forms, mWorkspace, history, tokens>>

Parse == ParseWord \/ ParseBindTop \/ ParseBindInner \/ ParseLambda \/ ParseLambdaEnd
Run   == Call \/ Push \/ Apply \/ PushFun \/ BindLocal \/ BindWorkspaceVar \/ Return
Next  == Begin \/ Parse \/ EndText \/ EndTooSoon \/ Run

Spec == Init /\ [][Next]_vars

-----------------------------------------------------------------------------
IsValue(v) ==
  \/ v \in {Number(k) : k \in 0 .. MaxTokens} \cup {Builtin(n) : n \in Builtins}
  \/ v \in {FunObj(i) : i \in DOMAIN funs}
TypeOK ==
  /\ mode \in {"prompt", "parse", "run"} /\ inTopLevel \in BOOLEAN
  /\ mWorkspaceVars \subseteq Names /\ tokens \in 0 .. MaxTokens
  /\ (mode = "parse") = (scopes # <<>>) /\ (mode = "run") = (frames # <<>>)
  /\ \A i \in DOMAIN stack : IsValue(stack[i])
  /\ \A i \in DOMAIN frames :
       /\ frames[i].pc \in 1 .. (Len(frames[i].code) + 1) /\ frames[i].mWorkspace \in DOMAIN forms
       /\ \A j \in DOMAIN frames[i].mVars : IsValue(frames[i].mVars[j])
  /\ mWorkspace \in DOMAIN forms
  /\ \A f \in DOMAIN forms, n \in Names : forms[f][n] = None \/ IsValue(forms[f][n])

(* A word that runs gets the value of the nearest variable of that name    *)
(* around it in the text: of its own function as it is now, of those       *)
(* around it as they were when the function was made.  Only a name that is *)
(* no variable there is looked up in the workspace or built in ("it has    *)
(* lexical variables", README.md:37).                                      *)
WordsMean ==
  /\ \A op \in Locals \cup FunVars : Running(op) =>
       /\ Fetch.slot \in DOMAIN (IF op \in Locals THEN Top.mLocals ELSE Top.mVars)
       /\ Top.env[Fetch.name] # None /\ Value(Fetch) = Top.env[Fetch.name]
  /\ \A op \in {"CallWorkspaceVar"} \cup Constants : Running(op) /\ Fetch.name # None =>
       Top.env[Fetch.name] = None

(* A top level word that runs in the text itself gets what was bound last. *)
(* In a function of the text it gets what the name was bound to before the *)
(* text began, whatever the text bound it to since; else what the text     *)
(* bound it to first.  The function may miss a name (errNotFound) that the *)
(* text has bound only after it bound another name a second time, because  *)
(* the new form is not the one the function has captured.                  *)
GlobalsMean ==
  Running("CallWorkspaceVar") =>
    LET n == Fetch.name
        v == Value(Fetch)
        h == history[Top.text]
    IN  IF Len(frames) = 1 /\ inTopLevel THEN v = forms[mWorkspace][n] /\ v # None
        ELSE IF h.start[n] # None THEN v = h.start[n]
        ELSE /\ v = h.first[n] \/ (v = None /\ n \in h.late)
             /\ h.first[n] # None
=============================================================================
