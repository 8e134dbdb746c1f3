--------------------------- MODULE ClosuresProofs ---------------------------
(***************************************************************************)
(* The types of Closures and what its words mean, for any names, built-in  *)
(* words and argument lists, and for texts and functions of any number and *)
(* length.                                                                 *)
(*                                                                         *)
(* The invariant gives every piece of code a typing, which names what is   *)
(* in its slots.  The typings of the functions that are inside one another *)
(* form a set W, closed in that the opcode PushFun of a typed function     *)
(* makes a function typed in W; F is the form in which each text began.    *)
(***************************************************************************)
EXTENDS Closures, FiniteSetTheorems, WellFoundedInduction, TLAPS

(* A sequence, of whatever it may be. *)
IsSeq(s) == \E S : s \in Seq(S)
-----------------------------------------------------------------------------
(* Sequences.                                                              *)

LEMMA SeqIs ==
  ASSUME NEW s, IsSeq(s)
  PROVE  Len(s) \in Nat /\ DOMAIN s = 1 .. Len(s)
<1>1. PICK S : s \in Seq(S) BY DEF IsSeq
<1> QED BY <1>1

LEMMA SeqIsFunction ==
  ASSUME NEW s, IsSeq(s)
  PROVE  s = [i \in 1 .. Len(s) |-> s[i]]
<1>1. PICK S : s \in Seq(S) BY DEF IsSeq
<1> QED BY <1>1

LEMMA SeqMade ==
  ASSUME NEW m \in Nat, NEW s, s = [i \in 1 .. m |-> s[i]]
  PROVE  IsSeq(s) /\ Len(s) = m /\ DOMAIN s = 1 .. m
<1> DEFINE S == {s[i] : i \in 1 .. m}
<1>1. s \in [1 .. m -> S] OBVIOUS
<1>2. s \in Seq(S) /\ Len(s) = m BY <1>1
<1> QED BY <1>2 DEF IsSeq

LEMMA SeqAppend ==
  ASSUME NEW s, IsSeq(s), NEW e
  PROVE  /\ IsSeq(Append(s, e)) /\ Len(Append(s, e)) = Len(s) + 1
         /\ DOMAIN Append(s, e) = 1 .. (Len(s) + 1)
         /\ \A i \in 1 .. Len(s) : Append(s, e)[i] = s[i]
         /\ Append(s, e)[Len(s) + 1] = e
<1>1. PICK S : s \in Seq(S) BY DEF IsSeq
<1>2. s \in Seq(S \cup {e}) /\ e \in S \cup {e} BY <1>1
<1> DEFINE r == Append(s, e)
<1>3. Len(r) = Len(s) + 1 /\ Len(s) \in Nat BY <1>2
<1>4. r \in Seq(S \cup {e}) BY <1>2
<1>5. /\ \A i \in 1 .. Len(s) : r[i] = s[i]
      /\ r[Len(s) + 1] = e
  BY <1>2
<1>6. IsSeq(r) BY <1>4 DEF IsSeq
<1> HIDE DEF r
<1>7. DOMAIN r = 1 .. (Len(s) + 1) BY <1>3, <1>4
<1> QED BY <1>3, <1>5, <1>6, <1>7 DEF r

LEMMA SeqConcat ==
  ASSUME NEW s, NEW r, IsSeq(s), IsSeq(r)
  PROVE  /\ IsSeq(s \o r) /\ Len(s \o r) = Len(s) + Len(r)
         /\ \A i \in 1 .. Len(s) : (s \o r)[i] = s[i]
         /\ \A i \in 1 .. Len(r) : (s \o r)[Len(s) + i] = r[i]
<1>1. PICK S : s \in Seq(S) BY DEF IsSeq
<1>2. PICK R : r \in Seq(R) BY DEF IsSeq
<1>3. s \in Seq(S \cup R) /\ r \in Seq(S \cup R) BY <1>1, <1>2
<1>4. s \o r \in Seq(S \cup R) BY <1>3
<1>5. \A i \in 1 .. Len(r) : Len(s) + i \in 1 .. (Len(s) + Len(r)) /\ Len(s) + i > Len(s)
  BY <1>3
<1> QED BY <1>3, <1>4, <1>5 DEF IsSeq

LEMMA SeqSub ==
  ASSUME NEW s, IsSeq(s), NEW a \in Nat, NEW b \in Nat, 1 <= a, a <= b + 1, b <= Len(s)
  PROVE  /\ IsSeq(SubSeq(s, a, b)) /\ Len(SubSeq(s, a, b)) = b + 1 - a
         /\ \A i \in 1 .. (b + 1 - a) : SubSeq(s, a, b)[i] = s[a - 1 + i]
<1>1. PICK S : s \in Seq(S) BY DEF IsSeq
<1>2. SubSeq(s, a, b) = [i \in 1 .. (b + 1 - a) |-> s[a - 1 + i]]
  BY <1>1
<1>3. b + 1 - a \in Nat OBVIOUS
<1> DEFINE r == SubSeq(s, a, b)
<1>4. r = [i \in 1 .. (b + 1 - a) |-> r[i]] BY <1>2
<1> QED BY <1>2, <1>3, <1>4, SeqMade

LEMMA SeqFront ==
  ASSUME NEW s, IsSeq(s), s # <<>>
  PROVE  /\ Len(s) > 0 /\ Last(s) = s[Len(s)]
         /\ IsSeq(Front(s)) /\ Len(Front(s)) = Len(s) - 1
         /\ \A i \in 1 .. (Len(s) - 1) : Front(s)[i] = s[i]
<1>1. PICK S : s \in Seq(S) BY DEF IsSeq
<1>2. Len(s) > 0 /\ Len(s) \in Nat BY <1>1
<1>3. Front(s) = SubSeq(s, 1, Len(s) - 1) /\ Last(s) = s[Len(s)] BY DEF Front, Last
<1> DEFINE m == Len(s) - 1
<1>4. m \in Nat /\ m <= Len(s) /\ 1 \in Nat /\ 1 <= m + 1 /\ m + 1 - 1 = m
  BY <1>2
<1> HIDE DEF m
<1>5. /\ IsSeq(SubSeq(s, 1, m)) /\ Len(SubSeq(s, 1, m)) = m
      /\ \A i \in 1 .. m : SubSeq(s, 1, m)[i] = s[1 - 1 + i]
  BY <1>4, SeqSub
<1>6. \A i \in 1 .. m : 1 - 1 + i = i BY <1>4
<1> QED BY <1>2, <1>3, <1>5, <1>6 DEF m

LEMMA SeqEmpty == IsSeq(<<>>) /\ Len(<<>>) = 0
<1>1. <<>> \in Seq({}) OBVIOUS
<1> QED BY <1>1 DEF IsSeq

LEMMA SeqOne ==
  ASSUME NEW e
  PROVE  IsSeq(<<e>>) /\ Len(<<e>>) = 1 /\ <<e>>[1] = e /\ <<e>> # <<>>
<1>1. <<e>> \in Seq({e}) OBVIOUS
<1> QED BY <1>1 DEF IsSeq

LEMMA SeqTwo ==
  ASSUME NEW d, NEW e
  PROVE  IsSeq(<<d, e>>) /\ Len(<<d, e>>) = 2 /\ <<d, e>>[1] = d /\ <<d, e>>[2] = e
<1>1. <<d, e>> \in Seq({d, e}) OBVIOUS
<1> QED BY <1>1 DEF IsSeq

Pushes == {"PushLocal", "PushFunVar"}

-----------------------------------------------------------------------------
(* Typings.  A typing w says what the names in the code of a function mean:*)
(* def is the function, locals and vars name the entries of mLocals and    *)
(* mVars, known are the names bound around it, globals the top level names *)
(* that are bound when it is made, top is TRUE for a line or a file.       *)

(* A name the function has bound itself when it comes to its opcode p. *)
LocalAt(w, n, p) ==
  \/ IndexOf(n, w.def.args) # 0
  \/ \E q \in 1 .. (p - 1) : w.def.code[q].op = "BindLocal" /\ w.def.code[q].name = n
BoundAt(w, n, p) == n \in w.known \/ LocalAt(w, n, p)
GlobalAt(w, n, p) ==
  \/ n \in w.globals
  \/ \E q \in 1 .. (p - 1) : w.def.code[q].op = "BindWorkspaceVar" /\ w.def.code[q].name = n

(* Opcode p makes the function w2, and those before it push what it takes. *)
Captures(w, w2, p) ==
  /\ w2.def = w.def.code[p].def /\ w2.top = FALSE /\ w2.def.text = w.def.text
  /\ w2.known = {n \in Names : BoundAt(w, n, p)}
  /\ \A n \in w2.globals : GlobalAt(w, n, p)
  /\ IsSeq(w2.vars) /\ Len(w2.vars) < p
  /\ \A k \in DOMAIN w2.vars :
       /\ w.def.code[p - 1 - Len(w2.vars) + k].op \in Pushes
       /\ w.def.code[p - 1 - Len(w2.vars) + k].name = w2.vars[k]

(* What is expected of opcode p. *)
LocalFits(w, p) ==
  LET op == w.def.code[p]
  IN  /\ op.op \in Locals =>
           /\ op.name \in Names /\ LocalAt(w, op.name, p)
           /\ op.slot = IndexOf(op.name, w.locals) /\ op.slot # 0
      /\ op.op \in FunVars =>
           op.name \in Names /\ op.slot \in DOMAIN w.vars /\ w.vars[op.slot] = op.name
      /\ op.op = "BindLocal" =>
           op.name \in Names /\ op.slot = IndexOf(op.name, w.locals) /\ op.slot # 0
GlobalFits(w, p) ==
  LET op == w.def.code[p]
  IN  /\ op.op = "CallWorkspaceVar" =>
           op.name \in Names /\ ~ BoundAt(w, op.name, p) /\ GlobalAt(w, op.name, p)
      /\ op.op = "CallImmediate" =>
           op.slot = 0 /\ op.name \in Builtins /\ ~ BoundAt(w, op.name, p)
      /\ op.op = "PushImmediate" => op.name = None /\ op.slot \in 1 .. MaxTokens
      /\ op.op = "BindWorkspaceVar" => op.name \in Names /\ w.top
Fits(w, W, p) ==
  /\ LocalFits(w, p) /\ GlobalFits(w, p)
  /\ w.def.code[p].op = "PushFun" => \E w2 \in W : Captures(w, w2, p)

(* F[t] is the form in which text t began. *)
Shaped(w, F) ==
  /\ IsSeq(w.def.code) /\ w.def.args \in Seq(Names)
  /\ w.locals \in Seq(Names) /\ w.vars \in Seq(Names)
  /\ w.known \subseteq Names /\ w.globals \subseteq Names /\ w.top \in BOOLEAN
  /\ w.def.mNumLocals = Len(w.locals) /\ w.def.mNumVars = Len(w.vars)
  /\ Len(w.def.args) <= Len(w.locals)
  /\ \A k \in DOMAIN w.def.args : w.locals[k] = w.def.args[k]
  /\ \A k \in DOMAIN w.vars : w.vars[k] \in w.known /\ IndexOf(w.vars[k], w.locals) = 0
  /\ w.def.text \in DOMAIN F /\ w.def.mWorkspace = F[w.def.text]
Typed(w, W, F) == Shaped(w, F) /\ \A p \in DOMAIN w.def.code : Fits(w, W, p)

-----------------------------------------------------------------------------
(* The scopes: the functions that are being written are typed.             *)

KnownTo(i) == {n \in Names : \E j \in 1 .. (i - 1) : IndexOf(n, scopes[j].mLocals) # 0}
GlobalTo(i) == {n \in Names : IF i = 1 THEN forms[mWorkspace][n] # None ELSE InWorkspace(n)}
ScopeTyping(i) ==
  [def |-> NewFunDef(scopes[i]), locals |-> scopes[i].mLocals, vars |-> VarNames(scopes[i]),
   known |-> KnownTo(i), globals |-> GlobalTo(i), top |-> inTopLevel /\ i = 1]

IsScope(s) ==
  s = [kind |-> s.kind, args |-> s.args, mLocals |-> s.mLocals, mVars |-> s.mVars, code |-> s.code]
(* Variable k of scope i is taken from the scope around it, of those in ss. *)
CaptureOK(ss, i, k) ==
  LET def == ss[i].mVars[k]
  IN  /\ i > 1 /\ def.mName \in Names /\ def.mFromScope \in {"Local", "FunVar"}
      /\ def.mFromScope = "Local" =>
           def.mFromIndex = IndexOf(def.mName, ss[i - 1].mLocals) /\ def.mFromIndex # 0
      /\ def.mFromScope = "FunVar" =>
           /\ def.mFromIndex \in DOMAIN ss[i - 1].mVars
           /\ ss[i - 1].mVars[def.mFromIndex].mName = def.mName
ScopeOK(i, W, F) ==
  /\ IsScope(scopes[i]) /\ IsSeq(scopes[i].mVars)
  /\ (scopes[i].kind = "top") = (i = 1)
  /\ i = 1 => scopes[i].mLocals = <<>>
  /\ i = TextLevel => scopes[i].args = <<>>
  /\ \A k \in DOMAIN scopes[i].mVars : CaptureOK(scopes, i, k)
  /\ Typed(ScopeTyping(i), W, F)
  /\ \A n \in Names : IndexOf(n, scopes[i].mLocals) # 0 =>
                        LocalAt(ScopeTyping(i), n, Len(scopes[i].code) + 1)
ScopesOK(W, F) ==
  mode = "parse" =>
    /\ IsSeq(scopes) /\ Level >= TextLevel
    /\ \A i \in DOMAIN scopes : ScopeOK(i, W, F)
    /\ mWorkspaceVars \subseteq Names
    /\ mWorkspaceVars # {} => inTopLevel
    /\ \A n \in mWorkspaceVars : GlobalAt(ScopeTyping(1), n, Len(scopes[1].code) + 1)

-----------------------------------------------------------------------------
(* What runs.                                                              *)

(* Text t has found the name bound, or bound it. *)
Has(t, n) == history[t].start[n] # None \/ history[t].first[n] # None

(* A function is as its typing says. *)
FunFits(f, w) ==
  /\ f.def = w.def /\ w.top = FALSE /\ f.mWorkspace = w.def.mWorkspace
  /\ \A n \in Names : /\ f.env[n] # None <=> n \in w.known
                      /\ f.env[n] # None => IsValue(f.env[n])
  /\ IsSeq(f.mVars) /\ Len(f.mVars) = Len(w.vars)
  /\ \A k \in DOMAIN w.vars : f.mVars[k] = f.env[w.vars[k]]
  /\ \A n \in w.globals : Has(w.def.text, n)
FunsOK(W) == IsSeq(funs) /\ \A i \in DOMAIN funs : \E w \in W : FunFits(funs[i], w)

IsFrame(fr) ==
  fr = [code |-> fr.code, pc |-> fr.pc, stackBase |-> fr.stackBase, mLocals |-> fr.mLocals,
        mVars |-> fr.mVars, mWorkspace |-> fr.mWorkspace, text |-> fr.text, env |-> fr.env]
FrameFits(fr, w) ==
  /\ IsFrame(fr) /\ fr.code = w.def.code /\ fr.text = w.def.text
  /\ fr.pc \in 1 .. (Len(fr.code) + 1)
  /\ IsSeq(fr.mLocals) /\ Len(fr.mLocals) = Len(w.locals)
  /\ IsSeq(fr.mVars) /\ Len(fr.mVars) = Len(w.vars)
  /\ fr.env = [n \in Names |-> fr.env[n]]
  /\ \A n \in Names : /\ fr.env[n] # None <=> BoundAt(w, n, fr.pc)
                      /\ fr.env[n] # None => IsValue(fr.env[n])
                      /\ LocalAt(w, n, fr.pc) => fr.mLocals[IndexOf(n, w.locals)] = fr.env[n]
                      /\ GlobalAt(w, n, fr.pc) => Has(w.def.text, n)
  /\ \A k \in DOMAIN w.vars : fr.mVars[k] = fr.env[w.vars[k]]
(* Only the text itself moves on from the form in which it began. *)
OfText(i) == i = 1 /\ inTopLevel
FrameOK(i, W) ==
  /\ \E w \in W : FrameFits(frames[i], w) /\ (w.top => OfText(i))
                  /\ (~ OfText(i) => frames[i].mWorkspace = w.def.mWorkspace)
  /\ frames[i].mWorkspace \in DOMAIN forms
(* The frames lie on the stack one above the other, and all but the last   *)
(* are at a call.                                                          *)
Nested ==
  /\ frames # <<>> => frames[1].text = Len(history)
  /\ \A i \in DOMAIN frames :
       /\ frames[i].stackBase \in 0 .. Len(stack)
       /\ \A j \in i .. Len(frames) : frames[i].stackBase <= frames[j].stackBase
       /\ i < Len(frames) =>
            frames[i].pc > 1 /\ frames[i].code[frames[i].pc - 1].op \notin Pushes
FramesOK(W) == IsSeq(frames) /\ Nested /\ \A i \in DOMAIN frames : FrameOK(i, W)

(* What the opcodes just before have pushed is on the stack. *)
PushRun ==
  frames # <<>> =>
    \A d \in 1 .. (Top.pc - 1) :
      (\A e \in 1 .. d : Top.code[Top.pc - e].op \in Pushes) =>
        /\ Top.stackBase + d <= Len(stack)
        /\ stack[Len(stack) + 1 - d] = Top.env[Top.code[Top.pc - d].name]

-----------------------------------------------------------------------------
(* The forms.                                                              *)

IsHistory(h) ==
  h = [start |-> [n \in Names |-> h.start[n]], first |-> [n \in Names |-> h.first[n]],
       again |-> h.again, late |-> h.late]
(* What form F[t] binds, by what text t has found and bound. *)
TextOK(t, F) ==
  /\ IsHistory(history[t])
  /\ F[t] \in DOMAIN forms
  /\ \A n \in Names :
       LET h == history[t]
           v == forms[F[t]][n]
       IN  /\ h.start[n] # None => v = h.start[n]
           /\ h.start[n] = None /\ h.first[n] # None => v = h.first[n] \/ (v = None /\ n \in h.late)
           /\ Has(t, n) => forms[mWorkspace][n] # None
CurrentOK(F) ==
  mode # "prompt" =>
    LET t == Len(history)
        h == history[t]
    IN  /\ history # <<>>
        /\ \A n \in Names : ~ Has(t, n) => forms[F[t]][n] = None /\ forms[mWorkspace][n] = None
        /\ mode = "parse" => F[t] = mWorkspace
        /\ mode = "run" /\ inTopLevel =>
             /\ \A n \in Names : forms[frames[1].mWorkspace][n] = forms[mWorkspace][n]
             /\ h.again \/ frames[1].mWorkspace = F[t]
        /\ mode = "parse" => h.again = FALSE
FormsOK(F) ==
  /\ IsSeq(forms) /\ mWorkspace \in DOMAIN forms
  /\ \A f \in DOMAIN forms : forms[f] = [n \in Names |-> forms[f][n]]
  /\ \A f \in DOMAIN forms, n \in Names : forms[f][n] = None \/ IsValue(forms[f][n])
  /\ IsSeq(history) /\ IsSeq(F) /\ Len(F) = Len(history)
  /\ \A t \in DOMAIN history : TextOK(t, F)
  /\ CurrentOK(F)

-----------------------------------------------------------------------------
ModesOK ==
  /\ mode \in {"prompt", "parse", "run"} /\ inTopLevel \in BOOLEAN
  /\ mWorkspaceVars \subseteq Names /\ tokens \in 0 .. MaxTokens
  /\ (mode = "parse") = (scopes # <<>>) /\ (mode = "run") = (frames # <<>>)
  /\ IsSeq(stack) /\ \A i \in DOMAIN stack : IsValue(stack[i])
Parts(W, F) ==
  /\ ModesOK /\ ScopesOK(W, F) /\ FunsOK(W) /\ FramesOK(W) /\ PushRun /\ FormsOK(F)
  /\ \A w \in W : Typed(w, W, F)
Inv == \E W, F : Parts(W, F)
-----------------------------------------------------------------------------
(* Among finitely many things that are ranked by sets of numbers, one has  *)
(* a set that no other's is strictly inside: how induction is done here.   *)
LEMMA Descent ==
  ASSUME NEW n \in Nat, NEW D \in [0 .. n -> SUBSET (0 .. n)],
         NEW S, S \subseteq 0 .. n, S # {}
  PROVE  \E i \in S : \A j \in S : ~ (D[j] \subseteq D[i] /\ D[j] # D[i])
<1> DEFINE T == {D[i] : i \in S}
           R == StrictSubsetOrdering(0 .. n)
<1>1. IsWellFoundedOn(R, SUBSET (0 .. n))
  <2>1. IsFiniteSet(0 .. n)
    BY FS_Interval
  <2> QED BY <2>1, FS_StrictSubsetOrderingWellFounded, FS_FiniteSubsetsOfFinite
<1>2. T \subseteq SUBSET (0 .. n) /\ T # {}
  OBVIOUS
<1>3. PICK X \in T : \A Y \in T : ~ (<<Y, X>> \in R)
  <2> HIDE DEF T, R
  <2> QED BY <1>1, <1>2, WFMin
<1>4. PICK i \in S : X = D[i]
  BY <1>3
<1>5. ASSUME NEW j \in S, D[j] \subseteq D[i], D[j] # D[i] PROVE FALSE
  <2>1. D[j] \in T /\ D[j] \in SUBSET (0 .. n) /\ D[i] \in SUBSET (0 .. n)
    OBVIOUS
  <2>2. <<D[j], X>> \in R
    BY <1>4, <1>5, <2>1 DEF StrictSubsetOrdering
  <2> QED BY <1>3, <2>1, <2>2
<1> QED BY <1>5

(* A nonempty set of numbers has a least one.                              *)
LEMMA LeastExists ==
  ASSUME NEW n \in Nat, NEW S, S \subseteq 0 .. n, S # {}
  PROVE  \E i \in S : \A j \in S : i <= j
<1> DEFINE D == [i \in 0 .. n |-> 0 .. i]
<1>1. D \in [0 .. n -> SUBSET (0 .. n)]
  OBVIOUS
<1>2. \A i \in 0 .. n : D[i] = 0 .. i
  OBVIOUS
<1> HIDE DEF D
<1>3. PICK i \in S : \A j \in S : ~ (D[j] \subseteq D[i] /\ D[j] # D[i])
  <2>1. S \subseteq 0 .. n /\ S # {} /\ n \in Nat
    OBVIOUS
  <2> QED BY ONLY <1>1, <2>1, Descent, ZenonT(60)
<1>4. ASSUME NEW j \in S, ~ (i <= j) PROVE FALSE
  <2>1. i \in 0 .. n /\ j \in 0 .. n /\ j < i
    BY <1>4
  <2>2. 0 .. j \subseteq 0 .. i /\ i \in 0 .. i /\ i \notin 0 .. j
    BY <2>1
  <2>3. D[j] \subseteq D[i] /\ D[j] # D[i]
    BY <1>2, <2>1, <2>2
  <2> QED BY <1>3, <2>3
<1> QED BY <1>4

LEMMA GreatestExists ==
  ASSUME NEW n \in Nat, NEW S, S \subseteq 1 .. n, S # {}
  PROVE  \E i \in S : \A j \in S : j <= i
<1> DEFINE T == {n - i : i \in S}
<1>1. T \subseteq 0 .. n OBVIOUS
<1>2. \A i \in S : n - i \in T OBVIOUS
<1>3. \A k \in T : \E i \in S : k = n - i OBVIOUS
<1> HIDE DEF T
<1>4. PICK k \in T : \A l \in T : k <= l
  <2>1. T # {} BY <1>2
  <2> QED BY <1>1, <2>1, LeastExists
<1>5. PICK i \in S : k = n - i BY <1>3
<1>6. ASSUME NEW j \in S PROVE j <= i
  <2>1. n - i <= n - j BY <1>2, <1>4, <1>5
  <2> QED BY <2>1
<1> QED BY <1>6

(* The first entry of a name is found, if there is one.                    *)
LEMMA IndexOfFound ==
  ASSUME NEW s, IsSeq(s), NEW n, NEW i \in DOMAIN s, s[i] = n
  PROVE  /\ IndexOf(n, s) \in DOMAIN s /\ IndexOf(n, s) # 0 /\ IndexOf(n, s) <= i
         /\ s[IndexOf(n, s)] = n /\ \A j \in 1 .. (IndexOf(n, s) - 1) : s[j] # n
<1> DEFINE S == {j \in DOMAIN s : s[j] = n}
           First(k) == s[k] = n /\ \A j \in 1 .. (k - 1) : s[j] # n
<1>1. Len(s) \in Nat /\ DOMAIN s = 1 .. Len(s) BY SeqIs
<1>2. S \subseteq 0 .. Len(s) /\ S # {} BY <1>1
<1> HIDE DEF S
<1>3. PICK k \in S : \A j \in S : k <= j BY <1>1, <1>2, LeastExists
<1>4. k \in DOMAIN s /\ First(k) BY <1>1, <1>3 DEF S
<1>5. IndexOf(n, s) = CHOOSE l \in DOMAIN s : First(l) BY DEF IndexOf
<1>6. IndexOf(n, s) \in DOMAIN s /\ First(IndexOf(n, s)) BY <1>4, <1>5
<1>7. IndexOf(n, s) <= i
  <2>1. IndexOf(n, s) \in 1 .. Len(s) /\ i \in 1 .. Len(s) BY <1>1, <1>6
  <2> QED BY <1>6, <2>1
<1> QED BY <1>1, <1>6, <1>7

LEMMA IndexOfNone ==
  ASSUME NEW s, NEW n, \A i \in DOMAIN s : s[i] # n
  PROVE  IndexOf(n, s) = 0
  BY DEF IndexOf

(* What is found, it is at its first place.                                *)
LEMMA IndexOfIs ==
  ASSUME NEW s, IsSeq(s), NEW n, IndexOf(n, s) # 0
  PROVE  /\ IndexOf(n, s) \in DOMAIN s /\ IndexOf(n, s) \in 1 .. Len(s)
         /\ s[IndexOf(n, s)] = n /\ \A j \in 1 .. (IndexOf(n, s) - 1) : s[j] # n
<1>1. PICK i \in DOMAIN s : s[i] = n BY IndexOfNone
<1> QED BY <1>1, IndexOfFound, SeqIs

(* A longer list has what it had where it was.                             *)
LEMMA IndexOfLonger ==
  ASSUME NEW s, NEW r, IsSeq(s), IsSeq(r), Len(s) <= Len(r),
         \A i \in 1 .. Len(s) : r[i] = s[i],
         NEW n, IndexOf(n, s) # 0
  PROVE  IndexOf(n, r) = IndexOf(n, s)
<1> DEFINE i == IndexOf(n, s)
           k == IndexOf(n, r)
<1>1. i \in 1 .. Len(s) /\ s[i] = n /\ \A j \in 1 .. (i - 1) : s[j] # n
  BY IndexOfIs
<1>2. Len(s) \in Nat /\ Len(r) \in Nat /\ DOMAIN r = 1 .. Len(r) BY SeqIs
<1> HIDE DEF i
<1>3. i \in DOMAIN r /\ r[i] = n BY <1>1, <1>2
<1>4. k \in 1 .. Len(r) /\ k <= i /\ r[k] = n BY <1>2, <1>3, IndexOfFound
<1> HIDE DEF k
<1>5. k \in 1 .. Len(s) /\ s[k] = n BY <1>1, <1>2, <1>4
<1>6. ~ (k < i) BY <1>1, <1>5
<1> QED BY <1>1, <1>4, <1>5, <1>6 DEF i, k

LEMMA IndexOfAppend ==
  ASSUME NEW s, IsSeq(s), NEW n, NEW m, IndexOf(n, s) = 0
  PROVE  IF n = m THEN IndexOf(n, Append(s, m)) = Len(s) + 1
                  ELSE IndexOf(n, Append(s, m)) = 0
<1> DEFINE r == Append(s, m)
<1>1. /\ IsSeq(r) /\ Len(r) = Len(s) + 1 /\ DOMAIN r = 1 .. (Len(s) + 1) /\ r[Len(s) + 1] = m
      /\ \A i \in 1 .. Len(s) : r[i] = s[i]
  BY SeqAppend
<1>2. Len(s) \in Nat /\ DOMAIN s = 1 .. Len(s) BY SeqIs
<1>3. \A i \in 1 .. Len(s) : r[i] # n
  <2>1. \A i \in DOMAIN s : s[i] # n BY IndexOfFound
  <2> QED BY <1>1, <1>2, <2>1
<1> HIDE DEF r
<1>4. CASE n = m
  <2>1. Len(s) + 1 \in DOMAIN r /\ r[Len(s) + 1] = n BY <1>1, <1>2, <1>4
  <2>2. IndexOf(n, r) \in DOMAIN r /\ r[IndexOf(n, r)] = n BY <1>1, <2>1, IndexOfFound
  <2>3. IndexOf(n, r) = Len(s) + 1 BY <1>1, <1>2, <1>3, <2>2
  <2> QED BY <1>4, <2>3 DEF r
<1>5. CASE n # m
  <2>1. \A i \in DOMAIN r : r[i] # n BY <1>1, <1>2, <1>3, <1>5
  <2> QED BY <1>5, <2>1, IndexOfNone DEF r
<1> QED BY <1>4, <1>5

(* The innermost scope that knows a name.                                  *)
LEMMA HomeIs ==
  ASSUME IsSeq(scopes), NEW n
  PROVE  /\ Home(n) \in 0 .. Len(scopes)
         /\ Home(n) # 0 => Slot(scopes[Home(n)], n).index # 0
         /\ \A j \in (Home(n) + 1) .. Len(scopes) : Slot(scopes[j], n).index = 0
<1> DEFINE S == {i \in 1 .. Len(scopes) : Slot(scopes[i], n).index # 0}
           Innermost(i) == /\ Slot(scopes[i], n).index # 0
                           /\ \A j \in (i + 1) .. Level : Slot(scopes[j], n).index = 0
<1>1. Len(scopes) \in Nat /\ DOMAIN scopes = 1 .. Len(scopes) BY SeqIs
<1>2. CASE S = {}
  <2>1. \A i \in DOMAIN scopes : Slot(scopes[i], n).index = 0 BY <1>1, <1>2
  <2>2. Home(n) = 0 BY <2>1 DEF Home
  <2> QED BY <1>1, <2>1, <2>2
<1>3. CASE S # {}
  <2>1. S \subseteq 1 .. Len(scopes) OBVIOUS
  <2>2. PICK k \in S : \A j \in S : j <= k
    <3> HIDE DEF S
    <3> QED BY <1>1, <1>3, <2>1, GreatestExists
  <2>3. k \in DOMAIN scopes /\ Innermost(k) BY <1>1, <2>2 DEF Level
  <2>4. Home(n) = CHOOSE i \in DOMAIN scopes : Innermost(i) BY <2>3 DEF Home
  <2>5. Home(n) \in DOMAIN scopes /\ Innermost(Home(n)) BY <2>3, <2>4
  <2> QED BY <1>1, <2>5 DEF Level
<1> QED BY <1>2, <1>3

-----------------------------------------------------------------------------
(* Typings.                                                                *)

Longer(s, r) ==
  /\ IsSeq(s) /\ IsSeq(r) /\ Len(s) <= Len(r) /\ \A k \in 1 .. Len(s) : r[k] = s[k]

LEMMA LongerAt ==
  ASSUME NEW s, NEW r, Longer(s, r)
  PROVE  /\ Len(s) \in Nat /\ DOMAIN s = 1 .. Len(s)
         /\ Len(r) \in Nat /\ DOMAIN r = 1 .. Len(r)
         /\ \A k \in DOMAIN s : k \in DOMAIN r /\ r[k] = s[k]
<1>1. IsSeq(s) /\ IsSeq(r) BY DEF Longer
<1>2. /\ Len(s) \in Nat /\ DOMAIN s = 1 .. Len(s)
      /\ Len(r) \in Nat /\ DOMAIN r = 1 .. Len(r)
  BY <1>1, SeqIs
<1> QED BY <1>2 DEF Longer

LEMMA LongerSelf == ASSUME NEW s, IsSeq(s) PROVE Longer(s, s)
  BY SeqIs DEF Longer

LEMMA LongerAppend == ASSUME NEW s, NEW e, IsSeq(s) PROVE Longer(s, Append(s, e))
<1>1. Len(s) \in Nat BY SeqIs
<1> QED BY <1>1, SeqAppend DEF Longer

LEMMA LongerConcat == ASSUME NEW s, NEW r, IsSeq(s), IsSeq(r) PROVE Longer(s, s \o r)
<1>1. Len(s) \in Nat /\ Len(r) \in Nat BY SeqIs
<1> QED BY <1>1, SeqConcat DEF Longer

LEMMA NameSeq == ASSUME NEW s \in Seq(Names) PROVE IsSeq(s)
  BY DEF IsSeq

LEMMA NameSeqIs ==
  ASSUME NEW s, IsSeq(s), \A k \in 1 .. Len(s) : s[k] \in Names
  PROVE  s \in Seq(Names)
<1>1. Len(s) \in Nat /\ s = [i \in 1 .. Len(s) |-> s[i]] BY SeqIs, SeqIsFunction
<1> DEFINE m == Len(s)
<1>2. s \in [1 .. m -> Names] BY <1>1
<1> HIDE DEF m
<1>3. m \in Nat BY <1>1 DEF m
<1> QED BY <1>2, <1>3

(* What has been bound is told by the opcodes before.                      *)
LEMMA BoundByCodeBefore ==
  ASSUME NEW w, NEW w2, NEW n, NEW p \in Nat,
         w2.def.args = w.def.args, w2.known = w.known, w2.globals = w.globals,
         Longer(w.def.code, w2.def.code), p <= Len(w.def.code) + 1
  PROVE  /\ LocalAt(w2, n, p) <=> LocalAt(w, n, p)
         /\ BoundAt(w2, n, p) <=> BoundAt(w, n, p)
         /\ GlobalAt(w2, n, p) <=> GlobalAt(w, n, p)
<1>1. \A q \in 1 .. (p - 1) : w2.def.code[q] = w.def.code[q]
  <2>1. Len(w.def.code) \in Nat BY SeqIs DEF Longer
  <2> QED BY <2>1 DEF Longer
<1>2. LocalAt(w2, n, p) <=> LocalAt(w, n, p) BY <1>1 DEF LocalAt
<1>3. GlobalAt(w2, n, p) <=> GlobalAt(w, n, p) BY <1>1 DEF GlobalAt
<1> QED BY <1>2, <1>3 DEF BoundAt

(* An opcode that fits goes on to fit when the function grows.             *)
LEMMA FitsLonger ==
  ASSUME NEW w, NEW w2, NEW W, NEW W2, NEW p \in DOMAIN w.def.code,
         Fits(w, W, p), W \subseteq W2,
         w2.def.args = w.def.args, w2.def.text = w.def.text,
         w2.known = w.known, w2.globals = w.globals, w2.top = w.top,
         Longer(w.def.code, w2.def.code), Longer(w.locals, w2.locals), Longer(w.vars, w2.vars)
  PROVE  Fits(w2, W2, p)
<1>1. /\ p \in Nat /\ p <= Len(w.def.code) + 1 /\ w2.def.code[p] = w.def.code[p]
      /\ Len(w.def.code) \in Nat /\ p \in 1 .. Len(w.def.code)
  <2>1. IsSeq(w.def.code) BY DEF Longer
  <2>2. Len(w.def.code) \in Nat /\ p \in 1 .. Len(w.def.code) BY <2>1, SeqIs
  <2> QED BY <2>2 DEF Longer
<1>2. \A n : /\ LocalAt(w2, n, p) <=> LocalAt(w, n, p)
             /\ BoundAt(w2, n, p) <=> BoundAt(w, n, p)
             /\ GlobalAt(w2, n, p) <=> GlobalAt(w, n, p)
  BY <1>1, BoundByCodeBefore
<1> DEFINE op == w.def.code[p]
<1>3. LocalFits(w2, p)
  <2>1. \A n : IndexOf(n, w.locals) # 0 => IndexOf(n, w2.locals) = IndexOf(n, w.locals)
    BY IndexOfLonger DEF Longer
  <2>2. \A k \in DOMAIN w.vars : k \in DOMAIN w2.vars /\ w2.vars[k] = w.vars[k]
    <3>1. IsSeq(w.vars) /\ IsSeq(w2.vars) BY DEF Longer
    <3>2. /\ Len(w.vars) \in Nat /\ DOMAIN w.vars = 1 .. Len(w.vars)
          /\ Len(w2.vars) \in Nat /\ DOMAIN w2.vars = 1 .. Len(w2.vars)
      BY <3>1, SeqIs
    <3> QED BY <3>2 DEF Longer
  <2>3. LocalFits(w, p) BY DEF Fits
  <2> QED BY <1>1, <1>2, <2>1, <2>2, <2>3 DEF LocalFits
<1>4. GlobalFits(w2, p)
  <2>1. GlobalFits(w, p) BY DEF Fits
  <2> QED BY <1>1, <1>2, <2>1 DEF GlobalFits
<1>5. ASSUME op.op = "PushFun" PROVE \E v \in W2 : Captures(w2, v, p)
  <2>1. PICK v \in W : Captures(w, v, p) BY <1>5 DEF Fits
  <2>2. {n \in Names : BoundAt(w2, n, p)} = {n \in Names : BoundAt(w, n, p)} BY <1>2
  <2>3. IsSeq(v.vars) /\ Len(v.vars) < p BY <2>1 DEF Captures
  <2>4. \A k \in DOMAIN v.vars :
          w2.def.code[p - 1 - Len(v.vars) + k] = w.def.code[p - 1 - Len(v.vars) + k]
    <3>1. Len(v.vars) \in Nat /\ DOMAIN v.vars = 1 .. Len(v.vars) BY <2>3, SeqIs
    <3>2. \A k \in DOMAIN v.vars : p - 1 - Len(v.vars) + k \in 1 .. Len(w.def.code)
      BY <1>1, <2>3, <3>1
    <3> QED BY <3>2 DEF Longer
  <2>5. /\ v.def = w2.def.code[p].def /\ v.top = FALSE /\ v.def.text = w2.def.text
        /\ v.known = {n \in Names : BoundAt(w2, n, p)}
        /\ \A n \in v.globals : GlobalAt(w2, n, p)
    BY <1>1, <1>2, <2>1, <2>2 DEF Captures
  <2> QED BY <1>5, <2>1, <2>3, <2>4, <2>5 DEF Captures
<1> QED BY <1>1, <1>3, <1>4, <1>5 DEF Fits

(* A typing stays when there are more functions and texts.                 *)
LEMMA TypedMore ==
  ASSUME NEW w, NEW W, NEW W2, NEW F, NEW F2, Typed(w, W, F), W \subseteq W2, Longer(F, F2)
  PROVE  Typed(w, W2, F2)
<1>1. \A t \in DOMAIN F : t \in DOMAIN F2 /\ F2[t] = F[t]
  <2>1. IsSeq(F) /\ IsSeq(F2) BY DEF Longer
  <2>2. /\ Len(F) \in Nat /\ DOMAIN F = 1 .. Len(F)
        /\ Len(F2) \in Nat /\ DOMAIN F2 = 1 .. Len(F2)
    BY <2>1, SeqIs
  <2> QED BY <2>2 DEF Longer
<1>2. Shaped(w, F2)
  BY <1>1 DEF Typed, Shaped
<1>3. \A p \in DOMAIN w.def.code : Fits(w, W2, p)
  BY DEF Typed, Fits
<1> QED BY <1>2, <1>3 DEF Typed

LEMMA TypedSame == ASSUME NEW w, NEW W, NEW W2, NEW F, Typed(w, W, F), W \subseteq W2
                   PROVE  Typed(w, W2, F)
  BY DEF Typed, Fits

(* A typing stays when the function grows by opcodes that fit.             *)
LEMMA TypedLonger ==
  ASSUME NEW w, NEW w2, NEW W, NEW W2, NEW F, Typed(w, W, F), Shaped(w2, F), W \subseteq W2,
         w2.def.args = w.def.args, w2.def.text = w.def.text,
         w2.known = w.known, w2.globals = w.globals, w2.top = w.top,
         Longer(w.def.code, w2.def.code), Longer(w.locals, w2.locals), Longer(w.vars, w2.vars),
         \A p \in (Len(w.def.code) + 1) .. Len(w2.def.code) : Fits(w2, W2, p)
  PROVE  Typed(w2, W2, F)
<1>1. /\ DOMAIN w.def.code = 1 .. Len(w.def.code) /\ Len(w.def.code) \in Nat
      /\ DOMAIN w2.def.code = 1 .. Len(w2.def.code) /\ Len(w2.def.code) \in Nat
  BY SeqIs DEF Longer
<1>2. ASSUME NEW p \in DOMAIN w2.def.code PROVE Fits(w2, W2, p)
  <2>1. CASE p <= Len(w.def.code)
    <3>1. p \in DOMAIN w.def.code BY <1>1, <2>1
    <3>2. Fits(w, W, p) BY <3>1 DEF Typed
    <3> QED BY <3>1, <3>2, FitsLonger
  <2>2. CASE ~ (p <= Len(w.def.code)) BY <1>1, <2>2
  <2> QED BY <2>1, <2>2
<1> QED BY <1>2 DEF Typed

-----------------------------------------------------------------------------
(* Scopes that grow.                                                       *)

LongerScope(s, r) ==
  /\ IsScope(r) /\ r.kind = s.kind /\ r.args = s.args
  /\ Longer(s.mLocals, r.mLocals) /\ Longer(s.mVars, r.mVars) /\ Longer(s.code, r.code)

LEMMA VarNamesAre ==
  ASSUME NEW s, IsSeq(s.mVars)
  PROVE  /\ IsSeq(VarNames(s)) /\ Len(VarNames(s)) = Len(s.mVars)
         /\ DOMAIN VarNames(s) = DOMAIN s.mVars
         /\ \A k \in DOMAIN s.mVars : VarNames(s)[k] = s.mVars[k].mName
<1> DEFINE r == VarNames(s)
<1>1. Len(s.mVars) \in Nat /\ DOMAIN s.mVars = 1 .. Len(s.mVars) BY SeqIs
<1>2. r = [k \in 1 .. Len(s.mVars) |-> s.mVars[k].mName] BY <1>1 DEF VarNames
<1>3. r = [k \in 1 .. Len(s.mVars) |-> r[k]] BY <1>2
<1>4. IsSeq(r) /\ Len(r) = Len(s.mVars) /\ DOMAIN r = 1 .. Len(s.mVars)
  <2> HIDE DEF r
  <2> QED BY <1>1, <1>3, SeqMade
<1> QED BY <1>1, <1>2, <1>4

LEMMA LongerVarNames ==
  ASSUME NEW s, NEW r, Longer(s.mVars, r.mVars)
  PROVE  Longer(VarNames(s), VarNames(r))
<1>1. IsSeq(s.mVars) /\ IsSeq(r.mVars) BY DEF Longer
<1>2. /\ Len(s.mVars) \in Nat /\ DOMAIN s.mVars = 1 .. Len(s.mVars)
      /\ Len(r.mVars) \in Nat /\ DOMAIN r.mVars = 1 .. Len(r.mVars)
  BY <1>1, SeqIs
<1> QED BY <1>1, <1>2, VarNamesAre DEF Longer

LEMMA ScopeGrows ==
  ASSUME NEW W, NEW W2, NEW F, NEW i \in Nat, W \subseteq W2, ScopeOK(i, W, F),
         UNCHANGED <<inTopLevel, mWorkspace, forms, history>>,
         LongerScope(scopes[i], scopes'[i]),
         i > 1 => LongerScope(scopes[i - 1], scopes'[i - 1]),
         KnownTo(i)' = KnownTo(i), GlobalTo(i)' = GlobalTo(i),
         scopes'[i].mLocals \in Seq(Names), i = 1 => scopes'[i].mLocals = <<>>,
         \A k \in DOMAIN scopes'[i].mVars :
           /\ IndexOf(scopes'[i].mVars[k].mName, scopes'[i].mLocals) = 0
           /\ k > Len(scopes[i].mVars) =>
                CaptureOK(scopes, i, k)' /\ scopes'[i].mVars[k].mName \in KnownTo(i),
         \A n \in Names : IndexOf(n, scopes'[i].mLocals) # 0 =>
           \/ IndexOf(n, scopes[i].mLocals) # 0
           \/ LocalAt(ScopeTyping(i)', n, Len(scopes'[i].code) + 1),
         \A p \in (Len(scopes[i].code) + 1) .. Len(scopes'[i].code) :
           Fits(ScopeTyping(i)', W2, p)
  PROVE  ScopeOK(i, W2, F)'
<1> DEFINE s == scopes[i]
           r == scopes'[i]
           w == ScopeTyping(i)
           v == ScopeTyping(i)'
<1>1. /\ w.def.code = s.code /\ w.def.args = s.args /\ w.def.mNumLocals = Len(s.mLocals)
      /\ w.def.mNumVars = Len(s.mVars) /\ w.def.mWorkspace = mWorkspace
      /\ w.def.text = Len(history) /\ w.locals = s.mLocals /\ w.vars = VarNames(s)
      /\ w.known = KnownTo(i) /\ w.globals = GlobalTo(i) /\ w.top = (inTopLevel /\ i = 1)
  BY DEF ScopeTyping, NewFunDef
<1>2. /\ v.def.code = r.code /\ v.def.args = r.args /\ v.def.mNumLocals = Len(r.mLocals)
      /\ v.def.mNumVars = Len(r.mVars) /\ v.def.mWorkspace = mWorkspace
      /\ v.def.text = Len(history) /\ v.locals = r.mLocals /\ v.vars = VarNames(r)
      /\ v.known = KnownTo(i) /\ v.globals = GlobalTo(i) /\ v.top = (inTopLevel /\ i = 1)
  BY DEF ScopeTyping, NewFunDef
<1>3. /\ IsSeq(s.mVars) /\ IsSeq(r.mVars) /\ IsSeq(r.code) /\ IsSeq(s.code)
      /\ IsSeq(s.mLocals) /\ IsSeq(r.mLocals)
  BY DEF LongerScope, Longer
<1>4. /\ Len(s.mVars) \in Nat /\ DOMAIN s.mVars = 1 .. Len(s.mVars)
      /\ Len(r.mVars) \in Nat /\ DOMAIN r.mVars = 1 .. Len(r.mVars)
      /\ \A k \in DOMAIN s.mVars : k \in DOMAIN r.mVars /\ r.mVars[k] = s.mVars[k]
      /\ \A k \in DOMAIN r.mVars : k \in DOMAIN s.mVars \/ k > Len(s.mVars)
  <2>1. /\ Len(s.mVars) \in Nat /\ DOMAIN s.mVars = 1 .. Len(s.mVars)
        /\ Len(r.mVars) \in Nat /\ DOMAIN r.mVars = 1 .. Len(r.mVars)
    BY <1>3, SeqIs
  <2> QED BY <2>1 DEF LongerScope, Longer
<1>5. \A k \in DOMAIN r.mVars : CaptureOK(scopes, i, k)'
  <2>1. ASSUME NEW k \in DOMAIN r.mVars, k \in DOMAIN s.mVars PROVE CaptureOK(scopes, i, k)'
    <3> DEFINE def == s.mVars[k]
    <3>1. /\ i > 1 /\ def.mName \in Names /\ def.mFromScope \in {"Local", "FunVar"}
          /\ def.mFromScope = "Local" =>
               def.mFromIndex = IndexOf(def.mName, scopes[i - 1].mLocals) /\ def.mFromIndex # 0
          /\ def.mFromScope = "FunVar" =>
               /\ def.mFromIndex \in DOMAIN scopes[i - 1].mVars
               /\ scopes[i - 1].mVars[def.mFromIndex].mName = def.mName
      BY <2>1 DEF ScopeOK, CaptureOK
    <3>2. /\ Longer(scopes[i - 1].mLocals, scopes'[i - 1].mLocals)
          /\ Longer(scopes[i - 1].mVars, scopes'[i - 1].mVars)
      BY <3>1 DEF LongerScope
    <3>3. r.mVars[k] = def BY <1>4, <2>1
    <3>4. def.mFromScope = "Local" =>
            def.mFromIndex = IndexOf(def.mName, scopes'[i - 1].mLocals) /\ def.mFromIndex # 0
      <4>1. \A n : IndexOf(n, scopes[i - 1].mLocals) # 0 =>
              IndexOf(n, scopes'[i - 1].mLocals) = IndexOf(n, scopes[i - 1].mLocals)
        BY <3>2, IndexOfLonger DEF Longer
      <4> HIDE DEF def
      <4> QED BY <3>1, <4>1
    <3>5. def.mFromScope = "FunVar" =>
            /\ def.mFromIndex \in DOMAIN scopes'[i - 1].mVars
            /\ scopes'[i - 1].mVars[def.mFromIndex].mName = def.mName
      <4>1. \A l \in DOMAIN scopes[i - 1].mVars :
              l \in DOMAIN scopes'[i - 1].mVars
              /\ scopes'[i - 1].mVars[l] = scopes[i - 1].mVars[l]
        BY <3>2, LongerAt
      <4> HIDE DEF def
      <4> QED BY <3>1, <4>1
    <3> HIDE DEF def
    <3> QED BY <3>1, <3>3, <3>4, <3>5, SMTT(30) DEF CaptureOK
  <2> QED BY <1>4, <2>1
<1>6. Shaped(v, F)
  <2>1. Shaped(w, F) BY DEF ScopeOK, Typed
  <2>2. /\ r.args = s.args /\ Len(s.mLocals) \in Nat /\ Len(r.mLocals) \in Nat
        /\ Len(s.args) <= Len(r.mLocals)
        /\ \A k \in DOMAIN s.args : r.mLocals[k] = s.args[k]
    <3>1. r.args = s.args BY DEF LongerScope
    <3>2. Len(s.mLocals) \in Nat /\ Len(r.mLocals) \in Nat BY <1>3, SeqIs
    <3>3. s.args \in Seq(Names) /\ Len(s.args) <= Len(s.mLocals)
          /\ \A k \in DOMAIN s.args : s.mLocals[k] = s.args[k]
      BY <1>1, <2>1 DEF Shaped
    <3>4. Len(s.args) \in Nat /\ DOMAIN s.args = 1 .. Len(s.args) BY <3>3
    <3>5. /\ \A k \in DOMAIN s.mLocals : r.mLocals[k] = s.mLocals[k]
          /\ DOMAIN s.mLocals = 1 .. Len(s.mLocals) /\ Len(s.mLocals) <= Len(r.mLocals)
      BY LongerAt DEF LongerScope, Longer
    <3> HIDE DEF s, r
    <3> QED BY <3>1, <3>2, <3>3, <3>4, <3>5
  <2>3. /\ Len(VarNames(r)) = Len(r.mVars) /\ VarNames(r) \in Seq(Names)
        /\ \A k \in DOMAIN VarNames(r) :
             VarNames(r)[k] \in KnownTo(i) /\ IndexOf(VarNames(r)[k], r.mLocals) = 0
    <3>1. /\ IsSeq(VarNames(r)) /\ Len(VarNames(r)) = Len(r.mVars)
          /\ DOMAIN VarNames(r) = 1 .. Len(r.mVars)
          /\ \A k \in DOMAIN r.mVars : VarNames(r)[k] = r.mVars[k].mName
      BY <1>3, <1>4, VarNamesAre
    <3>2. \A k \in DOMAIN s.mVars : s.mVars[k].mName \in KnownTo(i)
      <4>1. \A k \in DOMAIN VarNames(s) : VarNames(s)[k] \in KnownTo(i)
        BY <1>1, <2>1 DEF Shaped
      <4> QED BY <1>3, <4>1, VarNamesAre
    <3>3. \A k \in DOMAIN r.mVars : r.mVars[k].mName \in KnownTo(i)
      BY <1>4, <3>2
    <3>4. KnownTo(i) \subseteq Names BY DEF KnownTo
    <3>5. VarNames(r) \in Seq(Names) BY <1>4, <3>1, <3>3, <3>4, NameSeqIs
    <3> QED BY <1>4, <3>1, <3>3, <3>5
  <2> QED BY <1>1, <1>2, <1>3, <2>1, <2>2, <2>3 DEF Shaped
<1>7. Typed(v, W2, F)
  <2>1. Longer(w.def.code, v.def.code) /\ Longer(w.locals, v.locals)
    BY <1>1, <1>2 DEF LongerScope
  <2>2. Longer(w.vars, v.vars)
    BY <1>1, <1>2, LongerVarNames DEF LongerScope
  <2>3. Typed(w, W, F) BY DEF ScopeOK
  <2>4. /\ v.def.args = w.def.args /\ v.known = w.known /\ v.globals = w.globals /\ v.top = w.top
        /\ v.def.text = w.def.text
    BY <1>1, <1>2 DEF LongerScope
  <2>5. \A p \in (Len(w.def.code) + 1) .. Len(v.def.code) : Fits(v, W2, p)
    BY <1>1, <1>2
  <2> HIDE DEF w, v
  <2> QED BY <1>6, <2>1, <2>2, <2>3, <2>4, <2>5, TypedLonger
<1>8. \A n \in Names : IndexOf(n, r.mLocals) # 0 => LocalAt(v, n, Len(r.code) + 1)
  <2>1. ASSUME NEW n \in Names, IndexOf(n, s.mLocals) # 0
        PROVE  LocalAt(v, n, Len(r.code) + 1)
    <3>1. LocalAt(w, n, Len(s.code) + 1) BY <2>1 DEF ScopeOK
    <3>2. Len(s.code) \in Nat /\ Len(r.code) \in Nat BY <1>3, SeqIs
    <3>3. r.args = s.args /\ Len(s.code) <= Len(r.code)
          /\ \A q \in 1 .. Len(s.code) : r.code[q] = s.code[q]
      BY DEF LongerScope, Longer
    <3>4. \/ IndexOf(n, s.args) # 0
          \/ \E q \in 1 .. Len(s.code) : s.code[q].op = "BindLocal" /\ s.code[q].name = n
      <4> HIDE DEF s
      <4>1. Len(s.code) + 1 - 1 = Len(s.code) BY <3>2
      <4> HIDE DEF w
      <4> QED BY <1>1, <3>1, <4>1 DEF LocalAt
    <3>5. Len(r.code) + 1 - 1 = Len(r.code) BY <3>2
    <3>6. \A q \in 1 .. Len(s.code) : q \in 1 .. Len(r.code) BY <3>2, <3>3
    <3>7. CASE IndexOf(n, s.args) # 0
      <4> HIDE DEF v, s, r
      <4> QED BY <1>2, <3>3, <3>7 DEF LocalAt
    <3>8. CASE \E q \in 1 .. Len(s.code) : s.code[q].op = "BindLocal" /\ s.code[q].name = n
      <4> HIDE DEF v, s, r
      <4>1. PICK q \in 1 .. Len(s.code) : s.code[q].op = "BindLocal" /\ s.code[q].name = n
        BY <3>8
      <4>2. q \in 1 .. (Len(r.code) + 1 - 1) /\ v.def.code[q].op = "BindLocal"
            /\ v.def.code[q].name = n
        BY <1>2, <3>3, <3>5, <3>6, <4>1
      <4> QED BY <4>2 DEF LocalAt
    <3> QED BY <3>4, <3>7, <3>8
  <2> QED BY <2>1
<1> QED
  <2>1. /\ IsScope(r) /\ (r.kind = "top") = (i = 1)
        /\ (i = TextLevel)' => r.args = <<>>
    BY DEF ScopeOK, LongerScope, TextLevel
  <2> HIDE DEF v
  <2> QED BY <1>3, <1>5, <1>7, <1>8, <2>1 DEF ScopeOK, v

-----------------------------------------------------------------------------
(* Facts about the scopes.                                                 *)

LEMMA ScopeFacts ==
  ASSUME NEW W, NEW F, NEW i, ScopeOK(i, W, F)
  PROVE  /\ IsScope(scopes[i]) /\ IsSeq(scopes[i].code) /\ IsSeq(scopes[i].mVars)
         /\ scopes[i].mLocals \in Seq(Names) /\ IsSeq(scopes[i].mLocals)
         /\ scopes[i].args \in Seq(Names) /\ IsSeq(scopes[i].args)
         /\ LongerScope(scopes[i], scopes[i])
         /\ \A k \in DOMAIN scopes[i].mVars :
              /\ scopes[i].mVars[k].mName \in KnownTo(i)
              /\ IndexOf(scopes[i].mVars[k].mName, scopes[i].mLocals) = 0
<1> DEFINE s == scopes[i]
           w == ScopeTyping(i)
<1>1. /\ w.def.code = s.code /\ w.def.args = s.args
      /\ w.locals = s.mLocals /\ w.vars = VarNames(s) /\ w.known = KnownTo(i)
  BY DEF ScopeTyping, NewFunDef
<1>2. Shaped(w, F) /\ IsScope(s) /\ IsSeq(s.mVars) BY DEF ScopeOK, Typed
<1>3. /\ IsSeq(s.code) /\ s.mLocals \in Seq(Names) /\ s.args \in Seq(Names)
      /\ \A k \in DOMAIN VarNames(s) :
           VarNames(s)[k] \in KnownTo(i) /\ IndexOf(VarNames(s)[k], s.mLocals) = 0
  BY <1>1, <1>2 DEF Shaped
<1>4. IsSeq(s.mLocals) /\ IsSeq(s.args) BY <1>3, NameSeq
<1>5. LongerScope(s, s) BY <1>2, <1>3, <1>4, LongerSelf DEF LongerScope
<1>6. \A k \in DOMAIN s.mVars : VarNames(s)[k] = s.mVars[k].mName /\ k \in DOMAIN VarNames(s)
  BY <1>2, VarNamesAre
<1> QED BY <1>2, <1>3, <1>4, <1>5, <1>6

(* A scope to whose code opcodes are added.                                *)
LEMMA ScopeEmits ==
  ASSUME NEW W, NEW W2, NEW F, NEW i \in Nat, W \subseteq W2, ScopeOK(i, W, F),
         UNCHANGED <<inTopLevel, mWorkspace, forms, history>>,
         LongerScope(scopes[i], scopes'[i]),
         i > 1 => LongerScope(scopes[i - 1], scopes'[i - 1]),
         KnownTo(i)' = KnownTo(i), GlobalTo(i)' = GlobalTo(i),
         scopes'[i].mLocals = scopes[i].mLocals, scopes'[i].mVars = scopes[i].mVars,
         \A p \in (Len(scopes[i].code) + 1) .. Len(scopes'[i].code) :
           Fits(ScopeTyping(i)', W2, p)
  PROVE  ScopeOK(i, W2, F)'
<1>1. /\ scopes'[i].mLocals \in Seq(Names)
      /\ \A k \in DOMAIN scopes'[i].mVars :
           IndexOf(scopes'[i].mVars[k].mName, scopes'[i].mLocals) = 0
  BY ScopeFacts
<1>2. i = 1 => scopes'[i].mLocals = <<>> BY DEF ScopeOK
<1>3. \A k \in DOMAIN scopes'[i].mVars : ~ (k > Len(scopes[i].mVars))
  <2>1. IsSeq(scopes[i].mVars) BY ScopeFacts
  <2>2. Len(scopes[i].mVars) \in Nat /\ DOMAIN scopes[i].mVars = 1 .. Len(scopes[i].mVars)
    BY <2>1, SeqIs
  <2> QED BY <2>2
<1> QED BY <1>1, <1>2, <1>3, ScopeGrows

LEMMA KnownSame ==
  ASSUME NEW i \in Nat, \A j \in 1 .. (i - 1) : scopes'[j].mLocals = scopes[j].mLocals
  PROVE  KnownTo(i)' = KnownTo(i)
  BY DEF KnownTo

LEMMA GlobalSame ==
  ASSUME NEW i, UNCHANGED <<forms, mWorkspace>>, i = 1 \/ UNCHANGED mWorkspaceVars
  PROVE  GlobalTo(i)' = GlobalTo(i)
  BY DEF GlobalTo, InWorkspace

LEMMA GlobalStays ==
  ASSUME UNCHANGED <<forms, mWorkspace>>, LongerScope(scopes[1], scopes'[1]),
         NEW n, GlobalAt(ScopeTyping(1), n, Len(scopes[1].code) + 1)
  PROVE  GlobalAt(ScopeTyping(1)', n, Len(scopes'[1].code) + 1)
<1> DEFINE s == scopes[1]
           r == scopes'[1]
           w == ScopeTyping(1)
           v == ScopeTyping(1)'
<1>1. /\ w.def.code = s.code /\ w.globals = GlobalTo(1)
      /\ v.def.code = r.code /\ v.globals = GlobalTo(1)
  BY GlobalSame DEF ScopeTyping, NewFunDef
<1>2. /\ Len(s.code) \in Nat /\ Len(r.code) \in Nat /\ Len(s.code) <= Len(r.code)
      /\ \A q \in 1 .. Len(s.code) : r.code[q] = s.code[q]
  BY LongerAt DEF LongerScope, Longer
<1>3. Len(s.code) + 1 - 1 = Len(s.code) /\ Len(r.code) + 1 - 1 = Len(r.code)
      /\ \A q \in 1 .. Len(s.code) : q \in 1 .. Len(r.code)
  BY <1>2
<1> HIDE DEF s, r, w, v
<1>4. CASE n \in w.globals BY <1>1, <1>4 DEF GlobalAt, v
<1>5. CASE \E q \in 1 .. Len(s.code) : s.code[q].op = "BindWorkspaceVar" /\ s.code[q].name = n
  <2>1. PICK q \in 1 .. Len(s.code) : s.code[q].op = "BindWorkspaceVar" /\ s.code[q].name = n
    BY <1>5
  <2>2. q \in 1 .. (Len(r.code) + 1 - 1) /\ v.def.code[q].op = "BindWorkspaceVar"
        /\ v.def.code[q].name = n
    BY <1>1, <1>2, <1>3, <2>1
  <2> QED BY <2>2 DEF GlobalAt, v, r
<1> QED BY <1>1, <1>3, <1>4, <1>5 DEF GlobalAt, w, s

(* What directLookup finds in a scope.                                     *)
LEMMA SlotIs ==
  ASSUME NEW s, IsSeq(s.mLocals), IsSeq(s.mVars), NEW n
  PROVE  /\ \/ Slot(s, n).scope = "Local" /\ Slot(s, n).index = IndexOf(n, s.mLocals)
               /\ IndexOf(n, s.mLocals) # 0
            \/ /\ Slot(s, n).scope = "FunVar" /\ IndexOf(n, s.mLocals) = 0
               /\ Slot(s, n).index = IndexOf(n, VarNames(s)) /\ IndexOf(n, VarNames(s)) # 0
               /\ Slot(s, n).index \in DOMAIN s.mVars
               /\ s.mVars[Slot(s, n).index].mName = n
            \/ /\ Slot(s, n).scope = "Undefined" /\ Slot(s, n).index = 0
               /\ IndexOf(n, s.mLocals) = 0 /\ IndexOf(n, VarNames(s)) = 0
         /\ Slot(s, n).index = 0 <=> Slot(s, n).scope = "Undefined"
<1>1. CASE IndexOf(n, s.mLocals) # 0 BY <1>1 DEF Slot
<1>2. CASE IndexOf(n, s.mLocals) = 0 /\ IndexOf(n, VarNames(s)) # 0
  <2>1. IndexOf(n, VarNames(s)) \in DOMAIN s.mVars
        /\ s.mVars[IndexOf(n, VarNames(s))].mName = n
    BY <1>2, VarNamesAre, IndexOfIs
  <2> QED BY <1>2, <2>1 DEF Slot
<1>3. CASE IndexOf(n, s.mLocals) = 0 /\ IndexOf(n, VarNames(s)) = 0
  BY <1>3 DEF Slot
<1> QED BY <1>1, <1>2, <1>3

LEMMA ScopeFields == ASSUME NEW s, IsScope(s)
                     PROVE  DOMAIN s = {"kind", "args", "mLocals", "mVars", "code"}
  BY DEF IsScope

(* The scopes r are ss with opcodes added to the code of the last, scope l. *)
EmitsTo(ss, l, ops, r) ==
  /\ IsSeq(r) /\ Len(r) = l /\ l \in Nat
  /\ \A i \in 1 .. l : i # l => r[i] = ss[i]
  /\ IsScope(r[l]) /\ r[l].kind = ss[l].kind /\ r[l].args = ss[l].args
  /\ r[l].mLocals = ss[l].mLocals /\ r[l].mVars = ss[l].mVars
  /\ r[l].code = ss[l].code \o ops
  /\ Longer(ss[l].code, r[l].code) /\ Len(r[l].code) = Len(ss[l].code) + Len(ops)
  /\ \A k \in 1 .. Len(ops) : r[l].code[Len(ss[l].code) + k] = ops[k]

LEMMA EmittedIs ==
  ASSUME NEW ss, IsSeq(ss), NEW l, l = Len(ss), l # 0, IsScope(ss[l]), IsSeq(ss[l].code),
         NEW ops, IsSeq(ops), NEW r, r = Emitted(ss, ops)
  PROVE  EmitsTo(ss, l, ops, r)
<1> DEFINE s == ss[l]
           u == [s EXCEPT !.code = @ \o ops]
<1>1. l \in Nat \ {0} /\ l \in 1 .. l /\ DOMAIN ss = 1 .. l
  BY SeqIs
<1>2. r = [ss EXCEPT ![l] = u] BY DEF Emitted
<1>3. IsSeq(r) /\ Len(r) = l /\ r[l] = u /\ \A i \in 1 .. l : i # l => r[i] = ss[i]
  <2> HIDE DEF u
  <2>1. r[l] = u /\ \A i \in 1 .. l : i # l => r[i] = ss[i] BY <1>1, <1>2
  <2>2. r = [i \in 1 .. l |-> r[i]] BY <1>1, <1>2
  <2>3. IsSeq(r) /\ Len(r) = l BY <1>1, <2>2, SeqMade
  <2> QED BY <2>1, <2>3
<1>6. /\ IsScope(u) /\ u.kind = s.kind /\ u.args = s.args /\ u.mLocals = s.mLocals
      /\ u.mVars = s.mVars /\ u.code = s.code \o ops
  <2>1. IsScope(s) OBVIOUS
  <2>2. u = [s EXCEPT !.code = s.code \o ops] OBVIOUS
  <2> HIDE DEF s, u
  <2> QED BY <2>1, <2>2, ScopeFields DEF IsScope
<1>7. /\ Longer(s.code, s.code \o ops) /\ Len(s.code \o ops) = Len(s.code) + Len(ops)
      /\ \A k \in 1 .. Len(ops) : (s.code \o ops)[Len(s.code) + k] = ops[k]
  BY LongerConcat, SeqConcat, SMTT(30)
<1> HIDE DEF u
<1> QED BY <1>1, <1>3, <1>6, <1>7 DEF EmitsTo

LEMMA ParsingFacts ==
  ASSUME NEW W, NEW F, ScopesOK(W, F), mode = "parse"
  PROVE  /\ IsSeq(scopes) /\ Level \in Nat \ {0} /\ Len(scopes) = Level
         /\ DOMAIN scopes = 1 .. Level /\ scopes # <<>> /\ Here = scopes[Level]
         /\ Level >= TextLevel /\ TextLevel \in {1, 2}
         /\ \A i \in 1 .. Level : ScopeOK(i, W, F)
<1>1. IsSeq(scopes) /\ Level >= TextLevel /\ \A i \in DOMAIN scopes : ScopeOK(i, W, F)
  BY DEF ScopesOK
<1>2. Len(scopes) \in Nat /\ DOMAIN scopes = 1 .. Len(scopes) BY <1>1, SeqIs
<1>3. Level \in Nat \ {0} /\ TextLevel \in {1, 2} BY <1>1, <1>2 DEF Level, TextLevel
<1>4. scopes # <<>> BY <1>3, SeqEmpty DEF Level
<1>5. Here = scopes[Level] BY DEF Here, Last, Level
<1> QED BY <1>1, <1>2, <1>3, <1>4, <1>5 DEF Level

(* A parse step that adds variables to the scopes, as in ss, and then      *)
(* opcodes to the code of the innermost.                                   *)
LEMMA StepScopes ==
  ASSUME NEW W, NEW F, NEW ss, NEW ops, NEW L, L = Level, ScopesOK(W, F), mode = "parse", mode' = "parse",
         UNCHANGED <<inTopLevel, mWorkspace, forms, history>>,
         IsSeq(ss), Len(ss) = L, IsSeq(ops), scopes' = Emitted(ss, ops),
         \A i \in 1 .. L :
           /\ LongerScope(scopes[i], ss[i]) /\ ss[i].code = scopes[i].code
           /\ ss[i].mLocals \in Seq(Names) /\ (i = 1 => ss[i].mLocals = <<>>)
           /\ i < L => ss[i].mLocals = scopes[i].mLocals
           /\ \A k \in DOMAIN ss[i].mVars :
                /\ IndexOf(ss[i].mVars[k].mName, ss[i].mLocals) = 0
                /\ k > Len(scopes[i].mVars) =>
                     CaptureOK(ss, i, k) /\ ss[i].mVars[k].mName \in KnownTo(i),
         \A n \in Names : IndexOf(n, ss[L].mLocals) # 0 =>
           \/ IndexOf(n, Here.mLocals) # 0
           \/ \E k \in 1 .. Len(ops) : ops[k].op = "BindLocal" /\ ops[k].name = n,
         mWorkspaceVars \subseteq mWorkspaceVars', mWorkspaceVars' \subseteq Names,
         mWorkspaceVars' = mWorkspaceVars \/ (L = 1 /\ inTopLevel),
         \A n \in mWorkspaceVars' \ mWorkspaceVars :
           \E k \in 1 .. Len(ops) : ops[k].op = "BindWorkspaceVar" /\ ops[k].name = n,
         \A k \in 1 .. Len(ops) : Fits(ScopeTyping(L)', W, Len(Here.code) + k)
  PROVE  ScopesOK(W, F)'
<1>1. /\ IsSeq(scopes) /\ L \in Nat \ {0} /\ Len(scopes) = L
      /\ DOMAIN scopes = 1 .. L /\ Here = scopes[L]
      /\ L >= TextLevel /\ TextLevel \in {1, 2} /\ \A i \in 1 .. L : ScopeOK(i, W, F)
  BY ParsingFacts
<1>2. IsSeq(ss[L].code) /\ IsScope(ss[L]) /\ ss # <<>> /\ L \in 1 .. L
  <2>1. L \in 1 .. L BY <1>1
  <2>2. ss # <<>> BY <1>1, SeqEmpty
  <2> QED BY <2>1, <2>2 DEF LongerScope, Longer
<1>3. /\ IsSeq(scopes') /\ Len(scopes') = L /\ \A i \in 1 .. L : i # L => scopes'[i] = ss[i]
      /\ IsScope(scopes'[L]) /\ scopes'[L].kind = ss[L].kind /\ scopes'[L].args = ss[L].args
      /\ scopes'[L].mLocals = ss[L].mLocals /\ scopes'[L].mVars = ss[L].mVars
      /\ scopes'[L].code = Here.code \o ops /\ Longer(Here.code, scopes'[L].code)
      /\ Len(scopes'[L].code) = Len(Here.code) + Len(ops)
      /\ \A k \in 1 .. Len(ops) : scopes'[L].code[Len(Here.code) + k] = ops[k]
  <2>1. ss[L].code = Here.code BY <1>1, <1>2
  <2>2. L = Len(ss) /\ L # 0 BY <1>1
  <2>3. EmitsTo(ss, L, ops, scopes') BY <1>2, <2>2, EmittedIs
  <2> QED BY <2>1, <2>3 DEF EmitsTo
<1>4. \A i \in 1 .. L : /\ LongerScope(scopes[i], scopes'[i])
                        /\ scopes'[i].mLocals = ss[i].mLocals /\ scopes'[i].mVars = ss[i].mVars
                        /\ i < L => scopes'[i] = ss[i]
  <2>1. LongerScope(scopes[L], scopes'[L])
    BY <1>1, <1>2, <1>3 DEF LongerScope
  <2> QED BY <1>1, <1>3, <2>1
<1>5. DOMAIN scopes' = 1 .. L BY <1>3, SeqIs
<1>6. /\ Len(Here.code) \in Nat /\ Len(ops) \in Nat
      /\ Len(scopes'[L].code) = Len(Here.code) + Len(ops)
  <2>1. IsSeq(Here.code) BY <1>3 DEF Longer
  <2> QED BY <1>3, <2>1, SeqIs
<1>7. ASSUME NEW i \in 1 .. L PROVE ScopeOK(i, W, F)'
  <2>1. i \in Nat /\ ScopeOK(i, W, F) /\ (i > 1 => i - 1 \in 1 .. L) BY <1>1
  <2>2. KnownTo(i)' = KnownTo(i)
    <3>1. \A j \in 1 .. (i - 1) : scopes'[j].mLocals = scopes[j].mLocals BY <1>1, <1>4
    <3> QED BY <2>1, <3>1, KnownSame
  <2>3. GlobalTo(i)' = GlobalTo(i)
    <3>1. i = 1 \/ UNCHANGED mWorkspaceVars BY <1>1
    <3> QED BY <3>1, GlobalSame
  <2>4. \A k \in DOMAIN scopes'[i].mVars :
          /\ IndexOf(scopes'[i].mVars[k].mName, scopes'[i].mLocals) = 0
          /\ k > Len(scopes[i].mVars) =>
               CaptureOK(scopes, i, k)' /\ scopes'[i].mVars[k].mName \in KnownTo(i)
    <3>1. ASSUME NEW k \in DOMAIN ss[i].mVars, CaptureOK(ss, i, k) PROVE CaptureOK(scopes, i, k)'
      <4>1. /\ i > 1 /\ scopes'[i].mVars = ss[i].mVars
            /\ scopes'[i - 1].mLocals = ss[i - 1].mLocals /\ scopes'[i - 1].mVars = ss[i - 1].mVars
        BY <1>4, <2>1, <3>1 DEF CaptureOK
      <4> QED BY <3>1, <4>1 DEF CaptureOK
    <3> QED BY <1>4, <3>1
  <2>5. scopes'[i].mLocals \in Seq(Names) /\ (i = 1 => scopes'[i].mLocals = <<>>) BY <1>4
  <2>6. \A p \in (Len(scopes[i].code) + 1) .. Len(scopes'[i].code) : Fits(ScopeTyping(i)', W, p)
    <3>1. CASE i = L
      <4>1. ASSUME NEW p \in (Len(Here.code) + 1) .. Len(scopes'[L].code)
            PROVE  Fits(ScopeTyping(L)', W, p)
        <5>1. p - Len(Here.code) \in 1 .. Len(ops) /\ Len(Here.code) + (p - Len(Here.code)) = p
          BY <1>6
        <5> QED BY <5>1
      <4> QED BY <1>1, <3>1, <4>1
    <3>2. CASE i # L
      <4>1. scopes'[i].code = scopes[i].code BY <1>1, <1>4, <3>2
      <4>2. Len(scopes[i].code) \in Nat BY <1>4, LongerAt DEF LongerScope
      <4> QED BY <4>1, <4>2
    <3> QED BY <3>1, <3>2
  <2>7. \A n \in Names : IndexOf(n, scopes'[i].mLocals) # 0 =>
           \/ IndexOf(n, scopes[i].mLocals) # 0
           \/ LocalAt(ScopeTyping(i)', n, Len(scopes'[i].code) + 1)
    <3>1. CASE i = L
      <4>1. ASSUME NEW n \in Names,
                   NEW k \in 1 .. Len(ops), ops[k].op = "BindLocal", ops[k].name = n
            PROVE  LocalAt(ScopeTyping(L)', n, Len(scopes'[L].code) + 1)
        <5>1. /\ Len(Here.code) + k \in 1 .. (Len(scopes'[L].code) + 1 - 1)
              /\ scopes'[L].code[Len(Here.code) + k] = ops[k]
          BY <1>3, <1>6
        <5>2. (ScopeTyping(L)').def.code = scopes'[L].code BY DEF ScopeTyping, NewFunDef
        <5> QED BY <4>1, <5>1, <5>2, SMTT(30) DEF LocalAt
      <4> QED BY <1>1, <1>4, <3>1, <4>1
    <3>2. CASE i # L BY <1>1, <1>4, <3>2
    <3> QED BY <3>1, <3>2
  <2> QED BY <1>4, <2>1, <2>2, <2>3, <2>4, <2>5, <2>6, <2>7, ScopeGrows
<1>8. mWorkspaceVars' # {} => inTopLevel'
  BY DEF ScopesOK
<1>9. ASSUME NEW n \in mWorkspaceVars'
      PROVE  GlobalAt(ScopeTyping(1)', n, Len(scopes'[1].code) + 1)
  <2>1. CASE n \in mWorkspaceVars
    <3>1. GlobalAt(ScopeTyping(1), n, Len(scopes[1].code) + 1) BY <2>1 DEF ScopesOK
    <3>2. LongerScope(scopes[1], scopes'[1]) BY <1>1, <1>4
    <3> QED BY <3>1, <3>2, GlobalStays
  <2>2. CASE n \notin mWorkspaceVars
    <3>1. L = 1 BY <2>2
    <3>2. PICK k \in 1 .. Len(ops) : ops[k].op = "BindWorkspaceVar" /\ ops[k].name = n
      BY <2>2
    <3>3. /\ Len(Here.code) + k \in 1 .. (Len(scopes'[1].code) + 1 - 1)
          /\ scopes'[1].code[Len(Here.code) + k] = ops[k]
      BY <1>3, <1>6, <3>1, SMTT(30)
    <3>4. (ScopeTyping(1)').def.code = scopes'[1].code BY DEF ScopeTyping, NewFunDef
    <3>5. PICK w, q : w = ScopeTyping(1)' /\ q = Len(Here.code) + k OBVIOUS
    <3>6. PICK p : p = Len(scopes'[1].code) + 1 OBVIOUS
    <3>7. /\ q \in 1 .. (p - 1) /\ w.def.code[q].op = "BindWorkspaceVar"
          /\ w.def.code[q].name = n
      <4>1. q \in 1 .. (p - 1) BY ONLY <3>3, <3>5, <3>6
      <4>2. w.def.code = scopes'[1].code BY ONLY <3>4, <3>5
      <4>3. w.def.code[q] = ops[k] BY ONLY <3>3, <3>5, <4>2
      <4> QED BY ONLY <3>2, <4>1, <4>3
    <3>8. GlobalAt(w, n, p) BY ONLY <3>7 DEF GlobalAt
    <3> QED BY <3>5, <3>6, <3>8
  <2> QED BY <2>1, <2>2
<1> QED
  <2>1. Level' = L /\ TextLevel' = TextLevel BY <1>3 DEF Level, TextLevel
  <2> QED BY <1>1, <1>3, <1>5, <1>7, <1>8, <1>9, <2>1 DEF ScopesOK

-----------------------------------------------------------------------------
(* Parsing.                                                                *)

LEMMA FunsStay ==
  ASSUME NEW W, NEW W2, FunsOK(W), W \subseteq W2, UNCHANGED <<funs, history>>
  PROVE  FunsOK(W2)'
<1>1. \A v : IsValue(v)' <=> IsValue(v) BY DEF IsValue
<1>2. \A t, n : Has(t, n)' <=> Has(t, n) BY DEF Has
<1>3. \A f, w : FunFits(f, w) => FunFits(f, w)' BY <1>1, <1>2 DEF FunFits
<1> QED BY <1>3 DEF FunsOK

LEMMA ParseKeeps ==
  ASSUME NEW W, NEW W2, NEW F, Parts(W, F), W \subseteq W2, mode = "parse",
         mode' \in {"prompt", "parse"}, UNCHANGED <<inTopLevel, running>>,
         mWorkspaceVars' \subseteq Names, tokens' \in 0 .. MaxTokens,
         (mode' = "parse") = (scopes' # <<>>),
         \A w \in W2 : Typed(w, W2, F), ScopesOK(W2, F)'
  PROVE  Parts(W2, F)'
<1>1. UNCHANGED <<frames, stack, funs, forms, mWorkspace, history>> BY DEF running
<1>2. frames = <<>> /\ DOMAIN frames = {} BY SeqEmpty DEF Parts, ModesOK
<1>3. ModesOK'
  <2>1. ModesOK BY DEF Parts
  <2> QED BY <1>1, <2>1 DEF ModesOK, IsValue
<1>4. FunsOK(W2)'
  <2>1. FunsOK(W) BY DEF Parts
  <2> QED BY <1>1, <2>1, FunsStay
<1>5. FramesOK(W2)' /\ PushRun'
  <2>1. IsSeq(frames) BY DEF Parts, FramesOK
  <2> QED BY <1>1, <1>2, <2>1 DEF FramesOK, Nested, PushRun
<1>6. FormsOK(F)'
  <2>1. FormsOK(F) BY DEF Parts
  <2>2. CurrentOK(F)'
    <3>1. CurrentOK(F) BY <2>1 DEF FormsOK
    <3> QED BY <1>1, <3>1 DEF CurrentOK, Has
  <2>3. \A t \in DOMAIN history : TextOK(t, F)'
    <3>1. \A t \in DOMAIN history : TextOK(t, F) BY <2>1 DEF FormsOK
    <3> QED BY <1>1, <3>1 DEF TextOK, Has
  <2> QED BY <1>1, <2>1, <2>2, <2>3 DEF FormsOK, IsValue
<1> QED BY <1>3, <1>4, <1>5, <1>6 DEF Parts

(* The text is given up. *)
LEMMA RefuseKeeps ==
  ASSUME NEW W, NEW F, Parts(W, F), mode = "parse", UNCHANGED <<inTopLevel, running>>,
         tokens' \in 0 .. MaxTokens, Refuse
  PROVE  Parts(W, F)'
<1>1. /\ mode' = "prompt" /\ scopes' = <<>> /\ mWorkspaceVars' \subseteq Names
      /\ (mode' = "parse") = (scopes' # <<>>)
  BY DEF Refuse
<1>2. ScopesOK(W, F)' BY <1>1 DEF ScopesOK
<1>3. \A w \in W : Typed(w, W, F) BY DEF Parts
<1> QED BY <1>1, <1>2, <1>3, ParseKeeps

LEMMA TokensKept ==
  ASSUME NEW W, NEW F, Parts(W, F), NEW n \in Nat, Tokens(n)
  PROVE  /\ mode = "parse" /\ tokens' \in 0 .. MaxTokens
         /\ n # 0 => tokens' \in 1 .. MaxTokens
<1>1. MaxTokens \in Nat BY ClosuresAssumption
<1>2. tokens \in 0 .. MaxTokens BY DEF Parts, ModesOK
<1> QED BY <1>1, <1>2 DEF Tokens

(* The typing of the function that is written, after opcodes are added.    *)
TypedWith(ss, l, ops, v) ==
  /\ v.def.args = Here.args /\ v.locals = ss[l].mLocals /\ v.vars = VarNames(ss[l])
  /\ v.known = KnownTo(l) /\ v.globals = GlobalTo(l) /\ v.top = (inTopLevel /\ l = 1)
  /\ v.def.code = Here.code \o ops
  /\ \A k \in 1 .. Len(ops) : v.def.code[Len(Here.code) + k] = ops[k]
  /\ \A n : /\ LocalAt(v, n, Len(Here.code) + 1) <=>
                 LocalAt(ScopeTyping(l), n, Len(Here.code) + 1)
            /\ BoundAt(v, n, Len(Here.code) + 1) <=>
                 BoundAt(ScopeTyping(l), n, Len(Here.code) + 1)
            /\ GlobalAt(v, n, Len(Here.code) + 1) <=>
                 GlobalAt(ScopeTyping(l), n, Len(Here.code) + 1)

LEMMA StepTyping ==
  ASSUME NEW W, NEW F, NEW ss, NEW ops, NEW L, L = Level, ScopesOK(W, F), mode = "parse",
         UNCHANGED <<inTopLevel, mWorkspace, forms, history>>,
         IsSeq(ss), Len(ss) = L, IsSeq(ops), scopes' = Emitted(ss, ops),
         \A i \in 1 .. L : LongerScope(scopes[i], ss[i]) /\ ss[i].code = scopes[i].code,
         \A i \in 1 .. (L - 1) : ss[i].mLocals = scopes[i].mLocals,
         mWorkspaceVars' = mWorkspaceVars \/ L = 1
  PROVE  TypedWith(ss, L, ops, ScopeTyping(L)')
<1>1. /\ IsSeq(scopes) /\ L \in Nat \ {0} /\ Len(scopes) = L /\ L \in 1 .. L
      /\ Here = scopes[L] /\ ScopeOK(L, W, F)
  BY ParsingFacts
<1>2. ss[L].code = Here.code /\ IsScope(ss[L]) /\ IsSeq(ss[L].code) /\ ss[L].args = Here.args
  BY <1>1, ScopeFacts DEF LongerScope
<1>3. EmitsTo(ss, L, ops, scopes')
  <2>1. L = Len(ss) /\ L # 0 BY <1>1
  <2> QED BY <1>2, <2>1, EmittedIs
<1> DEFINE w == ScopeTyping(L)
           v == ScopeTyping(L)'
<1>4. KnownTo(L)' = KnownTo(L)
  <2>1. \A j \in 1 .. (L - 1) : scopes'[j].mLocals = scopes[j].mLocals
    BY <1>1, <1>3 DEF EmitsTo
  <2> QED BY <1>1, <2>1, KnownSame
<1>5. GlobalTo(L)' = GlobalTo(L) BY GlobalSame
<1>6. /\ v.def.args = Here.args /\ v.locals = ss[L].mLocals /\ v.vars = VarNames(ss[L])
      /\ v.known = KnownTo(L) /\ v.globals = GlobalTo(L) /\ v.top = (inTopLevel /\ L = 1)
      /\ v.def.code = Here.code \o ops
      /\ \A k \in 1 .. Len(ops) : v.def.code[Len(Here.code) + k] = ops[k]
      /\ Longer(Here.code, v.def.code)
  BY <1>2, <1>3, <1>4, <1>5 DEF EmitsTo, ScopeTyping, NewFunDef, VarNames
<1>7. /\ w.def.args = Here.args /\ w.known = KnownTo(L) /\ w.globals = GlobalTo(L)
      /\ w.def.code = Here.code
  BY <1>1 DEF ScopeTyping, NewFunDef
<1>8. Len(Here.code) \in Nat BY <1>2, SeqIs
<1> HIDE DEF w, v
<1>9. Len(Here.code) + 1 \in Nat /\ Len(Here.code) + 1 <= Len(w.def.code) + 1
  BY <1>7, <1>8
<1>10. \A n : /\ LocalAt(v, n, Len(Here.code) + 1) <=> LocalAt(w, n, Len(Here.code) + 1)
              /\ BoundAt(v, n, Len(Here.code) + 1) <=> BoundAt(w, n, Len(Here.code) + 1)
              /\ GlobalAt(v, n, Len(Here.code) + 1) <=> GlobalAt(w, n, Len(Here.code) + 1)
  BY <1>6, <1>7, <1>9, BoundByCodeBefore
<1> QED BY <1>6, <1>10 DEF TypedWith, w, v

(* What a function has bound is among its variables.                       *)
LEMMA LocalKnown ==
  ASSUME NEW W, NEW F, NEW i, ScopeOK(i, W, F), NEW n,
         LocalAt(ScopeTyping(i), n, Len(scopes[i].code) + 1)
  PROVE  IndexOf(n, scopes[i].mLocals) # 0
<1> DEFINE s == scopes[i]
           w == ScopeTyping(i)
<1>1. w.def.code = s.code /\ w.def.args = s.args /\ w.locals = s.mLocals
  BY DEF ScopeTyping, NewFunDef
<1>2. /\ IsSeq(s.code) /\ IsSeq(s.mLocals) /\ IsSeq(s.args) BY ScopeFacts
<1>3. Typed(w, W, F) BY DEF ScopeOK
<1>4. Len(s.code) \in Nat /\ DOMAIN s.code = 1 .. Len(s.code) BY <1>2, SeqIs
<1>5. Len(s.args) \in Nat /\ DOMAIN s.args = 1 .. Len(s.args) BY <1>2, SeqIs
<1> HIDE DEF w, s
<1>6. CASE IndexOf(n, s.args) # 0
  <2>1. Len(s.args) <= Len(s.mLocals) /\ \A k \in 1 .. Len(s.args) : s.mLocals[k] = s.args[k]
    BY <1>1, <1>3, <1>5 DEF Typed, Shaped
  <2> QED BY <1>2, <1>6, <2>1, IndexOfLonger DEF s
<1>7. CASE \E q \in 1 .. Len(s.code) : s.code[q].op = "BindLocal" /\ s.code[q].name = n
  <2>1. PICK q \in 1 .. Len(s.code) : s.code[q].op = "BindLocal" /\ s.code[q].name = n BY <1>7
  <2>2. LocalFits(w, q) BY <1>1, <1>3, <1>4 DEF Typed, Fits
  <2>3. IndexOf(n, s.mLocals) # 0 BY <1>1, <2>1, <2>2 DEF LocalFits
  <2> QED BY <2>3 DEF s
<1>8. LocalAt(w, n, Len(s.code) + 1) BY DEF w, s
<1>9. Len(s.code) + 1 - 1 = Len(s.code) BY <1>4
<1> QED BY <1>1, <1>6, <1>7, <1>8, <1>9 DEF LocalAt

(* A name that no scope knows is not bound.                                *)
LEMMA NotBound ==
  ASSUME NEW W, NEW F, NEW L, L = Level, ScopesOK(W, F), mode = "parse",
         NEW n \in Names, Home(n) = 0
  PROVE  ~ BoundAt(ScopeTyping(L), n, Len(Here.code) + 1)
<1>1. /\ IsSeq(scopes) /\ L \in Nat \ {0} /\ Len(scopes) = L /\ L \in 1 .. L
      /\ Here = scopes[L] /\ \A i \in 1 .. L : ScopeOK(i, W, F)
  BY ParsingFacts
<1>2. \A i \in 1 .. L : IndexOf(n, scopes[i].mLocals) = 0
  <2>1. \A i \in 1 .. L : Slot(scopes[i], n).index = 0
    <3>1. \A i \in (0 + 1) .. L : Slot(scopes[i], n).index = 0 BY <1>1, HomeIs
    <3> QED BY <1>1, <3>1
  <2>2. \A i \in 1 .. L : IsSeq(scopes[i].mLocals) /\ IsSeq(scopes[i].mVars)
    BY <1>1, ScopeFacts
  <2> QED BY <2>1, <2>2, SlotIs
<1>3. ~ LocalAt(ScopeTyping(L), n, Len(Here.code) + 1) BY <1>1, <1>2, LocalKnown
<1>4. n \notin KnownTo(L) BY <1>1, <1>2 DEF KnownTo
<1>5. (ScopeTyping(L)).known = KnownTo(L) BY DEF ScopeTyping
<1> QED BY <1>3, <1>4, <1>5 DEF BoundAt

(* A name in the workspace is bound at the top level.                      *)
LEMMA InWorkspaceBound ==
  ASSUME NEW W, NEW F, NEW L, L \in 1 .. Level, ScopesOK(W, F), mode = "parse",
         NEW n \in Names, InWorkspace(n)
  PROVE  GlobalAt(ScopeTyping(L), n, Len(scopes[L].code) + 1)
<1>1. (ScopeTyping(L)).globals = GlobalTo(L) BY DEF ScopeTyping
<1>2. CASE L = 1 /\ n \in mWorkspaceVars BY <1>2 DEF ScopesOK
<1>3. CASE ~ (L = 1 /\ n \in mWorkspaceVars)
  <2>1. n \in GlobalTo(L) BY <1>3 DEF GlobalTo, InWorkspace
  <2> QED BY <1>1, <2>1 DEF GlobalAt
<1> QED BY <1>2, <1>3

(* The scopes ss are those there are with free variables added.            *)
CapturesIn(ss, l) ==
  /\ IsSeq(ss) /\ Len(ss) = l
  /\ \A i \in 1 .. l :
       /\ LongerScope(scopes[i], ss[i]) /\ ss[i].code = scopes[i].code
       /\ ss[i].mLocals = scopes[i].mLocals
       /\ \A k \in DOMAIN ss[i].mVars :
            /\ IndexOf(ss[i].mVars[k].mName, ss[i].mLocals) = 0
            /\ k > Len(scopes[i].mVars) =>
                 CaptureOK(ss, i, k) /\ ss[i].mVars[k].mName \in KnownTo(i)

LEMMA NothingCaptured ==
  ASSUME NEW W, NEW F, NEW L, L = Level, ScopesOK(W, F), mode = "parse"
  PROVE  CapturesIn(scopes, L)
<1>1. /\ IsSeq(scopes) /\ L \in Nat \ {0} /\ Len(scopes) = L
      /\ \A i \in 1 .. L : ScopeOK(i, W, F)
  BY ParsingFacts
<1>2. ASSUME NEW i \in 1 .. L
      PROVE  /\ LongerScope(scopes[i], scopes[i])
             /\ \A k \in DOMAIN scopes[i].mVars :
                  /\ IndexOf(scopes[i].mVars[k].mName, scopes[i].mLocals) = 0
                  /\ ~ (k > Len(scopes[i].mVars))
  <2>1. LongerScope(scopes[i], scopes[i]) /\ IsSeq(scopes[i].mVars)
        /\ \A k \in DOMAIN scopes[i].mVars :
             IndexOf(scopes[i].mVars[k].mName, scopes[i].mLocals) = 0
    BY <1>1, ScopeFacts
  <2>2. Len(scopes[i].mVars) \in Nat /\ DOMAIN scopes[i].mVars = 1 .. Len(scopes[i].mVars)
    BY <2>1, SeqIs
  <2> QED BY <2>1, <2>2
<1> QED BY <1>1, <1>2 DEF CapturesIn

LEMMA CapturesAre ==
  ASSUME NEW W, NEW F, NEW L, L = Level, ScopesOK(W, F), mode = "parse",
         NEW n \in Names, Home(n) # 0, NEW ss, ss = WithCaptures(n)
  PROVE  CapturesIn(ss, L) /\ Slot(ss[L], n).index # 0
<1> DEFINE h == Home(n)
<1>1. /\ IsSeq(scopes) /\ L \in Nat \ {0} /\ Len(scopes) = L /\ L \in 1 .. L
      /\ DOMAIN scopes = 1 .. L /\ \A i \in 1 .. L : ScopeOK(i, W, F)
  BY ParsingFacts
<1>2. \A i \in 1 .. L : /\ IsScope(scopes[i]) /\ IsSeq(scopes[i].mLocals)
                        /\ IsSeq(scopes[i].mVars) /\ IsSeq(scopes[i].code)
                        /\ LongerScope(scopes[i], scopes[i])
                        /\ \A k \in DOMAIN scopes[i].mVars :
                             /\ scopes[i].mVars[k].mName \in KnownTo(i)
                             /\ IndexOf(scopes[i].mVars[k].mName, scopes[i].mLocals) = 0
  BY <1>1, ScopeFacts
<1>3. /\ h \in 1 .. L /\ Slot(scopes[h], n).index # 0
      /\ \A i \in (h + 1) .. L : Slot(scopes[i], n).index = 0
  BY <1>1, HomeIs
<1>4. /\ \A i \in 1 .. L : i <= h => ss[i] = scopes[i]
      /\ \A i \in 1 .. L :
           i > h => ss[i] = [scopes[i] EXCEPT !.mVars = Append(@, Captured(i, n))]
      /\ ss = [i \in 1 .. L |-> ss[i]]
  BY <1>1, <1>3 DEF WithCaptures
<1> HIDE DEF h
<1>5. IsSeq(ss) /\ Len(ss) = L BY <1>1, <1>4, SeqMade
<1>6. ASSUME NEW i \in 1 .. L, i > h
      PROVE  /\ IsScope(ss[i]) /\ ss[i].kind = scopes[i].kind /\ ss[i].args = scopes[i].args
             /\ ss[i].mLocals = scopes[i].mLocals /\ ss[i].code = scopes[i].code
             /\ ss[i].mVars = Append(scopes[i].mVars, Captured(i, n))
  <2>1. IsScope(scopes[i])
        /\ ss[i] = [scopes[i] EXCEPT !.mVars = Append(scopes[i].mVars, Captured(i, n))]
    BY <1>2, <1>4, <1>6
  <2> QED BY <2>1, ScopeFields DEF IsScope
<1>7. ASSUME NEW i \in 1 .. L, i > h
      PROVE  IndexOf(n, scopes[i].mLocals) = 0 /\ IndexOf(n, VarNames(scopes[i])) = 0
  <2>1. Slot(scopes[i], n).index = 0 BY <1>3, <1>7
  <2> QED BY <1>2, <2>1, SlotIs
<1>8. ASSUME NEW i \in 1 .. L, i > h PROVE n \in KnownTo(i)
  <2>1. CASE IndexOf(n, scopes[h].mLocals) # 0
    BY <1>3, <1>8, <2>1 DEF KnownTo
  <2>2. CASE IndexOf(n, scopes[h].mLocals) = 0
    <3>1. PICK k \in DOMAIN scopes[h].mVars : scopes[h].mVars[k].mName = n
      BY <1>2, <1>3, <2>2, SlotIs
    <3>2. n \in KnownTo(h) BY <1>2, <1>3, <3>1
    <3> QED BY <1>3, <1>8, <3>2 DEF KnownTo
  <2> QED BY <2>1, <2>2
<1>9. ASSUME NEW i \in 1 .. L, i > h
      PROVE
        /\ IsSeq(ss[i].mVars) /\ Len(ss[i].mVars) = Len(scopes[i].mVars) + 1
        /\ DOMAIN ss[i].mVars = 1 .. (Len(scopes[i].mVars) + 1)
        /\ Len(scopes[i].mVars) \in Nat /\ DOMAIN scopes[i].mVars = 1 .. Len(scopes[i].mVars)
        /\ \A k \in 1 .. Len(scopes[i].mVars) : ss[i].mVars[k] = scopes[i].mVars[k]
        /\ ss[i].mVars[Len(scopes[i].mVars) + 1] = Captured(i, n)
  <2>1. IsSeq(scopes[i].mVars) /\ ss[i].mVars = Append(scopes[i].mVars, Captured(i, n))
    BY <1>2, <1>6, <1>9
  <2>2. Len(scopes[i].mVars) \in Nat /\ DOMAIN scopes[i].mVars = 1 .. Len(scopes[i].mVars)
    BY <2>1, SeqIs
  <2> QED BY <2>1, <2>2, SeqAppend
<1>10. \A i : Captured(i, n).mName = n BY DEF Captured
<1>11. ASSUME NEW i \in 1 .. L, i > h PROVE CaptureOK(ss, i, Len(scopes[i].mVars) + 1)
  <2> DEFINE def == Captured(i, n)
  <2>1. ss[i].mVars[Len(scopes[i].mVars) + 1] = def /\ def.mName = n /\ i > 1
    BY <1>3, <1>9, <1>10, <1>11
  <2>2. CASE i = h + 1
    <3>1. i - 1 = h /\ ss[i - 1] = scopes[h] BY <1>3, <1>4, <2>2
    <3>2. def.mFromScope = Slot(scopes[h], n).scope /\ def.mFromIndex = Slot(scopes[h], n).index
      BY <2>2, <3>1 DEF Captured, h
    <3>3. \/ /\ Slot(scopes[h], n).scope = "Local" /\ IndexOf(n, scopes[h].mLocals) # 0
             /\ Slot(scopes[h], n).index = IndexOf(n, scopes[h].mLocals)
          \/ /\ Slot(scopes[h], n).scope = "FunVar"
             /\ Slot(scopes[h], n).index \in DOMAIN scopes[h].mVars
             /\ scopes[h].mVars[Slot(scopes[h], n).index].mName = n
      BY <1>2, <1>3, SlotIs
    <3> HIDE DEF def
    <3> QED BY <2>1, <3>1, <3>2, <3>3 DEF CaptureOK
  <2>3. CASE i # h + 1
    <3>1. i - 1 \in 1 .. L /\ i - 1 > h BY <1>1, <1>3, <1>11, <2>3
    <3>2. def.mFromScope = "FunVar" /\ def.mFromIndex = Len(scopes[i - 1].mVars) + 1
      BY <2>3 DEF Captured, h
    <3>3. /\ Len(scopes[i - 1].mVars) + 1 \in DOMAIN ss[i - 1].mVars
          /\ ss[i - 1].mVars[Len(scopes[i - 1].mVars) + 1].mName = n
      BY <1>9, <1>10, <3>1
    <3> HIDE DEF def
    <3> QED BY <2>1, <3>2, <3>3 DEF CaptureOK
  <2> QED BY <2>2, <2>3
<1>12. ASSUME NEW i \in 1 .. L
       PROVE  /\ LongerScope(scopes[i], ss[i]) /\ ss[i].code = scopes[i].code
              /\ ss[i].mLocals = scopes[i].mLocals
              /\ \A k \in DOMAIN ss[i].mVars :
                   /\ IndexOf(ss[i].mVars[k].mName, ss[i].mLocals) = 0
                   /\ k > Len(scopes[i].mVars) =>
                        CaptureOK(ss, i, k) /\ ss[i].mVars[k].mName \in KnownTo(i)
  <2>1. CASE i <= h
    <3>1. ss[i] = scopes[i] BY <1>4, <2>1
    <3>2. \A k \in DOMAIN scopes[i].mVars : ~ (k > Len(scopes[i].mVars))
      <4>1. Len(scopes[i].mVars) \in Nat /\ DOMAIN scopes[i].mVars = 1 .. Len(scopes[i].mVars)
        BY <1>2, SeqIs
      <4> QED BY <4>1
    <3> QED BY <1>2, <3>1, <3>2
  <2>2. CASE i > h
    <3>1. /\ IsScope(ss[i]) /\ ss[i].kind = scopes[i].kind /\ ss[i].args = scopes[i].args
          /\ ss[i].mLocals = scopes[i].mLocals /\ ss[i].code = scopes[i].code
          /\ ss[i].mVars = Append(scopes[i].mVars, Captured(i, n))
      BY <1>6, <2>2
    <3>2. Longer(scopes[i].mVars, ss[i].mVars) BY <1>2, <3>1, LongerAppend
    <3>3. LongerScope(scopes[i], ss[i]) BY <1>2, <3>1, <3>2 DEF LongerScope
    <3>4. ASSUME NEW k \in DOMAIN ss[i].mVars
          PROVE  /\ IndexOf(ss[i].mVars[k].mName, ss[i].mLocals) = 0
                 /\ k > Len(scopes[i].mVars) =>
                      CaptureOK(ss, i, k) /\ ss[i].mVars[k].mName \in KnownTo(i)
      <4>1. CASE k \in DOMAIN scopes[i].mVars
        BY <1>2, <1>9, <2>2, <3>1, <4>1
      <4>2. CASE k \notin DOMAIN scopes[i].mVars
        <5>1. /\ k \in 1 .. (Len(scopes[i].mVars) + 1) /\ Len(scopes[i].mVars) \in Nat
              /\ k \notin 1 .. Len(scopes[i].mVars)
              /\ ss[i].mVars[Len(scopes[i].mVars) + 1] = Captured(i, n)
          BY <1>9, <2>2, <4>2
        <5>2. k = Len(scopes[i].mVars) + 1 BY <5>1
        <5>3. ss[i].mVars[k].mName = n BY <1>10, <5>1, <5>2
        <5> QED BY <1>7, <1>8, <1>11, <2>2, <3>1, <5>2, <5>3
      <4> QED BY <4>1, <4>2
    <3> QED BY <3>1, <3>3, <3>4
  <2> QED BY <1>3, <2>1, <2>2
<1>13. Slot(ss[L], n).index # 0
  <2>1. CASE h = L BY <1>1, <1>3, <1>4, <2>1
  <2>2. CASE h # L
    <3>1. L > h BY <1>1, <1>3, <2>2
    <3> DEFINE k == Len(scopes[L].mVars) + 1
               r == ss[L]
    <3>2. IsSeq(r.mVars) /\ k \in DOMAIN r.mVars /\ r.mVars[k].mName = n
      BY <1>1, <1>9, <1>10, <3>1
    <3>3. IsSeq(r.mLocals) BY <1>1, <1>2, <1>12
    <3> HIDE DEF k, r
    <3>4. IsSeq(VarNames(r)) /\ k \in DOMAIN VarNames(r) /\ VarNames(r)[k] = n
      BY <3>2, VarNamesAre
    <3>5. IndexOf(n, VarNames(r)) # 0 BY <3>4, IndexOfFound
    <3> QED BY <3>2, <3>3, <3>5, SlotIs DEF r
  <2> QED BY <2>1, <2>2
<1> QED BY <1>5, <1>12, <1>13 DEF CapturesIn

(* Adding an opcode that binds nothing.                                    *)
LEMMA StepWord ==
  ASSUME NEW W, NEW F, NEW L, L = Level, ScopesOK(W, F), mode = "parse", mode' = "parse",
         UNCHANGED <<inTopLevel, mWorkspace, forms, history, mWorkspaceVars>>,
         NEW ss, CapturesIn(ss, L), NEW op, scopes' = Emitted(ss, <<op>>),
         TypedWith(ss, L, <<op>>, ScopeTyping(L)') =>
           Fits(ScopeTyping(L)', W, Len(Here.code) + 1)
  PROVE  ScopesOK(W, F)'
<1>1. /\ IsSeq(scopes) /\ L \in Nat \ {0} /\ Len(scopes) = L /\ L \in 1 .. L
      /\ Here = scopes[L] /\ \A i \in 1 .. L : ScopeOK(i, W, F)
  BY ParsingFacts
<1>2. IsSeq(<<op>>) /\ Len(<<op>>) = 1 BY SeqOne
<1>3. \A i \in 1 .. L :
           /\ LongerScope(scopes[i], ss[i]) /\ ss[i].code = scopes[i].code
           /\ ss[i].mLocals \in Seq(Names) /\ (i = 1 => ss[i].mLocals = <<>>)
           /\ ss[i].mLocals = scopes[i].mLocals
           /\ \A k \in DOMAIN ss[i].mVars :
                /\ IndexOf(ss[i].mVars[k].mName, ss[i].mLocals) = 0
                /\ k > Len(scopes[i].mVars) =>
                     CaptureOK(ss, i, k) /\ ss[i].mVars[k].mName \in KnownTo(i)
  <2>1. \A i \in 1 .. L : scopes[i].mLocals \in Seq(Names) /\ (i = 1 => scopes[i].mLocals = <<>>)
    BY <1>1, ScopeFacts DEF ScopeOK
  <2> QED BY <2>1 DEF CapturesIn
<1>4. IsSeq(ss) /\ Len(ss) = L BY DEF CapturesIn
<1>5. TypedWith(ss, L, <<op>>, ScopeTyping(L)')
  BY <1>1, <1>2, <1>3, <1>4, StepTyping, SMTT(30)
<1>6. \A k \in 1 .. Len(<<op>>) : Fits(ScopeTyping(L)', W, Len(Here.code) + k)
  BY <1>2, <1>5
<1>7. mWorkspaceVars \subseteq Names BY DEF ScopesOK
<1>8. \A n \in Names : IndexOf(n, ss[L].mLocals) # 0 => IndexOf(n, Here.mLocals) # 0
  BY <1>1, <1>3
<1> QED BY <1>2, <1>3, <1>4, <1>6, <1>7, <1>8, StepScopes, ZenonT(60)

(* When an opcode of each kind fits.                                       *)
LEMMA OpFits ==
  ASSUME NEW w, NEW W, NEW p, NEW o, NEW n, NEW k, w.def.code[p] = Op(o, n, k),
         \/ /\ o \in Locals /\ n \in Names /\ LocalAt(w, n, p)
            /\ k = IndexOf(n, w.locals) /\ k # 0
         \/ o \in FunVars /\ n \in Names /\ k \in DOMAIN w.vars /\ w.vars[k] = n
         \/ o = "BindLocal" /\ n \in Names /\ k = IndexOf(n, w.locals) /\ k # 0
         \/ o = "CallWorkspaceVar" /\ n \in Names /\ ~ BoundAt(w, n, p) /\ GlobalAt(w, n, p)
         \/ o = "CallImmediate" /\ k = 0 /\ n \in Builtins /\ ~ BoundAt(w, n, p)
         \/ o = "PushImmediate" /\ n = None /\ k \in 1 .. MaxTokens
         \/ o = "BindWorkspaceVar" /\ n \in Names /\ w.top
         \/ o = "Apply"
  PROVE  Fits(w, W, p)
<1> DEFINE op == w.def.code[p]
<1>1. op.op = o /\ op.name = n /\ op.slot = k BY DEF Op
<1>2. LocalFits(w, p) BY <1>1 DEF LocalFits, Locals, FunVars
<1>3. GlobalFits(w, p) BY <1>1 DEF GlobalFits, Locals, FunVars
<1>4. op.op # "PushFun" BY <1>1 DEF Locals, FunVars
<1> QED BY <1>2, <1>3, <1>4 DEF Fits

LEMMA ParseWordKeeps ==
  ASSUME NEW W, NEW F, Parts(W, F), ParseWord
  PROVE  Parts(W, F)'
<1>0. PICK L : L = Level OBVIOUS
<1>1. mode = "parse" /\ tokens' \in 0 .. MaxTokens /\ UNCHANGED <<inTopLevel, running>>
      /\ ScopesOK(W, F)
  <2>1. Tokens(1) BY DEF ParseWord
  <2> QED BY <2>1, TokensKept DEF ParseWord, Parts
<1>2. UNCHANGED <<mWorkspace, forms, history>> BY <1>1 DEF running
<1>3. /\ IsSeq(scopes) /\ L \in Nat \ {0} /\ Len(scopes) = L /\ L \in 1 .. L
      /\ Here = scopes[L] /\ \A i \in 1 .. L : ScopeOK(i, W, F)
  BY <1>0, <1>1, ParsingFacts
<1>4. ASSUME ScopesOK(W, F)', mode' = mode, mWorkspaceVars' = mWorkspaceVars, scopes' # <<>>
      PROVE  Parts(W, F)'
  <2>1. mWorkspaceVars' \subseteq Names /\ \A w \in W : Typed(w, W, F)
    BY <1>4 DEF Parts, ModesOK
  <2>2. mode' \in {"prompt", "parse"} /\ (mode' = "parse") = (scopes' # <<>>) BY <1>1, <1>4
  <2> QED BY <1>1, <1>4, <2>1, <2>2, ParseKeeps
<1>5. ASSUME NEW ss, CapturesIn(ss, L), NEW op, scopes' = Emitted(ss, <<op>>)
      PROVE  scopes' # <<>>
  <2>1. IsSeq(ss) /\ DOMAIN ss = 1 .. L BY <1>5, SeqIs DEF CapturesIn
  <2>2. DOMAIN scopes' = 1 .. L BY <1>5, <2>1 DEF Emitted
  <2>3. DOMAIN <<>> = {} BY SeqEmpty
  <2> QED BY <1>3, <2>2, <2>3
<1>6. PICK n \in Names :
        \/ /\ Home(n) # 0
           /\ scopes' = Emitted(WithCaptures(n),
                <<Op(CallOp(Slot(Last(WithCaptures(n)), n).scope), n,
                     Slot(Last(WithCaptures(n)), n).index)>>)
           /\ UNCHANGED <<mode, mWorkspaceVars>>
        \/ /\ Home(n) = 0 /\ InWorkspace(n) /\ Emit(Op("CallWorkspaceVar", n, 0))
           /\ UNCHANGED <<mode, mWorkspaceVars>>
        \/ /\ Home(n) = 0 /\ n \in Builtins /\ Emit(Op("CallImmediate", n, 0))
           /\ UNCHANGED <<mode, mWorkspaceVars>>
        \/ Refuse
  BY DEF ParseWord
<1>7. CASE Home(n) # 0 /\ UNCHANGED <<mode, mWorkspaceVars>>
           /\ scopes' = Emitted(WithCaptures(n),
                <<Op(CallOp(Slot(Last(WithCaptures(n)), n).scope), n,
                     Slot(Last(WithCaptures(n)), n).index)>>)
  <2> DEFINE ss == WithCaptures(n)
             slot == Slot(ss[L], n)
             op == Op(CallOp(slot.scope), n, slot.index)
             v == ScopeTyping(L)'
             p == Len(Here.code) + 1
  <2>1. CapturesIn(ss, L) /\ slot.index # 0
    BY <1>0, <1>1, <1>7, CapturesAre
  <2>2. Last(ss) = ss[L] BY <2>1 DEF CapturesIn, Last
  <2>3. scopes' = Emitted(ss, <<op>>) BY <1>7, <2>2
  <2> HIDE DEF ss
  <2>4. IsSeq(ss[L].mLocals) /\ IsSeq(ss[L].mVars) /\ ss[L].mLocals = Here.mLocals
    BY <1>3, <2>1 DEF CapturesIn, LongerScope, Longer
  <2>5. ASSUME TypedWith(ss, L, <<op>>, v) PROVE Fits(v, W, p)
    <3>1. v.def.code[p] = op /\ v.locals = ss[L].mLocals /\ v.vars = VarNames(ss[L])
          /\ (LocalAt(v, n, p) <=> LocalAt(ScopeTyping(L), n, p))
      BY <2>5, SeqOne DEF TypedWith
    <3>2. CASE slot.scope = "Local"
      <4>1. slot.index = IndexOf(n, v.locals) /\ slot.index # 0
        BY <2>1, <2>4, <3>1, <3>2, SlotIs
      <4>2. LocalAt(ScopeTyping(L), n, p)
        BY <1>3, <2>4, <3>1, <4>1 DEF ScopeOK
      <4>3. CallOp(slot.scope) \in Locals BY <3>2 DEF CallOp, Locals
      <4> HIDE DEF p, v, slot
      <4> QED BY <3>1, <4>1, <4>2, <4>3, OpFits
    <3>3. CASE slot.scope # "Local"
      <4>1. slot.index \in DOMAIN ss[L].mVars /\ ss[L].mVars[slot.index].mName = n
        BY <2>1, <2>4, <3>3, SlotIs
      <4>2. slot.index \in DOMAIN v.vars /\ v.vars[slot.index] = n
        BY <2>4, <3>1, <4>1, VarNamesAre
      <4>3. CallOp(slot.scope) \in FunVars BY <3>3 DEF CallOp, FunVars
      <4> HIDE DEF p, v, slot
      <4> QED BY <3>1, <4>2, <4>3, OpFits
    <3> QED BY <3>2, <3>3
  <2> HIDE DEF op, v, p
  <2>6. ScopesOK(W, F)'
    BY <1>0, <1>1, <1>2, <1>7, <2>1, <2>3, <2>5, StepWord DEF v, p
  <2> QED BY <1>4, <1>5, <1>7, <2>1, <2>3, <2>6
<1>8. ASSUME Home(n) = 0, NEW op, scopes' = Emitted(scopes, <<op>>), mode' = mode,
             mWorkspaceVars' = mWorkspaceVars,
             \/ InWorkspace(n) /\ op = Op("CallWorkspaceVar", n, 0)
             \/ n \in Builtins /\ op = Op("CallImmediate", n, 0)
      PROVE  Parts(W, F)'
  <2> DEFINE v == ScopeTyping(L)'
             p == Len(Here.code) + 1
  <2>1. CapturesIn(scopes, L) BY <1>0, <1>1, NothingCaptured
  <2>2. ~ BoundAt(ScopeTyping(L), n, p) BY <1>0, <1>1, <1>8, NotBound
  <2>3. ASSUME TypedWith(scopes, L, <<op>>, v) PROVE Fits(v, W, p)
    <3>1. /\ v.def.code[p] = op /\ (BoundAt(v, n, p) <=> BoundAt(ScopeTyping(L), n, p))
          /\ (GlobalAt(v, n, p) <=> GlobalAt(ScopeTyping(L), n, p))
      BY <2>3, SeqOne DEF TypedWith
    <3>2. ASSUME InWorkspace(n) PROVE GlobalAt(ScopeTyping(L), n, p)
      BY <1>0, <1>1, <1>3, <3>2, InWorkspaceBound
    <3> HIDE DEF v, p
    <3> QED BY <1>8, <2>2, <3>1, <3>2, OpFits
  <2> HIDE DEF v, p
  <2>4. ScopesOK(W, F)'
    BY <1>0, <1>1, <1>2, <1>8, <2>1, <2>3, StepWord DEF v, p
  <2> QED BY <1>4, <1>5, <1>8, <2>1, <2>4
<1>9. CASE Refuse
  <2>1. UNCHANGED <<inTopLevel, running>> BY <1>1
  <2> QED BY <1>1, <1>9, <2>1, RefuseKeeps
<1> QED BY <1>6, <1>7, <1>8, <1>9 DEF Emit

LEMMA BoundIs ==
  ASSUME NEW op, NEW ops, ops = Bound(op)
  PROVE  /\ IsSeq(ops) /\ Len(ops) \in 1 .. Len(ops) /\ ops[Len(ops)] = op
         /\ \A k \in 1 .. Len(ops) : ops[k] = op \/ ops[k] = Op("PushImmediate", None, tokens')
<1>1. CASE ops = <<op>> BY <1>1, SeqOne
<1>2. CASE ops = <<Op("PushImmediate", None, tokens'), op>>
  <2>1. IsSeq(ops) /\ Len(ops) = 2 /\ ops[2] = op /\ ops[1] = Op("PushImmediate", None, tokens')
    BY <1>2, SeqTwo
  <2> QED BY <2>1
<1> QED BY <1>1, <1>2 DEF Bound

(* A step that binds: the opcode fits once the scopes are known.           *)
LEMMA StepBind ==
  ASSUME NEW W, NEW F, NEW L, L = Level, Parts(W, F), mode = "parse", mode' = "parse",
         UNCHANGED <<inTopLevel, running>>, tokens' \in 1 .. MaxTokens,
         NEW ss, IsSeq(ss), Len(ss) = L, NEW n \in Names, NEW o, NEW slot,
         scopes' = Emitted(ss, Bound(Op(o, n, slot))),
         \A i \in 1 .. L :
           /\ LongerScope(scopes[i], ss[i]) /\ ss[i].code = scopes[i].code
           /\ ss[i].mLocals \in Seq(Names) /\ (i = 1 => ss[i].mLocals = <<>>)
           /\ i < L => ss[i].mLocals = scopes[i].mLocals
           /\ \A k \in DOMAIN ss[i].mVars :
                /\ IndexOf(ss[i].mVars[k].mName, ss[i].mLocals) = 0
                /\ ~ (k > Len(scopes[i].mVars)),
         \A m \in Names : IndexOf(m, ss[L].mLocals) # 0 =>
           IndexOf(m, Here.mLocals) # 0 \/ (o = "BindLocal" /\ m = n),
         \/ /\ o = "BindLocal" /\ slot = IndexOf(n, ss[L].mLocals) /\ slot # 0
            /\ mWorkspaceVars' = mWorkspaceVars
         \/ /\ o = "BindWorkspaceVar" /\ L = 1 /\ inTopLevel
            /\ mWorkspaceVars' \in {mWorkspaceVars, mWorkspaceVars \cup {n}}
  PROVE  Parts(W, F)'
<1>0. PICK ops : ops = Bound(Op(o, n, slot)) OBVIOUS
<1> DEFINE op == Op(o, n, slot)
           v == ScopeTyping(L)'
<1>1. /\ IsSeq(ops) /\ Len(ops) \in 1 .. Len(ops) /\ ops[Len(ops)] = op
      /\ \A k \in 1 .. Len(ops) : ops[k] = op \/ ops[k] = Op("PushImmediate", None, tokens')
  BY <1>0, BoundIs
<1>2. /\ ScopesOK(W, F) /\ mWorkspaceVars \subseteq Names /\ (\A w \in W : Typed(w, W, F))
      /\ mWorkspaceVars' \subseteq Names /\ mWorkspaceVars \subseteq mWorkspaceVars'
      /\ (mWorkspaceVars' = mWorkspaceVars \/ L = 1)
      /\ UNCHANGED <<inTopLevel, mWorkspace, forms, history>>
  BY DEF Parts, ModesOK, running
<1>3. op.op = o /\ op.name = n BY DEF Op
<1>4. scopes' = Emitted(ss, ops) BY <1>0
<1>5. /\ IsSeq(scopes) /\ L \in Nat \ {0} /\ Len(scopes) = L /\ L \in 1 .. L
      /\ Here = scopes[L] /\ ScopeOK(L, W, F)
  BY <1>2, ParsingFacts
<1>6. \A i \in 1 .. (L - 1) : ss[i].mLocals = scopes[i].mLocals BY <1>5
<1>7. TypedWith(ss, L, ops, v)
  BY <1>1, <1>2, <1>4, <1>6, StepTyping
<1>8. ASSUME NEW k \in 1 .. Len(ops) PROVE Fits(v, W, Len(Here.code) + k)
  <2> DEFINE p == Len(Here.code) + k
  <2>1. v.def.code[p] = ops[k] /\ v.locals = ss[L].mLocals /\ v.top = (inTopLevel /\ L = 1)
    BY <1>7 DEF TypedWith
  <2> HIDE DEF v, p
  <2>2. ASSUME ops[k] = op PROVE Fits(v, W, p)
    <3>1. \/ o = "BindLocal" /\ n \in Names /\ slot = IndexOf(n, v.locals) /\ slot # 0
          \/ o = "BindWorkspaceVar" /\ n \in Names /\ v.top
      BY <2>1
    <3>2. v.def.code[p] = Op(o, n, slot) BY <2>1, <2>2
    <3> QED BY ONLY <3>1, <3>2, OpFits
  <2>3. ASSUME ops[k] = Op("PushImmediate", None, tokens') PROVE Fits(v, W, p)
    <3>1. v.def.code[p] = Op("PushImmediate", None, tokens') /\ tokens' \in 1 .. MaxTokens
      BY <2>1, <2>3
    <3> QED BY ONLY <3>1, OpFits
  <2> QED BY <1>1, <2>2, <2>3 DEF p
<1>9. \A m \in Names : IndexOf(m, ss[L].mLocals) # 0 =>
           \/ IndexOf(m, Here.mLocals) # 0
           \/ \E k \in 1 .. Len(ops) : ops[k].op = "BindLocal" /\ ops[k].name = m
  <2> HIDE DEF op
  <2> QED BY <1>1, <1>3
<1>10. \A m \in mWorkspaceVars' \ mWorkspaceVars :
           \E k \in 1 .. Len(ops) : ops[k].op = "BindWorkspaceVar" /\ ops[k].name = m
  <2> HIDE DEF op
  <2> QED BY <1>1, <1>3
<1>11. ScopesOK(W, F)'
  <2> HIDE DEF op
  <2>1. mWorkspaceVars' = mWorkspaceVars \/ (L = 1 /\ inTopLevel) OBVIOUS
  <2>2. \A i \in 1 .. L :
           /\ LongerScope(scopes[i], ss[i]) /\ ss[i].code = scopes[i].code
           /\ ss[i].mLocals \in Seq(Names) /\ (i = 1 => ss[i].mLocals = <<>>)
           /\ i < L => ss[i].mLocals = scopes[i].mLocals
           /\ \A k \in DOMAIN ss[i].mVars :
                /\ IndexOf(ss[i].mVars[k].mName, ss[i].mLocals) = 0
                /\ k > Len(scopes[i].mVars) =>
                     CaptureOK(ss, i, k) /\ ss[i].mVars[k].mName \in KnownTo(i)
    OBVIOUS
  <2> HIDE DEF v
  <2> QED BY <1>1, <1>2, <1>4, <1>8, <1>9, <1>10, <2>1, <2>2, StepScopes DEF v
<1>12. scopes' # <<>>
  <2>1. DOMAIN ss = 1 .. L BY SeqIs
  <2>2. DOMAIN scopes' = 1 .. L BY <1>4, <2>1 DEF Emitted
  <2>3. DOMAIN <<>> = {} BY SeqEmpty
  <2> QED BY <1>5, <2>2, <2>3
<1>13. tokens' \in 0 .. MaxTokens BY ClosuresAssumption
<1> QED BY <1>2, <1>11, <1>12, <1>13, ParseKeeps

LEMMA ParseBindTopKeeps ==
  ASSUME NEW W, NEW F, Parts(W, F), ParseBindTop
  PROVE  Parts(W, F)'
<1>0. PICK L : L = Level OBVIOUS
<1>1. mode = "parse" /\ tokens' \in 1 .. MaxTokens /\ UNCHANGED <<mode, inTopLevel, running>>
      /\ ScopesOK(W, F)
  <2>1. Tokens(1) BY DEF ParseBindTop
  <2> QED BY <2>1, TokensKept DEF ParseBindTop, Parts
<1>2. /\ IsSeq(scopes) /\ L \in Nat \ {0} /\ Len(scopes) = L /\ L \in 1 .. L
      /\ Here = scopes[L] /\ (\A i \in 1 .. L : ScopeOK(i, W, F)) /\ L >= TextLevel
  BY <1>0, <1>1, ParsingFacts
<1>3. L = 1 /\ inTopLevel
  <2>1. Here.kind = "top" BY DEF ParseBindTop
  <2>2. L = 1 BY <1>2, <2>1 DEF ScopeOK
  <2> QED BY <1>2, <2>2 DEF TextLevel
<1>4. PICK n \in Names :
        /\ mWorkspaceVars' \in {mWorkspaceVars, mWorkspaceVars \cup {n}}
        /\ scopes' = Emitted(scopes, Bound(Op("BindWorkspaceVar", n, 0)))
  BY DEF ParseBindTop
<1>5. CapturesIn(scopes, L) BY <1>0, <1>1, NothingCaptured
<1>6. \A i \in 1 .. L : scopes[i].mLocals \in Seq(Names) /\ (i = 1 => scopes[i].mLocals = <<>>)
  BY <1>2, ScopeFacts DEF ScopeOK
<1>7. \A i \in 1 .. L :
        LongerScope(scopes[i], scopes[i])
        /\ \A k \in DOMAIN scopes[i].mVars :
             IndexOf(scopes[i].mVars[k].mName, scopes[i].mLocals) = 0
             /\ ~ (k > Len(scopes[i].mVars))
  <2>1. ASSUME NEW i \in 1 .. L, NEW k \in DOMAIN scopes[i].mVars
        PROVE ~ (k > Len(scopes[i].mVars))
    <3>1. Len(scopes[i].mVars) \in Nat /\ DOMAIN scopes[i].mVars = 1 .. Len(scopes[i].mVars)
      BY <1>2, ScopeFacts, SeqIs
    <3> QED BY <3>1
  <2> QED BY <1>5, <2>1 DEF CapturesIn
<1> QED BY <1>0, <1>1, <1>2, <1>3, <1>4, <1>6, <1>7, StepBind

LEMMA ParseBindInnerKeeps ==
  ASSUME NEW W, NEW F, Parts(W, F), ParseBindInner
  PROVE  Parts(W, F)'
<1>0. PICK L : L = Level OBVIOUS
<1>1. /\ mode = "parse" /\ tokens' \in 1 .. MaxTokens /\ tokens' \in 0 .. MaxTokens
      /\ UNCHANGED <<inTopLevel, running>> /\ ScopesOK(W, F)
  <2>1. Tokens(1) BY DEF ParseBindInner
  <2> QED BY <2>1, TokensKept DEF ParseBindInner, Parts
<1>2. /\ IsSeq(scopes) /\ L \in Nat \ {0} /\ Len(scopes) = L /\ L \in 1 .. L
      /\ DOMAIN scopes = 1 .. L
      /\ Here = scopes[L] /\ (\A i \in 1 .. L : ScopeOK(i, W, F)) /\ L >= TextLevel
  BY <1>0, <1>1, ParsingFacts
<1>3. L # 1
  <2>1. Here.kind = "inner" BY DEF ParseBindInner
  <2> QED BY <1>2, <2>1 DEF ScopeOK
<1>4. PICK n \in Names :
       \/ Refuse
       \/ /\ Slot(Here, n).scope # "FunVar" /\ UNCHANGED <<mode, mWorkspaceVars>>
          /\ LET bound == IF Slot(Here, n).scope = "Local" THEN scopes
                          ELSE [scopes EXCEPT ![Level].mLocals = Append(@, n)]
             IN  scopes' = Emitted(bound, Bound(Op("BindLocal", n, Slot(Last(bound), n).index)))
  BY DEF ParseBindInner, InUse
<1>5. CASE Refuse
  <2>1. UNCHANGED <<inTopLevel, running>> BY <1>1
  <2> QED BY <1>1, <1>5, <2>1, RefuseKeeps
<1>6. ASSUME ~ Refuse PROVE Parts(W, F)'
  <2>1. PICK ss : ss = IF Slot(Here, n).scope = "Local" THEN scopes
                       ELSE [scopes EXCEPT ![L].mLocals = Append(@, n)]
    OBVIOUS
  <2>2. /\ Slot(Here, n).scope # "FunVar" /\ UNCHANGED <<mode, mWorkspaceVars>>
        /\ scopes' = Emitted(ss, Bound(Op("BindLocal", n, Slot(Last(ss), n).index)))
    BY <1>0, <1>4, <1>6, <2>1
  <2>3. \A i \in 1 .. L :
          /\ IsScope(scopes[i]) /\ IsSeq(scopes[i].mLocals) /\ IsSeq(scopes[i].mVars)
          /\ IsSeq(scopes[i].code) /\ scopes[i].mLocals \in Seq(Names)
          /\ (i = 1 => scopes[i].mLocals = <<>>) /\ LongerScope(scopes[i], scopes[i])
          /\ \A k \in DOMAIN scopes[i].mVars :
               IndexOf(scopes[i].mVars[k].mName, scopes[i].mLocals) = 0
    <3>1. \A i \in 1 .. L : i = 1 => scopes[i].mLocals = <<>> BY <1>2 DEF ScopeOK
    <3> QED BY <1>2, <3>1, ScopeFacts
  <2>4. \A i \in 1 .. L : \A k \in DOMAIN scopes[i].mVars : ~ (k > Len(scopes[i].mVars))
    <3>1. \A i \in 1 .. L : Len(scopes[i].mVars) \in Nat
                            /\ DOMAIN scopes[i].mVars = 1 .. Len(scopes[i].mVars)
      BY <2>3, SeqIs
    <3> QED BY <3>1
  <2>5. /\ IsSeq(ss) /\ Len(ss) = L /\ \A i \in 1 .. L : i # L => ss[i] = scopes[i]
        /\ LongerScope(Here, ss[L]) /\ ss[L].code = Here.code /\ ss[L].mVars = Here.mVars
        /\ ss[L].mLocals \in Seq(Names)
        /\ \A k \in DOMAIN Here.mVars : IndexOf(Here.mVars[k].mName, ss[L].mLocals) = 0
        /\ \A m \in Names : IndexOf(m, ss[L].mLocals) # 0 => IndexOf(m, Here.mLocals) # 0 \/ m = n
        /\ IndexOf(n, ss[L].mLocals) # 0
    <3>1. CASE Slot(Here, n).scope = "Local"
      <4>1. ss = scopes BY <2>1, <3>1
      <4>2. IndexOf(n, Here.mLocals) # 0 BY <1>2, <2>3, <3>1, SlotIs
      <4> QED BY <1>2, <2>3, <4>1, <4>2
    <3>2. CASE Slot(Here, n).scope # "Local"
      <4> DEFINE s == scopes[L]
                 r == [s EXCEPT !.mLocals = Append(@, n)]
      <4>1. ss = [scopes EXCEPT ![L] = r] BY <2>1, <3>2
      <4>2. IndexOf(n, s.mLocals) = 0 /\ IndexOf(n, VarNames(s)) = 0
        BY <1>2, <2>2, <2>3, <3>2, SlotIs
      <4>3. /\ IsScope(r) /\ r.kind = s.kind /\ r.args = s.args /\ r.code = s.code
            /\ r.mVars = s.mVars /\ r.mLocals = Append(s.mLocals, n)
        <5>1. IsScope(s) BY <1>2, <2>3
        <5>2. r = [s EXCEPT !.mLocals = Append(s.mLocals, n)] OBVIOUS
        <5> HIDE DEF s, r
        <5> QED BY <5>1, <5>2, ScopeFields DEF IsScope
      <4> HIDE DEF r
      <4>4. ss = [i \in 1 .. L |-> ss[i]] /\ ss[L] = r /\ \A i \in 1 .. L : i # L => ss[i] = scopes[i]
        BY <1>2, <4>1
      <4>5. IsSeq(ss) /\ Len(ss) = L BY <1>2, <4>4, SeqMade
      <4>6. IsSeq(s.mLocals) /\ s.mLocals \in Seq(Names) /\ IsSeq(s.mVars)
            /\ Longer(s.mVars, s.mVars) /\ Longer(s.code, s.code)
        BY <1>2, <2>3 DEF LongerScope
      <4>7. Longer(s.mLocals, r.mLocals) /\ r.mLocals \in Seq(Names)
        <5>1. Append(s.mLocals, n) \in Seq(Names) BY <4>6
        <5> QED BY <4>3, <4>6, <5>1, LongerAppend
      <4>8. LongerScope(s, r) BY <4>3, <4>6, <4>7 DEF LongerScope
      <4>9. \A m : IndexOf(m, s.mLocals) = 0 => (IndexOf(m, r.mLocals) = 0 <=> m # n)
        <5>1. Len(s.mLocals) \in Nat BY <4>6, SeqIs
        <5> QED BY <4>3, <4>6, <5>1, IndexOfAppend
      <4>10. ASSUME NEW k \in DOMAIN s.mVars PROVE IndexOf(s.mVars[k].mName, r.mLocals) = 0
        <5>1. IndexOf(s.mVars[k].mName, s.mLocals) = 0 BY <1>2, <2>3
        <5>2. s.mVars[k].mName # n
          <6>1. /\ IsSeq(VarNames(s)) /\ k \in DOMAIN VarNames(s)
                /\ VarNames(s)[k] = s.mVars[k].mName
            BY <4>6, VarNamesAre
          <6> QED BY <4>2, <6>1, IndexOfFound
        <5> QED BY <4>9, <5>1, <5>2
      <4>11. IndexOf(n, r.mLocals) # 0 BY <4>2, <4>9
      <4>12. \A m \in Names : IndexOf(m, r.mLocals) # 0 => IndexOf(m, s.mLocals) # 0 \/ m = n
        BY <4>9
      <4> QED BY <1>2, <4>3, <4>4, <4>5, <4>7, <4>8, <4>10, <4>11, <4>12
    <3> QED BY <3>1, <3>2
  <2>6. Slot(Last(ss), n).index = IndexOf(n, ss[L].mLocals)
    <3>1. Last(ss) = ss[L] BY <2>5 DEF Last
    <3> QED BY <2>5, <3>1 DEF Slot
  <2>7. ASSUME NEW i \in 1 .. L
        PROVE /\ LongerScope(scopes[i], ss[i]) /\ ss[i].code = scopes[i].code
              /\ ss[i].mLocals \in Seq(Names) /\ (i = 1 => ss[i].mLocals = <<>>)
              /\ i < L => ss[i].mLocals = scopes[i].mLocals
              /\ \A k \in DOMAIN ss[i].mVars :
                   /\ IndexOf(ss[i].mVars[k].mName, ss[i].mLocals) = 0
                   /\ ~ (k > Len(scopes[i].mVars))
    <3>1. CASE i = L BY <1>2, <1>3, <2>4, <2>5, <3>1
    <3>2. CASE i # L
      <4>1. ss[i] = scopes[i] BY <2>5, <3>2
      <4> QED BY <2>3, <2>4, <4>1
    <3> QED BY <3>1, <3>2
  <2>8. mode' = "parse" /\ mWorkspaceVars' = mWorkspaceVars BY <1>1, <2>2
  <2>9. \A m \in Names : IndexOf(m, ss[L].mLocals) # 0 => IndexOf(m, Here.mLocals) # 0 \/ m = n
    BY <2>5
  <2>10. IndexOf(n, ss[L].mLocals) # 0 /\ IsSeq(ss) /\ Len(ss) = L BY <2>5
  <2>11. scopes' = Emitted(ss, Bound(Op("BindLocal", n, IndexOf(n, ss[L].mLocals))))
    BY <2>2, <2>6
  <2> QED BY <1>0, <1>1, <2>7, <2>8, <2>9, <2>10, <2>11, StepBind
<1> QED BY <1>5, <1>6

(* A scope that stays as it is. *)
LEMMA ScopeStays ==
  ASSUME NEW W, NEW W2, NEW F, NEW i \in Nat, W \subseteq W2, ScopeOK(i, W, F),
         UNCHANGED <<inTopLevel, mWorkspace, forms, history>>,
         scopes'[i] = scopes[i], i > 1 => LongerScope(scopes[i - 1], scopes'[i - 1]),
         KnownTo(i)' = KnownTo(i), GlobalTo(i)' = GlobalTo(i)
  PROVE  ScopeOK(i, W2, F)'
<1>1. LongerScope(scopes[i], scopes'[i]) /\ IsSeq(scopes[i].code) BY ScopeFacts
<1>2. Len(scopes[i].code) \in Nat BY <1>1, SeqIs
<1>3. \A p \in (Len(scopes[i].code) + 1) .. Len(scopes'[i].code) : Fits(ScopeTyping(i)', W2, p)
  BY <1>2
<1>4. scopes'[i].mLocals = scopes[i].mLocals /\ scopes'[i].mVars = scopes[i].mVars OBVIOUS
<1> QED BY <1>1, <1>3, <1>4, ScopeEmits

(* A scope that is begun. *)
LEMMA ScopeBegins ==
  ASSUME NEW W, NEW F, NEW i \in Nat \ {0}, NEW kind, NEW args \in Seq(Names),
         scopes'[i] = NewScope(kind, args), kind = "top" <=> i = 1, inTopLevel' \in BOOLEAN,
         (i = 1 \/ (i = TextLevel)') => args = <<>>,
         Len(history') \in DOMAIN F, mWorkspace' = F[Len(history')]
  PROVE  ScopeOK(i, W, F)'
<1>s. PICK s : s = NewScope(kind, args) OBVIOUS
<1>1. /\ s.kind = kind /\ s.args = args /\ s.mLocals = args /\ s.mVars = <<>>
      /\ s.code = <<>> /\ IsScope(s) /\ scopes'[i] = s
  BY <1>s DEF NewScope, IsScope
<1>2. IsSeq(args) BY NameSeq
<1> DEFINE v == ScopeTyping(i)'
<1>3. /\ v.def.code = <<>> /\ v.def.args = args /\ v.def.mNumLocals = Len(args)
      /\ v.def.mNumVars = 0 /\ v.def.mWorkspace = mWorkspace' /\ v.def.text = Len(history')
      /\ v.locals = args /\ v.vars = VarNames(s) /\ v.known = KnownTo(i)'
      /\ v.globals = GlobalTo(i)' /\ v.top = (inTopLevel' /\ i = 1)
  BY <1>1, SeqEmpty DEF ScopeTyping, NewFunDef, VarNames
<1>4. VarNames(s) \in Seq(Names) /\ Len(VarNames(s)) = 0 /\ DOMAIN VarNames(s) = {}
  <2>1. IsSeq(VarNames(s)) /\ Len(VarNames(s)) = 0 BY <1>1, SeqEmpty, VarNamesAre
  <2> QED BY <2>1, NameSeqIs, SeqIs
<1>5. KnownTo(i)' \subseteq Names /\ GlobalTo(i)' \subseteq Names BY DEF KnownTo, GlobalTo
<1>6. Shaped(v, F)
  <2>1. Len(args) \in Nat OBVIOUS
  <2> HIDE DEF v
  <2>2. v.top \in BOOLEAN BY <1>3
  <2>3. IsSeq(v.def.code) BY <1>3, SeqEmpty
  <2>4. /\ v.def.args \in Seq(Names) /\ v.locals \in Seq(Names)
        /\ v.def.mNumLocals = Len(v.locals) /\ Len(v.def.args) <= Len(v.locals)
        /\ \A k \in DOMAIN v.def.args : v.locals[k] = v.def.args[k]
    BY <1>3, <2>1
  <2>5. /\ v.vars \in Seq(Names) /\ v.def.mNumVars = Len(v.vars)
        /\ \A k \in DOMAIN v.vars : v.vars[k] \in v.known /\ IndexOf(v.vars[k], v.locals) = 0
    BY <1>3, <1>4
  <2>6. v.known \subseteq Names /\ v.globals \subseteq Names BY <1>3, <1>5
  <2>7. v.def.text \in DOMAIN F /\ v.def.mWorkspace = F[v.def.text] BY <1>3
  <2> QED BY <2>2, <2>3, <2>4, <2>5, <2>6, <2>7 DEF Shaped
<1>7. Typed(v, W, F)
  <2>1. DOMAIN v.def.code = {} BY <1>3, SeqEmpty
  <2> QED BY <1>6, <2>1 DEF Typed
<1>8. \A n \in Names : IndexOf(n, args) # 0 => LocalAt(v, n, Len(s.code) + 1)
  <2> HIDE DEF v
  <2> QED BY <1>3 DEF LocalAt
<1>9. DOMAIN s.mVars = {} /\ IsSeq(s.mVars)
  BY <1>1, SeqEmpty
<1> HIDE DEF v
<1> QED BY <1>1, <1>7, <1>8, <1>9 DEF ScopeOK, v

LEMMA ParseLambdaKeeps ==
  ASSUME NEW W, NEW F, Parts(W, F), ParseLambda
  PROVE  Parts(W, F)'
<1>0. PICK L : L = Level OBVIOUS
<1>1. /\ mode = "parse" /\ mode' = "parse" /\ tokens' \in 0 .. MaxTokens
      /\ UNCHANGED <<inTopLevel, running>> /\ ScopesOK(W, F)
  <2>1. Tokens(2) BY DEF ParseLambda
  <2> QED BY <2>1, TokensKept DEF ParseLambda, Parts
<1>2. /\ IsSeq(scopes) /\ L \in Nat \ {0} /\ Len(scopes) = L /\ L \in 1 .. L
      /\ DOMAIN scopes = 1 .. L /\ (\A i \in 1 .. L : ScopeOK(i, W, F)) /\ L >= TextLevel
      /\ TextLevel \in {1, 2}
  BY <1>0, <1>1, ParsingFacts
<1>3. /\ UNCHANGED <<inTopLevel, mWorkspace, forms, history, mWorkspaceVars>>
      /\ mWorkspaceVars \subseteq Names /\ \A w \in W : Typed(w, W, F)
  BY DEF ParseLambda, running, Parts, ModesOK
<1>4. PICK args \in ArgLists : scopes' = Append(scopes, NewScope("inner", args))
  BY DEF ParseLambda
<1>5. args \in Seq(Names) /\ IsSeq(args)
  BY ClosuresAssumption, NameSeq
<1> DEFINE s == NewScope("inner", args)
           M == L + 1
<1>6. /\ IsSeq(scopes') /\ Len(scopes') = M /\ DOMAIN scopes' = 1 .. M
      /\ \A i \in 1 .. L : scopes'[i] = scopes[i]
      /\ scopes'[M] = s
  BY <1>2, <1>4, SeqAppend
<1>7. /\ s.kind = "inner" /\ s.args = args /\ s.mLocals = args /\ s.mVars = <<>>
      /\ s.code = <<>> /\ IsScope(s)
  BY DEF NewScope, IsScope
<1> HIDE DEF s
<1>8. ASSUME NEW i \in 1 .. L PROVE ScopeOK(i, W, F)' /\ KnownTo(i)' = KnownTo(i)
  <2>1. i \in Nat /\ ScopeOK(i, W, F) /\ scopes'[i] = scopes[i] BY <1>2, <1>6
  <2>2. i > 1 => LongerScope(scopes[i - 1], scopes'[i - 1])
    <3>1. i > 1 => i - 1 \in 1 .. L /\ scopes'[i - 1] = scopes[i - 1] BY <1>2, <1>6
    <3> QED BY <1>2, <3>1, ScopeFacts
  <2>3. KnownTo(i)' = KnownTo(i) /\ GlobalTo(i)' = GlobalTo(i)
    <3>1. \A j \in 1 .. (i - 1) : scopes'[j].mLocals = scopes[j].mLocals BY <1>2, <1>6
    <3> QED BY <1>3, <2>1, <3>1, KnownSame, GlobalSame
  <2> QED BY <1>3, <2>1, <2>2, <2>3, ScopeStays
<1>9. ScopeOK(M, W, F)'
  <2>1. Len(history) \in DOMAIN F /\ mWorkspace = F[Len(history)]
    <3> DEFINE w == ScopeTyping(1)
    <3>1. Shaped(w, F) BY <1>2 DEF ScopeOK, Typed
    <3>2. w.def.text = Len(history) /\ w.def.mWorkspace = mWorkspace
      BY DEF ScopeTyping, NewFunDef
    <3> HIDE DEF w
    <3> QED BY <3>1, <3>2 DEF Shaped
  <2>2. Len(history') \in DOMAIN F /\ mWorkspace' = F[Len(history')] BY <1>3, <2>1
  <2>3. M \in Nat \ {0} /\ M # 1 /\ ~ (M = TextLevel)' BY <1>2, <1>3 DEF TextLevel
  <2>4. inTopLevel' \in BOOLEAN BY <1>3 DEF Parts, ModesOK
  <2>5. scopes'[M] = NewScope("inner", args) /\ ("inner" = "top" <=> M = 1)
    BY <1>6, <2>3 DEF s
  <2> HIDE DEF M
  <2> QED BY <1>5, <2>2, <2>3, <2>4, <2>5, ScopeBegins
<1>10. ScopesOK(W, F)'
  <2>1. Level' = M /\ TextLevel' = TextLevel BY <1>3, <1>6 DEF Level, TextLevel
  <2>2. \A i \in 1 .. M : ScopeOK(i, W, F)'
    <3>1. \A i \in 1 .. M : i \in 1 .. L \/ i = M BY <1>2
    <3> HIDE DEF M
    <3> QED BY <1>8, <1>9, <3>1
  <2>3. M >= TextLevel BY <1>2
  <2>4. ScopeTyping(1)' = ScopeTyping(1) /\ scopes'[1] = scopes[1]
    <3>1. scopes'[1] = scopes[1] /\ KnownTo(1)' = KnownTo(1) BY <1>2, <1>6, <1>8
    <3>2. GlobalTo(1)' = GlobalTo(1) BY <1>3, GlobalSame
    <3> QED BY <1>3, <3>1, <3>2 DEF ScopeTyping, NewFunDef, VarNames
  <2>5. \A n \in mWorkspaceVars' :
          GlobalAt(ScopeTyping(1)', n, Len(scopes'[1].code) + 1)
    BY <1>1, <1>3, <2>4 DEF ScopesOK
  <2>6. mWorkspaceVars' # {} => inTopLevel' BY <1>1, <1>3 DEF ScopesOK
  <2> HIDE DEF M
  <2> QED BY <1>3, <1>6, <2>1, <2>2, <2>3, <2>5, <2>6 DEF ScopesOK
<1>11. scopes' # <<>> BY <1>2, <1>6, SeqEmpty
<1> QED BY <1>1, <1>3, <1>10, <1>11, ParseKeeps

(* The opcodes that make a function of scope s, whose code is that of def. *)
Makes(ops, s, def) ==
  /\ IsSeq(ops) /\ Len(ops) \in {Len(s.mVars) + 1, Len(s.mVars) + 2}
  /\ \A k \in 1 .. Len(s.mVars) :
       ops[k] = Op(PushOp(s.mVars[k].mFromScope), s.mVars[k].mName, s.mVars[k].mFromIndex)
  /\ ops[Len(s.mVars) + 1] = [op |-> "PushFun", def |-> def]
  /\ Len(ops) = Len(s.mVars) + 2 => ops[Len(s.mVars) + 2] = Op("Apply", None, 0)

LEMMA MakesIs ==
  ASSUME NEW s, IsSeq(s.mVars), NEW def, NEW after, after \in {<<>>, <<Op("Apply", None, 0)>>},
         NEW ops, ops = PushFunVars(s) \o <<[op |-> "PushFun", def |-> def]>> \o after
  PROVE  Makes(ops, s, def)
<1>m. PICK m : m = Len(s.mVars) OBVIOUS
<1>f. PICK pushes, fun : pushes = PushFunVars(s) /\ fun = <<[op |-> "PushFun", def |-> def]>>
  OBVIOUS
<1>g. PICK made : made = pushes \o fun OBVIOUS
<1>1. m \in Nat /\ DOMAIN s.mVars = 1 .. m BY <1>m, SeqIs
<1>2. pushes = [k \in 1 .. m |->
                  Op(PushOp(s.mVars[k].mFromScope), s.mVars[k].mName, s.mVars[k].mFromIndex)]
  BY <1>f, <1>1 DEF PushFunVars
<1>3. pushes = [k \in 1 .. m |-> pushes[k]] BY <1>2
<1>4. \A k \in 1 .. m : pushes[k] =
        Op(PushOp(s.mVars[k].mFromScope), s.mVars[k].mName, s.mVars[k].mFromIndex)
  BY <1>2
<1>5. IsSeq(pushes) /\ Len(pushes) = m BY <1>1, <1>3, SeqMade
<1>6. IsSeq(fun) /\ Len(fun) = 1 /\ fun[1] = [op |-> "PushFun", def |-> def] BY <1>f, SeqOne
<1>7. /\ IsSeq(made) /\ Len(made) = m + 1 /\ \A k \in 1 .. m : made[k] = pushes[k]
      /\ made[m + 1] = [op |-> "PushFun", def |-> def]
  <2>1. 1 \in 1 .. Len(fun) BY <1>6
  <2>2. /\ IsSeq(pushes \o fun) /\ Len(pushes \o fun) = Len(pushes) + Len(fun)
        /\ \A k \in 1 .. Len(pushes) : (pushes \o fun)[k] = pushes[k]
        /\ \A k \in 1 .. Len(fun) : (pushes \o fun)[Len(pushes) + k] = fun[k]
    <3>1. IsSeq(pushes) /\ IsSeq(fun) BY <1>5, <1>6
    <3> QED BY ONLY <3>1, SeqConcat
  <2>3. /\ IsSeq(made) /\ Len(made) = Len(pushes) + Len(fun)
        /\ \A k \in 1 .. Len(pushes) : made[k] = pushes[k]
        /\ \A k \in 1 .. Len(fun) : made[Len(pushes) + k] = fun[k]
    BY <1>g, <2>2
  <2> QED BY <1>5, <1>6, <2>1, <2>3
<1>8. ops = made \o after BY <1>f, <1>g
<1>9. /\ IsSeq(after) /\ Len(after) \in {0, 1}
      /\ Len(after) = 1 => after[1] = Op("Apply", None, 0)
  BY SeqOne, SeqEmpty
<1>10. /\ IsSeq(ops) /\ Len(ops) = m + 1 + Len(after)
       /\ \A k \in 1 .. (m + 1) : ops[k] = made[k]
       /\ \A k \in 1 .. Len(after) : ops[m + 1 + k] = after[k]
  <2>1. /\ IsSeq(made \o after) /\ Len(made \o after) = Len(made) + Len(after)
        /\ \A k \in 1 .. Len(made) : (made \o after)[k] = made[k]
        /\ \A k \in 1 .. Len(after) : (made \o after)[Len(made) + k] = after[k]
    BY <1>7, <1>9, SeqConcat
  <2>2. /\ IsSeq(ops) /\ Len(ops) = Len(made) + Len(after)
        /\ \A k \in 1 .. Len(made) : ops[k] = made[k]
        /\ \A k \in 1 .. Len(after) : ops[Len(made) + k] = after[k]
    BY <1>8, <2>1
  <2> QED BY <1>7, <2>2
<1>11. \A k \in 1 .. m : k \in 1 .. (m + 1) BY <1>1
<1>12. m + 1 \in 1 .. (m + 1) BY <1>1
<1>13. Len(after) = 1 => Len(ops) = m + 2 /\ ops[m + 2] = Op("Apply", None, 0)
  <2>1. m + 1 + 1 = m + 2 BY <1>1
  <2>2. Len(after) = 1 => ops[m + 1 + 1] = after[1] BY <1>10
  <2> QED BY <1>9, <1>10, <2>1, <2>2
<1>14. Len(after) = 0 => Len(ops) = m + 1 BY <1>1, <1>10
<1>15. \A k \in 1 .. m :
       ops[k] = Op(PushOp(s.mVars[k].mFromScope), s.mVars[k].mName, s.mVars[k].mFromIndex)
  BY <1>4, <1>7, <1>10, <1>11
<1>16. ops[m + 1] = [op |-> "PushFun", def |-> def] BY <1>7, <1>10, <1>12
<1>17. ~ (m + 1 = m + 2) BY <1>1
<1>18. /\ Len(ops) \in {m + 1, m + 2}
       /\ Len(ops) = m + 2 => ops[m + 2] = Op("Apply", None, 0)
  BY <1>9, <1>13, <1>14, <1>17
<1> QED BY <1>m, <1>10, <1>15, <1>16, <1>18 DEF Makes

(* A scope in which the function of the scope inside it is made.           *)
LEMMA MakerTyped ==
  ASSUME NEW W, NEW W2, NEW F, NEW L, L = Level, ScopesOK(W, F), mode = "parse",
         UNCHANGED <<inTopLevel, mWorkspace, forms, history, mWorkspaceVars>>,
         NEW M, M = L - 1, M >= TextLevel,
         NEW ss, IsSeq(ss), Len(ss) = M, \A i \in 1 .. M : ss[i] = scopes[i],
         NEW ops, scopes' = Emitted(ss, ops), Makes(ops, scopes[L], NewFunDef(scopes[L])),
         W \subseteq W2, ScopeTyping(L) \in W2
  PROVE  /\ \A p \in (Len(scopes[M].code) + 1) .. Len(scopes'[M].code) :
              Fits(ScopeTyping(M)', W2, p)
         /\ EmitsTo(ss, M, ops, scopes')
<1>s. PICK s, t : s = scopes[L] /\ t = scopes[M] OBVIOUS
<1>c. PICK c, m : c = Len(t.code) /\ m = Len(s.mVars) OBVIOUS
<1>w. PICK w, v, w2 : w = ScopeTyping(M) /\ v = ScopeTyping(M)' /\ w2 = ScopeTyping(L) OBVIOUS
<1>1. /\ IsSeq(scopes) /\ L \in Nat \ {0} /\ Len(scopes) = L /\ L \in 1 .. L
      /\ DOMAIN scopes = 1 .. L /\ (\A i \in 1 .. L : ScopeOK(i, W, F)) /\ L >= TextLevel
      /\ TextLevel \in {1, 2}
  BY ParsingFacts
<1>2. M \in Nat /\ M # 0 /\ M \in 1 .. M /\ M \in 1 .. L /\ L > 1 /\ L - 1 = M /\ M < L
  BY <1>1
<1>3. /\ IsScope(t) /\ IsSeq(t.code) /\ IsSeq(t.mVars) /\ IsSeq(t.mLocals)
      /\ IsSeq(s.mVars) /\ ss[M] = t
  BY <1>s, <1>c, <1>w, <1>1, <1>2, ScopeFacts
<1>4. EmitsTo(ss, M, ops, scopes')
  <2>1. M = Len(ss) /\ IsScope(ss[M]) /\ IsSeq(ss[M].code) /\ IsSeq(ops)
    BY <1>s, <1>c, <1>w, <1>3 DEF Makes
  <2> QED BY <1>2, <2>1, EmittedIs
<1>5. /\ \A i \in 1 .. M : i # M => scopes'[i] = scopes[i]
      /\ scopes'[M].args = t.args /\ scopes'[M].mLocals = t.mLocals
      /\ scopes'[M].mVars = t.mVars /\ Longer(t.code, scopes'[M].code)
      /\ Len(scopes'[M].code) = c + Len(ops)
      /\ \A k \in 1 .. Len(ops) : scopes'[M].code[c + k] = ops[k]
  BY <1>s, <1>c, <1>w, <1>3, <1>4 DEF EmitsTo
<1>6. KnownTo(M)' = KnownTo(M)
  <2>1. \A j \in 1 .. (M - 1) : scopes'[j].mLocals = scopes[j].mLocals BY <1>2, <1>5
  <2> QED BY <1>2, <2>1, KnownSame
<1>7. GlobalTo(M)' = GlobalTo(M) BY GlobalSame
<1>8. /\ v.def.args = t.args /\ v.locals = t.mLocals /\ v.vars = VarNames(t)
      /\ v.known = KnownTo(M) /\ v.globals = GlobalTo(M)
      /\ v.def.code = scopes'[M].code
  BY <1>s, <1>w, <1>5, <1>6, <1>7 DEF ScopeTyping, NewFunDef, VarNames
<1>9. /\ w.def.args = t.args /\ w.known = KnownTo(M) /\ w.globals = GlobalTo(M)
      /\ w.def.code = t.code
  BY <1>s, <1>w DEF ScopeTyping, NewFunDef
<1>10. /\ w2.def = NewFunDef(s) /\ w2.vars = VarNames(s) /\ w2.known = KnownTo(L)
       /\ w2.globals = GlobalTo(L) /\ w2.top = FALSE
  <2>1. w2.def = NewFunDef(s) /\ w2.vars = VarNames(s) /\ w2.known = KnownTo(L)
        /\ w2.globals = GlobalTo(L) /\ w2.top = (inTopLevel /\ L = 1)
    BY <1>s, <1>w DEF ScopeTyping
  <2>2. L # 1 BY <1>2
  <2>3. (inTopLevel /\ L = 1) = FALSE BY <2>2
  <2> QED BY <2>1, <2>3
<1>11. c \in Nat /\ m \in Nat /\ DOMAIN s.mVars = 1 .. m BY <1>c, <1>3, SeqIs
<1>12. /\ Len(ops) \in {m + 1, m + 2}
       /\ \A k \in 1 .. m :
            ops[k] = Op(PushOp(s.mVars[k].mFromScope), s.mVars[k].mName, s.mVars[k].mFromIndex)
       /\ ops[m + 1] = [op |-> "PushFun", def |-> NewFunDef(s)]
       /\ Len(ops) = m + 2 => ops[m + 2] = Op("Apply", None, 0)
  BY <1>s, <1>c DEF Makes
<1>13. ScopeOK(L, W, F) /\ ScopeOK(M, W, F) BY <1>1, <1>2
<1>14. \A k \in 1 .. m : v.def.code[c + k] = ops[k] /\ v.def.code[c + k].op \in Pushes
                         /\ v.def.code[c + k].name = s.mVars[k].mName
  <2>1. \A k \in 1 .. m : k \in 1 .. Len(ops) BY <1>11, <1>12
  <2>2. ASSUME NEW k \in 1 .. m
        PROVE  v.def.code[c + k] = ops[k] /\ v.def.code[c + k].op \in Pushes
               /\ v.def.code[c + k].name = s.mVars[k].mName
    <3>1. v.def.code[c + k] = ops[k]
          /\ ops[k] = Op(PushOp(s.mVars[k].mFromScope), s.mVars[k].mName, s.mVars[k].mFromIndex)
      BY <1>5, <1>8, <1>12, <2>1
    <3>2. ops[k].op = PushOp(s.mVars[k].mFromScope) /\ ops[k].name = s.mVars[k].mName
      BY <3>1 DEF Op
    <3>3. PushOp(s.mVars[k].mFromScope) \in Pushes BY DEF PushOp, Pushes
    <3> QED BY <3>1, <3>2, <3>3
  <2> QED BY <2>2
<1>15. ASSUME NEW n
       PROVE  /\ LocalAt(v, n, c + 1) <=> LocalAt(w, n, c + 1)
              /\ GlobalAt(v, n, c + 1) <=> GlobalAt(w, n, c + 1)
  <2>1. c + 1 \in Nat /\ c + 1 <= Len(w.def.code) + 1 BY <1>c, <1>9, <1>11
  <2>2. Longer(w.def.code, v.def.code) /\ v.def.args = w.def.args
        /\ v.known = w.known /\ v.globals = w.globals
    BY <1>5, <1>8, <1>9
  <2> QED BY <2>1, <2>2, BoundByCodeBefore
<1>16. ASSUME NEW n \in Names, NEW k \in 1 .. (m + 1)
       PROVE  /\ LocalAt(v, n, c + k) <=> IndexOf(n, t.mLocals) # 0
              /\ GlobalAt(w, n, c + 1) => GlobalAt(v, n, c + k)
  <2>1. \A q \in 1 .. ((c + k) - 1) : q \in 1 .. ((c + 1) - 1) \/ v.def.code[q].op \in Pushes
    <3>1. ASSUME NEW q \in 1 .. ((c + k) - 1), q \notin 1 .. ((c + 1) - 1)
          PROVE  v.def.code[q].op \in Pushes
      <4>1. q - c \in 1 .. m /\ c + (q - c) = q BY <1>11, <3>1
      <4> QED BY <1>14, <4>1
    <3> QED BY <3>1
  <2>2. \A q \in 1 .. ((c + 1) - 1) : q \in 1 .. ((c + k) - 1) BY <1>11
  <2>3. LocalAt(v, n, c + k) <=> LocalAt(v, n, c + 1)
    <3> DEFINE Binds(q) == v.def.code[q].op = "BindLocal" /\ v.def.code[q].name = n
    <3>1. (\E q \in 1 .. ((c + k) - 1) : Binds(q)) <=> (\E q \in 1 .. ((c + 1) - 1) : Binds(q))
      BY ONLY <2>1, <2>2, Zenon DEF Pushes
    <3>2. \A p : LocalAt(v, n, p) <=>
                   IndexOf(n, v.def.args) # 0 \/ \E q \in 1 .. (p - 1) : Binds(q)
      BY DEF LocalAt
    <3> HIDE DEF Binds
    <3> QED BY ONLY <3>1, <3>2
  <2>4. GlobalAt(v, n, c + 1) => GlobalAt(v, n, c + k)
    <3> DEFINE Binds(q) == v.def.code[q].op = "BindWorkspaceVar" /\ v.def.code[q].name = n
    <3>1. (\E q \in 1 .. ((c + 1) - 1) : Binds(q)) => (\E q \in 1 .. ((c + k) - 1) : Binds(q))
      BY ONLY <2>2, Zenon
    <3>2. \A p : GlobalAt(v, n, p) <=>
                   n \in v.globals \/ \E q \in 1 .. (p - 1) : Binds(q)
      BY DEF GlobalAt
    <3> HIDE DEF Binds
    <3> QED BY ONLY <3>1, <3>2
  <2>5. LocalAt(w, n, c + 1) <=> IndexOf(n, t.mLocals) # 0
    BY <1>s, <1>c, <1>w, <1>13, LocalKnown, ZenonT(60) DEF ScopeOK
  <2> QED BY <1>15, <2>3, <2>4, <2>5
<1>17. ASSUME NEW k \in 1 .. m PROVE Fits(v, W2, c + k)
  <2> DEFINE def == s.mVars[k]
  <2>1. /\ def.mName \in Names
        /\ \/ /\ def.mFromScope = "Local" /\ def.mFromIndex = IndexOf(def.mName, t.mLocals)
              /\ def.mFromIndex # 0
           \/ /\ def.mFromScope = "FunVar" /\ def.mFromIndex \in DOMAIN t.mVars
              /\ t.mVars[def.mFromIndex].mName = def.mName
    <3>1. CaptureOK(scopes, L, k) BY <1>s, <1>11, <1>13 DEF ScopeOK
    <3> QED BY <1>s, <1>2, <3>1 DEF CaptureOK
  <2>2. v.def.code[c + k] = Op(PushOp(def.mFromScope), def.mName, def.mFromIndex)
    BY <1>12, <1>14
  <2>3. k \in 1 .. (m + 1) BY <1>11
  <2>4. CASE def.mFromScope = "Local"
    <3>1. LocalAt(v, def.mName, c + k) /\ def.mFromIndex = IndexOf(def.mName, v.locals)
          /\ def.mFromIndex # 0 /\ PushOp(def.mFromScope) \in Locals
      BY <1>8, <1>16, <2>1, <2>3, <2>4 DEF PushOp, Locals
    <3> QED BY <2>1, <2>2, <3>1, OpFits
  <2>5. CASE def.mFromScope # "Local"
    <3>1. def.mFromIndex \in DOMAIN v.vars /\ v.vars[def.mFromIndex] = def.mName
          /\ PushOp(def.mFromScope) \in FunVars
      BY <1>3, <1>8, <2>1, <2>5, VarNamesAre DEF PushOp, FunVars
    <3> QED BY <2>1, <2>2, <3>1, OpFits
  <2> QED BY <2>4, <2>5
<1>18. Captures(v, w2, c + m + 1)
  <2> DEFINE p == c + m + 1
  <2>0. p = c + (m + 1) /\ m + 1 \in 1 .. (m + 1) /\ m + 1 \in 1 .. Len(ops)
    BY <1>11, <1>12
  <2>1. v.def.code[p] = [op |-> "PushFun", def |-> NewFunDef(s)] BY <1>5, <1>8, <1>12, <2>0
  <2>2. w2.def = v.def.code[p].def /\ w2.top = FALSE /\ w2.def.text = v.def.text
    <3>1. w2.def.text = Len(history) BY <1>10 DEF NewFunDef
    <3>2. v.def.text = Len(history) BY <1>w DEF ScopeTyping, NewFunDef
    <3> QED BY <1>10, <2>1, <3>1, <3>2
  <2>3. \A n \in Names : BoundAt(v, n, p) <=> n \in KnownTo(M) \/ IndexOf(n, t.mLocals) # 0
    <3> QED BY <1>8, <1>16, <2>0 DEF BoundAt
  <2>4. \A n \in Names : n \in KnownTo(L) <=> n \in KnownTo(M) \/ IndexOf(n, t.mLocals) # 0
    <3> DEFINE Binds(j, n) == IndexOf(n, scopes[j].mLocals) # 0
    <3>1. \A j \in 1 .. (L - 1) : j \in 1 .. (M - 1) \/ j = M BY <1>2
    <3>2. \A j \in 1 .. (M - 1) : j \in 1 .. (L - 1) BY <1>2
    <3>3. M \in 1 .. (L - 1) BY <1>2
    <3>4. ASSUME NEW n
          PROVE  (\E j \in 1 .. (L - 1) : Binds(j, n)) <=>
                   (\E j \in 1 .. (M - 1) : Binds(j, n)) \/ Binds(M, n)
      <4> HIDE DEF Binds
      <4> QED BY ONLY <3>1, <3>2, <3>3, Zenon
    <3> QED BY <1>s, <3>4 DEF KnownTo
  <2>5. w2.known = {n \in Names : BoundAt(v, n, p)}
    <3>1. KnownTo(L) \subseteq Names BY DEF KnownTo
    <3> QED BY <1>10, <2>3, <2>4, <3>1
  <2>6. \A n \in w2.globals : GlobalAt(v, n, p)
    <3>1. ASSUME NEW n \in Names, InWorkspace(n) PROVE GlobalAt(v, n, p)
      <4>1. M \in 1 .. Level BY <1>1, <1>2
      <4>2. GlobalAt(w, n, c + 1) BY <1>s, <1>c, <1>w, <3>1, <4>1, InWorkspaceBound
      <4> QED BY <1>16, <2>0, <4>2
    <3>2. \A n \in w2.globals : n \in Names /\ InWorkspace(n)
      BY <1>2, <1>10 DEF GlobalTo
    <3> QED BY <3>1, <3>2
  <2>7. IsSeq(w2.vars) /\ Len(w2.vars) = m /\ DOMAIN w2.vars = 1 .. m
        /\ \A k \in 1 .. m : w2.vars[k] = s.mVars[k].mName
    BY <1>3, <1>10, <1>11, VarNamesAre
  <2>8. m < p /\ \A k \in 1 .. m : p - 1 - m + k = c + k BY <1>11
  <2>9. \A k \in 1 .. m : /\ v.def.code[p - 1 - m + k].op \in Pushes
                          /\ v.def.code[p - 1 - m + k].name = w2.vars[k]
    BY <1>14, <2>7, <2>8
  <2> QED BY <2>2, <2>5, <2>6, <2>7, <2>8, <2>9 DEF Captures
<1>19. Fits(v, W2, c + m + 1)
  <2> DEFINE p == c + m + 1
  <2>1. v.def.code[p] = [op |-> "PushFun", def |-> NewFunDef(s)]
    <3>1. p = c + (m + 1) /\ m + 1 \in 1 .. Len(ops) BY <1>11, <1>12
    <3> QED BY <1>5, <1>8, <1>12, <3>1
  <2>2. v.def.code[p].op = "PushFun" BY <2>1
  <2>3. LocalFits(v, p) BY <2>2 DEF LocalFits, Locals, FunVars
  <2>4. GlobalFits(v, p) BY <2>2 DEF GlobalFits
  <2> QED BY <1>w, <1>18, <2>3, <2>4 DEF Fits
<1>20. Len(ops) = m + 2 => Fits(v, W2, c + m + 2)
  <2>1. Len(ops) = m + 2 => v.def.code[c + m + 2] = Op("Apply", None, 0)
    <3>1. c + m + 2 = c + (m + 2) /\ m + 2 \in 1 .. (m + 2) BY <1>11
    <3> QED BY <1>5, <1>8, <1>12, <3>1
  <2> QED BY <2>1, OpFits
<1>21. ASSUME NEW p \in (c + 1) .. Len(scopes'[M].code) PROVE Fits(v, W2, p)
  <2>1. \/ p - c \in 1 .. m /\ p = c + (p - c)
        \/ p = c + m + 1
        \/ p = c + m + 2 /\ Len(ops) = m + 2
    <3>1. p \in (c + 1) .. (c + Len(ops)) BY <1>5
    <3> QED BY <1>11, <1>12, <3>1
  <2> QED BY <1>17, <1>19, <1>20, <2>1
<1> QED BY <1>s, <1>c, <1>w, <1>4, <1>21

LEMMA ParseLambdaEndKeeps ==
  ASSUME NEW W, NEW F, Parts(W, F), ParseLambdaEnd
  PROVE  \E W2 : Parts(W2, F)'
<1>0. PICK L, M : L = Level /\ M = L - 1 OBVIOUS
<1>1. /\ mode = "parse" /\ mode' = "parse" /\ Level > TextLevel
      /\ UNCHANGED <<inTopLevel, running, mWorkspaceVars, tokens>> /\ ScopesOK(W, F)
  BY DEF ParseLambdaEnd, Parts
<1>2. /\ IsSeq(scopes) /\ L \in Nat \ {0} /\ Len(scopes) = L /\ L \in 1 .. L
      /\ DOMAIN scopes = 1 .. L /\ (\A i \in 1 .. L : ScopeOK(i, W, F)) /\ L > TextLevel
      /\ TextLevel \in {1, 2} /\ scopes # <<>> /\ Here = scopes[L]
  BY <1>0, <1>1, ParsingFacts
<1>3. /\ UNCHANGED <<inTopLevel, mWorkspace, forms, history, mWorkspaceVars>>
      /\ mWorkspaceVars \subseteq Names /\ (\A w \in W : Typed(w, W, F))
      /\ tokens' \in 0 .. MaxTokens
  BY <1>1 DEF running, Parts, ModesOK
<1>4. M \in Nat \ {0} /\ M >= TextLevel /\ M < L /\ M \in 1 .. L /\ M \in 1 .. M
  BY <1>0, <1>2
<1>5. PICK after \in {<<>>, <<Op("Apply", None, 0)>>} :
        scopes' = Emitted(Front(scopes),
                   PushFunVars(Here) \o <<[op |-> "PushFun", def |-> NewFunDef(Here)]>> \o after)
  BY DEF ParseLambdaEnd
<1>6. PICK ss : ss = Front(scopes) OBVIOUS
<1>7. PICK ops :
        ops = PushFunVars(scopes[L]) \o <<[op |-> "PushFun", def |-> NewFunDef(scopes[L])]>> \o after
  OBVIOUS
<1>8. IsSeq(ss) /\ Len(ss) = M /\ \A i \in 1 .. M : ss[i] = scopes[i]
  BY <1>0, <1>2, <1>6, SeqFront
<1>9. scopes' = Emitted(ss, ops) BY <1>2, <1>5, <1>6, <1>7
<1>10. Makes(ops, scopes[L], NewFunDef(scopes[L]))
  <2>1. IsSeq(scopes[L].mVars) BY <1>2, ScopeFacts
  <2> QED BY <1>5, <1>7, <2>1, MakesIs
<1>11. PICK W2 : W2 = W \cup {ScopeTyping(L)} OBVIOUS
<1>12. /\ \A p \in (Len(scopes[M].code) + 1) .. Len(scopes'[M].code) :
            Fits(ScopeTyping(M)', W2, p)
       /\ EmitsTo(ss, M, ops, scopes')
  <2>1. W \subseteq W2 /\ ScopeTyping(L) \in W2 BY <1>11
  <2> QED BY <1>0, <1>1, <1>3, <1>4, <1>8, <1>9, <1>10, <2>1, MakerTyped
<1>13. /\ IsSeq(scopes') /\ Len(scopes') = M /\ DOMAIN scopes' = 1 .. M
       /\ \A i \in 1 .. M : /\ i # M => scopes'[i] = scopes[i]
                            /\ scopes'[i].mLocals = scopes[i].mLocals
                            /\ scopes'[i].mVars = scopes[i].mVars
                            /\ LongerScope(scopes[i], scopes'[i])
  <2>1. \A i \in 1 .. M : LongerScope(scopes[i], scopes[i]) BY <1>2, <1>4, ScopeFacts
  <2>2. IsSeq(scopes') /\ Len(scopes') = M /\ \A i \in 1 .. M : i # M => scopes'[i] = scopes[i]
    BY <1>8, <1>12 DEF EmitsTo
  <2>3. /\ scopes'[M].mLocals = scopes[M].mLocals /\ scopes'[M].mVars = scopes[M].mVars
        /\ LongerScope(scopes[M], scopes'[M])
    <3>1. ss[M] = scopes[M] BY <1>4, <1>8
    <3> QED BY <1>4, <1>12, <2>1, <3>1 DEF EmitsTo, LongerScope
  <2>4. DOMAIN scopes' = 1 .. M BY <2>2, SeqIs
  <2> QED BY <2>1, <2>2, <2>3, <2>4
<1>14. ASSUME NEW i \in 1 .. M PROVE ScopeOK(i, W2, F)'
  <2>1. /\ i \in Nat /\ W \subseteq W2 /\ ScopeOK(i, W, F)
        /\ (i > 1 => LongerScope(scopes[i - 1], scopes'[i - 1]))
    <3>1. i > 1 => i - 1 \in 1 .. M BY <1>4
    <3>2. i \in 1 .. L BY <1>2, <1>4
    <3> QED BY <1>2, <1>11, <1>13, <3>1, <3>2
  <2>2. KnownTo(i)' = KnownTo(i) /\ GlobalTo(i)' = GlobalTo(i)
    <3>1. \A j \in 1 .. (i - 1) : scopes'[j].mLocals = scopes[j].mLocals
      <4>1. \A j \in 1 .. (i - 1) : j \in 1 .. M BY <1>4
      <4> QED BY <1>13, <4>1
    <3> QED BY <1>3, <2>1, <3>1, KnownSame, GlobalSame
  <2>3. CASE i # M BY <1>3, <1>13, <2>1, <2>2, <2>3, ScopeStays
  <2>4. CASE i = M
    <3>1. /\ scopes'[i].mLocals = scopes[i].mLocals /\ scopes'[i].mVars = scopes[i].mVars
          /\ LongerScope(scopes[i], scopes'[i])
      BY <1>13
    <3>2. \A p \in (Len(scopes[i].code) + 1) .. Len(scopes'[i].code) :
            Fits(ScopeTyping(i)', W2, p)
      BY <1>12, <2>4
    <3> QED BY <1>3, <2>1, <2>2, <3>1, <3>2, ScopeEmits
  <2> QED BY <2>3, <2>4
<1>15. ScopesOK(W2, F)'
  <2>1. Level' = M /\ TextLevel' = TextLevel BY <1>3, <1>13 DEF Level, TextLevel
  <2>2. \A n \in mWorkspaceVars' :
          GlobalAt(ScopeTyping(1)', n, Len(scopes'[1].code) + 1)
    <3>1. LongerScope(scopes[1], scopes'[1])
      <4>1. 1 \in 1 .. M BY <1>4
      <4> QED BY <1>13, <4>1
    <3> QED BY <1>1, <1>3, <3>1, GlobalStays DEF ScopesOK
  <2>3. mWorkspaceVars' # {} => inTopLevel' BY <1>1, <1>3 DEF ScopesOK
  <2> QED BY <1>3, <1>4, <1>13, <1>14, <2>1, <2>2, <2>3 DEF ScopesOK
<1>16. \A w \in W2 : Typed(w, W2, F)
  <2>1. Typed(ScopeTyping(L), W, F) BY <1>2 DEF ScopeOK
  <2> QED BY <1>3, <1>11, <2>1, TypedSame
<1>17. scopes' # <<>> /\ mWorkspaceVars' \subseteq Names BY <1>3, <1>4, <1>13, SeqEmpty
<1>18. Parts(W2, F)'
  <2>1. W \subseteq W2 BY <1>11
  <2> QED BY <1>1, <1>3, <1>15, <1>16, <1>17, <2>1, ParseKeeps
<1> QED BY <1>18

LEMMA EndTooSoonKeeps ==
  ASSUME NEW W, NEW F, Parts(W, F), EndTooSoon
  PROVE  Parts(W, F)'
<1>1. mode = "parse" /\ Refuse /\ UNCHANGED <<inTopLevel, running, tokens>> BY DEF EndTooSoon
<1>2. tokens' \in 0 .. MaxTokens BY <1>1 DEF Parts, ModesOK
<1> QED BY <1>1, <1>2, RefuseKeeps

-----------------------------------------------------------------------------
(* Values and forms.                                                       *)

LEMMA ValuesStay ==
  ASSUME DOMAIN funs \subseteq DOMAIN funs', NEW v, IsValue(v)
  PROVE  IsValue(v)'
  BY DEF IsValue

LEMMA ValueIsNotNone ==
  ASSUME IsSeq(funs), NEW v, IsValue(v)
  PROVE  v # None
<1>1. DOMAIN funs \subseteq Nat
  <2>1. Len(funs) \in Nat /\ DOMAIN funs = 1 .. Len(funs) BY SeqIs
  <2> QED BY <2>1
<1>2. 0 .. MaxTokens \subseteq Nat /\ Builtins \subseteq Names BY ClosuresAssumption
<1>3. v \in {"number", "prim", "fun"} \X (Nat \cup Names)
  BY <1>1, <1>2 DEF IsValue, Number, Builtin, FunObj
<1> QED BY <1>3, ClosuresAssumption

LEMMA FormsStay ==
  ASSUME NEW F, FormsOK(F), UNCHANGED <<forms, mWorkspace, history>>,
         DOMAIN funs \subseteq DOMAIN funs', CurrentOK(F)'
  PROVE  FormsOK(F)'
<1>1. \A t \in DOMAIN history : TextOK(t, F)'
  <2>1. \A t \in DOMAIN history : TextOK(t, F) BY DEF FormsOK
  <2> QED BY <2>1 DEF TextOK, Has
<1>2. \A f \in DOMAIN forms, n \in Names : forms[f][n] = None \/ IsValue(forms[f][n])'
  BY ValuesStay DEF FormsOK
<1> QED BY <1>1, <1>2 DEF FormsOK

(* The typing of the text itself. *)
LEMMA TextTyping ==
  ASSUME NEW W, NEW F, Parts(W, F), mode = "parse", NEW L, L = Level, L = TextLevel
  PROVE  /\ ScopeOK(L, W, F) /\ Here = scopes[L] /\ Here.args = <<>> /\ Here.code = scopes[L].code
         /\ KnownTo(L) = {} /\ Len(VarNames(Here)) = 0 /\ L \in {1, 2}
         /\ DOMAIN VarNames(Here) = {}
         /\ \A n \in GlobalTo(L) : Has(Len(history), n)
<1>1. ScopesOK(W, F) BY DEF Parts
<1>2. /\ IsSeq(scopes) /\ Len(scopes) = L /\ L \in 1 .. L
      /\ (\A i \in 1 .. L : ScopeOK(i, W, F)) /\ L \in {1, 2} /\ Here = scopes[L]
  BY <1>1, ParsingFacts
<1>3. KnownTo(L) = {}
  <2>1. ASSUME NEW n, NEW j \in 1 .. (L - 1) PROVE IndexOf(n, scopes[j].mLocals) = 0
    <3>1. j = 1 /\ 1 \in 1 .. L BY <1>2
    <3>2. scopes[1].mLocals = <<>> BY <1>2, <3>1 DEF ScopeOK
    <3>3. \A k \in DOMAIN <<>> : <<>>[k] # n BY SeqEmpty
    <3> QED BY <3>1, <3>2, <3>3, IndexOfNone
  <2> QED BY <2>1 DEF KnownTo
<1>4. ScopeOK(L, W, F) /\ Here.args = <<>> BY <1>2 DEF ScopeOK
<1>5. Len(VarNames(Here)) = 0 /\ DOMAIN VarNames(Here) = {}
  <2>1. IsSeq(Here.mVars) /\ \A k \in DOMAIN Here.mVars : Here.mVars[k].mName \in KnownTo(L)
    BY <1>2, <1>4, ScopeFacts
  <2>2. Len(Here.mVars) \in Nat /\ DOMAIN Here.mVars = 1 .. Len(Here.mVars) BY <2>1, SeqIs
  <2>3. DOMAIN Here.mVars = {} BY <1>3, <2>1
  <2>4. Len(Here.mVars) = 0
    <3>1. Len(Here.mVars) \notin 1 .. Len(Here.mVars) BY <2>2, <2>3
    <3> QED BY <2>2, <3>1
  <2> QED BY <2>1, <2>3, <2>4, VarNamesAre
<1>6. ASSUME NEW n \in GlobalTo(L) PROVE Has(Len(history), n)
  <2>1. n \in Names /\ forms[mWorkspace][n] # None
    <3>1. CASE L = 1 BY <1>6, <3>1 DEF GlobalTo
    <3>2. CASE L # 1
      <4>1. ~ inTopLevel BY <3>2 DEF TextLevel
      <4>2. mWorkspaceVars = {} BY <1>1, <4>1 DEF ScopesOK
      <4> QED BY <1>6, <3>2, <4>2 DEF GlobalTo, InWorkspace
    <3> QED BY <3>1, <3>2
  <2>2. CurrentOK(F) BY SMTT(30) DEF Parts, FormsOK
  <2> QED BY <2>1, <2>2 DEF CurrentOK
<1> QED BY <1>2, <1>3, <1>4, <1>5, <1>6

(* What a function may be run with.                                        *)
RunWith(w, args, theVars, env) ==
  /\ IsSeq(args) /\ Len(args) = Len(w.def.args) /\ \A i \in DOMAIN args : IsValue(args[i])
  /\ IsSeq(theVars) /\ Len(theVars) = Len(w.vars)
  /\ \A n \in Names : /\ env[n] # None <=> n \in w.known
                      /\ env[n] # None => IsValue(env[n])
  /\ \A k \in DOMAIN w.vars : theVars[k] = env[w.vars[k]]
  /\ \A n \in w.globals : Has(w.def.text, n)

(* The frame with which a function begins.                                 *)
LEMMA FrameBegins ==
  ASSUME NEW w, NEW F, Shaped(w, F), IsSeq(funs), NEW base, NEW args, NEW theVars, NEW form,
         NEW env, RunWith(w, args, theVars, env),
         NEW fr, fr = NewFrame(w.def, base, args, theVars, form, env)
  PROVE  FrameFits(fr, w) /\ fr.stackBase = base /\ fr.mWorkspace = form /\ fr.pc = 1
<1> USE DEF RunWith
<1>1. /\ fr.code = w.def.code /\ fr.pc = 1 /\ fr.stackBase = base
      /\ fr.mLocals = args \o [i \in 1 .. (w.def.mNumLocals - Len(args)) |-> None]
      /\ fr.mVars = theVars /\ fr.mWorkspace = form /\ fr.text = w.def.text
      /\ fr.env = [n \in Names |-> IF IndexOf(n, w.def.args) = 0 THEN env[n]
                                   ELSE args[IndexOf(n, w.def.args)]]
      /\ IsFrame(fr)
  BY DEF NewFrame, IsFrame
<1>2. /\ IsSeq(w.def.code) /\ w.def.args \in Seq(Names) /\ w.locals \in Seq(Names)
      /\ w.vars \in Seq(Names) /\ w.known \subseteq Names
      /\ w.def.mNumLocals = Len(w.locals) /\ Len(w.def.args) <= Len(w.locals)
      /\ \A k \in DOMAIN w.def.args : w.locals[k] = w.def.args[k]
      /\ \A k \in DOMAIN w.vars : w.vars[k] \in w.known /\ IndexOf(w.vars[k], w.locals) = 0
  BY DEF Shaped
<1>3. /\ Len(w.def.args) \in Nat /\ DOMAIN w.def.args = 1 .. Len(w.def.args)
      /\ Len(w.locals) \in Nat /\ DOMAIN args = 1 .. Len(w.def.args)
      /\ Len(w.def.code) \in Nat
  BY <1>2, SeqIs
<1>4. PICK m : m = w.def.mNumLocals - Len(args) OBVIOUS
<1>5. m \in Nat /\ Len(args) + m = Len(w.locals) BY <1>2, <1>3, <1>4
<1>6. PICK pad : pad = [i \in 1 .. m |-> None] OBVIOUS
<1>7. IsSeq(pad) /\ Len(pad) = m
  <2>1. pad = [i \in 1 .. m |-> pad[i]] BY <1>6
  <2> QED BY <1>5, <2>1, SeqMade
<1>8. /\ IsSeq(args \o pad) /\ Len(args \o pad) = Len(args) + Len(pad)
      /\ \A i \in 1 .. Len(args) : (args \o pad)[i] = args[i]
  BY <1>7, SeqConcat, SMTT(30)
<1>9. /\ IsSeq(fr.mLocals) /\ Len(fr.mLocals) = Len(w.locals)
      /\ \A i \in DOMAIN args : fr.mLocals[i] = args[i]
  <2>1. fr.mLocals = args \o pad BY <1>1, <1>4, <1>6
  <2> QED BY <1>3, <1>5, <1>7, <1>8, <2>1
<1>10. ASSUME NEW n \in Names, IndexOf(n, w.def.args) # 0
       PROVE  /\ IndexOf(n, w.def.args) \in DOMAIN args
              /\ IndexOf(n, w.locals) = IndexOf(n, w.def.args)
  <2>1. IsSeq(w.def.args) /\ IsSeq(w.locals) BY <1>2, NameSeq
  <2>2. IndexOf(n, w.def.args) \in 1 .. Len(w.def.args) BY <1>10, <2>1, IndexOfIs
  <2>3. IndexOf(n, w.locals) = IndexOf(n, w.def.args)
    <3>1. Len(w.def.args) <= Len(w.locals)
          /\ \A k \in 1 .. Len(w.def.args) : w.locals[k] = w.def.args[k]
      BY <1>2, <1>3
    <3> QED BY ONLY <1>10, <2>1, <3>1, IndexOfLonger, SMTT(30)
  <2> QED BY <1>3, <2>2, <2>3
<1>11. ASSUME NEW n
       PROVE  /\ LocalAt(w, n, fr.pc) <=> IndexOf(n, w.def.args) # 0
              /\ GlobalAt(w, n, fr.pc) <=> n \in w.globals
  <2>1. 1 .. (fr.pc - 1) = {} BY <1>1
  <2> QED BY <2>1 DEF LocalAt, GlobalAt
<1>12. ASSUME NEW n \in Names
       PROVE  /\ fr.env[n] # None <=> BoundAt(w, n, fr.pc)
              /\ fr.env[n] # None => IsValue(fr.env[n])
              /\ LocalAt(w, n, fr.pc) => fr.mLocals[IndexOf(n, w.locals)] = fr.env[n]
              /\ GlobalAt(w, n, fr.pc) => Has(w.def.text, n)
  <2>1. CASE IndexOf(n, w.def.args) = 0
    <3>1. fr.env[n] = env[n] BY <1>1, <2>1
    <3> QED BY <1>11, <2>1, <3>1 DEF BoundAt
  <2>2. CASE IndexOf(n, w.def.args) # 0
    <3>1. fr.env[n] = args[IndexOf(n, w.def.args)] BY <1>1, <2>2
    <3>2. IsValue(fr.env[n]) /\ fr.env[n] # None BY <1>10, <2>2, <3>1, ValueIsNotNone
    <3>3. fr.mLocals[IndexOf(n, w.locals)] = fr.env[n] BY <1>9, <1>10, <2>2, <3>1
    <3> QED BY <1>11, <2>2, <3>2, <3>3 DEF BoundAt
  <2> QED BY <2>1, <2>2
<1>13. ASSUME NEW k \in DOMAIN w.vars PROVE fr.mVars[k] = fr.env[w.vars[k]]
  <2>1. w.vars[k] \in Names /\ IndexOf(w.vars[k], w.locals) = 0 BY <1>2
  <2>2. IndexOf(w.vars[k], w.def.args) = 0 BY <1>2, <1>3, <1>10, <2>1
  <2>3. fr.env[w.vars[k]] = env[w.vars[k]] BY <1>1, <2>1, <2>2
  <2> QED BY <1>1, <2>3
<1>14. fr.pc \in 1 .. (Len(fr.code) + 1) BY <1>1, <1>3
<1>15. fr.env = [n \in Names |-> fr.env[n]] BY <1>1
<1> QED BY <1>1, <1>9, <1>12, <1>13, <1>14, <1>15 DEF FrameFits

LEMMA EndTextKeeps ==
  ASSUME NEW W, NEW F, Parts(W, F), EndText
  PROVE  \E W2 : Parts(W2, F)'
<1>0. PICK L : L = Level OBVIOUS
<1>1. /\ mode = "parse" /\ L = TextLevel /\ mode' = "run" /\ scopes' = <<>>
      /\ mWorkspaceVars' = {}
      /\ UNCHANGED <<inTopLevel, stack, funs, forms, mWorkspace, history, tokens>>
      /\ frames' = <<NewFrame(NewFunDef(Here), IF inTopLevel THEN 0 ELSE Len(stack), <<>>, <<>>,
                              mWorkspace, Unbound)>>
  BY <1>0 DEF EndText
<1>2. PICK w, W2 : w = ScopeTyping(L) /\ W2 = W \cup {w} OBVIOUS
<1>3. /\ ScopeOK(L, W, F) /\ Here = scopes[L] /\ Here.args = <<>>
      /\ KnownTo(L) = {} /\ Len(VarNames(Here)) = 0 /\ DOMAIN VarNames(Here) = {}
      /\ (\A n \in GlobalTo(L) : Has(Len(history), n)) /\ L \in {1, 2}
  BY <1>0, <1>1, TextTyping
<1>4. /\ w.def = NewFunDef(Here) /\ w.def.args = <<>> /\ w.known = {} /\ Len(w.vars) = 0
      /\ DOMAIN w.vars = {} /\ w.globals = GlobalTo(L) /\ w.def.text = Len(history)
      /\ w.def.mWorkspace = mWorkspace /\ w.top = (inTopLevel /\ L = 1)
  BY <1>2, <1>3 DEF ScopeTyping, NewFunDef
<1>5. Typed(w, W, F) /\ Shaped(w, F) BY <1>2, <1>3 DEF ScopeOK, Typed
<1>6. /\ ModesOK /\ FunsOK(W) /\ FormsOK(F) /\ CurrentOK(F) /\ (\A x \in W : Typed(x, W, F))
      /\ IsSeq(funs) /\ IsSeq(stack)
  BY DEF Parts, FormsOK, FunsOK, ModesOK
<1>7. PICK base, fr : /\ base = (IF inTopLevel THEN 0 ELSE Len(stack))
                      /\ fr = NewFrame(w.def, base, <<>>, <<>>, mWorkspace, Unbound)
  OBVIOUS
<1>8. frames' = <<fr>> BY <1>1, <1>4, <1>7
<1>9. base \in 0 .. Len(stack)
  <2>1. Len(stack) \in Nat BY <1>6, SeqIs
  <2> QED BY <1>7, <2>1
<1>10. FrameFits(fr, w) /\ fr.stackBase = base /\ fr.mWorkspace = mWorkspace /\ fr.pc = 1
  <2>0. PICK e, u : e = <<>> /\ u = Unbound OBVIOUS
  <2>1. IsSeq(e) /\ Len(e) = 0 /\ DOMAIN e = {} BY <2>0, SeqEmpty
  <2>2. \A n \in Names : /\ u[n] # None <=> n \in w.known
                         /\ u[n] # None => IsValue(u[n])
    BY <1>4, <2>0 DEF Unbound
  <2>3. \A n \in w.globals : Has(w.def.text, n) BY <1>3, <1>4
  <2>4. Len(e) = Len(w.def.args) /\ Len(e) = Len(w.vars) BY <1>4, <2>0, <2>1
  <2>5. \A k \in DOMAIN w.vars : e[k] = u[w.vars[k]] BY <1>4
  <2>6. \A i \in DOMAIN e : IsValue(e[i]) BY <2>1
  <2>7. fr = NewFrame(w.def, base, e, e, mWorkspace, u) BY <1>7, <2>0
  <2>8. Shaped(w, F) /\ IsSeq(funs) BY <1>5, <1>6
  <2>9. RunWith(w, e, e, u) BY <2>1, <2>2, <2>3, <2>4, <2>5, <2>6 DEF RunWith
  <2> QED BY <2>7, <2>8, <2>9, FrameBegins
<1>11. IsSeq(frames') /\ Len(frames') = 1 /\ frames'[1] = fr /\ DOMAIN frames' = 1 .. 1
       /\ frames' # <<>> /\ Top' = fr
  <2>1. IsSeq(frames') /\ Len(frames') = 1 /\ frames'[1] = fr /\ frames' # <<>>
    BY <1>8, SeqOne
  <2> QED BY <2>1, SeqIs DEF Top, Last
<1>12. ModesOK'
  <2>1. IsValue(0)' = IsValue(0) BY <1>1 DEF IsValue
  <2> QED BY <1>1, <1>6, <1>11 DEF ModesOK, IsValue
<1>13. ScopesOK(W2, F)' BY <1>1 DEF ScopesOK
<1>14. FunsOK(W2)'
  <2>1. W \subseteq W2 BY <1>2
  <2> QED BY <1>1, <1>6, <2>1, FunsStay
<1>15. FramesOK(W2)'
  <2>1. FrameFits(fr, w)' BY <1>1, <1>10 DEF FrameFits, Has, IsValue
  <2>2. Nested'
    <3>1. fr.text = Len(history) BY <1>4, <1>10 DEF FrameFits
    <3>2. \A i \in DOMAIN frames' : i = 1 /\ ~ (i < Len(frames')) BY <1>11
    <3>3. \A i \in DOMAIN frames' : frames'[i].stackBase \in 0 .. Len(stack')
      BY <1>1, <1>9, <1>10, <1>11, <3>2
    <3> QED BY <1>1, <1>11, <3>1, <3>2, <3>3 DEF Nested
  <2>3. w.top => OfText(1)' BY <1>1, <1>4 DEF OfText
  <2>4. mWorkspace \in DOMAIN forms BY <1>6 DEF FormsOK
  <2>5. w \in W2 BY <1>2
  <2>6. \A i \in DOMAIN frames' : FrameOK(i, W2)'
    <3>1. FrameOK(1, W2)' BY <1>1, <1>4, <1>10, <1>11, <2>1, <2>3, <2>4, <2>5 DEF FrameOK
    <3>2. \A i \in DOMAIN frames' : i = 1 BY <1>11
    <3> QED BY <3>1, <3>2
  <2> QED BY <1>11, <2>2, <2>6 DEF FramesOK
<1>16. PushRun'
  <2>1. 1 .. (fr.pc - 1) = {} BY <1>10
  <2> QED BY <1>11, <2>1 DEF PushRun
<1>17. FormsOK(F)'
  <2>1. CurrentOK(F)' BY <1>1, <1>6, <1>10, <1>11 DEF CurrentOK, Has
  <2> QED BY <1>1, <1>6, <2>1, FormsStay
<1>18. \A x \in W2 : Typed(x, W2, F) BY <1>2, <1>5, <1>6, TypedSame
<1>19. Parts(W2, F)'
  BY <1>12, <1>13, <1>14, <1>15, <1>16, <1>17, <1>18 DEF Parts
<1> QED BY <1>19

LEMMA BeginKeeps ==
  ASSUME NEW W, NEW F, Parts(W, F), Begin
  PROVE  \E F2 : Parts(W, F2)'
<1>1. /\ mode = "prompt" /\ mode' = "parse" /\ mWorkspaceVars' = {} /\ inTopLevel' \in BOOLEAN
      /\ history' = Append(history, [start |-> forms[mWorkspace], first |-> Unbound,
                                     again |-> FALSE, late |-> {}])
      /\ UNCHANGED <<frames, stack, funs, forms, mWorkspace, tokens>>
      /\ scopes' = <<NewScope("top", <<>>)>> \o
                     (IF inTopLevel' THEN <<>> ELSE <<NewScope("inner", <<>>)>>)
  BY DEF Begin
<1>2. PICK t, F2 : t = Len(history) + 1 /\ F2 = Append(F, mWorkspace) OBVIOUS
<1>3. /\ ModesOK /\ FunsOK(W) /\ FormsOK(F) /\ (\A x \in W : Typed(x, W, F))
      /\ IsSeq(history) /\ IsSeq(F) /\ Len(F) = Len(history) /\ mWorkspace \in DOMAIN forms
      /\ frames = <<>> /\ IsSeq(frames)
  BY <1>1 DEF Parts, FormsOK, FunsOK, ModesOK, FramesOK
<1>4. /\ Len(history) \in Nat /\ DOMAIN history = 1 .. Len(history) /\ DOMAIN F = DOMAIN history
      /\ DOMAIN frames = {}
  BY <1>3, SeqIs, SeqEmpty
<1>5. /\ IsSeq(history') /\ Len(history') = t /\ DOMAIN history' = 1 .. t
      /\ (\A i \in DOMAIN history : history'[i] = history[i])
      /\ history'[t] = [start |-> forms[mWorkspace], first |-> Unbound,
                        again |-> FALSE, late |-> {}]
  BY <1>1, <1>2, <1>3, <1>4, SeqAppend
<1>6. /\ IsSeq(F2) /\ Len(F2) = t /\ DOMAIN F2 = 1 .. t /\ (\A i \in DOMAIN F : F2[i] = F[i])
      /\ F2[t] = mWorkspace /\ Longer(F, F2)
  BY <1>2, <1>3, <1>4, SeqAppend, LongerAppend
<1>7. t \in 1 .. t /\ t \in Nat /\ (\A i \in 1 .. t : i = t \/ i \in DOMAIN history)
      /\ t \notin DOMAIN history
  BY <1>2, <1>4
<1>8. \A x \in W : Typed(x, W, F2)
  BY <1>3, <1>6, TypedMore
<1>9. /\ IsSeq(scopes') /\ scopes'[1] = NewScope("top", <<>>)
      /\ DOMAIN scopes' = 1 .. Len(scopes') /\ Len(scopes') = TextLevel'
      /\ Len(scopes') \in {1, 2}
      /\ Len(scopes') = 2 => scopes'[2] = NewScope("inner", <<>>)
  <2>1. CASE inTopLevel'
    <3>1. scopes' = <<NewScope("top", <<>>)>> BY <1>1, <2>1
    <3>2. TextLevel' = 1 BY <2>1 DEF TextLevel
    <3> QED BY <3>1, <3>2, SeqOne, SeqIs
  <2>2. CASE ~ inTopLevel'
    <3>1. PICK a, b : a = NewScope("top", <<>>) /\ b = NewScope("inner", <<>>) OBVIOUS
    <3>3. scopes' = <<a>> \o <<b>> BY <1>1, <2>2, <3>1
    <3>4. /\ IsSeq(<<a>>) /\ Len(<<a>>) = 1 /\ <<a>>[1] = a
          /\ IsSeq(<<b>>) /\ Len(<<b>>) = 1 /\ <<b>>[1] = b
      BY SeqOne
    <3>5. 1 \in 1 .. 1 /\ 1 + 1 = 2 OBVIOUS
    <3>6. IsSeq(scopes') /\ Len(scopes') = 2 /\ scopes'[1] = a /\ scopes'[2] = b
      <4>1. /\ IsSeq(<<a>> \o <<b>>) /\ Len(<<a>> \o <<b>>) = 1 + 1
            /\ (<<a>> \o <<b>>)[1] = a /\ (<<a>> \o <<b>>)[1 + 1] = b
        BY <3>4, <3>5, SeqConcat
      <4> QED BY <3>3, <3>5, <4>1
    <3>2. TextLevel' = 2 BY <2>2 DEF TextLevel
    <3> QED BY <3>1, <3>2, <3>6, SeqIs
  <2> QED BY <2>1, <2>2
<1>10. ModesOK'
  <2>1. scopes' # <<>> BY <1>9, SeqEmpty
  <2> QED BY <1>1, <1>3, <2>1 DEF ModesOK, IsValue
<1>11. ScopesOK(W, F2)'
  <2>1. Len(history') \in DOMAIN F2 /\ mWorkspace' = F2[Len(history')] /\ <<>> \in Seq(Names)
    BY <1>1, <1>5, <1>6, <1>7
  <2>2. ScopeOK(1, W, F2)'
    <3>1. 1 \in Nat \ {0} /\ ("top" = "top" <=> 1 = 1) OBVIOUS
    <3> QED BY <1>1, <1>9, <2>1, <3>1, ScopeBegins
  <2>3. Len(scopes') = 2 => ScopeOK(2, W, F2)'
    <3>1. 2 \in Nat \ {0} /\ ("inner" = "top" <=> 2 = 1) OBVIOUS
    <3> QED BY <1>1, <1>9, <2>1, <3>1, ScopeBegins
  <2>4. \A i \in DOMAIN scopes' : i = 1 \/ (i = 2 /\ Len(scopes') = 2) BY <1>9
  <2>5. \A i \in DOMAIN scopes' : ScopeOK(i, W, F2)' BY <2>2, <2>3, <2>4
  <2>6. Level' >= TextLevel' BY <1>9 DEF Level
  <2> QED BY <1>1, <1>9, <2>5, <2>6 DEF ScopesOK
<1>12. FunsOK(W)'
  <2>1. ASSUME NEW i \in DOMAIN funs, NEW w \in W, FunFits(funs[i], w) PROVE FunFits(funs[i], w)'
    <3>1. w.def.text \in DOMAIN history BY <1>3, <1>4 DEF Typed, Shaped
    <3>2. \A n : Has(w.def.text, n)' <=> Has(w.def.text, n) BY <1>5, <3>1 DEF Has
    <3> QED BY <1>1, <2>1, <3>2 DEF FunFits, IsValue
  <2> QED BY <1>1, <1>3, <2>1 DEF FunsOK
<1>13. FramesOK(W)' /\ PushRun' BY <1>1, <1>3, <1>4 DEF FramesOK, Nested, PushRun
<1>14. forms[mWorkspace] = [n \in Names |-> forms[mWorkspace][n]]
  BY <1>3 DEF FormsOK
<1>15. TextOK(t, F2)'
  <2>1. IsHistory(history'[t])
    <3>1. PICK h, v : h = history'[t] /\ v = forms[mWorkspace] OBVIOUS
    <3>2. h = [start |-> v, first |-> Unbound, again |-> FALSE, late |-> {}]
          /\ v = [n \in Names |-> v[n]]
      BY <1>5, <1>14, <3>1
    <3>3. h.start = v /\ h.first = Unbound /\ h.again = FALSE /\ h.late = {} BY <3>2
    <3>4. Unbound = [n \in Names |-> Unbound[n]] BY DEF Unbound
    <3>5. h = [start |-> [n \in Names |-> h.start[n]], first |-> [n \in Names |-> h.first[n]],
               again |-> h.again, late |-> h.late]
      BY ONLY <3>2, <3>3, <3>4, Zenon
    <3> QED BY <3>1, <3>5 DEF IsHistory
  <2>2. history'[t].start = forms[mWorkspace] /\ \A n \in Names : history'[t].first[n] = None
    BY <1>5 DEF Unbound
  <2> QED BY <1>1, <1>3, <1>6, <2>1, <2>2 DEF TextOK, Has
<1>16. ASSUME NEW i \in DOMAIN history PROVE TextOK(i, F2)'
  <2>1. TextOK(i, F) BY <1>3 DEF FormsOK
  <2>2. F2[i] = F[i] /\ history'[i] = history[i] BY <1>4, <1>5, <1>6
  <2> QED BY <1>1, <2>1, <2>2 DEF TextOK, Has
<1>17. CurrentOK(F2)'
  <2>1. history'[t].start = forms[mWorkspace] /\ history'[t].again = FALSE BY <1>5
  <2>2. history' # <<>> BY <1>5, <1>7, SeqEmpty
  <2> QED BY <1>1, <1>5, <1>6, <2>1, <2>2 DEF CurrentOK, Has
<1>18. FormsOK(F2)'
  <2>1. \A i \in DOMAIN history' : TextOK(i, F2)' BY <1>5, <1>7, <1>15, <1>16
  <2>2. \A f \in DOMAIN forms, n \in Names : forms[f][n] = None \/ IsValue(forms[f][n])'
    BY <1>1, <1>3 DEF FormsOK, IsValue
  <2> QED BY <1>1, <1>3, <1>5, <1>6, <1>17, <2>1, <2>2 DEF FormsOK
<1>19. Parts(W, F2)'
  BY <1>8, <1>10, <1>11, <1>12, <1>13, <1>18 DEF Parts
<1> QED BY <1>19

-----------------------------------------------------------------------------
(* Running.                                                                *)

LEMMA RunningFacts ==
  ASSUME NEW W, NEW F, Parts(W, F), mode = "run", NEW N, N = Len(frames)
  PROVE  /\ IsSeq(frames) /\ N \in Nat \ {0} /\ N \in 1 .. N /\ DOMAIN frames = 1 .. N
         /\ Top = frames[N] /\ frames # <<>> /\ (\A i \in 1 .. N : FrameOK(i, W))
         /\ IsSeq(stack) /\ Len(stack) \in Nat /\ DOMAIN stack = 1 .. Len(stack)
         /\ (\A i \in DOMAIN stack : IsValue(stack[i]))
         /\ Top.stackBase \in 0 .. Len(stack)
         /\ IsSeq(funs) /\ IsSeq(history) /\ IsSeq(forms) /\ scopes = <<>>
         /\ frames[1].text = Len(history)
<1>1. /\ IsSeq(frames) /\ (\A i \in DOMAIN frames : FrameOK(i, W)) /\ Nested
      /\ IsSeq(stack) /\ (\A i \in DOMAIN stack : IsValue(stack[i])) /\ frames # <<>>
      /\ IsSeq(funs) /\ IsSeq(history) /\ IsSeq(forms) /\ scopes = <<>>
  BY DEF Parts, ModesOK, FramesOK, FunsOK, FormsOK
<1>2. N \in Nat /\ DOMAIN frames = 1 .. N /\ Len(stack) \in Nat
      /\ DOMAIN stack = 1 .. Len(stack) /\ Len(frames) > 0
  BY <1>1, SeqIs, SeqFront
<1>3. N \in 1 .. N /\ N \in Nat \ {0} BY <1>2
<1>4. Top = frames[N] BY DEF Top, Last
<1> QED BY <1>1, <1>2, <1>3, <1>4 DEF Nested

(* The frame that runs is typed. *)
LEMMA TopFits ==
  ASSUME NEW W, NEW F, Parts(W, F), mode = "run", NEW N, N = Len(frames)
  PROVE  \E w \in W : /\ FrameFits(Top, w) /\ Typed(w, W, F) /\ (w.top => OfText(N))
                      /\ (~ OfText(N) => Top.mWorkspace = w.def.mWorkspace)
<1>1. Top = frames[N] /\ FrameOK(N, W) BY RunningFacts
<1>2. \A w \in W : Typed(w, W, F) BY DEF Parts
<1> QED BY <1>1, <1>2 DEF FrameOK

LEMMA FrameFields ==
  ASSUME NEW fr, IsFrame(fr)
  PROVE  DOMAIN fr = {"code", "pc", "stackBase", "mLocals", "mVars", "mWorkspace", "text", "env"}
  BY DEF IsFrame

(* The frames a are those there are, the last moved on by an opcode.       *)
Advances(a, l) ==
  /\ IsSeq(a) /\ Len(a) = l /\ DOMAIN a = 1 .. l
  /\ \A i \in 1 .. l : i # l => a[i] = frames[i]
  /\ IsFrame(a[l]) /\ a[l].pc = frames[l].pc + 1
  /\ a[l].code = frames[l].code /\ a[l].stackBase = frames[l].stackBase
  /\ a[l].mLocals = frames[l].mLocals /\ a[l].mVars = frames[l].mVars
  /\ a[l].mWorkspace = frames[l].mWorkspace /\ a[l].text = frames[l].text
  /\ a[l].env = frames[l].env

LEMMA AdvancedIs ==
  ASSUME NEW W, NEW F, Parts(W, F), mode = "run", NEW N, N = Len(frames),
         NEW a, a = Advanced
  PROVE  Advances(a, N)
<1>1. IsSeq(frames) /\ N \in Nat \ {0} /\ N \in 1 .. N /\ DOMAIN frames = 1 .. N
      /\ FrameOK(N, W)
  BY RunningFacts
<1>2. PICK fr : fr = frames[N] OBVIOUS
<1>3. IsFrame(fr) BY <1>1, <1>2 DEF FrameOK, FrameFits
<1>4. PICK fr2 : fr2 = [fr EXCEPT !.pc = fr.pc + 1] OBVIOUS
<1>5. a = [frames EXCEPT ![N] = fr2] BY <1>2, <1>4 DEF Advanced
<1>6. a[N] = fr2 /\ \A i \in 1 .. N : i # N => a[i] = frames[i] BY <1>1, <1>5
<1>7. a = [i \in 1 .. N |-> a[i]] BY <1>1, <1>5
<1>8. IsSeq(a) /\ Len(a) = N /\ DOMAIN a = 1 .. N BY <1>1, <1>7, SeqMade
<1>9. /\ IsFrame(fr2) /\ fr2.pc = fr.pc + 1 /\ fr2.code = fr.code
      /\ fr2.stackBase = fr.stackBase /\ fr2.mLocals = fr.mLocals /\ fr2.mVars = fr.mVars
      /\ fr2.mWorkspace = fr.mWorkspace /\ fr2.text = fr.text /\ fr2.env = fr.env
  BY <1>3, <1>4, FrameFields DEF IsFrame
<1> QED BY <1>2, <1>6, <1>8, <1>9 DEF Advances

(* What is bound at the next opcode. *)
LEMMA BoundNext ==
  ASSUME NEW w, NEW p \in Nat \ {0}, NEW n
  PROVE  /\ w.def.code[p].op # "BindLocal" => (LocalAt(w, n, p + 1) <=> LocalAt(w, n, p))
         /\ w.def.code[p].op # "BindWorkspaceVar" => (GlobalAt(w, n, p + 1) <=> GlobalAt(w, n, p))
         /\ w.def.code[p].op # "BindLocal" => (BoundAt(w, n, p + 1) <=> BoundAt(w, n, p))
         /\ w.def.code[p].op = "BindLocal" /\ w.def.code[p].name # n =>
              (LocalAt(w, n, p + 1) <=> LocalAt(w, n, p))
         /\ w.def.code[p].op = "BindWorkspaceVar" /\ w.def.code[p].name # n =>
              (GlobalAt(w, n, p + 1) <=> GlobalAt(w, n, p))
         /\ w.def.code[p].op = "BindLocal" /\ w.def.code[p].name = n => LocalAt(w, n, p + 1)
<1>1. \A q : q \in 1 .. ((p + 1) - 1) <=> q \in 1 .. (p - 1) \/ q = p OBVIOUS
<1>2. LocalAt(w, n, p + 1) <=>
        \/ LocalAt(w, n, p)
        \/ w.def.code[p].op = "BindLocal" /\ w.def.code[p].name = n
  BY <1>1 DEF LocalAt
<1>3. GlobalAt(w, n, p + 1) <=>
        \/ GlobalAt(w, n, p)
        \/ w.def.code[p].op = "BindWorkspaceVar" /\ w.def.code[p].name = n
  BY <1>1 DEF GlobalAt
<1> QED BY <1>2, <1>3 DEF BoundAt

LEMMA FitsAdvanced ==
  ASSUME NEW fr, NEW w, FrameFits(fr, w), fr.pc <= Len(fr.code),
         fr.code[fr.pc].op \notin {"BindLocal", "BindWorkspaceVar"},
         NEW fr2, IsFrame(fr2), fr2.pc = fr.pc + 1, fr2.code = fr.code,
         fr2.mLocals = fr.mLocals, fr2.mVars = fr.mVars, fr2.text = fr.text, fr2.env = fr.env
  PROVE  FrameFits(fr2, w)
<1>1. fr.pc \in 1 .. (Len(fr.code) + 1) /\ fr.code = w.def.code BY DEF FrameFits
<1>2. fr.pc \in Nat \ {0} BY <1>1
<1>3. fr2.pc \in 1 .. (Len(fr2.code) + 1)
  <2>1. Len(fr.code) \in Int
    <3>1. CASE Len(fr.code) \in Int BY <3>1
    <3> QED BY <1>1
  <2> QED BY <1>1, <2>1
<1>4. \A n : /\ LocalAt(w, n, fr2.pc) <=> LocalAt(w, n, fr.pc)
             /\ GlobalAt(w, n, fr2.pc) <=> GlobalAt(w, n, fr.pc)
             /\ BoundAt(w, n, fr2.pc) <=> BoundAt(w, n, fr.pc)
  BY <1>1, <1>2, BoundNext, SMTT(30)
<1> QED BY <1>3, <1>4 DEF FrameFits

(* What the texts have found and bound, they go on to have. *)
HasStays == \A t \in DOMAIN history, n \in Names : Has(t, n) => Has(t, n)'

LEMMA FitsStays ==
  ASSUME NEW fr, NEW w, FrameFits(fr, w), DOMAIN funs \subseteq DOMAIN funs',
         w.def.text \in DOMAIN history, HasStays
  PROVE  FrameFits(fr, w)'
<1>1. \A v : IsValue(v) => IsValue(v)' BY ValuesStay
<1> QED BY <1>1 DEF FrameFits, HasStays

(* The text of every function has begun. *)
LEMMA TextBegan ==
  ASSUME NEW W, NEW F, Parts(W, F), NEW w \in W
  PROVE  /\ w.def.text \in DOMAIN history /\ w.def.text \in DOMAIN F
         /\ w.def.mWorkspace = F[w.def.text] /\ w.def.mWorkspace \in DOMAIN forms
<1>1. w.def.text \in DOMAIN F /\ w.def.mWorkspace = F[w.def.text]
  BY DEF Parts, Typed, Shaped
<1>2. IsSeq(F) /\ IsSeq(history) /\ Len(F) = Len(history)
      /\ \A t \in DOMAIN history : TextOK(t, F)
  BY DEF Parts, FormsOK
<1>3. w.def.text \in DOMAIN history BY <1>1, <1>2, SeqIs
<1> QED BY <1>1, <1>2, <1>3 DEF TextOK

(* A frame that fits is right where it lies. *)
LEMMA FrameLies ==
  ASSUME NEW W, NEW F, Parts(W, F), NEW i, NEW w \in W, NEW fr, FrameFits(fr, w),
         w.top => OfText(i),
         ~ OfText(i) => fr.mWorkspace = w.def.mWorkspace, fr.mWorkspace \in DOMAIN forms,
         frames'[i] = fr, UNCHANGED inTopLevel, DOMAIN forms \subseteq DOMAIN forms',
         DOMAIN funs \subseteq DOMAIN funs', HasStays
  PROVE  FrameOK(i, W)'
<1>1. FrameFits(fr, w)' BY TextBegan, FitsStays
<1>2. OfText(i)' <=> OfText(i) BY DEF OfText
<1>3. fr.mWorkspace \in DOMAIN forms' OBVIOUS
<1> QED BY <1>1, <1>2, <1>3 DEF FrameOK

LEMMA FrameStays ==
  ASSUME NEW W, NEW F, Parts(W, F), NEW i, FrameOK(i, W), frames'[i] = frames[i], UNCHANGED inTopLevel,
         DOMAIN forms \subseteq DOMAIN forms', DOMAIN funs \subseteq DOMAIN funs',
         HasStays
  PROVE  FrameOK(i, W)'
<1>1. PICK w \in W : /\ FrameFits(frames[i], w) /\ (w.top => OfText(i))
                     /\ (~ OfText(i) => frames[i].mWorkspace = w.def.mWorkspace)
                     /\ frames[i].mWorkspace \in DOMAIN forms
  BY DEF FrameOK
<1>2. PICK fr : fr = frames[i] OBVIOUS
<1> QED BY <1>1, <1>2, FrameLies

(* A step that changes no form.                                            *)
LEMMA RunKeeps ==
  ASSUME NEW W, NEW F, Parts(W, F), mode = "run", mode' \in {"prompt", "run"},
         mode' = "run" <=> frames' # <<>>,
         UNCHANGED <<compiling, forms, mWorkspace, history, tokens>>,
         DOMAIN funs \subseteq DOMAIN funs', FunsOK(W)',
         IsSeq(stack'), (\A i \in DOMAIN stack : IsValue(stack[i]))',
         FramesOK(W)', PushRun',
         mode' = "run" => frames'[1].mWorkspace = frames[1].mWorkspace
  PROVE  Parts(W, F)'
<1>1. ModesOK /\ FormsOK(F) /\ CurrentOK(F) /\ (\A w \in W : Typed(w, W, F)) BY DEF Parts, FormsOK
<1>2. ModesOK' BY <1>1 DEF ModesOK, compiling
<1>3. ScopesOK(W, F)' BY DEF ScopesOK
<1>4. CurrentOK(F)' BY <1>1 DEF CurrentOK, compiling, Has
<1>5. FormsOK(F)' BY <1>1, <1>4, FormsStay
<1> QED BY <1>1, <1>2, <1>3, <1>5 DEF Parts

(* The running is given up. *)
LEMMA ThrowKeeps ==
  ASSUME NEW W, NEW F, Parts(W, F), mode = "run", Throw,
         UNCHANGED <<compiling, funs, forms, mWorkspace, history, tokens>>
  PROVE  Parts(W, F)'
<1>1. frames' = <<>> /\ mode' = "prompt" /\ UNCHANGED stack BY DEF Throw
<1>2. ModesOK /\ FunsOK(W) /\ IsSeq(frames') BY <1>1, SeqEmpty DEF Parts
<1>3. FunsOK(W)' BY <1>2, FunsStay
<1>4. DOMAIN frames' = {} BY <1>1
<1>5. FramesOK(W)' BY <1>1, <1>2, <1>4 DEF FramesOK, Nested
<1>6. PushRun' BY <1>1 DEF PushRun
<1>7. (\A i \in DOMAIN stack : IsValue(stack[i]))' BY <1>1, <1>2 DEF ModesOK, IsValue
<1>8. IsSeq(stack') BY <1>1, <1>2 DEF ModesOK
<1> QED BY <1>1, <1>3, <1>5, <1>6, <1>7, <1>8, RunKeeps

(* The frames when the function that runs has done an opcode.              *)
LEMMA FramesMove ==
  ASSUME NEW W, NEW F, Parts(W, F), mode = "run", NEW N, N = Len(frames),
         Top.pc <= Len(Top.code), Fetch.op \notin {"BindLocal", "BindWorkspaceVar"},
         NEW a, a = Advanced, NEW i \in 1 .. N, frames'[i] = a[i],
         UNCHANGED <<inTopLevel, forms, history>>, DOMAIN funs \subseteq DOMAIN funs'
  PROVE  FrameOK(i, W)'
<1>1. Advances(a, N) BY AdvancedIs
<1>2. Top = frames[N] /\ FrameOK(i, W) BY RunningFacts
<1>3. HasStays BY DEF HasStays, Has
<1>4. CASE i # N
  <2>1. frames'[i] = frames[i] BY <1>1, <1>4 DEF Advances
  <2> QED BY <1>2, <1>3, <2>1, FrameStays
<1>5. CASE i = N
  <2>1. PICK w \in W : /\ FrameFits(Top, w) /\ (w.top => OfText(N))
                       /\ (~ OfText(N) => Top.mWorkspace = w.def.mWorkspace)
    BY TopFits
  <2>2. PICK fr, fr2 : fr = Top /\ fr2 = a[N] OBVIOUS
  <2>3. /\ IsFrame(fr2) /\ fr2.pc = fr.pc + 1 /\ fr2.code = fr.code /\ fr2.mLocals = fr.mLocals
        /\ fr2.mVars = fr.mVars /\ fr2.text = fr.text /\ fr2.env = fr.env
        /\ fr2.mWorkspace = fr.mWorkspace
    BY <1>1, <1>2, <2>2 DEF Advances
  <2>4. fr.pc <= Len(fr.code) /\ fr.code[fr.pc].op \notin {"BindLocal", "BindWorkspaceVar"}
    BY <2>2 DEF Fetch
  <2>5. FrameFits(fr2, w) BY <2>1, <2>2, <2>3, <2>4, FitsAdvanced
  <2>6. fr2.mWorkspace \in DOMAIN forms BY <1>2, <1>5, <2>2, <2>3 DEF FrameOK
  <2> QED BY <1>3, <1>5, <2>1, <2>2, <2>3, <2>5, <2>6, FrameLies
<1> QED BY <1>4, <1>5

(* The frames b are those there are, the last one opcode further on.       *)
Moves(b, l) ==
  /\ IsSeq(b) /\ Len(b) = l /\ DOMAIN b = 1 .. l
  /\ \A i \in 1 .. l : i # l => b[i] = frames[i]
  /\ b[l].pc = frames[l].pc + 1 /\ b[l].code = frames[l].code
  /\ b[l].stackBase = frames[l].stackBase /\ b[l].text = frames[l].text

LEMMA AdvancesMoves ==
  ASSUME NEW b, NEW l, Advances(b, l)
  PROVE  Moves(b, l)
  BY DEF Advances, Moves

(* That does not change where the frames lie. *)
LEMMA NestedOn ==
  ASSUME NEW W, NEW F, Parts(W, F), mode = "run", NEW N, N = Len(frames),
         NEW a, Moves(a, N), NEW i \in 1 .. N
  PROVE  /\ a[i].text = frames[i].text /\ a[i].code = frames[i].code
         /\ a[i].stackBase = frames[i].stackBase
         /\ (i < N => a[i].pc > 1 /\ a[i].code[a[i].pc - 1].op \notin Pushes)
         /\ a[i].stackBase \in Nat /\ a[i].stackBase <= Top.stackBase
         /\ \A j \in i .. N : a[i].stackBase <= a[j].stackBase
<1>1. /\ N \in 1 .. N /\ DOMAIN frames = 1 .. N /\ Top = frames[N] /\ N \in Nat
      /\ Len(stack) \in Nat
  BY RunningFacts
<1>2. Nested BY DEF Parts, FramesOK
<1>3. \A k \in 1 .. N : a[k].text = frames[k].text /\ a[k].code = frames[k].code
                        /\ a[k].stackBase = frames[k].stackBase /\ (k < N => a[k] = frames[k])
  BY <1>1 DEF Moves
<1>4. frames[i].stackBase \in Nat BY <1>1, <1>2 DEF Nested
<1>5. i \in DOMAIN frames /\ N \in i .. N BY <1>1
<1>6. frames[i].stackBase <= Top.stackBase BY <1>1, <1>2, <1>5 DEF Nested
<1>7. \A j \in i .. N : j \in 1 .. N /\ frames[i].stackBase <= frames[j].stackBase
  <2>1. \A j \in i .. N : j \in 1 .. N BY <1>1
  <2>2. \A j \in i .. Len(frames) : frames[i].stackBase <= frames[j].stackBase
    BY <1>2, <1>5 DEF Nested
  <2> QED BY <2>1, <2>2
<1>8. i < N => frames[i].pc > 1 /\ frames[i].code[frames[i].pc - 1].op \notin Pushes
  BY <1>2, <1>5 DEF Nested
<1> QED BY <1>3, <1>4, <1>6, <1>7, <1>8

LEMMA NestedMoves ==
  ASSUME NEW W, NEW F, Parts(W, F), mode = "run", NEW N, N = Len(frames),
         NEW b, Moves(b, N), frames' = b, Len(history') = Len(history),
         IsSeq(stack'), Len(stack') >= Top.stackBase
  PROVE  Nested' /\ IsSeq(frames') /\ DOMAIN frames' = 1 .. N /\ frames' # <<>>
<1>1. IsSeq(b) /\ Len(b) = N /\ DOMAIN b = 1 .. N BY DEF Moves
<1>2. N \in 1 .. N /\ N \in Nat /\ 1 \in 1 .. N /\ frames[1].text = Len(history)
      /\ Top = frames[N] /\ Top.stackBase \in Nat
  BY RunningFacts
<1>3. Len(stack') \in Nat BY SeqIs
<1>4. \A i \in 1 .. N : /\ b[i].text = frames[i].text
                        /\ (i < N => b[i].pc > 1 /\ b[i].code[b[i].pc - 1].op \notin Pushes)
                        /\ b[i].stackBase \in Nat /\ b[i].stackBase <= Top.stackBase
                        /\ \A j \in i .. N : b[i].stackBase <= b[j].stackBase
  BY NestedOn
<1>5. \A i \in 1 .. N : b[i].stackBase \in 0 .. Len(stack') BY <1>2, <1>3, <1>4
<1>6. Nested' BY <1>1, <1>2, <1>4, <1>5 DEF Nested
<1> QED BY <1>1, <1>2, <1>6, SeqEmpty

(* An opcode that stays in its function and binds nothing.                 *)
LEMMA StepOn ==
  ASSUME NEW W, NEW F, Parts(W, F), mode = "run",
         Top.pc <= Len(Top.code), Fetch.op \notin {"BindLocal", "BindWorkspaceVar"},
         frames' = Advanced, mode' = mode,
         UNCHANGED <<compiling, forms, mWorkspace, history, tokens>>,
         DOMAIN funs \subseteq DOMAIN funs', FunsOK(W)',
         IsSeq(stack'), (\A i \in DOMAIN stack : IsValue(stack[i]))',
         Len(stack') >= Top.stackBase, PushRun'
  PROVE  Parts(W, F)'
<1>1. PICK N, a : N = Len(frames) /\ a = Advanced OBVIOUS
<1>2. Advances(a, N) /\ frames' = a BY <1>1, AdvancedIs
<1>3. IsSeq(a) /\ Len(a) = N /\ DOMAIN a = 1 .. N BY <1>2 DEF Advances
<1>4. N \in 1 .. N /\ N \in Nat /\ 1 \in 1 .. N /\ frames[1].text = Len(history)
      /\ Top = frames[N] /\ Top.stackBase \in Nat
  BY <1>1, RunningFacts
<1>5. \A i \in 1 .. N : FrameOK(i, W)'
  BY <1>1, <1>2, FramesMove DEF compiling
<1>6. Moves(a, N) /\ UNCHANGED history BY <1>2, AdvancesMoves
<1>7. Nested' /\ frames' # <<>> BY <1>1, <1>2, <1>6, NestedMoves
<1>8. FramesOK(W)' BY <1>2, <1>3, <1>5, <1>7 DEF FramesOK
<1>9. frames'[1].mWorkspace = frames[1].mWorkspace
  BY <1>2, <1>4 DEF Advances
<1> QED BY <1>7, <1>8, <1>9, RunKeeps

(* What a word gets.                                                       *)
LEMMA WordIs ==
  ASSUME NEW W, NEW F, Parts(W, F), mode = "run", Top.pc <= Len(Top.code)
  PROVE  /\ Fetch.op \in Locals =>
              /\ Fetch.name \in Names /\ Fetch.slot \in DOMAIN Top.mLocals
              /\ Top.env[Fetch.name] # None /\ Value(Fetch) = Top.env[Fetch.name]
              /\ IsValue(Value(Fetch))
         /\ Fetch.op \in FunVars =>
              /\ Fetch.name \in Names /\ Fetch.slot \in DOMAIN Top.mVars
              /\ Top.env[Fetch.name] # None /\ Value(Fetch) = Top.env[Fetch.name]
              /\ IsValue(Value(Fetch))
         /\ Fetch.op = "CallWorkspaceVar" =>
              /\ Fetch.name \in Names /\ Top.env[Fetch.name] = None
              /\ Value(Fetch) = forms[Top.mWorkspace][Fetch.name]
              /\ Value(Fetch) # None => IsValue(Value(Fetch))
         /\ Fetch.op \in Constants =>
              /\ IsValue(Value(Fetch))
              /\ Fetch.name # None => Top.env[Fetch.name] = None
<1>1. PICK w \in W : FrameFits(Top, w) /\ Typed(w, W, F) BY TopFits
<1>2. PICK op, p, fr : op = Fetch /\ p = Top.pc /\ fr = Top OBVIOUS
<1>3. /\ op = w.def.code[p] /\ p \in DOMAIN w.def.code /\ Fits(w, W, p)
      /\ fr.code = w.def.code
  <2>1. Top.code = w.def.code /\ IsSeq(w.def.code) /\ p \in 1 .. (Len(Top.code) + 1)
    BY <1>1, <1>2 DEF FrameFits, Typed, Shaped
  <2>2. Len(w.def.code) \in Nat /\ DOMAIN w.def.code = 1 .. Len(w.def.code) BY <2>1, SeqIs
  <2>3. p \in DOMAIN w.def.code BY <1>2, <2>1, <2>2
  <2> QED BY <1>1, <1>2, <2>1, <2>3 DEF Typed, Fetch
<1>4. LocalFits(w, p) /\ GlobalFits(w, p) BY <1>3 DEF Fits
<1>5. /\ IsSeq(fr.mLocals) /\ Len(fr.mLocals) = Len(w.locals) /\ fr.pc = p
      /\ IsSeq(fr.mVars) /\ Len(fr.mVars) = Len(w.vars)
      /\ \A n \in Names : /\ fr.env[n] # None <=> BoundAt(w, n, p)
                          /\ fr.env[n] # None => IsValue(fr.env[n])
                          /\ LocalAt(w, n, p) => fr.mLocals[IndexOf(n, w.locals)] = fr.env[n]
      /\ \A k \in DOMAIN w.vars : fr.mVars[k] = fr.env[w.vars[k]]
  BY <1>1, <1>2 DEF FrameFits
<1>6. /\ IsSeq(w.locals) /\ IsSeq(w.vars) /\ \A k \in DOMAIN w.vars : w.vars[k] \in w.known
  BY <1>1, NameSeq DEF Typed, Shaped
<1>7. ASSUME op.op \in Locals
      PROVE  /\ op.name \in Names /\ op.slot \in DOMAIN fr.mLocals
             /\ fr.env[op.name] # None /\ Value(op) = fr.env[op.name]
             /\ IsValue(Value(op))
  <2>1. op.name \in Names /\ LocalAt(w, op.name, p) /\ op.slot = IndexOf(op.name, w.locals)
        /\ op.slot # 0
    BY <1>3, <1>4, <1>7 DEF LocalFits
  <2>2. op.slot \in DOMAIN fr.mLocals
    <3>1. op.slot \in 1 .. Len(w.locals) BY <1>6, <2>1, IndexOfIs
    <3> QED BY <1>5, <3>1, SeqIs
  <2>3. BoundAt(w, op.name, p) BY <2>1 DEF BoundAt
  <2>4. fr.env[op.name] # None /\ IsValue(fr.env[op.name]) /\ fr.mLocals[op.slot] = fr.env[op.name]
    BY <1>5, <2>1, <2>3
  <2>5. Value(op) = fr.mLocals[op.slot]
    <3>1. op.op \notin FunVars /\ op.op # "CallWorkspaceVar" /\ op.op \notin Constants
      BY <1>7 DEF Locals, FunVars, Constants
    <3> QED BY <1>2, <1>7, <3>1 DEF Value
  <2> QED BY <2>1, <2>2, <2>4, <2>5
<1>8. ASSUME op.op \in FunVars
      PROVE  /\ op.name \in Names /\ op.slot \in DOMAIN fr.mVars
             /\ fr.env[op.name] # None /\ Value(op) = fr.env[op.name]
             /\ IsValue(Value(op))
  <2>1. op.name \in Names /\ op.slot \in DOMAIN w.vars /\ w.vars[op.slot] = op.name
    BY <1>3, <1>4, <1>8 DEF LocalFits
  <2>2. op.slot \in DOMAIN fr.mVars BY <1>5, <1>6, <2>1, SeqIs
  <2>3. BoundAt(w, op.name, p) BY <1>6, <2>1 DEF BoundAt
  <2>4. fr.env[op.name] # None /\ IsValue(fr.env[op.name]) /\ fr.mVars[op.slot] = fr.env[op.name]
    BY <1>5, <2>1, <2>3
  <2>5. op.op \notin Locals /\ op.op # "CallWorkspaceVar" /\ op.op \notin Constants
    BY <1>8 DEF Locals, FunVars, Constants
  <2>6. Value(op) = fr.mVars[op.slot] BY <1>2, <1>8, <2>5 DEF Value
  <2> QED BY <2>1, <2>2, <2>4, <2>6
<1>9. ASSUME op.op = "CallWorkspaceVar"
      PROVE  /\ op.name \in Names /\ fr.env[op.name] = None
             /\ Value(op) = forms[fr.mWorkspace][op.name]
             /\ Value(op) # None => IsValue(Value(op))
  <2>1. op.name \in Names /\ ~ BoundAt(w, op.name, p) BY <1>3, <1>4, <1>9 DEF GlobalFits
  <2>2. Value(op) = forms[fr.mWorkspace][op.name]
    <3>1. op.op \notin Locals /\ op.op \notin FunVars /\ op.op \notin Constants
      BY <1>9 DEF Locals, FunVars, Constants
    <3> QED BY <1>2, <1>9, <3>1 DEF Value
  <2>3. fr.mWorkspace \in DOMAIN forms
    <3>1. PICK N : N = Len(frames) OBVIOUS
    <3>2. FrameOK(N, W) /\ Top = frames[N] BY <3>1, RunningFacts
    <3> QED BY <1>2, <3>2 DEF FrameOK
  <2>4. Value(op) # None => IsValue(Value(op)) BY <2>1, <2>2, <2>3 DEF Parts, FormsOK
  <2> QED BY <1>5, <2>1, <2>2, <2>4
<1>10. ASSUME op.op \in Constants
       PROVE  IsValue(Value(op)) /\ (op.name # None => fr.env[op.name] = None)
  <2>1. Value(op) = IF op.slot = 0 THEN Builtin(op.name) ELSE Number(op.slot)
    <3>1. op.op \notin Locals /\ op.op \notin FunVars /\ op.op # "CallWorkspaceVar"
      BY <1>10 DEF Locals, FunVars, Constants
    <3> QED BY <1>10, <3>1 DEF Value
  <2>2. CASE op.op = "CallImmediate"
    <3>1. op.slot = 0 /\ op.name \in Builtins /\ ~ BoundAt(w, op.name, p)
      BY <1>3, <1>4, <2>2 DEF GlobalFits
    <3>2. op.name \in Names BY <3>1, ClosuresAssumption
    <3>3. IsValue(Value(op)) BY <2>1, <3>1 DEF IsValue
    <3> QED BY <1>5, <3>1, <3>2, <3>3
  <2>3. CASE op.op = "PushImmediate"
    <3>1. op.slot \in 1 .. MaxTokens /\ op.name = None BY <1>3, <1>4, <2>3 DEF GlobalFits
    <3>2. op.slot \in 0 .. MaxTokens /\ op.slot # 0 BY <3>1, ClosuresAssumption
    <3> QED BY <2>1, <3>1, <3>2 DEF IsValue
  <2> QED BY <1>10, <2>2, <2>3 DEF Constants
<1> QED BY <1>2, <1>7, <1>8, <1>9, <1>10

(* The function f is entered with the values it takes from those below.    *)
Enters(a, f, below, rest) ==
  /\ rest = Len(below) - Len(f.def.args) /\ rest >= Top.stackBase
  /\ stack' = SubSeq(below, 1, rest)
  /\ frames' = Append(a, NewFrame(f.def, rest, SubSeq(below, rest + 1, Len(below)),
                                 f.mVars, f.mWorkspace, f.env))
LEMMA RunFunKeeps ==
  ASSUME NEW W, NEW F, Parts(W, F), mode = "run", Top.pc <= Len(Top.code),
         Fetch.op \notin Pushes \cup {"BindLocal", "BindWorkspaceVar"},
         NEW a, a = Advanced, NEW k \in DOMAIN funs, NEW f, f = funs[k],
         NEW below, IsSeq(below), \A i \in DOMAIN below : IsValue(below[i]),
         NEW rest, Enters(a, f, below, rest), mode' = mode,
         UNCHANGED <<compiling, funs, forms, mWorkspace, history, tokens>>
  PROVE  Parts(W, F)'
<1>1. PICK N, l : N = Len(frames) /\ l = Len(below) OBVIOUS
<1>2. Advances(a, N) BY <1>1, AdvancedIs
<1>3. IsSeq(a) /\ Len(a) = N /\ DOMAIN a = 1 .. N BY <1>2 DEF Advances
<1>4. /\ N \in 1 .. N /\ N \in Nat /\ 1 \in 1 .. N /\ frames[1].text = Len(history)
      /\ Top = frames[N] /\ Top.stackBase \in Nat /\ IsSeq(funs) /\ N \in Nat \ {0}
  BY <1>1, RunningFacts
<1>5. FunsOK(W) /\ FunsOK(W)' BY FunsStay DEF Parts
<1>6. l \in Nat /\ DOMAIN below = 1 .. l BY <1>1, SeqIs
<1>7. PICK w \in W : FunFits(f, w) BY <1>5 DEF FunsOK
<1>8. Shaped(w, F) /\ f.def = w.def /\ w.top = FALSE BY <1>7 DEF Parts, Typed, FunFits
<1>9. Len(w.def.args) \in Nat BY <1>8, NameSeq, SeqIs DEF Shaped
<1>10. rest \in Nat /\ rest <= l /\ l - rest = Len(w.def.args) /\ rest >= Top.stackBase
  <2>1. PICK b, c : b = Top.stackBase /\ c = Len(w.def.args) OBVIOUS
  <2>2. rest = l - c /\ rest >= b BY <1>1, <1>8, <2>1 DEF Enters
  <2>3. b \in Nat /\ c \in Nat BY <1>4, <1>9, <2>1
  <2>4. rest \in Nat /\ rest <= l /\ l - rest = c BY ONLY <1>6, <2>2, <2>3
  <2> QED BY <2>1, <2>2, <2>4
<1>11. PICK args : args = SubSeq(below, rest + 1, l) OBVIOUS
<1>12. /\ IsSeq(args) /\ Len(args) = Len(w.def.args) /\ \A i \in DOMAIN args : IsValue(args[i])
  <2>1. 1 <= rest + 1 /\ rest + 1 <= l + 1 /\ l <= Len(below) /\ rest + 1 \in Nat
    BY <1>1, <1>6, <1>10
  <2>2. /\ IsSeq(args) /\ Len(args) = l + 1 - (rest + 1)
        /\ \A i \in 1 .. (l + 1 - (rest + 1)) : args[i] = below[(rest + 1) - 1 + i]
    BY <1>6, <1>11, <2>1, SeqSub
  <2>3. Len(args) = Len(w.def.args)
    <3>1. l + 1 - (rest + 1) = l - rest BY ONLY <1>6, <1>10
    <3> QED BY <1>10, <2>2, <3>1
  <2>4. DOMAIN args = 1 .. Len(args) BY <2>2, SeqIs
  <2>5. ASSUME NEW i \in DOMAIN args PROVE IsValue(args[i])
    <3>1. args[i] = below[(rest + 1) - 1 + i] BY <2>2, <2>4, <2>5
    <3>2. (rest + 1) - 1 + i \in DOMAIN below BY <1>6, <1>10, <2>2, <2>4, <2>5
    <3> QED BY <3>1, <3>2
  <2> QED BY <2>2, <2>3, <2>5
<1>13. PICK fr : fr = NewFrame(w.def, rest, args, f.mVars, f.mWorkspace, f.env) OBVIOUS
<1>14. stack' = SubSeq(below, 1, rest) /\ frames' = Append(a, fr)
  BY <1>1, <1>8, <1>11, <1>13 DEF Enters
<1>15. FrameFits(fr, w) /\ fr.stackBase = rest /\ fr.mWorkspace = f.mWorkspace /\ fr.pc = 1
  <2>1. RunWith(w, args, f.mVars, f.env) BY <1>7, <1>12 DEF FunFits, RunWith
  <2> QED BY <1>4, <1>8, <1>13, <2>1, FrameBegins
<1>16. /\ IsSeq(frames') /\ Len(frames') = N + 1 /\ DOMAIN frames' = 1 .. (N + 1)
       /\ (\A i \in 1 .. N : frames'[i] = a[i]) /\ frames'[N + 1] = fr
  BY <1>3, <1>14, SeqAppend
<1>17. Top' = fr BY <1>16 DEF Top, Last
<1>18. /\ IsSeq(stack') /\ Len(stack') = rest /\ DOMAIN stack' = 1 .. rest
       /\ \A i \in 1 .. rest : stack'[i] = below[i]
  <2>1. 1 <= 1 /\ 1 <= rest + 1 /\ rest <= Len(below) /\ 1 \in Nat BY <1>1, <1>10
  <2>2. /\ IsSeq(stack') /\ Len(stack') = rest + 1 - 1
        /\ \A i \in 1 .. (rest + 1 - 1) : stack'[i] = below[1 - 1 + i]
    BY <1>10, <1>14, <2>1, SeqSub
  <2> QED BY <1>10, <2>2, SeqIs
<1>19. \A i \in 1 .. (N + 1) : i = N + 1 \/ i \in 1 .. N BY <1>4
<1>20. (\A i \in DOMAIN stack : IsValue(stack[i]))'
  <2>1. \A i \in DOMAIN stack' : IsValue(stack'[i]) BY <1>6, <1>10, <1>18
  <2> QED BY <2>1 DEF IsValue
<1>21. \A i \in 1 .. (N + 1) : FrameOK(i, W)'
  <2>1. \A i \in 1 .. N : FrameOK(i, W)' BY <1>1, <1>16, FramesMove DEF compiling
  <2>2. fr.mWorkspace = w.def.mWorkspace BY <1>7, <1>15 DEF FunFits
  <2>3. fr.mWorkspace \in DOMAIN forms BY <2>2, TextBegan
  <2>4. FrameOK(N + 1, W)'
    <3>1. HasStays BY DEF HasStays, Has
    <3>2. frames'[N + 1] = fr BY <1>16
    <3> QED BY <1>8, <1>15, <2>2, <2>3, <3>1, <3>2, FrameLies DEF compiling
  <2> QED BY <1>19, <2>1, <2>4
<1>22. Nested'
  <2>1. \A i \in 1 .. N : /\ a[i].text = frames[i].text /\ a[i].code = frames[i].code
                          /\ (i < N => a[i].pc > 1 /\ a[i].code[a[i].pc - 1].op \notin Pushes)
                          /\ a[i].stackBase \in Nat /\ a[i].stackBase <= Top.stackBase
                          /\ \A j \in i .. N : a[i].stackBase <= a[j].stackBase
    BY <1>1, <1>2, AdvancesMoves, NestedOn
  <2>2. a[N].pc > 1 /\ a[N].code[a[N].pc - 1].op \notin Pushes
    <3>1. a[N].pc = Top.pc + 1 /\ a[N].code = Top.code BY <1>2, <1>4 DEF Advances
    <3>2. Top.pc \in Nat \ {0}
      <4>1. \E x \in W : FrameFits(Top, x) BY TopFits
      <4> QED BY <4>1 DEF FrameFits
    <3>3. a[N].pc - 1 = Top.pc /\ a[N].pc > 1 BY <3>1, <3>2
    <3> QED BY <3>1, <3>3 DEF Fetch
  <2>3. frames'[1].text = Len(history)' BY <1>4, <1>16, <2>1
  <2>4. ASSUME NEW i \in 1 .. (N + 1)
        PROVE  /\ frames'[i].stackBase \in 0 .. rest
               /\ \A j \in i .. (N + 1) : frames'[i].stackBase <= frames'[j].stackBase
               /\ i < N + 1 => /\ frames'[i].pc > 1
                              /\ frames'[i].code[frames'[i].pc - 1].op \notin Pushes
    <3>1. CASE i = N + 1
      <4>1. frames'[i].stackBase = rest BY <1>15, <1>16, <3>1
      <4>2. \A j \in i .. (N + 1) : j = i BY <1>4, <3>1
      <4> QED BY <1>4, <1>10, <3>1, <4>1, <4>2
    <3>2. CASE i \in 1 .. N
      <4>1. frames'[i] = a[i] /\ a[i].stackBase \in Nat /\ a[i].stackBase <= Top.stackBase
        BY <1>16, <2>1, <3>2
      <4>2. a[i].stackBase <= rest BY <1>4, <1>10, <4>1
      <4>3. ASSUME NEW j \in i .. (N + 1) PROVE a[i].stackBase <= frames'[j].stackBase
        <5>1. CASE j = N + 1 BY <1>15, <1>16, <4>2, <5>1
        <5>2. CASE j # N + 1
          <6>1. j \in i .. N /\ j \in 1 .. N BY <1>4, <3>2, <4>3, <5>2
          <6> QED BY <1>16, <2>1, <3>2, <6>1
        <5> QED BY <5>1, <5>2
      <4>4. frames'[i].pc > 1 /\ frames'[i].code[frames'[i].pc - 1].op \notin Pushes
        <5>1. i < N \/ i = N BY <1>4, <3>2
        <5> QED BY <2>1, <2>2, <3>2, <4>1, <5>1
      <4> QED BY <1>10, <4>1, <4>2, <4>3, <4>4
    <3> QED BY <1>19, <3>1, <3>2
  <2> QED BY <1>16, <1>18, <2>3, <2>4 DEF Nested
<1>23. FramesOK(W)' BY <1>16, <1>21, <1>22 DEF FramesOK
<1>24. PushRun'
  <2>1. 1 .. (fr.pc - 1) = {} BY <1>15
  <2> QED BY <1>17, <2>1 DEF PushRun
<1>25. frames' # <<>>
  <2>1. Len(frames') # 0 BY <1>4, <1>16
  <2> QED BY <2>1, SeqEmpty
<1>26. frames'[1].mWorkspace = frames[1].mWorkspace
  <2>1. a[1].mWorkspace = frames[1].mWorkspace BY <1>2, <1>4 DEF Advances
  <2> QED BY <1>4, <1>16, <2>1
<1> QED BY <1>5, <1>18, <1>20, <1>23, <1>24, <1>25, <1>26, RunKeeps

(* V::apply: a function is run, or the value is pushed.                    *)
LEMMA ApplyToKeeps ==
  ASSUME NEW W, NEW F, Parts(W, F), mode = "run", Top.pc <= Len(Top.code),
         Fetch.op \notin Pushes \cup {"BindLocal", "BindWorkspaceVar"},
         NEW v, IsValue(v), NEW below, IsSeq(below), Len(below) >= Top.stackBase,
         \A i \in DOMAIN below : IsValue(below[i]), ApplyTo(v, below),
         UNCHANGED <<compiling, funs, forms, mWorkspace, history, tokens>>
  PROVE  Parts(W, F)'
<1>1. PICK N, a : N = Len(frames) /\ a = Advanced OBVIOUS
<1>2. Advances(a, N) BY <1>1, AdvancedIs
<1>3. IsSeq(a) /\ Len(a) = N /\ DOMAIN a = 1 .. N BY <1>2 DEF Advances
<1>4. /\ N \in 1 .. N /\ N \in Nat /\ 1 \in 1 .. N /\ frames[1].text = Len(history)
      /\ Top = frames[N] /\ Top.stackBase \in Nat /\ IsSeq(funs) /\ N \in Nat \ {0}
  BY <1>1, RunningFacts
<1>5. FunsOK(W) /\ FunsOK(W)' BY FunsStay DEF Parts
<1>6. Len(below) \in Nat /\ DOMAIN below = 1 .. Len(below) BY SeqIs
<1>7. /\ a[N].pc = Top.pc + 1 /\ a[N].code = Top.code /\ a[N].stackBase = Top.stackBase
      /\ a[N].env = Top.env /\ Top.pc \in Nat \ {0}
  <2>1. \E w \in W : FrameFits(Top, w) BY TopFits
  <2>2. Top.pc \in Nat \ {0} BY <2>1 DEF FrameFits
  <2> QED BY <1>2, <1>4, <2>2 DEF Advances
<1>8. CASE v[1] # "fun"
  <2>1. stack' = Append(below, v) /\ frames' = a /\ mode' = mode BY <1>1, <1>8 DEF ApplyTo
  <2>2. /\ IsSeq(stack') /\ Len(stack') = Len(below) + 1 /\ DOMAIN stack' = 1 .. (Len(below) + 1)
        /\ (\A i \in 1 .. Len(below) : stack'[i] = below[i]) /\ stack'[Len(below) + 1] = v
    BY <2>1, SeqAppend
  <2>3. (\A i \in DOMAIN stack : IsValue(stack[i]))'
    <3>1. \A i \in DOMAIN stack' : IsValue(stack'[i])
      <4>1. \A i \in DOMAIN stack' : i \in DOMAIN below \/ i = Len(below) + 1 BY <1>6, <2>2
      <4> QED BY <1>6, <2>2, <4>1
    <3> QED BY <3>1 DEF IsValue
  <2>4. PushRun'
    <3>1. Top' = a[N] BY <1>3, <2>1 DEF Top, Last
    <3>2. ASSUME NEW d \in 1 .. (a[N].pc - 1)
          PROVE  ~ \A e \in 1 .. d : a[N].code[a[N].pc - e].op \in Pushes
      <4>1. 1 \in 1 .. d /\ a[N].pc - 1 = Top.pc BY <1>7, <3>2
      <4> QED BY <1>7, <4>1 DEF Fetch
    <3> QED BY <3>1, <3>2 DEF PushRun
  <2>5. Len(stack') >= Top.stackBase BY <1>4, <1>6, <2>2
  <2> QED BY <1>1, <1>5, <2>1, <2>2, <2>3, <2>4, <2>5, StepOn
<1>9. CASE v[1] = "fun"
  <2>1. PICK k \in DOMAIN funs : v = FunObj(k)
    BY <1>9 DEF IsValue, Number, Builtin, FunObj
  <2>2. PICK f, rest : f = funs[k] /\ rest = Len(below) - Len(f.def.args) OBVIOUS
  <2>3. PICK w \in W : FunFits(f, w) BY <1>5, <2>1, <2>2 DEF FunsOK
  <2>4. CASE rest < Top.stackBase
    <3>1. v[2] = k BY <2>1 DEF FunObj
    <3>2. ~ (rest >= Top.stackBase)
      <4>1. Len(f.def.args) \in Int
        <5>1. Shaped(w, F) /\ f.def = w.def BY <2>3 DEF Parts, Typed, FunFits
        <5> QED BY <5>1, NameSeq, SeqIs DEF Shaped
      <4>2. Len(below) - Len(f.def.args) \in Int BY ONLY <1>6, <4>1
      <4>3. rest \in Int BY ONLY <2>2, <4>2
      <4>4. Top.stackBase \in Int BY <1>4
      <4> QED BY ONLY <2>4, <4>3, <4>4
    <3>3. Throw BY <1>9, <2>2, <3>1, <3>2 DEF ApplyTo
    <3> QED BY <3>3, ThrowKeeps
  <2>5. CASE rest >= Top.stackBase
    <3>1. v[2] = k BY <2>1 DEF FunObj
    <3>2. ~ (rest < Top.stackBase)
      <4>1. Len(f.def.args) \in Int
        <5>1. Shaped(w, F) /\ f.def = w.def BY <2>3 DEF Parts, Typed, FunFits
        <5> QED BY <5>1, NameSeq, SeqIs DEF Shaped
      <4>2. Len(below) - Len(f.def.args) \in Int BY ONLY <1>6, <4>1
      <4>3. rest \in Int BY ONLY <2>2, <4>2
      <4>4. Top.stackBase \in Int BY <1>4
      <4> QED BY ONLY <2>5, <4>3, <4>4
    <3>3. Enters(a, f, below, rest) /\ mode' = mode
      BY <1>1, <1>9, <2>2, <2>5, <3>1, <3>2 DEF ApplyTo, Enters
    <3> QED BY <1>1, <2>1, <2>2, <3>3, RunFunKeeps
  <2>6. rest < Top.stackBase \/ rest >= Top.stackBase
    <3>1. Shaped(w, F) /\ f.def = w.def BY <2>3 DEF Parts, Typed, FunFits
    <3>2. Len(f.def.args) \in Nat BY <3>1, NameSeq, SeqIs DEF Shaped
    <3> QED BY <1>4, <1>6, <2>2, <3>2
  <2> QED BY <2>4, <2>5, <2>6
<1> QED BY <1>8, <1>9

LEMMA CallKeeps ==
  ASSUME NEW W, NEW F, Parts(W, F), Call
  PROVE  Parts(W, F)'
<1>1. /\ mode = "run" /\ Top.pc <= Len(Top.code)
      /\ Fetch.op \in {"CallLocal", "CallFunVar", "CallWorkspaceVar", "CallImmediate"}
      /\ UNCHANGED <<compiling, funs, forms, mWorkspace, history, tokens>>
  BY DEF Call, Running
<1>2. Fetch.op \notin Pushes \cup {"BindLocal", "BindWorkspaceVar"} BY <1>1 DEF Pushes
<1>3. PICK v : v = Value(Fetch) OBVIOUS
<1>4. CASE v = None
  <2>1. Throw BY <1>3, <1>4 DEF Call
  <2> QED BY <1>1, <2>1, ThrowKeeps
<1>5. CASE v # None
  <2>1. ApplyTo(v, stack) BY <1>3, <1>5 DEF Call
  <2>2. IsValue(v)
    <3>1. \/ Fetch.op \in Locals \/ Fetch.op \in FunVars \/ Fetch.op = "CallWorkspaceVar"
          \/ Fetch.op \in Constants
      BY <1>1 DEF Locals, FunVars, Constants
    <3> QED BY <1>1, <1>3, <1>5, <3>1, WordIs
  <2>3. PICK below : below = stack OBVIOUS
  <2>4. /\ IsSeq(below) /\ Len(below) >= Top.stackBase
        /\ \A i \in DOMAIN below : IsValue(below[i])
    <3>1. /\ IsSeq(stack) /\ (\A i \in DOMAIN stack : IsValue(stack[i]))
          /\ Top.stackBase \in 0 .. Len(stack) /\ Len(stack) \in Nat
      BY <1>1, RunningFacts
    <3>2. Len(stack) >= Top.stackBase BY <3>1
    <3> QED BY <2>3, <3>1, <3>2
  <2>5. ApplyTo(v, below) BY <2>1, <2>3
  <2> QED BY <1>1, <1>2, <2>2, <2>4, <2>5, ApplyToKeeps
<1> QED BY <1>4, <1>5

LEMMA ApplyKeeps ==
  ASSUME NEW W, NEW F, Parts(W, F), Apply
  PROVE  Parts(W, F)'
<1>1. /\ mode = "run" /\ Top.pc <= Len(Top.code) /\ Fetch.op = "Apply"
      /\ UNCHANGED <<compiling, funs, forms, mWorkspace, history, tokens>>
  BY DEF Apply, Running
<1>2. Fetch.op \notin Pushes \cup {"BindLocal", "BindWorkspaceVar"} BY <1>1 DEF Pushes
<1>3. CASE Len(stack) = Top.stackBase
  <2>1. Throw BY <1>3 DEF Apply
  <2> QED BY <1>1, <2>1, ThrowKeeps
<1>4. CASE Len(stack) # Top.stackBase
  <2>1. PICK v, below, l : v = Last(stack) /\ below = Front(stack) /\ l = Len(stack) OBVIOUS
  <2>2. /\ IsSeq(stack) /\ l \in Nat /\ DOMAIN stack = 1 .. l
        /\ (\A i \in DOMAIN stack : IsValue(stack[i])) /\ Top.stackBase \in 0 .. l
    BY <1>1, <2>1, RunningFacts
  <2>3. l > 0 /\ l - 1 >= Top.stackBase BY <1>4, <2>1, <2>2
  <2>4. stack # <<>> BY <2>1, <2>3, SeqEmpty
  <2>5. /\ v = stack[l] /\ IsSeq(below) /\ Len(below) = l - 1
        /\ \A i \in 1 .. (l - 1) : below[i] = stack[i]
    BY <2>1, <2>2, <2>4, SeqFront
  <2>6. IsValue(v) BY <2>2, <2>3, <2>5
  <2>7. \A i \in DOMAIN below : IsValue(below[i])
    <3>1. DOMAIN below = 1 .. (l - 1) BY <2>5, SeqIs
    <3> QED BY <2>2, <2>5, <3>1
  <2>8. ApplyTo(v, below) BY <1>4, <2>1 DEF Apply
  <2> QED BY <1>1, <1>2, <2>3, <2>5, <2>6, <2>7, <2>8, ApplyToKeeps
<1> QED BY <1>3, <1>4

(* The frame that runs is, after an opcode. *)
LEMMA TopAdvanced ==
  ASSUME NEW W, NEW F, Parts(W, F), mode = "run", frames' = Advanced
  PROVE  /\ Top'.pc = Top.pc + 1 /\ Top'.code = Top.code /\ Top'.stackBase = Top.stackBase
         /\ Top'.env = Top.env /\ Top.pc \in Nat \ {0} /\ Top'.mWorkspace = Top.mWorkspace
<1>1. PICK N, a : N = Len(frames) /\ a = Advanced OBVIOUS
<1>2. Advances(a, N) BY <1>1, AdvancedIs
<1>3. Top = frames[N] BY <1>1 DEF Top, Last
<1>4. Top' = a[N] BY <1>1, <1>2 DEF Top, Last, Advances
<1>5. \E w \in W : FrameFits(Top, w) BY TopFits
<1>6. Top.pc \in Nat \ {0} BY <1>5 DEF FrameFits
<1> QED BY <1>2, <1>3, <1>4, <1>6 DEF Advances

LEMMA NothingPushed ==
  ASSUME NEW W, NEW F, Parts(W, F), mode = "run", frames' = Advanced, Fetch.op \notin Pushes
  PROVE  PushRun'
<1>1. Top'.pc = Top.pc + 1 /\ Top'.code = Top.code /\ Top.pc \in Nat \ {0} BY TopAdvanced
<1>2. ASSUME NEW d \in 1 .. (Top'.pc - 1)
      PROVE  ~ \A e \in 1 .. d : Top'.code[Top'.pc - e].op \in Pushes
  <2>1. 1 \in 1 .. d /\ Top'.pc - 1 = Top.pc BY <1>1, <1>2
  <2> QED BY <1>1, <2>1 DEF Fetch
<1> QED BY <1>2 DEF PushRun

LEMMA OnePushed ==
  ASSUME NEW W, NEW F, Parts(W, F), mode = "run", frames' = Advanced,
         NEW v, stack' = Append(stack, v), Fetch.op \in Pushes => v = Top.env[Fetch.name]
  PROVE  PushRun'
<1>1. /\ Top'.pc = Top.pc + 1 /\ Top'.code = Top.code /\ Top.pc \in Nat \ {0}
      /\ Top'.stackBase = Top.stackBase /\ Top'.env = Top.env
  BY TopAdvanced
<1>2. PICK c, code, base, env, l : /\ c = Top.pc /\ code = Top.code /\ base = Top.stackBase
                                   /\ env = Top.env /\ l = Len(stack)
  OBVIOUS
<1>3. IsSeq(stack) /\ l \in Nat /\ base \in 0 .. l /\ frames # <<>> BY <1>2, RunningFacts
<1>4. /\ Len(stack') = l + 1 /\ stack'[l + 1] = v
      /\ \A i \in 1 .. l : stack'[i] = stack[i]
  BY <1>2, <1>3, SeqAppend
<1>5. c \in Nat \ {0} BY <1>1, <1>2
<1>6. \A d \in 1 .. (c - 1) :
        (\A e \in 1 .. d : code[c - e].op \in Pushes) =>
          base + d <= l /\ stack[l + 1 - d] = env[code[c - d].name]
  BY <1>2, <1>3 DEF Parts, PushRun
<1>7. ASSUME NEW d \in 1 .. c, \A e \in 1 .. d : code[(c + 1) - e].op \in Pushes
      PROVE  base + d <= l + 1 /\ stack'[(l + 1) + 1 - d] = env[code[(c + 1) - d].name]
  <2>1. CASE d = 1
    <3>1. (c + 1) - d = c /\ (l + 1) + 1 - d = l + 1 /\ d \in 1 .. d BY <1>3, <1>5, <2>1
    <3>2. code[c].op \in Pushes BY <1>7, <3>1
    <3>3. v = env[code[c].name] BY <1>2, <3>2 DEF Fetch
    <3>4. base + d <= l + 1 BY <1>3, <2>1
    <3> QED BY <1>4, <3>1, <3>3, <3>4
  <2>2. CASE d # 1
    <3>1. PICK b : b = d - 1 OBVIOUS
    <3>2. b \in 1 .. (c - 1) /\ d = b + 1 BY <1>5, <2>2, <3>1
    <3>3. ASSUME NEW e \in 1 .. b PROVE code[c - e].op \in Pushes
      <4>1. e + 1 \in 1 .. d /\ (c + 1) - (e + 1) = c - e BY <1>5, <3>2, <3>3
      <4>2. code[(c + 1) - (e + 1)].op \in Pushes BY <1>7, <4>1
      <4> QED BY <4>1, <4>2
    <3>4. base + b <= l /\ stack[l + 1 - b] = env[code[c - b].name] BY <1>6, <3>2, <3>3
    <3>5. base + d <= l + 1 /\ (l + 1) + 1 - d = l + 1 - b /\ (c + 1) - d = c - b
          /\ l + 1 - b \in 1 .. l
      BY <1>3, <1>5, <3>2, <3>4
    <3>6. stack'[l + 1 - b] = stack[l + 1 - b] BY <1>4, <3>5
    <3>7. stack'[(l + 1) + 1 - d] = stack[l + 1 - b] BY <3>5, <3>6
    <3>8. env[code[(c + 1) - d].name] = env[code[c - b].name] BY <3>5
    <3> QED BY <3>4, <3>5, <3>7, <3>8
  <2> QED BY <2>1, <2>2
<1>8. (c + 1) - 1 = c BY <1>5
<1>9. /\ Top'.pc = c + 1 /\ Top'.code = code /\ Top'.stackBase = base /\ Top'.env = env
  BY <1>1, <1>2
<1> QED BY <1>4, <1>7, <1>8, <1>9 DEF PushRun

LEMMA PushKeeps ==
  ASSUME NEW W, NEW F, Parts(W, F), Push
  PROVE  Parts(W, F)'
<1>1. /\ mode = "run" /\ Top.pc <= Len(Top.code)
      /\ Fetch.op \in {"PushLocal", "PushFunVar", "PushImmediate"}
      /\ frames' = Advanced /\ mode' = mode /\ stack' = Append(stack, Value(Fetch))
      /\ UNCHANGED <<compiling, funs, forms, mWorkspace, history, tokens>>
  BY DEF Push, Running
<1>2. Fetch.op \notin {"BindLocal", "BindWorkspaceVar"} BY <1>1
<1>3. PICK v, l : v = Value(Fetch) /\ l = Len(stack) OBVIOUS
<1>4. IsValue(v) /\ (Fetch.op \in Pushes => v = Top.env[Fetch.name])
  <2>1. \/ Fetch.op \in Locals \/ Fetch.op \in FunVars \/ Fetch.op \in Constants
    BY <1>1 DEF Locals, FunVars, Constants
  <2>2. Fetch.op \in Pushes => Fetch.op \in Locals \/ Fetch.op \in FunVars
    BY DEF Pushes, Locals, FunVars
  <2> QED BY <1>1, <1>3, <2>1, <2>2, WordIs
<1>5. stack' = Append(stack, v) BY <1>1, <1>3
<1>6. /\ IsSeq(stack) /\ l \in Nat /\ DOMAIN stack = 1 .. l
      /\ (\A i \in DOMAIN stack : IsValue(stack[i])) /\ Top.stackBase \in 0 .. l
  BY <1>1, <1>3, RunningFacts
<1>7. /\ IsSeq(stack') /\ Len(stack') = l + 1 /\ DOMAIN stack' = 1 .. (l + 1)
      /\ stack'[l + 1] = v /\ \A i \in 1 .. l : stack'[i] = stack[i]
  BY <1>3, <1>5, <1>6, SeqAppend
<1>8. PushRun' BY <1>1, <1>4, <1>5, OnePushed
<1>9. (\A i \in DOMAIN stack : IsValue(stack[i]))'
  <2>1. \A i \in DOMAIN stack' : IsValue(stack'[i])
    <3>1. \A i \in 1 .. (l + 1) : i = l + 1 \/ i \in 1 .. l BY <1>6
    <3> QED BY <1>4, <1>6, <1>7, <3>1
  <2> QED BY <1>1, <2>1 DEF IsValue
<1>10. FunsOK(W)' BY <1>1, FunsStay DEF Parts
<1>11. Len(stack') >= Top.stackBase BY <1>6, <1>7
<1> QED BY <1>1, <1>2, <1>7, <1>8, <1>9, <1>10, <1>11, StepOn

(* The opcode that runs, in the typing of its function. *)
LEMMA FetchIs ==
  ASSUME NEW W, NEW F, NEW w, FrameFits(Top, w), Typed(w, W, F), Top.pc <= Len(Top.code)
  PROVE  /\ Top.pc \in DOMAIN w.def.code /\ Top.pc \in Nat \ {0} /\ Fetch = w.def.code[Top.pc]
         /\ Top.code = w.def.code /\ Fits(w, W, Top.pc)
<1>1. Top.code = w.def.code /\ IsSeq(w.def.code) /\ Top.pc \in 1 .. (Len(Top.code) + 1)
  BY DEF FrameFits, Typed, Shaped
<1>2. Len(w.def.code) \in Nat /\ DOMAIN w.def.code = 1 .. Len(w.def.code) BY <1>1, SeqIs
<1>3. Top.pc \in DOMAIN w.def.code /\ Top.pc \in Nat \ {0} BY <1>1, <1>2
<1> QED BY <1>1, <1>3 DEF Typed, Fetch

(* A function is made of the opcode that runs, with the m values on top of *)
(* the stack.                                                              *)
MakesFrom(w, w2, m, l, rest) ==
  /\ FrameFits(Top, w) /\ Captures(w, w2, Top.pc)
  /\ m = Len(w2.vars) /\ l = Len(stack) /\ rest = l - m
(* They are the values of its variables. *)
Caught(w2, m, l, rest) ==
  /\ m \in Nat /\ rest \in Nat /\ rest <= l /\ Top.stackBase <= rest
  /\ \A k \in 1 .. m : stack[rest + k] = Top.env[w2.vars[k]]

LEMMA CapturedValues ==
  ASSUME NEW W, NEW F, Parts(W, F), mode = "run", Top.pc <= Len(Top.code),
         NEW w, Typed(w, W, F), NEW w2, NEW m, NEW l, NEW rest, MakesFrom(w, w2, m, l, rest)
  PROVE  Caught(w2, m, l, rest)
<1>0. /\ FrameFits(Top, w) /\ Captures(w, w2, Top.pc)
      /\ m = Len(w2.vars) /\ l = Len(stack) /\ rest = l - m
  BY DEF MakesFrom
<1>1. PICK p, code, base, env : /\ p = Top.pc /\ code = Top.code /\ base = Top.stackBase
                                /\ env = Top.env
  OBVIOUS
<1>2. p \in Nat \ {0} /\ code = w.def.code BY <1>0, <1>1, FetchIs
<1>3. l \in Nat /\ base \in 0 .. l /\ frames # <<>> BY <1>0, <1>1, RunningFacts
<1>4. /\ IsSeq(w2.vars) /\ m < p
      /\ \A k \in DOMAIN w2.vars : /\ code[p - 1 - m + k].op \in Pushes
                                   /\ code[p - 1 - m + k].name = w2.vars[k]
  BY <1>0, <1>1, <1>2 DEF Captures
<1>5. m \in Nat /\ DOMAIN w2.vars = 1 .. m BY <1>0, <1>4, SeqIs
<1>6. \A d \in 1 .. (p - 1) :
        (\A e \in 1 .. d : code[p - e].op \in Pushes) =>
          base + d <= l /\ stack[l + 1 - d] = env[code[p - d].name]
  BY <1>0, <1>1, <1>3 DEF Parts, PushRun
<1>7. ASSUME NEW e \in 1 .. m
      PROVE  code[p - e].op \in Pushes /\ code[p - e].name = w2.vars[m + 1 - e]
  <2>1. m + 1 - e \in 1 .. m /\ p - 1 - m + (m + 1 - e) = p - e BY <1>2, <1>5, <1>7
  <2> QED BY <1>4, <1>5, <2>1
<1>8. ASSUME NEW d \in 1 .. m
      PROVE  base + d <= l /\ stack[l + 1 - d] = env[w2.vars[m + 1 - d]]
  <2>1. d \in 1 .. (p - 1) /\ \A e \in 1 .. d : e \in 1 .. m BY <1>2, <1>4, <1>5, <1>8
  <2>2. \A e \in 1 .. d : code[p - e].op \in Pushes BY <1>7, <2>1
  <2>3. base + d <= l /\ stack[l + 1 - d] = env[code[p - d].name] BY <1>6, <2>1, <2>2
  <2> QED BY <1>7, <2>3
<1>9. base + m <= l
  <2>1. CASE m = 0 BY <1>3, <2>1
  <2>2. CASE m # 0
    <3>1. m \in 1 .. m BY <1>5, <2>2
    <3> QED BY <1>8, <3>1
  <2> QED BY <2>1, <2>2
<1>10. rest \in Nat /\ rest <= l /\ base <= rest BY <1>0, <1>3, <1>5, <1>9
<1>11. ASSUME NEW k \in 1 .. m PROVE stack[rest + k] = env[w2.vars[k]]
  <2>1. PICK d : d = m + 1 - k OBVIOUS
  <2>2. d \in 1 .. m /\ l + 1 - d = rest + k /\ m + 1 - d = k BY <1>0, <1>3, <1>5, <1>11, <2>1
  <2>3. stack[l + 1 - d] = env[w2.vars[m + 1 - d]] BY <1>8, <2>2
  <2> QED BY <2>2, <2>3
<1> QED BY <1>1, <1>5, <1>10, <1>11 DEF Caught

LEMMA PushFunKeeps ==
  ASSUME NEW W, NEW F, Parts(W, F), PushFun
  PROVE  Parts(W, F)'
<1>1. /\ mode = "run" /\ Top.pc <= Len(Top.code) /\ Fetch.op = "PushFun"
      /\ frames' = Advanced /\ mode' = mode
      /\ UNCHANGED <<compiling, forms, mWorkspace, history, tokens>>
  BY DEF PushFun, Running
<1>2. PICK w \in W : FrameFits(Top, w) /\ Typed(w, W, F) BY <1>1, TopFits
<1>3. PICK p, d, l : p = Top.pc /\ d = Fetch.def /\ l = Len(stack) OBVIOUS
<1>4. /\ p \in DOMAIN w.def.code /\ p \in Nat \ {0} /\ Fetch = w.def.code[p] /\ Fits(w, W, p)
  BY <1>1, <1>2, <1>3, FetchIs
<1>5. PICK w2 \in W : Captures(w, w2, p) BY <1>1, <1>4 DEF Fits
<1>6. Shaped(w2, F) BY DEF Parts, Typed
<1>7. PICK m, rest : m = Len(w2.vars) /\ rest = l - m OBVIOUS
<1>8. d = w2.def /\ d.mNumVars = m BY <1>3, <1>4, <1>5, <1>6, <1>7, Zenon DEF Captures, Shaped
<1>9. /\ m \in Nat /\ rest \in Nat /\ rest <= l /\ Top.stackBase <= rest
      /\ \A k \in 1 .. m : stack[rest + k] = Top.env[w2.vars[k]]
  <2>1. Captures(w, w2, Top.pc) BY <1>3, <1>5
  <2>2. MakesFrom(w, w2, m, l, rest) BY <1>2, <1>3, <1>7, <2>1 DEF MakesFrom
  <2>3. Caught(w2, m, l, rest) BY <1>1, <1>2, <2>2, CapturedValues
  <2> QED BY <2>3 DEF Caught
<1>10. /\ IsSeq(stack) /\ l \in Nat /\ DOMAIN stack = 1 .. l /\ IsSeq(funs)
       /\ (\A i \in DOMAIN stack : IsValue(stack[i])) /\ Top.stackBase \in 0 .. l
  BY <1>1, <1>3, RunningFacts
<1>11. PICK caught, f, n : /\ caught = SubSeq(stack, rest + 1, l) /\ n = Len(funs)
                           /\ f = [def |-> d, mVars |-> caught, mWorkspace |-> d.mWorkspace,
                                   env |-> Top.env]
  OBVIOUS
<1>12. funs' = Append(funs, f) /\ stack' = Append(SubSeq(stack, 1, rest), FunObj(n + 1))
  BY <1>3, <1>7, <1>8, <1>11 DEF PushFun
<1>13. /\ IsSeq(caught) /\ Len(caught) = m /\ \A k \in 1 .. m : caught[k] = stack[rest + k]
  <2>1. 1 <= rest + 1 /\ rest + 1 <= l + 1 /\ l <= Len(stack) /\ rest + 1 \in Nat
    BY <1>3, <1>9, <1>10
  <2>2. /\ IsSeq(caught) /\ Len(caught) = l + 1 - (rest + 1)
        /\ \A k \in 1 .. (l + 1 - (rest + 1)) : caught[k] = stack[(rest + 1) - 1 + k]
    BY <1>10, <1>11, <2>1, SeqSub
  <2>3. l + 1 - (rest + 1) = m BY ONLY <1>7, <1>9, <1>10
  <2>4. \A k \in 1 .. m : (rest + 1) - 1 + k = rest + k BY ONLY <1>9
  <2> QED BY <2>2, <2>3, <2>4
<1>14. FunFits(f, w2)
  <2>1. f.def = d /\ f.mVars = caught /\ f.mWorkspace = d.mWorkspace /\ f.env = Top.env
    BY <1>11
  <2>2. w2.top = FALSE /\ w2.known = {x \in Names : BoundAt(w, x, p)}
        /\ (\A x \in w2.globals : GlobalAt(w, x, p)) /\ IsSeq(w2.vars) /\ w2.def.text = w.def.text
    BY <1>5 DEF Captures
  <2>3. \A x \in Names : /\ Top.env[x] # None <=> BoundAt(w, x, p)
                         /\ Top.env[x] # None => IsValue(Top.env[x])
                         /\ GlobalAt(w, x, p) => Has(w.def.text, x)
    BY <1>2, <1>3 DEF FrameFits
  <2>4. w2.globals \subseteq Names BY <1>6 DEF Shaped
  <2>5. DOMAIN w2.vars = 1 .. m BY <1>7, <2>2, SeqIs
  <2>6. \A x \in Names : f.env[x] # None <=> x \in w2.known BY <2>1, <2>2, <2>3
  <2>7. \A k \in DOMAIN w2.vars : f.mVars[k] = f.env[w2.vars[k]]
    BY <1>9, <1>13, <2>1, <2>5
  <2>8. \A x \in w2.globals : Has(w2.def.text, x) BY <2>2, <2>3, <2>4
  <2> QED BY <1>7, <1>8, <1>13, <2>1, <2>2, <2>3, <2>6, <2>7, <2>8 DEF FunFits
<1>15. /\ IsSeq(funs') /\ Len(funs') = n + 1 /\ DOMAIN funs' = 1 .. (n + 1) /\ n \in Nat
       /\ (\A i \in 1 .. n : funs'[i] = funs[i]) /\ funs'[n + 1] = f /\ DOMAIN funs = 1 .. n
  BY <1>10, <1>11, <1>12, SeqAppend, SeqIs
<1>16. DOMAIN funs \subseteq DOMAIN funs' BY <1>15
<1>17. FunsOK(W)'
  <2>1. ASSUME NEW g, NEW x, FunFits(g, x) PROVE FunFits(g, x)'
    <3>1. \A v : IsValue(v) => IsValue(v)' BY <1>16, ValuesStay
    <3> QED BY <1>1, <2>1, <3>1 DEF FunFits, Has
  <2>2. ASSUME NEW i \in DOMAIN funs', NEW g, g = funs'[i] PROVE \E x \in W : FunFits(g, x)'
    <3>1. CASE i = n + 1
      <4>1. g = f BY <1>15, <2>2, <3>1
      <4> QED BY <1>14, <2>1, <4>1
    <3>2. CASE i # n + 1
      <4>1. i \in 1 .. n BY <1>15, <2>2, <3>2
      <4>2. FunsOK(W) BY DEF Parts
      <4>3. g = funs[i] BY <1>15, <2>2, <4>1
      <4>4. PICK x \in W : FunFits(g, x) BY <1>15, <4>1, <4>2, <4>3 DEF FunsOK
      <4> QED BY <2>1, <4>4
    <3> QED BY <3>1, <3>2
  <2>3. (\A i \in DOMAIN funs : \E x \in W : FunFits(funs[i], x))' BY <2>2
  <2> QED BY <1>15, <2>3 DEF FunsOK
<1>18. PICK below : below = SubSeq(stack, 1, rest) OBVIOUS
<1>19. /\ IsSeq(below) /\ Len(below) = rest /\ \A i \in 1 .. rest : below[i] = stack[i]
  <2>1. 1 <= 1 /\ 1 <= rest + 1 /\ rest <= Len(stack) /\ 1 \in Nat BY <1>3, <1>9
  <2>2. /\ IsSeq(below) /\ Len(below) = rest + 1 - 1
        /\ \A i \in 1 .. (rest + 1 - 1) : below[i] = stack[1 - 1 + i]
    BY <1>9, <1>10, <1>18, <2>1, SeqSub
  <2>3. rest + 1 - 1 = rest /\ \A i \in 1 .. rest : 1 - 1 + i = i BY ONLY <1>9
  <2> QED BY <2>2, <2>3
<1>20. /\ IsSeq(stack') /\ Len(stack') = rest + 1 /\ DOMAIN stack' = 1 .. (rest + 1)
       /\ (\A i \in 1 .. rest : stack'[i] = stack[i]) /\ stack'[rest + 1] = FunObj(n + 1)
  <2>1. PICK v : v = FunObj(n + 1) OBVIOUS
  <2>2. stack' = Append(below, v) BY <1>12, <1>18, <2>1
  <2>3. /\ IsSeq(Append(below, v)) /\ Len(Append(below, v)) = rest + 1
        /\ DOMAIN Append(below, v) = 1 .. (rest + 1)
        /\ (\A i \in 1 .. rest : Append(below, v)[i] = below[i])
        /\ Append(below, v)[rest + 1] = v
    BY <1>19, SeqAppend
  <2> QED BY <1>19, <2>1, <2>2, <2>3
<1>21. (\A i \in DOMAIN stack : IsValue(stack[i]))'
  <2>1. \A v : IsValue(v) => IsValue(v)' BY <1>16, ValuesStay
  <2>2. IsValue(FunObj(n + 1))'
    <3>1. n + 1 \in DOMAIN funs' BY <1>15
    <3> QED BY <3>1 DEF IsValue
  <2>3. ASSUME NEW i \in DOMAIN stack', NEW v, v = stack'[i] PROVE IsValue(v)'
    <3>1. CASE i = rest + 1
      <4>1. PICK u : u = FunObj(n + 1) OBVIOUS
      <4>2. v = u BY <1>20, <2>3, <3>1, <4>1
      <4> QED BY <2>2, <4>1, <4>2
    <3>2. CASE i # rest + 1
      <4>1. i \in 1 .. rest /\ i \in 1 .. l BY <1>9, <1>10, <1>20, <2>3, <3>2
      <4>2. IsValue(v) BY <1>10, <1>20, <2>3, <4>1
      <4> QED BY <2>1, <4>2
    <3> QED BY <3>1, <3>2
  <2> QED BY <2>3
<1>22. PushRun'
  <2>1. Fetch.op \notin Pushes BY <1>1 DEF Pushes
  <2> QED BY <1>1, <2>1, NothingPushed
<1>23. Len(stack') >= Top.stackBase BY <1>9, <1>10, <1>20
<1>24. Fetch.op \notin {"BindLocal", "BindWorkspaceVar"} BY <1>1
<1> QED BY <1>1, <1>16, <1>17, <1>20, <1>21, <1>22, <1>23, <1>24, StepOn

LEMMA ReturnKeeps ==
  ASSUME NEW W, NEW F, Parts(W, F), Return
  PROVE  Parts(W, F)'
<1>1. /\ mode = "run" /\ frames' = Front(frames)
      /\ mode' = (IF Len(frames) = 1 THEN "prompt" ELSE "run")
      /\ UNCHANGED <<compiling, stack, funs, forms, mWorkspace, history, tokens>>
  BY DEF Return
<1>2. PICK N : N = Len(frames) OBVIOUS
<1>3. /\ IsSeq(frames) /\ N \in Nat \ {0} /\ DOMAIN frames = 1 .. N /\ frames # <<>>
      /\ (\A i \in 1 .. N : FrameOK(i, W)) /\ IsSeq(stack)
      /\ (\A i \in DOMAIN stack : IsValue(stack[i]))
  BY <1>1, <1>2, RunningFacts
<1>4. /\ IsSeq(frames') /\ Len(frames') = N - 1 /\ DOMAIN frames' = 1 .. (N - 1)
      /\ \A i \in 1 .. (N - 1) : frames'[i] = frames[i]
  BY <1>1, <1>2, <1>3, SeqFront, SeqIs
<1>5. FunsOK(W)' BY <1>1, FunsStay DEF Parts
<1>6. (\A i \in DOMAIN stack : IsValue(stack[i]))' BY <1>1, <1>3 DEF IsValue
<1>7. \A i \in 1 .. (N - 1) : i \in 1 .. N /\ i < N BY <1>3
<1>8. FramesOK(W)'
  <2>1. HasStays BY <1>1 DEF HasStays, Has
  <2>2. \A i \in 1 .. (N - 1) : FrameOK(i, W)'
    BY <1>1, <1>3, <1>4, <1>7, <2>1, FrameStays DEF compiling
  <2>3. Nested'
    <3>1. Nested BY DEF Parts, FramesOK
    <3>2. ASSUME NEW i \in 1 .. (N - 1), NEW j \in i .. (N - 1)
          PROVE  frames'[i].stackBase <= frames'[j].stackBase
      <4>1. j \in i .. N /\ j \in 1 .. (N - 1) /\ i \in 1 .. N BY <1>3, <3>2
      <4> QED BY <1>2, <1>3, <1>4, <3>1, <4>1 DEF Nested
    <3>3. \A i \in 1 .. (N - 1) :
            /\ frames'[i].stackBase \in 0 .. Len(stack')
            /\ frames'[i].pc > 1 /\ frames'[i].code[frames'[i].pc - 1].op \notin Pushes
      BY <1>1, <1>2, <1>3, <1>4, <1>7, <3>1 DEF Nested
    <3>4. frames' # <<>> => frames'[1].text = Len(history')
      <4>1. CASE N = 1
        <5>1. Len(frames') = 0 BY <1>4, <4>1
        <5>2. frames' = <<>> BY <1>4, <5>1, SeqFront
        <5> QED BY <5>2
      <4>2. CASE N # 1
        <5>1. 1 \in 1 .. (N - 1) BY <1>3, <4>2
        <5> QED BY <1>1, <1>3, <1>4, <3>1, <5>1 DEF Nested
      <4> QED BY <4>1, <4>2
    <3> QED BY <1>4, <3>2, <3>3, <3>4 DEF Nested
  <2> QED BY <1>4, <2>2, <2>3 DEF FramesOK
<1>9. CASE N = 1
  <2>1. Len(frames') = 0 BY <1>4, <1>9
  <2>2. frames' = <<>> BY <1>4, <2>1, SeqFront
  <2>3. PushRun' BY <2>2 DEF PushRun
  <2>4. mode' = "prompt" BY <1>1, <1>2, <1>9
  <2> QED BY <1>1, <1>3, <1>5, <1>6, <1>8, <2>2, <2>3, <2>4, RunKeeps
<1>10. CASE N # 1
  <2>1. N - 1 \in 1 .. (N - 1) /\ 1 \in 1 .. (N - 1) BY <1>3, <1>10
  <2>2. frames' # <<>> BY <1>4, <2>1, SeqEmpty
  <2>3. frames'[1].mWorkspace = frames[1].mWorkspace BY <1>4, <2>1
  <2>4. PushRun'
    <3>1. Top' = frames[N - 1] BY <1>4, <2>1 DEF Top, Last
    <3>2. N - 1 \in DOMAIN frames /\ N - 1 < Len(frames) BY <1>2, <1>3, <2>1
    <3>3. Top'.pc > 1 /\ Top'.code[Top'.pc - 1].op \notin Pushes
      BY <3>1, <3>2 DEF Parts, FramesOK, Nested
    <3>4. \A d \in 1 .. (Top'.pc - 1) : 1 \in 1 .. d OBVIOUS
    <3> QED BY <3>3, <3>4 DEF PushRun
  <2>5. mode' = "run" BY <1>1, <1>2, <1>10
  <2> QED BY <1>1, <1>3, <1>5, <1>6, <1>8, <2>2, <2>3, <2>4, <2>5, RunKeeps
<1> QED BY <1>9, <1>10

(* What a function has bound has a place among its variables.              *)
LEMMA LocalIsThere ==
  ASSUME NEW W, NEW F, NEW w, Typed(w, W, F), NEW p \in Nat, p <= Len(w.def.code) + 1,
         NEW n \in Names, LocalAt(w, n, p)
  PROVE  IndexOf(n, w.locals) # 0
<1>1. /\ IsSeq(w.def.code) /\ w.def.args \in Seq(Names) /\ w.locals \in Seq(Names)
      /\ Len(w.def.args) <= Len(w.locals)
      /\ \A k \in DOMAIN w.def.args : w.locals[k] = w.def.args[k]
  BY DEF Typed, Shaped
<1>2. IsSeq(w.def.args) /\ IsSeq(w.locals) BY <1>1, NameSeq
<1>3. /\ DOMAIN w.def.args = 1 .. Len(w.def.args) /\ Len(w.def.code) \in Nat
      /\ DOMAIN w.def.code = 1 .. Len(w.def.code)
  BY <1>1, <1>2, SeqIs
<1>4. CASE IndexOf(n, w.def.args) # 0
  <2>1. Len(w.def.args) <= Len(w.locals)
        /\ \A k \in 1 .. Len(w.def.args) : w.locals[k] = w.def.args[k]
    BY <1>1, <1>3
  <2>2. IndexOf(n, w.locals) = IndexOf(n, w.def.args) BY ONLY <1>2, <1>4, <2>1, IndexOfLonger, SMTT(30)
  <2> QED BY <1>4, <2>2
<1>5. CASE IndexOf(n, w.def.args) = 0
  <2>1. PICK q \in 1 .. (p - 1) : w.def.code[q].op = "BindLocal" /\ w.def.code[q].name = n
    BY <1>5 DEF LocalAt
  <2>2. q \in DOMAIN w.def.code BY <1>3
  <2>3. LocalFits(w, q) BY <2>2 DEF Typed, Fits
  <2> QED BY <2>1, <2>3 DEF LocalFits
<1> QED BY <1>4, <1>5

(* Frame fr2 is fr after it has bound its variable to v.                   *)
BindsLocal(fr, fr2, v) ==
  LET op == fr.code[fr.pc]
  IN  /\ fr.pc <= Len(fr.code) /\ op.op = "BindLocal"
      /\ IsFrame(fr2) /\ fr2.pc = fr.pc + 1 /\ fr2.code = fr.code /\ fr2.mVars = fr.mVars
      /\ fr2.text = fr.text
      /\ fr2.mLocals = [fr.mLocals EXCEPT ![op.slot] = v]
      /\ fr2.env = [fr.env EXCEPT ![op.name] = v]

LEMMA LocalBound ==
  ASSUME NEW W, NEW F, NEW w, Typed(w, W, F), NEW fr, FrameFits(fr, w), IsSeq(funs),
         NEW v, IsValue(v), NEW fr2, BindsLocal(fr, fr2, v)
  PROVE  FrameFits(fr2, w)
<1>1. PICK op, p : op = fr.code[fr.pc] /\ p = fr.pc OBVIOUS
<1>2. /\ p <= Len(fr.code) /\ op.op = "BindLocal"
      /\ IsFrame(fr2) /\ fr2.pc = p + 1 /\ fr2.code = fr.code /\ fr2.mVars = fr.mVars
      /\ fr2.text = fr.text
      /\ fr2.mLocals = [fr.mLocals EXCEPT ![op.slot] = v]
      /\ fr2.env = [fr.env EXCEPT ![op.name] = v]
  BY <1>1 DEF BindsLocal
<1>3. /\ fr.code = w.def.code /\ fr.text = w.def.text /\ p \in 1 .. (Len(fr.code) + 1)
      /\ IsSeq(fr.mLocals) /\ Len(fr.mLocals) = Len(w.locals)
      /\ IsSeq(fr.mVars) /\ Len(fr.mVars) = Len(w.vars)
      /\ fr.env = [n \in Names |-> fr.env[n]]
      /\ \A n \in Names : /\ fr.env[n] # None <=> BoundAt(w, n, p)
                          /\ fr.env[n] # None => IsValue(fr.env[n])
                          /\ LocalAt(w, n, p) => fr.mLocals[IndexOf(n, w.locals)] = fr.env[n]
                          /\ GlobalAt(w, n, p) => Has(w.def.text, n)
      /\ \A k \in DOMAIN w.vars : fr.mVars[k] = fr.env[w.vars[k]]
  BY <1>1 DEF FrameFits
<1>4. /\ IsSeq(w.def.code) /\ IsSeq(w.locals)
      /\ \A k \in DOMAIN w.vars : w.vars[k] \in Names /\ IndexOf(w.vars[k], w.locals) = 0
  BY NameSeq DEF Typed, Shaped
<1>5. /\ Len(fr.code) \in Nat /\ DOMAIN w.def.code = 1 .. Len(fr.code)
      /\ Len(w.locals) \in Nat /\ DOMAIN fr.mLocals = 1 .. Len(w.locals)
  BY <1>3, <1>4, SeqIs
<1>6. p \in Nat \ {0} /\ p \in DOMAIN w.def.code /\ w.def.code[p] = op BY <1>1, <1>2, <1>3, <1>5
<1>7. op.name \in Names /\ op.slot = IndexOf(op.name, w.locals) /\ op.slot # 0
  <2>1. LocalFits(w, p) BY <1>6 DEF Typed, Fits
  <2> QED BY <1>2, <1>6, <2>1 DEF LocalFits
<1>8. op.slot \in DOMAIN fr.mLocals /\ w.locals[op.slot] = op.name
  BY <1>4, <1>5, <1>7, IndexOfIs
<1>9. v # None BY ValueIsNotNone
<1>10. /\ fr2.env[op.name] = v /\ fr2.env = [n \in Names |-> fr2.env[n]]
       /\ \A n \in Names : n # op.name => fr2.env[n] = fr.env[n]
  BY <1>2, <1>3, <1>7
<1>11. /\ fr2.mLocals[op.slot] = v
       /\ \A i \in DOMAIN fr.mLocals : i # op.slot => fr2.mLocals[i] = fr.mLocals[i]
  BY <1>2, <1>8
<1>12. IsSeq(fr2.mLocals) /\ Len(fr2.mLocals) = Len(w.locals)
  <2>1. fr2.mLocals = [i \in 1 .. Len(w.locals) |-> fr2.mLocals[i]] BY <1>2, <1>5
  <2> QED BY <1>5, <2>1, SeqMade
<1>13. ASSUME NEW n \in Names
       PROVE  /\ fr2.env[n] # None <=> BoundAt(w, n, p + 1)
              /\ fr2.env[n] # None => IsValue(fr2.env[n])
              /\ LocalAt(w, n, p + 1) => fr2.mLocals[IndexOf(n, w.locals)] = fr2.env[n]
              /\ GlobalAt(w, n, p + 1) => Has(w.def.text, n)
  <2>1. GlobalAt(w, n, p + 1) <=> GlobalAt(w, n, p) BY <1>2, <1>6, BoundNext
  <2>2. CASE n = op.name
    <3>1. LocalAt(w, n, p + 1) BY <1>2, <1>6, <2>2, BoundNext
    <3>2. BoundAt(w, n, p + 1) BY <3>1 DEF BoundAt
    <3>3. fr2.env[n] = v /\ fr2.mLocals[IndexOf(n, w.locals)] = v
      BY <1>7, <1>10, <1>11, <2>2
    <3> QED BY <1>3, <1>9, <2>1, <3>1, <3>2, <3>3
  <2>3. CASE n # op.name
    <3>1. LocalAt(w, n, p + 1) <=> LocalAt(w, n, p) BY <1>2, <1>6, <2>3, BoundNext
    <3>2. BoundAt(w, n, p + 1) <=> BoundAt(w, n, p) BY <3>1 DEF BoundAt
    <3>3. fr2.env[n] = fr.env[n] BY <1>10, <2>3
    <3>4. ASSUME LocalAt(w, n, p)
          PROVE  fr2.mLocals[IndexOf(n, w.locals)] = fr.mLocals[IndexOf(n, w.locals)]
      <4>1. p <= Len(w.def.code) + 1 /\ p \in Nat BY <1>2, <1>3, <1>5
      <4>2. IndexOf(n, w.locals) # 0 BY <3>4, <4>1, LocalIsThere
      <4>3. IndexOf(n, w.locals) \in 1 .. Len(w.locals) /\ w.locals[IndexOf(n, w.locals)] = n
        BY <1>4, <4>2, IndexOfIs
      <4>4. IndexOf(n, w.locals) # op.slot BY <1>8, <2>3, <4>3
      <4> QED BY <1>5, <1>11, <4>3, <4>4
    <3> QED BY <1>3, <2>1, <3>1, <3>2, <3>3, <3>4
  <2> QED BY <2>2, <2>3
<1>14. ASSUME NEW k \in DOMAIN w.vars PROVE fr2.mVars[k] = fr2.env[w.vars[k]]
  <2>1. w.vars[k] # op.name /\ w.vars[k] \in Names BY <1>4, <1>7
  <2>2. fr2.env[w.vars[k]] = fr.env[w.vars[k]] BY <1>10, <2>1
  <2> QED BY <1>2, <1>3, <2>2
<1>15. fr2.pc \in 1 .. (Len(fr2.code) + 1) BY <1>2, <1>5, <1>6
<1>16. \A n \in Names :
         /\ fr2.env[n] # None <=> BoundAt(w, n, fr2.pc)
         /\ fr2.env[n] # None => IsValue(fr2.env[n])
         /\ LocalAt(w, n, fr2.pc) => fr2.mLocals[IndexOf(n, w.locals)] = fr2.env[n]
         /\ GlobalAt(w, n, fr2.pc) => Has(w.def.text, n)
  <2>1. PICK q : q = p + 1 OBVIOUS
  <2>2. fr2.pc = q BY <1>2, <2>1
  <2>3. \A n \in Names :
          /\ fr2.env[n] # None <=> BoundAt(w, n, q)
          /\ fr2.env[n] # None => IsValue(fr2.env[n])
          /\ LocalAt(w, n, q) => fr2.mLocals[IndexOf(n, w.locals)] = fr2.env[n]
          /\ GlobalAt(w, n, q) => Has(w.def.text, n)
    BY <1>13, <2>1
  <2> QED BY <2>2, <2>3
<1>17. /\ fr2.code = w.def.code /\ fr2.text = w.def.text
       /\ IsSeq(fr2.mVars) /\ Len(fr2.mVars) = Len(w.vars)
  BY <1>2, <1>3
<1> QED BY <1>2, <1>10, <1>12, <1>14, <1>15, <1>16, <1>17 DEF FrameFits

LEMMA BindLocalKeeps ==
  ASSUME NEW W, NEW F, Parts(W, F), BindLocal
  PROVE  Parts(W, F)'
<1>1. /\ mode = "run" /\ Top.pc <= Len(Top.code) /\ Fetch.op = "BindLocal"
      /\ UNCHANGED <<compiling, funs, forms, mWorkspace, history, tokens>>
  BY DEF BindLocal, Running
<1>2. CASE Len(stack) = Top.stackBase
  <2>1. Throw BY <1>2 DEF BindLocal
  <2> QED BY <1>1, <2>1, ThrowKeeps
<1>3. CASE Len(stack) # Top.stackBase
  <2>1. PICK v, l, N, a : v = Last(stack) /\ l = Len(stack) /\ N = Len(frames) /\ a = Advanced
    OBVIOUS
  <2>2. PICK op : op = Fetch OBVIOUS
  <2>3. /\ stack' = Front(stack) /\ mode' = mode
        /\ frames' = [a EXCEPT ![N].mLocals[op.slot] = v, ![N].env[op.name] = v]
    BY <1>3, <2>1, <2>2 DEF BindLocal
  <2>4. /\ IsSeq(stack) /\ l \in Nat /\ DOMAIN stack = 1 .. l /\ IsSeq(funs)
        /\ (\A i \in DOMAIN stack : IsValue(stack[i])) /\ Top.stackBase \in 0 .. l
        /\ N \in 1 .. N /\ N \in Nat \ {0} /\ Top = frames[N] /\ (\A i \in 1 .. N : FrameOK(i, W))
    BY <1>1, <2>1, RunningFacts
  <2>5. l > 0 /\ l - 1 >= Top.stackBase BY <1>3, <2>1, <2>4
  <2>6. stack # <<>> BY <2>1, <2>5, SeqEmpty
  <2>7. /\ v = stack[l] /\ IsSeq(stack') /\ Len(stack') = l - 1
        /\ \A i \in 1 .. (l - 1) : stack'[i] = stack[i]
    BY <2>1, <2>3, <2>4, <2>6, SeqFront
  <2>8. IsValue(v) BY <2>4, <2>5, <2>7
  <2>9. (\A i \in DOMAIN stack : IsValue(stack[i]))'
    <3>1. DOMAIN stack' = 1 .. (l - 1) BY <2>7, SeqIs
    <3>2. \A i \in DOMAIN stack' : IsValue(stack'[i]) BY <2>4, <2>7, <3>1
    <3> QED BY <1>1, <3>2 DEF IsValue
  <2>10. Advances(a, N) BY <1>1, <2>1, AdvancedIs
  <2>11. PICK b, fr, fr2 : b = frames' /\ fr = Top /\ fr2 = b[N] OBVIOUS
  <2>12. /\ DOMAIN a = 1 .. N /\ (\A i \in 1 .. N : i # N => a[i] = frames[i])
         /\ IsFrame(a[N]) /\ a[N].pc = fr.pc + 1 /\ a[N].code = fr.code
         /\ a[N].stackBase = fr.stackBase /\ a[N].mLocals = fr.mLocals /\ a[N].mVars = fr.mVars
         /\ a[N].mWorkspace = fr.mWorkspace /\ a[N].text = fr.text /\ a[N].env = fr.env
    BY <2>4, <2>10, <2>11 DEF Advances
  <2>13. /\ b = [i \in 1 .. N |-> b[i]] /\ (\A i \in 1 .. N : i # N => b[i] = frames[i])
         /\ fr2 = [a[N] EXCEPT !.mLocals = [fr.mLocals EXCEPT ![op.slot] = v],
                               !.env = [fr.env EXCEPT ![op.name] = v]]
    <3>1. PICK r : r = [a[N] EXCEPT !.mLocals[op.slot] = v, !.env[op.name] = v] OBVIOUS
    <3>2. b = [a EXCEPT ![N] = r]
      BY <2>3, <2>4, <2>11, <2>12, <3>1
    <3>3. DOMAIN a[N] = {"code", "pc", "stackBase", "mLocals", "mVars", "mWorkspace", "text", "env"}
      BY <2>12, FrameFields
    <3>4. r = [a[N] EXCEPT !.mLocals = [fr.mLocals EXCEPT ![op.slot] = v],
                           !.env = [fr.env EXCEPT ![op.name] = v]]
      BY <2>12, <3>1, <3>3
    <3> QED BY <2>4, <2>11, <2>12, <3>2, <3>4, ZenonT(60)
  <2>14. /\ IsFrame(fr2) /\ fr2.pc = fr.pc + 1 /\ fr2.code = fr.code
         /\ fr2.stackBase = fr.stackBase /\ fr2.mVars = fr.mVars
         /\ fr2.mWorkspace = fr.mWorkspace /\ fr2.text = fr.text
         /\ fr2.mLocals = [fr.mLocals EXCEPT ![op.slot] = v]
         /\ fr2.env = [fr.env EXCEPT ![op.name] = v]
    <3>1. PICK x, y, z : /\ x = a[N] /\ y = [fr.mLocals EXCEPT ![op.slot] = v]
                         /\ z = [fr.env EXCEPT ![op.name] = v]
      OBVIOUS
    <3>2. /\ IsFrame(x) /\ fr2 = [x EXCEPT !.mLocals = y, !.env = z]
          /\ DOMAIN x = {"code", "pc", "stackBase", "mLocals", "mVars", "mWorkspace", "text", "env"}
      BY <2>12, <2>13, <3>1, FrameFields
    <3>3. /\ IsFrame(fr2) /\ fr2.pc = x.pc /\ fr2.code = x.code
          /\ fr2.stackBase = x.stackBase /\ fr2.mVars = x.mVars
          /\ fr2.mWorkspace = x.mWorkspace /\ fr2.text = x.text
          /\ fr2.mLocals = y /\ fr2.env = z
      BY ONLY <3>2 DEF IsFrame
    <3> QED BY <2>12, <3>1, <3>3
  <2>15. Moves(b, N)
    <3>1. IsSeq(b) /\ Len(b) = N /\ DOMAIN b = 1 .. N BY <2>4, <2>13, SeqMade
    <3> QED BY <2>4, <2>11, <2>13, <2>14, <3>1 DEF Moves
  <2>16. Nested' /\ IsSeq(frames') /\ DOMAIN frames' = 1 .. N /\ frames' # <<>>
    BY <1>1, <2>1, <2>5, <2>7, <2>11, <2>15, NestedMoves
  <2>17. ASSUME NEW i \in 1 .. N PROVE FrameOK(i, W)'
    <3>1. HasStays BY <1>1 DEF HasStays, Has
    <3>2. CASE i # N
      <4>1. frames'[i] = frames[i] BY <2>11, <2>13, <3>2
      <4> QED BY <1>1, <2>4, <3>1, <4>1, FrameStays DEF compiling
    <3>3. CASE i = N
      <4>1. PICK w \in W : /\ FrameFits(fr, w) /\ Typed(w, W, F) /\ (w.top => OfText(N))
                           /\ (~ OfText(N) => fr.mWorkspace = w.def.mWorkspace)
        BY <1>1, <2>1, <2>11, TopFits
      <4>2. fr.mWorkspace \in DOMAIN forms BY <2>4, <2>11 DEF FrameOK
      <4>3. BindsLocal(fr, fr2, v)
        <5>1. fr.code[fr.pc] = op BY <2>2, <2>11 DEF Fetch
        <5> QED BY <1>1, <2>2, <2>11, <2>14, <5>1 DEF BindsLocal
      <4>4. FrameFits(fr2, w) BY <2>4, <2>8, <4>1, <4>3, LocalBound
      <4>5. frames'[N] = fr2 /\ fr2.mWorkspace = fr.mWorkspace BY <2>11, <2>14
      <4> QED BY <1>1, <3>1, <3>3, <4>1, <4>2, <4>4, <4>5, FrameLies DEF compiling
    <3> QED BY <3>2, <3>3
  <2>18. FramesOK(W)' BY <2>16, <2>17 DEF FramesOK
  <2>19. PushRun'
    <3>1. Top' = fr2 BY <2>11, <2>15 DEF Top, Last, Moves
    <3>2. \E w \in W : FrameFits(Top, w) BY <1>1, TopFits
    <3>3. Top.pc \in Nat \ {0} BY <3>2 DEF FrameFits
    <3>4. fr2.pc - 1 = Top.pc /\ fr2.code = Top.code BY <2>11, <2>14, <3>3
    <3>5. fr2.code[fr2.pc - 1].op \notin Pushes BY <1>1, <3>4 DEF Fetch, Pushes
    <3>6. \A d \in 1 .. (fr2.pc - 1) : 1 \in 1 .. d OBVIOUS
    <3> QED BY <3>1, <3>5, <3>6 DEF PushRun
  <2>20. frames'[1].mWorkspace = frames[1].mWorkspace
    <3>1. CASE N = 1 BY <2>4, <2>11, <2>14, <3>1
    <3>2. CASE N # 1
      <4>1. 1 \in 1 .. N BY <2>4
      <4> QED BY <2>11, <2>13, <3>2, <4>1
    <3> QED BY <3>1, <3>2
  <2>21. FunsOK(W)' BY <1>1, FunsStay DEF Parts
  <2> QED BY <1>1, <2>3, <2>7, <2>9, <2>16, <2>18, <2>19, <2>20, <2>21, RunKeeps
<1> QED BY <1>2, <1>3

-----------------------------------------------------------------------------
(* Putting a binding into the forms.                                       *)

FormsLike(fs) ==
  /\ IsSeq(fs) /\ \A f \in DOMAIN fs : fs[f] = [x \in Names |-> fs[f][x]]
  /\ \A f \in DOMAIN fs, x \in Names : fs[f][x] = None \/ IsValue(fs[f][x])
(* The form p.form is f with the binding.  Any other form is what it was,  *)
(* or gets the binding when neither it nor f had bound the name.           *)
IsPut(fs, f, n, v, p) ==
  /\ FormsLike(p.forms) /\ DOMAIN fs \subseteq DOMAIN p.forms /\ p.form \in DOMAIN p.forms
  /\ \A x \in Names : p.forms[p.form][x] = IF x = n THEN v ELSE fs[f][x]
  /\ \A g \in DOMAIN fs, x \in Names :
       \/ p.forms[g][x] = fs[g][x]
       \/ x = n /\ fs[g][n] = None /\ fs[f][n] = None /\ p.forms[g][n] = v
  /\ fs[f][n] = None => p.form = f

LEMMA PutIs ==
  ASSUME NEW fs, FormsLike(fs), NEW f \in DOMAIN fs, NEW n \in Names, NEW v, IsValue(v),
         NEW seen, seen \subseteq Sharers(fs, f, n), NEW p, p = Put(fs, f, n, v, seen)
  PROVE  IsPut(fs, f, n, v, p)
<1>1. /\ IsSeq(fs) /\ (\A g \in DOMAIN fs : fs[g] = [x \in Names |-> fs[g][x]])
      /\ \A g \in DOMAIN fs, x \in Names : fs[g][x] = None \/ IsValue(fs[g][x])
  BY DEF FormsLike
<1>2. Len(fs) \in Nat /\ DOMAIN fs = 1 .. Len(fs) BY <1>1, SeqIs
<1>3. ASSUME NEW r, r = [x \in Names |-> r[x]], NEW r2, r2 = [r EXCEPT ![n] = v]
      PROVE  /\ r2 = [x \in Names |-> r2[x]] /\ r2[n] = v
             /\ \A x \in Names : x # n => r2[x] = r[x]
  BY <1>3
<1>4. CASE fs[f][n] = None
  <2>1. PICK gs : gs = [g \in DOMAIN fs |-> IF g \in {f} \cup seen THEN [fs[g] EXCEPT ![n] = v]
                                            ELSE fs[g]]
    OBVIOUS
  <2>2. p = [forms |-> gs, form |-> f] BY <1>4, <2>1 DEF Put
  <2>3. p.forms = gs /\ p.form = f BY <2>2
  <2>4. \A g \in {f} \cup seen : g \in DOMAIN fs /\ fs[g][n] = None BY <1>4 DEF Sharers
  <2>5. ASSUME NEW g \in DOMAIN fs
        PROVE  /\ gs[g] = [x \in Names |-> gs[g][x]]
               /\ \A x \in Names : gs[g][x] = IF x = n /\ g \in {f} \cup seen THEN v ELSE fs[g][x]
    <3>1. CASE g \in {f} \cup seen
      <4>1. PICK r, r2 : r = fs[g] /\ r2 = [r EXCEPT ![n] = v] OBVIOUS
      <4>2. r = [x \in Names |-> r[x]] /\ gs[g] = r2 BY <1>1, <2>1, <3>1, <4>1
      <4>3. /\ r2 = [x \in Names |-> r2[x]] /\ r2[n] = v
            /\ \A x \in Names : x # n => r2[x] = r[x]
        BY <1>3, <4>1, <4>2
      <4> QED BY <3>1, <4>1, <4>2, <4>3
    <3>2. CASE g \notin {f} \cup seen
      <4>1. gs[g] = fs[g] BY <2>1, <3>2
      <4> QED BY <1>1, <3>2, <4>1
    <3> QED BY <3>1, <3>2
  <2>6. IsSeq(gs) /\ DOMAIN gs = DOMAIN fs
    <3>1. DOMAIN gs = DOMAIN fs BY <2>1
    <3>2. gs = [g \in 1 .. Len(fs) |-> gs[g]] BY <1>2, <2>1
    <3> QED BY <1>2, <3>1, <3>2, SeqMade
  <2>7. FormsLike(gs)
    <3>1. \A g \in DOMAIN gs, x \in Names : gs[g][x] = None \/ IsValue(gs[g][x])
      BY <1>1, <2>5, <2>6
    <3> QED BY <2>5, <2>6, <3>1 DEF FormsLike
  <2>8. \A x \in Names : gs[f][x] = IF x = n THEN v ELSE fs[f][x] BY <2>5
  <2>9. \A g \in DOMAIN fs, x \in Names :
          \/ gs[g][x] = fs[g][x]
          \/ x = n /\ fs[g][n] = None /\ fs[f][n] = None /\ gs[g][n] = v
    BY <1>4, <2>4, <2>5
  <2> QED BY <2>3, <2>6, <2>7, <2>8, <2>9 DEF IsPut
<1>5. CASE fs[f][n] # None
  <2>1. PICK r, l, gs : /\ r = [fs[f] EXCEPT ![n] = v] /\ l = Len(fs) + 1 /\ gs = Append(fs, r)
    OBVIOUS
  <2>2. p = [forms |-> gs, form |-> l] BY <1>5, <2>1 DEF Put
  <2>3. p.forms = gs /\ p.form = l BY <2>2
  <2>4. /\ IsSeq(gs) /\ DOMAIN gs = 1 .. l /\ (\A g \in 1 .. Len(fs) : gs[g] = fs[g])
        /\ gs[l] = r
    BY <1>1, <2>1, SeqAppend
  <2>5. /\ r = [x \in Names |-> r[x]] /\ r[n] = v
        /\ \A x \in Names : x # n => r[x] = fs[f][x]
    <3>1. PICK s : s = fs[f] OBVIOUS
    <3>2. s = [x \in Names |-> s[x]] /\ r = [s EXCEPT ![n] = v] BY <1>1, <2>1, <3>1
    <3> QED BY <1>3, <3>1, <3>2
  <2>6. \A g \in 1 .. l : g = l \/ g \in DOMAIN fs BY <1>2, <2>1
  <2>7. l \in 1 .. l /\ DOMAIN fs \subseteq 1 .. l BY <1>2, <2>1
  <2>8. FormsLike(gs)
    <3>1. \A x \in Names : r[x] = None \/ IsValue(r[x]) BY <1>1, <2>5
    <3>2. \A g \in DOMAIN gs, x \in Names : gs[g][x] = None \/ IsValue(gs[g][x])
      BY <1>1, <1>2, <2>4, <2>6, <3>1
    <3>3. \A g \in DOMAIN gs : gs[g] = [x \in Names |-> gs[g][x]]
      BY <1>1, <1>2, <2>4, <2>5, <2>6
    <3> QED BY <2>4, <3>2, <3>3 DEF FormsLike
  <2>9. \A x \in Names : gs[l][x] = IF x = n THEN v ELSE fs[f][x] BY <2>4, <2>5
  <2>10. \A g \in DOMAIN fs, x \in Names : gs[g][x] = fs[g][x] BY <1>2, <2>4
  <2> QED BY <1>5, <2>3, <2>4, <2>7, <2>8, <2>9, <2>10 DEF IsPut
<1> QED BY <1>4, <1>5

(* What the two puts of a binding make of the forms: g is the form of the  *)
(* text that runs.                                                         *)
BoundTwice(n, v, g) ==
  /\ FormsLike(forms') /\ DOMAIN forms \subseteq DOMAIN forms'
  /\ mWorkspace' \in DOMAIN forms' /\ g \in DOMAIN forms'
  /\ \A x \in Names : forms'[mWorkspace'][x] = IF x = n THEN v ELSE forms[mWorkspace][x]
  /\ \A x \in Names : forms'[g][x] = forms'[mWorkspace'][x]
  /\ \A h \in DOMAIN forms, x \in Names :
       \/ forms'[h][x] = forms[h][x]
       \/ x = n /\ forms[h][n] = None /\ forms[mWorkspace][n] = None /\ forms'[h][n] = v
  /\ forms[mWorkspace][n] = None => g = Top.mWorkspace

LEMMA PutTwiceIs ==
  ASSUME FormsLike(forms), mWorkspace \in DOMAIN forms, Top.mWorkspace \in DOMAIN forms,
         IsSeq(funs), \A x \in Names : forms[Top.mWorkspace][x] = forms[mWorkspace][x],
         NEW n \in Names, NEW v, IsValue(v), PutTwice(n, v)
  PROVE  \E g : /\ BoundTwice(n, v, g)
                /\ frames' = [Advanced EXCEPT ![Len(frames)].mWorkspace = g]
<1>1. PICK fs, f, m : fs = forms /\ f = Top.mWorkspace /\ m = mWorkspace OBVIOUS
<1>2. PICK seen \in SUBSET Sharers(fs, f, n) :
        LET p == Put(fs, f, n, v, seen)
        IN  \E seenToo \in SUBSET Sharers(p.forms, m, n) :
              LET q == Put(p.forms, m, n, v, seenToo)
              IN  /\ forms' = q.forms /\ mWorkspace' = q.form
                  /\ frames' = [Advanced EXCEPT ![Len(frames)].mWorkspace = p.form]
  BY <1>1 DEF PutTwice
<1>3. PICK p : p = Put(fs, f, n, v, seen) OBVIOUS
<1>4. PICK seenToo \in SUBSET Sharers(p.forms, m, n) :
        LET q == Put(p.forms, m, n, v, seenToo)
        IN  /\ forms' = q.forms /\ mWorkspace' = q.form
            /\ frames' = [Advanced EXCEPT ![Len(frames)].mWorkspace = p.form]
  BY <1>2, <1>3
<1>5. PICK q : q = Put(p.forms, m, n, v, seenToo) OBVIOUS
<1>6. /\ forms' = q.forms /\ mWorkspace' = q.form
      /\ frames' = [Advanced EXCEPT ![Len(frames)].mWorkspace = p.form]
  BY <1>4, <1>5
<1>7. PICK g : g = p.form OBVIOUS
<1>8. v # None BY ValueIsNotNone
<1>9. FormsLike(fs) /\ f \in DOMAIN fs /\ m \in DOMAIN fs
      /\ \A x \in Names : fs[f][x] = fs[m][x]
  BY <1>1
<1>10. IsPut(fs, f, n, v, p) BY <1>3, <1>9, PutIs
<1>11. PICK ps : ps = p.forms OBVIOUS
<1>12. /\ FormsLike(ps) /\ DOMAIN fs \subseteq DOMAIN ps /\ g \in DOMAIN ps
       /\ (\A x \in Names : ps[g][x] = IF x = n THEN v ELSE fs[f][x])
       /\ (\A h \in DOMAIN fs, x \in Names :
             \/ ps[h][x] = fs[h][x]
             \/ x = n /\ fs[h][n] = None /\ fs[f][n] = None /\ ps[h][n] = v)
       /\ (fs[f][n] = None => g = f)
  BY <1>7, <1>10, <1>11 DEF IsPut
<1>13. m \in DOMAIN ps BY <1>9, <1>12
<1>14. IsPut(ps, m, n, v, q) BY <1>5, <1>11, <1>12, <1>13, PutIs
<1>15. PICK qs, k : qs = q.forms /\ k = q.form OBVIOUS
<1>16. /\ FormsLike(qs) /\ DOMAIN ps \subseteq DOMAIN qs /\ k \in DOMAIN qs
       /\ (\A x \in Names : qs[k][x] = IF x = n THEN v ELSE ps[m][x])
       /\ (\A h \in DOMAIN ps, x \in Names :
             \/ qs[h][x] = ps[h][x]
             \/ x = n /\ ps[h][n] = None /\ ps[m][n] = None /\ qs[h][n] = v)
  BY <1>14, <1>15 DEF IsPut
<1>17. \A x \in Names : qs[k][x] = IF x = n THEN v ELSE fs[m][x] BY <1>9, <1>12, <1>16
<1>18. \A x \in Names : qs[g][x] = qs[k][x]
  <2>1. \A x \in Names : qs[g][x] = ps[g][x] BY <1>8, <1>12, <1>16
  <2> QED BY <1>9, <1>12, <1>17, <2>1
<1>19. ASSUME NEW h \in DOMAIN fs, NEW x \in Names
       PROVE  \/ qs[h][x] = fs[h][x]
              \/ x = n /\ fs[h][n] = None /\ fs[m][n] = None /\ qs[h][n] = v
  <2>1. h \in DOMAIN ps BY <1>12
  <2>2. CASE qs[h][x] = ps[h][x] BY <1>9, <1>12, <2>2
  <2>3. CASE x = n /\ ps[h][n] = None /\ ps[m][n] = None /\ qs[h][n] = v
    <3>1. fs[m][n] = None /\ fs[h][n] = None BY <1>8, <1>9, <1>12, <2>3
    <3> QED BY <2>3, <3>1
  <2> QED BY <1>16, <2>1, <2>2, <2>3
<1>20. BoundTwice(n, v, g)
  <2>1. forms' = qs /\ mWorkspace' = k BY <1>6, <1>15
  <2>2. DOMAIN fs \subseteq DOMAIN qs /\ g \in DOMAIN qs BY <1>12, <1>16
  <2>3. fs[m][n] = None => g = f BY <1>9, <1>12
  <2>4. /\ FormsLike(qs) /\ k \in DOMAIN qs
        /\ (\A x \in Names : qs[k][x] = IF x = n THEN v ELSE fs[m][x])
        /\ (\A x \in Names : qs[g][x] = qs[k][x])
        /\ \A h \in DOMAIN fs, x \in Names :
             \/ qs[h][x] = fs[h][x]
             \/ x = n /\ fs[h][n] = None /\ fs[m][n] = None /\ qs[h][n] = v
    BY <1>16, <1>17, <1>18, <1>19
  <2> QED BY <1>1, <2>1, <2>2, <2>3, <2>4 DEF BoundTwice
<1> QED BY <1>6, <1>7, <1>20

(* The text that runs has now bound n to v. *)
RememberedAs(h, h2, n, v) ==
  /\ IsHistory(h2) /\ h2.start = h.start
  /\ h2.again <=> (h.again \/ forms[Top.mWorkspace][n] # None)
  /\ h2.first[n] = IF h.first[n] = None THEN v ELSE h.first[n]
  /\ \A x \in Names : x # n => h2.first[x] = h.first[x]
  /\ h2.late = IF h.again /\ h.first[n] = None THEN h.late \cup {n} ELSE h.late

LEMMA RememberedIs ==
  ASSUME NEW h, IsHistory(h), NEW n \in Names, NEW v, NEW h2, h2 = Remembered(h, n, v)
  PROVE  RememberedAs(h, h2, n, v)
<1>1. PICK s, b, a, l : s = h.start /\ b = h.first /\ a = h.again /\ l = h.late OBVIOUS
<1>2. /\ h = [start |-> s, first |-> b, again |-> a, late |-> l]
      /\ s = [x \in Names |-> s[x]] /\ b = [x \in Names |-> b[x]]
  <2>1. h = [start |-> [x \in Names |-> s[x]], first |-> [x \in Names |-> b[x]],
             again |-> a, late |-> l]
    BY <1>1 DEF IsHistory
  <2>2. h.start = [x \in Names |-> s[x]] /\ h.first = [x \in Names |-> b[x]]
    BY ONLY <2>1
  <2> QED BY <1>1, <2>1, <2>2
<1>3. PICK a2, b2, l2 : /\ a2 = (a \/ forms[Top.mWorkspace][n] # None)
                        /\ b2 = [b EXCEPT ![n] = IF b[n] = None THEN v ELSE b[n]]
                        /\ l2 = (IF a /\ b[n] = None THEN l \cup {n} ELSE l)
  OBVIOUS
<1>4. h2 = [h EXCEPT !.again = a2, !.first = b2, !.late = l2]
  BY <1>1, <1>2, <1>3 DEF Remembered
<1>5. h2 = [start |-> s, first |-> b2, again |-> a2, late |-> l2]
  BY ONLY <1>2, <1>4
<1>6. /\ b2 = [x \in Names |-> b2[x]] /\ b2[n] = (IF b[n] = None THEN v ELSE b[n])
      /\ \A x \in Names : x # n => b2[x] = b[x]
  BY ONLY <1>2, <1>3
<1>7. h2.start = s /\ h2.first = b2 /\ h2.again = a2 /\ h2.late = l2 BY ONLY <1>5
<1>8. IsHistory(h2) BY <1>2, <1>5, <1>6, <1>7, Zenon DEF IsHistory
<1> QED BY <1>1, <1>3, <1>6, <1>7, <1>8 DEF RememberedAs

(* What the texts, and the current one, then have bound.                   *)
LEMMA TextsBound ==
  ASSUME NEW W, NEW F, Parts(W, F), mode = "run", mode' = "run", UNCHANGED <<inTopLevel, funs>>,
         inTopLevel, Len(frames) = 1, NEW n \in Names, NEW v, IsValue(v),
         NEW g, BoundTwice(n, v, g), frames'[1].mWorkspace = g,
         history' = [history EXCEPT ![Len(history)] = Remembered(@, n, v)]
  PROVE  /\ FormsOK(F)' /\ HasStays /\ Has(Len(history), n)'
         /\ Len(history') = Len(history)
<1>1. PICK t, m, m2, f : /\ t = Len(history) /\ m = mWorkspace /\ m2 = mWorkspace'
                         /\ f = Top.mWorkspace
  OBVIOUS
<1>2. /\ IsSeq(history) /\ IsSeq(F) /\ Len(F) = Len(history) /\ m \in DOMAIN forms
      /\ (\A s \in DOMAIN history : TextOK(s, F)) /\ CurrentOK(F) /\ history # <<>> /\ IsSeq(funs)
  BY <1>1 DEF Parts, FormsOK, CurrentOK, FunsOK
<1>3. t \in Nat \ {0} /\ t \in 1 .. t /\ DOMAIN history = 1 .. t /\ t \in DOMAIN history
  <2>1. Len(history) \in Nat /\ DOMAIN history = 1 .. Len(history) /\ Len(history) > 0
    BY <1>2, SeqIs, SeqFront
  <2> QED BY <1>1, <2>1
<1>4. Top = frames[1]
  BY DEF Top, Last
<1>5. PICK h, h2 : h = history[t] /\ h2 = Remembered(h, n, v) OBVIOUS
<1>6. history' = [history EXCEPT ![t] = h2] BY <1>1, <1>5
<1>7. /\ IsSeq(history') /\ Len(history') = t /\ DOMAIN history' = 1 .. t
      /\ history'[t] = h2 /\ \A s \in 1 .. t : s # t => history'[s] = history[s]
  <2>1. PICK k : k = history' OBVIOUS
  <2>2. /\ k = [s \in 1 .. t |-> k[s]] /\ k[t] = h2
        /\ \A s \in 1 .. t : s # t => k[s] = history[s]
    BY <1>3, <1>6, <2>1
  <2>3. IsSeq(k) /\ Len(k) = t /\ DOMAIN k = 1 .. t BY <1>3, <2>2, SeqMade
  <2> QED BY <2>1, <2>2, <2>3
<1>8. TextOK(t, F) /\ IsHistory(h) BY <1>2, <1>3, <1>5 DEF TextOK
<1>9. /\ IsHistory(h2) /\ h2.start = h.start
      /\ h2.again <=> (h.again \/ forms[f][n] # None)
      /\ h2.first[n] = (IF h.first[n] = None THEN v ELSE h.first[n])
      /\ (\A x \in Names : x # n => h2.first[x] = h.first[x])
      /\ h2.late = (IF h.again /\ h.first[n] = None THEN h.late \cup {n} ELSE h.late)
  <2>1. \A x, y, z : IsHistory(x) /\ y \in Names /\ z = Remembered(x, y, v) => RememberedAs(x, z, y, v)
    BY RememberedIs
  <2>2. n \in Names OBVIOUS
  <2>3. RememberedAs(h, h2, n, v) BY ONLY <1>5, <1>8, <2>1, <2>2
  <2> QED BY <1>1, <2>3 DEF RememberedAs
<1>10. v # None BY <1>2, ValueIsNotNone
<1>11. PICK old, new : old = forms /\ new = forms' OBVIOUS
<1>12. /\ FormsLike(new) /\ DOMAIN old \subseteq DOMAIN new /\ m2 \in DOMAIN new /\ g \in DOMAIN new
       /\ (\A x \in Names : new[m2][x] = IF x = n THEN v ELSE old[m][x])
       /\ (\A x \in Names : new[g][x] = new[m2][x])
       /\ (\A k \in DOMAIN old, x \in Names :
             \/ new[k][x] = old[k][x]
             \/ x = n /\ old[k][n] = None /\ old[m][n] = None /\ new[k][n] = v)
       /\ (old[m][n] = None => g = f)
  BY <1>1, <1>11 DEF BoundTwice
<1>13. /\ \A x \in Names : old[f][x] = old[m][x]
       /\ \A x \in Names : ~ Has(t, x) => old[F[t]][x] = None /\ old[m][x] = None
       /\ h.again \/ f = F[t]
  BY <1>1, <1>2, <1>4, <1>5, <1>11 DEF CurrentOK
<1>14. \A s \in 1 .. t, x \in Names :
         Has(s, x)' <=> history'[s].start[x] # None \/ history'[s].first[x] # None
  BY DEF Has
<1>15. ASSUME NEW s \in 1 .. t, NEW x \in Names
       PROVE  Has(s, x)' <=> Has(s, x) \/ (s = t /\ x = n)
  <2>1. CASE s # t
    <3>1. history'[s] = history[s] BY <1>7, <2>1
    <3> QED BY <1>14, <2>1, <3>1 DEF Has
  <2>2. CASE s = t
    <3>1. Has(s, x) <=> h.start[x] # None \/ h.first[x] # None BY <1>5, <2>2 DEF Has
    <3>2. Has(s, x)' <=> h.start[x] # None \/ h2.first[x] # None BY <1>7, <1>9, <1>14, <2>2
    <3>3. CASE x = n
      <4>1. h2.first[x] # None BY <1>9, <1>10, <3>3
      <4> QED BY <2>2, <3>2, <3>3, <4>1
    <3>4. CASE x # n
      <4>1. h2.first[x] = h.first[x] BY <1>9, <3>4
      <4> QED BY <3>1, <3>2, <3>4, <4>1
    <3> QED BY <3>3, <3>4
  <2> QED BY <2>1, <2>2
<1>16. \A s \in 1 .. t, x \in Names : Has(s, x) => old[m][x] # None
  BY <1>1, <1>2, <1>3, <1>11 DEF TextOK
<1>17. ASSUME NEW s \in 1 .. t, NEW x \in Names PROVE Has(s, x)' => new[m2][x] # None
  <2>1. CASE x = n BY <1>10, <1>12, <2>1
  <2>2. CASE x # n BY <1>12, <1>15, <1>16, <2>2
  <2> QED BY <2>1, <2>2
<1>18. ASSUME NEW s \in 1 .. t, NEW x \in Names, Has(s, x), NEW k \in DOMAIN old
       PROVE  new[k][x] = old[k][x]
  BY <1>12, <1>16, <1>18
<1>19. ASSUME NEW s \in 1 .. t, s # t PROVE TextOK(s, F)'
  <2>1. /\ IsHistory(history[s]) /\ F[s] \in DOMAIN old
        /\ \A x \in Names :
             /\ history[s].start[x] # None => old[F[s]][x] = history[s].start[x]
             /\ history[s].start[x] = None /\ history[s].first[x] # None =>
                  \/ old[F[s]][x] = history[s].first[x]
                  \/ old[F[s]][x] = None /\ x \in history[s].late
    BY <1>2, <1>3, <1>11 DEF TextOK
  <2>2. history'[s] = history[s] /\ F[s] \in DOMAIN new BY <1>7, <1>12, <1>19, <2>1
  <2>3. \A x \in Names : (history[s].start[x] # None \/ history[s].first[x] # None) =>
                           new[F[s]][x] = old[F[s]][x]
    BY <1>18, <2>1 DEF Has
  <2>4. \A x \in Names : Has(s, x)' => new[m2][x] # None BY <1>17
  <2>5. \A x \in Names :
          /\ history[s].start[x] # None => new[F[s]][x] = history[s].start[x]
          /\ history[s].start[x] = None /\ history[s].first[x] # None =>
               \/ new[F[s]][x] = history[s].first[x]
               \/ new[F[s]][x] = None /\ x \in history[s].late
    BY <2>1, <2>3
  <2> QED BY <1>1, <1>11, <2>1, <2>2, <2>4, <2>5 DEF TextOK
<1>20. /\ F[t] \in DOMAIN old
       /\ \A x \in Names :
            /\ h.start[x] # None => old[F[t]][x] = h.start[x]
            /\ h.start[x] = None /\ h.first[x] # None =>
                 \/ old[F[t]][x] = h.first[x]
                 \/ old[F[t]][x] = None /\ x \in h.late
  BY <1>5, <1>8, <1>11 DEF TextOK
<1>21. TextOK(t, F)'
  <2>1. F[t] \in DOMAIN new BY <1>12, <1>20
  <2>2. ASSUME NEW x \in Names
        PROVE  /\ h2.start[x] # None => new[F[t]][x] = h2.start[x]
               /\ h2.start[x] = None /\ h2.first[x] # None =>
                    \/ new[F[t]][x] = h2.first[x]
                    \/ new[F[t]][x] = None /\ x \in h2.late
    <3>1. Has(t, x) <=> h.start[x] # None \/ h.first[x] # None BY <1>5 DEF Has
    <3>2. Has(t, x) => new[F[t]][x] = old[F[t]][x] BY <1>3, <1>18, <1>20
    <3>3. h.late \subseteq h2.late BY <1>9
    <3>4. CASE Has(t, x)
      <4>1. h.first[x] # None => h2.first[x] = h.first[x] BY <1>9
      <4>2. h.start[x] = None => h.first[x] # None BY <3>1, <3>4
      <4> QED BY <1>9, <1>20, <3>2, <3>3, <3>4, <4>1, <4>2
    <3>5. CASE ~ Has(t, x) /\ x # n BY <1>9, <3>1, <3>5
    <3>6. CASE ~ Has(t, x) /\ x = n
      <4>1. h.first[n] = None /\ h.start[n] = None /\ old[F[t]][n] = None /\ old[m][n] = None
        BY <1>13, <3>1, <3>6
      <4>2. h2.first[n] = v BY <1>9, <4>1
      <4>3. CASE h.again
        <5>1. n \in h2.late BY <1>9, <4>1, <4>3
        <5>2. new[F[t]][n] = None \/ new[F[t]][n] = v BY <1>12, <1>20, <4>1
        <5> QED BY <1>9, <3>6, <4>1, <4>2, <5>1, <5>2
      <4>4. CASE ~ h.again
        <5>1. f = F[t] /\ g = f BY <1>12, <1>13, <4>1, <4>4
        <5>2. new[F[t]][n] = v BY <1>12, <5>1
        <5> QED BY <1>9, <3>6, <4>1, <4>2, <5>2
      <4> QED BY <4>3, <4>4
    <3> QED BY <3>4, <3>5, <3>6
  <2>3. \A x \in Names : Has(t, x)' => new[m2][x] # None BY <1>3, <1>17
  <2> QED BY <1>1, <1>7, <1>9, <1>11, <2>1, <2>2, <2>3 DEF TextOK
<1>22. CurrentOK(F)'
  <2>1. \A x \in Names : ~ Has(t, x)' => new[F[t]][x] = None /\ new[m2][x] = None
    <3>1. ASSUME NEW x \in Names, ~ Has(t, x)' PROVE new[F[t]][x] = None /\ new[m2][x] = None
      <4>1. ~ Has(t, x) /\ x # n BY <1>3, <1>15, <3>1
      <4>2. old[F[t]][x] = None /\ old[m][x] = None BY <1>13, <4>1
      <4> QED BY <1>12, <1>20, <4>1, <4>2
    <3> QED BY <3>1
  <2>2. h2.again \/ g = F[t]
    <3>1. CASE h2.again BY <3>1
    <3>2. CASE ~ h2.again
      <4>1. ~ h.again /\ old[m][n] = None BY <1>9, <1>11, <1>13, <3>2
      <4> QED BY <1>12, <1>13, <4>1
    <3> QED BY <3>1, <3>2
  <2>3. history' # <<>> BY <1>3, <1>7, SeqEmpty
  <2>4. /\ mode' = "run" /\ Len(history') = t /\ history'[t] = h2 /\ inTopLevel'
        /\ frames'[1].mWorkspace = g /\ forms' = new /\ mWorkspace' = m2
    BY <1>1, <1>7, <1>11
  <2>5. \A x \in Names : new[g][x] = new[m2][x] BY <1>12
  <2> QED BY <2>1, <2>2, <2>3, <2>4, <2>5 DEF CurrentOK
<1>23. FormsOK(F)'
  <2>1. \A s \in 1 .. t : TextOK(s, F)' BY <1>19, <1>21
  <2>2. /\ IsSeq(new) /\ (\A k \in DOMAIN new : new[k] = [x \in Names |-> new[k][x]])
        /\ \A k \in DOMAIN new, x \in Names : new[k][x] = None \/ IsValue(new[k][x])
    BY <1>12 DEF FormsLike
  <2>3. (\A k \in DOMAIN forms, x \in Names : forms[k][x] = None \/ IsValue(forms[k][x]))'
    BY <1>11, <2>2 DEF IsValue
  <2> QED BY <1>1, <1>2, <1>7, <1>11, <1>12, <1>22, <2>1, <2>2, <2>3 DEF FormsOK
<1>24. HasStays BY <1>3, <1>15 DEF HasStays
<1> QED BY <1>1, <1>3, <1>7, <1>15, <1>23, <1>24

(* A frame moves on when the text has bound the name.                      *)
LEMMA GlobalBound ==
  ASSUME NEW fr, NEW w, FrameFits(fr, w)', fr.pc <= Len(fr.code),
         fr.code[fr.pc].op = "BindWorkspaceVar", Has(w.def.text, fr.code[fr.pc].name)',
         NEW fr2, IsFrame(fr2), fr2.pc = fr.pc + 1, fr2.code = fr.code,
         fr2.mLocals = fr.mLocals, fr2.mVars = fr.mVars, fr2.text = fr.text, fr2.env = fr.env
  PROVE  FrameFits(fr2, w)'
<1>1. fr.pc \in 1 .. (Len(fr.code) + 1) /\ fr.code = w.def.code BY DEF FrameFits
<1>2. fr.pc \in Nat \ {0} BY <1>1
<1>3. fr2.pc \in 1 .. (Len(fr2.code) + 1)
  <2>1. Len(fr.code) \in Int
    <3>1. CASE Len(fr.code) \in Int BY <3>1
    <3> QED BY <1>1
  <2> QED BY <1>1, <2>1
<1>4. \A n : /\ LocalAt(w, n, fr2.pc) <=> LocalAt(w, n, fr.pc)
             /\ BoundAt(w, n, fr2.pc) <=> BoundAt(w, n, fr.pc)
             /\ n # fr.code[fr.pc].name => (GlobalAt(w, n, fr2.pc) <=> GlobalAt(w, n, fr.pc))
  BY <1>1, <1>2, BoundNext
<1>5. \A n \in Names : GlobalAt(w, n, fr2.pc) => Has(w.def.text, n)'
  BY <1>4 DEF FrameFits
<1> QED BY <1>3, <1>4, <1>5 DEF FrameFits

(* The functions go on to fit. *)
LEMMA FunsGoOn ==
  ASSUME NEW W, NEW F, Parts(W, F), UNCHANGED funs, HasStays
  PROVE  FunsOK(W)'
<1>1. IsSeq(funs) /\ \A i \in DOMAIN funs : \E w \in W : FunFits(funs[i], w) BY DEF Parts, FunsOK
<1>2. ASSUME NEW f, NEW w \in W, FunFits(f, w) PROVE FunFits(f, w)'
  <2>1. w.def.text \in DOMAIN history /\ w.globals \subseteq Names
    BY TextBegan DEF Parts, Typed, Shaped
  <2>2. \A v : IsValue(v) => IsValue(v)' BY DEF IsValue
  <2> QED BY <1>2, <2>1, <2>2 DEF FunFits, HasStays
<1> QED BY <1>1, <1>2 DEF FunsOK

(* The text that binds a name is alone, and its form is the current one.   *)
LEMMA TextBinds ==
  ASSUME NEW W, NEW F, Parts(W, F), mode = "run", Top.pc <= Len(Top.code),
         Fetch.op = "BindWorkspaceVar"
  PROVE  /\ Fetch.name \in Names /\ inTopLevel /\ Len(frames) = 1
         /\ \A x \in Names : forms[Top.mWorkspace][x] = forms[mWorkspace][x]
         /\ FormsLike(forms) /\ mWorkspace \in DOMAIN forms /\ Top.mWorkspace \in DOMAIN forms
         /\ \E w \in W : FrameFits(Top, w) /\ w.def.text = Len(history)
<1>1. PICK N : N = Len(frames) OBVIOUS
<1>2. PICK w \in W : /\ FrameFits(Top, w) /\ Typed(w, W, F) /\ (w.top => OfText(N))
  BY <1>1, TopFits
<1>3. Fits(w, W, Top.pc) /\ Fetch = w.def.code[Top.pc] BY <1>2, FetchIs
<1>4. Fetch.name \in Names /\ w.top BY <1>3 DEF Fits, GlobalFits
<1>5. N = 1 /\ inTopLevel BY <1>2, <1>4 DEF OfText
<1>6. Top = frames[1] /\ FrameOK(1, W) /\ frames[1].text = Len(history) BY <1>1, <1>5, RunningFacts
<1>7. FormsOK(F) /\ CurrentOK(F) BY DEF Parts, FormsOK
<1>8. \A x \in Names : forms[Top.mWorkspace][x] = forms[mWorkspace][x]
  BY <1>5, <1>6, <1>7 DEF CurrentOK
<1>9. FormsLike(forms) /\ mWorkspace \in DOMAIN forms BY <1>7 DEF FormsOK, FormsLike
<1>10. Top.mWorkspace \in DOMAIN forms BY <1>6 DEF FrameOK
<1>11. w.def.text = Len(history) BY <1>2, <1>6 DEF FrameFits
<1> QED BY <1>1, <1>2, <1>4, <1>5, <1>8, <1>9, <1>10, <1>11

LEMMA BindWorkspaceVarKeeps ==
  ASSUME NEW W, NEW F, Parts(W, F), BindWorkspaceVar
  PROVE  Parts(W, F)'
<1>1. /\ mode = "run" /\ Top.pc <= Len(Top.code) /\ Fetch.op = "BindWorkspaceVar"
      /\ UNCHANGED <<compiling, funs, tokens>>
  BY DEF BindWorkspaceVar, Running
<1>2. CASE Len(stack) = Top.stackBase
  <2>1. Throw /\ UNCHANGED <<forms, mWorkspace, history>> BY <1>2 DEF BindWorkspaceVar
  <2> QED BY <1>1, <2>1, ThrowKeeps
<1>3. CASE Len(stack) # Top.stackBase
  <2>1. PICK v, l, n : v = Last(stack) /\ l = Len(stack) /\ n = Fetch.name OBVIOUS
  <2>2. /\ stack' = Front(stack) /\ mode' = mode /\ PutTwice(n, v)
        /\ history' = [history EXCEPT ![Len(history)] = Remembered(@, n, v)]
    BY <1>3, <2>1 DEF BindWorkspaceVar
  <2>3. /\ IsSeq(stack) /\ l \in Nat /\ DOMAIN stack = 1 .. l /\ IsSeq(funs)
        /\ (\A i \in DOMAIN stack : IsValue(stack[i])) /\ Top.stackBase \in 0 .. l
    BY <1>1, <2>1, RunningFacts
  <2>4. l > 0 /\ l - 1 >= Top.stackBase BY <1>3, <2>1, <2>3
  <2>5. stack # <<>> BY <2>1, <2>4, SeqEmpty
  <2>6. /\ v = stack[l] /\ IsSeq(stack') /\ Len(stack') = l - 1
        /\ \A i \in 1 .. (l - 1) : stack'[i] = stack[i]
    BY <2>1, <2>2, <2>3, <2>5, SeqFront
  <2>7. IsValue(v) BY <2>3, <2>4, <2>6
  <2>8. (\A i \in DOMAIN stack : IsValue(stack[i]))'
    <3>1. DOMAIN stack' = 1 .. (l - 1) BY <2>6, SeqIs
    <3>2. \A i \in DOMAIN stack' : IsValue(stack'[i]) BY <2>3, <2>6, <3>1
    <3> QED BY <1>1, <3>2 DEF IsValue
  <2>9. /\ n \in Names /\ inTopLevel /\ Len(frames) = 1
        /\ (\A x \in Names : forms[Top.mWorkspace][x] = forms[mWorkspace][x])
        /\ FormsLike(forms) /\ mWorkspace \in DOMAIN forms /\ Top.mWorkspace \in DOMAIN forms
    BY <1>1, <2>1, TextBinds
  <2>10. PICK w \in W : FrameFits(Top, w) /\ w.def.text = Len(history) BY <1>1, TextBinds
  <2>11. PICK g : BoundTwice(n, v, g) /\ frames' = [Advanced EXCEPT ![Len(frames)].mWorkspace = g]
    BY <2>2, <2>3, <2>7, <2>9, PutTwiceIs
  <2>12. PICK a, b, fr, fr2 : a = Advanced /\ b = frames' /\ fr = Top /\ fr2 = b[1] OBVIOUS
  <2>13. Advances(a, 1) BY <1>1, <2>9, <2>12, AdvancedIs
  <2>14. fr = frames[1] BY <2>9, <2>12 DEF Top, Last
  <2>15. /\ a = [i \in 1 .. 1 |-> a[i]] /\ IsFrame(a[1]) /\ a[1].pc = fr.pc + 1
         /\ a[1].code = fr.code /\ a[1].stackBase = fr.stackBase /\ a[1].mLocals = fr.mLocals
         /\ a[1].mVars = fr.mVars /\ a[1].text = fr.text /\ a[1].env = fr.env
    <3>1. IsSeq(a) /\ Len(a) = 1 BY <2>13 DEF Advances
    <3>2. a = [i \in 1 .. 1 |-> a[i]] BY <3>1, SeqIsFunction
    <3> QED BY <2>13, <2>14, <3>2 DEF Advances
  <2>16. b = [i \in 1 .. 1 |-> b[i]] /\ fr2 = [a[1] EXCEPT !.mWorkspace = g]
    <3>1. PICK r : r = [a[1] EXCEPT !.mWorkspace = g] OBVIOUS
    <3>2. b = [a EXCEPT ![1] = r] BY <2>9, <2>11, <2>12, <3>1
    <3>3. a = [i \in 1 .. 1 |-> a[i]] BY <2>15
    <3>4. b[1] = r BY ONLY <3>2, <3>3
    <3>5. b = [i \in 1 .. 1 |-> b[i]] BY ONLY <3>2, <3>3
    <3> QED BY <2>12, <3>1, <3>4, <3>5
  <2>17. /\ IsFrame(fr2) /\ fr2.pc = fr.pc + 1 /\ fr2.code = fr.code
         /\ fr2.stackBase = fr.stackBase /\ fr2.mVars = fr.mVars /\ fr2.mLocals = fr.mLocals
         /\ fr2.text = fr.text /\ fr2.env = fr.env /\ fr2.mWorkspace = g
    <3>1. PICK x : x = a[1] OBVIOUS
    <3>2. /\ IsFrame(x) /\ fr2 = [x EXCEPT !.mWorkspace = g]
          /\ DOMAIN x = {"code", "pc", "stackBase", "mLocals", "mVars", "mWorkspace", "text", "env"}
      BY <2>15, <2>16, <3>1, FrameFields
    <3>3. /\ IsFrame(fr2) /\ fr2.pc = x.pc /\ fr2.code = x.code
          /\ fr2.stackBase = x.stackBase /\ fr2.mVars = x.mVars /\ fr2.mLocals = x.mLocals
          /\ fr2.text = x.text /\ fr2.env = x.env /\ fr2.mWorkspace = g
      BY ONLY <3>2 DEF IsFrame
    <3> QED BY <2>15, <3>1, <3>3
  <2>18. Moves(b, 1)
    <3>1. IsSeq(b) /\ Len(b) = 1 /\ DOMAIN b = 1 .. 1 BY <2>16, SeqMade
    <3>2. \A i \in 1 .. 1 : i # 1 => b[i] = frames[i] OBVIOUS
    <3> QED BY <2>12, <2>14, <2>17, <3>1, <3>2 DEF Moves
  <2>19. frames'[1].mWorkspace = g BY <2>12, <2>17
  <2>20. /\ FormsOK(F)' /\ HasStays /\ Has(Len(history), n)' /\ Len(history') = Len(history)
    BY <1>1, <2>2, <2>7, <2>9, <2>11, <2>19, TextsBound DEF compiling
  <2>21. Nested' /\ IsSeq(frames') /\ DOMAIN frames' = 1 .. 1 /\ frames' # <<>>
    BY <1>1, <2>1, <2>4, <2>6, <2>9, <2>12, <2>18, <2>20, NestedMoves
  <2>22. FrameFits(fr2, w)'
    <3>1. w.def.text \in DOMAIN history BY TextBegan
    <3>2. FrameFits(fr, w)' BY <1>1, <2>10, <2>12, <2>20, <3>1, FitsStays
    <3>3. /\ fr.code[fr.pc].op = "BindWorkspaceVar" /\ fr.code[fr.pc].name = n
          /\ fr.pc <= Len(fr.code)
      BY <1>1, <2>1, <2>12 DEF Fetch
    <3>4. Has(w.def.text, n)'
      <4>1. PICK t : t = w.def.text OBVIOUS
      <4>2. Has(t, n)' BY <2>10, <2>20, <4>1 DEF Has
      <4> QED BY <4>1, <4>2
    <3>5. Has(w.def.text, fr.code[fr.pc].name)' BY <3>3, <3>4
    <3> QED BY <2>17, <3>2, <3>3, <3>5, GlobalBound
  <2>23. FrameOK(1, W)'
    <3>1. OfText(1)' BY <1>1, <2>9 DEF OfText, compiling
    <3>2. frames'[1] = fr2 BY <2>12
    <3>3. g \in DOMAIN forms' BY <2>11 DEF BoundTwice
    <3> QED BY <2>17, <2>22, <3>1, <3>2, <3>3 DEF FrameOK
  <2>24. FramesOK(W)' BY <2>21, <2>23 DEF FramesOK
  <2>25. PushRun'
    <3>1. Top' = fr2 BY <2>12, <2>18 DEF Top, Last, Moves
    <3>2. fr.pc \in Nat \ {0} BY <2>10, <2>12 DEF FrameFits
    <3>3. fr2.pc - 1 = fr.pc /\ fr2.code = fr.code BY <2>17, <3>2
    <3>4. fr2.code[fr2.pc - 1].op \notin Pushes BY <1>1, <2>12, <3>3 DEF Fetch, Pushes
    <3>5. \A d \in 1 .. (fr2.pc - 1) : 1 \in 1 .. d OBVIOUS
    <3> QED BY <3>1, <3>4, <3>5 DEF PushRun
  <2>26. ModesOK'
    <3>1. ModesOK BY DEF Parts
    <3> QED BY <1>1, <2>2, <2>6, <2>8, <2>21, <3>1 DEF ModesOK, compiling
  <2>27. ScopesOK(W, F)' BY <1>1, <2>2 DEF ScopesOK
  <2>28. FunsOK(W)' BY <1>1, <2>20, FunsGoOn
  <2>29. \A w2 \in W : Typed(w2, W, F) BY DEF Parts
  <2> QED BY <2>20, <2>24, <2>25, <2>26, <2>27, <2>28, <2>29 DEF Parts
<1> QED BY <1>2, <1>3

-----------------------------------------------------------------------------
(* The invariant.                                                          *)

LEMMA InitInv == Init => Inv
<1> SUFFICES ASSUME Init PROVE Parts({}, <<>>)
  BY DEF Inv
<1>1. PICK known \in SUBSET Known :
        forms = <<[n \in Names |-> IF n \in known THEN Number(0) ELSE None]>>
  BY DEF Init
<1>2. PICK e, f : e = <<>> /\ f = [n \in Names |-> IF n \in known THEN Number(0) ELSE None] OBVIOUS
<1>3. /\ mode = "prompt" /\ inTopLevel = TRUE /\ scopes = e /\ mWorkspaceVars = {}
      /\ frames = e /\ stack = e /\ funs = e /\ forms = <<f>>
      /\ mWorkspace = 1 /\ history = e /\ tokens = 0
  BY <1>1, <1>2 DEF Init
<1>4. IsSeq(e) /\ Len(e) = 0 /\ DOMAIN e = {} /\ e = <<>>
  <2>1. Len(e) = 0 BY <1>2
  <2>2. IsSeq(e)
    <3>1. <<>> \in Seq({}) OBVIOUS
    <3> QED BY <1>2, <3>1 DEF IsSeq
  <2> QED BY <1>2, <2>1, <2>2, SeqIs
<1>5. IsSeq(forms) /\ DOMAIN forms = 1 .. 1 /\ forms[1] = f
  <2>1. forms = [i \in 1 .. 1 |-> forms[i]] /\ forms[1] = f BY <1>3
  <2> QED BY <2>1, SeqMade
<1>6. MaxTokens \in Nat BY ClosuresAssumption
<1>7. ModesOK
  <2>1. tokens \in 0 .. MaxTokens BY <1>3, <1>6
  <2> QED BY <1>3, <1>4, <2>1 DEF ModesOK
<1>8. ScopesOK({}, e) /\ FunsOK({}) /\ FramesOK({}) /\ PushRun
  BY <1>3, <1>4 DEF ScopesOK, FunsOK, FramesOK, Nested, PushRun
<1>9. FormsOK(e)
  <2>1. IsValue(Number(0)) BY <1>6 DEF IsValue
  <2>2. f = [n \in Names |-> f[n]] /\ \A n \in Names : f[n] = None \/ IsValue(f[n])
    BY <1>2, <2>1
  <2>3. CurrentOK(e) BY <1>3 DEF CurrentOK
  <2>4. /\ \A g \in DOMAIN forms : forms[g] = [n \in Names |-> forms[g][n]]
        /\ \A g \in DOMAIN forms, n \in Names : forms[g][n] = None \/ IsValue(forms[g][n])
    BY <1>5, <2>2
  <2> QED BY <1>3, <1>4, <1>5, <2>3, <2>4 DEF FormsOK
<1> QED BY <1>4, <1>7, <1>8, <1>9 DEF Parts

LEMMA StutterKeeps ==
  ASSUME NEW W, NEW F, Parts(W, F), UNCHANGED vars
  PROVE  Parts(W, F)'
<1>1. UNCHANGED <<mode, inTopLevel, scopes, mWorkspaceVars, frames, stack, funs, forms, mWorkspace,
                  history, tokens>>
  BY DEF vars
<1>2. UNCHANGED <<compiling, running>> BY <1>1 DEF compiling, running
<1>3. /\ ModesOK /\ ScopesOK(W, F) /\ FunsOK(W) /\ FramesOK(W) /\ PushRun /\ FormsOK(F)
      /\ \A w \in W : Typed(w, W, F)
  BY DEF Parts
<1>4. ModesOK' BY <1>1, <1>3 DEF ModesOK, IsValue
<1>5. ScopesOK(W, F)'
  BY <1>1, <1>3, SMTT(30) DEF ScopesOK, ScopeOK, ScopeTyping, KnownTo, GlobalTo, NewFunDef, Level,
                    TextLevel, InWorkspace
<1>6. FunsOK(W)' BY <1>1, <1>3, FunsStay
<1>7. FramesOK(W)'
  <2>1. \A v : IsValue(v)' <=> IsValue(v) BY <1>1 DEF IsValue
  <2>2. \A t, n : Has(t, n)' <=> Has(t, n) BY <1>1 DEF Has
  <2>3. \A fr, w : FrameFits(fr, w)' <=> FrameFits(fr, w) BY <2>1, <2>2 DEF FrameFits
  <2>4. \A i : FrameOK(i, W)' <=> FrameOK(i, W) BY <1>1, <2>3 DEF FrameOK, OfText
  <2>5. Nested' BY <1>1, <1>3 DEF FramesOK, Nested
  <2> QED BY <1>1, <1>3, <2>4, <2>5 DEF FramesOK
<1>8. PushRun' BY <1>1, <1>3 DEF PushRun, Top
<1>9. FormsOK(F)'
  <2>1. CurrentOK(F)' BY <1>1, <1>3 DEF FormsOK, CurrentOK, Has
  <2> QED BY <1>1, <1>3, <2>1, FormsStay
<1> QED BY <1>3, <1>4, <1>5, <1>6, <1>7, <1>8, <1>9 DEF Parts

LEMMA NextInv == Inv /\ [Next]_vars => Inv'
<1> SUFFICES ASSUME Inv, [Next]_vars PROVE Inv'
  OBVIOUS
<1>1. PICK W, F : Parts(W, F) BY DEF Inv
<1>2. \A W2, F2 : Parts(W2, F2)' => Inv' BY DEF Inv
<1>3. CASE Begin BY <1>1, <1>2, <1>3, BeginKeeps
<1>4. CASE ParseWord BY <1>1, <1>2, <1>4, ParseWordKeeps
<1>5. CASE ParseBindTop BY <1>1, <1>2, <1>5, ParseBindTopKeeps
<1>6. CASE ParseBindInner BY <1>1, <1>2, <1>6, ParseBindInnerKeeps
<1>7. CASE ParseLambda BY <1>1, <1>2, <1>7, ParseLambdaKeeps
<1>8. CASE ParseLambdaEnd BY <1>1, <1>2, <1>8, ParseLambdaEndKeeps
<1>9. CASE EndText BY <1>1, <1>2, <1>9, EndTextKeeps
<1>10. CASE EndTooSoon BY <1>1, <1>2, <1>10, EndTooSoonKeeps
<1>11. CASE Call BY <1>1, <1>2, <1>11, CallKeeps
<1>12. CASE Push BY <1>1, <1>2, <1>12, PushKeeps
<1>13. CASE Apply BY <1>1, <1>2, <1>13, ApplyKeeps
<1>14. CASE PushFun BY <1>1, <1>2, <1>14, PushFunKeeps
<1>15. CASE BindLocal BY <1>1, <1>2, <1>15, BindLocalKeeps
<1>16. CASE BindWorkspaceVar BY <1>1, <1>2, <1>16, BindWorkspaceVarKeeps
<1>17. CASE Return BY <1>1, <1>2, <1>17, ReturnKeeps
<1>18. CASE UNCHANGED vars BY <1>1, <1>2, <1>18, StutterKeeps
<1> QED BY <1>3, <1>4, <1>5, <1>6, <1>7, <1>8, <1>9, <1>10, <1>11, <1>12, <1>13, <1>14, <1>15,
           <1>16, <1>17, <1>18 DEF Next, Parse, Run

-----------------------------------------------------------------------------
(* What the invariant says of the words.                                   *)

LEMMA InvTypes == Inv => TypeOK
<1> SUFFICES ASSUME NEW W, NEW F, Parts(W, F) PROVE TypeOK
  BY DEF Inv
<1>1. ModesOK /\ FormsOK(F) /\ (\A i \in DOMAIN frames : FrameOK(i, W)) BY DEF Parts, FramesOK
<1>2. ASSUME NEW i \in DOMAIN frames
      PROVE  /\ frames[i].pc \in 1 .. (Len(frames[i].code) + 1)
             /\ frames[i].mWorkspace \in DOMAIN forms
             /\ \A j \in DOMAIN frames[i].mVars : IsValue(frames[i].mVars[j])
  <2>1. PICK fr : fr = frames[i] OBVIOUS
  <2>2. PICK w \in W : FrameFits(fr, w) /\ fr.mWorkspace \in DOMAIN forms
    BY <1>1, <2>1 DEF FrameOK
  <2>3. fr.pc \in 1 .. (Len(fr.code) + 1) BY <2>2 DEF FrameFits
  <2>4. /\ w.vars \in Seq(Names)
        /\ \A k \in DOMAIN w.vars : w.vars[k] \in w.known /\ w.vars[k] \in Names
    BY DEF Parts, Typed, Shaped
  <2>5. DOMAIN fr.mVars = DOMAIN w.vars
    <3>1. IsSeq(fr.mVars) /\ Len(fr.mVars) = Len(w.vars) BY <2>2 DEF FrameFits
    <3>2. IsSeq(w.vars) BY <2>4, NameSeq
    <3> QED BY <3>1, <3>2, SeqIs
  <2>6. \A k \in DOMAIN w.vars : BoundAt(w, w.vars[k], fr.pc) BY <2>4 DEF BoundAt
  <2>7. \A k \in DOMAIN w.vars : IsValue(fr.mVars[k]) BY <2>2, <2>4, <2>6 DEF FrameFits
  <2> QED BY <2>1, <2>2, <2>3, <2>5, <2>7
<1> QED BY <1>1, <1>2 DEF TypeOK, ModesOK, FormsOK

LEMMA InvWords == Inv => WordsMean
<1> SUFFICES ASSUME NEW W, NEW F, Parts(W, F) PROVE WordsMean
  BY DEF Inv
<1>1. ASSUME NEW op \in Locals \cup FunVars, Running(op)
      PROVE  /\ Fetch.slot \in DOMAIN (IF op \in Locals THEN Top.mLocals ELSE Top.mVars)
             /\ Top.env[Fetch.name] # None /\ Value(Fetch) = Top.env[Fetch.name]
  <2>1. mode = "run" /\ Top.pc <= Len(Top.code) /\ Fetch.op = op BY <1>1 DEF Running
  <2>2. CASE op \in Locals
    <3>1. Fetch.slot \in DOMAIN Top.mLocals /\ Top.env[Fetch.name] # None
          /\ Value(Fetch) = Top.env[Fetch.name]
      BY <2>1, <2>2, WordIs
    <3> QED BY <2>2, <3>1
  <2>3. CASE op \notin Locals
    <3>1. Fetch.slot \in DOMAIN Top.mVars /\ Top.env[Fetch.name] # None
          /\ Value(Fetch) = Top.env[Fetch.name]
      BY <2>1, <2>3, WordIs
    <3> QED BY <2>3, <3>1
  <2> QED BY <2>2, <2>3
<1>2. ASSUME NEW op \in {"CallWorkspaceVar"} \cup Constants, Running(op), Fetch.name # None
      PROVE  Top.env[Fetch.name] = None
  <2>1. mode = "run" /\ Top.pc <= Len(Top.code) /\ Fetch.op = op BY <1>2 DEF Running
  <2> QED BY <1>2, <2>1, WordIs
<1> QED BY <1>1, <1>2 DEF WordsMean

LEMMA InvGlobals == Inv => GlobalsMean
<1> SUFFICES ASSUME NEW W, NEW F, Parts(W, F), Running("CallWorkspaceVar") PROVE GlobalsMean
  BY DEF Inv, GlobalsMean
<1>1. mode = "run" /\ Top.pc <= Len(Top.code) /\ Fetch.op = "CallWorkspaceVar" BY DEF Running
<1>2. PICK n, v, t, N : n = Fetch.name /\ v = Value(Fetch) /\ t = Top.text /\ N = Len(frames)
  OBVIOUS
<1>3. n \in Names /\ v = forms[Top.mWorkspace][n] BY <1>1, <1>2, WordIs
<1>4. PICK w \in W : /\ FrameFits(Top, w) /\ Typed(w, W, F)
                     /\ (~ OfText(N) => Top.mWorkspace = w.def.mWorkspace)
  BY <1>1, <1>2, TopFits
<1>5. Fits(w, W, Top.pc) /\ Fetch = w.def.code[Top.pc] BY <1>1, <1>4, FetchIs
<1>6. GlobalAt(w, n, Top.pc) BY <1>1, <1>2, <1>5 DEF Fits, GlobalFits
<1>7. Has(t, n) /\ t = w.def.text BY <1>2, <1>3, <1>4, <1>6 DEF FrameFits
<1>8. t \in DOMAIN history /\ w.def.mWorkspace = F[t] BY <1>7, TextBegan
<1>9. TextOK(t, F) /\ CurrentOK(F) BY <1>8 DEF Parts, FormsOK
<1>10. CASE N = 1 /\ inTopLevel
  <2>1. Top = frames[1] BY <1>2, <1>10 DEF Top, Last
  <2>2. forms[frames[1].mWorkspace][n] = forms[mWorkspace][n] BY <1>1, <1>3, <1>9, <1>10 DEF CurrentOK
  <2>3. forms[mWorkspace][n] # None BY <1>3, <1>7, <1>9 DEF TextOK
  <2> QED BY <1>2, <1>3, <1>10, <2>1, <2>2, <2>3 DEF GlobalsMean
<1>11. CASE ~ (N = 1 /\ inTopLevel)
  <2>1. v = forms[F[t]][n] BY <1>3, <1>4, <1>8, <1>11 DEF OfText
  <2>2. PICK h : h = history[t] OBVIOUS
  <2>3. /\ h.start[n] # None => v = h.start[n]
        /\ h.start[n] = None /\ h.first[n] # None => v = h.first[n] \/ (v = None /\ n \in h.late)
    BY <1>3, <1>9, <2>1, <2>2 DEF TextOK
  <2>4. h.start[n] # None \/ h.first[n] # None BY <1>7, <2>2 DEF Has
  <2> QED BY <1>2, <1>11, <2>2, <2>3, <2>4 DEF GlobalsMean
<1> QED BY <1>10, <1>11

-----------------------------------------------------------------------------
(* The scopes, the code that is made of them and what runs it are as they  *)
(* should be: what is on the stack, what a function has captured and what  *)
(* the forms bind are values, and no frame runs past the end of its code   *)
(* (Thread::compile, Fun::run).                                            *)
THEOREM TypesAreCorrect == Spec => []TypeOK
<1>1. Inv => TypeOK BY InvTypes
<1> QED BY <1>1, InitInv, NextInv, PTL DEF Spec

(* Whatever the text, however deep its functions are in one another and    *)
(* wherever a function is taken before it runs: a word that the compiler   *)
(* has made a variable finds in its slot what the nearest variable of that *)
(* name is bound to, and one it has not made a variable is none            *)
(* (CompileScope::directLookup, indirectLookup, innerBindVar, Fun::Fun).   *)
THEOREM WordsMeanTheNearest == Spec => []WordsMean
<1>1. Inv => WordsMean BY InvWords
<1> QED BY <1>1, InitInv, NextInv, PTL DEF Spec

(* A top level name means in the text itself what it was bound to last, in *)
(* a function what it was bound to before the text, or else what the text  *)
(* bound it to first, whichever forms share the subtrees that putImpure    *)
(* adds to (TopCompileScope, opBindWorkspaceVar, Fun::run).                *)
THEOREM GlobalsMeanTheText == Spec => []GlobalsMean
<1>1. Inv => GlobalsMean BY InvGlobals
<1> QED BY <1>1, InitInv, NextInv, PTL DEF Spec

=============================================================================
