------------------------------ MODULE Machine ------------------------------
(***************************************************************************)
(* A thread of the virtual machine: the value stack and the local          *)
(* variables, whose bases the nested scopes move (PushFunContext,          *)
(* SaveStack, ParenStack), and the C++ frames that put them back when code *)
(* returns and when an exception passes.                                   *)
(*                                                                         *)
(* The code of a function is any sequence of the operations below.  A      *)
(* frame also records, for the properties, what the stack held below its   *)
(* base and the local variables of its callers.                            *)
(***************************************************************************)
EXTENDS Integers, Sequences

CONSTANTS
  Values,    (* what programs push                                         *)
  Zero,      (* the number 0, the value of a fresh local variable          *)
  Aggregate, (* the list that [...] makes, or the receiver of a message    *)
  Funs,      (* functions                                                  *)
  Main,      (* the function compiled from a line of input                 *)
  NumArgs, NumLocals, (* of functions; arguments are local variables       *)
  Takes,     (* how many arguments primitives take                         *)
  MaxStack,  (* bound: the depth of the value stack                        *)
  MaxFrames  (* bound: the depth of the C++ stack                          *)

ASSUME MachineAssumption ==
  /\ Main \notin Funs /\ Takes \subseteq Nat /\ {MaxStack, MaxFrames} \subseteq Nat
  /\ NumArgs \in [Funs \cup {Main} -> Nat] /\ NumLocals \in [Funs \cup {Main} -> Nat]
  /\ \A f \in Funs \cup {Main} : NumArgs[f] <= NumLocals[f]
  /\ NumLocals[Main] = 0

VARIABLES
  stack, stackBase, local, localBase, fun, (* of Thread                    *)
  frames,    (* the C++ frames                                             *)
  mode,      (* "idle" at the prompt, "run", "throw" during an exception,  *)
             (* "undefined" when memory outside the stack is touched or    *)
             (* its depth wraps around                                     *)
  threw,     (* the prompt (0) and the loads (by frame) in which something *)
             (* has been thrown outside any try                            *)
  overdrawn  (* a message has reached below the base of its sender         *)

vars == <<stack, stackBase, local, localBase, fun, frames, mode, threw, overdrawn>>
locals == <<local, localBase, fun>>

AllValues == Values \cup {Zero, Aggregate}
Functions == Funs \cup {Main}

Init ==
  /\ stack = <<>> /\ stackBase = 0 /\ local = <<>> /\ localBase = 0
  /\ fun = Main /\ frames = <<>> /\ mode = "idle"
  /\ threw = {} /\ overdrawn = FALSE

-----------------------------------------------------------------------------
Depth == Len(stack) - stackBase
Wrapped == Depth < 0 (* stackDepth is unsigned *)
First(s, n) == SubSeq(s, 1, IF n <= Len(s) THEN n ELSE Len(s))
Popped(n) == First(stack, Len(stack) - n)
Last(s, n) == SubSeq(s, Len(s) - n + 1, Len(s))

Top == frames[Len(frames)]
Outer == First(frames, Len(frames) - 1)
RunsCode == mode = "run" /\ Top.kind \in {"fun", "paren", "list"}

Frame(kind, base) ==
  [kind |-> kind, base |-> stackBase, lbase |-> localBase, fun |-> fun,
   below |-> First(stack, base), callers |-> local]
(* What an exception will be caught by in the end: load, or the prompt. *)
Level == LET loads == {i \in 1 .. Len(frames) : frames[i].kind = "load"}
         IN  IF loads = {} THEN 0 ELSE CHOOSE i \in loads : \A j \in loads : j <= i
(* Something throws in the frames fs.  Where a try is on the way of the     *)
(* exception, what its help says leaves open whether it arrives.           *)
RaiseIn(fs) ==
  /\ mode' = "throw"
  /\ threw' = IF \E i \in Level + 1 .. Len(fs) : fs[i].kind = "try" THEN threw
              ELSE threw \cup {Level}
Raise == RaiseIn(frames)
Throw ==
  /\ RunsCode /\ Raise
  /\ UNCHANGED <<stack, stackBase, local, localBase, fun, frames, overdrawn>>
Go == mode' = "run" /\ UNCHANGED <<threw, overdrawn>>

-----------------------------------------------------------------------------
(* Operations that stay in the frame                                       *)

PushImmediate ==
  /\ RunsCode /\ Len(stack) < MaxStack
  /\ \E v \in Values : stack' = Append(stack, v)
  /\ Go /\ UNCHANGED <<stackBase, locals, frames>>

AlwaysEnough(n) == Len(stack) >= n                               (* mutant *)
Enough(n) == Depth >= n

(* A primitive of n arguments and one result; apply_n checks the depth.    *)
ApplyPrim(n) ==
  /\ RunsCode
  /\ IF Enough(n)
     THEN /\ stack' = Append(Popped(n), Zero)
          /\ Go /\ UNCHANGED <<stackBase, locals, frames>>
     ELSE Throw

Clear ==
  /\ RunsCode
  /\ stack' = First(stack, stackBase)
  /\ Go /\ UNCHANGED <<stackBase, locals, frames>>

Variables == 1 .. NumLocals[fun]
PushLocal ==
  /\ RunsCode /\ Len(stack) < MaxStack
  /\ \E i \in Variables : stack' = Append(stack, local[localBase + i])
  /\ Go /\ UNCHANGED <<stackBase, locals, frames>>

BindLocal ==
  /\ RunsCode /\ Variables # {}
  /\ IF Enough(1)
     THEN /\ \E i \in Variables :
               local' = [local EXCEPT ![localBase + i] = stack[Len(stack)]]
          /\ stack' = Popped(1)
          /\ Go /\ UNCHANGED <<stackBase, localBase, fun, frames>>
     ELSE Throw

-----------------------------------------------------------------------------
(* Entering frames                                                         *)

(* Fun::run with the stack s and the base b at the call: the arguments     *)
(* become local variables, and the function starts with an empty stack.    *)
RunOn(f, s, b, outer) ==
  LET n == NumArgs[f]
      rest == First(s, Len(s) - n)
  IN  /\ local' = local \o Last(s, n) \o [i \in 1 .. NumLocals[f] - n |-> Zero]
      /\ localBase' = Len(local)
      /\ stack' = rest /\ stackBase' = Len(rest)
      /\ fun' = f
      /\ frames' = Append(outer, [Frame("fun", 0) EXCEPT !.base = b, !.below = rest])
Run(f, outer) == RunOn(f, stack, stackBase, outer)

CallFun ==
  /\ RunsCode /\ Len(frames) < MaxFrames
  /\ \E f \in Funs : IF Enough(NumArgs[f]) THEN Run(f, frames) /\ Go ELSE Throw

(* opParens and opNewVList *)
Nested(kind) ==
  /\ RunsCode /\ Len(frames) < MaxFrames
  /\ frames' = Append(frames, Frame(kind, Len(stack)))
  /\ stackBase' = Len(stack)
  /\ Go /\ UNCHANGED <<stack, locals>>
Parens == Nested("paren")
NewVList == Len(stack) < MaxStack /\ Nested("list")

(* try and protect: f is applied (what the handler is comes to light when  *)
(* it is applied).  load: a line is compiled and run.  Their arguments     *)
(* have been popped.                                                       *)
Guarding(kind, f) ==
  LET outer == Append(frames, Frame(kind, stackBase))
  IN  /\ RunsCode /\ Len(frames) + 1 < MaxFrames
      /\ IF Enough(NumArgs[f]) THEN Run(f, outer) /\ Go
         ELSE /\ RaiseIn(outer) /\ frames' = outer
              /\ UNCHANGED <<stack, stackBase, locals, overdrawn>>
Try     == \E f \in Funs : Guarding("try", f)
Protect == \E f \in Funs : Guarding("protect", f)
Load    == Guarding("load", Main)

Handle(outer) ==
  \E g \in Funs :
    IF Enough(NumArgs[g]) THEN Run(g, outer) /\ Go
    ELSE RaiseIn(Outer) /\ frames' = Outer /\ UNCHANGED <<stack, stackBase, locals, overdrawn>>

Undefined ==
  /\ mode' = "undefined" /\ overdrawn' = TRUE
  /\ UNCHANGED <<stack, stackBase, locals, frames, threw>>

(* Object::dot with a function, Fun::msgSend: the receiver takes the place *)
(* of the object, and a SaveStack puts the function's arguments above its  *)
(* base, which may come to lie below the sender's or below the stack.      *)
MessageFun ==
  /\ RunsCode /\ Len(frames) + 1 < MaxFrames /\ Len(stack) < MaxStack
  /\ \E f \in Funs :
       LET s == Append(Popped(1), Aggregate)
           b == Len(s) - NumArgs[f]
           outer == Append(frames, [Frame("message", 0) EXCEPT !.below = First(s, b)])
       IN  IF ~ Enough(1) THEN Throw
           ELSE IF b < 0 THEN Undefined
           ELSE /\ RunOn(f, s, b, outer)
                /\ mode' = "run" /\ UNCHANGED threw
                /\ overdrawn' = (overdrawn \/ b < stackBase)

(* Object::dot with a primitive, Prim::msgSend: the SaveStack is made for  *)
(* the arguments before the receiver is pushed, so that one value more     *)
(* than the arguments is cleared; the primitive may throw.                 *)
MessagePrim(n) ==
  LET s == Popped(1)
      b == Len(s) - n
  IN  /\ RunsCode
      /\ IF ~ Enough(1) THEN Throw
         ELSE IF b < 0 \/ b + 1 < stackBase THEN Undefined
         ELSE /\ \/ stack' = Append(First(s, b), Zero) /\ mode' = "run" /\ UNCHANGED threw
                 \/ /\ stack' = First(s, b)
                    /\ IF b < stackBase THEN mode' = "undefined" /\ UNCHANGED threw ELSE Raise
              /\ overdrawn' = (overdrawn \/ b < stackBase)
              /\ UNCHANGED <<stackBase, locals, frames>>

-----------------------------------------------------------------------------
(* Leaving frames                                                          *)

(* The destructor of PushFunContext. *)
PopLocalsOfCaller ==                                             (* mutant *)
  /\ local' = First(local, Len(local) - NumLocals[Top.fun])
  /\ fun' = Top.fun /\ stackBase' = Top.base /\ localBase' = Top.lbase
PopFunContext ==
  /\ local' = First(local, Len(local) - NumLocals[fun])
  /\ fun' = Top.fun /\ stackBase' = Top.base /\ localBase' = Top.lbase

Cleared == First(stack, stackBase)

(* Code comes to its end.  A function leaves its values on the stack; so   *)
(* do parentheses; a list takes them all.                                  *)
Return ==
  /\ RunsCode
  /\ frames' = Outer
  /\ CASE Top.kind = "fun"   -> PopFunContext /\ UNCHANGED stack
       [] Top.kind = "paren" -> stackBase' = Top.base /\ UNCHANGED <<stack, locals>>
       [] Top.kind = "list"  -> /\ stack' = Append(Cleared, Aggregate)
                                /\ stackBase' = Top.base /\ UNCHANGED locals
  /\ mode' = (IF Outer = <<>> THEN "idle" ELSE "run")
  /\ UNCHANGED <<threw, overdrawn>>

(* msgSend: the topmost value is the result, 0 if there is none. *)
Result == IF Depth >= 1 THEN stack[Len(stack)] ELSE Zero
MessageReturns ==
  /\ mode = "run" /\ Top.kind = "message"
  /\ stack' = Append(Cleared, Result) /\ stackBase' = Top.base
  /\ frames' = Outer
  /\ mode' = (IF Wrapped \/ Wrapped' THEN "undefined" ELSE "run")
  /\ UNCHANGED <<locals, threw, overdrawn>>

(* try is done, and so is load; protect applies its handler; the handler   *)
(* of either, when it has run for an exception, is followed by "throw".    *)
Handlers == {"catch", "recover"}

GuardReturns ==
  /\ mode = "run" /\ Top.kind \in {"try", "load"}
  /\ frames' = Outer
  /\ Go /\ UNCHANGED <<stack, stackBase, locals>>

ProtectReturns ==
  /\ mode = "run" /\ Top.kind = "protect"
  /\ Handle(Outer)

CatchContinues ==                                                (* mutant *)
  /\ mode = "run" /\ Top.kind \in Handlers
  /\ mode' = "run" /\ frames' = Outer
  /\ UNCHANGED <<stack, stackBase, locals, threw, overdrawn>>
Rethrow ==
  /\ mode = "run" /\ Top.kind \in Handlers
  /\ mode' = "throw" /\ frames' = Outer
  /\ UNCHANGED <<stack, stackBase, locals, threw, overdrawn>>

-----------------------------------------------------------------------------
(* An exception passes the innermost frame.                                *)

UnwindFun ==
  /\ mode = "throw" /\ Top.kind = "fun"
  /\ PopFunContext /\ frames' = Outer
  /\ mode' = (IF Outer = <<>> THEN "idle" ELSE "throw")
  /\ UNCHANGED <<stack, threw, overdrawn>>

(* The destructors of ParenStack and SaveStack. *)
PopScope ==
  /\ stack' = (IF Top.kind = "paren" THEN stack ELSE Cleared)
  /\ stackBase' = Top.base
UnwindScope ==
  /\ mode = "throw" /\ Top.kind \in {"paren", "list", "message"}
  /\ PopScope /\ frames' = Outer
  /\ mode' = (IF Wrapped \/ Wrapped' THEN "undefined" ELSE "throw")
  /\ UNCHANGED <<locals, threw, overdrawn>>

(* The handler is applied in the catch block, on what the stack then is.   *)
Catch ==
  /\ mode = "throw" /\ Top.kind \in {"try", "protect"}
  /\ Handle(Append(Outer, [Top EXCEPT !.kind = IF @ = "try" THEN "recover" ELSE "catch"]))

UnwindCatch ==
  /\ mode = "throw" /\ Top.kind \in Handlers
  /\ frames' = Outer
  /\ UNCHANGED <<stack, stackBase, locals, mode, threw, overdrawn>>

(* loadFile reports whatever has been thrown. *)
LoadFails ==
  /\ mode = "throw" /\ Top.kind = "load"
  /\ threw' = threw \ {Len(frames)} /\ frames' = Outer /\ mode' = "run"
  /\ UNCHANGED <<stack, stackBase, locals, overdrawn>>

-----------------------------------------------------------------------------
(* The prompt: a line is compiled and run (runREPL), on the stack as it is. *)
Statement ==
  /\ mode = "idle"
  /\ frames' = <<[Frame("fun", 0) EXCEPT !.base = stackBase]>>
  /\ localBase' = Len(local) /\ fun' = Main
  /\ mode' = "run" /\ threw' = {} /\ overdrawn' = FALSE
  /\ UNCHANGED <<stack, stackBase, local>>

Next ==
  \/ Statement
  \/ PushImmediate \/ (\E n \in Takes : ApplyPrim(n) \/ MessagePrim(n)) \/ Clear
  \/ PushLocal \/ BindLocal \/ Throw
  \/ CallFun \/ Parens \/ NewVList \/ Try \/ Protect \/ Load \/ MessageFun
  \/ Return \/ MessageReturns \/ GuardReturns \/ ProtectReturns \/ Rethrow
  \/ UnwindFun \/ UnwindScope \/ Catch \/ UnwindCatch \/ LoadFails

Spec == Init /\ [][Next]_vars

-----------------------------------------------------------------------------
Kinds == {"fun", "paren", "list", "message", "try", "protect", "load"} \cup Handlers
TypeOK ==
  /\ stack \in Seq(AllValues) /\ stackBase \in Nat
  /\ local \in Seq(AllValues) /\ localBase \in Nat /\ fun \in Functions
  /\ frames \in Seq([kind : Kinds, base : Nat, lbase : Nat, fun : Functions,
                      below : Seq(AllValues), callers : Seq(AllValues)])
  /\ mode \in {"idle", "run", "throw", "undefined"}
  /\ (mode # "idle") = (frames # <<>>)
  /\ threw \subseteq Nat /\ overdrawn \in BOOLEAN

(* What was on the stack below a scope is there when the scope is left,    *)
(* normally or by an exception, whatever was called inside it: code never  *)
(* takes the values of its callers but for the arguments it is given, and  *)
(* never memory outside the stack; at the prompt everything on the stack   *)
(* can be reached.  A message with too few arguments is the exception:     *)
(* nobody finds out that they are missing.                                 *)
CallersValuesKept ==
  /\ mode = "idle" => stackBase = 0
  /\ overdrawn \/
     /\ mode # "undefined" /\ stackBase <= Len(stack)
     /\ \A i \in 1 .. Len(frames) : First(stack, Len(frames[i].below)) = frames[i].below

(* The locals of the running function are the last ones, and those of its  *)
(* callers are what they were at the call.  At the prompt there are none,  *)
(* also after an exception has passed through any nesting of scopes.       *)
LocalsKept ==
  /\ mode = "idle" => localBase = 0 /\ local = <<>> /\ fun = Main
  /\ Len(local) = localBase + NumLocals[fun]
  /\ \A i \in 1 .. Len(frames) :
       frames[i].kind = "fun" => First(local, Len(frames[i].callers)) = frames[i].callers

(* No word but load stops an exception, if no try is on its way: the code  *)
(* of a line, or of a file, does not go on after something in it has       *)
(* thrown, through any scopes, calls and handlers of protect.              *)
NothingSwallowed ==
  mode = "run" =>
    /\ Len(frames) = 1 => 0 \notin threw
    /\ Top.kind = "load" => Len(frames) \notin threw

(* The help of try: "(A B --> ..) apply function A. if an exception is     *)
(* thrown, function B is applied."  That it is thrown again is said of     *)
(* protect only: when the handler of try has come to its end the exception *)
(* is over.  The code throws it again.                                     *)
TryRecovers == [][mode = "run" /\ Top.kind = "recover" => mode' # "throw"]_vars
=============================================================================
