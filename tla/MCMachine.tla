----------------------------- MODULE MCMachine -----------------------------
(* A function without arguments, with a local variable, and one with two   *)
(* arguments; primitives of one and of two arguments.                      *)
EXTENDS Machine, TLC

CONSTANTS a, f0, f2

MCFuns == {f0, f2}
MCNumArgs == (f0 :> 0) @@ (f2 :> 2) @@ (Main :> 0)
MCNumLocals == (f0 :> 1) @@ (f2 :> 2) @@ (Main :> 0)
=============================================================================
