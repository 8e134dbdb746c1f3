---------------------------- MODULE MCClosures ----------------------------
(* Two names, one of them built in; functions of no or one argument.       *)
EXTENDS Closures

CONSTANTS fname, xname

MCNames    == {fname, xname}
MCBuiltins == {xname}
MCKnown    == {fname}
MCArgLists == {<<>>, <<xname>>}
=============================================================================
