---------------------------- MODULE MCWorkspace ----------------------------
(* Two threads; three names whose hashes differ. *)
EXTENDS Workspace

CONSTANTS t1, t2, a, b, c

MCThreads == {t1, t2}

(* Name b is bound below name a; c belongs below b. *)
MCNames == {a, b, c}
MCHash == [n \in MCNames |-> IF n = a THEN 3 ELSE IF n = b THEN 1 ELSE 2]
MCStart == <<[key |-> a, value |-> 1, left |-> 2, right |-> 0],
             [key |-> b, value |-> 2, left |-> 0, right |-> 0]>>
=============================================================================
