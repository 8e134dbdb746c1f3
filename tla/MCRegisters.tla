---------------------------- MODULE MCRegisters ----------------------------
(* Two interpreter threads, lists of three, two and three values, blocks of *)
(* two: the end of a list falls inside a block and between blocks.         *)
EXTENDS Registers

CONSTANTS t1, t2, o1, o2, o3

MCThreads == {t1, t2}
MCObjects == {o1, o2, o3}
MCLength == [o \in MCObjects |-> IF o = o2 THEN 2 ELSE 3]
=============================================================================
