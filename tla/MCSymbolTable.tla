--------------------------- MODULE MCSymbolTable ---------------------------
(* Three threads, two names of one bin. *)
EXTENDS SymbolTable

CONSTANTS t1, t2, t3, a, b

MCThreads == {t1, t2, t3}
MCNames == {a, b}
=============================================================================
