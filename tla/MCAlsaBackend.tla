--------------------------- MODULE MCAlsaBackend ---------------------------
(* Two interpreter threads; three players, one recorded and one faulty.    *)
EXTENDS AlsaBackend

CONSTANTS c1, c2, p1, p2, p3

MCClients == {c1, c2}
MCPlayers == {p1, p2, p3}
MCRecorded == {p1}
MCFaulty == {p3}
=============================================================================
