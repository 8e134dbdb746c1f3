-------------------------- MODULE MCRtAudioBackend --------------------------
(* Two interpreter threads; three players, one of them recorded.           *)
EXTENDS RtAudioBackend

CONSTANTS c1, c2, p1, p2, p3

MCClients == {c1, c2}
MCPlayers == {p1, p2, p3}
MCRecorded == {p1}
=============================================================================
