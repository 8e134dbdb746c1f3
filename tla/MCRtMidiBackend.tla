-------------------------- MODULE MCRtMidiBackend --------------------------
(* Two inputs and one source.  The messages are note on (and off, which is *)
(* note on with velocity 0), system exclusive with two data bytes, song    *)
(* position, and program change.                                           *)
EXTENDS RtMidiBackend

MCPorts == {0, 1}
MCUids == {0}
MCDataBytes == {1, 60}
MCMessages == {<<144, 60, 1>>, <<144, 60, 0>>, <<240, 60, 1, 247>>, <<242, 1, 1>>,
               <<192, 1>>}
=============================================================================
