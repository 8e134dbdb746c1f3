---------------------------- MODULE AudioPlayers ----------------------------
(***************************************************************************)
(* What AlsaAudioBackend and RtAudioBackend do in the same way with their  *)
(* list of players: a player is added by play or record, a block of every  *)
(* player is mixed at a time, and the file of a player that goes is        *)
(* closed.                                                                 *)
(***************************************************************************)
EXTENDS Naturals, FiniteSets

CONSTANTS
  Clients,      (* interpreter threads                                     *)
  Players,      (* what they play and record                               *)
  Recorded,     (* the players that record makes: they have a file         *)
  Length,       (* blocks in the list of a player                          *)
  MaxFailures,  (* bound: how often the device or stream fails to open     *)
  MaxStops      (* bound: calls of stopAll and stopFinished                *)

ASSUME PlayersAssumption ==
  Recorded \subseteq Players /\ {Length, MaxFailures, MaxStops} \subseteq Nat

VARIABLES
  fresh, players, (* not yet played; players_                              *)
  left,           (* blocks of each player still to be mixed               *)
  file,           (* the recording of each player                          *)
  client,         (* where each interpreter thread is                      *)
  failures, stops

NothingPlayed ==
  /\ fresh = Players /\ players = {}
  /\ left = [p \in Players |-> Length]
  /\ file = [p \in Players |-> "none"]
  /\ client = [c \in Clients |-> "idle"]
  /\ failures = 0 /\ stops = 0

(* sf_close, once: the file of a player that has one. *)
FileLeftOpen(ps) == file                                         (* mutant *)
Finalized(ps) ==
  [p \in Players |-> IF p \in ps /\ file[p] = "open" THEN "closed" ELSE file[p]]

PlayInto(p) ==
  /\ fresh' = fresh \ {p}
  /\ players' = players \cup {p}
  /\ file' = [file EXCEPT ![p] = IF p \in Recorded THEN "open" ELSE @]

(* A block of every player; players that have come to their end go. *)
MixBlock ==
  LET done == {p \in players : left[p] <= 1}
  IN  /\ players' = players \ done
      /\ file' = Finalized(done)
      /\ left' = [p \in Players |-> IF p \in players /\ left[p] > 0 THEN left[p] - 1 ELSE left[p]]

-----------------------------------------------------------------------------
PlayersTypeOK ==
  /\ fresh \subseteq Players /\ players \subseteq Players \ fresh
  /\ left \in [Players -> 0 .. Length]
  /\ file \in [Players -> {"none", "open", "closed"}]
  /\ failures \in 0 .. MaxFailures /\ stops \in 0 .. MaxStops
=============================================================================
