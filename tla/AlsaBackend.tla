---------------------------- MODULE AlsaBackend ----------------------------
(***************************************************************************)
(* AlsaAudioBackend: interpreter threads (play, record, stop, stopDone)    *)
(* and one audio thread share a list of players under mutex_.  The audio   *)
(* thread mixes a block under the mutex, releases it, and then writes the  *)
(* block to pcm_ without it.                                               *)
(*                                                                         *)
(* What an interpreter thread does under the mutex is one action; so is    *)
(* what the audio thread does between taking the mutex and giving it up.   *)
(* A pcm handle is the number of the snd_pcm_open that returned it, 0 the  *)
(* null pointer.                                                           *)
(***************************************************************************)
EXTENDS AudioPlayers

CONSTANTS
  Faulty,       (* the players whose list throws when it is pulled         *)
  MaxOpens      (* bound: how often the device is opened                   *)

ASSUME AlsaAssumption == Faulty \subseteq Players /\ MaxOpens \in Nat

VARIABLES
  abandoned,      (* players destroyed without finalizePlayer              *)
  pcm, opens, running,
  audio,          (* where the audio thread is                             *)
  handle,         (* the pcm_ it has read                                  *)
  notified,       (* cv_ was notified while the audio thread waited on it  *)
  aborted         (* an exception has left the audio thread                *)

device == <<pcm, opens, failures>>
alsaVars == <<fresh, players, left, file, abandoned, pcm, opens, failures, running,
              stops, audio, handle, notified, client, aborted>>

AlsaInit ==
  /\ NothingPlayed
  /\ abandoned = {} /\ pcm = 0 /\ opens = 0 /\ running = TRUE
  /\ audio = "loop" /\ handle = 0 /\ notified = FALSE /\ aborted = FALSE

(* The audio thread holds mutex_ at "loop" only; the others never keep it. *)
MutexIsFree == audio # "loop"
Waiting == audio \in {"wait", "retry"}
NotifyAudio == notified' = (notified \/ Waiting)

-----------------------------------------------------------------------------
(* Interpreter threads                                                     *)

(* play and record: the file is created before the mutex is taken. *)
AlsaPlay(c) ==
  /\ running /\ client[c] = "idle" /\ MutexIsFree
  /\ \E p \in fresh : PlayInto(p)
  /\ client' = [client EXCEPT ![c] = "notify"]
  /\ UNCHANGED <<left, abandoned, device, running, stops, audio, handle, notified, aborted>>

NotifyLost(c) ==                                                 (* mutant *)
  /\ client[c] = "notify"
  /\ client' = [client EXCEPT ![c] = "idle"]
  /\ UNCHANGED <<fresh, players, left, file, abandoned, device, running, stops, audio, handle, notified, aborted>>
(* wakeThread, after the mutex has been released. *)
Notify(c) ==
  /\ client[c] = "notify"
  /\ NotifyAudio
  /\ client' = [client EXCEPT ![c] = "idle"]
  /\ UNCHANGED <<fresh, players, left, file, abandoned, device, running, stops, audio, handle, aborted>>

AlsaStopAll(c) ==
  /\ running /\ client[c] = "idle" /\ MutexIsFree /\ stops < MaxStops
  /\ file' = Finalized(players)
  /\ players' = {} /\ pcm' = 0
  /\ stops' = stops + 1
  /\ client' = [client EXCEPT ![c] = "notify"]
  /\ UNCHANGED <<fresh, left, abandoned, opens, failures, running, audio, handle, notified, aborted>>

(* The audio thread erases a player in the step that sets done, so that    *)
(* there never is one to remove here; while some still play nothing        *)
(* happens.                                                                *)
AlsaStopFinished(c) ==
  /\ running /\ client[c] = "idle" /\ MutexIsFree /\ stops < MaxStops
  /\ players = {}
  /\ pcm' = 0
  /\ stops' = stops + 1
  /\ UNCHANGED <<fresh, players, left, file, abandoned, opens, failures, running, audio, handle, notified, client, aborted>>

(* ~AlsaAudioBackend, when nobody calls the backend any more.              *)
DestroyUnnoticed(c) ==                                           (* mutant *)
  /\ running /\ \A d \in Clients : client[d] = "idle"
  /\ MutexIsFree
  /\ running' = FALSE /\ pcm' = 0
  /\ players' = {} /\ abandoned' = abandoned \cup players
  /\ client' = [client EXCEPT ![c] = "join"]
  /\ UNCHANGED <<fresh, left, file, opens, failures, stops, audio, handle, notified, aborted>>
Destroy(c) ==
  /\ running /\ \A d \in Clients : client[d] = "idle"
  /\ MutexIsFree
  /\ running' = FALSE /\ pcm' = 0
  /\ players' = {} /\ abandoned' = abandoned \cup players
  /\ client' = [client EXCEPT ![c] = "notifyAll"]
  /\ UNCHANGED <<fresh, left, file, opens, failures, stops, audio, handle, notified, aborted>>
NotifyAll(c) ==
  /\ client[c] = "notifyAll"
  /\ NotifyAudio
  /\ client' = [client EXCEPT ![c] = "join"]
  /\ UNCHANGED <<fresh, players, left, file, abandoned, device, running, stops, audio, handle, aborted>>
AlsaJoin(c) ==
  /\ client[c] = "join" /\ audio = "exited"
  /\ client' = [client EXCEPT ![c] = "destroyed"]
  /\ UNCHANGED <<fresh, players, left, file, abandoned, device, running, stops, audio, handle, notified, aborted>>

-----------------------------------------------------------------------------
(* audioThreadLoop                                                         *)

(* cv_.wait looks at its predicate whenever it wakes up. *)
Wake ==
  /\ audio = "wait" /\ notified
  /\ notified' = FALSE
  /\ audio' = IF ~ running \/ players # {} THEN "loop" ELSE "wait"
  /\ UNCHANGED <<fresh, players, left, file, abandoned, device, running, stops, handle, client, aborted>>

(* cv_.wait_for returns after 10 ms if nobody notifies. *)
Retry ==
  /\ audio = "retry"
  /\ notified' = FALSE
  /\ audio' = "loop"
  /\ UNCHANGED <<fresh, players, left, file, abandoned, device, running, stops, handle, client, aborted>>

AudioOnly == UNCHANGED <<fresh, running, stops, handle, notified, client>>

ExitLoop ==
  /\ audio = "loop" /\ ~ running
  /\ audio' = "exited"
  /\ AudioOnly /\ UNCHANGED <<players, left, file, abandoned, device, aborted>>

WaitForPlayers ==
  /\ audio = "loop" /\ running /\ players = {}
  /\ audio' = "wait"
  /\ AudioOnly /\ UNCHANGED <<players, left, file, abandoned, device, aborted>>

(* ensurePcmLocked fails: all players are dropped, recordings included.    *)
OpenFails ==
  /\ audio = "loop" /\ running /\ players # {}
  /\ pcm = 0 /\ failures < MaxFailures
  /\ failures' = failures + 1
  /\ players' = {} /\ abandoned' = abandoned \cup players
  /\ audio' = "retry"
  /\ AudioOnly /\ UNCHANGED <<left, file, pcm, opens, aborted>>

Opened ==
  IF pcm = 0 THEN opens < MaxOpens /\ opens' = opens + 1 /\ pcm' = opens + 1
  ELSE UNCHANGED <<opens, pcm>>

Mix ==
  /\ audio = "loop" /\ running /\ players # {} /\ players \cap Faulty = {}
  /\ Opened
  /\ MixBlock
  /\ audio' = "mixed"
  /\ AudioOnly /\ UNCHANGED <<abandoned, failures, aborted>>

(* ZIn::fill throws: nothing catches it, and std::terminate is called.     *)
MixThrows ==
  /\ audio = "loop" /\ running /\ players \cap Faulty # {}
  /\ Opened
  /\ aborted' = TRUE
  /\ AudioOnly /\ UNCHANGED <<players, left, file, abandoned, failures, audio>>

(* if (pcm_), outside the mutex. *)
TestPcm ==
  /\ audio = "mixed"
  /\ handle' = pcm
  /\ audio' = IF pcm = 0 THEN "relock" ELSE "write"
  /\ UNCHANGED <<fresh, players, left, file, abandoned, device, running, stops, notified, client, aborted>>

(* snd_pcm_writei(pcm_, ...): whether pcm_ is read again is up to the      *)
(* compiler, the accesses race.                                            *)
BeginWrite ==
  /\ audio = "write"
  /\ handle' \in {handle, pcm}
  /\ audio' = "writing"
  /\ UNCHANGED <<fresh, players, left, file, abandoned, device, running, stops, notified, client, aborted>>

WritePartCloses ==                                               (* mutant *)
  /\ audio = "writing"
  /\ pcm' = 0 /\ audio' = "write"
  /\ UNCHANGED <<fresh, players, left, file, abandoned, opens, failures, running, stops, handle, notified, client, aborted>>
(* A part of the block was written, or the device has recovered (EPIPE).   *)
WritePart ==
  /\ audio = "writing"
  /\ audio' = "write"
  /\ UNCHANGED <<fresh, players, left, file, abandoned, device, running, stops, handle, notified, client, aborted>>

WriteRest ==
  /\ audio = "writing"
  /\ audio' = "relock"
  /\ UNCHANGED <<fresh, players, left, file, abandoned, device, running, stops, handle, notified, client, aborted>>

RelockKeepsPcm ==                                                (* mutant *)
  /\ audio = "relock"
  /\ handle' = 0 /\ audio' = "loop"
  /\ UNCHANGED <<fresh, players, left, file, abandoned, device, running, stops, notified, client, aborted>>
Relock ==
  /\ audio = "relock"
  /\ pcm' = IF players = {} THEN 0 ELSE pcm
  /\ handle' = 0 /\ audio' = "loop"
  /\ UNCHANGED <<fresh, players, left, file, abandoned, opens, failures, running, stops, notified, client, aborted>>

-----------------------------------------------------------------------------
(* A write goes on only on the handle that is open.                        *)
Writing == audio = "writing"
PcmOpen == Writing => pcm # 0 /\ handle = pcm

Client(c) ==
  AlsaPlay(c) \/ Notify(c) \/ AlsaStopAll(c) \/ AlsaStopFinished(c) \/ Destroy(c) \/ NotifyAll(c) \/ AlsaJoin(c)
AudioThread ==
  \/ Wake \/ Retry \/ ExitLoop \/ WaitForPlayers \/ OpenFails \/ Mix \/ MixThrows
  \/ TestPcm \/ BeginWrite \/ WritePart \/ WriteRest \/ Relock

(* Nothing is said of a program that has written to a closed device.       *)
AlsaNext == PcmOpen /\ ~ aborted /\ (AudioThread \/ \E c \in Clients : Client(c))

(* The audio thread runs, the device takes a block in finitely many parts, *)
(* and a call that has been begun goes on.                                 *)
AlsaFairness ==
  /\ WF_alsaVars(PcmOpen /\ ~ aborted /\ AudioThread)
  /\ SF_alsaVars(PcmOpen /\ ~ aborted /\ WriteRest)
  /\ \A c \in Clients : WF_alsaVars(PcmOpen /\ ~ aborted /\ (Notify(c) \/ NotifyAll(c) \/ AlsaJoin(c)))

AlsaSpec == AlsaInit /\ [][AlsaNext]_alsaVars
AlsaFairSpec == AlsaSpec /\ AlsaFairness

-----------------------------------------------------------------------------
AlsaTypeOK ==
  /\ PlayersTypeOK /\ abandoned \subseteq Players
  /\ pcm \in 0 .. opens /\ opens \in 0 .. MaxOpens /\ handle \in 0 .. opens
  /\ audio \in {"loop", "wait", "retry", "mixed", "write", "writing", "relock", "exited"}
  /\ client \in [Clients -> {"idle", "notify", "notifyAll", "join", "destroyed"}]
  /\ running \in BOOLEAN /\ notified \in BOOLEAN /\ aborted \in BOOLEAN

(* The device is given back when there is nothing to play, whichever of    *)
(* the threads took the last player away.                                  *)
IdleDeviceClosed == audio \in {"wait", "retry", "exited"} => pcm = 0

(* A recording is closed as soon as its player is gone, unless the player  *)
(* was dropped because the device could not be opened or at shutdown.      *)
AlsaRecordingsClosed ==
  \A p \in Players : file[p] = "open" => p \in players \/ p \in abandoned

(* Writing is done without the mutex, so that the device can be closed     *)
(* under a write; that takes a call of stop or stopDone or the destructor. *)
(* The audio thread never does it itself, and as nobody else opens the     *)
(* device, a handle that has gone stale is not used on a new one.          *)
OnlyStopPullsDevice == PcmOpen \/ (pcm = 0 /\ (stops > 0 \/ ~ running))

Broken == aborted \/ ~ PcmOpen

(* No wake-up is lost: what has been played is played to its end, or has   *)
(* been stopped or dropped.                                                *)
HeardOrStopped == \A p \in Players : p \in players ~> p \notin players \/ Broken

(* The destructor gets the audio thread to leave its loop.                 *)
DestructorReturns ==
  \A c \in Clients : client[c] \in {"notifyAll", "join"} ~> client[c] = "destroyed" \/ Broken
=============================================================================
