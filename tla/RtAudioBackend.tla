--------------------------- MODULE RtAudioBackend ---------------------------
(***************************************************************************)
(* RtAudioBackend and, as far as it is concerned, the ALSA interface of    *)
(* the RtAudio library in thirdparty/.  The interpreter opens a stream     *)
(* when it plays; the library starts a thread for the stream, which calls  *)
(* render again and again; render closes the stream itself when the last   *)
(* player is done.  mutex_ is held during render and during the calls of   *)
(* the interpreter, also while they wait for the library.                  *)
(*                                                                         *)
(* Streams are numbered in the order in which they are opened; stream s    *)
(* has callback thread s.  A thread leaves when it finds isRunning false;  *)
(* one whose stream was closed by its own render may find it true again,   *)
(* when another stream has been opened meanwhile, and serves that one too. *)
(***************************************************************************)
EXTENDS AudioPlayers

CONSTANT MaxStreams    (* bound: streams opened                              *)

ASSUME RtAudioAssumption == MaxStreams \in Nat

VARIABLES
  streamOpen,   (* the backend's flag                                      *)
  streams,      (* streams opened so far                                   *)
  state,        (* stream_.state                                           *)
  isRunning,    (* stream_.callbackInfo.isRunning                          *)
  live,         (* the stream whose AlsaHandle exists, 0 if none           *)
  mutex,        (* who keeps mutex_ from step to step, if anybody          *)
  callback,     (* where each callback thread is                           *)
  apiInfo       (* the stream each callback thread is working for          *)

playing == <<fresh, players, left, file>>
stream == <<streamOpen, streams, state, isRunning, live>>
rtVars == <<fresh, players, left, file, streamOpen, streams, state, isRunning, live,
            mutex, client, callback, apiInfo, failures, stops>>

Streams == 1 .. MaxStreams

RtInit ==
  /\ NothingPlayed
  /\ streamOpen = FALSE /\ streams = 0 /\ state = "closed" /\ isRunning = FALSE /\ live = 0
  /\ mutex = "none"
  /\ callback = [s \in Streams |-> "none"] /\ apiInfo = [s \in Streams |-> 0]

-----------------------------------------------------------------------------
(* The library                                                             *)

At(s, label) == callback' = [callback EXCEPT ![s] = label]

(* stream_.mutex: a thread keeps it while it writes its block. *)
StreamMutexFree == \A s \in Streams : callback[s] # "write"

OpenUnstarted ==                                                 (* mutant *)
  /\ streams < MaxStreams
  /\ streams' = streams + 1 /\ live' = streams + 1
  /\ state' = "running" /\ isRunning' = TRUE /\ streamOpen' = TRUE
  /\ UNCHANGED <<callback, apiInfo>>
(* openStream and startStream.  Between the two the new thread, and others *)
(* that find isRunning true again, may come to wait until the stream runs; *)
(* startStream wakes one of those that do.                                 *)
OpenStream ==
  LET new == streams + 1 IN
  /\ streams < MaxStreams
  /\ streams' = new /\ live' = new
  /\ state' = "running" /\ isRunning' = TRUE /\ streamOpen' = TRUE
  /\ \E early \in SUBSET {s \in Streams : callback[s] = "loop" \/ s = new} :
       \E woken \in IF early = {} THEN {new} ELSE early :
         /\ apiInfo' = [s \in Streams |-> IF s \in early THEN new ELSE apiInfo[s]]
         /\ callback' = [s \in Streams |->
                           IF s \in early THEN IF s = woken THEN "woken" ELSE "asleep"
                           ELSE IF s = new THEN "loop" ELSE callback[s]]

(* stopStream: what runs already is played before anything else happens.   *)
StopStream == state' = "stopped"

SignalForgotten(cb) ==                                           (* mutant *)
  StreamMutexFree /\ isRunning' = FALSE /\ callback' = cb
(* closeStream as far as pthread_join, the caller being where cb says: the *)
(* threads are to leave, and one that waits on the stream is woken.        *)
SignalClose(cb) ==
  LET asleep == {s \in Streams : callback[s] = "asleep" /\ apiInfo[s] = live} IN
  /\ StreamMutexFree
  /\ isRunning' = FALSE
  /\ callback' \in IF asleep = {} THEN {cb} ELSE {[cb EXCEPT ![w] = "woken"] : w \in asleep}

(* The rest of closeStream, and of closeStreamLocked. *)
FreeStream == state' = "closed" /\ isRunning' = FALSE /\ live' = 0 /\ streamOpen' = FALSE

-----------------------------------------------------------------------------
(* Interpreter threads                                                     *)

PlayUnopened(c) ==                                               (* mutant *)
  /\ client[c] = "idle" /\ mutex = "none"
  /\ \E p \in fresh : PlayInto(p)
  /\ UNCHANGED <<left, stream, mutex, client, callback, apiInfo, failures, stops>>
RtPlay(c) ==
  /\ client[c] = "idle" /\ mutex = "none"
  /\ IF streamOpen THEN UNCHANGED <<stream, callback, apiInfo>> ELSE OpenStream
  /\ \E p \in fresh : PlayInto(p)
  /\ UNCHANGED <<left, mutex, client, failures, stops>>

PlayFailsOpen(c) ==                                              (* mutant *)
  /\ client[c] = "idle" /\ mutex = "none" /\ ~ streamOpen
  /\ failures < MaxFailures /\ failures' = failures + 1
  /\ \E p \in fresh :
       /\ fresh' = fresh \ {p}
       /\ file' = [file EXCEPT ![p] = IF p \in Recorded THEN "open" ELSE @]
  /\ UNCHANGED <<players, left, stream, mutex, client, callback, apiInfo, stops>>
(* ensureStreamLocked fails: the file that record has created is closed,   *)
(* the player is destroyed and errFailed thrown.                           *)
PlayFails(c) ==
  /\ client[c] = "idle" /\ mutex = "none" /\ ~ streamOpen
  /\ failures < MaxFailures /\ failures' = failures + 1
  /\ \E p \in fresh :
       /\ fresh' = fresh \ {p}
       /\ file' = [file EXCEPT ![p] = IF p \in Recorded THEN "closed" ELSE @]
  /\ UNCHANGED <<players, left, stream, mutex, client, callback, apiInfo, stops>>

(* closeStreamLocked keeps the mutex until the stream is freed. *)
CloseStream(c) ==
  IF streamOpen
  THEN StopStream /\ mutex' = "client" /\ client' = [client EXCEPT ![c] = "close"]
  ELSE UNCHANGED <<state, mutex, client>>

RtStopAll(c) ==
  /\ client[c] = "idle" /\ mutex = "none" /\ stops < MaxStops
  /\ stops' = stops + 1
  /\ file' = Finalized(players) /\ players' = {}
  /\ CloseStream(c)
  /\ UNCHANGED <<fresh, left, streamOpen, streams, isRunning, live, callback, apiInfo, failures>>

(* Players that are done are gone already; while some play nothing happens. *)
RtStopFinished(c) ==
  /\ client[c] = "idle" /\ mutex = "none" /\ stops < MaxStops
  /\ players = {}
  /\ stops' = stops + 1
  /\ CloseStream(c)
  /\ UNCHANGED <<playing, streamOpen, streams, isRunning, live, callback, apiInfo, failures>>

RtClose(c) ==
  /\ client[c] = "close"
  /\ SignalClose(callback)
  /\ client' = [client EXCEPT ![c] = "join"]
  /\ UNCHANGED <<playing, streamOpen, streams, state, live, mutex, apiInfo, failures, stops>>

JoinUnwaited(c) ==                                               (* mutant *)
  /\ client[c] = "join"
  /\ FreeStream
  /\ mutex' = "none" /\ client' = [client EXCEPT ![c] = "idle"]
  /\ UNCHANGED <<playing, streams, callback, apiInfo, failures, stops>>
(* pthread_join returns. *)
RtJoin(c) ==
  /\ client[c] = "join" /\ callback[live] = "exited"
  /\ FreeStream
  /\ mutex' = "none" /\ client' = [client EXCEPT ![c] = "idle"]
  /\ UNCHANGED <<playing, streams, callback, apiInfo, failures, stops>>

Stopping(c) == RtClose(c) \/ RtJoin(c)

-----------------------------------------------------------------------------
(* Callback threads                                                        *)

Others == UNCHANGED <<client, failures, stops>>

(* alsaCallbackHandler: callbackEvent as long as isRunning is true.  On a  *)
(* stream that is stopped it waits until runnable is set.                  *)
BeginEvent(s) ==
  /\ callback[s] = "loop"
  /\ \/ ~ isRunning /\ At(s, "exited") /\ UNCHANGED apiInfo
     \/ /\ isRunning
        /\ \/ state = "running" /\ At(s, "call")
           \/ state = "stopped" /\ StreamMutexFree /\ At(s, "asleep")
        /\ apiInfo' = [apiInfo EXCEPT ![s] = live]
  /\ UNCHANGED <<playing, stream, mutex>> /\ Others

(* pthread_cond_wait returns and runnable is tested again.                 *)
WakeUp(s) ==
  /\ callback[s] = "woken" /\ StreamMutexFree
  /\ At(s, IF apiInfo[s] # live THEN "freed"
           ELSE IF state = "running" THEN "call"
           ELSE IF isRunning THEN "asleep" ELSE "loop")
  /\ UNCHANGED <<playing, stream, mutex, apiInfo>> /\ Others

(* render: some player goes on after this block.                           *)
Render(s) ==
  /\ callback[s] = "call" /\ mutex = "none" /\ apiInfo[s] = live
  /\ \E p \in players : left[p] > 1
  /\ MixBlock
  /\ At(s, "after")
  /\ UNCHANGED <<fresh, stream, mutex, apiInfo>> /\ Others

(* No player is left: render closes the stream. *)
RenderCloses(s) ==
  /\ callback[s] = "call" /\ mutex = "none" /\ apiInfo[s] = live
  /\ \A p \in players : left[p] <= 1
  /\ MixBlock
  /\ IF streamOpen THEN StopStream /\ mutex' = "callback" /\ At(s, "close")
     ELSE UNCHANGED <<state, mutex>> /\ At(s, "after")
  /\ UNCHANGED <<fresh, streamOpen, streams, isRunning, live, apiInfo>> /\ Others

RenderSignals(s) ==
  /\ callback[s] = "close"
  /\ SignalClose([callback EXCEPT ![s] = "join"])
  /\ UNCHANGED <<playing, streamOpen, streams, state, live, mutex, apiInfo>> /\ Others

(* The thread joined is that of the stream.  If it is the caller itself,   *)
(* pthread_join fails with EDEADLK, which nobody looks at.                 *)
RenderJoins(s) ==
  /\ callback[s] = "join" /\ (s = live \/ callback[live] = "exited")
  /\ FreeStream
  /\ mutex' = "none" /\ At(s, "after")
  /\ UNCHANGED <<playing, streams, apiInfo>> /\ Others

(* The buffer that render was called with has been freed meanwhile.        *)
RenderFreed(s) ==
  /\ callback[s] = "call" /\ mutex = "none" /\ apiInfo[s] # live
  /\ At(s, "freed")
  /\ UNCHANGED <<playing, stream, mutex, apiInfo>> /\ Others

(* callbackEvent goes on after render: it writes the block unless the      *)
(* stream has been stopped, or no stream is open.                          *)
AfterRender(s) ==
  /\ callback[s] = "after" /\ StreamMutexFree
  /\ At(s, IF state = "stopped" \/ live = 0 THEN "loop"
           ELSE IF apiInfo[s] = live THEN "write" ELSE "freed")
  /\ UNCHANGED <<playing, stream, mutex, apiInfo>> /\ Others

Write(s) ==
  /\ callback[s] = "write"
  /\ At(s, "loop")
  /\ UNCHANGED <<playing, stream, mutex, apiInfo>> /\ Others

CallbackThread(s) ==
  \/ BeginEvent(s) \/ WakeUp(s) \/ AfterRender(s) \/ Write(s)
  \/ Render(s) \/ RenderFreed(s) \/ RenderCloses(s) \/ RenderSignals(s) \/ RenderJoins(s)

-----------------------------------------------------------------------------
(* A thread uses only the stream it has, and sleeps on no other.  Where it *)
(* does not, on a stream that has been freed, anything may happen: the     *)
(* behaviours end there.  Only a thread that has outlived its stream and   *)
(* finds another one open comes to this.                                   *)
UsesOpenStream ==
  \A s \in Streams :
    callback[s] # "freed" /\ (callback[s] \in {"write", "asleep"} => apiInfo[s] = live)

RtNext ==
  /\ UsesOpenStream
  /\ \/ \E c \in Clients :
          RtPlay(c) \/ PlayFails(c) \/ RtStopAll(c) \/ RtStopFinished(c) \/ Stopping(c)
     \/ \E s \in Streams : CallbackThread(s)

RtFairness ==
  /\ \A s \in Streams : WF_rtVars(UsesOpenStream /\ CallbackThread(s))
  /\ \A c \in Clients : WF_rtVars(UsesOpenStream /\ Stopping(c))

RtSpec == RtInit /\ [][RtNext]_rtVars
RtFairSpec == RtSpec /\ RtFairness

-----------------------------------------------------------------------------
Labels == {"none", "loop", "asleep", "woken", "call", "close", "join", "after", "write",
           "exited", "freed"}
RtTypeOK ==
  /\ PlayersTypeOK
  /\ streamOpen \in BOOLEAN /\ isRunning \in BOOLEAN
  /\ streams \in 0 .. MaxStreams /\ live \in 0 .. streams
  /\ state \in {"closed", "stopped", "running"}
  /\ mutex \in {"none", "client", "callback"}
  /\ client \in [Clients -> {"idle", "close", "join"}]
  /\ callback \in [Streams -> Labels]
  /\ apiInfo \in [Streams -> 0 .. streams]

(* What plays has a stream that runs and a thread, awake, that renders it, *)
(* however playing, stopping, the end of other lists and the threads they  *)
(* leave behind fall together.                                             *)
Serves(s) ==
  \/ callback[s] = "loop"
  \/ callback[s] \in {"woken", "call", "after", "write"} /\ apiInfo[s] = live
PlayersHaveStream ==
  players # {} =>
    /\ streamOpen /\ state = "running" /\ isRunning /\ live # 0
    /\ \E s \in Streams : Serves(s)

(* A stream whose thread has not left is freed by nobody but that thread   *)
(* itself, from render: closeStream, called by anybody else, waits for it. *)
(* So a thread that outlives its stream, to serve the next one beside that *)
(* one's own thread, is one whose list has come to its end.                *)
OutlivedThroughRender ==
  [][\A s \in Streams :
       (s = live /\ callback[s] # "exited" /\ live' # live)
       => callback[s] = "join" /\ callback'[s] = "after"]_rtVars

(* A recording is closed as soon as its player is gone. *)
RtRecordingsClosed == \A p \in Players : file[p] = "open" => p \in players

(* What plays comes to its end or is stopped, also beside threads that     *)
(* have outlived earlier streams, as long as none uses what was freed.     *)
PlayersFinish ==
  \A p \in Players : p \in players ~> p \notin players \/ ~ UsesOpenStream

(* A thread joins the thread of the open stream with the mutex held, which *)
(* that one waits for before it renders; or wakes, in place of that one, a *)
(* thread that has outlived its own stream.                                *)
WaitInACircle ==
  /\ callback[live] = "call"
  /\ \/ \E c \in Clients : client[c] = "join"
     \/ \E s \in Streams \ {live} : callback[s] = "join"
WokenInstead ==
  callback[live] = "asleep" /\ \E s \in Streams \ {live} : apiInfo[s] = live

(* stop returns, on every stream that is opened, in all but these two      *)
(* cases; the README (line 14) promises it in every case: "the language    *)
(* can run multiple threads without deadlock or corruption".               *)
StopReturns ==
  \A c \in Clients :
    client[c] # "idle" ~>
      client[c] = "idle" \/ WaitInACircle \/ WokenInstead \/ ~ UsesOpenStream
=============================================================================
