--------------------------- MODULE BackendsProofs ---------------------------
(***************************************************************************)
(* What holds of the ALSA, RtAudio and RtMidi backends for any number of   *)
(* threads, players, streams and ports, for lists of any length and for    *)
(* any well-formed messages.  They are proved about apart: no behaviour is *)
(* one of two of them, and only the audio backends share state, that of    *)
(* AudioPlayers.                                                           *)
(***************************************************************************)
EXTENDS AlsaBackend, RtAudioBackend, RtMidiBackend, FiniteSetTheorems, TLAPS

-----------------------------------------------------------------------------
(* Finalized closes the files of some players and touches no others.       *)
LEMMA FinalizedFile ==
  ASSUME NEW ps, file \in [Players -> {"none", "open", "closed"}]
  PROVE  /\ Finalized(ps) \in [Players -> {"none", "open", "closed"}]
         /\ \A p \in Players :
              Finalized(ps)[p] = "open" => file[p] = "open" /\ p \notin ps
<1> DEFINE shut(p) == IF p \in ps /\ file[p] = "open" THEN "closed" ELSE file[p]
<1>1. Finalized(ps) = [p \in Players |-> shut(p)]
  BY DEF Finalized
<1>2. \A p \in Players : /\ shut(p) \in {"none", "open", "closed"}
                         /\ shut(p) = "open" => file[p] = "open" /\ p \notin ps
  OBVIOUS
<1> HIDE DEF shut
<1> QED BY <1>1, <1>2

(* A player that is pushed keeps the types of what the backend holds.      *)
LEMMA PlayIntoType ==
  ASSUME PlayersTypeOK, NEW p \in fresh, PlayInto(p)
  PROVE  /\ fresh' \subseteq Players /\ players' \subseteq Players \ fresh'
         /\ file' \in [Players -> {"none", "open", "closed"}]
  BY DEF PlayersTypeOK, PlayInto

(* What MixBlock does to the players it mixes.                             *)
LEMMA MixBlockType ==
  ASSUME PlayersTypeOK, MixBlock, UNCHANGED fresh
  PROVE  /\ players' \subseteq players /\ players' \subseteq Players \ fresh'
         /\ left' \in [Players -> 0 .. Length]
         /\ file' \in [Players -> {"none", "open", "closed"}]
         /\ \A p \in Players : file'[p] = "open" =>
              file[p] = "open" /\ (p \in players => p \in players')
<1> DEFINE done == {p \in players : left[p] <= 1}
<1>1. /\ players' = players \ done /\ file' = Finalized(done)
      /\ left' = [p \in Players |-> IF p \in players /\ left[p] > 0 THEN left[p] - 1 ELSE left[p]]
  BY DEF MixBlock
<1>2. left' \in [Players -> 0 .. Length]
  BY <1>1, PlayersAssumption DEF PlayersTypeOK
<1> HIDE DEF done
<1>3. players' \subseteq players /\ players' \subseteq Players \ fresh'
  BY <1>1 DEF PlayersTypeOK
<1>4. /\ file' \in [Players -> {"none", "open", "closed"}]
      /\ \A p \in Players : file'[p] = "open" => file[p] = "open" /\ p \notin done
  BY <1>1, FinalizedFile DEF PlayersTypeOK
<1> QED BY <1>1, <1>2, <1>3, <1>4

-----------------------------------------------------------------------------
LEMMA AlsaTypeInit == AlsaInit => AlsaTypeOK
<1> SUFFICES ASSUME AlsaInit PROVE AlsaTypeOK
  OBVIOUS
<1> USE PlayersAssumption, AlsaAssumption DEF AlsaInit, NothingPlayed
<1>1. /\ fresh \subseteq Players /\ players \subseteq Players \ fresh
      /\ abandoned \subseteq Players
  OBVIOUS
<1>2. /\ left \in [Players -> 0 .. Length]
      /\ file \in [Players -> {"none", "open", "closed"}]
      /\ client \in [Clients -> {"idle", "notify", "notifyAll", "join", "destroyed"}]
  OBVIOUS
<1>3. /\ pcm \in 0 .. opens /\ opens \in 0 .. MaxOpens /\ failures \in 0 .. MaxFailures
      /\ stops \in 0 .. MaxStops /\ handle \in 0 .. opens
  OBVIOUS
<1>4. running \in BOOLEAN /\ notified \in BOOLEAN /\ aborted \in BOOLEAN
  OBVIOUS
<1> QED BY <1>1, <1>2, <1>3, <1>4 DEF AlsaTypeOK, PlayersTypeOK

(* Every step of an interpreter thread keeps the types. *)
LEMMA AlsaTypeClient ==
  ASSUME AlsaTypeOK, NEW c \in Clients, Client(c)
  PROVE  AlsaTypeOK'
<1> USE PlayersAssumption, AlsaAssumption DEF device
<1>1. CASE AlsaPlay(c)
  <2>1. PICK p \in fresh : PlayInto(p)
    BY <1>1 DEF AlsaPlay
  <2>2. /\ fresh' \subseteq Players /\ players' \subseteq Players \ fresh'
        /\ file' \in [Players -> {"none", "open", "closed"}]
    BY <2>1, PlayIntoType DEF AlsaTypeOK
  <2>3. client' \in [Clients -> {"idle", "notify", "notifyAll", "join", "destroyed"}]
    BY <1>1 DEF AlsaTypeOK, PlayersTypeOK, AlsaPlay
  <2> QED BY <1>1, <2>2, <2>3 DEF AlsaTypeOK, PlayersTypeOK, AlsaPlay
<1>2. CASE Notify(c)      BY <1>2 DEF AlsaTypeOK, PlayersTypeOK, Notify, NotifyAudio, Waiting
<1>3. CASE AlsaStopAll(c)
  <2>1. file' \in [Players -> {"none", "open", "closed"}]
    BY <1>3, FinalizedFile DEF AlsaTypeOK, PlayersTypeOK, AlsaStopAll
  <2> QED BY <1>3, <2>1 DEF AlsaTypeOK, PlayersTypeOK, AlsaStopAll, MutexIsFree
<1>4. CASE AlsaStopFinished(c) BY <1>4 DEF AlsaTypeOK, PlayersTypeOK, AlsaStopFinished, MutexIsFree
<1>5. CASE Destroy(c)
  <2>1. running' \in BOOLEAN
    BY <1>5 DEF Destroy
  <2>2. /\ players' \subseteq Players \ fresh' /\ abandoned' \subseteq Players
        /\ client' \in [Clients -> {"idle", "notify", "notifyAll", "join", "destroyed"}]
        /\ pcm' \in 0 .. opens'
    BY <1>5 DEF AlsaTypeOK, PlayersTypeOK, Destroy
  <2> QED BY <1>5, <2>1, <2>2 DEF AlsaTypeOK, PlayersTypeOK, Destroy
<1>6. CASE NotifyAll(c)   BY <1>6 DEF AlsaTypeOK, PlayersTypeOK, NotifyAll, NotifyAudio, Waiting
<1>7. CASE AlsaJoin(c)        BY <1>7 DEF AlsaTypeOK, PlayersTypeOK, AlsaJoin
<1> QED BY <1>1, <1>2, <1>3, <1>4, <1>5, <1>6, <1>7 DEF Client

(* Every step of the audio thread keeps the types. *)
LEMMA TypeAudio ==
  ASSUME AlsaTypeOK, AudioThread
  PROVE  AlsaTypeOK'
<1> USE PlayersAssumption, AlsaAssumption DEF device, AudioOnly
<1>1. CASE Wake           BY <1>1 DEF AlsaTypeOK, PlayersTypeOK, Wake
<1>2. CASE Retry          BY <1>2 DEF AlsaTypeOK, PlayersTypeOK, Retry
<1>3. CASE ExitLoop       BY <1>3 DEF AlsaTypeOK, PlayersTypeOK, ExitLoop
<1>4. CASE WaitForPlayers BY <1>4 DEF AlsaTypeOK, PlayersTypeOK, WaitForPlayers
<1>5. CASE OpenFails      BY <1>5 DEF AlsaTypeOK, PlayersTypeOK, OpenFails
<1>6. CASE Mix
  <2>1. MixBlock /\ UNCHANGED <<fresh, failures, stops>> /\ handle' = handle
    BY <1>6 DEF Mix
  <2>2. PlayersTypeOK'
    BY <2>1, MixBlockType DEF AlsaTypeOK, PlayersTypeOK
  <2>3. pcm' \in 0 .. opens' /\ opens' \in 0 .. MaxOpens /\ handle' \in 0 .. opens'
    BY <1>6, <2>1 DEF AlsaTypeOK, Mix, Opened
  <2> QED BY <1>6, <2>2, <2>3 DEF AlsaTypeOK, Mix
<1>7. CASE MixThrows      BY <1>7 DEF AlsaTypeOK, PlayersTypeOK, MixThrows, Opened
<1>8. CASE TestPcm        BY <1>8 DEF AlsaTypeOK, PlayersTypeOK, TestPcm
<1>9. CASE BeginWrite     BY <1>9 DEF AlsaTypeOK, PlayersTypeOK, BeginWrite
<1>10. CASE WritePart     BY <1>10 DEF AlsaTypeOK, PlayersTypeOK, WritePart
<1>11. CASE WriteRest     BY <1>11 DEF AlsaTypeOK, PlayersTypeOK, WriteRest
<1>12. CASE Relock        BY <1>12 DEF AlsaTypeOK, PlayersTypeOK, Relock
<1> QED
  BY <1>1, <1>2, <1>3, <1>4, <1>5, <1>6, <1>7, <1>8, <1>9, <1>10, <1>11, <1>12
  DEF AudioThread

LEMMA AlsaTypeStep == AlsaTypeOK /\ [AlsaNext]_alsaVars => AlsaTypeOK'
<1> SUFFICES ASSUME AlsaTypeOK, [AlsaNext]_alsaVars PROVE AlsaTypeOK'
  OBVIOUS
<1>1. CASE AudioThread BY <1>1, TypeAudio
<1>2. CASE \E c \in Clients : Client(c) BY <1>2, AlsaTypeClient
<1>3. CASE UNCHANGED alsaVars BY <1>3 DEF AlsaTypeOK, PlayersTypeOK, alsaVars
<1> QED BY <1>1, <1>2, <1>3 DEF AlsaNext

(* Every variable of the backend stays within its type.                    *)
THEOREM AlsaTypeCorrect == AlsaSpec => []AlsaTypeOK
  BY AlsaTypeInit, AlsaTypeStep, PTL DEF AlsaSpec

-----------------------------------------------------------------------------
(* IdleDeviceClosed is not inductive: the audio thread goes to sleep after *)
(* a turn of its loop in which it found no player, and what matters is     *)
(* that the device was closed when the last one went.                      *)
LoopDeviceClosed == audio = "loop" /\ players = {} => pcm = 0
StoppedDeviceClosed == ~ running => pcm = 0
ExitedIsStopped == audio = "exited" => ~ running
DeviceInv ==
  IdleDeviceClosed /\ LoopDeviceClosed /\ StoppedDeviceClosed /\ ExitedIsStopped

LEMMA DeviceClient ==
  ASSUME DeviceInv, NEW c \in Clients, Client(c)
  PROVE  DeviceInv'
<1> USE DEF DeviceInv, IdleDeviceClosed, LoopDeviceClosed, StoppedDeviceClosed,
            ExitedIsStopped, device, MutexIsFree
<1>1. CASE AlsaPlay(c)         BY <1>1 DEF AlsaPlay
<1>2. CASE Notify(c)       BY <1>2 DEF Notify
<1>3. CASE AlsaStopAll(c)      BY <1>3 DEF AlsaStopAll
<1>4. CASE AlsaStopFinished(c) BY <1>4 DEF AlsaStopFinished
<1>5. CASE Destroy(c)      BY <1>5 DEF Destroy
<1>6. CASE NotifyAll(c)    BY <1>6 DEF NotifyAll
<1>7. CASE AlsaJoin(c)         BY <1>7 DEF AlsaJoin
<1> QED BY <1>1, <1>2, <1>3, <1>4, <1>5, <1>6, <1>7 DEF Client

LEMMA DeviceAudio ==
  ASSUME DeviceInv, AudioThread
  PROVE  DeviceInv'
<1> USE DEF DeviceInv, IdleDeviceClosed, LoopDeviceClosed, StoppedDeviceClosed,
            ExitedIsStopped, device, AudioOnly
<1>1. CASE Wake           BY <1>1 DEF Wake
<1>2. CASE Retry          BY <1>2 DEF Retry
<1>3. CASE ExitLoop       BY <1>3 DEF ExitLoop
<1>4. CASE WaitForPlayers BY <1>4 DEF WaitForPlayers
<1>5. CASE OpenFails      BY <1>5 DEF OpenFails
<1>6. CASE Mix            BY <1>6 DEF Mix
<1>7. CASE MixThrows      BY <1>7 DEF MixThrows
<1>8. CASE TestPcm        BY <1>8 DEF TestPcm
<1>9. CASE BeginWrite     BY <1>9 DEF BeginWrite
<1>10. CASE WritePart     BY <1>10 DEF WritePart
<1>11. CASE WriteRest     BY <1>11 DEF WriteRest
<1>12. CASE Relock        BY <1>12 DEF Relock
<1> QED
  BY <1>1, <1>2, <1>3, <1>4, <1>5, <1>6, <1>7, <1>8, <1>9, <1>10, <1>11, <1>12
  DEF AudioThread

LEMMA DeviceStep == DeviceInv /\ [AlsaNext]_alsaVars => DeviceInv'
<1> SUFFICES ASSUME DeviceInv, [AlsaNext]_alsaVars PROVE DeviceInv'
  OBVIOUS
<1>1. CASE AudioThread BY <1>1, DeviceAudio
<1>2. CASE \E c \in Clients : Client(c) BY <1>2, DeviceClient
<1>3. CASE UNCHANGED alsaVars
  BY <1>3 DEF alsaVars, DeviceInv, IdleDeviceClosed, LoopDeviceClosed, StoppedDeviceClosed, ExitedIsStopped
<1> QED BY <1>1, <1>2, <1>3 DEF AlsaNext

(* While the audio thread sleeps, and after it has left its loop, the      *)
(* device is closed: closePcmLocked runs with the removal of the last      *)
(* player whichever thread removes it.                                     *)
THEOREM DeviceGivenBack == AlsaSpec => []IdleDeviceClosed
<1>1. AlsaInit => DeviceInv
  BY DEF AlsaInit, NothingPlayed, DeviceInv, IdleDeviceClosed, LoopDeviceClosed, StoppedDeviceClosed, ExitedIsStopped
<1>2. DeviceInv => IdleDeviceClosed BY DEF DeviceInv
<1> QED BY <1>1, <1>2, DeviceStep, PTL DEF AlsaSpec

-----------------------------------------------------------------------------
(* While a block is on its way the device is the one that was opened last, *)
(* which the audio thread has read, or it has been closed by a stop.       *)
DeviceUnderWriter ==
  audio \in {"mixed", "write", "writing"} =>
    \/ pcm = 0 /\ (stops > 0 \/ ~ running)
    \/ pcm # 0 /\ pcm = opens /\ (audio # "mixed" => handle = pcm)
DeviceInLoop == audio \in {"loop", "relock"} /\ pcm # 0 => pcm = opens
AsleepIsClosed == audio \in {"wait", "retry"} => pcm = 0
WriterInv == AlsaTypeOK /\ DeviceUnderWriter /\ DeviceInLoop /\ AsleepIsClosed /\ DeviceInv

LEMMA WriterClient ==
  ASSUME WriterInv, NEW c \in Clients, Client(c)
  PROVE  (DeviceUnderWriter /\ DeviceInLoop /\ AsleepIsClosed)'
<1> USE PlayersAssumption, AlsaAssumption DEF WriterInv, AlsaTypeOK, PlayersTypeOK, DeviceUnderWriter, DeviceInLoop, AsleepIsClosed, device
<1>1. CASE AlsaPlay(c)         BY <1>1 DEF AlsaPlay
<1>2. CASE Notify(c)       BY <1>2 DEF Notify
<1>3. CASE AlsaStopAll(c)      BY <1>3 DEF AlsaStopAll, MutexIsFree
<1>4. CASE AlsaStopFinished(c) BY <1>4 DEF AlsaStopFinished, MutexIsFree
<1>5. CASE Destroy(c)      BY <1>5 DEF Destroy
<1>6. CASE NotifyAll(c)    BY <1>6 DEF NotifyAll
<1>7. CASE AlsaJoin(c)         BY <1>7 DEF AlsaJoin
<1> QED BY <1>1, <1>2, <1>3, <1>4, <1>5, <1>6, <1>7 DEF Client

LEMMA WriterAudio ==
  ASSUME WriterInv, PcmOpen, AudioThread
  PROVE  (DeviceUnderWriter /\ DeviceInLoop /\ AsleepIsClosed)'
<1> USE PlayersAssumption, AlsaAssumption
    DEF WriterInv, AlsaTypeOK, PlayersTypeOK, DeviceUnderWriter, DeviceInLoop, AsleepIsClosed, device, AudioOnly
<1>1. CASE Wake           BY <1>1 DEF Wake
<1>2. CASE Retry          BY <1>2 DEF Retry
<1>3. CASE ExitLoop       BY <1>3 DEF ExitLoop
<1>4. CASE WaitForPlayers BY <1>4 DEF WaitForPlayers, DeviceInv, LoopDeviceClosed
<1>5. CASE OpenFails      BY <1>5 DEF OpenFails
<1>6. CASE Mix            BY <1>6 DEF Mix, Opened
<1>7. CASE MixThrows      BY <1>7 DEF MixThrows, Opened
<1>8. CASE TestPcm        BY <1>8 DEF TestPcm
<1>9. CASE BeginWrite     BY <1>9 DEF BeginWrite
<1>10. CASE WritePart     BY <1>10 DEF WritePart, PcmOpen, Writing
<1>11. CASE WriteRest     BY <1>11 DEF WriteRest, PcmOpen, Writing
<1>12. CASE Relock        BY <1>12 DEF Relock
<1> QED
  BY <1>1, <1>2, <1>3, <1>4, <1>5, <1>6, <1>7, <1>8, <1>9, <1>10, <1>11, <1>12
  DEF AudioThread

(* The device under a write is the one it was begun on, unless stop,       *)
(* stopDone or the destructor has closed it: audioThreadLoop never closes  *)
(* or replaces the device between its test of pcm_ and the last            *)
(* snd_pcm_writei.                                                         *)
THEOREM DevicePulledByStopOnly == AlsaSpec => []OnlyStopPullsDevice
<1>1. AlsaInit => WriterInv
  BY AlsaTypeInit DEF AlsaInit, NothingPlayed, WriterInv, DeviceUnderWriter, DeviceInLoop, AsleepIsClosed,
                  DeviceInv, IdleDeviceClosed, LoopDeviceClosed, StoppedDeviceClosed, ExitedIsStopped
<1>2. WriterInv /\ [AlsaNext]_alsaVars => WriterInv'
  <2> SUFFICES ASSUME WriterInv, [AlsaNext]_alsaVars PROVE (DeviceUnderWriter /\ DeviceInLoop /\ AsleepIsClosed)'
    BY AlsaTypeStep, DeviceStep DEF WriterInv
  <2>1. CASE PcmOpen /\ AudioThread BY <2>1, WriterAudio
  <2>2. CASE \E c \in Clients : Client(c) BY <2>2, WriterClient
  <2>3. CASE UNCHANGED alsaVars
    BY <2>3 DEF alsaVars, WriterInv, DeviceUnderWriter, DeviceInLoop, AsleepIsClosed
  <2> QED BY <2>1, <2>2, <2>3 DEF AlsaNext
<1>3. WriterInv => OnlyStopPullsDevice
  BY DEF WriterInv, DeviceUnderWriter, OnlyStopPullsDevice, PcmOpen, Writing
<1> QED BY <1>1, <1>2, <1>3, PTL DEF AlsaSpec

-----------------------------------------------------------------------------
LEMMA RecordingsClient ==
  ASSUME AlsaTypeOK, AlsaRecordingsClosed, NEW c \in Clients, Client(c)
  PROVE  AlsaRecordingsClosed'
<1> USE DEF AlsaRecordingsClosed
<1>1. CASE AlsaPlay(c)
  <2>1. PICK q \in fresh : PlayInto(q)
    BY <1>1 DEF AlsaPlay
  <2> QED BY <1>1, <2>1 DEF AlsaTypeOK, PlayersTypeOK, PlayInto, AlsaPlay
<1>2. CASE Notify(c)       BY <1>2 DEF Notify
<1>3. CASE AlsaStopAll(c)
  <2>1. \A p \in Players : file'[p] = "open" => file[p] = "open" /\ p \notin players
    BY <1>3, FinalizedFile DEF AlsaTypeOK, PlayersTypeOK, AlsaStopAll
  <2> QED BY <1>3, <2>1 DEF AlsaStopAll
<1>4. CASE AlsaStopFinished(c) BY <1>4 DEF AlsaStopFinished
<1>5. CASE Destroy(c)      BY <1>5 DEF Destroy
<1>6. CASE NotifyAll(c)    BY <1>6 DEF NotifyAll
<1>7. CASE AlsaJoin(c)         BY <1>7 DEF AlsaJoin
<1> QED BY <1>1, <1>2, <1>3, <1>4, <1>5, <1>6, <1>7 DEF Client

LEMMA RecordingsAudio ==
  ASSUME AlsaTypeOK, AlsaRecordingsClosed, AudioThread
  PROVE  AlsaRecordingsClosed'
<1>1. CASE Mix
  <2>1. MixBlock /\ fresh' = fresh /\ abandoned' = abandoned
    BY <1>1 DEF Mix, AudioOnly
  <2>2. \A p \in Players : file'[p] = "open" =>
          file[p] = "open" /\ (p \in players => p \in players')
    BY <2>1, MixBlockType DEF AlsaTypeOK
  <2> QED BY <2>1, <2>2 DEF AlsaRecordingsClosed
<1>2. CASE OpenFails      BY <1>2 DEF AlsaRecordingsClosed, OpenFails
<1>3. CASE UNCHANGED <<players, file, abandoned>>
  BY <1>3 DEF AlsaRecordingsClosed
<1> QED
  BY <1>1, <1>2, <1>3
  DEF AudioThread, Wake, Retry, ExitLoop, WaitForPlayers, MixThrows, TestPcm, BeginWrite,
      WritePart, WriteRest, Relock

(* A recording that is open belongs to a player that plays, or to one that *)
(* was dropped with the device or at shutdown.                             *)
THEOREM AlsaRecordingsAreClosed == AlsaSpec => []AlsaRecordingsClosed
<1>1. AlsaInit => AlsaTypeOK /\ AlsaRecordingsClosed
  BY AlsaTypeInit DEF AlsaInit, NothingPlayed, AlsaRecordingsClosed
<1>2. (AlsaTypeOK /\ AlsaRecordingsClosed) /\ [AlsaNext]_alsaVars => (AlsaTypeOK /\ AlsaRecordingsClosed)'
  <2> SUFFICES ASSUME AlsaTypeOK, AlsaRecordingsClosed, [AlsaNext]_alsaVars PROVE AlsaRecordingsClosed'
    BY AlsaTypeStep
  <2>1. CASE AudioThread BY <2>1, RecordingsAudio
  <2>2. CASE \E c \in Clients : Client(c) BY <2>2, RecordingsClient
  <2>3. CASE UNCHANGED alsaVars BY <2>3 DEF alsaVars, AlsaRecordingsClosed
  <2> QED BY <2>1, <2>2, <2>3 DEF AlsaNext
<1> QED BY <1>1, <1>2, PTL DEF AlsaSpec

-----------------------------------------------------------------------------
LEMMA RtTypeInit == RtInit => RtTypeOK
<1> SUFFICES ASSUME RtInit PROVE RtTypeOK
  OBVIOUS
<1> USE PlayersAssumption, RtAudioAssumption DEF RtInit, NothingPlayed
<1>1. /\ fresh \subseteq Players /\ players \subseteq Players \ fresh
      /\ left \in [Players -> 0 .. Length]
      /\ file \in [Players -> {"none", "open", "closed"}]
  OBVIOUS
<1>2. /\ streamOpen \in BOOLEAN /\ isRunning \in BOOLEAN
      /\ state \in {"closed", "stopped", "running"}
      /\ mutex \in {"none", "client", "callback"}
  OBVIOUS
<1>3. /\ client \in [Clients -> {"idle", "close", "join"}]
      /\ callback \in [Streams -> Labels]
  BY DEF Labels
<1>4. /\ streams \in 0 .. MaxStreams /\ live \in 0 .. streams
      /\ failures \in 0 .. MaxFailures /\ stops \in 0 .. MaxStops
      /\ apiInfo \in [Streams -> 0 .. streams]
  OBVIOUS
<1> QED BY <1>1, <1>2, <1>3, <1>4 DEF RtTypeOK, PlayersTypeOK

LEMMA OpenStreamType ==
  ASSUME RtTypeOK, OpenStream
  PROVE  /\ streams' \in 0 .. MaxStreams /\ streams' = streams + 1
         /\ live' = streams' /\ live' \in Streams
         /\ streamOpen' = TRUE /\ isRunning' = TRUE /\ state' = "running"
         /\ callback' \in [Streams -> Labels]
         /\ apiInfo' \in [Streams -> 0 .. streams']
<1> DEFINE new == streams + 1
<1>1. /\ streams \in Nat /\ streams < MaxStreams /\ streams' = new /\ live' = new
      /\ streamOpen' = TRUE /\ isRunning' = TRUE /\ state' = "running"
  BY PlayersAssumption, RtAudioAssumption DEF RtTypeOK, PlayersTypeOK, OpenStream
<1>2. new \in Streams /\ new \in 0 .. MaxStreams
  BY <1>1, RtAudioAssumption DEF Streams
<1>3. PICK early \in SUBSET Streams, woken \in Streams :
        /\ apiInfo' = [s \in Streams |-> IF s \in early THEN new ELSE apiInfo[s]]
        /\ callback' = [s \in Streams |->
                         IF s \in early THEN IF s = woken THEN "woken" ELSE "asleep"
                         ELSE IF s = new THEN "loop" ELSE callback[s]]
  BY <1>2 DEF OpenStream
<1>4. callback' \in [Streams -> Labels]
  BY <1>3 DEF RtTypeOK, Labels
<1>5. \A s \in Streams : apiInfo[s] \in 0 .. streams
  BY DEF RtTypeOK
<1>6. apiInfo' \in [Streams -> 0 .. new]
  BY <1>1, <1>3, <1>5
<1> QED BY <1>1, <1>2, <1>4, <1>6

(* While the stream opens, the threads that wait are not all left asleep.  *)
LEMMA OpenStreamServes ==
  ASSUME RtTypeOK, OpenStream
  PROVE  \E s \in Streams : Serves(s)'
<1> DEFINE new == streams + 1
<1>1. live' = new /\ new \in Streams
  BY OpenStreamType
<1>2. PICK early \in SUBSET Streams, woken \in Streams :
        /\ early # {} => woken \in early
        /\ apiInfo' = [s \in Streams |-> IF s \in early THEN new ELSE apiInfo[s]]
        /\ callback' = [s \in Streams |->
                         IF s \in early THEN IF s = woken THEN "woken" ELSE "asleep"
                         ELSE IF s = new THEN "loop" ELSE callback[s]]
  BY <1>1 DEF OpenStream
<1>3. CASE early = {}
  BY <1>1, <1>2, <1>3 DEF Serves
<1>4. CASE early # {}
  <2>1. woken \in early BY <1>2, <1>4
  <2>2. callback'[woken] = "woken" /\ apiInfo'[woken] = live'
    BY <1>1, <1>2, <2>1
  <2> QED BY <2>2 DEF Serves
<1> QED BY <1>3, <1>4

LEMMA SignalType ==
  ASSUME NEW cb \in [Streams -> Labels], SignalClose(cb)
  PROVE  callback' \in [Streams -> Labels] /\ isRunning' \in BOOLEAN
  BY DEF SignalClose, Labels

LEMMA TypePlay ==
  ASSUME RtTypeOK, NEW c \in Clients, RtPlay(c)
  PROVE  RtTypeOK'
<1>1. /\ fresh' \subseteq Players /\ players' \subseteq Players \ fresh'
      /\ file' \in [Players -> {"none", "open", "closed"}]
  BY PlayIntoType DEF RtTypeOK, RtPlay
<1>2. CASE streamOpen
  BY <1>1, <1>2 DEF RtTypeOK, PlayersTypeOK, RtPlay, stream
<1>3. CASE ~ streamOpen
  <2>1. OpenStream
    BY <1>3 DEF RtPlay
  <2>2. live' \in 0 .. streams'
    BY <2>1, OpenStreamType, RtAudioAssumption
  <2>3. streamOpen' \in BOOLEAN /\ isRunning' \in BOOLEAN
    BY <2>1, OpenStreamType
  <2> QED BY <1>1, <2>1, <2>2, <2>3, OpenStreamType DEF RtTypeOK, PlayersTypeOK, RtPlay
<1> QED BY <1>2, <1>3

LEMMA CloseStreamType ==
  ASSUME RtTypeOK, NEW c \in Clients, CloseStream(c)
  PROVE  /\ state' \in {"closed", "stopped", "running"}
         /\ mutex' \in {"none", "client", "callback"}
         /\ client' \in [Clients -> {"idle", "close", "join"}]
<1>1. CASE streamOpen   BY <1>1 DEF RtTypeOK, CloseStream, StopStream
<1>2. CASE ~ streamOpen BY <1>2 DEF RtTypeOK, CloseStream
<1> QED BY <1>1, <1>2

(* Every step of an interpreter thread keeps the types. *)
LEMMA RtTypeClient ==
  ASSUME RtTypeOK, NEW c \in Clients,
         RtPlay(c) \/ PlayFails(c) \/ RtStopAll(c) \/ RtStopFinished(c) \/ Stopping(c)
  PROVE  RtTypeOK'
<1> USE PlayersAssumption, RtAudioAssumption DEF stream, playing
<1>1. CASE RtPlay(c)         BY <1>1, TypePlay
<1>2. CASE PlayFails(c)
  <2>1. /\ fresh' \subseteq Players /\ players' \subseteq Players \ fresh'
        /\ file' \in [Players -> {"none", "open", "closed"}]
    BY <1>2 DEF RtTypeOK, PlayersTypeOK, PlayFails
  <2> QED BY <1>2, <2>1 DEF RtTypeOK, PlayersTypeOK, PlayFails
<1>3. CASE RtStopAll(c)
  <2>1. file' \in [Players -> {"none", "open", "closed"}]
    BY <1>3, FinalizedFile DEF RtTypeOK, PlayersTypeOK, RtStopAll
  <2>2. CloseStream(c) BY <1>3 DEF RtStopAll
  <2> QED BY <1>3, <2>1, <2>2, CloseStreamType DEF RtTypeOK, PlayersTypeOK, RtStopAll
<1>4. CASE RtStopFinished(c)
  <2>1. CloseStream(c) BY <1>4 DEF RtStopFinished
  <2> QED BY <1>4, <2>1, CloseStreamType DEF RtTypeOK, PlayersTypeOK, RtStopFinished
<1>5. CASE RtClose(c)
  <2>1. callback' \in [Streams -> Labels] /\ isRunning' \in BOOLEAN
    BY <1>5, SignalType DEF RtTypeOK, RtClose
  <2> QED BY <1>5, <2>1 DEF RtTypeOK, PlayersTypeOK, RtClose
<1>6. CASE RtJoin(c)
  <2>1. streamOpen' \in BOOLEAN /\ isRunning' \in BOOLEAN
    BY <1>6 DEF RtJoin, FreeStream
  <2> QED BY <1>6, <2>1 DEF RtTypeOK, PlayersTypeOK, RtJoin, FreeStream
<1> QED BY <1>1, <1>2, <1>3, <1>4, <1>5, <1>6 DEF Stopping

(* Every step of a callback thread keeps the types. *)
LEMMA TypeCallback ==
  ASSUME RtTypeOK, NEW s \in Streams, CallbackThread(s)
  PROVE  RtTypeOK'
<1> USE PlayersAssumption, RtAudioAssumption DEF stream, playing, Others
<1>1. ASSUME NEW label \in Labels, At(s, label) PROVE callback' \in [Streams -> Labels]
  BY <1>1 DEF At, RtTypeOK
<1>2. CASE BeginEvent(s)
  <2>1. apiInfo' \in [Streams -> 0 .. streams]
    BY <1>2 DEF RtTypeOK, PlayersTypeOK, BeginEvent
  <2>2. callback' \in [Streams -> Labels]
    BY <1>1, <1>2 DEF BeginEvent, Labels
  <2> QED BY <1>2, <2>1, <2>2 DEF RtTypeOK, PlayersTypeOK, BeginEvent
<1>3. CASE WakeUp(s)
  <2>1. callback' \in [Streams -> Labels]
    BY <1>1, <1>3 DEF WakeUp, Labels
  <2> QED BY <1>3, <2>1 DEF RtTypeOK, PlayersTypeOK, WakeUp
<1>4. CASE Render(s)
  <2>1. MixBlock /\ UNCHANGED fresh BY <1>4 DEF Render
  <2>2. callback' \in [Streams -> Labels] BY <1>1, <1>4 DEF Render, Labels
  <2> QED BY <1>4, <2>1, <2>2, MixBlockType DEF RtTypeOK, PlayersTypeOK, Render
<1>5. CASE RenderCloses(s)
  <2>1. MixBlock /\ UNCHANGED fresh BY <1>5 DEF RenderCloses
  <2>2. callback' \in [Streams -> Labels] BY <1>1, <1>5 DEF RenderCloses, Labels
  <2>3. state' \in {"closed", "stopped", "running"} /\ mutex' \in {"none", "client", "callback"}
    BY <1>5 DEF RtTypeOK, RenderCloses, StopStream
  <2> QED BY <1>5, <2>1, <2>2, <2>3, MixBlockType DEF RtTypeOK, PlayersTypeOK, RenderCloses
<1>6. CASE RenderSignals(s)
  <2>1. [callback EXCEPT ![s] = "join"] \in [Streams -> Labels]
    BY DEF RtTypeOK, Labels
  <2>2. callback' \in [Streams -> Labels] /\ isRunning' \in BOOLEAN
    BY <1>6, <2>1, SignalType DEF RenderSignals
  <2> QED BY <1>6, <2>2 DEF RtTypeOK, PlayersTypeOK, RenderSignals
<1>7. CASE RenderJoins(s)
  <2>1. callback' \in [Streams -> Labels] BY <1>1, <1>7 DEF RenderJoins, Labels
  <2>2. streamOpen' \in BOOLEAN /\ isRunning' \in BOOLEAN
    BY <1>7 DEF RenderJoins, FreeStream
  <2> QED BY <1>7, <2>1, <2>2 DEF RtTypeOK, PlayersTypeOK, RenderJoins, FreeStream
<1>8. CASE RenderFreed(s) \/ AfterRender(s) \/ Write(s)
  <2>1. callback' \in [Streams -> Labels]
    BY <1>1, <1>8 DEF RenderFreed, AfterRender, Write, Labels
  <2> QED BY <1>8, <2>1 DEF RtTypeOK, PlayersTypeOK, RenderFreed, AfterRender, Write
<1> QED BY <1>2, <1>3, <1>4, <1>5, <1>6, <1>7, <1>8 DEF CallbackThread

LEMMA RtTypeStep == RtTypeOK /\ [RtNext]_rtVars => RtTypeOK'
<1> SUFFICES ASSUME RtTypeOK, [RtNext]_rtVars PROVE RtTypeOK'
  OBVIOUS
<1>1. CASE \E c \in Clients :
             RtPlay(c) \/ PlayFails(c) \/ RtStopAll(c) \/ RtStopFinished(c) \/ Stopping(c)
  BY <1>1, RtTypeClient
<1>2. CASE \E s \in Streams : CallbackThread(s) BY <1>2, TypeCallback
<1>3. CASE UNCHANGED rtVars BY <1>3 DEF RtTypeOK, PlayersTypeOK, rtVars
<1> QED BY <1>1, <1>2, <1>3 DEF RtNext

(* Every variable of the backend and of the library stays within its type. *)
THEOREM RtTypeCorrect == RtSpec => []RtTypeOK
  BY RtTypeInit, RtTypeStep, PTL DEF RtSpec
-----------------------------------------------------------------------------
(* PlayersHaveStream is not inductive.  While somebody waits in            *)
(* closeStreamLocked the stream is marked open but stopped; what keeps     *)
(* players away from it is that the mutex is held all that time.  And that *)
(* some thread serves what plays, though any may have gone to sleep, rests *)
(* on this, that none goes to sleep or leaves while the stream runs.       *)
OpenStreamRuns ==
  streamOpen /\ mutex = "none" =>
    state = "running" /\ isRunning /\ live # 0 /\ \E s \in Streams : Serves(s)
PlayersNeedOpen == players # {} => streamOpen /\ mutex = "none"
Stops(c) == client[c] \in {"close", "join"}
Closes(s) == callback[s] \in {"close", "join"}
ClosingHoldsMutex ==
  /\ \A c \in Clients : Stops(c) => mutex = "client"
  /\ \A s \in Streams : Closes(s) => mutex = "callback"
  /\ \A c, d \in Clients : Stops(c) /\ Stops(d) => c = d
  /\ \A s, t \in Streams : Closes(s) /\ Closes(t) => s = t
StreamInv == OpenStreamRuns /\ PlayersNeedOpen /\ ClosingHoldsMutex

(* Opening a stream and signalling its end bring no thread into closeStream. *)
LEMMA OpenStreamCloses ==
  ASSUME RtTypeOK, OpenStream, NEW s \in Streams, Closes(s)' PROVE Closes(s)
<1>1. streams + 1 \in Streams BY OpenStreamType
<1> QED BY <1>1 DEF OpenStream, Closes

LEMMA SignalCloses ==
  ASSUME NEW cb \in [Streams -> Labels], SignalClose(cb),
         NEW s \in Streams, callback'[s] \in {"close", "join"}
  PROVE  cb[s] \in {"close", "join"} /\ callback'[s] = cb[s]
  BY DEF SignalClose

LEMMA StreamClient ==
  ASSUME RtTypeOK, StreamInv, NEW c \in Clients,
         RtPlay(c) \/ PlayFails(c) \/ RtStopAll(c) \/ RtStopFinished(c) \/ Stopping(c)
  PROVE  StreamInv'
<1> USE DEF StreamInv, stream, playing
<1>1. CASE RtPlay(c)
  <2>1. mutex = "none" /\ mutex' = "none" /\ client' = client
    BY <1>1 DEF RtPlay
  <2>2. CASE streamOpen
    <3>1. UNCHANGED <<stream, callback, apiInfo>> BY <1>1, <2>2 DEF RtPlay
    <3> QED BY <2>1, <2>2, <3>1
        DEF OpenStreamRuns, PlayersNeedOpen, ClosingHoldsMutex, Stops, Closes, Serves
  <2>3. CASE ~ streamOpen
    <3>1. OpenStream BY <1>1, <2>3 DEF RtPlay
    <3>2. streamOpen' /\ isRunning' /\ state' = "running" /\ live' \in Streams
      BY <3>1, OpenStreamType
    <3>3. live' # 0 BY <3>2, PlayersAssumption, RtAudioAssumption DEF Streams
    <3>4. \E s \in Streams : Serves(s)' BY <3>1, OpenStreamServes
    <3>5. \A s \in Streams : ~ Closes(s)'
      BY <2>1, <3>1, OpenStreamCloses DEF ClosingHoldsMutex
    <3>6. ClosingHoldsMutex'
      BY <2>1, <3>5 DEF ClosingHoldsMutex, Stops
    <3> QED BY <2>1, <3>2, <3>3, <3>4, <3>6 DEF OpenStreamRuns, PlayersNeedOpen
  <2> QED BY <2>2, <2>3
<1>2. CASE PlayFails(c)
  BY <1>2
  DEF PlayFails, OpenStreamRuns, PlayersNeedOpen, ClosingHoldsMutex, Stops, Closes, Serves
<1>3. ASSUME CloseStream(c), client[c] = "idle", mutex = "none",
             UNCHANGED <<streamOpen, isRunning, live, callback, apiInfo>>, players' = {}
      PROVE  StreamInv'
  <2>1. CASE streamOpen
    <3>1. mutex' = "client" /\ client' = [client EXCEPT ![c] = "close"]
      BY <1>3, <2>1 DEF CloseStream
    <3>2. /\ \A d \in Clients : ~ Stops(d)
          /\ \A s \in Streams : ~ Closes(s)
      BY <1>3 DEF ClosingHoldsMutex
    <3>3. \A d \in Clients : Stops(d)' => d = c
      BY <3>1, <3>2 DEF Stops, RtTypeOK
    <3>4. \A s \in Streams : ~ Closes(s)'
      BY <1>3, <3>2 DEF Closes
    <3>5. ClosingHoldsMutex'
      BY <3>1, <3>3, <3>4 DEF ClosingHoldsMutex
    <3> QED BY <1>3, <3>1, <3>5 DEF OpenStreamRuns, PlayersNeedOpen
  <2>2. CASE ~ streamOpen
    BY <1>3, <2>2
    DEF CloseStream, OpenStreamRuns, PlayersNeedOpen, ClosingHoldsMutex, Stops, Closes
  <2> QED BY <2>1, <2>2
<1>4. CASE RtStopAll(c)      BY <1>3, <1>4 DEF RtStopAll
<1>5. CASE RtStopFinished(c) BY <1>3, <1>5 DEF RtStopFinished
<1>6. CASE RtClose(c)
  <2>1. Stops(c) /\ mutex' = mutex /\ players' = players /\ streamOpen' = streamOpen
    BY <1>6 DEF RtClose, Stops
  <2>2. mutex = "client" /\ players = {}
    BY <2>1 DEF ClosingHoldsMutex, PlayersNeedOpen
  <2>3. \A s \in Streams : ~ Closes(s)'
    <3>1. SUFFICES ASSUME NEW s \in Streams, Closes(s)' PROVE FALSE OBVIOUS
    <3>2. callback \in [Streams -> Labels] BY DEF RtTypeOK
    <3>3. SignalClose(callback) BY <1>6 DEF RtClose
    <3>4. Closes(s) BY <3>1, <3>2, <3>3, SignalCloses DEF Closes
    <3> QED BY <2>2, <3>4 DEF ClosingHoldsMutex
  <2>4. \A d \in Clients : Stops(d)' => Stops(d)
    BY <1>6 DEF RtClose, Stops, RtTypeOK
  <2> QED BY <2>1, <2>2, <2>3, <2>4 DEF OpenStreamRuns, PlayersNeedOpen, ClosingHoldsMutex
<1>7. CASE RtJoin(c)
  <2>1. /\ streamOpen' = FALSE /\ players' = players /\ callback' = callback
        /\ client' = [client EXCEPT ![c] = "idle"]
    BY <1>7 DEF RtJoin, FreeStream
  <2>2. Stops(c) BY <1>7 DEF RtJoin, Stops
  <2>3. players = {} /\ \A s \in Streams : ~ Closes(s)
    BY <2>2 DEF ClosingHoldsMutex, PlayersNeedOpen
  <2>4. \A d \in Clients : ~ Stops(d)'
    BY <2>1, <2>2 DEF ClosingHoldsMutex, Stops, RtTypeOK
  <2>5. \A s \in Streams : ~ Closes(s)'
    BY <2>1, <2>3 DEF Closes
  <2> QED BY <2>1, <2>3, <2>4, <2>5 DEF OpenStreamRuns, PlayersNeedOpen, ClosingHoldsMutex
<1> QED BY <1>1, <1>2, <1>4, <1>5, <1>6, <1>7 DEF Stopping

LEMMA StreamCallback ==
  ASSUME RtTypeOK, StreamInv, NEW s \in Streams, CallbackThread(s)
  PROVE  StreamInv'
<1> USE DEF StreamInv, stream, playing, Others
<1>1. ASSUME UNCHANGED <<client, mutex, streamOpen, state, isRunning, live>>,
             players' \subseteq players,
             \A t \in Streams \ {s} : callback'[t] = callback[t] /\ apiInfo'[t] = apiInfo[t],
             ~ Closes(s)',
             state = "running" /\ isRunning /\ Serves(s) => Serves(s)'
      PROVE  StreamInv'
  <2>1. \A t \in Streams : Closes(t)' => Closes(t)
    BY <1>1 DEF Closes
  <2>2. ClosingHoldsMutex'
    BY <1>1, <2>1 DEF ClosingHoldsMutex, Stops
  <2>3. \A t \in Streams \ {s} : Serves(t)' <=> Serves(t)
    BY <1>1 DEF Serves
  <2>4. OpenStreamRuns'
    BY <1>1, <2>3 DEF OpenStreamRuns
  <2> QED BY <1>1, <2>2, <2>4 DEF PlayersNeedOpen
<1>2. ASSUME NEW label \in Labels, At(s, label)
      PROVE  /\ callback'[s] = label
             /\ \A t \in Streams \ {s} : callback'[t] = callback[t]
  BY <1>2 DEF At, RtTypeOK
<1>3. CASE BeginEvent(s)
  <2>1. PICK label \in {"exited", "call", "asleep"} :
          /\ At(s, label)
          /\ label # "call" => ~ (state = "running" /\ isRunning)
          /\ label = "call" => apiInfo'[s] = live
          /\ \A t \in Streams \ {s} : apiInfo'[t] = apiInfo[t]
    BY <1>3 DEF BeginEvent, RtTypeOK
  <2>2. callback'[s] = label /\ \A t \in Streams \ {s} : callback'[t] = callback[t]
    BY <1>2, <2>1 DEF Labels
  <2> QED BY <1>1, <1>3, <2>1, <2>2 DEF BeginEvent, Closes, Serves
<1>4. CASE WakeUp(s)
  <2>1. PICK label \in {"freed", "call", "asleep", "loop"} :
          /\ At(s, label)
          /\ apiInfo[s] = live /\ state = "running" => label = "call"
    BY <1>4 DEF WakeUp
  <2>2. callback'[s] = label /\ \A t \in Streams \ {s} : callback'[t] = callback[t]
    BY <1>2, <2>1 DEF Labels
  <2> QED BY <1>1, <1>4, <2>1, <2>2 DEF WakeUp, Closes, Serves
<1>5. CASE Render(s)
  <2>1. players' \subseteq players
    BY <1>5, MixBlockType DEF RtTypeOK, Render
  <2>2. callback'[s] = "after" /\ \A t \in Streams \ {s} : callback'[t] = callback[t]
    BY <1>2, <1>5 DEF Render, Labels
  <2> QED BY <1>1, <1>5, <2>1, <2>2 DEF Render, Closes, Serves
<1>6. CASE RenderCloses(s)
  <2>1. mutex = "none" /\ players' = {} /\ client' = client
    BY <1>6 DEF RenderCloses, MixBlock, RtTypeOK, PlayersTypeOK
  <2>2. /\ \A c \in Clients : ~ Stops(c)
        /\ \A t \in Streams : ~ Closes(t)
    BY <2>1 DEF ClosingHoldsMutex
  <2>3. \A c \in Clients : ~ Stops(c)'
    BY <2>1, <2>2 DEF Stops
  <2>4. CASE streamOpen
    <3>1. mutex' = "callback" /\ At(s, "close") BY <1>6, <2>4 DEF RenderCloses
    <3>2. \A t \in Streams \ {s} : callback'[t] = callback[t]
      BY <1>2, <3>1 DEF Labels
    <3>3. \A t \in Streams : Closes(t)' => t = s
      BY <2>2, <3>2 DEF Closes
    <3> QED BY <2>1, <2>3, <3>1, <3>3 DEF OpenStreamRuns, PlayersNeedOpen, ClosingHoldsMutex
  <2>5. CASE ~ streamOpen
    <3>1. At(s, "after") /\ streamOpen' = streamOpen BY <1>6, <2>5 DEF RenderCloses
    <3>2. callback'[s] = "after" /\ \A t \in Streams \ {s} : callback'[t] = callback[t]
      BY <1>2, <3>1 DEF Labels
    <3>3. \A t \in Streams : ~ Closes(t)'
      BY <2>2, <3>2 DEF Closes
    <3> QED BY <2>1, <2>3, <2>5, <3>1, <3>3 DEF OpenStreamRuns, PlayersNeedOpen, ClosingHoldsMutex
  <2> QED BY <2>4, <2>5
<1>7. CASE RenderSignals(s)
  <2>1. Closes(s) BY <1>7 DEF RenderSignals, Closes
  <2>2. /\ mutex = "callback" /\ mutex' = mutex /\ client' = client
        /\ players' = players /\ streamOpen' = streamOpen
    BY <1>7, <2>1 DEF RenderSignals, ClosingHoldsMutex
  <2>3. \A t \in Streams : Closes(t)' => t = s
    <3>1. SUFFICES ASSUME NEW t \in Streams, Closes(t)', t # s PROVE FALSE OBVIOUS
    <3>2. [callback EXCEPT ![s] = "join"] \in [Streams -> Labels] BY DEF RtTypeOK, Labels
    <3>3. SignalClose([callback EXCEPT ![s] = "join"]) BY <1>7 DEF RenderSignals
    <3>4. [callback EXCEPT ![s] = "join"][t] \in {"close", "join"}
      BY <3>1, <3>2, <3>3, SignalCloses DEF Closes
    <3>5. Closes(t) BY <3>1, <3>4 DEF Closes, RtTypeOK
    <3> QED BY <2>1, <3>1, <3>5 DEF ClosingHoldsMutex
  <2>4. players = {} BY <2>2 DEF PlayersNeedOpen
  <2> QED BY <2>2, <2>3, <2>4
      DEF OpenStreamRuns, PlayersNeedOpen, ClosingHoldsMutex, Stops
<1>8. CASE RenderJoins(s)
  <2>1. Closes(s) BY <1>8 DEF RenderJoins, Closes
  <2>2. /\ mutex = "callback" /\ client' = client /\ players' = players /\ streamOpen' = FALSE
        /\ At(s, "after")
    BY <1>8, <2>1 DEF RenderJoins, FreeStream, ClosingHoldsMutex
  <2>3. callback'[s] = "after" /\ \A t \in Streams \ {s} : callback'[t] = callback[t]
    BY <1>2, <2>2 DEF Labels
  <2>4. \A t \in Streams : ~ Closes(t)'
    BY <2>1, <2>3 DEF Closes, ClosingHoldsMutex
  <2>5. \A c \in Clients : ~ Stops(c)'
    BY <2>2 DEF Stops, ClosingHoldsMutex
  <2>6. players = {} BY <2>2 DEF PlayersNeedOpen
  <2> QED BY <2>2, <2>4, <2>5, <2>6 DEF OpenStreamRuns, PlayersNeedOpen, ClosingHoldsMutex
<1>9. CASE RenderFreed(s)
  <2>1. callback'[s] = "freed" /\ \A t \in Streams \ {s} : callback'[t] = callback[t]
    BY <1>2, <1>9 DEF RenderFreed, Labels
  <2> QED BY <1>1, <1>9, <2>1 DEF RenderFreed, Closes, Serves
<1>10. CASE AfterRender(s)
  <2>1. PICK label \in {"loop", "write", "freed"} :
          /\ At(s, label)
          /\ apiInfo[s] = live => label # "freed"
    BY <1>10 DEF AfterRender
  <2>2. callback'[s] = label /\ \A t \in Streams \ {s} : callback'[t] = callback[t]
    BY <1>2, <2>1 DEF Labels
  <2> QED BY <1>1, <1>10, <2>1, <2>2 DEF AfterRender, Closes, Serves
<1>11. CASE Write(s)
  <2>1. callback'[s] = "loop" /\ \A t \in Streams \ {s} : callback'[t] = callback[t]
    BY <1>2, <1>11 DEF Write, Labels
  <2> QED BY <1>1, <1>11, <2>1 DEF Write, Closes, Serves
<1> QED BY <1>3, <1>4, <1>5, <1>6, <1>7, <1>8, <1>9, <1>10, <1>11 DEF CallbackThread

(* Whatever plays has a running stream and a thread that is awake to       *)
(* render it, whatever threads earlier streams have left: nobody finds     *)
(* open a stream that is being taken down, and no thread goes to sleep on  *)
(* one that runs.                                                          *)
THEOREM PlayersAreServed == RtSpec => []PlayersHaveStream
<1>1. RtInit => StreamInv
  BY DEF RtInit, NothingPlayed, StreamInv, OpenStreamRuns, PlayersNeedOpen, ClosingHoldsMutex,
         Stops, Closes
<1>2. RtTypeOK /\ StreamInv /\ [RtNext]_rtVars => StreamInv'
  <2> SUFFICES ASSUME RtTypeOK, StreamInv, [RtNext]_rtVars PROVE StreamInv'
    OBVIOUS
  <2>1. CASE \E c \in Clients :
               RtPlay(c) \/ PlayFails(c) \/ RtStopAll(c) \/ RtStopFinished(c) \/ Stopping(c)
    BY <2>1, StreamClient
  <2>2. CASE \E s \in Streams : CallbackThread(s) BY <2>2, StreamCallback
  <2>3. CASE UNCHANGED rtVars
    BY <2>3 DEF rtVars, StreamInv, OpenStreamRuns, PlayersNeedOpen, ClosingHoldsMutex,
                Stops, Closes, Serves
  <2> QED BY <2>1, <2>2, <2>3 DEF RtNext
<1>3. StreamInv => PlayersHaveStream
  BY DEF StreamInv, OpenStreamRuns, PlayersNeedOpen, PlayersHaveStream
<1> QED BY <1>1, <1>2, <1>3, RtTypeInit, RtTypeStep, PTL DEF RtSpec

-----------------------------------------------------------------------------
LiveIsOpen == live # 0 => streamOpen

LEMMA LiveStep ==
  ASSUME RtTypeOK, LiveIsOpen, [RtNext]_rtVars
  PROVE  LiveIsOpen'
<1> USE DEF LiveIsOpen, stream, playing, Others
<1>1. CASE UNCHANGED <<live, streamOpen>> BY <1>1
<1>2. ASSUME NEW c \in Clients,
             RtPlay(c) \/ PlayFails(c) \/ RtStopAll(c) \/ RtStopFinished(c) \/ Stopping(c)
      PROVE  LiveIsOpen'
  BY <1>1, <1>2
  DEF RtPlay, OpenStream, PlayFails, RtStopAll, RtStopFinished, Stopping, RtClose, RtJoin,
      FreeStream
<1>3. ASSUME NEW s \in Streams, CallbackThread(s) PROVE LiveIsOpen'
  BY <1>1, <1>3
  DEF CallbackThread, BeginEvent, WakeUp, Render, RenderFreed, RenderCloses, RenderSignals,
      RenderJoins, FreeStream, AfterRender, Write
<1>4. CASE UNCHANGED rtVars BY <1>1, <1>4 DEF rtVars
<1> QED BY <1>2, <1>3, <1>4 DEF RtNext

(* A thread outlives its stream only where it has closed it itself, from   *)
(* render: whoever else closes it has joined the thread first, and play    *)
(* does not open a stream over a living one.                               *)
THEOREM OnlyRenderLeavesThreads == RtSpec => OutlivedThroughRender
<1> DEFINE Leaves(s) == s = live /\ callback[s] # "exited" /\ live' # live
           Itself(s) == callback[s] = "join" /\ callback'[s] = "after"
<1>1. RtTypeOK /\ LiveIsOpen /\ [RtNext]_rtVars
      => [\A s \in Streams : Leaves(s) => Itself(s)]_rtVars
  <2> SUFFICES ASSUME RtTypeOK, LiveIsOpen, RtNext, NEW s \in Streams, Leaves(s) PROVE Itself(s)
    OBVIOUS
  <2> USE DEF stream, playing, Others
  <2>1. live # 0 /\ streamOpen
    BY PlayersAssumption, RtAudioAssumption DEF Streams, LiveIsOpen
  <2>2. ASSUME NEW c \in Clients,
               RtPlay(c) \/ PlayFails(c) \/ RtStopAll(c) \/ RtStopFinished(c) \/ Stopping(c)
        PROVE  FALSE
    BY <2>1, <2>2
    DEF RtPlay, PlayFails, RtStopAll, RtStopFinished, Stopping, RtClose, RtJoin
  <2>3. PICK r \in Streams : CallbackThread(r)
    BY <2>2 DEF RtNext
  <2>4. RenderJoins(r)
    BY <2>3 DEF CallbackThread, BeginEvent, WakeUp, Render, RenderFreed, RenderCloses,
                RenderSignals, AfterRender, Write
  <2>5. r = s /\ callback[r] = "join" /\ callback'[r] = "after"
    BY <2>4 DEF RenderJoins, At, RtTypeOK
  <2> QED BY <2>5
<1>2. RtInit => LiveIsOpen
  BY DEF RtInit, NothingPlayed, LiveIsOpen
<1> QED BY <1>1, <1>2, LiveStep, RtTypeInit, RtTypeStep, PTL DEF RtSpec, OutlivedThroughRender

-----------------------------------------------------------------------------
(* An open recording belongs to a player that plays.                       *)
THEOREM RtRecordingsAreClosed == RtSpec => []RtRecordingsClosed
<1>1. RtInit => RtRecordingsClosed
  BY DEF RtInit, NothingPlayed, RtRecordingsClosed
<1>2. RtTypeOK /\ RtRecordingsClosed /\ [RtNext]_rtVars => RtRecordingsClosed'
  <2> SUFFICES ASSUME RtTypeOK, RtRecordingsClosed, [RtNext]_rtVars PROVE RtRecordingsClosed'
    OBVIOUS
  <2> USE DEF stream, playing, Others
  <2>1. ASSUME NEW c \in Clients, RtPlay(c) PROVE RtRecordingsClosed'
    <3>1. PICK q \in fresh : PlayInto(q) BY <2>1 DEF RtPlay
    <3> QED BY <3>1 DEF PlayInto, RtRecordingsClosed, RtTypeOK, PlayersTypeOK
  <2>2. ASSUME NEW c \in Clients, PlayFails(c) PROVE RtRecordingsClosed'
    <3>1. PICK q \in fresh :
            file' = [file EXCEPT ![q] = IF q \in Recorded THEN "closed" ELSE @]
      BY <2>2 DEF PlayFails
    <3>2. players' = players /\ \A p \in Players : file'[p] = "open" => file[p] = "open"
      BY <2>2, <3>1 DEF PlayFails, RtTypeOK, PlayersTypeOK
    <3> QED BY <3>2 DEF RtRecordingsClosed
  <2>3. ASSUME NEW c \in Clients, RtStopAll(c) PROVE RtRecordingsClosed'
    <3>1. file' = Finalized(players) BY <2>3 DEF RtStopAll
    <3>2. \A p \in Players : file'[p] = "open" => file[p] = "open" /\ p \notin players
      BY <3>1, FinalizedFile DEF RtTypeOK, PlayersTypeOK
    <3> QED BY <3>2 DEF RtRecordingsClosed
  <2>4. ASSUME MixBlock, UNCHANGED fresh PROVE RtRecordingsClosed'
    BY <2>4, MixBlockType DEF RtTypeOK, RtRecordingsClosed
  <2>5. CASE UNCHANGED <<players, file>>
    BY <2>5 DEF RtRecordingsClosed
  <2>6. ASSUME NEW s \in Streams, CallbackThread(s) PROVE RtRecordingsClosed'
    <3>1. CASE Render(s) \/ RenderCloses(s)
      BY <2>4, <3>1 DEF Render, RenderCloses
    <3>2. CASE UNCHANGED playing BY <2>5, <3>2
    <3> QED BY <2>6, <3>1, <3>2
        DEF CallbackThread, BeginEvent, WakeUp, RenderFreed, RenderSignals, RenderJoins,
            AfterRender, Write
  <2>7. ASSUME NEW c \in Clients, RtStopFinished(c) \/ Stopping(c) PROVE RtRecordingsClosed'
    BY <2>5, <2>7 DEF RtStopFinished, Stopping, RtClose, RtJoin
  <2>8. CASE UNCHANGED rtVars BY <2>5, <2>8 DEF rtVars
  <2> QED BY <2>1, <2>2, <2>3, <2>6, <2>7, <2>8 DEF RtNext
<1> QED BY <1>1, <1>2, RtTypeInit, RtTypeStep, PTL DEF RtSpec

-----------------------------------------------------------------------------
(***************************************************************************)
(* RtMidiBackend.                                                          *)
(*                                                                         *)
(* For any ports, sources and well-formed messages: the channels of a port *)
(* are what was sent to it (AsSent), although the threads of all inputs    *)
(* share the running status and the system exclusive state, and a running  *)
(* input finds its CallbackData (CallbackDataLive).                        *)
(*                                                                         *)
(* The invariant follows each packet through the loop.  One that is not    *)
(* system exclusive never looks at what is shared: it is at its status     *)
(* byte or past its end.  A system exclusive message depends on the flag,  *)
(* and its course is known only while no other packet is handled; when     *)
(* another one comes, its port is spoilt.                                  *)
(***************************************************************************)

Steps == {"idle", "fetched", "loop", "data", "message", "system", "sysex"}

(* The first bytes of voice messages. *)
VoiceBytes == {b \in Bytes : b >= 128 /\ b < 240}

(* A packet that is not system exclusive. *)
AtOnce(h) ==
  \/ step[h] = "loop" /\ at[h] \in {1, Len(packet[h]) + 1}
  \/ /\ step[h] = Kind(packet[h][1]) /\ at[h] = 1
     /\ voice[h] = packet[h][1]

(* A system exclusive message that nothing disturbs. *)
Undisturbed(h) ==
  \/ step[h] = "loop" /\ at[h] \in {1, Len(packet[h]) + 1}
  \/ step[h] \in {"system", "sysex"} /\ at[h] = 1 /\ voice[h] = 240
  \/ step[h] = "sysex" /\ at[h] \in 2 .. Len(packet[h]) /\ sysexFlag

(* What is known of the packet that thread h handles. *)
PacketOK(h) ==
  /\ packet[h] \in Messages
  /\ step[h] # "message" => at[h] > 0
  /\ step[h] = "message" => voice[h] \in VoiceBytes
  /\ port[h] # h => {h, port[h]} \subseteq spoilt
  /\ ~ IsSysex(packet[h]) => AtOnce(h)
  /\ IsSysex(packet[h]) /\ port[h] \notin spoilt => Handling = {h} /\ Undisturbed(h)

(* A voice message that has been sent and is not heard yet. *)
Pending(p) == p \in Handling /\ at[p] = 1 /\ packet[p][1] < 240

(* Plausible, for the state of a port's channels. *)
Fits(s, pk) ==
  LET down == s[Low(pk[1])].keyvel[pk[2]] > 0
  IN  /\ High(pk[1]) = 144 /\ pk[3] > 0 => ~ down
      /\ High(pk[1]) = 128 \/ (High(pk[1]) = 144 /\ pk[3] = 0) => down

Counted(s) == \A c \in Chans : s[c].numKeysDown = Cardinality(KeysDown(s[c]))

PortOK(p) ==
  /\ Counted(chans[p])
  /\ IF Pending(p) THEN told[p] = Played(chans[p], packet[p]) /\ Fits(chans[p], packet[p])
     ELSE told[p] = chans[p]

(* The flag is up only inside a system exclusive message. *)
FlagOK ==
  sysexFlag => \E h \in Handling :
    step[h] = "sysex" /\ IsSysex(packet[h]) /\ at[h] \in 2 .. Len(packet[h])

RouterOK ==
  /\ runningStatus \in {0} \cup VoiceBytes
  /\ \A h \in Handling : PacketOK(h)
  /\ \A p \in Ports \ spoilt : PortOK(p)
  /\ FlagOK

DataOK(h) == userData[h] \in owned /\ userData[h].port = h
BackendOK ==
  /\ \A h \in Ports : step[h] # "idle" => h \in thread
  /\ pc = "reset" => thread = {}
  /\ pc \in {"connect", "open", "disconnect", "close"} => arg \in Ports \X Uids
  /\ CleaningUp \/ \A h \in Ports \ failed :
       DataOK(h) \/ (userData[h] = None /\ h \notin thread)

IInv == TypeOK /\ RouterOK /\ BackendOK

-----------------------------------------------------------------------------
(* Bytes, messages and channels                                            *)

VoiceStatuses == {128, 144, 160, 176, 192, 208, 224}
OtherStatuses == {160, 192, 208, 224}

(* The status and the channel in a voice message's first byte. *)
LEMMA StatusByte ==
  ASSUME NEW b \in VoiceBytes
  PROVE  High(b) \in VoiceStatuses /\ Low(b) \in 0 .. 15
<1>. b \in Nat /\ b >= 128 /\ b < 240
  BY DEF VoiceBytes, Bytes
<1>1. b % 16 \in 0 .. 15
  BY SMT
<1>2. b \div 16 \in 8 .. 14 /\ b = 16 * (b \div 16) + (b % 16)
  BY SMT
<1>3. High(b) = 16 * (b \div 16)
  BY <1>1, <1>2, SMT DEF High
<1>. QED
  BY <1>1, <1>2, <1>3, SMT DEF VoiceStatuses, Low

(* A message begins with a status byte, which says what follows.           *)
LEMMA Shape ==
  ASSUME NEW pk \in Messages
  PROVE  /\ pk \in Seq(Bytes) /\ Len(pk) \in Nat \ {0}
         /\ pk[1] \in Bytes /\ pk[1] >= 128 /\ pk[1] # 247
         /\ pk[1] < 240 => IsVoiceMessage(pk)
         /\ pk[1] = 240 => IsSysexMessage(pk)
         /\ pk[1] > 240 => IsSystemMessage(pk)
<1>1. /\ pk \in Seq(Bytes) /\ Len(pk) > 0
      /\ IsVoiceMessage(pk) \/ IsSysexMessage(pk) \/ IsSystemMessage(pk)
  BY RouterAssumption DEF RouterAssumption
<1>2. Len(pk) \in Nat /\ 1 \in 1 .. Len(pk)
  BY <1>1
<1>3. pk[1] \in Nat /\ pk[1] \in Bytes
  BY <1>1, <1>2 DEF Bytes
<1>4. CASE IsVoiceMessage(pk)
  BY <1>1, <1>2, <1>3, <1>4 DEF IsVoiceMessage, IsStatus
<1>5. CASE IsSysexMessage(pk)
  BY <1>1, <1>2, <1>3, <1>5 DEF IsSysexMessage, IsSysex
<1>6. CASE IsSystemMessage(pk)
  BY <1>1, <1>2, <1>3, <1>6 DEF IsSystemMessage
<1>. QED
  BY <1>1, <1>2, <1>3, <1>4, <1>5, <1>6

LEMMA ZeroType == AllZero \in [DataBytes -> Bytes]
  BY DEF AllZero, Bytes

LEMMA ResetType == Reset0 \in ChanStates
  BY ZeroType DEF Reset0, ChanStates, Bytes, SixteenBits

LEMMA Fields ==
  ASSUME NEW s \in ChanStates
  PROVE  /\ s.control \in [DataBytes -> Bytes] /\ s.polytouch \in [DataBytes -> Bytes]
         /\ s.keyvel \in [DataBytes -> Bytes] /\ s.numKeysDown \in Nat
  BY DEF ChanStates

LEMMA OffType ==
  ASSUME NEW s \in ChanStates
  PROVE  /\ KeysOff(s) \in ChanStates
         /\ KeysOff(s).keyvel = AllZero /\ KeysOff(s).numKeysDown = 0
         /\ ControlsOff(s) \in ChanStates
         /\ ControlsOff(s).keyvel = s.keyvel /\ ControlsOff(s).numKeysDown = s.numKeysDown
<1>1. PICK w \in SixteenBits : w = 16384
  BY DEF SixteenBits
<1>2. ControlsOff(s) = [s EXCEPT !.control = AllZero, !.bend = w]
  BY <1>1, SMT DEF ControlsOff
<1>. QED
  BY <1>2, ZeroType DEF KeysOff, ChanStates

LEMMA NoteType ==
  ASSUME NEW s \in ChanStates, NEW a \in Bytes, NEW b \in Bytes
  PROVE  NoteOff(s, a) \in ChanStates /\ NoteOn(s, a, b) \in ChanStates
<1>. DEFINE up == [s.keyvel EXCEPT ![a] = 0]
            pressed == [s.keyvel EXCEPT ![a] = b]
            less == OneUp(s.numKeysDown)
            more == s.numKeysDown + 1
<1>1. less \in Nat /\ more \in Nat
  BY Fields DEF OneUp
<1>2. 0 \in Bytes
  BY DEF Bytes
<1>3. up \in [DataBytes -> Bytes] /\ pressed \in [DataBytes -> Bytes]
  BY <1>2, Fields
<1>4. NoteOff(s, a) = [s EXCEPT !.keyvel = up, !.numKeysDown = less]
  BY Zenon DEF NoteOff
<1>5. NoteOn(s, a, b) = [s EXCEPT !.keyvel = pressed, !.numKeysDown = more,
                                  !.lastkey = a, !.lastvel = b]
  BY Zenon DEF NoteOn
<1>. HIDE DEF up, pressed, less, more
<1>6. NoteOff(s, a) \in ChanStates
  BY <1>1, <1>3, <1>4 DEF ChanStates
<1>7. NoteOn(s, a, b) \in ChanStates
  BY <1>1, <1>3, <1>5 DEF ChanStates
<1>. QED
  BY <1>6, <1>7

LEMMA ControlType ==
  ASSUME NEW s \in ChanStates, NEW a \in Bytes, NEW b \in Bytes
  PROVE  /\ Control(s, a, b) \in ChanStates
         /\ \/ /\ Control(s, a, b).keyvel = AllZero
               /\ Control(s, a, b).numKeysDown = 0
            \/ /\ Control(s, a, b).keyvel = s.keyvel
               /\ Control(s, a, b).numKeysDown = s.numKeysDown
<1>. DEFINE f == [s.control EXCEPT ![a] = b]
            t == [s EXCEPT !.control = f]
<1>1. f \in [DataBytes -> Bytes]
  BY Fields
<1>2. Control(s, a, b) \in {KeysOff(t), ControlsOff(t), t}
  BY DEF Control
<1>. HIDE DEF f
<1>3. t \in ChanStates /\ t.keyvel = s.keyvel /\ t.numKeysDown = s.numKeysDown
  BY <1>1 DEF ChanStates
<1>. HIDE DEF t
<1>. QED
  BY <1>2, <1>3, OffType

(* The messages that are neither notes nor controllers.                    *)
LEMMA OthersType ==
  ASSUME NEW s \in ChanStates, NEW st \in OtherStatuses,
         NEW a \in Bytes, NEW b \in Bytes
  PROVE  /\ Effect(s, st, a, b) \in ChanStates
         /\ Effect(s, st, a, b).keyvel = s.keyvel
         /\ Effect(s, st, a, b).numKeysDown = s.numKeysDown
<1>. DEFINE f == [s.polytouch EXCEPT ![a] = b]
            w == Bend(a, b)
<1>1. f \in [DataBytes -> Bytes]
  BY Fields
<1>2. w \in SixteenBits
  BY DEF Bend, SixteenBits, Bytes
<1>3. /\ st = 160 => Effect(s, st, a, b) = [s EXCEPT !.polytouch = f]
      /\ st = 192 => Effect(s, st, a, b) = [s EXCEPT !.program = a]
      /\ st = 208 => Effect(s, st, a, b) = [s EXCEPT !.touch = a]
      /\ st = 224 => Effect(s, st, a, b) = [s EXCEPT !.bend = w]
  BY DEF Effect
<1>. HIDE DEF f, w
<1>4. CASE st = 160
  BY <1>1, <1>3, <1>4 DEF ChanStates
<1>5. CASE st = 192
  BY <1>3, <1>5 DEF ChanStates
<1>6. CASE st = 208
  BY <1>3, <1>6 DEF ChanStates
<1>7. CASE st = 224
  BY <1>2, <1>3, <1>7 DEF ChanStates
<1>. QED
  BY <1>4, <1>5, <1>6, <1>7 DEF OtherStatuses

LEMMA EffectType ==
  ASSUME NEW s \in ChanStates, NEW st \in VoiceStatuses,
         NEW a \in Bytes, NEW b \in Bytes
  PROVE  Effect(s, st, a, b) \in ChanStates
<1>1. b = 0 \/ b > 0
  BY DEF Bytes
<1>2. CASE st \in {128, 144}
  <2>1. Effect(s, st, a, b) \in {NoteOff(s, a), NoteOn(s, a, b)}
    BY <1>1, <1>2 DEF Effect
  <2>. QED
    BY <2>1, NoteType
<1>3. CASE st = 176
  <2>1. Effect(s, st, a, b) = Control(s, a, b)
    BY <1>3 DEF Effect
  <2>. QED
    BY <2>1, ControlType
<1>4. CASE st \in OtherStatuses
  BY <1>4, OthersType
<1>. QED
  BY <1>2, <1>3, <1>4 DEF VoiceStatuses, OtherStatuses

LEMMA KeysFinite ==
  ASSUME NEW s \in ChanStates
  PROVE  IsFiniteSet(KeysDown(s)) /\ Cardinality(KeysDown(s)) \in Nat
<1>. PICK m \in Nat : m > 254
  OBVIOUS
<1>1. KeysDown(s) \subseteq 0 .. m
  <2>1. \A d \in Bytes : d \in 0 .. m
    BY DEF Bytes
  <2>2. DataBytes \subseteq Bytes
    BY RouterAssumption, Zenon DEF RouterAssumption
  <2>. QED
    BY <2>1, <2>2 DEF KeysDown
<1>2. IsFiniteSet(0 .. m)
  BY FS_Interval
<1>. QED
  BY <1>1, <1>2, FS_Subset, FS_CardinalityType

(* A message that fits keeps numKeysDown the number of keys that are down. *)
LEMMA EffectCounts ==
  ASSUME NEW s \in ChanStates, NEW st \in VoiceStatuses,
         NEW a \in DataBytes, NEW b \in Bytes,
         s.numKeysDown = Cardinality(KeysDown(s)),
         st = 144 /\ b > 0 => ~ s.keyvel[a] > 0,
         st = 128 \/ (st = 144 /\ b = 0) => s.keyvel[a] > 0
  PROVE  Effect(s, st, a, b).numKeysDown = Cardinality(KeysDown(Effect(s, st, a, b)))
<1>. DEFINE t == Effect(s, st, a, b)
<1>. HIDE DEF t
<1>. a \in Bytes
  BY RouterAssumption DEF RouterAssumption
<1>1. IsFiniteSet(KeysDown(s)) /\ Cardinality(KeysDown(s)) \in Nat
  BY KeysFinite
<1>2. ASSUME t.keyvel = s.keyvel, t.numKeysDown = s.numKeysDown
      PROVE  t.numKeysDown = Cardinality(KeysDown(t))
  <2>1. KeysDown(t) = KeysDown(s)
    BY <1>2 DEF KeysDown
  <2>. QED
    BY <1>2, <2>1
<1>3. ASSUME t.keyvel = [s.keyvel EXCEPT ![a] = 0], s.keyvel[a] > 0,
             t.numKeysDown = OneUp(s.numKeysDown)
      PROVE  t.numKeysDown = Cardinality(KeysDown(t))
  <2>1. KeysDown(t) = KeysDown(s) \ {a} /\ a \in KeysDown(s)
    BY <1>3 DEF KeysDown, ChanStates
  <2>2. Cardinality(KeysDown(t)) = Cardinality(KeysDown(s)) - 1
    BY <1>1, <2>1, FS_RemoveElement, ZenonT(30)
  <2>3. Cardinality(KeysDown(s)) > 0
    BY <1>1, <2>1, FS_EmptySet
  <2>. QED
    BY <1>1, <1>3, <2>2, <2>3 DEF OneUp
<1>4. ASSUME t.keyvel = [s.keyvel EXCEPT ![a] = b], ~ s.keyvel[a] > 0, b > 0,
             t.numKeysDown = s.numKeysDown + 1
      PROVE  t.numKeysDown = Cardinality(KeysDown(t))
  <2>1. KeysDown(t) = KeysDown(s) \cup {a} /\ a \notin KeysDown(s)
    BY <1>4 DEF KeysDown, ChanStates
  <2>2. Cardinality(KeysDown(t)) = Cardinality(KeysDown(s)) + 1
    BY <1>1, <2>1, FS_AddElement
  <2>. QED
    BY <1>4, <2>2
<1>5. ASSUME t.keyvel = AllZero, t.numKeysDown = 0
      PROVE  t.numKeysDown = Cardinality(KeysDown(t))
  <2>1. KeysDown(t) = {}
    BY <1>5 DEF KeysDown, AllZero
  <2>. QED
    BY <1>5, <2>1, FS_EmptySet
<1>6. ASSUME st = 128 \/ (st = 144 /\ b = 0)
      PROVE  t.numKeysDown = Cardinality(KeysDown(t))
  <2>. DEFINE kv == [s.keyvel EXCEPT ![a] = 0]
              n == OneUp(s.numKeysDown)
  <2>1. NoteOff(s, a) = [s EXCEPT !.keyvel = kv, !.numKeysDown = n]
    BY Zenon DEF NoteOff
  <2>2. t = NoteOff(s, a)
    BY <1>6 DEF Effect, t
  <2>. HIDE DEF kv, n
  <2>3. t.keyvel = kv /\ t.numKeysDown = n
    BY <2>1, <2>2 DEF ChanStates
  <2>. QED
    BY <1>3, <1>6, <2>3 DEF kv, n
<1>8. ASSUME st = 144 /\ b > 0
      PROVE  t.numKeysDown = Cardinality(KeysDown(t))
  <2>. DEFINE kv == [s.keyvel EXCEPT ![a] = b]
              n == s.numKeysDown + 1
  <2>1. NoteOn(s, a, b) = [s EXCEPT !.keyvel = kv, !.numKeysDown = n,
                                    !.lastkey = a, !.lastvel = b]
    BY Zenon DEF NoteOn
  <2>2. t = NoteOn(s, a, b)
    BY <1>8 DEF Effect, t
  <2>. HIDE DEF kv, n
  <2>3. t.keyvel = kv /\ t.numKeysDown = n
    BY <2>1, <2>2 DEF ChanStates
  <2>. QED
    BY <1>4, <1>8, <2>3 DEF kv, n
<1>9. ASSUME st = 176
      PROVE  t.numKeysDown = Cardinality(KeysDown(t))
  <2>1. t = Control(s, a, b)
    BY <1>9 DEF Effect, t
  <2>. QED
    BY <1>2, <1>5, <2>1, ControlType
<1>10. ASSUME st \in OtherStatuses
      PROVE  t.numKeysDown = Cardinality(KeysDown(t))
  <2>1. t.keyvel = s.keyvel /\ t.numKeysDown = s.numKeysDown
    BY <1>10, OthersType DEF t
  <2>. QED
    BY <1>2, <2>1
<1>11. b = 0 \/ b > 0
  BY DEF Bytes
<1>. QED
  BY <1>6, <1>8, <1>9, <1>10, <1>11 DEF VoiceStatuses, OtherStatuses, t

LEMMA ThirdByte ==
  ASSUME NEW pk \in Seq(Bytes), NEW i \in Nat
  PROVE  Byte(pk, i) \in Bytes
<1>1. 0 \in Bytes
  BY DEF Bytes
<1>2. i \in 1 .. Len(pk) => pk[i] \in Bytes
  OBVIOUS
<1>. QED
  BY <1>1, <1>2 DEF Byte

(* What a voice message makes of its port. *)
LEMMA PlayedOK ==
  ASSUME NEW s \in [Chans -> ChanStates], NEW pk \in Messages
  PROVE  /\ Played(s, pk) \in [Chans -> ChanStates]
         /\ Counted(s) /\ Fits(s, pk) => Counted(Played(s, pk))
<1>1. CASE pk[1] >= 240
  BY <1>1 DEF Played
<1>2. CASE pk[1] < 240
  <2>. DEFINE c == Low(pk[1])
              st == High(pk[1])
              b == Byte(pk, 3)
              e == Effect(s[c], st, pk[2], b)
  <2>1. IsVoiceMessage(pk) /\ pk \in Seq(Bytes) /\ pk[1] \in VoiceBytes
    BY <1>2, Shape DEF VoiceBytes
  <2>2. c \in Chans /\ st \in VoiceStatuses /\ pk[2] \in DataBytes /\ b \in Bytes
    BY <2>1, StatusByte, ThirdByte DEF IsVoiceMessage
  <2>3. pk[2] \in Bytes
    BY <2>2, RouterAssumption DEF RouterAssumption
  <2>4. Played(s, pk) = [s EXCEPT ![c] = e]
    BY <1>2, <2>1 DEF Played, VoiceBytes, Bytes
  <2>5. s[c] \in ChanStates
    BY <2>2
  <2>6. e \in ChanStates
    BY <2>2, <2>3, <2>5, EffectType
  <2>7. ASSUME Counted(s), Fits(s, pk)
        PROVE  Counted([s EXCEPT ![c] = e])
    <3>1. st \in {128, 144} => Len(pk) = 3
      BY <2>1 DEF IsVoiceMessage, MessageLength
    <3>2. st \in {128, 144} => b = pk[3]
      BY <3>1 DEF Byte
    <3>3. /\ st = 144 /\ b > 0 => ~ s[c].keyvel[pk[2]] > 0
          /\ st = 128 \/ (st = 144 /\ b = 0) => s[c].keyvel[pk[2]] > 0
      BY <2>7, <3>2 DEF Fits
    <3>4. s[c].numKeysDown = Cardinality(KeysDown(s[c]))
      BY <2>2, <2>7 DEF Counted
    <3>5. e.numKeysDown = Cardinality(KeysDown(e))
      BY <2>2, <2>5, <3>3, <3>4, EffectCounts
    <3>. QED
      BY <2>2, <2>7, <3>5 DEF Counted
  <2>. QED
    BY <2>2, <2>4, <2>6, <2>7
<1>3. pk[1] \in Nat
  BY Shape DEF Bytes
<1>. QED
  BY <1>1, <1>2, <1>3

-----------------------------------------------------------------------------
(* A thread that handles a packet                                          *)

(* Only the packet's own thread moves, and only its port is changed, unless *)
(* that is spoilt.                                                         *)
LEMMA Moves ==
  ASSUME RouterTypeOK, RouterOK, NEW h \in Handling,
         NEW s \in {"loop", "data", "message", "system", "sysex"}, NEW i \in Nat,
         Goto(h, s, i), Stay(h),
         \A g \in Ports \ {h} : voice'[g] = voice[g],
         \A p \in Ports \ {h} : p \notin spoilt => chans'[p] = chans[p],
         runningStatus' \in {0} \cup VoiceBytes,
         PacketOK(h)', h \notin spoilt => PortOK(h)', FlagOK'
  PROVE  RouterOK'
<1>1. /\ step' = [step EXCEPT ![h] = s] /\ at' = [at EXCEPT ![h] = i]
      /\ UNCHANGED <<port, packet, told, spoilt>>
  BY DEF Goto, Stay
<1>2. h \in Ports /\ step \in [Ports -> Steps] /\ at \in [Ports -> Nat]
  BY DEF RouterTypeOK, Handling, Steps
<1>3. Handling' = Handling
  BY <1>1, <1>2 DEF Handling
<1>4. \A g \in Ports \ {h} : step'[g] = step[g] /\ at'[g] = at[g] /\ voice'[g] = voice[g]
  BY <1>1, <1>2
<1>5. ASSUME NEW g \in Handling \ {h}
      PROVE  PacketOK(g)'
  <2>1. PacketOK(g) /\ g \in Ports \ {h} /\ ~ Handling = {g}
    BY DEF RouterOK, Handling
  <2>2. AtOnce(g)' <=> AtOnce(g)
    BY <1>1, <1>4, <2>1 DEF AtOnce
  <2>. QED
    BY <1>1, <1>3, <1>4, <2>1, <2>2 DEF PacketOK
<1>6. ASSUME NEW p \in Ports \ spoilt, p # h
      PROVE  PortOK(p)'
  <2>1. PortOK(p) /\ chans'[p] = chans[p] /\ told' = told /\ packet' = packet
    BY <1>1, <1>6 DEF RouterOK
  <2>2. Pending(p)' <=> Pending(p)
    BY <1>1, <1>3, <1>4, <1>6 DEF Pending
  <2>3. Counted(chans[p])' <=> Counted(chans[p])
    BY <2>1 DEF Counted
  <2>. QED
    BY <2>1, <2>2, <2>3 DEF PortOK
<1>7. \A g \in Handling' : PacketOK(g)'
  BY <1>3, <1>5
<1>8. \A p \in Ports \ spoilt' : PortOK(p)'
  BY <1>1, <1>6
<1>. QED
  BY <1>7, <1>8 DEF RouterOK

(* What a thread's packet and place say. *)
LEMMA Place ==
  ASSUME RouterTypeOK, RouterOK, NEW h \in Ports, step[h] \notin {"idle", "fetched"}
  PROVE  /\ h \in Handling /\ PacketOK(h) /\ packet[h] \in Messages
         /\ at[h] \in Nat /\ (at[h] > 0 \/ step[h] = "message")
         /\ h \notin spoilt => port[h] = h
         /\ step[h] = "data" => IsSysex(packet[h]) /\ port[h] \in spoilt
         /\ step[h] = "message" /\ IsSysex(packet[h]) => port[h] \in spoilt
         /\ step[h] = "sysex" => IsSysex(packet[h])
<1>1. h \in Handling /\ PacketOK(h) /\ at[h] \in Nat
  BY DEF Handling, RouterOK, RouterTypeOK
<1>2. ~ IsSysex(packet[h]) => step[h] \in {"loop", "message", "system"}
  BY <1>1, Shape DEF PacketOK, AtOnce, Kind, IsStatus, Bytes
<1>3. IsSysex(packet[h]) /\ port[h] \notin spoilt => step[h] \in {"loop", "system", "sysex"}
  BY <1>1 DEF PacketOK, Undisturbed
<1>. QED
  BY <1>1, <1>2, <1>3 DEF PacketOK

(* As long as its thread is not in the loop over a message, a packet does   *)
(* not matter for the flag.                                                *)
LEMMA FlagKept ==
  ASSUME FlagOK, NEW h \in Handling, step[h] # "sysex",
         sysexFlag' = sysexFlag, packet' = packet,
         Handling \ {h} \subseteq Handling',
         \A g \in Handling \ {h} : step'[g] = step[g] /\ at'[g] = at[g]
  PROVE  FlagOK'
  BY DEF FlagOK

LEMMA TopOK ==
  ASSUME RouterTypeOK, RouterOK, NEW h \in Ports, Top(h)
  PROVE  RouterOK'
<1>. DEFINE c == packet[h][at[h]]
<1>1. step[h] = "loop" /\ at[h] <= Len(packet[h])
  BY DEF Top
<1>2. /\ voice' = [voice EXCEPT ![h] = c] /\ Goto(h, Kind(c), at[h])
      /\ UNCHANGED <<sysexFlag, chans>> /\ Stay(h)
      /\ runningStatus' \in {Running(c), runningStatus} /\ (~ IsStatus(c) => UNCHANGED runningStatus)
  BY DEF Top, Current
<1>3. /\ h \in Handling /\ PacketOK(h) /\ packet[h] \in Messages
      /\ at[h] \in Nat /\ at[h] > 0 /\ (h \notin spoilt => port[h] = h)
  BY <1>1, Place
<1>4. c \in Bytes
  <2>1. packet[h] \in Seq(Bytes) /\ at[h] \in 1 .. Len(packet[h])
    BY <1>1, <1>3, Shape
  <2>. QED
    BY <2>1
<1>. HIDE DEF c
<1>5. /\ step' = [step EXCEPT ![h] = Kind(c)] /\ at' = [at EXCEPT ![h] = at[h]]
      /\ UNCHANGED <<port, packet, told, spoilt>>
  BY <1>2 DEF Goto, Stay
<1>6. Kind(c) \in {"data", "message", "system"}
  BY DEF Kind
<1>7. step'[h] = Kind(c) /\ at'[h] = at[h] /\ voice'[h] = c
  BY <1>2, <1>5 DEF RouterTypeOK
<1>8. Handling' = Handling
  BY <1>3, <1>5, <1>6 DEF RouterTypeOK, Handling
<1>9. Kind(c) = "message" => c \in VoiceBytes
  BY <1>4 DEF Kind, IsStatus, VoiceBytes, Bytes
<1>10. runningStatus' \in {0} \cup VoiceBytes
  <2>1. IsStatus(c) => Running(c) \in {0} \cup VoiceBytes
    BY <1>4 DEF IsStatus, Running, VoiceBytes, Bytes
  <2>. QED
    BY <1>2, <2>1 DEF RouterOK
<1>11. PacketOK(h)'
  <2>1. ~ IsSysex(packet[h]) => AtOnce(h)'
    <3>1. HAVE ~ IsSysex(packet[h])
    <3>2. Len(packet[h]) \in Nat /\ at[h] \in {1, Len(packet[h]) + 1}
      BY <1>1, <1>3, <3>1, Shape DEF PacketOK, AtOnce
    <3>3. at[h] = 1
      BY <1>1, <3>2
    <3>. QED
      BY <1>5, <1>7, <3>3 DEF AtOnce, c
  <2>2. ASSUME IsSysex(packet[h]), port[h] \notin spoilt
        PROVE  Undisturbed(h)'
    <3>1. Len(packet[h]) \in Nat /\ at[h] \in {1, Len(packet[h]) + 1}
      BY <1>1, <1>3, <2>2, Shape DEF PacketOK, Undisturbed
    <3>2. at[h] = 1
      BY <1>1, <3>1
    <3>3. c = 240
      BY <2>2, <3>2 DEF IsSysex, c
    <3>. QED
      BY <1>7, <3>2, <3>3 DEF Undisturbed, Kind
  <2>. QED
    BY <1>3, <1>5, <1>6, <1>7, <1>8, <1>9, <2>1, <2>2 DEF PacketOK
<1>12. ASSUME h \notin spoilt
       PROVE  PortOK(h)'
  <2>1. PortOK(h) /\ UNCHANGED <<chans, told>>
    BY <1>2, <1>5, <1>12 DEF RouterOK
  <2>2. Pending(h)' <=> Pending(h)
    BY <1>5, <1>7, <1>8 DEF Pending
  <2>3. Counted(chans[h])' <=> Counted(chans[h])
    BY <2>1 DEF Counted
  <2>. QED
    BY <1>5, <2>1, <2>2, <2>3 DEF PortOK
<1>13. FlagOK'
  <2>1. \A g \in Handling \ {h} : step'[g] = step[g] /\ at'[g] = at[g]
    BY <1>5 DEF RouterTypeOK, Handling
  <2>. QED
    BY <1>1, <1>2, <1>3, <1>5, <1>8, <2>1, FlagKept DEF RouterOK
<1>. QED
  BY <1>2, <1>3, <1>6, <1>10, <1>11, <1>12, <1>13, Moves DEF RouterTypeOK

(* Whatever is spoilt already may be read as data. *)
LEMMA SpoiltMoves ==
  ASSUME RouterTypeOK, RouterOK, NEW h \in Handling,
         NEW s \in {"loop", "data", "message", "system", "sysex"}, NEW i \in Nat,
         Goto(h, s, i), Stay(h), i > 0 \/ s = "message",
         s = "message" => voice'[h] \in VoiceBytes,
         \A g \in Ports \ {h} : voice'[g] = voice[g],
         \A p \in Ports \ spoilt : chans'[p] = chans[p],
         runningStatus' \in {0} \cup VoiceBytes,
         IsSysex(packet[h]), port[h] \in spoilt, FlagOK'
  PROVE  RouterOK'
<1>1. /\ step' = [step EXCEPT ![h] = s] /\ at' = [at EXCEPT ![h] = i]
      /\ UNCHANGED <<port, packet, told, spoilt>>
  BY DEF Goto, Stay
<1>2. h \in Ports /\ step'[h] = s /\ at'[h] = i
  BY <1>1 DEF RouterTypeOK, Handling
<1>3. PacketOK(h)
  BY DEF RouterOK
<1>4. h \in spoilt
  BY <1>3 DEF PacketOK
<1>5. PacketOK(h)'
  BY <1>1, <1>2, <1>3 DEF PacketOK
<1>. QED
  BY <1>4, <1>5, Moves

LEMMA DataStepOK ==
  ASSUME RouterTypeOK, RouterOK, NEW h \in Ports, Data(h)
  PROVE  RouterOK'
<1>1. /\ step[h] = "data" /\ Stay(h)
      /\ \/ /\ runningStatus # 0 /\ voice' = [voice EXCEPT ![h] = runningStatus]
            /\ Goto(h, "message", at[h] - 1)
         \/ voice' = [voice EXCEPT ![h] = 240] /\ Goto(h, "sysex", at[h])
  BY DEF Data
<1>2. UNCHANGED <<runningStatus, sysexFlag, chans>>
  BY DEF Data, router
<1>3. /\ h \in Handling /\ IsSysex(packet[h]) /\ port[h] \in spoilt
      /\ at[h] \in Nat /\ at[h] > 0
  BY <1>1, Place
<1>4. runningStatus \in {0} \cup VoiceBytes
  BY DEF RouterOK
<1>5. \A g \in Ports \ {h} : voice'[g] = voice[g]
  BY <1>1 DEF RouterTypeOK
<1>6. FlagOK'
  <2>1. \A g \in Ports \ {h} : step'[g] = step[g] /\ at'[g] = at[g]
    BY <1>1 DEF Goto, RouterTypeOK
  <2>2. packet' = packet
    BY <1>1 DEF Stay
  <2>3. Handling \ {h} \subseteq Handling'
    BY <2>1 DEF Handling
  <2>. QED
    BY <1>1, <1>2, <1>3, <2>1, <2>2, <2>3, FlagKept DEF RouterOK, Handling
<1>7. CASE runningStatus # 0 /\ voice' = [voice EXCEPT ![h] = runningStatus]
           /\ Goto(h, "message", at[h] - 1)
  <2>1. at[h] - 1 \in Nat /\ voice'[h] \in VoiceBytes
    BY <1>3, <1>4, <1>7 DEF RouterTypeOK
  <2>. QED
    BY <1>1, <1>2, <1>3, <1>4, <1>5, <1>6, <1>7, <2>1, SpoiltMoves
<1>8. CASE voice' = [voice EXCEPT ![h] = 240] /\ Goto(h, "sysex", at[h])
  BY <1>1, <1>2, <1>3, <1>4, <1>5, <1>6, <1>8, SpoiltMoves
<1>. QED
  BY <1>1, <1>7, <1>8

LEMMA LengthType ==
  ASSUME NEW st
  PROVE  MessageLength(st) \in {2, 3}
  BY DEF MessageLength

(* Only the port of the packet hears it, ... *)
LEMMA HeardElsewhere ==
  ASSUME RouterTypeOK, NEW h \in Ports, NEW p \in Ports, NEW q \in Ports \ {p}
  PROVE  Heard(h, p)[q] = chans[q]
  BY DEF Heard, RouterTypeOK

(* ... and a message that is heard from its status byte on as it was sent. *)
LEMMA HeardAsPlayed ==
  ASSUME RouterTypeOK, NEW h \in Ports, packet[h] \in Messages,
         packet[h][1] < 240, at[h] = 1, voice[h] = packet[h][1]
  PROVE  Heard(h, h)[h] = Played(chans[h], packet[h])
<1>. DEFINE e == Effect(chans[h][Low(voice[h])], Status(h), packet[h][at[h] + 1],
                        Byte(packet[h], at[h] + 2))
            c == Low(voice[h])
<1>1. Heard(h, h) = [chans EXCEPT ![h] = [chans[h] EXCEPT ![c] = e]]
  BY Zenon DEF Heard
<1>2. packet[h][1] \in Nat
  BY Shape DEF Bytes
<1>3. e = Effect(chans[h][Low(packet[h][1])], High(packet[h][1]), packet[h][2], Byte(packet[h], 3))
  BY DEF Status
<1>4. Played(chans[h], packet[h]) =
        [chans[h] EXCEPT ![Low(packet[h][1])] =
           Effect(chans[h][Low(packet[h][1])], High(packet[h][1]), packet[h][2], Byte(packet[h], 3))]
  BY <1>2 DEF Played
<1>. HIDE DEF e
<1>5. Heard(h, h)[h] = [chans[h] EXCEPT ![c] = e]
  BY <1>1 DEF RouterTypeOK
<1>. QED
  BY <1>3, <1>4, <1>5

LEMMA VoiceStepOK ==
  ASSUME RouterTypeOK, RouterOK, NEW h \in Ports, Voice(h)
  PROVE  RouterOK'
<1>. DEFINE pk == packet[h]
            i == IF Complete(h) THEN at[h] + MessageLength(Status(h)) ELSE Len(pk) + 1
<1>1. /\ step[h] = "message" /\ Goto(h, "loop", i) /\ Stay(h)
      /\ chans' = IF Complete(h) THEN Heard(h, port[h]) ELSE chans
      /\ voice' = [voice EXCEPT ![h] = 0] /\ UNCHANGED <<runningStatus, sysexFlag>>
  BY DEF Voice, router
<1>2. /\ h \in Handling /\ PacketOK(h) /\ pk \in Messages /\ at[h] \in Nat
      /\ h \notin spoilt => port[h] = h
      /\ IsSysex(pk) => port[h] \in spoilt
  <2>1. step[h] = "message"
    BY <1>1
  <2>. QED
    BY <2>1, Place
<1>3. Len(pk) \in Nat \ {0} /\ pk[1] \in Nat
  BY <1>2, Shape, ZenonT(30) DEF Bytes
<1>4. i \in Nat /\ i > 0
  <2>1. MessageLength(Status(h)) \in {2, 3}
    BY LengthType
  <2>. QED
    BY <1>2, <1>3, <2>1
<1>5. port[h] \in Ports /\ (port[h] # h => {h, port[h]} \subseteq spoilt)
  BY <1>2 DEF PacketOK, RouterTypeOK
<1>6. \A p \in Ports : p # port[h] => chans'[p] = chans[p]
  BY <1>1, <1>5, HeardElsewhere
<1>7. FlagOK'
  <2>1. \A g \in Ports \ {h} : step'[g] = step[g] /\ at'[g] = at[g]
    BY <1>1 DEF Goto, RouterTypeOK
  <2>2. packet' = packet
    BY <1>1 DEF Stay
  <2>3. Handling \ {h} \subseteq Handling'
    BY <2>1 DEF Handling
  <2>. QED
    BY <1>1, <1>2, <2>1, <2>2, <2>3, FlagKept DEF RouterOK, Handling
<1>8. \A g \in Ports \ {h} : voice'[g] = voice[g]
  BY <1>1 DEF RouterTypeOK
<1>9. runningStatus' \in {0} \cup VoiceBytes
  BY <1>1 DEF RouterOK
<1>10. CASE IsSysex(pk)
  <2>1. \A p \in Ports \ spoilt : chans'[p] = chans[p]
    BY <1>2, <1>6, <1>10
  <2>. HIDE DEF i
  <2>. QED
    BY <1>1, <1>2, <1>4, <1>7, <1>8, <1>9, <1>10, <2>1, SpoiltMoves
<1>11. CASE ~ IsSysex(pk)
  <2>1. at[h] = 1 /\ voice[h] = pk[1] /\ pk[1] < 240
    <3>1. AtOnce(h)
      BY <1>2, <1>11 DEF PacketOK
    <3>2. pk[1] >= 240 => Kind(pk[1]) # "message"
      BY DEF Kind
    <3>. QED
      BY <1>1, <1>3, <3>1, <3>2 DEF AtOnce
  <2>2. Complete(h) /\ i = Len(pk) + 1
    <3>1. IsVoiceMessage(pk)
      BY <1>2, <2>1, Shape
    <3>2. Len(pk) = MessageLength(Status(h))
      BY <2>1, <3>1 DEF IsVoiceMessage, Status
    <3>3. at[h] + MessageLength(Status(h)) - 1 <= Len(pk)
      BY <1>3, <2>1, <3>2
    <3>. QED
      BY <1>3, <2>1, <3>2, <3>3 DEF Complete
  <2>3. /\ UNCHANGED <<port, packet, told, spoilt>>
        /\ step' = [step EXCEPT ![h] = "loop"] /\ at' = [at EXCEPT ![h] = Len(pk) + 1]
    BY <1>1, <2>2, Zenon DEF Stay, Goto
  <2>4. step'[h] = "loop" /\ at'[h] = Len(pk) + 1
    BY <2>3 DEF RouterTypeOK
  <2>5. PacketOK(h)'
    <3>1. AtOnce(h)'
      BY <2>3, <2>4 DEF AtOnce
    <3>. QED
      BY <1>2, <1>3, <1>11, <2>3, <2>4, <3>1 DEF PacketOK
  <2>6. ASSUME h \notin spoilt
        PROVE  PortOK(h)'
    <3>1. chans'[h] = Played(chans[h], pk)
      BY <1>1, <1>2, <2>1, <2>2, <2>6, HeardAsPlayed
    <3>2. Pending(h) /\ PortOK(h)
      BY <1>2, <2>1, <2>6 DEF Pending, RouterOK
    <3>3. told[h] = chans'[h]
      BY <3>1, <3>2 DEF PortOK
    <3>4. Counted(chans'[h])
      BY <1>2, <3>1, <3>2, PlayedOK DEF PortOK, RouterTypeOK
    <3>5. ~ Pending(h)'
      BY <1>3, <2>4 DEF Pending
    <3>6. Counted(chans[h])' <=> Counted(chans'[h])
      BY DEF Counted
    <3>. QED
      BY <2>3, <3>3, <3>4, <3>5, <3>6 DEF PortOK
  <2>7. \A p \in Ports \ {h} : p \notin spoilt => chans'[p] = chans[p]
    BY <1>5, <1>6
  <2>. HIDE DEF i
  <2>. QED
    BY <1>1, <1>2, <1>4, <1>7, <1>8, <1>9, <2>5, <2>6, <2>7, Moves
<1>. QED
  BY <1>10, <1>11

LEMMA SkippedType ==
  ASSUME NEW c
  PROVE  Skipped(c) \in {1, 2, 3}
  BY DEF Skipped

(* A message that is not a voice message does not change its port.         *)
LEMMA PortKept ==
  ASSUME RouterTypeOK, RouterOK, NEW h \in Ports \ spoilt, packet[h][1] \in Nat,
         packet[h][1] >= 240, UNCHANGED <<chans, told, packet>>
  PROVE  PortOK(h)'
<1>1. PortOK(h) /\ ~ Pending(h) /\ ~ Pending(h)'
  BY DEF RouterOK, Pending
<1>2. Counted(chans[h])' <=> Counted(chans[h])
  BY DEF Counted
<1>. QED
  BY <1>1, <1>2 DEF PortOK

LEMMA SystemStepOK ==
  ASSUME RouterTypeOK, RouterOK, NEW h \in Ports, System(h)
  PROVE  RouterOK'
<1>. DEFINE pk == packet[h]
            c == Low(voice[h])
            s == IF c \in {0, 7} THEN "sysex" ELSE "loop"
            i == IF c \in {0, 7} THEN at[h] ELSE at[h] + Skipped(c)
<1>1. /\ step[h] = "system" /\ Goto(h, s, i) /\ Stay(h)
      /\ UNCHANGED <<sysexFlag, chans, voice>> /\ runningStatus' \in {0, runningStatus}
  BY DEF System
<1>2. /\ h \in Handling /\ PacketOK(h) /\ pk \in Messages /\ at[h] \in Nat /\ at[h] > 0
      /\ h \notin spoilt => port[h] = h
  BY <1>1, Place
<1>3. Len(pk) \in Nat \ {0} /\ pk[1] \in Nat
  BY <1>2, Shape, ZenonT(30) DEF Bytes
<1>4. i \in Nat /\ i > 0 /\ s \in {"sysex", "loop"}
  BY <1>2, SkippedType
<1>5. runningStatus' \in {0} \cup VoiceBytes
  BY <1>1 DEF RouterOK
<1>6. pk[1] >= 240
  <2>1. CASE IsSysex(pk)
    BY <2>1 DEF IsSysex
  <2>2. CASE ~ IsSysex(pk)
    BY <1>1, <1>2, <1>3, <2>2 DEF PacketOK, AtOnce, Kind
  <2>. QED
    BY <2>1, <2>2
<1>7. /\ UNCHANGED <<port, packet, told, spoilt>>
      /\ step' = [step EXCEPT ![h] = s] /\ at' = [at EXCEPT ![h] = i]
  BY <1>1, Zenon DEF Stay, Goto
<1>8. step'[h] = s /\ at'[h] = i /\ Handling' = Handling
  BY <1>2, <1>4, <1>7 DEF RouterTypeOK, Handling
<1>9. PacketOK(h)'
  <2>1. ASSUME ~ IsSysex(pk)
        PROVE  AtOnce(h)'
    <3>1. AtOnce(h)
      BY <1>2, <2>1 DEF PacketOK
    <3>2. at[h] = 1 /\ voice[h] = pk[1]
      BY <1>1, <3>1 DEF AtOnce
    <3>3. pk[1] > 240 /\ pk[1] # 247 /\ pk[1] < 256
      <4>1. pk[1] # 247 /\ pk[1] \in Bytes
        BY <1>2, Shape
      <4>2. pk[1] # 240
        BY <2>1 DEF IsSysex
      <4>. QED
        BY <1>3, <1>6, <4>1, <4>2 DEF Bytes
    <3>4. c = pk[1] - 240
      BY <1>3, <3>2, <3>3 DEF Low
    <3>5. Len(pk) = Skipped(c)
      BY <1>2, <3>2, <3>3, Shape DEF IsSystemMessage
    <3>6. c \notin {0, 7}
      BY <1>3, <3>3, <3>4
    <3>7. s = "loop" /\ i = Len(pk) + 1
      BY <1>3, <3>2, <3>5, <3>6
    <3>. QED
      BY <1>7, <1>8, <3>7 DEF AtOnce
  <2>2. ASSUME IsSysex(pk), port[h] \notin spoilt
        PROVE  Undisturbed(h)'
    <3>1. Undisturbed(h)
      BY <1>2, <2>2 DEF PacketOK
    <3>2. at[h] = 1 /\ voice[h] = 240
      BY <1>1, <3>1 DEF Undisturbed
    <3>3. c = 0
      BY <3>2 DEF Low
    <3>. QED
      BY <1>1, <1>8, <3>2, <3>3 DEF Undisturbed
  <2>. QED
    BY <1>2, <1>4, <1>7, <1>8, <2>1, <2>2 DEF PacketOK
<1>10. h \notin spoilt => PortOK(h)'
  BY <1>1, <1>3, <1>6, <1>7, PortKept
<1>11. FlagOK'
  <2>1. \A g \in Handling \ {h} : step'[g] = step[g] /\ at'[g] = at[g]
    BY <1>7 DEF RouterTypeOK, Handling
  <2>. QED
    BY <1>1, <1>2, <1>7, <1>8, <2>1, FlagKept DEF RouterOK
<1>. HIDE DEF s, i
<1>. QED
  BY <1>1, <1>2, <1>4, <1>5, <1>9, <1>10, <1>11, Moves DEF RouterTypeOK

(* The bytes of a system exclusive message. *)
LEMMA SysexBytes ==
  ASSUME NEW pk \in Messages, IsSysex(pk), NEW i \in 1 .. Len(pk)
  PROVE  /\ Len(pk) > 1 /\ Len(pk) \in Nat /\ pk[i] \in Nat
         /\ i = 1 => pk[i] = 240
         /\ i = Len(pk) => pk[i] = 247
         /\ i > 1 /\ i < Len(pk) => pk[i] < 128
<1>1. IsSysexMessage(pk) /\ pk \in Seq(Bytes) /\ Len(pk) \in Nat
  BY Shape DEF IsSysex
<1>2. pk[i] \in Bytes
  BY <1>1
<1>. QED
  BY <1>1, <1>2 DEF IsSysexMessage, IsSysex, Bytes

LEMMA SysexByteOK ==
  ASSUME RouterTypeOK, RouterOK, NEW h \in Ports, SysexByte(h)
  PROVE  RouterOK'
<1>. DEFINE pk == packet[h]
            c == packet[h][at[h]]
<1>1. step[h] = "sysex" /\ UNCHANGED <<chans, voice>> /\ Stay(h)
  BY DEF SysexByte
<1>2. /\ h \in Handling /\ PacketOK(h) /\ pk \in Messages /\ at[h] \in Nat /\ at[h] > 0
      /\ h \notin spoilt => port[h] = h
      /\ IsSysex(pk)
  BY <1>1, Place
<1>3. Len(pk) \in Nat /\ Len(pk) > 1 /\ pk[1] = 240
  BY <1>2, Shape DEF IsSysex, IsSysexMessage
<1>4. UNCHANGED <<port, packet, told, spoilt, voice, chans>>
  BY <1>1 DEF Stay
<1>5. h \notin spoilt => PortOK(h)'
  BY <1>3, <1>4, PortKept
<1>6. port[h] \notin spoilt => Handling = {h} /\ Undisturbed(h)
  BY <1>2 DEF PacketOK
<1>7. runningStatus \in {0} \cup VoiceBytes /\ FlagOK
  BY DEF RouterOK
(* What is left to show of a step to another place. *)
<1>8. ASSUME NEW s \in {"loop", "sysex"}, NEW i \in Nat, i > 0, Goto(h, s, i),
             runningStatus' \in {0, runningStatus},
             port[h] \notin spoilt => Undisturbed(h)', FlagOK'
      PROVE  RouterOK'
  <2>1. step' = [step EXCEPT ![h] = s] /\ at' = [at EXCEPT ![h] = i]
    BY <1>8 DEF Goto
  <2>2. step'[h] = s /\ at'[h] = i /\ Handling' = Handling
    BY <1>2, <2>1 DEF RouterTypeOK, Handling
  <2>3. PacketOK(h)'
    BY <1>2, <1>4, <1>8, <2>2 DEF PacketOK
  <2>4. runningStatus' \in {0} \cup VoiceBytes
    BY <1>7, <1>8
  <2>. QED
    BY <1>1, <1>2, <1>4, <1>5, <1>8, <2>3, <2>4, Moves
<1>9. CASE at[h] > Len(pk)
  <2>1. Goto(h, "loop", Len(pk) + 2) /\ UNCHANGED <<runningStatus, sysexFlag>>
    BY <1>9 DEF SysexByte, router
  <2>2. port[h] \in spoilt
    BY <1>1, <1>2, <1>3, <1>6, <1>9 DEF Undisturbed
  <2>3. FlagOK'
    <3>1. step' = [step EXCEPT ![h] = "loop"] /\ at' = [at EXCEPT ![h] = Len(pk) + 2]
      BY <2>1 DEF Goto
    <3>2. \A g \in Handling \ {h} : step'[g] = step[g] /\ at'[g] = at[g] /\ g \in Handling'
      BY <3>1 DEF RouterTypeOK, Handling
    <3>3. ~ at[h] \in 2 .. Len(pk)
      BY <1>2, <1>3, <1>9
    <3>. QED
      BY <1>2, <1>4, <1>7, <2>1, <3>2, <3>3 DEF FlagOK
  <2>. QED
    BY <1>3, <1>8, <2>1, <2>2, <2>3
<1>10. CASE at[h] <= Len(pk)
  <2>0. at[h] \in 1 .. Len(pk)
    BY <1>2, <1>3, <1>10
  <2>1. InSysex(h)
    BY <1>2, <1>3, <1>10 DEF SysexByte
  <2>2. /\ c \in Nat
        /\ at[h] = 1 => c = 240
        /\ at[h] = Len(pk) => c = 247
        /\ at[h] > 1 /\ at[h] < Len(pk) => c < 128
    BY <1>2, <2>0, SysexBytes
  <2>3. CASE c = 247
    <3>1. sysexFlag' = FALSE /\ UNCHANGED runningStatus /\ Goto(h, "loop", at[h] + 1)
      BY <2>1, <2>3 DEF InSysex, Current, IsStatus
    <3>2. at[h] = Len(pk)
      BY <1>2, <1>3, <2>0, <2>2, <2>3
    <3>3. step'[h] = "loop" /\ at'[h] = Len(pk) + 1
      BY <3>1, <3>2 DEF Goto, RouterTypeOK
    <3>4. Undisturbed(h)' /\ FlagOK'
      BY <1>4, <3>1, <3>3 DEF Undisturbed, FlagOK
    <3>. QED
      BY <1>2, <1>8, <3>1, <3>4
  <2>4. CASE c = 240
    <3>1. sysexFlag' = TRUE /\ runningStatus' = 0 /\ Goto(h, "sysex", at[h] + 1)
      BY <2>1, <2>4 DEF InSysex, Current, IsStatus
    <3>2. at[h] = 1
      BY <1>2, <1>3, <2>0, <2>2, <2>4
    <3>3. step'[h] = "sysex" /\ at'[h] = 2 /\ h \in Handling'
      BY <3>1, <3>2 DEF Goto, RouterTypeOK, Handling
    <3>4. Undisturbed(h)' /\ FlagOK'
      BY <1>2, <1>3, <1>4, <3>1, <3>3 DEF Undisturbed, FlagOK
    <3>. QED
      BY <1>2, <1>8, <3>1, <3>4
  <2>5. CASE c \notin {240, 247}
    <3>1. at[h] > 1 /\ at[h] < Len(pk) /\ c < 128
      BY <1>2, <1>3, <2>0, <2>2, <2>5
    <3>2. /\ UNCHANGED <<runningStatus, sysexFlag>>
          /\ Goto(h, IF sysexFlag THEN "sysex" ELSE "loop", at[h] + 1)
      BY <2>1, <2>2, <2>5, <3>1 DEF InSysex, Current, IsStatus, router
    <3>3. CASE ~ sysexFlag
      <4>1. port[h] \in spoilt
        BY <1>1, <1>6, <3>1, <3>3 DEF Undisturbed
      <4>2. FlagOK'
        BY <3>2, <3>3 DEF FlagOK
      <4>3. Goto(h, "loop", at[h] + 1)
        BY <3>2, <3>3
      <4>. QED
        BY <1>2, <1>8, <3>2, <4>1, <4>2, <4>3
    <3>4. CASE sysexFlag
      <4>1. Goto(h, "sysex", at[h] + 1)
        BY <3>2, <3>4
      <4>2. step'[h] = "sysex" /\ at'[h] = at[h] + 1 /\ h \in Handling'
        BY <4>1 DEF Goto, RouterTypeOK, Handling
      <4>3. at[h] + 1 \in 2 .. Len(pk)
        BY <1>2, <1>3, <3>1
      <4>4. sysexFlag' = sysexFlag
        BY <3>2
      <4>5. FlagOK'
        BY <1>2, <1>4, <4>2, <4>3 DEF FlagOK
      <4>6. Undisturbed(h)'
        BY <1>4, <3>4, <4>2, <4>3, <4>4 DEF Undisturbed
      <4>. QED
        BY <1>2, <1>8, <3>2, <4>1, <4>5, <4>6
    <3>. QED
      BY <3>3, <3>4
  <2>. QED
    BY <2>3, <2>4, <2>5
<1>. QED
  BY <1>2, <1>3, <1>9, <1>10

LEMMA LoopEndsOK ==
  ASSUME RouterTypeOK, RouterOK, NEW h \in Ports, LoopEnds(h)
  PROVE  RouterOK'
<1>1. /\ step[h] = "loop" /\ at[h] > Len(packet[h])
      /\ step' = [step EXCEPT ![h] = "idle"] /\ at' = [at EXCEPT ![h] = 1]
      /\ packet' = [packet EXCEPT ![h] = <<>>]
      /\ port' = [port EXCEPT ![h] = h] /\ voice' = [voice EXCEPT ![h] = 0]
      /\ UNCHANGED <<runningStatus, sysexFlag, chans, told, spoilt>>
  BY DEF LoopEnds, Goto, router
<1>2. h \in Handling /\ packet[h] \in Messages
  BY <1>1, Place
<1>3. Len(packet[h]) \in Nat /\ Len(packet[h]) > 0
  BY <1>2, Shape
<1>4. Handling' = Handling \ {h}
  BY <1>1, <1>2 DEF RouterTypeOK, Handling
<1>5. \A g \in Ports \ {h} :
        /\ step'[g] = step[g] /\ at'[g] = at[g] /\ packet'[g] = packet[g]
        /\ port'[g] = port[g] /\ voice'[g] = voice[g]
  BY <1>1 DEF RouterTypeOK
<1>6. ASSUME NEW g \in Handling'
      PROVE  PacketOK(g)'
  <2>1. PacketOK(g) /\ g \in Ports \ {h} /\ ~ Handling = {g}
    BY <1>2, <1>4 DEF RouterOK, Handling
  <2>2. AtOnce(g)' <=> AtOnce(g)
    BY <1>5, <2>1 DEF AtOnce
  <2>. QED
    BY <1>1, <1>5, <2>1, <2>2 DEF PacketOK
<1>7. ASSUME NEW p \in Ports \ spoilt
      PROVE  PortOK(p)'
  <2>1. PortOK(p) /\ UNCHANGED <<chans, told>>
    BY <1>1 DEF RouterOK
  <2>2. Counted(chans[p])' <=> Counted(chans[p])
    BY <2>1 DEF Counted
  <2>3. CASE p = h
    <3>1. ~ Pending(h) /\ ~ Pending(h)'
      BY <1>1, <1>3, <1>4 DEF Pending
    <3>. QED
      BY <2>1, <2>2, <2>3, <3>1 DEF PortOK
  <2>4. CASE p # h
    <3>1. Pending(p)' <=> Pending(p)
      BY <1>4, <1>5, <2>4 DEF Pending
    <3>. QED
      BY <1>5, <2>1, <2>2, <2>4, <3>1 DEF PortOK
  <2>. QED
    BY <2>3, <2>4
<1>8. FlagOK'
  <2>1. \A g \in Handling \ {h} : g \in Handling' /\ g \in Ports \ {h}
    BY <1>4 DEF Handling
  <2>. QED
    BY <1>1, <1>5, <2>1 DEF FlagOK, RouterOK
<1>. QED
  BY <1>1, <1>6, <1>7, <1>8 DEF RouterOK

LEMMA IncomingOK ==
  ASSUME RouterTypeOK, RouterOK, NEW h \in Ports, NEW p \in Ports, Incoming(h, p)
  PROVE  RouterOK'
<1>1. PICK pk \in Messages :
        /\ Plausible(h, pk)
        /\ packet' = [packet EXCEPT ![h] = pk]
        /\ told' = [told EXCEPT ![h] = Played(told[h], pk)]
        /\ spoilt' = spoilt \cup
             {port[g] : g \in {g \in Handling : IsSysex(packet[g])}} \cup
             (IF IsSysex(pk) /\ Handling # {} THEN {p} ELSE {}) \cup
             (IF p # h THEN {p, h} ELSE {})
  BY DEF Incoming
<1>2. /\ step[h] = "fetched"
      /\ port' = [port EXCEPT ![h] = p]
      /\ step' = [step EXCEPT ![h] = "loop"] /\ at' = [at EXCEPT ![h] = 1]
      /\ UNCHANGED <<runningStatus, sysexFlag, chans, voice>>
  BY DEF Incoming, Goto, router
<1>3. h \notin Handling /\ Handling' = Handling \cup {h}
  BY <1>2 DEF RouterTypeOK, Handling
<1>4. \A g \in Ports \ {h} :
        /\ step'[g] = step[g] /\ at'[g] = at[g] /\ packet'[g] = packet[g]
        /\ port'[g] = port[g] /\ voice'[g] = voice[g] /\ told'[g] = told[g]
  BY <1>1, <1>2 DEF RouterTypeOK
<1>5. /\ step'[h] = "loop" /\ at'[h] = 1 /\ packet'[h] = pk /\ port'[h] = p
      /\ told'[h] = Played(told[h], pk)
  BY <1>1, <1>2 DEF RouterTypeOK
<1>6. /\ spoilt \subseteq spoilt'
      /\ \A g \in Handling : IsSysex(packet[g]) => port[g] \in spoilt'
      /\ IsSysex(pk) /\ Handling # {} => p \in spoilt'
      /\ p # h => {p, h} \subseteq spoilt'
  BY <1>1
<1>7. ASSUME NEW g \in Handling'
      PROVE  PacketOK(g)'
  <2>1. CASE g = h
    <3>1. IsSysex(pk) /\ p \notin spoilt' => Handling' = {h}
      BY <1>3, <1>6
    <3>2. AtOnce(h)' /\ Undisturbed(h)'
      BY <1>5 DEF AtOnce, Undisturbed
    <3>. QED
      BY <1>5, <1>6, <2>1, <3>1, <3>2 DEF PacketOK
  <2>2. CASE g # h
    <3>1. PacketOK(g) /\ g \in Handling /\ g \in Ports \ {h}
      BY <1>3, <2>2 DEF RouterOK, Handling
    <3>2. AtOnce(g)' <=> AtOnce(g)
      BY <1>4, <3>1 DEF AtOnce
    <3>3. IsSysex(packet[g]) => port[g] \in spoilt'
      BY <1>6, <3>1
    <3>. QED
      BY <1>4, <1>6, <3>1, <3>2, <3>3 DEF PacketOK
  <2>. QED
    BY <2>1, <2>2
<1>8. ASSUME NEW q \in Ports \ spoilt'
      PROVE  PortOK(q)'
  <2>1. PortOK(q) /\ UNCHANGED chans
    BY <1>2, <1>6, <1>8 DEF RouterOK
  <2>2. Counted(chans[q])' <=> Counted(chans[q])
    BY <2>1 DEF Counted
  <2>3. CASE q # h
    <3>1. Pending(q)' <=> Pending(q)
      BY <1>3, <1>4, <2>3 DEF Pending
    <3>. QED
      BY <1>4, <2>1, <2>2, <2>3, <3>1 DEF PortOK
  <2>4. CASE q = h
    <3>1. told[h] = chans[h]
      BY <1>3, <2>1, <2>4 DEF PortOK, Pending
    <3>2. Fits(chans[h], pk)
      BY <1>1, <3>1 DEF Plausible, KeyDown, Fits
    <3>3. told'[h] = Played(chans'[h], pk) /\ Fits(chans'[h], pk)
      BY <1>5, <2>1, <3>1, <3>2
    <3>4. pk[1] \in Nat
      BY Shape DEF Bytes
    <3>5. ~ Pending(h)' => told'[h] = chans'[h]
      BY <1>3, <1>5, <3>3, <3>4 DEF Pending, Played
    <3>6. (told[h] = Played(chans[h], packet[h]) /\ Fits(chans[h], packet[h]))'
      BY <1>5, <3>3
    <3>. QED
      BY <2>1, <2>2, <2>4, <3>5, <3>6 DEF PortOK
  <2>. QED
    BY <2>3, <2>4
<1>9. FlagOK'
  <2>1. \A g \in Handling : g \in Handling' /\ g \in Ports \ {h}
    BY <1>3 DEF Handling
  <2>. QED
    BY <1>2, <1>4, <2>1 DEF FlagOK, RouterOK
<1>10. runningStatus' \in {0} \cup VoiceBytes
  BY <1>2 DEF RouterOK
<1>. QED
  BY <1>7, <1>8, <1>9, <1>10 DEF RouterOK

(* Channels as they are reset: no key is down. *)
LEMMA ResetCounts ==
  Reset0.numKeysDown = Cardinality(KeysDown(Reset0))
<1>1. KeysDown(Reset0) = {} /\ Reset0.numKeysDown = 0
  BY DEF KeysDown, Reset0, AllZero
<1>. QED
  BY <1>1, FS_EmptySet

LEMMA ResetOK ==
  ASSUME ResetState, Handling' = {}
  PROVE  RouterOK'
<1>1. /\ runningStatus' = 0 /\ sysexFlag' = FALSE /\ told' = chans'
      /\ chans' = [p \in Ports |-> [c \in Chans |-> Reset0]]
  BY DEF ResetState
<1>2. ASSUME NEW p \in Ports
      PROVE  PortOK(p)'
  <2>1. Counted(chans[p])'
    BY <1>1, ResetCounts DEF Counted
  <2>2. ~ Pending(p)'
    BY DEF Pending
  <2>. QED
    BY <1>1, <2>1, <2>2 DEF PortOK
<1>. QED
  BY <1>1, <1>2 DEF RouterOK, FlagOK

-----------------------------------------------------------------------------
(* Types                                                                   *)

LEMMA ByteValues == 0 \in Bytes /\ 240 \in Bytes /\ {0} \cup VoiceBytes \subseteq Bytes
  BY DEF Bytes, VoiceBytes

LEMMA MovesType ==
  ASSUME RouterTypeOK, NEW h \in Ports, NEW s \in Steps, NEW i \in Nat,
         Goto(h, s, i), Stay(h), runningStatus' \in Bytes, sysexFlag' \in BOOLEAN,
         chans' \in [Ports -> [Chans -> ChanStates]], voice' \in [Ports -> Bytes]
  PROVE  RouterTypeOK'
<1>1. /\ step' = [step EXCEPT ![h] = s] /\ at' = [at EXCEPT ![h] = i]
      /\ UNCHANGED <<port, packet, told, spoilt, sent>>
  BY DEF Goto, Stay
<1>. QED
  BY <1>1 DEF RouterTypeOK, Steps

LEMMA TopType ==
  ASSUME RouterTypeOK, RouterOK, NEW h \in Ports, Top(h)
  PROVE  RouterTypeOK'
<1>. DEFINE c == packet[h][at[h]]
<1>1. /\ step[h] = "loop" /\ at[h] <= Len(packet[h])
      /\ voice' = [voice EXCEPT ![h] = c] /\ Goto(h, Kind(c), at[h])
      /\ UNCHANGED <<sysexFlag, chans>> /\ Stay(h)
      /\ runningStatus' \in {Running(c), runningStatus}
  BY DEF Top, Current
<1>2. packet[h] \in Messages /\ at[h] \in Nat /\ at[h] > 0
  BY <1>1, Place
<1>3. packet[h] \in Seq(Bytes) /\ at[h] \in 1 .. Len(packet[h])
  BY <1>1, <1>2, Shape
<1>4. c \in Bytes
  BY <1>3
<1>. HIDE DEF c
<1>5. Kind(c) \in Steps
  BY DEF Kind, Steps
<1>6. runningStatus' \in Bytes
  BY <1>1, <1>4, ByteValues DEF Running, RouterTypeOK
<1>7. voice' \in [Ports -> Bytes]
  BY <1>1, <1>4 DEF RouterTypeOK
<1>8. sysexFlag' \in BOOLEAN /\ chans' \in [Ports -> [Chans -> ChanStates]]
  BY <1>1 DEF RouterTypeOK
<1>. QED
  BY <1>1, <1>2, <1>5, <1>6, <1>7, <1>8, MovesType

LEMMA DataStepType ==
  ASSUME RouterTypeOK, RouterOK, NEW h \in Ports, Data(h)
  PROVE  RouterTypeOK'
<1>1. step[h] = "data"
  BY DEF Data
<1>2. at[h] \in Nat /\ at[h] - 1 \in Nat
  BY <1>1, Place
<1>3. UNCHANGED <<runningStatus, sysexFlag, chans>> /\ Stay(h)
  BY DEF Data, router
<1>4. PICK s \in {"message", "sysex"}, i \in {at[h] - 1, at[h]}, b \in {runningStatus, 240} :
        voice' = [voice EXCEPT ![h] = b] /\ Goto(h, s, i)
  BY DEF Data
<1>5. voice' \in [Ports -> Bytes]
  BY <1>4, ByteValues DEF RouterTypeOK
<1>6. s \in Steps /\ i \in Nat
  BY <1>2 DEF Steps
<1>7. /\ runningStatus' \in Bytes /\ sysexFlag' \in BOOLEAN
      /\ chans' \in [Ports -> [Chans -> ChanStates]]
  BY <1>3 DEF RouterTypeOK
<1>. QED
  BY <1>3, <1>4, <1>5, <1>6, <1>7, MovesType

LEMMA HeardType ==
  ASSUME RouterTypeOK, NEW h \in Ports, NEW p \in Ports, packet[h] \in Messages,
         voice[h] \in VoiceBytes, Complete(h)
  PROVE  Heard(h, p) \in [Ports -> [Chans -> ChanStates]]
<1>. DEFINE e == Effect(chans[p][Low(voice[h])], Status(h), packet[h][at[h] + 1],
                        Byte(packet[h], at[h] + 2))
            c == Low(voice[h])
<1>1. Heard(h, p) = [chans EXCEPT ![p] = [chans[p] EXCEPT ![c] = e]]
  BY Zenon DEF Heard
<1>2. Status(h) \in VoiceStatuses
  BY StatusByte DEF Status
<1>3. at[h] \in Nat /\ packet[h] \in Seq(Bytes) /\ Len(packet[h]) \in Nat
  BY Shape DEF RouterTypeOK
<1>4. at[h] + 1 \in 1 .. Len(packet[h])
  <2>1. MessageLength(Status(h)) \in {2, 3}
    BY LengthType
  <2>. QED
    BY <1>3, <2>1 DEF Complete
<1>5. packet[h][at[h] + 1] \in Bytes
  BY <1>3, <1>4
<1>6. Byte(packet[h], at[h] + 2) \in Bytes
  BY <1>3, ThirdByte
<1>7. chans[p] \in [Chans -> ChanStates]
  BY DEF RouterTypeOK
<1>8. c \in Chans => e \in ChanStates
  BY <1>2, <1>5, <1>6, <1>7, EffectType
<1>. HIDE DEF e, c
<1>9. [chans[p] EXCEPT ![c] = e] \in [Chans -> ChanStates]
  BY <1>7, <1>8
<1>. QED
  BY <1>1, <1>9 DEF RouterTypeOK

LEMMA VoiceStepType ==
  ASSUME RouterTypeOK, RouterOK, NEW h \in Ports, Voice(h)
  PROVE  RouterTypeOK'
<1>. DEFINE i == IF Complete(h) THEN at[h] + MessageLength(Status(h)) ELSE Len(packet[h]) + 1
<1>1. /\ step[h] = "message" /\ Goto(h, "loop", i) /\ Stay(h)
      /\ chans' = IF Complete(h) THEN Heard(h, port[h]) ELSE chans
      /\ voice' = [voice EXCEPT ![h] = 0] /\ UNCHANGED <<runningStatus, sysexFlag>>
  BY DEF Voice, router
<1>2. packet[h] \in Messages /\ voice[h] \in VoiceBytes /\ at[h] \in Nat
  <2>1. step[h] = "message"
    BY <1>1
  <2>. QED
    BY <2>1, Place DEF PacketOK
<1>3. i \in Nat
  <2>1. MessageLength(Status(h)) \in {2, 3} /\ Len(packet[h]) \in Nat
    BY <1>2, LengthType, Shape
  <2>. QED
    BY <1>2, <2>1
<1>4. port[h] \in Ports
  BY DEF RouterTypeOK
<1>5. chans' \in [Ports -> [Chans -> ChanStates]]
  BY <1>1, <1>2, <1>4, HeardType DEF RouterTypeOK
<1>6. voice' \in [Ports -> Bytes] /\ runningStatus' \in Bytes /\ sysexFlag' \in BOOLEAN
  BY <1>1, ByteValues DEF RouterTypeOK
<1>7. "loop" \in Steps
  BY DEF Steps
<1>. HIDE DEF i
<1>. QED
  BY <1>1, <1>3, <1>5, <1>6, <1>7, MovesType

LEMMA SystemStepType ==
  ASSUME RouterTypeOK, RouterOK, NEW h \in Ports, System(h)
  PROVE  RouterTypeOK'
<1>1. at[h] \in Nat
  BY DEF RouterTypeOK
<1>2. PICK s \in {"sysex", "loop"}, i \in {at[h], at[h] + Skipped(Low(voice[h]))} :
        Goto(h, s, i)
  BY DEF System
<1>3. /\ UNCHANGED <<sysexFlag, chans, voice>> /\ Stay(h)
      /\ runningStatus' \in {0, runningStatus}
  BY DEF System
<1>4. s \in Steps /\ i \in Nat
  BY <1>1, SkippedType DEF Steps
<1>5. /\ runningStatus' \in Bytes /\ sysexFlag' \in BOOLEAN
      /\ chans' \in [Ports -> [Chans -> ChanStates]] /\ voice' \in [Ports -> Bytes]
  BY <1>3, ByteValues DEF RouterTypeOK
<1>. QED
  BY <1>2, <1>3, <1>4, <1>5, MovesType

LEMMA SysexByteType ==
  ASSUME RouterTypeOK, RouterOK, NEW h \in Ports, SysexByte(h)
  PROVE  RouterTypeOK'
<1>1. step[h] = "sysex" /\ UNCHANGED <<chans, voice>> /\ Stay(h)
  BY DEF SysexByte
<1>2. packet[h] \in Messages /\ at[h] \in Nat
  BY <1>1, Place
<1>3. Len(packet[h]) \in Nat
  BY <1>2, Shape
<1>4. PICK s \in {"sysex", "loop"}, i \in {Len(packet[h]) + 1, Len(packet[h]) + 2, at[h] + 1} :
        Goto(h, s, i)
  BY DEF SysexByte, InSysex
<1>5. runningStatus' \in {0, runningStatus} /\ sysexFlag' \in {TRUE, FALSE, sysexFlag}
  BY DEF SysexByte, InSysex, router
<1>6. s \in Steps /\ i \in Nat
  BY <1>2, <1>3 DEF Steps
<1>7. /\ runningStatus' \in Bytes /\ sysexFlag' \in BOOLEAN
      /\ chans' \in [Ports -> [Chans -> ChanStates]] /\ voice' \in [Ports -> Bytes]
  BY <1>1, <1>5, ByteValues DEF RouterTypeOK
<1>. QED
  BY <1>1, <1>4, <1>6, <1>7, MovesType

LEMMA LoopEndsType ==
  ASSUME RouterTypeOK, NEW h \in Ports, LoopEnds(h)
  PROVE  RouterTypeOK'
  BY ByteValues DEF RouterTypeOK, LoopEnds, Goto, router

LEMMA IncomingType ==
  ASSUME RouterTypeOK, NEW h \in Ports, NEW p \in Ports, Incoming(h, p)
  PROVE  RouterTypeOK'
<1>1. PICK pk \in Messages :
        /\ packet' = [packet EXCEPT ![h] = pk]
        /\ told' = [told EXCEPT ![h] = Played(told[h], pk)]
        /\ spoilt' = spoilt \cup
             {port[g] : g \in {g \in Handling : IsSysex(packet[g])}} \cup
             (IF IsSysex(pk) /\ Handling # {} THEN {p} ELSE {}) \cup
             (IF p # h THEN {p, h} ELSE {})
  BY DEF Incoming
<1>2. /\ port' = [port EXCEPT ![h] = p]
      /\ step' = [step EXCEPT ![h] = "loop"] /\ at' = [at EXCEPT ![h] = 1]
      /\ UNCHANGED <<runningStatus, sysexFlag, chans, voice, sent>>
  BY DEF Incoming, Goto, router
<1>3. Played(told[h], pk) \in [Chans -> ChanStates]
  BY PlayedOK DEF RouterTypeOK
<1>4. spoilt' \subseteq Ports
  BY <1>1 DEF RouterTypeOK, Handling
<1>5. told' \in [Ports -> [Chans -> ChanStates]]
  BY <1>1, <1>3 DEF RouterTypeOK
<1>6. packet' \in [Ports -> Messages \cup {<<>>}]
  BY <1>1 DEF RouterTypeOK
<1>7. /\ port' \in [Ports -> Ports] /\ at' \in [Ports -> Nat] /\ step' \in [Ports -> Steps]
  BY <1>2 DEF RouterTypeOK, Steps
<1>. QED
  BY <1>2, <1>4, <1>5, <1>6, <1>7 DEF RouterTypeOK, Steps

(* The router's part of a step by an input's thread. *)
LEMMA HandleOK ==
  ASSUME RouterTypeOK, RouterOK, NEW h \in Ports, Handle(h)
  PROVE  RouterTypeOK' /\ RouterOK'
<1>1. CASE LoopEnds(h)
  BY <1>1, LoopEndsOK, LoopEndsType
<1>2. CASE Top(h)
  BY <1>2, TopOK, TopType
<1>3. CASE Data(h)
  BY <1>3, DataStepOK, DataStepType
<1>4. CASE Voice(h)
  BY <1>4, VoiceStepOK, VoiceStepType
<1>5. CASE System(h)
  BY <1>5, SystemStepOK, SystemStepType
<1>6. CASE SysexByte(h)
  BY <1>6, SysexByteOK, SysexByteType
<1>. QED
  BY <1>1, <1>2, <1>3, <1>4, <1>5, <1>6 DEF Handle

(* A thread that is not handling a packet does not matter. *)
LEMMA RouterUnchanged ==
  ASSUME RouterOK, Handling' = Handling, \A g \in Handling : step'[g] = step[g],
         UNCHANGED <<runningStatus, sysexFlag, chans, told, port, packet, at, voice, spoilt>>
  PROVE  RouterOK'
<1>1. ASSUME NEW g \in Handling
      PROVE  PacketOK(g)'
  <2>1. PacketOK(g) /\ step'[g] = step[g]
    BY DEF RouterOK
  <2>2. (AtOnce(g)' <=> AtOnce(g)) /\ (Undisturbed(g)' <=> Undisturbed(g))
    BY <2>1 DEF AtOnce, Undisturbed
  <2>. QED
    BY <2>1, <2>2 DEF PacketOK
<1>2. ASSUME NEW p \in Ports \ spoilt
      PROVE  PortOK(p)'
  <2>1. PortOK(p)
    BY DEF RouterOK
  <2>2. Pending(p)' <=> Pending(p)
    BY DEF Pending
  <2>3. Counted(chans[p])' <=> Counted(chans[p])
    BY DEF Counted
  <2>. QED
    BY <2>1, <2>2, <2>3 DEF PortOK
<1>3. FlagOK'
  BY DEF RouterOK, FlagOK
<1>4. runningStatus' \in {0} \cup VoiceBytes
  BY DEF RouterOK
<1>. QED
  BY <1>1, <1>2, <1>3, <1>4 DEF RouterOK

-----------------------------------------------------------------------------
(* The backend                                                             *)

LEMMA RouterStutters ==
  ASSUME RouterTypeOK, RouterOK, UNCHANGED routerVars
  PROVE  RouterTypeOK' /\ RouterOK'
<1>1. UNCHANGED <<runningStatus, sysexFlag, chans, told, step, port, packet, at, voice,
                  spoilt, sent>>
  BY DEF routerVars
<1>2. Handling' = Handling /\ RouterTypeOK'
  BY <1>1 DEF Handling, RouterTypeOK
<1>. QED
  BY <1>1, <1>2, RouterUnchanged

LEMMA FetchOK ==
  ASSUME IInv, NEW h \in Ports, Fetch(h)
  PROVE  IInv'
<1>. USE DEF IInv
<1>1. /\ h \in thread /\ step[h] = "idle" /\ sent < MaxMessages /\ sent' = sent + 1
      /\ step' = [step EXCEPT ![h] = "fetched"]
      /\ UNCHANGED <<runningStatus, sysexFlag, chans, told, port, packet, at, voice, spoilt>>
      /\ UNCHANGED <<pc, arg, calls>> /\ UNCHANGED backend
  BY DEF Fetch, router
<1>2. RouterTypeOK
  BY DEF TypeOK
<1>3. Handling' = Handling /\ \A g \in Ports \ {h} : step'[g] = step[g]
  BY <1>1, <1>2 DEF RouterTypeOK, Handling
<1>4. \A g \in Handling : step'[g] = step[g]
  BY <1>1, <1>3 DEF Handling
<1>5. RouterOK'
  BY <1>1, <1>3, <1>4, RouterUnchanged
<1>6. RouterTypeOK'
  BY <1>1, <1>2, InputsAssumption DEF RouterTypeOK, InputsAssumption
<1>7. TypeOK'
  BY <1>1, <1>6 DEF TypeOK, backend
<1>8. BackendOK'
  BY <1>1, <1>3 DEF BackendOK, DataOK, CleaningUp, backend
<1>. QED
  BY <1>5, <1>7, <1>8

(* A step of a thread that has a message.                                  *)
LEMMA ThreadSteps ==
  ASSUME IInv, NEW h \in Ports, step[h] # "idle", RouterTypeOK', RouterOK',
         \A g \in Ports \ {h} : step'[g] = step[g], UNCHANGED <<backend, pc, arg, calls>>
  PROVE  IInv'
<1>1. TypeOK'
  BY DEF IInv, TypeOK, backend
<1>2. h \in thread
  BY DEF IInv, BackendOK
<1>3. BackendOK'
  BY <1>2 DEF IInv, BackendOK, DataOK, CleaningUp, backend
<1>. QED
  BY <1>1, <1>3 DEF IInv

LEMMA DeliverOK ==
  ASSUME IInv, NEW h \in Ports, Deliver(h)
  PROVE  IInv'
<1>1. PICK p \in Ports : Incoming(h, p)
  BY DEF Deliver
<1>2. RouterTypeOK /\ RouterOK /\ UNCHANGED <<backend, pc, arg, calls>>
  BY DEF IInv, TypeOK, Deliver
<1>3. RouterTypeOK' /\ RouterOK'
  BY <1>1, <1>2, IncomingType, IncomingOK
<1>4. step[h] # "idle" /\ \A g \in Ports \ {h} : step'[g] = step[g]
  BY <1>1, <1>2 DEF Incoming, Goto, RouterTypeOK
<1>. QED
  BY <1>2, <1>3, <1>4, ThreadSteps

LEMMA HandleMessageOK ==
  ASSUME IInv, NEW h \in Ports, HandleMessage(h)
  PROVE  IInv'
<1>1. RouterTypeOK /\ RouterOK /\ Handle(h) /\ UNCHANGED <<backend, pc, arg, calls>>
  BY DEF IInv, TypeOK, HandleMessage
<1>2. RouterTypeOK' /\ RouterOK'
  BY <1>1, HandleOK
<1>3. step[h] # "idle"
  BY <1>1 DEF Handle, LoopEnds, Top, Data, Voice, System, SysexByte
<1>4. \E s, i : Goto(h, s, i)
  <2>1. LoopEnds(h) => Goto(h, "idle", 1)
    BY DEF LoopEnds
  <2>2. Top(h) => Goto(h, Kind(Current(h)), at[h])
    BY DEF Top
  <2>3. Data(h) => Goto(h, "message", at[h] - 1) \/ Goto(h, "sysex", at[h])
    BY DEF Data
  <2>4. Voice(h) => \E i : Goto(h, "loop", i)
    BY DEF Voice
  <2>5. System(h) => \E s, i : Goto(h, s, i)
    BY DEF System
  <2>6. SysexByte(h) => \E s, i : Goto(h, s, i)
    BY DEF SysexByte, InSysex
  <2>. QED
    BY <1>1, <2>1, <2>2, <2>3, <2>4, <2>5, <2>6 DEF Handle
<1>5. \A g \in Ports \ {h} : step'[g] = step[g]
  BY <1>1, <1>4 DEF Goto, RouterTypeOK
<1>. QED
  BY <1>1, <1>2, <1>3, <1>5, ThreadSteps

LEMMA ThreadEndsOK ==
  ASSUME IInv, NEW h \in Ports, ThreadEnds(h)
  PROVE  IInv'
<1>1. /\ h \notin doInput /\ step[h] = "idle" /\ thread' = thread \ {h}
      /\ UNCHANGED routerVars
      /\ UNCHANGED <<pc, arg, size, connected, owned, userData, doInput, failed, calls>>
  BY DEF ThreadEnds
<1>2. RouterTypeOK' /\ RouterOK' /\ step' = step
  BY <1>1, RouterStutters DEF IInv, TypeOK, routerVars
<1>3. TypeOK'
  BY <1>1, <1>2 DEF IInv, TypeOK
<1>4. BackendOK'
  BY <1>1, <1>2 DEF IInv, BackendOK, DataOK, CleaningUp
<1>. QED
  BY <1>2, <1>3, <1>4 DEF IInv

-----------------------------------------------------------------------------
(* The interpreter                                                         *)

LEMMA CallOK ==
  ASSUME IInv, NEW op \in {"start", "stop", "connect", "disconnect"}, NEW p,
         p = None \/ p \in Ports \X Uids,
         op \in {"connect", "disconnect"} => p \in Ports \X Uids,
         Call(op, p)
  PROVE  IInv'
<1>1. /\ pc = "idle" /\ calls < MaxCalls /\ calls' = calls + 1 /\ pc' = op /\ arg' = p
      /\ UNCHANGED routerVars /\ UNCHANGED backend
  BY DEF Call
<1>2. RouterTypeOK' /\ RouterOK' /\ step' = step
  BY <1>1, RouterStutters DEF IInv, TypeOK, routerVars
<1>3. calls' \in 0 .. MaxCalls
  BY <1>1, InputsAssumption DEF IInv, TypeOK, InputsAssumption
<1>4. TypeOK'
  BY <1>1, <1>2, <1>3 DEF IInv, TypeOK, backend
<1>5. BackendOK'
  BY <1>1, <1>2 DEF IInv, BackendOK, DataOK, CleaningUp, backend
<1>. QED
  BY <1>2, <1>4, <1>5 DEF IInv

LEMMA CleanupOK ==
  ASSUME IInv, Cleanup
  PROVE  IInv'
<1>1. /\ owned' = {} /\ pc' \in {"inputs", "stop inputs"} /\ UNCHANGED routerVars
      /\ UNCHANGED <<arg, size, connected, userData, doInput, thread, failed, calls>>
  BY DEF Cleanup
<1>2. RouterTypeOK' /\ RouterOK' /\ step' = step
  BY <1>1, RouterStutters DEF IInv, TypeOK, routerVars
<1>3. TypeOK'
  BY <1>1, <1>2 DEF IInv, TypeOK
<1>4. BackendOK'
  BY <1>1, <1>2 DEF IInv, BackendOK, CleaningUp
<1>. QED
  BY <1>2, <1>3, <1>4 DEF IInv

LEMMA TellToStopOK ==
  ASSUME IInv, NEW p \in Ports, TellToStop(p)
  PROVE  IInv'
<1>1. /\ doInput' = doInput \ {p} /\ UNCHANGED routerVars
      /\ UNCHANGED <<pc, arg, size, connected, owned, userData, thread, failed, calls>>
  BY DEF TellToStop, Untold
<1>2. RouterTypeOK' /\ RouterOK' /\ step' = step
  BY <1>1, RouterStutters DEF IInv, TypeOK, routerVars
<1>3. TypeOK'
  BY <1>1, <1>2 DEF IInv, TypeOK
<1>4. BackendOK'
  BY <1>1, <1>2 DEF IInv, BackendOK, DataOK, CleaningUp
<1>. QED
  BY <1>2, <1>3, <1>4 DEF IInv

LEMMA DestroyedOK ==
  ASSUME IInv, Destroyed
  PROVE  IInv'
<1>1. /\ thread = {} /\ pc' \in {"reset", "idle"} /\ UNCHANGED routerVars
      /\ size' = 0 /\ connected' = [p \in Ports |-> None]
      /\ userData' = [p \in Ports |-> None] /\ failed' = {} /\ doInput' = {}
      /\ UNCHANGED <<arg, owned, thread, calls>>
  BY DEF Destroyed, InputsGone
<1>2. RouterTypeOK' /\ RouterOK' /\ step' = step
  BY <1>1, RouterStutters DEF IInv, TypeOK, routerVars
<1>3. TypeOK'
  BY <1>1, <1>2 DEF IInv, TypeOK
<1>4. BackendOK'
  BY <1>1, <1>2 DEF IInv, BackendOK
<1>. QED
  BY <1>2, <1>3, <1>4 DEF IInv

(* The state is reset when there is no input that could be in the router.  *)
LEMMA ResetStepOK ==
  ASSUME IInv, Reset
  PROVE  IInv'
<1>1. /\ pc = "reset" /\ pc' = "idle" /\ ResetState /\ size' \in {0, Cardinality(Ports)}
      /\ UNCHANGED <<step, port, packet, at, voice>> /\ UNCHANGED sent
      /\ UNCHANGED <<arg, connected, owned, userData, doInput, thread, failed, calls>>
  BY DEF Reset, handler
<1>2. Handling' = {}
  BY <1>1 DEF IInv, BackendOK, Handling
<1>3. RouterOK'
  BY <1>1, <1>2, ResetOK
<1>4. RouterTypeOK'
  <2>1. RouterTypeOK
    BY DEF IInv, TypeOK
  <2>2. /\ runningStatus' = 0 /\ sysexFlag' = FALSE /\ told' = chans' /\ spoilt' = {}
        /\ chans' = [p \in Ports |-> [c \in Chans |-> Reset0]]
    BY <1>1 DEF ResetState
  <2>3. chans' \in [Ports -> [Chans -> ChanStates]]
    BY <2>2, ResetType
  <2>. QED
    BY <1>1, <2>1, <2>2, <2>3, ByteValues DEF RouterTypeOK
<1>5. TypeOK'
  BY <1>1, <1>4 DEF IInv, TypeOK
<1>6. BackendOK'
  BY <1>1 DEF IInv, BackendOK, DataOK, CleaningUp
<1>. QED
  BY <1>3, <1>5, <1>6 DEF IInv

LEMMA ClosePortOK ==
  ASSUME IInv, ClosePort
  PROVE  IInv'
<1>1. /\ pc \in {"connect", "disconnect"} /\ pc' \in {"open", "close"}
      /\ doInput' \subseteq doInput /\ UNCHANGED routerVars
      /\ UNCHANGED <<arg, size, connected, owned, userData, thread, failed, calls>>
  BY DEF ClosePort
<1>2. RouterTypeOK' /\ RouterOK' /\ step' = step
  BY <1>1, RouterStutters DEF IInv, TypeOK, routerVars
<1>3. TypeOK'
  BY <1>1, <1>2 DEF IInv, TypeOK
<1>4. BackendOK'
  BY <1>1, <1>2 DEF IInv, BackendOK, DataOK, CleaningUp
<1>. QED
  BY <1>2, <1>3, <1>4 DEF IInv

LEMMA NewType ==
  ASSUME IInv, arg \in Ports \X Uids
  PROVE  New \in Data0 /\ New.port = arg[1] /\ arg[1] \in Ports /\ arg[2] \in Uids
  BY DEF IInv, TypeOK, New, Data0

LEMMA OpenOK ==
  ASSUME IInv, Open
  PROVE  IInv'
<1>. DEFINE p == arg[1]
            d == Registered(New)
<1>1. /\ pc = "open" /\ pc' = "idle" /\ arg' = None /\ UNCHANGED routerVars
      /\ userData' = [userData EXCEPT ![p] = d] /\ owned' = owned \cup {New}
      /\ doInput' = doInput \cup {p} /\ thread' = thread \cup {p}
      /\ connected' = [connected EXCEPT ![p] = arg[2]]
      /\ UNCHANGED <<size, failed, calls>>
  BY DEF Open, Keep
<1>2. arg \in Ports \X Uids
  BY <1>1 DEF IInv, BackendOK
<1>3. New \in Data0 /\ New.port = p /\ p \in Ports /\ arg[2] \in Uids
  BY <1>2, NewType
<1>4. d = IF userData[p] = None THEN New ELSE userData[p]
  BY DEF Registered
<1>. HIDE DEF d, p
<1>5. RouterTypeOK' /\ RouterOK' /\ step' = step
  BY <1>1, RouterStutters DEF IInv, TypeOK, routerVars
<1>6. TypeOK'
  <2>1. d \in Data0 \cup {None}
    BY <1>3, <1>4 DEF IInv, TypeOK
  <2>. QED
    BY <1>1, <1>3, <1>5, <2>1 DEF IInv, TypeOK
<1>7. BackendOK'
  <2>1. \A h \in Ports \ failed : DataOK(h) \/ (userData[h] = None /\ h \notin thread)
    BY <1>1 DEF IInv, BackendOK, CleaningUp
  <2>2. \A h \in Ports \ {p} : userData'[h] = userData[h]
    BY <1>1 DEF IInv, TypeOK
  <2>3. userData'[p] = d
    BY <1>1, <1>3 DEF IInv, TypeOK
  <2>4. ASSUME NEW h \in Ports \ failed
        PROVE  DataOK(h)' \/ (userData'[h] = None /\ h \notin thread')
    <3>1. CASE h = p
      BY <1>1, <1>3, <1>4, <2>1, <2>3, <2>4, <3>1 DEF DataOK
    <3>2. CASE h # p
      BY <1>1, <2>1, <2>2, <2>4, <3>2 DEF DataOK
    <3>. QED
      BY <3>1, <3>2
  <2>. QED
    BY <1>1, <1>5, <2>4 DEF IInv, BackendOK
<1>. QED
  BY <1>5, <1>6, <1>7 DEF IInv

LEMMA OpenThrowsOK ==
  ASSUME IInv, OpenThrows
  PROVE  IInv'
<1>. DEFINE p == arg[1]
            d == Registered(New)
<1>1. /\ pc = "open" /\ pc' = "idle" /\ arg' = None /\ UNCHANGED routerVars
      /\ userData' = [userData EXCEPT ![p] = d]
      /\ failed' = IF userData[p] = None THEN failed \cup {p} ELSE failed
      /\ UNCHANGED <<size, connected, owned, doInput, thread, calls>>
  BY DEF OpenThrows
<1>2. arg \in Ports \X Uids
  BY <1>1 DEF IInv, BackendOK
<1>3. New \in Data0 /\ p \in Ports
  BY <1>2, NewType
<1>4. d = IF userData[p] = None THEN New ELSE userData[p]
  BY DEF Registered
<1>. HIDE DEF d, p
<1>5. RouterTypeOK' /\ RouterOK' /\ step' = step
  BY <1>1, RouterStutters DEF IInv, TypeOK, routerVars
<1>6. TypeOK'
  <2>1. d \in Data0 \cup {None}
    BY <1>3, <1>4 DEF IInv, TypeOK
  <2>2. failed' \subseteq Ports
    BY <1>1, <1>3 DEF IInv, TypeOK
  <2>. QED
    BY <1>1, <1>3, <1>5, <2>1, <2>2 DEF IInv, TypeOK
<1>7. BackendOK'
  <2>1. \A h \in Ports \ failed : DataOK(h) \/ (userData[h] = None /\ h \notin thread)
    BY <1>1 DEF IInv, BackendOK, CleaningUp
  <2>2. \A h \in Ports \ failed' : h \notin failed /\ userData'[h] = userData[h]
    BY <1>1, <1>4 DEF IInv, TypeOK
  <2>3. \A h \in Ports \ failed' : DataOK(h)' \/ (userData'[h] = None /\ h \notin thread')
    BY <1>1, <2>1, <2>2 DEF DataOK
  <2>. QED
    BY <1>1, <1>5, <2>3 DEF IInv, BackendOK
<1>. QED
  BY <1>5, <1>6, <1>7 DEF IInv

LEMMA ClosedOK ==
  ASSUME IInv, Closed
  PROVE  IInv'
<1>1. /\ pc = "close" /\ pc' = "idle" /\ arg' = None /\ UNCHANGED routerVars
      /\ connected' = [connected EXCEPT ![arg[1]] = None]
      /\ UNCHANGED <<size, owned, userData, doInput, thread, failed, calls>>
  BY DEF Closed
<1>2. RouterTypeOK' /\ RouterOK' /\ step' = step
  BY <1>1, RouterStutters DEF IInv, TypeOK, routerVars
<1>3. TypeOK'
  BY <1>1, <1>2 DEF IInv, TypeOK
<1>4. BackendOK'
  BY <1>1, <1>2 DEF IInv, BackendOK, DataOK, CleaningUp
<1>. QED
  BY <1>2, <1>3, <1>4 DEF IInv

-----------------------------------------------------------------------------
(* The invariant                                                           *)

LEMMA InitOK == Init => IInv
<1>. SUFFICES ASSUME Init
              PROVE  IInv
  OBVIOUS
<1>1. /\ runningStatus = 0 /\ sysexFlag = FALSE /\ spoilt = {} /\ sent = 0
      /\ chans = [p \in Ports |-> [c \in Chans |-> Reset0]] /\ told = chans
      /\ step = [p \in Ports |-> "idle"] /\ port = [p \in Ports |-> p]
      /\ packet = [p \in Ports |-> <<>>] /\ at = [p \in Ports |-> 1]
      /\ voice = [p \in Ports |-> 0]
  BY DEF Init, RouterInit
<1>2. Handling = {}
  BY <1>1 DEF Handling
<1>3. chans \in [Ports -> [Chans -> ChanStates]]
  BY <1>1, ResetType
<1>4. RouterTypeOK
  <2>1. sent \in 0 .. MaxMessages
    BY <1>1, InputsAssumption DEF InputsAssumption
  <2>2. /\ step \in [Ports -> Steps] /\ port \in [Ports -> Ports]
        /\ packet \in [Ports -> Messages \cup {<<>>}] /\ at \in [Ports -> Nat]
    BY <1>1 DEF Steps
  <2>3. voice \in [Ports -> Bytes] /\ runningStatus \in Bytes
    BY <1>1, ByteValues
  <2>. QED
    BY <1>1, <1>3, <2>1, <2>2, <2>3 DEF RouterTypeOK, Steps
<1>5. TypeOK
  BY <1>4, InputsAssumption DEF Init, TypeOK, InputsAssumption
<1>6. ASSUME NEW p \in Ports
      PROVE  PortOK(p)
  <2>1. Counted(chans[p])
    BY <1>1, ResetCounts DEF Counted
  <2>2. ~ Pending(p)
    BY <1>2 DEF Pending
  <2>. QED
    BY <1>1, <2>1, <2>2 DEF PortOK
<1>7. RouterOK
  BY <1>1, <1>2, <1>6 DEF RouterOK, FlagOK
<1>8. BackendOK
  BY <1>1 DEF Init, BackendOK
<1>. QED
  BY <1>5, <1>7, <1>8 DEF IInv

LEMMA NextOK == IInv /\ [Next]_vars => IInv'
<1>. SUFFICES ASSUME IInv, [Next]_vars
              PROVE  IInv'
  OBVIOUS
<1>1. ASSUME NEW h \in Ports, Fetch(h) \/ Deliver(h) \/ HandleMessage(h) \/ ThreadEnds(h)
      PROVE  IInv'
  BY <1>1, FetchOK, DeliverOK, HandleMessageOK, ThreadEndsOK
<1>2. CASE MidiStart \/ MidiStop
  BY <1>2, CallOK DEF MidiStart, MidiStop
<1>3. ASSUME NEW p \in Ports, NEW u \in Uids, MidiConnect(p, u) \/ MidiDisconnect(p, u)
      PROVE  IInv'
  <2>1. <<p, u>> \in Ports \X Uids
    OBVIOUS
  <2>2. Call("connect", <<p, u>>) \/ Call("disconnect", <<p, u>>)
    BY <1>3 DEF MidiConnect, MidiDisconnect
  <2>. QED
    BY <2>1, <2>2, CallOK
<1>4. CASE Operation
  BY <1>4, CleanupOK, TellToStopOK, DestroyedOK, ResetStepOK, ClosePortOK, OpenOK,
     OpenThrowsOK, ClosedOK DEF Operation
<1>5. CASE UNCHANGED vars
  <2>1. /\ UNCHANGED routerVars /\ UNCHANGED <<pc, arg, size, connected, owned, userData>>
        /\ UNCHANGED <<doInput, thread, failed, calls>>
    BY <1>5 DEF vars
  <2>2. RouterTypeOK' /\ RouterOK' /\ step' = step
    BY <2>1, RouterStutters DEF IInv, TypeOK, routerVars
  <2>3. TypeOK'
    BY <2>1, <2>2 DEF IInv, TypeOK
  <2>4. BackendOK'
    BY <2>1, <2>2 DEF IInv, BackendOK, DataOK, CleaningUp
  <2>. QED
    BY <2>2, <2>3, <2>4 DEF IInv
<1>. QED
  BY <1>1, <1>2, <1>3, <1>4, <1>5 DEF Next

LEMMA Invariant == Spec => []IInv
  BY InitOK, NextOK, PTL DEF Spec

(* Every variable of the router and of the backend has its type.  (What    *)
(* the router indexes its arrays with is part of it: voice and at are      *)
(* bytes and positions even in a port that is spoilt.)                     *)
THEOREM TypeCorrect == Spec => []TypeOK
<1>1. IInv => TypeOK
  BY DEF IInv
<1>. QED
  BY <1>1, Invariant, PTL

(* The channels of a port are what was sent to it, and the flag of system   *)
(* exclusive messages is up only inside one: handleIncomingMessage, called *)
(* by the threads of all inputs at once with one running status and one    *)
(* flag for all of them (MidiRouter.cpp:136).                              *)
THEOREM ChannelsAsSent == Spec => []AsSent
<1>1. IInv => AsSent
  <2>. SUFFICES ASSUME IInv
                PROVE  AsSent
    OBVIOUS
  <2>1. ASSUME NEW p \in Ports, p \notin spoilt
        PROVE  /\ Settled(p) => chans[p] = told[p]
               /\ \A c \in Chans : chans[p][c].numKeysDown = Cardinality(KeysDown(chans[p][c]))
    <3>1. PortOK(p)
      BY <2>1 DEF IInv, RouterOK
    <3>2. ASSUME Settled(p)
          PROVE  ~ Pending(p)
      BY <2>1, <3>2 DEF IInv, RouterOK, PacketOK, Pending, Settled
    <3>. QED
      BY <3>1, <3>2 DEF PortOK, Counted
  <2>2. sysexFlag => \E h \in Handling : IsSysex(packet[h])
    BY DEF IInv, RouterOK, FlagOK
  <2>. QED
    BY <2>1, <2>2 DEF AsSent
<1>. QED
  BY <1>1, Invariant, PTL

(* An input that runs calls back with data that gCallbackData owns and that *)
(* names its port (connectInput, RtMidiBackend.cpp:171), while no cleanup  *)
(* is going on and its first connection has not failed.                    *)
THEOREM RunningInputsHaveData == Spec => []CallbackDataLive
<1>1. IInv => CallbackDataLive
  BY DEF IInv, TypeOK, BackendOK, DataOK, CleaningUp, CallbackDataLive
<1>. QED
  BY <1>1, Invariant, PTL
=============================================================================
