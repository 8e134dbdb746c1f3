----------------------------- MODULE MidiRouter -----------------------------
(***************************************************************************)
(* MidiRouter: the bytes that MIDI inputs deliver, and the state of the    *)
(* channels of each port that the MIDI primitives and unit generators      *)
(* read.  Every connected input has a thread of its own which calls        *)
(* handleIncomingMessage with a packet, here one complete message.  The    *)
(* channel state is kept per port; runningStatus_ and sysexFlag_ are one   *)
(* for all ports, and nothing guards them.                                 *)
(*                                                                         *)
(* The steps are the accesses to what is shared: the status byte at the    *)
(* top of the loop, the test of a data byte, a voice message, and each     *)
(* byte that processSystemPacket looks at.                                 *)
(***************************************************************************)
EXTENDS Naturals, FiniteSets, Sequences

CONSTANTS
  Ports,      (* port numbers, and at the same time the inputs' threads    *)
  Chans,      (* channels in use                                           *)
  DataBytes,  (* the data bytes in use                                     *)
  Messages,   (* the messages devices send, as sequences of bytes          *)
  MaxMessages (* bound: how many messages arrive                           *)

VARIABLES
  runningStatus, sysexFlag, (* of the router, for all ports                *)
  chans,      (* gMidiState[port][chan]                                    *)
  told,       (* what the messages sent to a port make of its channels     *)
  step,       (* where the input's thread is                               *)
  port, packet, at, (* its arguments, and its i (counted from 1)           *)
  voice,      (* its status and chan                                       *)
  spoilt,     (* ports with a system exclusive message that overlapped another packet *)
  sent

router == <<runningStatus, sysexFlag>>
handler == <<step, port, packet, at, voice>>
routerVars == <<runningStatus, sysexFlag, chans, told, step, port, packet, at, voice,
                spoilt, sent>>

-----------------------------------------------------------------------------
(* Bytes                                                                   *)

Bytes == {n \in Nat : n < 256}
SixteenBits == {n \in Nat : n < 65536}
High(byte) == byte - (byte % 16)
Low(byte)  == byte % 16
IsStatus(byte) == byte >= 128
IsSysex(pk) == pk[1] = 240

AllZero == [d \in DataBytes |-> 0]
Reset0 == [control |-> AllZero, polytouch |-> AllZero, keyvel |-> AllZero,
           numKeysDown |-> 0, bend |-> 0, touch |-> 0, program |-> 0,
           lastkey |-> 0, lastvel |-> 0]

KeysOff(s) == [s EXCEPT !.keyvel = AllZero, !.numKeysDown = 0]
ControlsOff(s) == [s EXCEPT !.control = AllZero, !.bend = 16384]
OneUp(n) == IF n > 0 THEN n - 1 ELSE 0
(* bend is 16 bits wide: values below the centre wrap around. *)
Bend(a, b) == (b * 128 + a + 65536 - 8192) % 65536

MessageLength(status) == IF status \in {192, 208} THEN 2 ELSE 3
(* How far processSystemPacket goes for a system message that is short.    *)
Skipped(c) == CASE c \in {1, 3} -> 2 [] c = 2 -> 3 [] OTHER -> 1

(* A packet is one message, complete and well formed: a status byte, the   *)
(* data bytes that it takes, and F7 at the end of a system exclusive.      *)
IsVoiceMessage(pk) ==
  /\ IsStatus(pk[1]) /\ pk[1] < 240
  /\ Low(pk[1]) \in Chans /\ pk[2] \in DataBytes
  /\ Len(pk) = MessageLength(High(pk[1])) /\ (Len(pk) = 3 => pk[3] < 128)
IsSysexMessage(pk) ==
  /\ IsSysex(pk) /\ Len(pk) > 1 /\ pk[Len(pk)] = 247
  /\ \A i \in 2 .. Len(pk) - 1 : pk[i] < 128
IsSystemMessage(pk) ==
  /\ pk[1] > 240 /\ pk[1] # 247 /\ Len(pk) = Skipped(Low(pk[1]))
  /\ \A i \in 2 .. Len(pk) : pk[i] < 128

ASSUME RouterAssumption ==
  /\ Chans \subseteq 0 .. 15 /\ DataBytes \subseteq {d \in Bytes : d < 128}
  /\ \A pk \in Messages :
       /\ pk \in Seq(Bytes) /\ Len(pk) > 0
       /\ IsVoiceMessage(pk) \/ IsSysexMessage(pk) \/ IsSystemMessage(pk)

NoteOff(s, a) == [s EXCEPT !.keyvel[a] = 0, !.numKeysDown = OneUp(@)]
NoteOn(s, a, b) ==
  [s EXCEPT !.keyvel[a] = b, !.numKeysDown = @ + 1, !.lastkey = a, !.lastvel = b]

Control(s, a, b) ==
  LET t == [s EXCEPT !.control[a] = b]
  IN  CASE a = 120 \/ a \in 123 .. 127 -> KeysOff(t)
        [] a = 121 -> ControlsOff(t)
        [] OTHER -> t

(* What a voice message does to the state of its channel. *)
Effect(s, status, a, b) ==
  CASE status = 128 \/ (status = 144 /\ b = 0) -> NoteOff(s, a)
    [] status = 144 /\ b > 0 -> NoteOn(s, a, b)
    [] status = 160 -> [s EXCEPT !.polytouch[a] = b]
    [] status = 176 -> Control(s, a, b)
    [] status = 192 -> [s EXCEPT !.program = a]
    [] status = 208 -> [s EXCEPT !.touch = a]
    [] status = 224 -> [s EXCEPT !.bend = Bend(a, b)]

Byte(pk, i) == IF i \in 1 .. Len(pk) THEN pk[i] ELSE 0
Played(s, pk) ==
  IF pk[1] >= 240 THEN s
  ELSE [s EXCEPT ![Low(pk[1])] = Effect(@, High(pk[1]), pk[2], Byte(pk, 3))]

-----------------------------------------------------------------------------
RouterInit ==
  /\ runningStatus = 0 /\ sysexFlag = FALSE
  /\ chans = [p \in Ports |-> [c \in Chans |-> Reset0]] /\ told = chans
  /\ step = [p \in Ports |-> "idle"] /\ port = [p \in Ports |-> p]
  /\ packet = [p \in Ports |-> <<>>] /\ at = [p \in Ports |-> 1]
  /\ voice = [p \in Ports |-> 0]
  /\ spoilt = {} /\ sent = 0

(* resetState *)
ResetState ==
  /\ runningStatus' = 0 /\ sysexFlag' = FALSE
  /\ chans' = [p \in Ports |-> [c \in Chans |-> Reset0]] /\ told' = chans'
  /\ spoilt' = {}

Goto(h, s, i) == step' = [step EXCEPT ![h] = s] /\ at' = [at EXCEPT ![h] = i]
Stay(h) == UNCHANGED <<port, packet, told, spoilt, sent>>

Handling == {h \in Ports : step[h] \notin {"idle", "fetched"}}

(* A keyboard sends note on for keys that are up, off for keys that are    *)
(* down, as far as it knows.                                               *)
KeyDown(p, pk) == told[p][Low(pk[1])].keyvel[pk[2]] > 0
Plausible(p, pk) ==
  /\ High(pk[1]) = 144 /\ pk[3] > 0 => ~ KeyDown(p, pk)
  /\ High(pk[1]) = 128 \/ (High(pk[1]) = 144 /\ pk[3] = 0) => KeyDown(p, pk)

(* handleIncomingMessage is called by thread h with a message for port p,  *)
(* which is h unless midiCallback has read it from freed memory.           *)
Incoming(h, p) ==
  /\ step[h] = "fetched"
  /\ \E pk \in Messages :
       /\ Plausible(h, pk)
       /\ packet' = [packet EXCEPT ![h] = pk]
       /\ told' = [told EXCEPT ![h] = Played(@, pk)]
       /\ spoilt' = spoilt \cup
            {port[g] : g \in {g \in Handling : IsSysex(packet[g])}} \cup
            (IF IsSysex(pk) /\ Handling # {} THEN {p} ELSE {}) \cup
            (IF p # h THEN {p, h} ELSE {})
  /\ port' = [port EXCEPT ![h] = p]
  /\ Goto(h, "loop", 1)
  /\ UNCHANGED <<router, chans, voice, sent>>

Current(h) == packet[h][at[h]]

(* The top of the loop: a status byte becomes the running status, unless   *)
(* it is a system message, which clears it; a data byte is left to Data.   *)
LoopEnds(h) ==
  /\ step[h] = "loop" /\ at[h] > Len(packet[h])
  /\ Goto(h, "idle", 1) /\ packet' = [packet EXCEPT ![h] = <<>>]
  /\ port' = [port EXCEPT ![h] = h] /\ voice' = [voice EXCEPT ![h] = 0]
  /\ UNCHANGED <<router, chans, told, spoilt, sent>>

Running(byte) == IF byte >= 240 THEN 0 ELSE byte
Kind(byte) == IF byte >= 240 THEN "system" ELSE IF IsStatus(byte) THEN "message" ELSE "data"
Top(h) ==
  /\ step[h] = "loop" /\ at[h] <= Len(packet[h])
  /\ IF IsStatus(Current(h))
     THEN runningStatus' = Running(Current(h))
     ELSE UNCHANGED runningStatus
  /\ voice' = [voice EXCEPT ![h] = Current(h)]
  /\ Goto(h, Kind(Current(h)), at[h])
  /\ UNCHANGED <<sysexFlag, chans>> /\ Stay(h)

(* A data byte: with a running status and outside system exclusive it is   *)
(* the first byte of another voice message ("--i", as if the status were   *)
(* at the byte before); else it goes to processSystemPacket as channel 0.  *)
Data(h) ==
  /\ step[h] = "data"
  /\ IF runningStatus # 0 /\ ~ sysexFlag
     THEN voice' = [voice EXCEPT ![h] = runningStatus] /\ Goto(h, "message", at[h] - 1)
     ELSE voice' = [voice EXCEPT ![h] = 240] /\ Goto(h, "sysex", at[h])
  /\ UNCHANGED <<router, chans>> /\ Stay(h)

(* A voice message; if the packet ends before it does, it is dropped. *)
StatusShared(h) ==                                               (* mutant *)
  High(IF runningStatus = 0 THEN voice[h] ELSE runningStatus)
Status(h) == High(voice[h])
Complete(h) == at[h] + MessageLength(Status(h)) - 1 <= Len(packet[h])
Heard(h, p) ==
  [chans EXCEPT ![p][Low(voice[h])] =
     Effect(@, Status(h), packet[h][at[h] + 1], Byte(packet[h], at[h] + 2))]

Voice(h) ==
  /\ step[h] = "message"
  /\ IF Complete(h)
     THEN chans' = Heard(h, port[h]) /\ Goto(h, "loop", at[h] + MessageLength(Status(h)))
     ELSE UNCHANGED chans /\ Goto(h, "loop", Len(packet[h]) + 1)
  /\ voice' = [voice EXCEPT ![h] = 0]
  /\ UNCHANGED router /\ Stay(h)

-----------------------------------------------------------------------------
(* processSystemPacket                                                     *)

System(h) ==
  LET c == Low(voice[h])
  IN  /\ step[h] = "system"
      /\ IF c \in {0, 7}
         THEN Goto(h, "sysex", at[h]) /\ UNCHANGED runningStatus
         ELSE /\ Goto(h, "loop", at[h] + Skipped(c))
              /\ runningStatus' = (IF c \in {8, 10, 11, 12, 15} THEN 0 ELSE runningStatus)
      /\ UNCHANGED <<sysexFlag, chans, voice>> /\ Stay(h)

(* The loop over the bytes of a system exclusive message.  It is left at   *)
(* the end of the packet or of the message, at a data byte outside of one  *)
(* (which is discarded), and with the whole packet at any other status     *)
(* byte.                                                                   *)
GarbageKept(h) ==                                                (* mutant *)
  LET c == Current(h)
  IN  \/ /\ c = 247 /\ sysexFlag' = FALSE /\ UNCHANGED runningStatus
         /\ Goto(h, "loop", at[h] + 1)
      \/ /\ c = 240 /\ sysexFlag' = TRUE /\ runningStatus' = 0
         /\ Goto(h, "sysex", at[h] + 1)
      \/ /\ c \notin {240, 247} /\ UNCHANGED router
         /\ IF sysexFlag THEN Goto(h, "sysex", at[h] + 1) ELSE Goto(h, "loop", at[h])

InSysex(h) ==
  LET c == Current(h)
  IN  \/ /\ c = 247 /\ sysexFlag' = FALSE /\ UNCHANGED runningStatus
         /\ Goto(h, "loop", at[h] + 1)
      \/ /\ c = 240 /\ sysexFlag' = TRUE /\ runningStatus' = 0
         /\ Goto(h, "sysex", at[h] + 1)
      \/ /\ IsStatus(c) /\ c \notin {240, 247}
         /\ sysexFlag' = FALSE /\ UNCHANGED runningStatus
         /\ Goto(h, "loop", Len(packet[h]) + 1)
      \/ /\ ~ IsStatus(c) /\ UNCHANGED router
         /\ Goto(h, IF sysexFlag THEN "sysex" ELSE "loop", at[h] + 1)

SysexByte(h) ==
  /\ step[h] = "sysex"
  /\ IF at[h] > Len(packet[h]) THEN UNCHANGED router /\ Goto(h, "loop", Len(packet[h]) + 2)
     ELSE InSysex(h)
  /\ UNCHANGED <<chans, voice>> /\ Stay(h)

Handle(h) ==
  LoopEnds(h) \/ Top(h) \/ Data(h) \/ Voice(h) \/ System(h) \/ SysexByte(h)

-----------------------------------------------------------------------------
ChanStates ==
  [control : [DataBytes -> Bytes], polytouch : [DataBytes -> Bytes],
   keyvel : [DataBytes -> Bytes], numKeysDown : Nat,
   bend : SixteenBits, touch : Bytes, program : Bytes,
   lastkey : Bytes, lastvel : Bytes]

RouterTypeOK ==
  /\ runningStatus \in Bytes /\ sysexFlag \in BOOLEAN
  /\ chans \in [Ports -> [Chans -> ChanStates]] /\ told \in [Ports -> [Chans -> ChanStates]]
  /\ step \in [Ports -> {"idle", "fetched", "loop", "data", "message", "system", "sysex"}]
  /\ port \in [Ports -> Ports] /\ packet \in [Ports -> Messages \cup {<<>>}]
  /\ at \in [Ports -> Nat] /\ voice \in [Ports -> Bytes]
  /\ spoilt \subseteq Ports /\ sent \in 0 .. MaxMessages

Settled(p) == \A h \in Handling : port[h] # p

(* The channels of a port are what the messages sent to it say, whatever   *)
(* the inputs of other ports send at the same time, although all share the *)
(* running status and the state of system exclusive.  Only a system        *)
(* exclusive message that overlaps another input's packet can spoil it:    *)
(* its data bytes may then be taken for notes.  numKeysDown counts the     *)
(* keys that mgate shows to be down, and the system exclusive flag is up   *)
(* only while a thread is inside such a message: a flag left up would stop *)
(* running status on every port.                                           *)
KeysDown(s) == {d \in DataBytes : s.keyvel[d] > 0}
AsSent ==
  /\ \A p \in Ports : p \notin spoilt =>
       /\ Settled(p) => chans[p] = told[p]
       /\ \A c \in Chans : chans[p][c].numKeysDown = Cardinality(KeysDown(chans[p][c]))
  /\ sysexFlag => \E h \in Handling : IsSysex(packet[h])
=============================================================================
