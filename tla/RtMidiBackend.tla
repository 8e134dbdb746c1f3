--------------------------- MODULE RtMidiBackend ---------------------------
(***************************************************************************)
(* The RtMidi backend and its inputs, each an RtMidiIn with a thread that  *)
(* hands messages to midiCallback and so to the MidiRouter.  The thread    *)
(* starts when the port is opened and is joined when it is closed.  What   *)
(* midiCallback is given is a CallbackData that gCallbackData owns.        *)
(*                                                                         *)
(* One interpreter thread calls midiStart, midiRestart, midiStop,          *)
(* midiConnectInput and midiDisconnectInput.                               *)
(***************************************************************************)
EXTENDS MidiRouter

CONSTANTS
  None,    (* no source, no data (-1, a null pointer)                       *)
  Uids,    (* the numbers of the MIDI sources there are                    *)
  MaxCalls (* bound: how many operations are called                        *)

(* Ports are numbered from 0, in midiIn_ too. *)
ASSUME InputsAssumption ==
  /\ Ports \subseteq Nat /\ \A p \in Ports : p < Cardinality(Ports)
  /\ Uids \subseteq Nat /\ MaxCalls \in Nat /\ MaxMessages \in Nat

VARIABLES
  pc, arg,   (* the operation in progress, the port it is about            *)
  size,      (* midiIn_.size()                                             *)
  connected, (* connectedPorts_; -1 is None                                *)
  owned,     (* the CallbackData that gCallbackData owns                   *)
  userData,  (* RtMidi's userData, per input; None without a callback      *)
  doInput,   (* RtMidi's doInput: the thread is to go on                   *)
  thread,    (* the input's thread exists                                  *)
  failed,    (* inputs whose first connection failed                       *)
  calls

backend == <<size, connected, owned, userData, doInput, thread, failed>>
vars == <<routerVars, pc, arg, size, connected, owned, userData, doInput, thread,
          failed, calls>>

Init ==
  /\ RouterInit
  /\ pc = "idle" /\ arg = None /\ size = 0
  /\ connected = [p \in Ports |-> None] /\ owned = {}
  /\ userData = [p \in Ports |-> None]
  /\ doInput = {} /\ thread = {} /\ failed = {}
  /\ calls = 0

-----------------------------------------------------------------------------
(* The inputs' threads                                                     *)

(* The thread finds that it is to go on and takes the next message, ... *)
Fetch(h) ==
  /\ h \in thread /\ h \in doInput /\ step[h] = "idle" /\ sent < MaxMessages
  /\ sent' = sent + 1
  /\ step' = [step EXCEPT ![h] = "fetched"]
  /\ UNCHANGED <<router, chans, told, port, packet, at, voice, spoilt, backend, pc, arg, calls>>

(* ... and calls midiCallback with it, which looks up the port in userData:  *)
(* that of the input, or whatever is there if the memory has been freed.   *)
(* (The router reduces the index to a valid port.)                         *)
Owned(h) == userData[h] \in owned
Deliver(h) ==
  /\ IF Owned(h) THEN Incoming(h, h) ELSE \E p \in Ports : Incoming(h, p)
  /\ UNCHANGED <<backend, pc, arg, calls>>

HandleMessage(h) == Handle(h) /\ UNCHANGED <<backend, pc, arg, calls>>

(* Told to stop, the thread ends when the callback has returned. *)
ThreadEnds(h) ==
  /\ h \in thread \ doInput /\ step[h] = "idle"
  /\ thread' = thread \ {h}
  /\ UNCHANGED <<routerVars, pc, arg, size, connected, owned, userData, doInput, failed, calls>>

-----------------------------------------------------------------------------
(* The interpreter                                                         *)

Call(op, p) ==
  /\ pc = "idle" /\ calls < MaxCalls /\ calls' = calls + 1
  /\ pc' = op /\ arg' = p
  /\ UNCHANGED <<routerVars, backend>>

(* midiRestart initializes the inputs there are again, as midiStart does. *)
MidiStart == Call("start", None)
MidiStop  == Call("stop", None)
(* Ports out of range and unknown sources are refused. *)
MidiConnect(p, u) == p < size /\ Call("connect", <<p, u>>)
MidiDisconnect(p, u) == p < size /\ connected[p] = u /\ Call("disconnect", <<p, u>>)

(* cleanup: gCallbackData is cleared first ... *)
Cleanup ==
  /\ pc \in {"start", "stop"}
  /\ owned' = {}
  /\ pc' = IF pc = "stop" THEN "stop inputs" ELSE "inputs"
  /\ UNCHANGED <<routerVars, arg, size, connected, userData, doInput, thread, failed, calls>>

Untold(p) == doInput \ {p}

(* ... then the inputs are destroyed one after the other: each tells its   *)
(* thread to stop and joins it.                                            *)
TellToStop(p) ==
  /\ pc \in {"inputs", "stop inputs"} /\ p \in doInput
  /\ \A q \in thread : q \in doInput
  /\ doInput' = Untold(p)
  /\ UNCHANGED <<routerVars, pc, arg, size, connected, owned, userData, thread, failed, calls>>

InputsGone == thread = {}
Destroyed ==
  /\ pc \in {"inputs", "stop inputs"} /\ InputsGone
  /\ size' = 0 /\ connected' = [p \in Ports |-> None]
  /\ userData' = [p \in Ports |-> None] /\ failed' = {} /\ doInput' = {}
  /\ pc' = IF pc = "inputs" THEN "reset" ELSE "idle"
  /\ UNCHANGED <<routerVars, arg, owned, thread, calls>>

(* initialize, after its cleanup: the state is reset and new inputs are    *)
(* made, which may throw; then everything is cleaned up again.             *)
Reset ==
  /\ pc = "reset"
  /\ ResetState
  /\ \/ size' = Cardinality(Ports)
     \/ size' = 0
  /\ pc' = "idle"
  /\ UNCHANGED <<handler, sent, arg, connected, owned, userData, doInput, thread, failed, calls>>

(* connectInput: the port is closed if it was connected, ... *)
ClosePort ==
  /\ pc \in {"connect", "disconnect"}
  /\ doInput' = (IF connected[arg[1]] = None THEN doInput ELSE doInput \ {arg[1]})
  /\ pc' = IF pc = "connect" THEN "open" ELSE "close"
  /\ UNCHANGED <<routerVars, arg, size, connected, owned, userData, thread, failed, calls>>

Joined == arg[1] \in thread => arg[1] \in doInput

(* ... a callback is set with a new CallbackData, unless there is one (a   *)
(* warning from RtMidi), and the port is opened, which may throw: then the *)
(* new CallbackData is freed.                                              *)
New == [port |-> arg[1], call |-> calls]
Registered(d) == IF userData[arg[1]] = None THEN d ELSE userData[arg[1]]
OwnedLate(d) == owned                                            (* mutant *)
Keep(d) == owned \cup {d}

Open ==
  /\ pc = "open" /\ Joined
  /\ userData' = [userData EXCEPT ![arg[1]] = Registered(New)]
  /\ doInput' = doInput \cup {arg[1]} /\ thread' = thread \cup {arg[1]}
  /\ owned' = Keep(New)
  /\ connected' = [connected EXCEPT ![arg[1]] = arg[2]]
  /\ pc' = "idle" /\ arg' = None
  /\ UNCHANGED <<routerVars, size, failed, calls>>

OpenThrows ==
  /\ pc = "open" /\ Joined
  /\ userData' = [userData EXCEPT ![arg[1]] = Registered(New)]
  /\ failed' = (IF userData[arg[1]] = None THEN failed \cup {arg[1]} ELSE failed)
  /\ pc' = "idle" /\ arg' = None
  /\ UNCHANGED <<routerVars, size, connected, owned, doInput, thread, calls>>

Closed ==
  /\ pc = "close" /\ Joined
  /\ connected' = [connected EXCEPT ![arg[1]] = None]
  /\ pc' = "idle" /\ arg' = None
  /\ UNCHANGED <<routerVars, size, owned, userData, doInput, thread, failed, calls>>

Operation ==
  Cleanup \/ (\E p \in Ports : TellToStop(p)) \/ Destroyed \/ Reset
  \/ ClosePort \/ Open \/ OpenThrows \/ Closed

Next ==
  \/ \E h \in Ports : Fetch(h) \/ Deliver(h) \/ HandleMessage(h) \/ ThreadEnds(h)
  \/ MidiStart \/ MidiStop
  \/ \E p \in Ports, u \in Uids : MidiConnect(p, u) \/ MidiDisconnect(p, u)
  \/ Operation

(* The operating system runs every thread that can go on. *)
Fairness ==
  /\ WF_vars(Operation)
  /\ \A h \in Ports : WF_vars(Deliver(h) \/ HandleMessage(h)) /\ WF_vars(ThreadEnds(h))
Spec == Init /\ [][Next]_vars /\ Fairness

-----------------------------------------------------------------------------
Data0 == [port : Ports, call : 0 .. MaxCalls]
TypeOK ==
  /\ RouterTypeOK
  /\ pc \in {"idle", "start", "stop", "inputs", "stop inputs", "reset",
            "connect", "open", "disconnect", "close"}
  /\ arg \in {None} \cup (Ports \X Uids) /\ size \in {0, Cardinality(Ports)}
  /\ connected \in [Ports -> Uids \cup {None}] /\ owned \subseteq Data0
  /\ userData \in [Ports -> Data0 \cup {None}]
  /\ doInput \subseteq thread /\ thread \subseteq Ports /\ failed \subseteq Ports
  /\ calls \in 0 .. MaxCalls

(* A running input finds its CallbackData, and in it its own port.  There  *)
(* are two exceptions: cleanup frees the data before it stops the threads, *)
(* and when the first connection of an input fails RtMidi goes on to use   *)
(* the data that is then freed, even after a connection that succeeds.     *)
CleaningUp == pc \in {"inputs", "stop inputs"}
CallbackDataLive ==
  \A h \in thread :
    \/ userData[h] \in owned /\ userData[h].port = h
    \/ CleaningUp \/ h \in failed

(* Every operation returns: a thread that is to be joined ends, whatever   *)
(* message it is handling and whatever another input does to the state     *)
(* they share meanwhile.                                                   *)
OperationReturns == pc # "idle" ~> pc = "idle"
=============================================================================
