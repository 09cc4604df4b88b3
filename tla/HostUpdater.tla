---------------------------- MODULE HostUpdater ----------------------------
(***************************************************************************)
(* M-UPGRADE, the vendor's Windows client, as its listing shows it: the    *)
(* window that probes ports, the detached thread of each probe, and the    *)
(* upgrade worker.  They share connection objects without a lock.          *)
(*                                                                         *)
(* The window holds one connection, reference counted.  A probe lends it   *)
(* to a new thread and waits for its result, but only so long: then the    *)
(* thread keeps the object and the window makes itself another one.  The   *)
(* worker has a plain pointer to the connection it was started with.       *)
(*                                                                         *)
(* External: who asks the window to probe, what starts an upgrade          *)
(* (FUN_140014150: it may set the window's mode for a first step, or take  *)
(* it as it is), the completion of a first step or of an error, and the    *)
(* devices.                                                                *)
(***************************************************************************)
EXTENDS Naturals, Sequences, FiniteSets

CONSTANTS
  Ports,        \* MIDI ports of the PC
  NoPort,       \* no port open
  MaxProbes,    \* bound: probes
  MaxRequests,  \* bound: requests of the devices
  MaxMoves,     \* bound: devices plugged in or out
  Attached      \* what may be attached to the ports at first

ASSUME HostAssumption ==
  /\ NoPort \notin Ports
  /\ Attached \subseteq [Ports -> {"none", "app", "ota", "nameless"}]
  /\ MaxProbes \in Nat /\ MaxRequests \in Nat /\ MaxMoves \in Nat

VARIABLES
  quiet,       \* whether nobody asks for a probe while an upgrade runs
  device,      \* what is attached to each port
  link,        \* the port each connection has open
  model,       \* the model each connection has stored; it is never cleared
  current,     \* the window's connection
  window,      \* what the window's thread is doing
  inProgress,  \* the window's flag at 0x115
  mode,        \* its field 0xa0: 2 for a second step; 1 stands for 0 as well,
               \* which only the text of an error tells apart
  probes,      \* probes started; the last one is the one being waited for
  thread,      \* the threads of the probes
  worker,      \* the upgrade worker
  signals,     \* what the worker has told and the window has not seen
  requests,    \* requests the devices have made
  moves        \* devices plugged in or out

windowVars == <<current, window, inProgress, mode, probes>>
linkVars == <<link, model>>
boundVars == <<requests, moves>>
hvars == <<quiet, device, linkVars, windowVars, thread, worker, signals, boundVars>>

Kinds == {"none", "app", "ota", "nameless"}
Conns == 0 .. MaxProbes
Threads == 1 .. MaxProbes

Unborn == [pc |-> "unborn", conn |-> 0, port |-> NoPort, result |-> "none"]
Resting == [pc |-> "idle", conn |-> 0, mode |-> 1, port |-> NoPort, asked |-> "none"]

Init ==
  /\ quiet \in BOOLEAN
  /\ device \in Attached
  /\ link = [c \in Conns |-> NoPort] /\ model = [c \in Conns |-> "none"]
  /\ current = 0 /\ window = "idle" /\ inProgress = FALSE /\ mode = 1 /\ probes = 0
  /\ thread = [t \in Threads |-> Unborn]
  /\ worker = Resting /\ signals = <<>>
  /\ requests = 0 /\ moves = 0

----------------------------------------------------------------------------
(* Connections *)

Active(t) == thread[t].pc \in {"opening", "asking"}

\* A connection lives while the window or a thread refers to it; the
\* destructor (external) closes its port.
Alive(c) == c = current \/ \E t \in Threads : Active(t) /\ thread[t].conn = c

\* WinMM opens a port for one client only.
Free(p) == \A c \in Conns : link[c] = p => ~Alive(c)

\* A send or a receive on c reaches a device.
Linked(c) == link[c] # NoPort /\ Alive(c)

Close(c) == link' = [link EXCEPT ![c] = NoPort]

----------------------------------------------------------------------------
(* The thread of a probe: open the port, ask for the identity, store the   *)
(* result, drop its references.  The port may refuse or block.             *)

Ends(t, r) ==
  thread' = [thread EXCEPT ![t] = [pc |-> "ended", conn |-> 0, port |-> NoPort, result |-> r]]

OpenPort(t) ==
  /\ thread[t].pc = "opening"
  /\ LET p == thread[t].port c == thread[t].conn IN
     \/ /\ Free(p) \/ link[c] = p
        /\ device[p] # "none"
        /\ link' = [link EXCEPT ![c] = p]
        /\ thread' = [thread EXCEPT ![t].pc = "asking"]
     \/ Close(c) /\ Ends(t, "failed")
  /\ UNCHANGED <<quiet, device, model, windowVars, worker, signals, boundVars>>

\* Mutant: such an identity is stored as it is.
AskIdentityWhole(t) ==
  /\ thread[t].pc = "asking" /\ Linked(thread[t].conn)
  /\ model' = [model EXCEPT ![thread[t].conn] = device[link[thread[t].conn]]]
  /\ Ends(t, "ok")
  /\ UNCHANGED <<quiet, device, link, windowVars, worker, signals, boundVars>>

\* An identity without an underscore counts as an answer, but the model of
\* the device before stays.  (One whose version is no number ends the program,
\* and is left out.)
AskIdentity(t) ==
  /\ thread[t].pc = "asking"
  /\ LET c == thread[t].conn IN
     \/ /\ Linked(c)
        /\ model' = IF device[link[c]] = "nameless" THEN model
                    ELSE [model EXCEPT ![c] = device[link[c]]]
        /\ Ends(t, "ok") /\ UNCHANGED link
     \/ Close(c) /\ Ends(t, "failed") /\ UNCHANGED model
  /\ UNCHANGED <<quiet, device, windowVars, worker, signals, boundVars>>

----------------------------------------------------------------------------
(* The window *)

\* FUN_1400123a0 up to the wait of FUN_140011b50
StartProbe(p) ==
  /\ window = "idle" /\ probes < MaxProbes
  /\ quiet => ~inProgress
  /\ Close(current)
  /\ probes' = probes + 1 /\ window' = "polling"
  /\ thread' = [thread EXCEPT ![probes + 1] =
                  [pc |-> "opening", conn |-> current, port |-> p, result |-> "none"]]
  /\ UNCHANGED <<quiet, device, model, current, inProgress, mode, worker, signals, boundVars>>

\* The result is there, before the time limit or just after it.
ProbeAnswered ==
  /\ window = "polling" /\ thread[probes].result # "none"
  /\ window' = IF thread[probes].result = "ok" THEN "found" ELSE "idle"
  /\ UNCHANGED <<quiet, device, linkVars, current, inProgress, mode, probes, thread,
                 worker, signals, boundVars>>

\* The time limit: the result is read, and it is neither yes ...
ProbeTimesOut ==
  /\ window = "polling" /\ thread[probes].result = "none"
  /\ window' = "recheck"
  /\ UNCHANGED <<quiet, device, linkVars, current, inProgress, mode, probes, thread,
                 worker, signals, boundVars>>

\* Mutant: the window goes on with the connection that the thread has.
KeepConnection ==
  /\ window = "recheck" /\ window' = "idle"
  /\ UNCHANGED <<quiet, device, linkVars, current, inProgress, mode, probes, thread,
                 worker, signals, boundVars>>

\* ... nor, when it is read a second time, no.
Recreate ==
  /\ window = "recheck"
  /\ current' = IF thread[probes].result # "failed" THEN probes ELSE current
  /\ window' = "idle"
  /\ UNCHANGED <<quiet, device, linkVars, inProgress, mode, probes, thread, worker,
                 signals, boundVars>>

\* The worker is given the window's mode.
StartUpgrade ==
  /\ inProgress' = TRUE
  /\ worker' = [pc |-> "start", conn |-> current, mode |-> mode',
                port |-> link'[current], asked |-> "none"]

\* Mutant: the flag is not looked at.
FoundOtaUnasked ==
  /\ window = "found" /\ model[current] = "ota"
  /\ window' = "idle" /\ UNCHANGED link /\ mode' = 2 /\ StartUpgrade
  /\ UNCHANGED <<quiet, device, model, current, probes, thread, signals, boundVars>>

\* The rest of FUN_1400123a0, after a yes.  The mode is stored before the
\* flag is looked at.
FoundOta ==
  /\ window = "found" /\ model[current] = "ota"
  /\ window' = "idle" /\ mode' = 2
  /\ IF inProgress THEN Close(current) /\ UNCHANGED <<inProgress, worker>>
     ELSE UNCHANGED link /\ StartUpgrade
  /\ UNCHANGED <<quiet, device, model, current, probes, thread, signals, boundVars>>

FoundOther ==
  /\ window = "found" /\ model[current] # "ota"
  /\ window' = "idle" /\ Close(current)
  /\ UNCHANGED <<quiet, device, model, current, inProgress, mode, probes, thread,
                 worker, signals, boundVars>>

\* The user starts an upgrade of a device that was listed.  Of an upgrade that
\* failed the mode may still be there.
UserStart(p) ==
  /\ window = "idle" /\ ~inProgress
  /\ Free(p) /\ device[p] = "app"
  /\ link' = [link EXCEPT ![current] = p]
  /\ mode' \in {1, mode} /\ StartUpgrade
  /\ UNCHANGED <<quiet, device, model, current, window, probes, thread, signals, boundVars>>

\* FUN_1400108b0 clears the mode and the flag at the end of the second step;
\* the slots of the other signals may clear the flag or not.
Completed ==
  /\ window = "idle" /\ signals # <<>>
  /\ signals' = Tail(signals)
  /\ inProgress' \in IF Head(signals) = "complete" THEN {FALSE} ELSE {FALSE, inProgress}
  /\ mode' = IF Head(signals) = "complete" THEN 1 ELSE mode
  /\ UNCHANGED <<quiet, device, linkVars, current, window, probes, thread, worker, boundVars>>

----------------------------------------------------------------------------
(* The worker.  One signal stands for the ones it sends on a way out.      *)

Leaves(s) == worker' = Resting /\ signals' = signals \o s

\* Mutant: when the command cannot be sent the worker just returns.
SendUpgradeSilent ==
  /\ worker.pc = "start"
  /\ \/ Linked(worker.conn) /\ worker' = [worker EXCEPT !.pc = "read"] /\ UNCHANGED signals
     \/ Leaves(<<>>)
  /\ UNCHANGED <<quiet, device, linkVars, windowVars, thread, boundVars>>

SendUpgrade ==
  /\ worker.pc = "start"
  /\ \/ Linked(worker.conn) /\ worker' = [worker EXCEPT !.pc = "read"] /\ UNCHANGED signals
     \/ Leaves(<<"error">>)
  /\ UNCHANGED <<quiet, device, linkVars, windowVars, thread, boundVars>>

\* What a device in the middle of an update asks for
Asks(kind) == CASE kind = "app" -> {"data", "verify"}
                [] kind = "ota" -> {"data", "finish"}
                [] OTHER -> {}

ReadRequest ==
  /\ worker.pc = "read" /\ Linked(worker.conn)
  /\ requests < MaxRequests /\ requests' = requests + 1
  /\ \E r \in Asks(device[link[worker.conn]]) :
       worker' = [worker EXCEPT !.pc = "reply", !.asked = r]
  /\ UNCHANGED <<quiet, device, linkVars, windowVars, thread, signals, moves>>

\* Nothing for 8000 ms, a frame that is no request, a closed connection
ReadFails ==
  /\ worker.pc = "read"
  /\ Leaves(<<"error">>)
  /\ UNCHANGED <<quiet, device, linkVars, windowVars, thread, boundVars>>

\* The reply is sent to whatever the connection is linked to by now, and
\* whether it was sent makes no difference.
SendReply ==
  /\ worker.pc = "reply"
  /\ CASE worker.asked = "data" ->
            worker' = [worker EXCEPT !.pc = "read"] /\ UNCHANGED signals
       [] worker.asked = "verify" ->
            Leaves(IF worker.mode = 2 THEN <<>> ELSE <<"first">>)
       [] OTHER -> Leaves(<<"complete">>)
  /\ UNCHANGED <<quiet, device, linkVars, windowVars, thread, boundVars>>

----------------------------------------------------------------------------
(* Devices *)

\* A device resets or is unplugged, or one appears; a handle dies with it.
Replug(p, kind) ==
  /\ moves < MaxMoves /\ moves' = moves + 1
  /\ device[p] = "none" <=> kind # "none"
  /\ device' = [device EXCEPT ![p] = kind]
  /\ link' = [c \in Conns |-> IF link[c] = p THEN NoPort ELSE link[c]]
  /\ UNCHANGED <<quiet, model, windowVars, thread, worker, signals, requests>>

WindowStep == \/ ProbeAnswered \/ ProbeTimesOut \/ Recreate
              \/ FoundOta \/ FoundOther \/ Completed
WorkerStep == SendUpgrade \/ ReadRequest \/ ReadFails \/ SendReply
ThreadStep(t) == OpenPort(t) \/ AskIdentity(t)

Next ==
  \/ WindowStep \/ WorkerStep
  \/ \E t \in Threads : ThreadStep(t)
  \/ \E p \in Ports : StartProbe(p) \/ UserStart(p) \/ \E k \in Kinds : Replug(p, k)

Spec == Init /\ [][Next]_hvars /\ WF_hvars(WorkerStep)

----------------------------------------------------------------------------
(* Properties *)

DevicesOK ==
  /\ quiet \in BOOLEAN /\ device \in [Ports -> Kinds]
  /\ requests \in 0 .. MaxRequests /\ moves \in 0 .. MaxMoves

LinksOK ==
  /\ link \in [Conns -> Ports \cup {NoPort}]
  /\ model \in [Conns -> {"none", "app", "ota"}]

WindowOK ==
  /\ current \in Conns /\ window \in {"idle", "polling", "recheck", "found"}
  /\ inProgress \in BOOLEAN /\ mode \in {1, 2} /\ probes \in 0 .. MaxProbes
  /\ signals \in {<<>>} \cup {<<s>> : s \in {"error", "first", "complete"}}

ThreadsOK ==
  thread \in [Threads ->
    [pc : {"unborn", "opening", "asking", "ended"}, conn : Conns,
     port : Ports \cup {NoPort}, result : {"none", "ok", "failed"}]]

WorkerOK ==
  worker \in [pc : {"idle", "start", "read", "reply"}, conn : Conns, mode : {1, 2},
              port : Ports \cup {NoPort}, asked : {"none", "data", "verify", "finish"}]

HostTypeOK == DevicesOK /\ LinksOK /\ WindowOK /\ ThreadsOK /\ WorkerOK

(***************************************************************************)
(* Whatever probes find, and whenever: a second worker never starts beside *)
(* a running one, and what a worker has told is about the upgrade the      *)
(* window has in hand, never about one that is over.                       *)
(***************************************************************************)
OneUpgrade ==
  /\ worker.pc # "idle" \/ signals # <<>> => inProgress
  /\ worker.pc # "idle" => signals = <<>>

(***************************************************************************)
(* A probe that answers after its caller stopped waiting can no longer     *)
(* reach the window: the only thread on the window's connection is the one *)
(* being waited for, and no two threads share a connection.                *)
(***************************************************************************)
LateProbeHarmless ==
  \A t \in Threads : Active(t) =>
    /\ thread[t].conn = current => t = probes /\ window \in {"polling", "recheck"}
    /\ \A u \in Threads \ {t} : Active(u) => thread[u].conn # thread[t].conn

(***************************************************************************)
(* If nobody probes while an upgrade runs, the worker's plain pointer      *)
(* stays good and its replies go to the port it started with, or nowhere,  *)
(* whatever late probes and devices do.                                    *)
(***************************************************************************)
RepliesToAsker ==
  quiet /\ worker.pc # "idle" =>
    /\ Alive(worker.conn) /\ link[worker.conn] \in {worker.port, NoPort}
    /\ \A t \in Threads : Active(t) => thread[t].conn # worker.conn

\* A worker of a second step that has a device in its application
Mistaken ==
  /\ worker.mode = 2
  /\ \/ worker.asked = "verify"
     \/ Linked(worker.conn) /\ device[link[worker.conn]] = "app"

(***************************************************************************)
(* If nobody probes while an upgrade runs, a worker always gets to tell    *)
(* how it ended, also when its device goes.  The one that does not was     *)
(* started in the mode that a failed second step left in the window, on a  *)
(* device in its application: asked for the end of the first step, it      *)
(* leaves without a word and the flag stays set.                           *)
(***************************************************************************)
WorkerReports == quiet /\ worker.pc # "idle" /\ ~Mistaken ~> signals # <<>>
=============================================================================
