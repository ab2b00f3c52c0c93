---------------------------- MODULE DeviceEvents ----------------------------
(***************************************************************************)
(* What listening clients are told about devices that come and go.         *)
(*                                                                         *)
(* The main thread adds and removes devices and serves the clients; every  *)
(* device has a preflight worker of its own, which makes the device        *)
(* visible and tells the listeners.  Two locks are shared by them,         *)
(* device_list_mutex and client_list_mutex.  A critical section that takes *)
(* one lock is a single step; the two that take the second lock inside the *)
(* first are cut in two: a client's command (client list, then device      *)
(* list) and a pairing event (device list, then client list).              *)
(*                                                                         *)
(* A listener's view of a device is the last event it was sent about it.   *)
(***************************************************************************)
EXTENDS Naturals, FiniteSets

CONSTANTS
  Devices,       \* device ids, each of them used once (next_device_id)
  Clients,       \* clients of the daemon, of the plist protocol
  NoClient,      \* none of them
  PairingEvents  \* whether workers meet devices that are not paired yet

ASSUME EventsAssumption == PairingEvents \in BOOLEAN /\ NoClient \notin Clients

VARIABLES
  dev,    \* struct mux_device of each id
  worker, \* the preflight worker of each device
  client, \* the state of each client
  view,   \* the last event about each device that each client was sent
  main    \* the main thread: in its loop, or inside a command of a client

vars == <<dev, worker, client, view, main>>

Idle == [at |-> "loop", who |-> NoClient]

\* A worker holds the device list between the two halves of a pairing event,
\* the main thread the client list during a client's command.
DeviceListFree == \A d \in Devices : worker[d] # "event"
ClientListFree == main.at = "loop"

\* An event about d for every client in CLIENT_LISTEN.
\* (A definition named Bug... is a faulty form of the one that follows it.)
BugFirstOnly(d, event) ==
  LET told == {c \in Clients : client[c] = "LISTEN"}
  IN  [c \in Clients |-> IF told # {} /\ c = CHOOSE x \in told : TRUE
                         THEN [view[c] EXCEPT ![d] = event] ELSE view[c]]
Tell(d, event) ==
  [c \in Clients |-> IF client[c] = "LISTEN" THEN [view[c] EXCEPT ![d] = event] ELSE view[c]]

Hidden(state) == [state |-> state, visible |-> FALSE]

-----------------------------------------------------------------------------
\* The main thread and devices: usb_process runs in the loop or, for a client's
\* DeviceMonitor command, with the client list locked.

InUsbProcess == main.at \in {"loop", "monitor"} /\ DeviceListFree

\* device_add
AddDevice(d) ==
  /\ InUsbProcess /\ dev[d].state = "absent"
  /\ dev' = [dev EXCEPT ![d] = Hidden("INIT")]
  /\ UNCHANGED <<worker, client, view, main>>

\* device_version_input: the device is active and its preflight begins.
VersionInput(d) ==
  /\ main.at = "loop" /\ DeviceListFree /\ dev[d].state = "INIT"
  /\ dev' = [dev EXCEPT ![d] = Hidden("ACTIVE")]
  /\ worker' = [worker EXCEPT ![d] = "running"]
  /\ UNCHANGED <<client, view, main>>

\* device_remove
RemoveDevice(d) ==
  /\ InUsbProcess /\ dev[d].state \in {"INIT", "ACTIVE"}
  /\ dev' = [dev EXCEPT ![d] = Hidden("removed")]
  /\ view' = IF dev[d].state = "INIT" THEN view
             ELSE Tell(d, IF dev[d].visible THEN "Detached" ELSE "RemovedDuringAdd")
  /\ UNCHANGED <<worker, client, main>>

-----------------------------------------------------------------------------
\* The main thread and clients: client_process, with the client list locked.

Command(at, c) == main.at = "loop" /\ client[c] = "COMMAND" /\ main' = [at |-> at, who |-> c]

ListenCommand(c) ==
  /\ Command("listen", c)
  /\ client' = [client EXCEPT ![c] = "LISTEN"]
  /\ UNCHANGED <<dev, worker, view>>

\* start_listen, from device_get_list on.  It copies device_list under the lock, and then
\* walks the list itself without it (device.cpp:1149-1154).  Devices come and go on
\* this thread only, so just the flag of a device can change under the walk, once, and
\* is read once: the step is where it is read.
BugSnapshot == {d \in Devices : dev[d].state = "ACTIVE" /\ worker[d] = "announce"}
Snapshot == {d \in Devices : dev[d].state = "ACTIVE" /\ dev[d].visible}

StartListen ==
  /\ main.at = "listen" /\ DeviceListFree
  /\ view' = [view EXCEPT ![main.who] =
                [d \in Devices |-> IF d \in Snapshot THEN "Attached" ELSE view[main.who][d]]]
  /\ main' = Idle
  /\ UNCHANGED <<dev, worker, client>>

\* handle_device_monitor_command: usb_process runs inside of it.
MonitorCommand(c) == Command("monitor", c) /\ UNCHANGED <<dev, worker, client, view>>

MonitorDone ==
  /\ main.at = "monitor" /\ main' = Idle
  /\ UNCHANGED <<dev, worker, client, view>>

\* client_close
CloseClient(c) ==
  /\ main.at = "loop" /\ client[c] # "closed"
  /\ client' = [client EXCEPT ![c] = "closed"]
  /\ UNCHANGED <<dev, worker, view, main>>

-----------------------------------------------------------------------------
\* The preflight worker of a device: pairing events, then client_device_add, or
\* nothing when the preflight fails.

\* client_device_pairing_event: the device list is locked ...
BeginPairingEvent(d) ==
  /\ PairingEvents /\ worker[d] = "running" /\ DeviceListFree
  /\ worker' = [worker EXCEPT ![d] = "event"]
  /\ UNCHANGED <<dev, client, view, main>>

\* ... and the event sent, if device_exists.
BugAnyDevice(d) == TRUE
Exists(d) == dev[d].state \in {"INIT", "ACTIVE"}

EndPairingEvent(d) ==
  /\ worker[d] = "event" /\ worker' = [worker EXCEPT ![d] = "running"]
  /\ \/ Exists(d) /\ ClientListFree /\ view' = Tell(d, "TrustPending")
     \/ ~Exists(d) /\ UNCHANGED view
  /\ UNCHANGED <<dev, client, main>>

\* client_device_add: device_set_visible finds the device, or no longer does ...
BugStayHidden(d) == dev
MadeVisible(d) == IF Exists(d) THEN [dev EXCEPT ![d].visible = TRUE] ELSE dev

SetVisible(d) ==
  /\ worker[d] = "running" /\ DeviceListFree
  /\ dev' = MadeVisible(d)
  /\ worker' = [worker EXCEPT ![d] = "announce"]
  /\ UNCHANGED <<client, view, main>>

\* ... and the listeners are told, without looking at the device again.
Announce(d) ==
  /\ worker[d] = "announce" /\ ClientListFree
  /\ view' = Tell(d, "Attached")
  /\ worker' = [worker EXCEPT ![d] = "done"]
  /\ UNCHANGED <<dev, client, main>>

\* The preflight fails, or finds its device gone.
Leave(d) ==
  /\ worker[d] = "running" /\ DeviceListFree
  /\ worker' = [worker EXCEPT ![d] = "done"]
  /\ UNCHANGED <<dev, client, view, main>>

-----------------------------------------------------------------------------

Init ==
  /\ dev = [d \in Devices |-> Hidden("absent")]
  /\ worker = [d \in Devices |-> "none"]
  /\ client = [c \in Clients |-> "COMMAND"]
  /\ view = [c \in Clients |-> [d \in Devices |-> "none"]]
  /\ main = Idle

Preflight(d) ==
  BeginPairingEvent(d) \/ EndPairingEvent(d) \/ SetVisible(d) \/ Announce(d) \/ Leave(d)

Next ==
  \/ \E d \in Devices : AddDevice(d) \/ VersionInput(d) \/ RemoveDevice(d) \/ Preflight(d)
  \/ \E c \in Clients : ListenCommand(c) \/ MonitorCommand(c) \/ CloseClient(c)
  \/ StartListen \/ MonitorDone

Spec == Init /\ [][Next]_vars

\* The threads keep running, and neither lock is handed past a waiting thread
\* for ever.  No device has to come and no client to ask for anything.
Fairness ==
  /\ WF_vars(MonitorDone) /\ SF_vars(StartListen)
  /\ \A d \in Devices :
       SF_vars(Announce(d)) /\ SF_vars(EndPairingEvent(d)) /\ SF_vars(SetVisible(d) \/ Leave(d))

FairSpec == Spec /\ Fairness

-----------------------------------------------------------------------------
(***************************************************************************)
(* Properties.                                                             *)
(***************************************************************************)

\* The device is in device_list.
Present(d) == dev[d].state \notin {"absent", "removed"}

\* Every variable keeps its type, and a worker exists from the version packet on.
TypeOK ==
  /\ dev \in [Devices -> [state : {"absent", "INIT", "ACTIVE", "removed"}, visible : BOOLEAN]]
  /\ worker \in [Devices -> {"none", "running", "event", "announce", "done"}]
  /\ client \in [Clients -> {"COMMAND", "LISTEN", "closed"}]
  /\ view \in [Clients -> [Devices ->
                 {"none", "TrustPending", "Attached", "Detached", "RemovedDuringAdd"}]]
  /\ main \in [at : {"loop", "listen", "monitor"}, who : Clients \cup {NoClient}]
  /\ main.at = "listen" => main.who \in Clients

\* No listener misses a device, whenever it starts to listen: start_listen's
\* list and the announcement of a worker that runs meanwhile leave no gap
\* between them (client.cpp:517-538 against 1036-1049).
Pending(c, d) == worker[d] = "announce" \/ (main.at = "listen" /\ main.who = c)
NoDeviceMissed ==
  \A c \in Clients, d \in Devices :
    client[c] = "LISTEN" /\ dev[d].visible /\ ~Pending(c, d) => view[c][d] = "Attached"

\* A pairing event is sent only about a device that is still in the list: it
\* cannot leave the list between the check and the sending (client.cpp:1066-1084).
PairingEventsOfPresentDevices ==
  [][\A c \in Clients, d \in Devices :
       view'[c][d] = "TrustPending" /\ view[c][d] # "TrustPending" => Present(d)]_vars

\* Whoever was told of a device when it goes is told that it went: no removal
\* is taken for one during the add, none is silent (device.cpp:1042-1088).
AttachedIsDetached ==
  [][\A c \in Clients, d \in Devices :
       /\ Present(d) /\ dev'[d].state = "removed"
       /\ client[c] = "LISTEN" /\ view[c][d] = "Attached"
       => view'[c][d] = "Detached"]_vars

\* What a listener was told of a device that is present and not announced yet is
\* at most that it waits for the user's trust: no device is attached too early.
NotAttachedEarly ==
  \A c \in Clients, d \in Devices :
    Present(d) /\ ~dev[d].visible => view[c][d] \in {"none", "TrustPending"}

\* preflight.cpp:513 "emit device added event and thus make device visible to
\* clients": a device that a listener was last told is attached is visible.
AttachedIsVisible ==
  \A c \in Clients, d \in Devices :
    client[c] = "LISTEN" /\ view[c][d] = "Attached" => dev[d].visible

\* client.cpp:1066 "Lock the devices list, to make sure the device exists while
\* we send an event about it": the event for which the list is locked is sent.
PairingEventEnds ==
  \A d \in Devices : (worker[d] = "event") ~> (worker[d] # "event")

\* Two threads wait for each other: a worker that holds the device list for a
\* pairing event, and a command that holds the client list for device_get_list.
LockedUp == main.at = "listen" /\ \E d \in Devices : worker[d] = "event"

\* A visible device is announced to every listener, unless one of them goes:
\* nothing but the two locks (events_locks) keeps the announcement from coming.
VisibleIsAnnounced ==
  \A c \in Clients, d \in Devices :
    (client[c] = "LISTEN" /\ dev[d].visible)
      ~> (view[c][d] = "Attached" \/ client[c] = "closed" \/ ~Present(d) \/ LockedUp)

\* The inductive invariant: a device is visible only once its worker has got
\* that far, it has no worker before the version packet, and views of clients
\* that have not asked are empty.
WorkerInv ==
  \A d \in Devices :
    /\ dev[d].visible => Present(d) /\ worker[d] \in {"announce", "done"}
    /\ dev[d].state \in {"absent", "INIT"} => worker[d] = "none"
    /\ Present(d) /\ worker[d] = "announce" => dev[d].visible
EventsInv ==
  /\ TypeOK /\ WorkerInv /\ NoDeviceMissed /\ NotAttachedEarly
  /\ \A d \in Devices : dev[d].state = "absent" => \A c \in Clients : view[c][d] = "none"
=============================================================================
