------------------------------- MODULE UsbPort -------------------------------
(***************************************************************************)
(* The USB ports of the daemon (usb-mce.cpp).                              *)
(*                                                                         *)
(* Users of the API, clients, preflight workers and the plugin's           *)
(* notifications queue commands about a port; the main thread carries them *)
(* out in usb_process, one after the other.  A port that is monitored      *)
(* keeps its entry in g_device_list while no device is in it, so that the  *)
(* device is found again when it returns.                                  *)
(*                                                                         *)
(* What is plugged into a port is outside the program: "good" is a device  *)
(* the daemon can serve, "bad" one whose configuration or whose threads    *)
(* fail, "other" one with a foreign vendor or product id.                  *)
(***************************************************************************)
EXTENDS Naturals, Sequences

CONSTANTS
  Locations,  \* the ports
  MaxPending  \* bound: nobody queues a command while this many are pending

ASSUME PortsAssumption == MaxPending \in Nat \ {0}

VARIABLES
  plugged,   \* what is in each port (external)
  entry,     \* struct usb_device of each port, with whether it is listed
  muxed,     \* the ports whose device is in device_list
  reading,   \* the ports with a read thread
  pending,   \* g_pending_devices
  notified,  \* g_port_notification_callback_cookie is set
  main,      \* usb_process: between commands, or about to refresh the registration
  worker,    \* the preflight worker started for each port
  missed     \* history: the ports that were monitored while the plugin told nobody of
             \* an arrival or a departure

vars == <<plugged, entry, muxed, reading, pending, notified, main, worker, missed>>

Monitors == {"DISABLE", "ONCE", "ALWAYS"}

\* usb_free_device leaves nothing; IS_VALID_DEVICE is what "open" stands for.
Free == [listed |-> FALSE, open |-> FALSE, monitor |-> "DISABLE", state |-> "ALIVE"]

\* The constructor of struct usb_device, as usb_add_pending_device goes on.
New(monitor) == [Free EXCEPT !.listed = TRUE, !.monitor = monitor]

-----------------------------------------------------------------------------
\* Queueing: usb_append_device_command.

\* "by" is not in the code: who queued the command, for the properties.
Command(type, source, l, monitor, by) ==
  [type |-> type, source |-> source, at |-> l, monitor |-> monitor, by |-> by]

Queue(command) == Len(pending) < MaxPending /\ pending' = Append(pending, command)

\* usb_add_device, usb_remove_device: usbmuxd_AddDevice, usbmuxd_RemoveDevice and
\* the clients' commands.
AddDevice(l) ==
  /\ Queue(Command("ADD", "MANUAL", l, "DISABLE", "user"))
  /\ UNCHANGED <<plugged, entry, muxed, reading, notified, main, worker, missed>>

RemoveDevice(l) ==
  /\ Queue(Command("REMOVE", "MANUAL", l, "DISABLE", "user"))
  /\ UNCHANGED <<plugged, entry, muxed, reading, notified, main, worker, missed>>

\* usbmuxd_StartMonitoringDevice, usbmuxd_StoptMonitoringDevice and the clients'
\* command, which has usb_process run at once.
UserMonitor(l, monitor) ==
  /\ monitor \in {"ALWAYS", "DISABLE"}
  /\ Queue(Command("SET_MONITOR", "MANUAL", l, monitor, "user"))
  /\ UNCHANGED <<plugged, entry, muxed, reading, notified, main, worker, missed>>

\* usb_port_change_callback: the plugin's notification of an arrival or a removal,
\* if it was registered.  The queue's bound makes the port wait.
\* (A definition named Bug... is a faulty form of the one that follows it.)
BugNotify(type, l) ==
  IF notified /\ (type = "ADD" => ~entry[l].open)
  THEN Queue(Command(type, "MONITOR", l, "DISABLE", "plugin")) ELSE UNCHANGED pending
Notify(type, l) ==
  IF notified THEN Queue(Command(type, "MONITOR", l, "DISABLE", "plugin")) ELSE UNCHANGED pending

Missed(l) ==
  missed' = IF ~notified /\ entry[l].monitor # "DISABLE" THEN missed \union {l} ELSE missed

PlugIn(l, kind) ==
  /\ plugged[l] = "none" /\ plugged' = [plugged EXCEPT ![l] = kind]
  /\ Notify("ADD", l) /\ Missed(l)
  /\ UNCHANGED <<entry, muxed, reading, notified, main, worker>>

Unplug(l) ==
  /\ plugged[l] # "none" /\ plugged' = [plugged EXCEPT ![l] = "none"]
  /\ Notify("REMOVE", l) /\ Missed(l)
  /\ UNCHANGED <<entry, muxed, reading, notified, main, worker>>

-----------------------------------------------------------------------------
\* The preflight worker as this layer sees it: it may ask for the port to be
\* monitored once, and cancel that at the end.  It outlives its device; a wait for
\* a command that takes too long is given up, so it never blocks here.

StartWorker(l) ==
  /\ l \in muxed /\ worker[l] = "none"
  /\ worker' = [worker EXCEPT ![l] = "running"]
  /\ UNCHANGED <<plugged, entry, muxed, reading, pending, notified, main, missed>>

WorkerAsks(l) ==
  /\ worker[l] = "running" /\ worker' = [worker EXCEPT ![l] = "waiting"]
  /\ Queue(Command("SET_MONITOR", "MANUAL", l, "ONCE", "worker"))
  /\ UNCHANGED <<plugged, entry, muxed, reading, notified, main, missed>>

WorkerCancels(l) ==
  /\ worker[l] # "none" /\ worker' = [worker EXCEPT ![l] = "none"]
  /\ Queue(Command("SET_MONITOR", "MANUAL", l, "DISABLE", "worker"))
  /\ UNCHANGED <<plugged, entry, muxed, reading, notified, main, missed>>

WorkerEnds(l) ==
  /\ worker[l] # "none" /\ worker' = [worker EXCEPT ![l] = "none"]
  /\ UNCHANGED <<plugged, entry, muxed, reading, pending, notified, main, missed>>

-----------------------------------------------------------------------------
\* The commands.  Each says what becomes of one port: its entry, and whether it has
\* a device in device_list and a read thread.

Become(l, e, device, reader) ==
  /\ entry' = [entry EXCEPT ![l] = e]
  /\ muxed' = IF device THEN muxed \union {l} ELSE muxed \ {l}
  /\ reading' = IF reader THEN reading \union {l} ELSE reading \ {l}

\* usb_disconnect: the threads are stopped and the port is closed; a monitored port
\* waits for its device.
BugDisconnected(e, manual) == IF manual THEN Free ELSE [e EXCEPT !.open = FALSE, !.state = "WAITING"]
Disconnected(e, manual) ==
  IF manual \/ e.monitor = "DISABLE" THEN Free
  ELSE [e EXCEPT !.open = FALSE, !.state = "WAITING"]

\* lblCleanup of usb_add_pending_device: whatever was added is removed again.
BugAddFails(l, e) == Become(l, Disconnected(e, TRUE), FALSE, FALSE)
AddFails(l, e) ==
  Become(l, Disconnected(e, ~(entry[l].listed /\ e.monitor = "ALWAYS")), FALSE, FALSE)

\* The port cannot be opened.
AddToEmptyPort(l, monitor) ==
  IF monitor = "ALWAYS" THEN Become(l, [New(monitor) EXCEPT !.state = "WAITING"], FALSE, FALSE)
  ELSE AddFails(l, IF entry[l].listed THEN entry[l] ELSE New(monitor))

\* The port is open, e is its entry.
AddOther(l, e, source, monitor) ==
  IF source = "MANUAL" /\ monitor # "DISABLE" THEN Become(l, e, FALSE, FALSE) ELSE AddFails(l, e)

BugAddBad(l, e) == Become(l, Disconnected(e, ~(entry[l].listed /\ e.monitor = "ALWAYS")), TRUE, FALSE)
AddBad(l, e) ==
  \/ AddFails(l, e)  \* usb_start_read_thread, usb_start_write_thread
  \/ IF entry[l].listed /\ e.monitor = "ALWAYS" THEN Become(l, e, FALSE, FALSE)
     ELSE AddFails(l, e)  \* usb_configure_device

AddGood(l, e) == Become(l, [e EXCEPT !.state = "ALIVE"], TRUE, TRUE)

\* A port that was monitored once no longer is.
Opened(l, monitor) ==
  LET e == IF entry[l].listed THEN entry[l] ELSE New(monitor)
  IN  [e EXCEPT !.open = TRUE,
                !.monitor = IF entry[l].listed /\ @ = "ONCE" THEN "DISABLE" ELSE @]

\* usb_add_pending_device
UsbAddPendingDevice(source, l, monitor) ==
  IF entry[l].open THEN UNCHANGED <<entry, muxed, reading>>
  ELSE CASE plugged[l] = "none"  -> AddToEmptyPort(l, monitor)
         [] plugged[l] = "other" -> AddOther(l, Opened(l, monitor), source, monitor)
         [] plugged[l] = "bad"   -> AddBad(l, Opened(l, monitor))
         [] plugged[l] = "good"  -> AddGood(l, Opened(l, monitor))

\* usb_remove_pending_device
UsbRemovePendingDevice(source, l) ==
  IF entry[l].listed THEN Become(l, Disconnected(entry[l], source = "MANUAL"), FALSE, FALSE)
  ELSE UNCHANGED <<entry, muxed, reading>>

\* usb_handle_device_monitor_command
BugMonitorSet(e, monitor) ==
  IF e.monitor = "ALWAYS" /\ monitor = "ONCE" THEN e ELSE [e EXCEPT !.monitor = monitor]
MonitorSet(e, monitor) ==
  IF e.monitor = "ALWAYS" /\ monitor = "ONCE" THEN e
  ELSE IF monitor = "DISABLE" /\ e.state = "WAITING" THEN Free
  ELSE [e EXCEPT !.monitor = monitor]

UsbHandleDeviceMonitorCommand(l, monitor) ==
  IF entry[l].listed
  THEN entry' = [entry EXCEPT ![l] = MonitorSet(@, monitor)] /\ UNCHANGED <<muxed, reading>>
  ELSE IF monitor = "ALWAYS" THEN UsbAddPendingDevice("MANUAL", l, monitor)
  ELSE UNCHANGED <<entry, muxed, reading>>

\* One command of usb_process.
UsbProcess ==
  /\ main = "loop" /\ main' = "update"
  /\ pending # <<>> /\ pending' = Tail(pending)
  /\ LET c == Head(pending)
     IN  \/ c.type = "ADD" /\ UsbAddPendingDevice(c.source, c.at, c.monitor)
         \/ c.type = "REMOVE" /\ UsbRemovePendingDevice(c.source, c.at)
         \/ c.type = "SET_MONITOR" /\ UsbHandleDeviceMonitorCommand(c.at, c.monitor)
  /\ missed' = {l \in missed : entry'[l].listed}
  /\ UNCHANGED <<plugged, notified, worker>>

\* usb_update_monitored_devices, after every command: the plugin may refuse to register
\* the callback; it is never unregistered.
UsbUpdateMonitoredDevices ==
  /\ main = "update" /\ main' = "loop"
  /\ IF \E l \in Locations : entry[l].listed /\ entry[l].monitor # "DISABLE"
     THEN notified' \in {notified, TRUE} ELSE UNCHANGED notified
  /\ UNCHANGED <<plugged, entry, muxed, reading, pending, worker, missed>>

-----------------------------------------------------------------------------
Init ==
  /\ plugged \in [Locations -> {"none", "good"}]
  /\ entry = [l \in Locations |-> Free]
  /\ muxed = {} /\ reading = {} /\ pending = <<>> /\ notified = FALSE
  /\ main = "loop" /\ missed = {}
  /\ worker = [l \in Locations |-> "none"]

Next ==
  \/ UsbProcess \/ UsbUpdateMonitoredDevices
  \/ \E l \in Locations :
       \/ AddDevice(l) \/ RemoveDevice(l)
       \/ \E monitor \in {"ALWAYS", "DISABLE"} : UserMonitor(l, monitor)
       \/ \E kind \in {"good", "bad", "other"} : PlugIn(l, kind)
       \/ Unplug(l)
       \/ StartWorker(l) \/ WorkerAsks(l) \/ WorkerCancels(l) \/ WorkerEnds(l)

Spec == Init /\ [][Next]_vars
-----------------------------------------------------------------------------
\* Properties

Commands ==
  {c \in [type : {"ADD", "REMOVE", "SET_MONITOR"}, source : {"MANUAL", "MONITOR"},
          at : Locations, monitor : Monitors, by : {"user", "worker", "plugin"}] :
    c.type # "SET_MONITOR" => c.monitor = "DISABLE"}

TypeOK ==
  /\ plugged \in [Locations -> {"none", "good", "bad", "other"}]
  /\ entry \in [Locations -> [listed : BOOLEAN, open : BOOLEAN, monitor : Monitors,
                             state : {"ALIVE", "WAITING"}]]
  /\ muxed \subseteq Locations /\ reading \subseteq Locations
  /\ pending \in Seq(Commands) /\ Len(pending) <= MaxPending
  /\ notified \in BOOLEAN /\ main \in {"loop", "update"} /\ missed \subseteq Locations
  /\ worker \in [Locations -> {"none", "running", "waiting"}]

Pending(i, type, l) == pending[i].type = type /\ pending[i].at = l
\* A removal the plugin has noticed.
Departure(i, l) == Pending(i, "REMOVE", l) /\ pending[i].source = "MONITOR"

\* A device that the rest of the daemon may use, and a read thread, have an open
\* port in the list: every exit of usb_add_pending_device and every removal undoes
\* what was done before it.
DeviceHasPort ==
  /\ reading = muxed
  /\ \A l \in muxed : entry[l].listed /\ entry[l].open /\ entry[l].state = "ALIVE"

\* A port that waits for a device is monitored: otherwise its entry would stay in the
\* list for ever, and with it the host process, which ends when there is none
\* (usb_has_devices).
WaitingIsMonitored ==
  \A l \in Locations : entry[l].state = "WAITING" => entry[l].monitor # "DISABLE"

\* usb_add_pending_device answers a port that cannot be opened with "Failed to open port,
\* starting to monitor port": once the plugin's notifications are registered, a device
\* that is in a port that waits has an arrival to come.
NoArrivalMissed ==
  notified /\ main = "loop" =>
    \A l \in Locations :
      entry[l].state = "WAITING" /\ plugged[l] = "good" =>
        \E i \in 1..Len(pending) : Pending(i, "ADD", l)

\* What holds of it: of what the plugin told, nothing is lost.  A port that waits while a
\* device it can serve is in it has an arrival to come, in every order of removals,
\* arrivals and commands and with every failure of a registration, unless the port
\* changed before the registration, which comes after the open that failed.
ToldArrivalComes ==
  \A l \in Locations \ missed :
    entry[l].state = "WAITING" /\ plugged[l] = "good" =>
      \E i \in 1..Len(pending) : Pending(i, "ADD", l)

\* What makes it inductive.  A departure that is still to be handled is followed by the
\* arrival of what is in the port now; a monitored port that was left open after a
\* failure, and whose device has changed since, has a departure to come.
DepartedReturned ==
  \A l \in Locations : plugged[l] = "good" =>
    \A i \in 1..Len(pending) : Departure(i, l) =>
      \E j \in (i + 1)..Len(pending) : Pending(j, "ADD", l)

StaleIsRemoved ==
  \A l \in Locations \ missed :
    entry[l].state = "WAITING" /\ entry[l].open /\ plugged[l] \in {"none", "good"} =>
      \E i \in 1..Len(pending) : Departure(i, l)

PortInv ==
  /\ TypeOK
  /\ \A l \in Locations : ~entry[l].listed => entry[l] = Free
  /\ DeviceHasPort /\ WaitingIsMonitored
  /\ \A i \in 1..Len(pending) : pending[i].source = "MONITOR" => notified
  /\ ToldArrivalComes /\ DepartedReturned /\ StaleIsRemoved

\* A user's monitoring of a port outlives every unplugging and every failure to add
\* what returns; only a command to stop it or to remove the port ends it.
EndsMonitoring(c, l) ==
  /\ c.at = l
  /\ \/ c.type = "SET_MONITOR" /\ c.monitor = "DISABLE"
     \/ c.type = "REMOVE" /\ c.source = "MANUAL"

LosesAlways(l) == entry[l].monitor = "ALWAYS" /\ entry'[l].monitor # "ALWAYS"

MonitoringSurvives ==
  [][\A l \in Locations : LosesAlways(l) => EndsMonitoring(Head(pending), l)]_vars

\* usb_handle_device_monitor_command ignores "monitor once" of the preflight thread "so
\* we won't lose the 'always monitor' setting": a user's monitoring is ended by users.
AlwaysIsTheUsers ==
  [][\A l \in Locations : LosesAlways(l) => Head(pending).by = "user"]_vars
=============================================================================
