-------------------------- MODULE DeviceEventsProofs --------------------------
(***************************************************************************)
(* Proofs about DeviceEvents, for any set of devices and of clients.       *)
(***************************************************************************)
EXTENDS DeviceEvents, TLAPS

\* The part of EventsInv that is about ids no device has had yet.
Fresh == \A d \in Devices : dev[d].state = "absent" => \A c \in Clients : view[c][d] = "none"

LEMMA InvParts == EventsInv <=> TypeOK /\ WorkerInv /\ NoDeviceMissed /\ NotAttachedEarly /\ Fresh
BY DEF EventsInv, Fresh

LEMMA InitInv == Init => EventsInv
BY EventsAssumption
   DEF Init, EventsInv, TypeOK, WorkerInv, NoDeviceMissed, NotAttachedEarly, Present, Hidden, Idle

LEMMA TypeStep == TypeOK /\ Next => TypeOK'
<1> SUFFICES ASSUME TypeOK, Next PROVE TypeOK'
  OBVIOUS
<1> USE EventsAssumption DEF TypeOK
<1>1. ASSUME NEW d \in Devices, AddDevice(d) PROVE TypeOK'
  BY <1>1 DEF AddDevice, Hidden
<1>2. ASSUME NEW d \in Devices, VersionInput(d) PROVE TypeOK'
  BY <1>2 DEF VersionInput, Hidden
<1>3. ASSUME NEW d \in Devices, RemoveDevice(d) PROVE TypeOK'
  BY <1>3 DEF RemoveDevice, Hidden, Tell
<1>4. ASSUME NEW d \in Devices, Preflight(d) PROVE TypeOK'
  <2>1. CASE BeginPairingEvent(d)
    BY <2>1 DEF BeginPairingEvent
  <2>2. CASE EndPairingEvent(d)
    <3>1. CASE view' = Tell(d, "TrustPending")
      BY <2>2, <3>1 DEF EndPairingEvent, Tell
    <3>2. CASE UNCHANGED view
      BY <2>2, <3>2 DEF EndPairingEvent
    <3> QED
      BY <2>2, <3>1, <3>2 DEF EndPairingEvent
  <2>3. CASE SetVisible(d)
    BY <2>3 DEF SetVisible, MadeVisible, Exists
  <2>4. CASE Announce(d)
    BY <2>4 DEF Announce, Tell
  <2>5. CASE Leave(d)
    BY <2>5 DEF Leave
  <2> QED
    BY <1>4, <2>1, <2>2, <2>3, <2>4, <2>5 DEF Preflight
<1>5. ASSUME NEW c \in Clients, ListenCommand(c) \/ MonitorCommand(c) PROVE TypeOK'
  BY <1>5 DEF ListenCommand, MonitorCommand, Command
<1>6. ASSUME NEW c \in Clients, CloseClient(c) PROVE TypeOK'
  BY <1>6 DEF CloseClient
<1>7. ASSUME StartListen PROVE TypeOK'
  BY <1>7 DEF StartListen, Idle
<1>8. ASSUME MonitorDone PROVE TypeOK'
  BY <1>8 DEF MonitorDone, Idle
<1> QED
  BY <1>1, <1>2, <1>3, <1>4, <1>5, <1>6, <1>7, <1>8 DEF Next

LEMMA WorkerStep == TypeOK /\ WorkerInv /\ Next => WorkerInv'
<1> SUFFICES ASSUME TypeOK, WorkerInv, Next PROVE WorkerInv'
  OBVIOUS
<1> USE DEF TypeOK, WorkerInv, Present
<1>1. ASSUME NEW d \in Devices, AddDevice(d) PROVE WorkerInv'
  BY <1>1 DEF AddDevice, Hidden
<1>2. ASSUME NEW d \in Devices, VersionInput(d) PROVE WorkerInv'
  BY <1>2 DEF VersionInput, Hidden
<1>3. ASSUME NEW d \in Devices, RemoveDevice(d) PROVE WorkerInv'
  BY <1>3 DEF RemoveDevice, Hidden
<1>4. ASSUME NEW d \in Devices, Preflight(d) PROVE WorkerInv'
  <2>1. CASE BeginPairingEvent(d)
    BY <2>1 DEF BeginPairingEvent
  <2>2. CASE EndPairingEvent(d)
    BY <2>2 DEF EndPairingEvent
  <2>3. CASE SetVisible(d)
    BY <2>3 DEF SetVisible, MadeVisible, Exists
  <2>4. CASE Announce(d)
    BY <2>4 DEF Announce
  <2>5. CASE Leave(d)
    BY <2>5 DEF Leave
  <2> QED
    BY <1>4, <2>1, <2>2, <2>3, <2>4, <2>5 DEF Preflight
<1>5. ASSUME UNCHANGED <<dev, worker>> PROVE WorkerInv'
  BY <1>5
<1> QED
  BY <1>1, <1>2, <1>3, <1>4, <1>5
     DEF Next, ListenCommand, MonitorCommand, CloseClient, StartListen, MonitorDone

LEMMA MissedStep == TypeOK /\ WorkerInv /\ NoDeviceMissed /\ Next => NoDeviceMissed'
<1> SUFFICES ASSUME TypeOK, WorkerInv, NoDeviceMissed, Next,
                    NEW c \in Clients, NEW d \in Devices,
                    client'[c] = "LISTEN", dev'[d].visible, ~Pending(c, d)'
             PROVE view'[c][d] = "Attached"
  BY DEF NoDeviceMissed
<1> USE DEF TypeOK, WorkerInv, Present, NoDeviceMissed, Pending
<1>1. ASSUME NEW e \in Devices, AddDevice(e) PROVE view'[c][d] = "Attached"
  BY <1>1 DEF AddDevice, Hidden
<1>2. ASSUME NEW e \in Devices, VersionInput(e) PROVE view'[c][d] = "Attached"
  BY <1>2 DEF VersionInput, Hidden
<1>3. ASSUME NEW e \in Devices, RemoveDevice(e) PROVE view'[c][d] = "Attached"
  BY <1>3 DEF RemoveDevice, Hidden, Tell
<1>4. ASSUME NEW e \in Devices, Preflight(e) PROVE view'[c][d] = "Attached"
  <2>1. CASE BeginPairingEvent(e)
    BY <2>1 DEF BeginPairingEvent
  <2>2. CASE EndPairingEvent(e)
    BY <2>2 DEF EndPairingEvent, Tell
  <2>3. CASE SetVisible(e)
    BY <2>3 DEF SetVisible, MadeVisible, Exists
  <2>4. CASE Announce(e)
    BY <2>4 DEF Announce, Tell
  <2>5. CASE Leave(e)
    BY <2>5 DEF Leave
  <2> QED
    BY <1>4, <2>1, <2>2, <2>3, <2>4, <2>5 DEF Preflight
<1>5. ASSUME NEW x \in Clients, ListenCommand(x) \/ MonitorCommand(x) PROVE view'[c][d] = "Attached"
  BY <1>5 DEF ListenCommand, MonitorCommand, Command
<1>6. ASSUME NEW x \in Clients, CloseClient(x) PROVE view'[c][d] = "Attached"
  BY <1>6 DEF CloseClient
<1>7. ASSUME StartListen PROVE view'[c][d] = "Attached"
  BY <1>7 DEF StartListen, Snapshot
<1>8. ASSUME MonitorDone PROVE view'[c][d] = "Attached"
  BY <1>8 DEF MonitorDone, Idle
<1> QED
  BY <1>1, <1>2, <1>3, <1>4, <1>5, <1>6, <1>7, <1>8 DEF Next

LEMMA EarlyStep ==
  TypeOK /\ WorkerInv /\ NotAttachedEarly /\ Fresh /\ Next => NotAttachedEarly' /\ Fresh'
<1> DEFINE Kept(c, d) ==
      /\ Present(d)' /\ ~dev'[d].visible => view'[c][d] \in {"none", "TrustPending"}
      /\ dev'[d].state = "absent" => view'[c][d] = "none"
<1> SUFFICES ASSUME TypeOK, WorkerInv, NotAttachedEarly, Fresh, Next,
                    NEW c \in Clients, NEW d \in Devices
             PROVE Kept(c, d)
  BY DEF NotAttachedEarly, Fresh
<1> USE DEF TypeOK, WorkerInv, Present, NotAttachedEarly, Fresh
<1>1. ASSUME NEW e \in Devices, AddDevice(e) PROVE Kept(c, d)
  BY <1>1 DEF AddDevice, Hidden
<1>2. ASSUME NEW e \in Devices, VersionInput(e) PROVE Kept(c, d)
  BY <1>2 DEF VersionInput, Hidden
<1>3. ASSUME NEW e \in Devices, RemoveDevice(e) PROVE Kept(c, d)
  BY <1>3 DEF RemoveDevice, Hidden, Tell
<1>4. ASSUME NEW e \in Devices, Preflight(e) PROVE Kept(c, d)
  <2>1. CASE BeginPairingEvent(e)
    BY <2>1 DEF BeginPairingEvent
  <2>2. CASE EndPairingEvent(e)
    <3>1. UNCHANGED dev /\ worker[e] = "event"
      BY <2>2 DEF EndPairingEvent
    <3>2. CASE UNCHANGED view
      BY <3>1, <3>2
    <3>3. CASE view' = Tell(e, "TrustPending")
      <4>1. view'[c][d] = view[c][d] \/ (d = e /\ view'[c][d] = "TrustPending")
        BY <3>3 DEF Tell
      <4>2. dev[e].state # "absent"
        BY <3>1
      <4> QED
        BY <3>1, <4>1, <4>2
    <3> QED
      BY <2>2, <3>2, <3>3 DEF EndPairingEvent
  <2>3. CASE SetVisible(e)
    BY <2>3 DEF SetVisible, MadeVisible, Exists
  <2>4. CASE Announce(e)
    BY <2>4 DEF Announce, Tell
  <2>5. CASE Leave(e)
    BY <2>5 DEF Leave
  <2> QED
    BY <1>4, <2>1, <2>2, <2>3, <2>4, <2>5 DEF Preflight
<1>5. ASSUME StartListen PROVE Kept(c, d)
  BY <1>5 DEF StartListen, Snapshot
<1>6. ASSUME UNCHANGED <<dev, view>> PROVE Kept(c, d)
  BY <1>6
<1> QED
  BY <1>1, <1>2, <1>3, <1>4, <1>5, <1>6
     DEF Next, ListenCommand, MonitorCommand, CloseClient, MonitorDone

\* EventsInv is inductive.
LEMMA InvStep == EventsInv /\ [Next]_vars => EventsInv'
<1>1. ASSUME EventsInv, Next PROVE EventsInv'
  BY <1>1, InvParts, TypeStep, WorkerStep, MissedStep, EarlyStep DEF EventsInv, Fresh
<1>2. ASSUME EventsInv, UNCHANGED vars PROVE EventsInv'
  BY <1>2 DEF vars, EventsInv, TypeOK, WorkerInv, NoDeviceMissed, NotAttachedEarly, Pending,
              Present, DeviceListFree, ClientListFree
<1> QED
  BY <1>1, <1>2

\* The bookkeeping of devices, workers, clients and events (device_set_visible,
\* start_listen, client_device_add) keeps its invariant.
THEOREM EventsCorrect == Spec => []EventsInv
  BY InitInv, InvStep, PTL DEF Spec

\* No listener misses a visible device (start_listen and client_device_add).
THEOREM MissedCorrect == Spec => []NoDeviceMissed
<1>1. EventsInv => NoDeviceMissed
  BY DEF EventsInv
<1> QED
  BY EventsCorrect, <1>1, PTL

\* No device is announced while it is hidden (client_device_add after
\* device_set_visible).
THEOREM EarlyCorrect == Spec => []NotAttachedEarly
<1>1. EventsInv => NotAttachedEarly
  BY DEF EventsInv
<1> QED
  BY EventsCorrect, <1>1, PTL

-----------------------------------------------------------------------------

\* A pairing event is sent only while the device is in the list
\* (client_device_pairing_event with validate_device).
THEOREM PairingCorrect == Spec => PairingEventsOfPresentDevices
<1> DEFINE Step == \A c \in Clients, d \in Devices :
      view'[c][d] = "TrustPending" /\ view[c][d] # "TrustPending" => Present(d)
<1>1. ASSUME EventsInv, [Next]_vars PROVE [Step]_vars
  <2> SUFFICES ASSUME Next, NEW c \in Clients, NEW d \in Devices,
                      view'[c][d] = "TrustPending", view[c][d] # "TrustPending"
               PROVE Present(d)
    BY <1>1
  <2> USE DEF EventsInv, TypeOK
  <2>1. ASSUME NEW e \in Devices, RemoveDevice(e) PROVE Present(d)
    BY <1>1, <2>1 DEF RemoveDevice, Tell, Present
  <2>2. ASSUME NEW e \in Devices, Preflight(e) PROVE Present(d)
    <3>1. CASE EndPairingEvent(e)
      BY <1>1, <3>1 DEF EndPairingEvent, Tell, Exists, Present
    <3>2. CASE Announce(e)
      BY <1>1, <3>2 DEF Announce, Tell
    <3> QED
      BY <2>2, <3>1, <3>2 DEF Preflight, BeginPairingEvent, SetVisible, Leave
  <2>3. ASSUME StartListen PROVE Present(d)
    BY <1>1, <2>3 DEF StartListen
  <2>4. CASE UNCHANGED view
    BY <2>4
  <2> QED
    BY <2>1, <2>2, <2>3, <2>4
       DEF Next, AddDevice, VersionInput, ListenCommand, MonitorCommand, CloseClient, MonitorDone
<1> QED
  BY EventsCorrect, <1>1, PTL DEF Spec, PairingEventsOfPresentDevices

\* Every listener that knows of a device is told Detached when it goes
\* (device_remove: a device that was announced is visible).
THEOREM DetachedCorrect == Spec => AttachedIsDetached
<1> DEFINE Step == \A c \in Clients, d \in Devices :
      /\ Present(d) /\ dev'[d].state = "removed"
      /\ client[c] = "LISTEN" /\ view[c][d] = "Attached"
      => view'[c][d] = "Detached"
<1>1. ASSUME EventsInv, [Next]_vars PROVE [Step]_vars
  <2> SUFFICES ASSUME Next, NEW c \in Clients, NEW d \in Devices,
                      Present(d), dev'[d].state = "removed",
                      client[c] = "LISTEN", view[c][d] = "Attached"
               PROVE view'[c][d] = "Detached"
    BY <1>1
  <2> USE DEF EventsInv, TypeOK, Present
  <2>1. ASSUME NEW e \in Devices, RemoveDevice(e) PROVE view'[c][d] = "Detached"
    <3>1. dev[d].visible
      BY <1>1 DEF NotAttachedEarly
    <3>2. dev[d].state = "ACTIVE"
      BY <1>1, <3>1 DEF WorkerInv
    <3>3. e = d
      BY <1>1, <2>1 DEF RemoveDevice, Hidden
    <3> QED
      BY <1>1, <2>1, <3>1, <3>2, <3>3 DEF RemoveDevice, Tell
  <2>2. ASSUME NEW e \in Devices, AddDevice(e) \/ VersionInput(e) PROVE FALSE
    BY <1>1, <2>2 DEF AddDevice, VersionInput, Hidden
  <2>3. ASSUME NEW e \in Devices, SetVisible(e) PROVE FALSE
    BY <1>1, <2>3 DEF SetVisible, MadeVisible, Exists
  <2>4. CASE UNCHANGED dev
    BY <2>4
  <2> QED
    BY <2>1, <2>2, <2>3, <2>4
       DEF Next, Preflight, BeginPairingEvent, EndPairingEvent, Announce, Leave, StartListen,
           ListenCommand, MonitorCommand, CloseClient, MonitorDone
<1> QED
  BY EventsCorrect, <1>1, PTL DEF Spec, AttachedIsDetached
=============================================================================
