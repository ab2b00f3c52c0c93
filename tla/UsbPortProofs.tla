---------------------------- MODULE UsbPortProofs ----------------------------
(***************************************************************************)
(* Theorems about UsbPort, for any number of ports and any bound on the    *)
(* queue.  PortInv is inductive: an action that queues a command changes   *)
(* no entry, and a command changes one port and takes itself off the       *)
(* queue.  So the proof looks at the queue once for each of the two, port  *)
(* by port (QueueInv), and at the entry once for each command.             *)
(***************************************************************************)
EXTENDS UsbPort, TLAPS

-----------------------------------------------------------------------------
\* The parts of PortInv, port by port.

EntryInv(l) ==
  /\ ~entry[l].listed => entry[l] = Free
  /\ l \in muxed => entry[l].listed /\ entry[l].open /\ entry[l].state = "ALIVE"
  /\ entry[l].state = "WAITING" => entry[l].monitor # "DISABLE"

ArrivalComes(l) ==
  l \notin missed /\ entry[l].state = "WAITING" /\ plugged[l] = "good" =>
    \E i \in 1..Len(pending) : Pending(i, "ADD", l)

ReturnFollows(l) ==
  plugged[l] = "good" =>
    \A i \in 1..Len(pending) : Departure(i, l) =>
      \E j \in (i + 1)..Len(pending) : Pending(j, "ADD", l)

DepartureComes(l) ==
  l \notin missed /\ entry[l].state = "WAITING" /\ entry[l].open /\ plugged[l] \in {"none", "good"} =>
    \E i \in 1..Len(pending) : Departure(i, l)

QueueInv(l) == ArrivalComes(l) /\ ReturnFollows(l) /\ DepartureComes(l)

NoticedIsNotified ==
  \A i \in 1..Len(pending) : pending[i].source = "MONITOR" => notified

\* PortInv is these parts for every port.
LEMMA Parts ==
  PortInv <=> /\ TypeOK /\ reading = muxed /\ NoticedIsNotified
              /\ \A l \in Locations : EntryInv(l) /\ QueueInv(l)
BY DEF PortInv, DeviceHasPort, WaitingIsMonitored, ToldArrivalComes, DepartedReturned,
       StaleIsRemoved, EntryInv, QueueInv, ArrivalComes, ReturnFollows, DepartureComes,
       NoticedIsNotified, TypeOK

\* The same of the next state.
LEMMA PartsNext ==
  ASSUME TypeOK', (reading = muxed)', NoticedIsNotified',
         \A l \in Locations : EntryInv(l)' /\ QueueInv(l)'
  PROVE  PortInv'
BY DEF PortInv, DeviceHasPort, WaitingIsMonitored, ToldArrivalComes, DepartedReturned,
       StaleIsRemoved, EntryInv, QueueInv, ArrivalComes, ReturnFollows, DepartureComes,
       NoticedIsNotified, TypeOK

-----------------------------------------------------------------------------
\* The queue.

\* What a command added at the end of the queue changes.
LEMMA Appended ==
  ASSUME NEW c \in Commands, pending \in Seq(Commands), pending' = Append(pending, c)
  PROVE  /\ pending' \in Seq(Commands)
         /\ Len(pending) \in Nat /\ Len(pending') = Len(pending) + 1
         /\ \A i \in 1..Len(pending) : pending'[i] = pending[i]
         /\ pending'[Len(pending')] = c
OBVIOUS

\* What is left when the first command is taken.
LEMMA TailTaken ==
  ASSUME pending \in Seq(Commands), pending # <<>>, pending' = Tail(pending)
  PROVE  /\ pending' \in Seq(Commands)
         /\ Len(pending) \in Nat \ {0} /\ Len(pending') = Len(pending) - 1
         /\ \A i \in 1..Len(pending') : pending'[i] = pending[i + 1]
         /\ Head(pending) = pending[1] /\ Head(pending) \in Commands
OBVIOUS

\* A command that is no departure leaves the queue's invariant of a port whose entry
\* and device stay as they are.
LEMMA AppendKeeps ==
  ASSUME NEW l \in Locations, NEW c \in Commands, pending \in Seq(Commands),
         pending' = Append(pending, c), QueueInv(l),
         entry'[l] = entry[l], plugged'[l] = plugged[l], l \in missed => l \in missed',
         ~(c.type = "REMOVE" /\ c.source = "MONITOR" /\ c.at = l)
  PROVE  QueueInv(l)'
<1>1. /\ Len(pending) \in Nat /\ Len(pending') = Len(pending) + 1
      /\ \A i \in 1..Len(pending) : pending'[i] = pending[i]
      /\ pending'[Len(pending')] = c
  BY Appended
<1>2. ArrivalComes(l)'
  BY <1>1 DEF QueueInv, ArrivalComes, Pending
<1>3. ReturnFollows(l)'
  <2>1. SUFFICES ASSUME plugged[l] = "good", NEW i \in 1..Len(pending'), Departure(i, l)'
                 PROVE  \E j \in (i + 1)..Len(pending') : Pending(j, "ADD", l)'
    BY DEF ReturnFollows
  <2>2. i \in 1..Len(pending) /\ Departure(i, l)
    BY <2>1, <1>1 DEF Departure, Pending
  <2>3. PICK j \in (i + 1)..Len(pending) : Pending(j, "ADD", l)
    BY <2>1, <2>2 DEF QueueInv, ReturnFollows
  <2> QED BY <2>3, <1>1 DEF Pending
<1>4. DepartureComes(l)'
  BY <1>1 DEF QueueInv, DepartureComes, Departure, Pending
<1> QED BY <1>2, <1>3, <1>4 DEF QueueInv

\* Taking a command leaves the arrivals that follow the departures.
LEMMA TailReturns ==
  ASSUME NEW l \in Locations, pending \in Seq(Commands), pending # <<>>,
         pending' = Tail(pending), ReturnFollows(l), plugged'[l] = plugged[l]
  PROVE  ReturnFollows(l)'
<1>1. SUFFICES ASSUME plugged[l] = "good", NEW i \in 1..Len(pending'), Departure(i, l)'
               PROVE  \E j \in (i + 1)..Len(pending') : Pending(j, "ADD", l)'
  BY DEF ReturnFollows
<1>2. i + 1 \in 1..Len(pending) /\ Departure(i + 1, l)
  BY <1>1, TailTaken DEF Departure, Pending
<1>3. PICK j \in (i + 2)..Len(pending) : Pending(j, "ADD", l)
  BY <1>1, <1>2 DEF ReturnFollows
<1>4. j - 1 \in (i + 1)..Len(pending') /\ pending'[j - 1] = pending[j]
  BY <1>3, TailTaken
<1> QED BY <1>3, <1>4 DEF Pending

\* Taking a command for another port leaves its invariant.
LEMMA TailKeeps ==
  ASSUME NEW l \in Locations, pending \in Seq(Commands), pending # <<>>,
         pending' = Tail(pending), QueueInv(l), Head(pending).at # l,
         entry'[l] = entry[l], plugged'[l] = plugged[l],
         l \in missed => l \in missed' \/ entry'[l].state # "WAITING"
  PROVE  QueueInv(l)'
<1>1. /\ Len(pending) \in Nat \ {0} /\ Len(pending') = Len(pending) - 1
      /\ \A i \in 1..Len(pending') : pending'[i] = pending[i + 1]
      /\ Head(pending) = pending[1]
  BY TailTaken
<1>2. ASSUME NEW i \in 1..Len(pending), pending[i].at = l
      PROVE  i - 1 \in 1..Len(pending') /\ pending'[i - 1] = pending[i]
  BY <1>1, <1>2
<1>3. ArrivalComes(l)'
  BY <1>2 DEF QueueInv, ArrivalComes, Pending
<1>4. ReturnFollows(l)'
  BY TailReturns DEF QueueInv
<1>5. DepartureComes(l)'
  BY <1>2 DEF QueueInv, DepartureComes, Departure, Pending
<1> QED BY <1>3, <1>4, <1>5 DEF QueueInv

-----------------------------------------------------------------------------
\* What the commands do to their port.

Entries == [listed : BOOLEAN, open : BOOLEAN, monitor : Monitors, state : {"ALIVE", "WAITING"}]

\* Types, the other ports, and the port's own part of PortInv.
Outcome(l) ==
  /\ entry' \in [Locations -> Entries]
  /\ muxed' \subseteq Locations /\ reading' = muxed'
  /\ \A m \in Locations \ {l} : entry'[m] = entry[m] /\ (m \in muxed' <=> m \in muxed)
  /\ EntryInv(l)'

\* A port that waits after an arrival was handled has nothing to serve: it was left
\* open before, or what is in it now is not good.
AddOutcome(l) ==
  entry'[l].state = "WAITING" =>
    \/ entry'[l] = entry[l] /\ entry[l].open
    \/ plugged[l] # "good" /\ (entry'[l].open => plugged[l] = "bad")

LEMMA BecomeOutcome ==
  ASSUME NEW l \in Locations, TypeOK, reading = muxed, NEW e \in Entries, NEW d \in BOOLEAN,
         Become(l, e, d, d), ~e.listed => e = Free,
         d => e.listed /\ e.open /\ e.state = "ALIVE",
         e.state = "WAITING" => e.monitor # "DISABLE"
  PROVE  Outcome(l) /\ entry'[l] = e
<1>1. entry' = [entry EXCEPT ![l] = e] /\ entry \in [Locations -> Entries]
  BY DEF Become, TypeOK, Entries
<1>2. /\ entry' \in [Locations -> Entries] /\ entry'[l] = e
      /\ \A m \in Locations \ {l} : entry'[m] = entry[m]
  BY <1>1
<1>3. /\ muxed' = IF d THEN muxed \union {l} ELSE muxed \ {l}
      /\ reading' = muxed' /\ muxed \subseteq Locations
  BY DEF Become, TypeOK
<1> QED BY <1>2, <1>3 DEF Outcome, EntryInv

\* Disconnecting.
LEMMA DisconnectedType ==
  ASSUME NEW e \in Entries, NEW manual \in BOOLEAN, e.listed
  PROVE  LET f == Disconnected(e, manual)
         IN  /\ f \in Entries /\ ~f.open
             /\ ~f.listed => f = Free
             /\ f.state = "WAITING" => f.monitor # "DISABLE"
BY DEF Disconnected, Free, Entries, Monitors

LEMMA AddFailsOutcome ==
  ASSUME NEW l \in Locations, TypeOK, reading = muxed, NEW e \in Entries, e.listed, AddFails(l, e)
  PROVE  Outcome(l) /\ ~entry'[l].open
<1> DEFINE f == Disconnected(e, ~(entry[l].listed /\ e.monitor = "ALWAYS"))
<1>1. f \in Entries /\ ~f.open /\ (~f.listed => f = Free) /\ (f.state = "WAITING" => f.monitor # "DISABLE")
  BY DisconnectedType DEF TypeOK
<1>2. Become(l, f, FALSE, FALSE)
  BY DEF AddFails
<1> HIDE DEF f
<1> QED BY <1>1, <1>2, BecomeOutcome

\* usb_add_pending_device
LEMMA AddOutcomes ==
  ASSUME NEW l \in Locations, TypeOK, reading = muxed, EntryInv(l), NEW source,
         NEW monitor \in {"DISABLE", "ALWAYS"},
         monitor = "ALWAYS" => ~entry[l].listed,
         UsbAddPendingDevice(source, l, monitor)
  PROVE  Outcome(l) /\ AddOutcome(l)
<1>1. entry[l] \in Entries /\ entry \in [Locations -> Entries] /\ muxed \subseteq Locations
      /\ plugged[l] \in {"none", "good", "bad", "other"}
  BY DEF TypeOK, Entries
<1>2. CASE entry[l].open
  <2>1. UNCHANGED <<entry, muxed, reading>>
    BY <1>2 DEF UsbAddPendingDevice
  <2> QED BY <1>1, <1>2, <2>1 DEF Outcome, AddOutcome, EntryInv
<1> SUFFICES ASSUME ~entry[l].open PROVE Outcome(l) /\ AddOutcome(l)
  BY <1>2
<1>3. New(monitor) \in Entries /\ New(monitor).listed /\ New(monitor).monitor = monitor
      /\ New(monitor).state = "ALIVE" /\ ~New(monitor).open
  BY DEF New, Free, Entries, Monitors
<1>4. CASE plugged[l] = "none"
  <2>1. AddToEmptyPort(l, monitor)
    BY <1>4 DEF UsbAddPendingDevice
  <2>2. CASE monitor = "ALWAYS"
    <3> DEFINE e == [New(monitor) EXCEPT !.state = "WAITING"]
    <3>1. e \in Entries /\ e.listed /\ e.monitor = "ALWAYS" /\ ~e.open
      BY <1>3, <2>2 DEF Entries
    <3>2. Become(l, e, FALSE, FALSE)
      BY <2>1, <2>2 DEF AddToEmptyPort
    <3> HIDE DEF e
    <3>3. Outcome(l) /\ entry'[l] = e
      BY <3>1, <3>2, BecomeOutcome
    <3> QED BY <3>1, <3>3, <1>4 DEF AddOutcome
  <2>3. CASE monitor # "ALWAYS"
    <3> DEFINE e == IF entry[l].listed THEN entry[l] ELSE New(monitor)
    <3>1. e \in Entries /\ e.listed
      BY <1>1, <1>3
    <3>2. AddFails(l, e)
      BY <2>1, <2>3 DEF AddToEmptyPort
    <3> HIDE DEF e
    <3>3. Outcome(l) /\ ~entry'[l].open
      BY <3>1, <3>2, AddFailsOutcome
    <3> QED BY <3>3, <1>4 DEF AddOutcome
  <2> QED BY <2>2, <2>3
<1> DEFINE o == Opened(l, monitor)
<1>5. /\ o \in Entries /\ o.listed /\ o.open
      /\ ~entry[l].listed => o.state = "ALIVE"
  BY <1>1, <1>3 DEF Opened, Entries, Monitors
<1> HIDE DEF o
<1>6. ASSUME AddFails(l, o), plugged[l] # "good"
      PROVE  Outcome(l) /\ AddOutcome(l)
  <2>1. Outcome(l) /\ ~entry'[l].open
    BY <1>5, <1>6, AddFailsOutcome
  <2> QED BY <2>1, <1>6 DEF AddOutcome
<1>7. CASE plugged[l] = "other"
  <2>1. AddOther(l, o, source, monitor)
    BY <1>7 DEF UsbAddPendingDevice, o
  <2>2. CASE source = "MANUAL" /\ monitor # "DISABLE"
    <3>1. Become(l, o, FALSE, FALSE)
      BY <2>1, <2>2 DEF AddOther
    <3>2. o.state = "ALIVE"
      BY <1>5, <2>2
    <3>3. Outcome(l) /\ entry'[l] = o
      BY <1>5, <3>1, <3>2, BecomeOutcome
    <3> QED BY <3>2, <3>3 DEF AddOutcome
  <2> QED BY <2>1, <2>2, <1>6, <1>7 DEF AddOther
<1>8. CASE plugged[l] = "bad"
  <2>1. AddBad(l, o)
    BY <1>8 DEF UsbAddPendingDevice, o
  <2>2. CASE entry[l].listed /\ o.monitor = "ALWAYS" /\ Become(l, o, FALSE, FALSE)
    <3>1. Outcome(l) /\ entry'[l] = o
      BY <1>5, <2>2, BecomeOutcome
    <3> QED BY <3>1, <1>8 DEF AddOutcome
  <2> QED BY <2>1, <2>2, <1>6, <1>8 DEF AddBad
<1>9. CASE plugged[l] = "good"
  <2> DEFINE e == [o EXCEPT !.state = "ALIVE"]
  <2>1. e \in Entries /\ e.listed /\ e.open /\ e.state = "ALIVE"
    BY <1>5 DEF Entries
  <2>2. Become(l, e, TRUE, TRUE)
    BY <1>9 DEF UsbAddPendingDevice, AddGood, o
  <2> HIDE DEF e
  <2>3. Outcome(l) /\ entry'[l] = e
    BY <2>1, <2>2, BecomeOutcome
  <2> QED BY <2>1, <2>3 DEF AddOutcome
<1> QED BY <1>1, <1>4, <1>7, <1>8, <1>9

\* usb_remove_pending_device
LEMMA RemoveOutcomes ==
  ASSUME NEW l \in Locations, TypeOK, reading = muxed, EntryInv(l), NEW source,
         UsbRemovePendingDevice(source, l)
  PROVE  /\ Outcome(l)
         /\ entry'[l].state = "WAITING" => ~entry'[l].open /\ source # "MANUAL"
<1>1. entry[l] \in Entries /\ entry \in [Locations -> Entries] /\ muxed \subseteq Locations
  BY DEF TypeOK, Entries
<1>2. CASE entry[l].listed
  <2> DEFINE e == Disconnected(entry[l], source = "MANUAL")
  <2>1. /\ e \in Entries /\ ~e.open
        /\ ~e.listed => e = Free
        /\ e.state = "WAITING" => e.monitor # "DISABLE"
    BY <1>1, <1>2, DisconnectedType
  <2>2. e.state = "WAITING" => source # "MANUAL"
    BY DEF Disconnected, Free
  <2>3. Become(l, e, FALSE, FALSE)
    BY <1>2 DEF UsbRemovePendingDevice
  <2> HIDE DEF e
  <2>4. Outcome(l) /\ entry'[l] = e
    BY <2>1, <2>3, BecomeOutcome
  <2> QED BY <2>1, <2>2, <2>4
<1>3. CASE ~entry[l].listed
  <2>1. UNCHANGED <<entry, muxed, reading>>
    BY <1>3 DEF UsbRemovePendingDevice
  <2> QED BY <1>1, <1>3, <2>1 DEF Outcome, EntryInv, Free
<1> QED BY <1>2, <1>3

\* usb_handle_device_monitor_command
LEMMA MonitorOutcomes ==
  ASSUME NEW l \in Locations, TypeOK, reading = muxed, EntryInv(l), NEW monitor \in Monitors,
         UsbHandleDeviceMonitorCommand(l, monitor)
  PROVE  /\ Outcome(l)
         /\ entry'[l].state = "WAITING" =>
              \/ entry[l].state = "WAITING" /\ entry'[l].open = entry[l].open
              \/ plugged[l] # "good" /\ (entry'[l].open => plugged[l] = "bad")
<1>1. entry[l] \in Entries /\ entry \in [Locations -> Entries] /\ muxed \subseteq Locations
  BY DEF TypeOK, Entries
<1>2. CASE entry[l].listed
  <2> DEFINE e == MonitorSet(entry[l], monitor)
  <2>1. /\ e \in Entries
        /\ ~e.listed => e = Free
        /\ e.state = "WAITING" => /\ e.monitor # "DISABLE" /\ entry[l].state = "WAITING"
                                /\ e.open = entry[l].open
        /\ l \in muxed => e.listed /\ e.open /\ e.state = "ALIVE"
    BY <1>1, <1>2 DEF MonitorSet, Free, Entries, Monitors, EntryInv
  <2>2. entry' = [entry EXCEPT ![l] = e] /\ UNCHANGED <<muxed, reading>>
    BY <1>2 DEF UsbHandleDeviceMonitorCommand
  <2> HIDE DEF e
  <2>3. /\ entry' \in [Locations -> Entries] /\ entry'[l] = e
        /\ \A m \in Locations \ {l} : entry'[m] = entry[m]
    BY <1>1, <2>1, <2>2
  <2> QED BY <1>1, <2>1, <2>2, <2>3 DEF Outcome, EntryInv
<1>3. CASE ~entry[l].listed /\ monitor = "ALWAYS"
  <2>1. UsbAddPendingDevice("MANUAL", l, monitor)
    BY <1>3 DEF UsbHandleDeviceMonitorCommand
  <2>2. Outcome(l) /\ AddOutcome(l)
    BY <1>3, <2>1, AddOutcomes
  <2>3. ~entry[l].open
    BY <1>3 DEF EntryInv, Free
  <2> QED BY <2>2, <2>3 DEF AddOutcome
<1>4. CASE ~entry[l].listed /\ monitor # "ALWAYS"
  <2>1. UNCHANGED <<entry, muxed, reading>>
    BY <1>4 DEF UsbHandleDeviceMonitorCommand
  <2>2. entry[l].state # "WAITING"
    BY <1>4 DEF EntryInv, Free
  <2> QED BY <1>1, <2>1, <2>2 DEF Outcome, EntryInv
<1> QED BY <1>2, <1>3, <1>4

-----------------------------------------------------------------------------
\* A port that waits has an entry, so what it has missed is not forgotten.
LEMMA MissedKept ==
  ASSUME NEW l \in Locations, EntryInv(l)', missed' = {m \in missed : entry'[m].listed}
  PROVE  l \in missed => l \in missed' \/ entry'[l].state # "WAITING"
BY DEF EntryInv, Free

\* A command: it leaves the queue's invariant of its own port ...
LEMMA OwnPortKeeps ==
  ASSUME PortInv, UsbProcess, NEW l \in Locations, l = Head(pending).at
  PROVE  Outcome(l) /\ QueueInv(l)'
<1> DEFINE c == Head(pending)
<1>1. TypeOK /\ reading = muxed /\ \A m \in Locations : EntryInv(m) /\ QueueInv(m)
  BY Parts
<1>2. pending \in Seq(Commands) /\ pending # <<>> /\ pending' = Tail(pending) /\ plugged' = plugged
      /\ missed' = {m \in missed : entry'[m].listed}
  BY <1>1 DEF UsbProcess, TypeOK
<1>3. /\ Len(pending) \in Nat \ {0} /\ Len(pending') = Len(pending) - 1
      /\ \A i \in 1..Len(pending') : pending'[i] = pending[i + 1]
      /\ c = pending[1] /\ c \in Commands
  BY <1>2, TailTaken
<1>4. ASSUME NEW i \in 2..Len(pending)
      PROVE  i - 1 \in 1..Len(pending') /\ pending'[i - 1] = pending[i]
  BY <1>3, <1>4
<1>5. EntryInv(l) /\ ArrivalComes(l) /\ ReturnFollows(l) /\ DepartureComes(l)
  BY <1>1, <1>3 DEF QueueInv, Commands
<1>6. ReturnFollows(l)'
  BY <1>2, <1>5, TailReturns
<1>7. ASSUME Outcome(l), l \notin missed', entry'[l].state = "WAITING" PROVE l \notin missed
  BY <1>2, <1>7, MissedKept DEF Outcome
<1>8. CASE c.type = "ADD" /\ UsbAddPendingDevice(c.source, l, c.monitor)
  <2>1. c.monitor = "DISABLE"
    BY <1>3, <1>8 DEF Commands
  <2>2. Outcome(l) /\ AddOutcome(l)
    BY <1>1, <1>5, <1>8, <2>1, AddOutcomes
  <2>3. ASSUME NEW i \in 1..Len(pending), Departure(i, l) PROVE i \in 2..Len(pending)
    BY <1>3, <1>8, <2>3 DEF Departure, Pending
  <2>4. ArrivalComes(l)'
    <3>1. SUFFICES ASSUME l \notin missed', entry'[l].state = "WAITING", plugged[l] = "good"
                   PROVE  \E k \in 1..Len(pending') : Pending(k, "ADD", l)'
      BY <1>2 DEF ArrivalComes
    <3>2. entry[l].state = "WAITING" /\ entry[l].open
      BY <2>2, <3>1 DEF AddOutcome
    <3>3. PICK i \in 1..Len(pending) : Departure(i, l)
      BY <1>5, <1>7, <2>2, <3>1, <3>2 DEF DepartureComes
    <3>4. PICK j \in (i + 1)..Len(pending) : Pending(j, "ADD", l)
      BY <1>5, <3>1, <3>3 DEF ReturnFollows
    <3>5. j \in 2..Len(pending)
      BY <3>4, <1>3
    <3> QED BY <3>4, <3>5, <1>4 DEF Pending
  <2>5. DepartureComes(l)'
    <3>1. SUFFICES ASSUME l \notin missed', entry'[l].state = "WAITING", entry'[l].open,
                          plugged[l] \in {"none", "good"}
                   PROVE  \E k \in 1..Len(pending') : Departure(k, l)'
      BY <1>2 DEF DepartureComes
    <3>2. entry[l].state = "WAITING" /\ entry[l].open
      BY <2>2, <3>1 DEF AddOutcome
    <3>3. PICK i \in 1..Len(pending) : Departure(i, l)
      BY <1>5, <1>7, <2>2, <3>1, <3>2 DEF DepartureComes
    <3> QED BY <3>3, <2>3, <1>4 DEF Departure, Pending
  <2> QED BY <1>6, <2>2, <2>4, <2>5 DEF QueueInv
<1>9. CASE c.type = "REMOVE" /\ UsbRemovePendingDevice(c.source, l)
  <2>1. /\ Outcome(l)
        /\ entry'[l].state = "WAITING" => ~entry'[l].open /\ c.source # "MANUAL"
    BY <1>1, <1>5, <1>9, RemoveOutcomes
  <2>2. ArrivalComes(l)'
    <3>1. SUFFICES ASSUME l \notin missed', entry'[l].state = "WAITING", plugged[l] = "good"
                   PROVE  \E k \in 1..Len(pending') : Pending(k, "ADD", l)'
      BY <1>2 DEF ArrivalComes
    <3>2. 1 \in 1..Len(pending) /\ Departure(1, l)
      BY <1>3, <1>9, <2>1, <3>1 DEF Departure, Pending, Commands
    <3>3. PICK j \in (1 + 1)..Len(pending) : Pending(j, "ADD", l)
      BY <1>5, <3>1, <3>2 DEF ReturnFollows
    <3> QED BY <3>3, <1>4 DEF Pending
  <2>3. DepartureComes(l)'
    BY <2>1 DEF DepartureComes
  <2> QED BY <1>6, <2>1, <2>2, <2>3 DEF QueueInv
<1>10. CASE c.type = "SET_MONITOR" /\ UsbHandleDeviceMonitorCommand(l, c.monitor)
  <2>1. /\ Outcome(l)
        /\ entry'[l].state = "WAITING" =>
             \/ entry[l].state = "WAITING" /\ entry'[l].open = entry[l].open
             \/ plugged[l] # "good" /\ (entry'[l].open => plugged[l] = "bad")
    BY <1>1, <1>3, <1>5, <1>10, MonitorOutcomes DEF Commands
  <2>2. ASSUME NEW i \in 1..Len(pending), pending[i].type # "SET_MONITOR" PROVE i \in 2..Len(pending)
    BY <1>3, <1>10, <2>2
  <2>3. ArrivalComes(l)'
    BY <1>2, <1>4, <1>5, <1>7, <2>1, <2>2 DEF ArrivalComes, Pending
  <2>4. DepartureComes(l)'
    <3>1. SUFFICES ASSUME l \notin missed', entry'[l].state = "WAITING", entry'[l].open,
                          plugged[l] \in {"none", "good"}
                   PROVE  \E k \in 1..Len(pending') : Departure(k, l)'
      BY <1>2 DEF DepartureComes
    <3>2. entry[l].state = "WAITING" /\ entry[l].open /\ l \notin missed
      BY <1>7, <2>1, <3>1
    <3>3. PICK i \in 1..Len(pending) : Departure(i, l)
      BY <1>5, <3>1, <3>2 DEF DepartureComes
    <3>4. i \in 2..Len(pending)
      BY <2>2, <3>3 DEF Departure, Pending
    <3> QED BY <3>3, <3>4, <1>4 DEF Departure, Pending
  <2> QED BY <1>6, <2>1, <2>3, <2>4 DEF QueueInv
<1> QED BY <1>8, <1>9, <1>10 DEF UsbProcess

\* ... and PortInv as a whole.
LEMMA ProcessKeeps ==
  ASSUME PortInv, UsbProcess
  PROVE  PortInv'
<1>1. TypeOK /\ NoticedIsNotified /\ \A m \in Locations : EntryInv(m) /\ QueueInv(m)
  BY Parts
<1>2. /\ pending \in Seq(Commands) /\ pending # <<>> /\ pending' = Tail(pending)
      /\ plugged' = plugged /\ worker' = worker /\ notified' = notified /\ main' = "update"
      /\ missed' = {m \in missed : entry'[m].listed}
  BY <1>1 DEF UsbProcess, TypeOK
<1>3. /\ pending' \in Seq(Commands)
      /\ Len(pending) \in Nat \ {0} /\ Len(pending') = Len(pending) - 1
      /\ \A i \in 1..Len(pending') : pending'[i] = pending[i + 1]
  BY <1>2, TailTaken
<1> PICK l \in Locations : l = Head(pending).at
  BY <1>2, TailTaken DEF Commands
<1>4. Outcome(l) /\ QueueInv(l)'
  BY OwnPortKeeps
<1>5. ASSUME NEW m \in Locations PROVE EntryInv(m)' /\ QueueInv(m)'
  <2>1. CASE m = l
    BY <1>4, <2>1 DEF Outcome
  <2>2. CASE m # l
    <3>1. entry'[m] = entry[m] /\ (m \in muxed' <=> m \in muxed)
      BY <1>4, <2>2 DEF Outcome
    <3>2. EntryInv(m)'
      BY <1>1, <3>1 DEF EntryInv
    <3>3. QueueInv(m)'
      BY <1>1, <1>2, <2>2, <3>1, <3>2, MissedKept, TailKeeps
    <3> QED BY <3>2, <3>3
  <2> QED BY <2>1, <2>2
<1>6. TypeOK'
  <2>1. missed' \subseteq Locations
    BY <1>1, <1>2 DEF TypeOK
  <2>2. Len(pending') <= MaxPending
    BY <1>1, <1>3, PortsAssumption DEF TypeOK
  <2>3. reading' \subseteq Locations /\ muxed' \subseteq Locations /\ entry' \in [Locations -> Entries]
    BY <1>4 DEF Outcome
  <2> QED BY <1>1, <1>2, <1>3, <2>1, <2>2, <2>3 DEF TypeOK, Entries
<1>7. NoticedIsNotified'
  <2>1. ASSUME NEW i \in 1..Len(pending'), pending'[i].source = "MONITOR" PROVE notified
    <3>1. i + 1 \in 1..Len(pending) /\ pending[i + 1].source = "MONITOR"
      BY <1>3, <2>1
    <3> QED BY <1>1, <3>1 DEF NoticedIsNotified
  <2> QED BY <1>2, <2>1 DEF NoticedIsNotified
<1>8. (reading = muxed)'
  BY <1>4 DEF Outcome
<1> QED BY <1>5, <1>6, <1>7, <1>8, PartsNext

\* The registration changes no entry; what was noticed before it stays noticed.
LEMMA UpdateKeeps ==
  ASSUME PortInv, UsbUpdateMonitoredDevices
  PROVE  PortInv'
<1>1. /\ TypeOK /\ reading = muxed /\ NoticedIsNotified
      /\ \A l \in Locations : EntryInv(l) /\ QueueInv(l)
  BY Parts
<1>2. /\ UNCHANGED <<plugged, entry, muxed, reading, pending, worker, missed>>
      /\ main' = "loop" /\ notified' \in BOOLEAN /\ (notified => notified')
  BY <1>1 DEF UsbUpdateMonitoredDevices, TypeOK
<1>3. TypeOK' /\ (reading = muxed)'
  BY <1>1, <1>2 DEF TypeOK
<1>4. NoticedIsNotified'
  BY <1>1, <1>2 DEF NoticedIsNotified
<1>5. ASSUME NEW l \in Locations PROVE EntryInv(l)' /\ QueueInv(l)'
  BY <1>1, <1>2 DEF EntryInv, QueueInv, ArrivalComes, ReturnFollows, DepartureComes, Departure, Pending
<1> QED BY <1>3, <1>4, <1>5, PartsNext

-----------------------------------------------------------------------------
\* Everything else queues a command, or changes nothing that the invariant speaks of.

\* What is left to show when no entry changes.
LEMMA QueueingKeeps ==
  ASSUME PortInv, UNCHANGED <<entry, muxed, reading, notified, main>>, missed' \subseteq Locations,
         plugged' \in [Locations -> {"none", "good", "bad", "other"}],
         worker' \in [Locations -> {"none", "running", "waiting"}],
         \/ pending' = pending
         \/ \E c \in Commands : Queue(c) /\ (c.source = "MONITOR" => notified),
         \A l \in Locations : QueueInv(l)'
  PROVE  PortInv'
<1>1. TypeOK /\ reading = muxed /\ NoticedIsNotified
      /\ \A m \in Locations : EntryInv(m) /\ QueueInv(m)
  BY Parts
<1>2. pending \in Seq(Commands) /\ Len(pending) <= MaxPending
  BY <1>1 DEF TypeOK
<1>3. pending' \in Seq(Commands) /\ Len(pending') <= MaxPending /\ NoticedIsNotified'
  <2>1. CASE pending' = pending
    BY <1>1, <1>2, <2>1 DEF NoticedIsNotified
  <2>2. CASE \E c \in Commands : Queue(c) /\ (c.source = "MONITOR" => notified)
    <3>1. PICK c \in Commands : Queue(c) /\ (c.source = "MONITOR" => notified)
      BY <2>2
    <3>2. /\ Len(pending) < MaxPending /\ pending' \in Seq(Commands)
          /\ Len(pending) \in Nat /\ Len(pending') = Len(pending) + 1
          /\ \A i \in 1..Len(pending) : pending'[i] = pending[i]
          /\ pending'[Len(pending')] = c
      BY <1>2, <3>1, Appended DEF Queue
    <3>3. Len(pending') <= MaxPending
      BY <3>2, PortsAssumption
    <3>4. ASSUME NEW i \in 1..Len(pending'), pending'[i].source = "MONITOR" PROVE notified
      <4>1. CASE i \in 1..Len(pending)
        BY <1>1, <3>2, <3>4, <4>1 DEF NoticedIsNotified
      <4>2. CASE i = Len(pending')
        BY <3>1, <3>2, <3>4, <4>2
      <4> QED BY <3>2, <4>1, <4>2
    <3> QED BY <3>2, <3>3, <3>4 DEF NoticedIsNotified
  <2> QED BY <2>1, <2>2
<1>4. TypeOK'
  BY <1>1, <1>3 DEF TypeOK
<1>5. \A l \in Locations : EntryInv(l)'
  BY <1>1 DEF EntryInv
<1> QED BY <1>1, <1>3, <1>4, <1>5, PartsNext

\* Users and workers queue no departure.
LEMMA ManualKeeps ==
  ASSUME PortInv, UNCHANGED <<plugged, entry, muxed, reading, notified, main, missed>>,
         worker' \in [Locations -> {"none", "running", "waiting"}],
         \/ pending' = pending
         \/ \E c \in Commands : Queue(c) /\ c.source = "MANUAL"
  PROVE  PortInv'
<1>1. TypeOK /\ \A m \in Locations : QueueInv(m)
  BY Parts
<1>2. pending \in Seq(Commands) /\ plugged' \in [Locations -> {"none", "good", "bad", "other"}]
      /\ missed' \subseteq Locations
  BY <1>1 DEF TypeOK
<1>3. ASSUME NEW l \in Locations PROVE QueueInv(l)'
  <2>1. CASE pending' = pending
    BY <1>1, <2>1 DEF QueueInv, ArrivalComes, ReturnFollows, DepartureComes, Departure, Pending
  <2>2. CASE \E c \in Commands : Queue(c) /\ c.source = "MANUAL"
    BY <1>1, <1>2, <2>2, AppendKeeps DEF Queue
  <2> QED BY <2>1, <2>2
<1> QED BY <1>2, <1>3, QueueingKeeps

\* An arrival: the departures before it are followed by it.
LEMMA PlugInKeeps ==
  ASSUME PortInv, NEW l \in Locations, NEW kind \in {"good", "bad", "other"}, PlugIn(l, kind)
  PROVE  PortInv'
<1> DEFINE c == Command("ADD", "MONITOR", l, "DISABLE", "plugin")
<1>1. TypeOK /\ NoticedIsNotified
      /\ \A m \in Locations : EntryInv(m) /\ QueueInv(m)
  BY Parts
<1>2. /\ pending \in Seq(Commands) /\ plugged[l] = "none"
      /\ UNCHANGED <<entry, muxed, reading, notified, main, worker>>
      /\ plugged' \in [Locations -> {"none", "good", "bad", "other"}]
      /\ \A m \in Locations \ {l} : plugged'[m] = plugged[m]
      /\ missed' = IF ~notified /\ entry[l].monitor # "DISABLE" THEN missed \union {l} ELSE missed
      /\ missed \subseteq missed' /\ missed' \subseteq Locations
      /\ worker' \in [Locations -> {"none", "running", "waiting"}]
  BY <1>1 DEF PlugIn, Missed, TypeOK
<1>3. c \in Commands /\ c.type = "ADD" /\ c.at = l
  BY DEF Command, Commands, Monitors
<1>4. (notified /\ Queue(c)) \/ (~notified /\ pending' = pending)
  <2>1. IF notified THEN Queue(c) ELSE pending' = pending
    BY DEF PlugIn, Notify
  <2> QED BY <2>1
<1> HIDE DEF c
<1>5. ASSUME NEW m \in Locations PROVE QueueInv(m)'
  <2>1. CASE notified /\ Queue(c) /\ m # l
    BY <1>1, <1>2, <1>3, <2>1, AppendKeeps DEF Queue
  <2>2. CASE notified /\ Queue(c) /\ m = l
    <3>1. /\ Len(pending) \in Nat /\ Len(pending') = Len(pending) + 1
          /\ \A i \in 1..Len(pending) : pending'[i] = pending[i]
          /\ pending'[Len(pending')] = c
      BY <1>2, <1>3, <2>2, Appended DEF Queue
    <3>2. PICK k \in 1..Len(pending') : k = Len(pending') /\ Pending(k, "ADD", l)'
      BY <1>3, <3>1 DEF Pending
    <3>3. ArrivalComes(l)'
      BY <3>2 DEF ArrivalComes
    <3>4. ReturnFollows(l)'
      <4>1. ASSUME NEW i \in 1..Len(pending'), Departure(i, l)' PROVE k \in (i + 1)..Len(pending')
        BY <1>3, <3>1, <3>2, <4>1 DEF Departure, Pending
      <4> QED BY <3>2, <4>1 DEF ReturnFollows
    <3>5. DepartureComes(l)'
      <4>1. SUFFICES ASSUME l \notin missed, entry[l].state = "WAITING", entry[l].open
                     PROVE  \E i \in 1..Len(pending') : Departure(i, l)'
        BY <1>2 DEF DepartureComes
      <4>2. PICK i \in 1..Len(pending) : Departure(i, l)
        BY <1>1, <1>2, <4>1 DEF QueueInv, DepartureComes
      <4> QED BY <3>1, <4>2 DEF Departure, Pending
    <3> QED BY <2>2, <3>3, <3>4, <3>5 DEF QueueInv
  <2>3. CASE ~notified /\ pending' = pending
    <3>1. ArrivalComes(m)' /\ DepartureComes(m)'
      <4>1. CASE m = l
        <5>1. l \in missed' \/ entry[l].state # "WAITING"
          BY <1>1, <1>2, <2>3 DEF EntryInv
        <5> QED BY <1>2, <4>1, <5>1 DEF ArrivalComes, DepartureComes
      <4>2. CASE m # l
        BY <1>1, <1>2, <2>3, <4>2 DEF QueueInv, ArrivalComes, DepartureComes, Departure, Pending
      <4> QED BY <4>1, <4>2
    <3>2. \A i \in 1..Len(pending) : ~Departure(i, m)
      BY <1>1, <2>3 DEF NoticedIsNotified, Departure
    <3>3. \A i \in 1..Len(pending') : ~Departure(i, m)'
      BY <2>3, <3>2 DEF Departure, Pending
    <3> QED BY <3>1, <3>3 DEF QueueInv, ReturnFollows
  <2> QED BY <1>4, <2>1, <2>2, <2>3
<1>6. \/ pending' = pending
      \/ \E d \in Commands : Queue(d) /\ (d.source = "MONITOR" => notified)
  BY <1>3, <1>4
<1> QED BY <1>2, <1>5, <1>6, QueueingKeeps

\* A departure: of the ports, only the one that is empty now has it.
LEMMA UnplugKeeps ==
  ASSUME PortInv, NEW l \in Locations, Unplug(l)
  PROVE  PortInv'
<1> DEFINE c == Command("REMOVE", "MONITOR", l, "DISABLE", "plugin")
<1>1. TypeOK /\ NoticedIsNotified
      /\ \A m \in Locations : EntryInv(m) /\ QueueInv(m)
  BY Parts
<1>2. /\ pending \in Seq(Commands)
      /\ UNCHANGED <<entry, muxed, reading, notified, main, worker>>
      /\ plugged' \in [Locations -> {"none", "good", "bad", "other"}] /\ plugged'[l] = "none"
      /\ \A m \in Locations \ {l} : plugged'[m] = plugged[m]
      /\ missed' = IF ~notified /\ entry[l].monitor # "DISABLE" THEN missed \union {l} ELSE missed
      /\ missed \subseteq missed' /\ missed' \subseteq Locations
      /\ worker' \in [Locations -> {"none", "running", "waiting"}]
  BY <1>1 DEF Unplug, Missed, TypeOK
<1>3. c \in Commands /\ c.type = "REMOVE" /\ c.source = "MONITOR" /\ c.at = l
  BY DEF Command, Commands, Monitors
<1>4. (notified /\ Queue(c)) \/ (~notified /\ pending' = pending)
  <2>1. IF notified THEN Queue(c) ELSE pending' = pending
    BY DEF Unplug, Notify
  <2> QED BY <2>1
<1> HIDE DEF c
<1>5. ASSUME NEW m \in Locations PROVE QueueInv(m)'
  <2>1. CASE m # l
    <3>1. CASE notified /\ Queue(c)
      BY <1>1, <1>2, <1>3, <2>1, <3>1, AppendKeeps DEF Queue
    <3>2. CASE ~notified /\ pending' = pending
      BY <1>1, <1>2, <2>1, <3>2
         DEF QueueInv, ArrivalComes, ReturnFollows, DepartureComes, Departure, Pending
    <3> QED BY <1>4, <3>1, <3>2
  <2>2. CASE m = l
    <3>1. ArrivalComes(l)' /\ ReturnFollows(l)'
      BY <1>2 DEF ArrivalComes, ReturnFollows
    <3>2. DepartureComes(l)'
      <4>1. SUFFICES ASSUME l \notin missed', entry[l].state = "WAITING"
                     PROVE  \E i \in 1..Len(pending') : Departure(i, l)'
        BY <1>2 DEF DepartureComes
      <4>2. notified /\ Queue(c)
        BY <1>1, <1>2, <1>4, <4>1 DEF EntryInv
      <4>3. Len(pending') \in 1..Len(pending') /\ pending'[Len(pending')] = c
        BY <1>2, <1>3, <4>2, Appended DEF Queue
      <4> QED BY <1>3, <4>3 DEF Departure, Pending
    <3> QED BY <2>2, <3>1, <3>2 DEF QueueInv
  <2> QED BY <2>1, <2>2
<1>6. \/ pending' = pending
      \/ \E d \in Commands : Queue(d) /\ (d.source = "MONITOR" => notified)
  BY <1>3, <1>4
<1> QED BY <1>2, <1>5, <1>6, QueueingKeeps

-----------------------------------------------------------------------------
\* The invariant of every reachable state.
THEOREM PortCorrect == Spec => []PortInv
<1>1. Init => PortInv
  <2> SUFFICES ASSUME Init PROVE PortInv
    OBVIOUS
  <2>1. TypeOK
    <3>1. Free \in Entries
      BY DEF Free, Entries, Monitors
    <3>2. plugged \in [Locations -> {"none", "good", "bad", "other"}]
      BY DEF Init
    <3>3. pending \in Seq(Commands) /\ Len(pending) <= MaxPending
      BY PortsAssumption DEF Init
    <3> QED BY <3>1, <3>2, <3>3 DEF Init, TypeOK, Entries
  <2>2. \A l \in Locations : entry[l] = Free /\ l \notin muxed
    BY DEF Init
  <2>3. Len(pending) = 0 /\ reading = muxed
    BY DEF Init
  <2>4. ASSUME NEW l \in Locations PROVE EntryInv(l) /\ QueueInv(l)
    BY <2>2, <2>3 DEF EntryInv, QueueInv, ArrivalComes, ReturnFollows, DepartureComes, Free
  <2>5. NoticedIsNotified
    BY <2>3 DEF NoticedIsNotified
  <2> QED BY <2>1, <2>3, <2>4, <2>5, Parts
<1>2. PortInv /\ [Next]_vars => PortInv'
  <2> SUFFICES ASSUME PortInv, [Next]_vars PROVE PortInv'
    OBVIOUS
  <2>1. TypeOK
    BY DEF PortInv
  <2>2. CASE UsbProcess
    BY <2>2, ProcessKeeps
  <2>10. CASE UsbUpdateMonitoredDevices
    BY <2>10, UpdateKeeps
  <2>3. ASSUME NEW l \in Locations, NEW kind \in {"good", "bad", "other"}, PlugIn(l, kind)
        PROVE  PortInv'
    BY <2>3, PlugInKeeps
  <2>4. ASSUME NEW l \in Locations, Unplug(l) PROVE PortInv'
    BY <2>4, UnplugKeeps
  <2> DEFINE Workers == [Locations -> {"none", "running", "waiting"}]
  <2>5. ASSUME NEW l \in Locations, AddDevice(l) \/ RemoveDevice(l) PROVE PortInv'
    <3>1. \E c \in Commands : Queue(c) /\ c.source = "MANUAL"
      BY <2>5 DEF AddDevice, RemoveDevice, Command, Commands, Monitors
    <3>2. UNCHANGED <<plugged, entry, muxed, reading, notified, main, missed>> /\ worker' \in Workers
      BY <2>1, <2>5 DEF AddDevice, RemoveDevice, TypeOK
    <3> QED BY <3>1, <3>2, ManualKeeps
  <2>6. ASSUME NEW l \in Locations, NEW monitor \in {"ALWAYS", "DISABLE"}, UserMonitor(l, monitor)
        PROVE  PortInv'
    <3>1. \E c \in Commands : Queue(c) /\ c.source = "MANUAL"
      BY <2>6 DEF UserMonitor, Command, Commands, Monitors
    <3>2. UNCHANGED <<plugged, entry, muxed, reading, notified, main, missed>> /\ worker' \in Workers
      BY <2>1, <2>6 DEF UserMonitor, TypeOK
    <3> QED BY <3>1, <3>2, ManualKeeps
  <2>7. ASSUME NEW l \in Locations, StartWorker(l) \/ WorkerEnds(l) PROVE PortInv'
    <3>1. pending' = pending /\ UNCHANGED <<plugged, entry, muxed, reading, notified, main, missed>> /\ worker' \in Workers
      BY <2>1, <2>7 DEF StartWorker, WorkerEnds, TypeOK
    <3> QED BY <3>1, ManualKeeps
  <2>8. ASSUME NEW l \in Locations, WorkerAsks(l) \/ WorkerCancels(l) PROVE PortInv'
    <3>1. \E c \in Commands : Queue(c) /\ c.source = "MANUAL"
      BY <2>8 DEF WorkerAsks, WorkerCancels, Command, Commands, Monitors
    <3>2. UNCHANGED <<plugged, entry, muxed, reading, notified, main, missed>> /\ worker' \in Workers
      BY <2>1, <2>8 DEF WorkerAsks, WorkerCancels, TypeOK
    <3> QED BY <3>1, <3>2, ManualKeeps
  <2>9. CASE UNCHANGED vars
    <3>1. pending' = pending /\ UNCHANGED <<plugged, entry, muxed, reading, notified, main, missed>> /\ worker' \in Workers
      BY <2>1, <2>9 DEF vars, TypeOK
    <3> QED BY <3>1, ManualKeeps
  <2> QED BY <2>2, <2>3, <2>4, <2>5, <2>6, <2>7, <2>8, <2>9, <2>10 DEF Next
<1> QED BY <1>1, <1>2, PTL DEF Spec

\* Devices and read threads have an open port (usb_add_pending_device and its exits).
THEOREM DeviceHasPortAlways == Spec => []DeviceHasPort
<1>1. PortInv => DeviceHasPort
  BY DEF PortInv
<1> QED BY <1>1, PortCorrect, PTL

\* Ports that wait are monitored (usb_disconnect, usb_handle_device_monitor_command).
THEOREM WaitingIsMonitoredAlways == Spec => []WaitingIsMonitored
<1>1. PortInv => WaitingIsMonitored
  BY DEF PortInv
<1> QED BY <1>1, PortCorrect, PTL

\* Of the arrivals the plugin tells, none is lost for a port that waits
\* (usb_port_change_callback and the order in which usb_process handles what it queues).
THEOREM ToldArrivalComesAlways == Spec => []ToldArrivalComes
<1>1. PortInv => ToldArrivalComes
  BY DEF PortInv
<1> QED BY <1>1, PortCorrect, PTL

-----------------------------------------------------------------------------
\* Disconnecting a port keeps its monitoring unless it was removed by hand.
LEMMA AddKeepsAlways ==
  ASSUME NEW l \in Locations, TypeOK, EntryInv(l), entry[l].monitor = "ALWAYS",
         NEW source, NEW monitor, UsbAddPendingDevice(source, l, monitor), monitor = "DISABLE"
  PROVE  entry'[l].monitor = "ALWAYS"
<1>1. entry[l] \in Entries /\ entry \in [Locations -> Entries] /\ entry[l].listed
      /\ plugged[l] \in {"none", "good", "bad", "other"}
  BY DEF TypeOK, Entries, EntryInv, Free
<1>2. ASSUME NEW e \in Entries, e.monitor = "ALWAYS", NEW d, Become(l, e, d, d)
      PROVE  entry'[l].monitor = "ALWAYS"
  BY <1>1, <1>2 DEF Become
<1>3. ASSUME NEW e \in Entries, e.monitor = "ALWAYS", AddFails(l, e)
      PROVE  entry'[l].monitor = "ALWAYS"
  <2>1. Disconnected(e, FALSE) \in Entries /\ Disconnected(e, FALSE).monitor = "ALWAYS"
    BY <1>3 DEF Disconnected, Entries
  <2>2. Become(l, Disconnected(e, FALSE), FALSE, FALSE)
    BY <1>1, <1>3 DEF AddFails
  <2> QED BY <1>2, <2>1, <2>2
<1> DEFINE o == Opened(l, monitor)
<1>4. o \in Entries /\ o.monitor = "ALWAYS" /\ [o EXCEPT !.state = "ALIVE"] \in Entries
      /\ [o EXCEPT !.state = "ALIVE"].monitor = "ALWAYS"
  BY <1>1 DEF Opened, Entries
<1>5. CASE entry[l].open
  BY <1>5 DEF UsbAddPendingDevice
<1>6. CASE ~entry[l].open /\ plugged[l] = "none"
  <2>1. AddFails(l, entry[l])
    BY <1>1, <1>6 DEF UsbAddPendingDevice, AddToEmptyPort
  <2> QED BY <1>1, <1>3, <2>1
<1>7. CASE ~entry[l].open /\ plugged[l] = "other"
  <2>1. AddFails(l, o)
    BY <1>7 DEF UsbAddPendingDevice, AddOther
  <2> QED BY <1>3, <1>4, <2>1
<1>8. CASE ~entry[l].open /\ plugged[l] = "bad"
  <2>1. AddFails(l, o) \/ Become(l, o, FALSE, FALSE)
    BY <1>8 DEF UsbAddPendingDevice, AddBad
  <2> QED BY <1>2, <1>3, <1>4, <2>1
<1>9. CASE ~entry[l].open /\ plugged[l] = "good"
  <2>1. Become(l, [o EXCEPT !.state = "ALIVE"], TRUE, TRUE)
    BY <1>9 DEF UsbAddPendingDevice, AddGood
  <2> QED BY <1>2, <1>4, <2>1
<1> QED BY <1>1, <1>5, <1>6, <1>7, <1>8, <1>9

\* A user's monitoring ends only when it is stopped or its port removed, whatever comes
\* and goes in between.
THEOREM MonitoringCorrect == Spec => MonitoringSurvives
<1>1. PortInv /\ [Next]_vars => [\A l \in Locations : LosesAlways(l) => EndsMonitoring(Head(pending), l)]_vars
  <2> SUFFICES ASSUME PortInv, Next, NEW l \in Locations, LosesAlways(l)
               PROVE  EndsMonitoring(Head(pending), l)
    OBVIOUS
  <2>1. TypeOK /\ reading = muxed /\ \A m \in Locations : EntryInv(m) /\ QueueInv(m)
    BY Parts
  <2>2. UsbProcess
    BY DEF Next, LosesAlways, UsbUpdateMonitoredDevices, AddDevice, RemoveDevice, UserMonitor, PlugIn, Unplug,
           StartWorker, WorkerAsks, WorkerCancels, WorkerEnds
  <2> DEFINE c == Head(pending)
  <2>3. c \in Commands /\ c.at \in Locations
    <3>1. pending \in Seq(Commands) /\ pending # <<>> /\ pending' = Tail(pending)
      BY <2>1, <2>2 DEF UsbProcess, TypeOK
    <3> QED BY <3>1, TailTaken DEF Commands
  <2>4. c.at = l
    <3>1. PICK m \in Locations : m = c.at
      BY <2>3
    <3>2. Outcome(m)
      BY <2>2, <3>1, OwnPortKeeps
    <3> QED BY <3>1, <3>2 DEF Outcome, LosesAlways
  <2>5. CASE c.type = "ADD" /\ UsbAddPendingDevice(c.source, l, c.monitor)
    <3>1. c.monitor = "DISABLE"
      BY <2>3, <2>5 DEF Commands
    <3> QED BY <2>1, <2>5, <3>1, AddKeepsAlways DEF LosesAlways
  <2>6. CASE c.type = "REMOVE" /\ UsbRemovePendingDevice(c.source, l)
    <3>1. CASE c.source = "MANUAL"
      BY <2>4, <2>6, <3>1 DEF EndsMonitoring
    <3>2. CASE c.source # "MANUAL"
      <4>1. entry \in [Locations -> Entries] /\ entry[l] \in Entries /\ entry[l].monitor = "ALWAYS"
        BY <2>1 DEF TypeOK, Entries, LosesAlways
      <4>2. entry'[l].monitor = "ALWAYS"
        BY <2>6, <3>2, <4>1 DEF UsbRemovePendingDevice, Become, Disconnected, Entries
      <4> QED BY <4>2 DEF LosesAlways
    <3> QED BY <3>1, <3>2
  <2>7. CASE c.type = "SET_MONITOR" /\ UsbHandleDeviceMonitorCommand(l, c.monitor)
    <3>1. entry \in [Locations -> Entries] /\ entry[l] \in Entries /\ entry[l].monitor = "ALWAYS"
          /\ entry[l].listed
      BY <2>1 DEF TypeOK, Entries, LosesAlways, EntryInv, Free
    <3>2. entry'[l] = MonitorSet(entry[l], c.monitor)
      BY <2>7, <3>1 DEF UsbHandleDeviceMonitorCommand
    <3>3. c.monitor = "DISABLE"
      BY <2>3, <3>1, <3>2 DEF MonitorSet, LosesAlways, Commands, Monitors, Entries
    <3> QED BY <2>4, <2>7, <3>3 DEF EndsMonitoring
  <2> QED BY <2>2, <2>4, <2>5, <2>6, <2>7 DEF UsbProcess
<1> QED BY <1>1, PortCorrect, PTL DEF Spec, MonitoringSurvives
=============================================================================
