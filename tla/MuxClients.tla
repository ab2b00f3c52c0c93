------------------------------ MODULE MuxClients ------------------------------
(***************************************************************************)
(* Several clients of usbmuxd and the connections they open to several     *)
(* devices: client.cpp 163-262, 308-350 and 855-1034, device.cpp 150-170,  *)
(* 255-358, 497-550 and 805-883, and the main loop that calls them,        *)
(* usbmuxd.cpp 383-474, up to the shutdown, usbmuxd.cpp 102-163.           *)
(*                                                                         *)
(* A client is known by the handle of its socket, which the system uses    *)
(* again once it is closed.  What MuxConnection says of one connection,    *)
(* its data and windows, is left out here; a packet with data is one that  *)
(* a connection hears.                                                     *)
(***************************************************************************)
EXTENDS Integers, FiniteSetsExt, SequencesExt

CONSTANTS
  Handles,       \* handles of client sockets
  MaxAccepts,    \* how many applications connect
  MaxCommands,   \* how many commands an application sends
  Devices,       \* ids of devices, in the order they are given
  AtOnce,        \* how many devices are there at a time
  PortMod,       \* source ports are numbers modulo this (2^16 in the code)
  MaxAir,        \* packets of a device under way
  FdSetSize      \* FD_SETSIZE

ASSUME ClientsAssumption ==
  /\ Handles # {} /\ IsFiniteSet(Handles) /\ Devices \subseteq Nat
  /\ \A n \in {MaxAccepts, MaxCommands, AtOnce, MaxAir, FdSetSize} : n \in Nat
  /\ PortMod \in Nat /\ PortMod > 2

VARIABLES
  phase,      \* where the main loop is, or the shutdown
  readable,   \* clients that select() reported for reading and that are not yet
  writable,   \*   processed, and for writing
  accepts,    \* applications that have connected
  cl,         \* the client and the application at each handle
  dev,        \* each mux_device, and what the device itself knows
  conns,      \* the connections of all devices
  air,        \* packets of each device under way to the host
  syns        \* connections attempted so far: each has its number

vars == <<phase, readable, writable, accepts, cl, dev, conns, air, syns>>

NoClient == [state |-> "none", unread |-> 0, part |-> FALSE, app |-> "none", sent |-> 0,
             run |-> 0, replies |-> <<>>, got |-> <<>>, tag |-> 0, device |-> 0, seen |-> FALSE]
Present == {h \in Handles : cl[h].state # "none"}
Mid(c) == c.state \in {"CONNECTING1", "CONNECTING2"}

\* What the handlers of one step change together.
World == [cl |-> cl, dev |-> dev, conns |-> conns, ok |-> TRUE]
Becomes(w, next) ==
  /\ cl' = w.cl /\ dev' = w.dev /\ conns' = w.conns
  /\ phase' = IF w.ok THEN next ELSE "undefined"

-----------------------------------------------------------------------------
(***************************************************************************)
(* Clients and connections.                                                *)
(***************************************************************************)

\* send_result: a reply with the tag of its command.
Reply(w, h, tag) == [w EXCEPT !.cl[h].replies = Append(@, tag)]

\* The device forgets a connection it gets a TH_RST for, found or not.
Rst(w, d, port) ==
  [w EXCEPT !.dev[d].open = {o \in @ : o.port # port}]

\* The end of client_close.
Freed(w, h) == [w EXCEPT !.cl[h] = NoClient]

\* connection_teardown(conn): the device is told unless it ended the connection or
\* is gone; the client of a connection that never was learns so (client_notify_connect),
\* any other is closed.
ConnOf(w, h) == {c \in w.conns : c.h = h /\ c.dev = w.cl[h].device}
Refusal(w, c) ==
  IF w.cl[c.h].state = "CONNECTING1"
  THEN [Reply(w, c.h, w.cl[c.h].tag) EXCEPT !.cl[c.h].state = "COMMAND",
                                            !.cl[c.h].tag = 0, !.cl[c.h].device = 0]
  ELSE w
Told(w, c, tell) == IF tell THEN Rst(w, c.dev, c.port) ELSE w
Teardown(w, c, tell) ==
  LET v == [Told(w, c, tell) EXCEPT !.conns = @ \ {c}]
  IN IF c.state = "CONNECTING" THEN Refusal(v, c) ELSE Freed(v, c.h)

\* client_close by the client's own side.  One whose connection has just been
\* made is freed by connection_teardown and once more here.
ClientClose(w, h) ==
  IF ~Mid(w.cl[h]) THEN Freed(w, h)
  ELSE LET c == CHOOSE k \in ConnOf(w, h) : TRUE
           dead == [w EXCEPT !.cl[h].state = "DEAD"]
       IN IF ConnOf(w, h) = {} THEN Freed(w, h)
          ELSE [Freed(Teardown(dead, c, TRUE), h)
                  EXCEPT !.ok = c.state = "CONNECTING"]

\* find_sport: the next number that no connection of the device has, if there is one.
Ports(d) == {c.port : c \in {k \in conns : k.dev = d}}
BugNoWrap(d) == Min({port \in dev[d].next..2 * PortMod : port \notin Ports(d)})
FreePort(d) ==
  LET Up(k) == (dev[d].next + k) % PortMod
  IN Up(Min({k \in 0..PortMod - 1 : Up(k) \notin Ports(d)}))
Full(d) == Cardinality(Ports(d)) >= PortMod - 1

\* device_start_connect: the device must exist and have a port that is not 0; then a
\* connection waits for the answer to its TH_SYN.  (Packets for an earlier connection
\* of the same port are not under way any more: 65535 connections came between.)  A
\* device that has not sent its version has no list of connections yet: what becomes
\* of the program when it reads it is not defined.
There == {d \in Devices : dev[d].state \in {"init", "active"}}
InAir(port, d) == \E i \in DOMAIN air[d] : air[d][i].port = port
Connect(w, h, d) ==
  LET port == FreePort(d)
      up == [w EXCEPT !.dev[d].next = (port + 1) % PortMod]
      refused == Reply(w, h, w.cl[h].run)
  IN IF d \notin There \/ (dev[d].state = "active" /\ Full(d)) THEN refused
     ELSE IF dev[d].state = "init" THEN [refused EXCEPT !.ok = FALSE]
     ELSE IF port = 0 THEN Reply(up, h, w.cl[h].run)
     ELSE [up EXCEPT !.cl[h].state = "CONNECTING1", !.cl[h].device = d,
                     !.cl[h].tag = w.cl[h].run,
                     !.conns = @ \cup {[dev |-> d, port |-> port, h |-> h, id |-> syns + 1,
                                        state |-> "CONNECTING", heard |-> {}]},
                     !.dev[d].open = @ \cup {[port |-> port, id |-> syns + 1, up |-> FALSE]}]

-----------------------------------------------------------------------------
(***************************************************************************)
(* The main loop.                                                          *)
(***************************************************************************)

\* The order of an iteration (usbmuxd.cpp 428-473).
BugAfter(p) == [select |-> "device", device |-> "usb", usb |-> "accept", accept |-> "clients"][p]
After(p) == [select |-> "accept", accept |-> "device", device |-> "usb", usb |-> "clients"][p]

\* client_add_fds: a client that waits for its reply to be sent is not read.
WantsIn(c) == c.state \in {"COMMAND", "CONNECTING1", "CONNECTED"}
WantsOut(c) == c.replies # <<>>
Select ==
  /\ phase = "select"
  /\ readable' = {h \in Present : WantsIn(cl[h]) /\ (cl[h].unread > 0 \/ cl[h].app = "closed")}
  /\ writable' = {h \in Present : WantsOut(cl[h])}
  /\ cl' = [h \in Handles |-> [cl[h] EXCEPT !.seen = h \in Present]]
  /\ phase' = After("select")
  /\ UNCHANGED <<accepts, dev, conns, air, syns>>

\* client_accept, for the application at the head of the queue; it is turned away
\* when the descriptors counted before select() leave no room.
Sockets == Cardinality(Present) + 2 + Cardinality({d \in Devices : dev[d].socket})
Accept(h) ==
  /\ phase = "accept" /\ cl[h].state = "none"
  /\ accepts < MaxAccepts
  /\ accepts' = accepts + 1
  /\ cl' = IF Sockets + 1 > FdSetSize THEN cl
           ELSE [cl EXCEPT ![h] = [NoClient EXCEPT !.state = "COMMAND", !.app = "open"]]
  /\ phase' = After("accept")
  /\ UNCHANGED <<readable, writable, dev, conns, air, syns>>

Skip ==
  /\ phase \in {"accept", "device", "usb"}
  /\ phase' = After(phase)
  /\ UNCHANGED <<readable, writable, accepts, cl, dev, conns, air, syns>>

\* device_version_input.
Version(d) ==
  /\ phase = "device" /\ dev[d].state = "init"
  /\ dev' = [dev EXCEPT ![d].state = "active", ![d].socket = TRUE]
  /\ UNCHANGED <<phase, readable, writable, accepts, cl, conns, air, syns>>

\* A device of another version than 1 or 2 is freed by it, while device_data_input and
\* device_process_sockets go on with it.
UnknownVersion(d) ==
  /\ phase = "device" /\ dev[d].state = "init"
  /\ phase' = "undefined"
  /\ UNCHANGED <<readable, writable, accepts, cl, dev, conns, air, syns>>

\* device_tcp_input.  client_notify_connect(RESULT_OK) queues the reply and moves
\* the client on.
Connected(w, c) ==
  [Reply(w, c.h, w.cl[c.h].tag)
     EXCEPT !.cl[c.h].state = "CONNECTING2",
            !.conns = (@ \ {c}) \cup {[c EXCEPT !.state = "CONNECTED"]}]
Input(w, d, p) ==
  LET c == CHOOSE k \in w.conns : k.dev = d /\ k.port = p.port
  IN CASE c.state = "CONNECTING" /\ p.kind = "synack" -> Connected(w, c)
       [] c.state = "CONNECTED" /\ p.kind = "ack" ->
            [w EXCEPT !.conns = (@ \ {c}) \cup {[c EXCEPT !.heard = @ \cup {p.id}]}]
       [] OTHER -> Teardown(w, c, p.kind # "rst")
TcpInput(d) ==
  /\ phase = "device" /\ dev[d].state = "active" /\ air[d] # <<>>
  /\ LET p == Head(air[d])
     IN IF p.port \in Ports(d) THEN Becomes(Input(World, d, p), "device")
        ELSE Becomes(IF p.kind = "rst" THEN World ELSE Rst(World, d, p.port), "device")
  /\ air' = [air EXCEPT ![d] = Tail(@)]
  /\ UNCHANGED <<readable, writable, accepts, syns>>

\* device_add and device_remove in usb_process.
AddDevice(d) ==
  /\ phase = "usb" /\ dev[d].state = "none"
  /\ \A e \in Devices : e < d => dev[e].state # "none"
  /\ Cardinality(There) < AtOnce
  /\ dev' = [dev EXCEPT ![d].state = "init"]
  /\ UNCHANGED <<phase, readable, writable, accepts, cl, conns, air, syns>>

BugTornDown(w, d, tell) ==
  FoldSet(LAMBDA c, v : IF c.state = "CONNECTED" THEN Teardown(v, c, tell)
                        ELSE [v EXCEPT !.conns = @ \ {c}],
          w, {c \in w.conns : c.dev = d})
TornDown(w, d, tell) ==
  FoldSet(LAMBDA c, v : Teardown(v, c, tell), w, {c \in w.conns : c.dev = d})
Removed(w, d) ==
  [TornDown(w, d, FALSE) EXCEPT !.dev[d] = [@ EXCEPT !.state = "gone", !.open = {}, !.socket = FALSE]]
RemoveDevice(d) ==
  /\ phase = "usb" /\ d \in There
  /\ Becomes(Removed(World, d), "usb")
  /\ air' = [air EXCEPT ![d] = <<>>]
  /\ UNCHANGED <<readable, writable, accepts, syns>>

-----------------------------------------------------------------------------
(***************************************************************************)
(* client_process, for one client of those that select() reported.         *)
(***************************************************************************)

Processed(h) ==
  /\ phase = "clients" /\ h \in readable \cup writable
  /\ readable' = readable \ {h} /\ writable' = writable \ {h}
  /\ UNCHANGED accepts

Gone(h) == Processed(h) /\ cl[h].state = "none" /\ UNCHANGED <<phase, cl, dev, conns, air, syns>>

\* process_recv on a socket the application has closed, and in CONNECTING2, where
\* there is no buffer to read into any more.
RecvFails(h) ==
  /\ Processed(h) /\ h \in readable
  /\ \/ WantsIn(cl[h]) /\ cl[h].unread = 0
     \/ cl[h].state = "CONNECTING2"
  /\ cl[h].state # "CONNECTED"
  /\ Becomes(ClientClose(World, h), "clients")
  /\ UNCHANGED <<air, syns>>

\* The header comes first, the rest of the command in a later iteration.
RecvHeader(h) ==
  /\ Processed(h) /\ h \in readable
  /\ cl[h].state \in {"COMMAND", "CONNECTING1"} /\ cl[h].unread > 0 /\ ~cl[h].part
  /\ cl' = [cl EXCEPT ![h].part = TRUE]
  /\ UNCHANGED <<phase, dev, conns, air, syns>>

\* client_command: a request to connect to the device of some id, announced or not,
\* another command (0; for what Listen brings see DeviceEvents), or one in the wrong
\* state, which ends the client.  (process_recv then still writes to the freed client.)
Commands == {0} \cup Devices
BugRightState(c) == c.state \in {"COMMAND", "CONNECTING1"}
RightState(c) == c.state = "COMMAND"
Executed(w, h, command) ==
  IF ~RightState(cl[h]) THEN ClientClose(Reply(w, h, w.cl[h].run), h)
  ELSE IF command # 0 THEN Connect(w, h, command)
  ELSE Reply(w, h, w.cl[h].run)

RecvCommand(h) ==
  /\ Processed(h) /\ h \in readable
  /\ cl[h].state \in {"COMMAND", "CONNECTING1"} /\ cl[h].unread > 0 /\ cl[h].part
  /\ \E command \in Commands :
       LET read == [World EXCEPT !.cl[h].unread = @ - 1, !.cl[h].part = FALSE, !.cl[h].run = @ + 1]
           w == Executed(read, h, command)
           new == w.conns \ conns
       IN /\ Becomes(w, "clients")
          /\ \A c \in new : ~InAir(c.port, c.dev)
          /\ syns' = syns + Cardinality(new)
  /\ UNCHANGED air

\* process_send: some of what is queued, or all of it, and then a connected client
\* is.  It fails when the application has closed its socket.
AllSent(c) == c.replies = <<>>
Send(h) ==
  /\ Processed(h) /\ h \notin readable /\ cl[h].state \notin {"none", "CONNECTED"}
  /\ \/ /\ \E n \in 1..Len(cl[h].replies) :
             LET c == [cl[h] EXCEPT !.got = @ \o SubSeq(cl[h].replies, 1, n),
                                    !.replies = SubSeq(@, n + 1, Len(@))]
             IN cl' = [cl EXCEPT ![h] = [c EXCEPT !.state =
                         IF AllSent(c) /\ @ = "CONNECTING2" THEN "CONNECTED" ELSE @]]
        /\ UNCHANGED <<phase, dev, conns>>
     \/ cl[h].app = "closed" /\ Becomes(ClientClose(World, h), "clients")
  /\ UNCHANGED <<air, syns>>

\* device_client_process: data for the device, or the end.
Tunnel(h) ==
  /\ Processed(h) /\ cl[h].state = "CONNECTED"
  /\ IF h \in readable /\ cl[h].unread = 0
     THEN \E c \in ConnOf(World, h) : Becomes(Teardown(World, c, TRUE), "clients")
     ELSE /\ cl' = IF h \in readable THEN [cl EXCEPT ![h].unread = @ - 1] ELSE cl
          /\ UNCHANGED <<phase, dev, conns>>
  /\ UNCHANGED <<air, syns>>

ClientProcess(h) ==
  Gone(h) \/ RecvFails(h) \/ RecvHeader(h) \/ RecvCommand(h) \/ Send(h) \/ Tunnel(h)

EndOfIteration ==
  /\ phase = "clients" /\ readable \cup writable = {}
  /\ phase' = "select"
  /\ UNCHANGED <<readable, writable, accepts, cl, dev, conns, air, syns>>

-----------------------------------------------------------------------------
(***************************************************************************)
(* Shutdown.                                                               *)
(***************************************************************************)

\* The shutdown event is seen at the beginning of an iteration, and when the thread
\* has ended device_kill_connections deals with every device that was active.
Killed(w) == FoldSet(LAMBDA d, v : TornDown(v, d, TRUE), w, {d \in Devices : dev[d].state = "active"})
Stop ==
  /\ phase = "select"
  /\ Becomes(Killed(World), "usbShutdown")
  /\ readable' = {} /\ writable' = {}
  /\ UNCHANGED <<accepts, air, syns>>

\* usb_shutdown removes the devices; device_shutdown then destroys their list and
\* its lock.
UsbShutdown ==
  /\ phase = "usbShutdown"
  /\ Becomes(FoldSet(LAMBDA d, v : Removed(v, d), World, There), "clientShutdown")
  /\ air' = [d \in Devices |-> <<>>]
  /\ UNCHANGED <<readable, writable, accepts, syns>>

\* client_shutdown closes the clients that are left.
ClientShutdown ==
  /\ phase = "clientShutdown"
  /\ Becomes(FoldSet(LAMBDA h, v : ClientClose(v, h), World, Present), "done")
  /\ UNCHANGED <<readable, writable, accepts, air, syns>>

-----------------------------------------------------------------------------
(***************************************************************************)
(* Applications and devices.                                               *)
(***************************************************************************)

AppSend(h) ==
  /\ cl[h].app = "open" /\ cl[h].sent < MaxCommands
  /\ cl' = [cl EXCEPT ![h].unread = @ + 1, ![h].sent = @ + 1]
  /\ UNCHANGED <<phase, readable, writable, accepts, dev, conns, air, syns>>

AppClose(h) ==
  /\ cl[h].app = "open"
  /\ cl' = [cl EXCEPT ![h].app = "closed"]
  /\ UNCHANGED <<phase, readable, writable, accepts, dev, conns, air, syns>>

\* The device accepts or refuses a connection, sends data in it or ends it.
DeviceSends(d) ==
  /\ dev[d].state = "active"
  /\ MapThenSumSet(LAMBDA e : Len(air[e]), Devices) < MaxAir
  /\ \E o \in dev[d].open, kind \in {"synack", "ack", "rst"} :
       /\ kind = "synack" => ~o.up
       /\ kind = "ack" => o.up
       /\ air' = [air EXCEPT ![d] = Append(@, [kind |-> kind, port |-> o.port, id |-> o.id])]
       /\ dev' = [dev EXCEPT ![d].open = (@ \ {o}) \cup
                    (IF kind = "rst" THEN {} ELSE {[o EXCEPT !.up = TRUE]})]
  /\ UNCHANGED <<phase, readable, writable, accepts, cl, conns, syns>>

Init ==
  /\ phase = "select" /\ readable = {} /\ writable = {} /\ accepts = 0
  /\ cl = [h \in Handles |-> NoClient]
  /\ dev = [d \in Devices |-> [state |-> "none", next |-> 1, open |-> {}, socket |-> FALSE]]
  /\ conns = {} /\ air = [d \in Devices |-> <<>>] /\ syns = 0

MainLoop ==
  \/ Select \/ Skip \/ EndOfIteration
  \/ \E h \in Handles : Accept(h) \/ ClientProcess(h)
  \/ \E d \in Devices :
       \/ Version(d) \/ UnknownVersion(d) \/ TcpInput(d)
       \/ AddDevice(d) \/ RemoveDevice(d)

Shutdown == Stop \/ UsbShutdown \/ ClientShutdown

\* Each where the main loop could first notice it.
Outside ==
  \/ phase = "clients" /\ \E h \in Handles : AppSend(h) \/ AppClose(h)
  \/ phase = "device" /\ \E d \in Devices : DeviceSends(d)

Next == MainLoop \/ Shutdown \/ Outside

Spec == Init /\ [][Next]_vars

HandleSymmetry == Permutations(Handles)

-----------------------------------------------------------------------------
(***************************************************************************)
(* Properties.                                                             *)
(***************************************************************************)

Linked == {"CONNECTING1", "CONNECTING2", "CONNECTED"}

\* Every variable keeps its type.
TypeOK ==
  /\ phase \in {"select", "accept", "device", "usb", "clients", "usbShutdown",
                 "clientShutdown", "done", "undefined"}
  /\ readable \subseteq Handles /\ writable \subseteq Handles /\ accepts \in 0..MaxAccepts
  /\ cl \in [Handles -> [state : Linked \cup {"none", "COMMAND"},
                         unread : 0..MaxCommands, part : BOOLEAN,
                         app : {"none", "open", "closed"}, sent : 0..MaxCommands,
                         run : 0..MaxCommands, replies : Seq(1..MaxCommands),
                         got : Seq(1..MaxCommands), tag : 0..MaxCommands,
                         device : Devices \cup {0}, seen : BOOLEAN]]
  /\ \A d \in Devices :
       /\ dev[d].state \in {"none", "init", "active", "gone"} /\ dev[d].next \in 0..PortMod - 1
       /\ \A o \in dev[d].open : o.port \in 1..PortMod - 1 /\ o.id \in 1..syns
  /\ \A c \in conns :
       /\ c.dev \in Devices /\ c.port \in 1..PortMod - 1 /\ c.h \in Handles
       /\ c.id \in 1..syns /\ c.state \in {"CONNECTING", "CONNECTED"}
  /\ syns \in 0..MaxAccepts * MaxCommands

\* Every command that was run has one reply, in the order of the commands, the reply
\* of a connect request not before the device has answered; and a client whose
\* data is tunnelled has been sent all of them (client.cpp 329-350, 860-941).
RepliesInOrder ==
  \A h \in Present :
    LET c == cl[h]
        due == IF c.state = "CONNECTING1" THEN c.run - 1 ELSE c.run
    IN /\ c.got \o c.replies = [i \in 1..due |-> i]
       /\ c.state = "CONNECTED" => c.replies = <<>>

\* A connection belongs to one client, which knows its device and is in the same
\* state, a connecting or connected client has one connection, on a device that is
\* there, and no two connections of a device share a port: whatever client,
\* device or removal comes first, neither is left without the other
\* (client.cpp:223-240 against device.cpp:316-358 and 1042-1088).
ConnectionsMatchClients ==
  phase # "undefined" =>
    /\ \A c \in conns :
         /\ dev[c.dev].state = "active" /\ cl[c.h].device = c.dev
         /\ cl[c.h].state \in IF c.state = "CONNECTING" THEN {"CONNECTING1"}
                              ELSE {"CONNECTING2", "CONNECTED"}
         /\ \A k \in conns : k.dev = c.dev /\ k.port = c.port => k = c
    /\ \A h \in Handles : cl[h].state \in Linked => Cardinality(ConnOf(World, h)) = 1

\* What comes from outside reaches whom it was meant for: a packet the connection
\* it was sent in, also when its port was used before, and an event of select()
\* the client it was seen at, although the handle of a socket that is closed is
\* given to the next one (device.cpp:255-273 and 819-826, usbmuxd.cpp:428-473).
NothingMisdirected ==
  /\ \A c \in conns : c.heard \subseteq {c.id}
  /\ \A h \in (readable \cup writable) \cap Present : cl[h].seen

\* The shutdown ends every connection before the device list and its lock are
\* destroyed: client_close would look for the connection of a connecting client
\* there (usbmuxd.cpp:145-148, device.cpp:1219-1249, client.cpp:1122-1133).
ShutdownLeavesNoConnection ==
  phase \in {"clientShutdown", "done"} =>
    conns = {} /\ \A h \in Handles : cl[h].state \notin Linked
=============================================================================
