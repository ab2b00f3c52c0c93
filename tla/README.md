# A TLA+ model of usbmuxd with a plugable USB stack

This directory specifies `usbmuxd-plugable-usb-msvc`, the Windows build of the
usbmux daemon, as TLA+ modules. TLC checks them on small instances, TLAPS proves
what is listed under *What is proved*. Paths and lines are relative to `src/`.

## The system

The daemon tunnels TCP connections of local clients over USB to iOS devices, and
tells clients that listen which devices are there.

| Part | State | Operations | Interacts with | Correct means |
|---|---|---|---|---|
| Main loop (`usbmuxd.cpp` 345-483) | the descriptor sets of one iteration | `select`, then device sockets, `usb_process`, clients; on a timeout `usb_process` and `device_check_timeouts` | everything runs on this thread except what is listed below | acting on descriptor sets that are stale by then does no harm; nothing that is due waits for ever |
| Clients (`client.cpp`) | `client_list`: state, buffers, `events`/`devents` | accept, commands, reply, close, events for listeners | connections (both ways), device list, configuration, pending USB commands | a client is answered, is freed once, and its mask is that of its connection |
| Connections (`device.cpp` 102-120, 257-358, 497-708, 805-883) | sequence numbers, windows, `ib_buf`, state, mask | connect, input, client data, acknowledgement, teardown | client (both ways), USB send | bytes arrive once and in order, no buffer overflows, no window stays closed |
| Device list (`device.cpp` 1003-1315) | `device_list`: state, visibility | add, version packet, remove, set visible, list | USB layer, preflight workers, clients | listeners know exactly the visible devices |
| Packet reassembly (`device.cpp` 893-999) | `pktbuf`, `pktlen` | split and combined transfers | connections, version and control packets | every packet is handled once with its own payload |
| Preflight worker (`preflight.cpp`), a thread per device | the pairing record `cbdata`, shared with `np_callback` | pairing, trust dialogue, announcing the device | device list, clients, monitoring commands | ends; uses nothing that is gone; announces a device that is there |
| USB port layer (`usb-mce.cpp`) | ports, monitor states, pending commands | add, remove, monitor, port notifications | device list; any thread queues commands | a command is completed once; what was opened is closed |
| USB transfer threads (`usb-mce.cpp` 845-1186) | a read thread per port, a write thread and its buffer pool in turbo mode | read and hand over; send | main loop through a socket pair | one transfer at a time, in order; threads end with the port |
| Configuration (`conf.cpp`) | pair records, BUID in files | read, set, remove | clients, preflight | a crash loses no record; one BUID |
| Start and shutdown (`usbmuxd.cpp` 30-163, `usbmuxdMain.cpp`) | threads and events of the daemon | start, stop | all | threads end before their state is freed |
| Host process (`usbmuxdHost/`) | single-instance mutex, keep-alive | start, keep alive, exit | the daemon's API | one host; it ends when nobody needs it |

Two recursive locks matter to more than one thread: `device_list_mutex` and
`client_list_mutex`. The queue of pending USB commands has a lock of its own.

The hard behaviours are the interleavings of the preflight workers with the main
thread, handlers that act on descriptor sets read earlier, teardown that starts
on either side, windows and sequence numbers at their limits, threads that are
killed on a timeout, and steps that fail half-way. `PROJECT.json` lists them
under `hazards`, each at its line.

## Modules

| Module | What it is |
|---|---|
| `MuxConnection` | one tunnelled connection with its client, the main loop, the packets under way, and both ends |
| `BytePipe` | what a connection promises: two bounded pipes of bytes |
| `MCMuxConnection` | the refinement mapping to `BytePipe` |
| `MuxConnectionProofs` | theorems about `MuxConnection`: types, states, flags, windows, packets and streams |
| `MuxPipeProofs` | `MuxConnection` implements `BytePipe` |
| `DeviceEvents` | the device list, the preflight workers and what listeners are sent |
| `DeviceEventsProofs` | theorems about `DeviceEvents` |
| `UsbPort` | the USB ports: pending commands, monitor states, adding and removing devices |
| `UsbPortProofs` | theorems about `UsbPort` |
| `UsbTransfer` | the read and write threads of a USB device, and their side of the main loop |
| `ReadSlot` | what the read transfers promise: a buffer for one transfer |
| `UsbTransferProofs` | theorems about `UsbTransfer`, and that it implements `ReadSlot` |
| `DataInput` | the packets of a device in its transfers, and `device_data_input` with its caller's loop |
| `DataInputProofs` | theorems about `DataInput` |
| `MuxClients` | several clients and their connections to several devices, up to the shutdown |
| `MuxClientsProofs` | theorems about `MuxClients` |
| `Preflight` | the preflight worker, `np_callback`, the main thread and the pair record |
| `PreflightProofs` | theorems about `Preflight` |

Definitions named `Bug...` are faulty variants of the definition that follows
them. No specification uses them; they show that the properties can fail.

The modules meet where one component is the environment of another.
`MuxConnection` has one connection with its data, `MuxClients` all connections
without it. `MuxClients` and `DeviceEvents` share the client's states and
`device_list`: the first has what a removal does to connections, the second what
listeners are told. `UsbPort` has the devices that come and go in a port, and
`UsbTransfer` the threads that run while one is there. `Preflight` has what a
worker does, `DeviceEvents` what others see of it, `UsbPort` its monitor commands.
`DataInput` is what happens to the bytes of a transfer that `UsbTransfer` calls
handled: that transfers come one at a time, and are handled once each and in order,
is what it assumes and what `ReadSpec` shows.

### MuxConnection

`conn` is `struct mux_connection`, `client` is `struct mux_client`, `loop` is the
position of the main loop with the descriptors `select` reported, `h2d` and `d2h`
are the packets under way. `sock` (the client's socket and the application) and
`dev` (the device's TCP end) are external: they do whatever a peer may do that
keeps to the windows it is given.

One action is one handler, from the event to its end:

- `Select`, `SelectTimeout`: `MainThreadProc` 410-425, `device_check_timeouts`;
- `DeviceInput` and its five cases: `device_tcp_input` with
  `connection_device_input`, `send_tcp_ack`, `update_connection`, the
  notification of the client and teardown;
- `RecvConnect`, `RecvFails`, `SendReply`, `SendReplyFails`: `process_recv` with
  `client_command` and `device_start_connect`, `process_send`;
- `ProcessConnected`, `WriteFails`, `ReadFails`: `device_client_process`;
- `Teardown` and `ClientClose` are the two ways in which `connection_teardown` and
  `client_close` call each other.

Bytes are counted and not stored. Sequence numbers have a width (`SeqSpace` for
2^32) and wrap. A window is rounded as `th_win` rounds it (`WinUnit` for 2^8).
`conn.flags` is the Boolean `ack_pending`. The time of the last acknowledgement is
left out: a timeout may come whenever `select` has nothing to report. `FlagsFresh`
shows that the acknowledgement branch of `device_check_timeouts` never has
anything to do, because every handler acknowledges at once.

Abstractions: one device and one connection, so no source ports; a USB transfer
holds one packet; the connect request and its reply are read and written whole;
USB sends succeed; the device is not removed.

### DeviceEvents

`dev` is `state` and `visible` of `struct mux_device`, `worker` the position of
each preflight thread, `client` the state of each client, `main` whether the main
thread is inside a command (and so holds the client list), `view` the last event
about each device that each client was sent. Clients speak the plist protocol:
those of the binary one get no pairing events. Device ids are not used twice
(`next_device_id`).

A critical section under one lock is one action. Where one lock is taken inside
the other there are two: `ListenCommand` and `StartListen` (client list, then
device list in `device_get_list`), `BeginPairingEvent` and `EndPairingEvent`
(device list, then client list). `MonitorCommand` .. `MonitorDone` is the command
that runs `usb_process` with the client list locked, so that devices come and go
inside of it. `SetVisible` and `Announce` are the two halves of
`client_device_add`, between which no lock is held.

`device_get_list` copies `device_list` under the lock and then walks the list itself
without it (`device.cpp` 1149-1154). Devices come and go on the same thread, so only
the flag of a device can change under the walk, once, and it is read once:
`StartListen` is the step in which it is read.

Not included: the branch for an unknown protocol version (`MuxClients` has it),
`device_add_failed`, sends to a client that fail (a client may close at any time instead).

### UsbPort

`entry` holds, for each port, its `struct usb_device`: whether it is in
`g_device_list` (`listed`), whether its port is open (`IS_VALID_DEVICE`), its
monitor and its state. `muxed` are the ports whose device is in `device_list`,
`reading` those with a read thread. `pending` is `g_pending_devices`, `notified`
says that `g_port_notification_callback_cookie` is set. `plugged` is external: a
device that can be served, one that opens but fails later, one of a foreign
vendor, or none. Each command carries who queued it (`by`), for the properties
only.

`UsbProcess` is one command of `usb_process`, `UsbUpdateMonitoredDevices` the refresh
of the notifications after it; `main` says which of them is next. In between, a
device may be plugged in or unplugged, and nobody is told if nothing was registered
yet. The registration may fail; it is tried again after the next command. `missed`
are the monitored ports at which something was plugged in or unplugged untold, for
the property only. `usb_process` holds the lock of the queue over all its commands; here
somebody may append between two of them, which leads to the same states as
appending after the last, since commands are taken in order and read nothing else
that those who append write. Every exit of `usb_add_pending_device` is a case of
`UsbAddPendingDevice`: the port is taken, cannot be opened, is foreign, fails, or
serves. What the exits do to a port is an entry handed to `Become`, through
`Disconnected` (`usb_disconnect`) where they go to `lblCleanup`.

`WorkerAsks` and `WorkerCancels` are the commands of the preflight thread, which
may outlive its device; one worker per port at a time.

Not included: completion events and waiting for them (a wait has a limit, so nobody
blocks for ever here), `device_ready_event`, the event "already exists", the failure
of `CreateEvent` and of killing a thread in `usb_disconnect`, counts of plugin
handles, `usb_shutdown`.

### UsbTransfer

One `usb_device` whose port is opened up to `MaxConnects` times. `reader` is
`usb_read_thread_proc`, `rx` its transfer, event, `data_size` and the number of
the data in `rx.buffer`; `sock` are the socket pairs, each with the bytes under way
in both directions, and `backlog` those not accepted yet. `main` is the main loop in
`device_accept_socket`, `device_process_sockets` and `usb_disconnect`. `writer` is
`usb_write_thread_proc`, `tx` its queue, its pool with the semaphore, its stop event
and the transfers under way.

One action is what a thread does between two points where it can wait or where it
reads what another thread writes: `StartRead`, `ReaderWakes`, `ReaderAnswered`;
`ReadResult`, `Handle`; `WriterTakes` to `WriterDrains`; `Disconnect`, `JoinReader`,
`StopWriter`, `WakeWriter`, `JoinWriter`, `Close`. Between `StopWriter`, which
signals the write thread's event, and `WakeWriter`, which queues the element that
wakes it up, the thread may see the event after an element it already had, empty the
queue and end: the stop element is then left for the next write thread. A wait with
a timeout that ends by killing the thread is `JoinReader` with `Blocked`; one that
gives up is `JoinWriter` with `late`. `Enqueued` is what the vendored queue may hold after two threads enqueued at once:
both elements, or one, with `SetBack`.

Abstractions: a send that fails ends the process, so it is no step; the zero-length
packet is another send; `turbo` does not change while the program runs; after a
wait for the write thread timed out the port is not opened again (its queue would
have two consumers). Of the pool race only one order is there, the other is its
mirror image. `Room` says that a new socket pair always finds a place; without it
the read thread may be refused, and what it read is not handled. The mutex around
waiting for a transfer's result is one for all devices
(`g_hTransferresultMutex`), so one device that hangs stops the write threads of
all: with one device this is `JoinWriter`'s second case.

`ReadSpec` is the specification of `ReadSlot` under the mapping in `UsbTransfer`: the
buffer is full (`Brought`) from the completion of a transfer until its thread is
answered. It implies `HandledOnceInOrder`, which is proved but not checked apart,
and says besides that no transfer is skipped while the device is connected. One
that completes after the device was removed is dropped by the program, and by the
abstract specification.

### DataInput

The bytes of a device are numbered, and a buffer is an interval of them: bytes
`from` to `to - 1` are what is left of the transfer at hand, and `pktbuf` holds the
`pktlen` bytes before them. The payload of a packet is where it ends (`upto` in
`given`), since it always begins after the packet's own headers.

The device puts packets into transfers (`PutWhole`, `PutFirst`, `PutNext`): a whole
packet, several whole ones, or one longer than `USB_MRU` in parts, as the code
expects of it. `Deliver` is the end of a transfer. `DeviceDataInput` is one call of
`device_data_input`, with every exit, and `Processed` the caller's loop around it
(`device.cpp` 446-449). `DeviceAdd` is a device that is unplugged, maybe in the
middle of a packet, and comes back: a new `mux_device` has `pktlen` 0.

The length that the code takes for a packet's payload is that of what is left of
the buffer (984), so only the last packet of a transfer has its own (`PayloadsOwn`
is violated); `Reassembled` says what holds. A transfer may also hold the end of a
cut packet and another packet after it (`Mixed`). The program loses that packet
(`NoneLost` is violated), or goes on in the middle of it, which depends on what its
bytes say: no packet is begun in the model after such a transfer, and `Reassembled`
claims nothing of it. A header of length 0 would make the caller's loop endless;
devices send none.

### MuxClients

`cl` holds, for each socket handle, `struct mux_client` and its application: state,
commands not read yet, whether a header has been read (`part`), replies queued and
replies got, by the number of their command. `conns` are the `mux_connection`s of
all devices, each with its port, its client, and a number (`id`) that the code does
not have and that says which packets were sent in it. `dev` holds `struct
mux_device` and what the device itself thinks is open. `readable` and `writable`
are the stale sets of `select`.

`phase` goes through an iteration of `MainThreadProc` in its order (`After`), or
through the shutdown: `Stop` is `device_kill_connections` after the main thread has
ended, then `UsbShutdown`, `ClientShutdown`. `phase = "undefined"` follows a client
that is freed twice (`mux_client_freed` has it in detail) and the two cases named
below, and has no further step.

A handler changes several records: it is an operator from a `World` (`cl`, `dev`,
`conns`) to another, as `Teardown`, `ClientClose` and `Connect` call each other.

Abstractions: applications act while clients are processed and devices while
packets are, since nothing looks at them before; the tag and the device of a client
whose connect request was refused are reset, which no code reads; packets for an
earlier connection of a port are no longer under way when the port is given again,
as 65535 connections came in between (`InAir`; with `PortMod` = 3 this is what keeps
a small instance honest). Devices that never became active have an uninitialised
list of connections. `device_remove` asks for `MUXDEV_ACTIVE` before it walks the list
(`device.cpp` 1048); `device_shutdown` (1238) does not, and here finds it empty.
`device_start_connect` only asks whether the device exists (497-503): a request to
connect to one whose version is not known yet reads that list, and the program ends
as undefined. So it does in `UnknownVersion`, where `device_version_input` frees a
device that its callers go on using (735-746). `Commands` lets an application ask for
any id, announced or not.

### Preflight

`worker` is the position of `preflight_worker_handle_device_add` for each device id,
with the host id it has read, whether it thinks the device is paired, the
attempts left and whether it still has a lockdown client. `cb` is the `struct
cb_data` on its stack, `note` the thread that runs `np_callback`. `list` is what
`struct mux_device` has of it, `main` the main thread, which starts workers,
removes devices and serves requests to save and to delete the pair record, `file`
that record. `phone` is external: the iOS version, what its user answers, whether
it accepted a pairing. `faults` bounds the calls that fail although the device is
there, and the records other clients save or delete.

The main loop holds `device_list_mutex` while it starts a worker and sets its flag
(`LockFree`). Saving a record is three steps (`TakeRequest`, `Open`, `Write`), so a
worker can read it in between, and `Init` takes every content of the file, which
includes what a process that crashed in between has left. `lockdownd_pair` waits
until the record it makes is saved by the main thread (`Saved`).

`gaveUp` says that the worker went to its end because a call failed; it is there for
the property only. Abstractions: without a local configuration file; the host id of
the local configuration is not a fallback; writing a file succeeds; what is sent to
listeners on the way (trust pending, denied, locked) is in `DeviceEvents`; waiting
for the answer to a monitor command, which has a limit; the BUID. A worker that
lost its lockdown client and could not make another while the device stays goes on
without one for ever (`preflight.cpp` 428-437): the model only has the case in which
making it fails because the device is gone.

## Runs

| Run | Question | Bounds |
|---|---|---|
| `mux_safety` | do windows, streams, flags and states stay consistent? | buffer of 3 with windows in units of 2, so rounding matters; 5 sequence numbers, so they wrap several times; packets of 1 and 2 |
| `mux_pipe` | is it a pair of bounded pipes; does everything that is due happen? | buffer of 2 filled by one packet, so that the window closes each time |
| `mux_client_freed` | is a client freed once? No: a finding | no data |
| `events_safety` | do listeners learn exactly what is there, and in the end all of it? | two devices, two clients, pairing events |
| `events_locks` | does a pairing event end? No: a finding | one device, one client |
| `usb_ports` | is a port always in order, monitored as asked, and told of in full? | one port, four pending commands |
| `usb_monitor_lost` | do only users end what users asked for? No: a finding | one port, three pending commands |
| `transfer` | do the threads of a device hand over every transfer once, as through a buffer for one, and end when told? | a port opened three times, two read transfers, two send buffers, with `Room` |
| `data_input` | is each packet put together and handed on once? | three packets of up to six bytes, transfers of two |
| `combined_payloads` | has each packet its own payload? No: a finding | two packets |
| `clients` | do clients and connections stay together, and replies in order? | two handles used by three applications with two commands each, two devices one after the other, three port numbers, one packet under way, five descriptors |
| `pairing` | is the worker's shared record safe; does it end; does it announce? | one device of each kind of version, two faults, one new lockdown client |

Six more configurations belong to the models. TLC finds no error under the first and
the violation of one property under each of the others; what they show is among the
findings below.

| Configuration | Module | Property | Bounds |
|---|---|---|---|
| `UsbStops.cfg` | `UsbTransfer` | `TypeOK`, `ElementsOwnedOnce`, `StopsReachTheirThread` hold | as `transfer`, without `Room` |
| `DeviceEventsGhost.cfg` | `DeviceEvents` | `AttachedIsVisible` | one device, one client |
| `UsbArrivalMissed.cfg` | `UsbPort` | `NoArrivalMissed` | one port, four pending commands |
| `UsbPool.cfg` | `UsbTransfer` | `DequeueSucceeds` | one connect, two buffers |
| `UsbReadFailed.cfg` | `UsbTransfer` | `ToldIsAnswered` | one connect |
| `DataInputLost.cfg` | `DataInput` | `NoneLost` | two packets, transfers of three |

`ChanBound` is the only artificial bound: the number of packets in a direction
before its sender pauses. The host pauses before `select`, never inside a handler.
One packet under way in each direction, with another that a handler adds, lets
acknowledgements, data and teardown cross. Buffers of two or three bytes are
enough to have a full, a partly filled and an empty one, and the theorems about
`MuxConnection` hold for every size. Two devices and two clients give every
pairwise interleaving of the workers; the theorems about `DeviceEvents` hold for
any number. Ports share nothing but the order of the queue and `notified`, so
`UsbPort` runs with one; with four pending commands a removal, an arrival and two
commands of others can wait together. `MaxPending` is a bound of the model (the
list of the code grows): who would append waits. The theorems about `UsbPort` hold
for any number of ports and any bound, those about `UsbTransfer` for any number of
connects, transfers and elements of the pool.

Three connects let a socket pair left over from the first meet the second, and a
stop event or element meet the third; two elements are the fewest with which the
pool can be neither empty nor full. Two applications at a time and a third give a handle that is
used again in every position; a device that is replaced gives a client that asks
for one that is gone; of three port numbers one is not used (0), so two
connections fill a device and a third is refused. Five descriptors are two
listening sockets, a device and two clients, so the bound is met exactly. Three
packets are one that was cut short, one that is cut into two or three transfers and
one after it, or two in a transfer before or after a third; the theorems about
`DataInput` hold for any number and any lengths. The records of two workers are apart, they meet only in the pair record; `Init` and
`OtherClient` do to it all that an older worker could, so one device id is enough
(`CbDataAlive` and `FlagMatchesWorker` were also checked with two).

Runs without the deadlock check are those of systems that really may stop:
`DeviceEvents` when every device has come and gone, or by its two locks
(`events_locks`), `UsbTransfer` when its bounds are used up or behaviour is
undefined, `MuxClients` after the shutdown or when behaviour is undefined, `Preflight` when the worker has ended
and the bounds are used up.

Fairness. In `MuxConnection` the main loop, the device's TCP and an application
that reads keep running; nobody has to write, to send or to close, and `select`
returns whatever is ready. In `DeviceEvents` the threads keep running and a lock
is not handed past a waiting thread for ever; a preflight either announces its
device or ends, since every wait in it has a limit; `VisibleIsAnnounced` allows
for a thread that the two locks have stopped. In `Preflight` the worker, the
notification thread and a main thread inside a command keep running. Strongly fair
are the main thread's service of a request to save and its noticing of a device of
iOS 7 that reconnects after pairing: it is between commands again and again, and
each iteration serves every client that has sent something. Users need not answer,
devices need not go, and notifications may be lost. `UsbTransfer` and `MuxClients`
state no fairness: their properties are about what must not happen, and lost
wake-ups are the invariants `HandshakeAlive` and `ToldIsAnswered`.

## What the checks found

- **A client is freed twice** (`mux_client_freed`, `client.cpp` 226-239). In
  `CONNECTING2` the connection is already `CONN_CONNECTED`, so `client_close` ->
  `device_abort_connect` -> `connection_teardown` -> `client_close` frees the
  client, and the outer call frees it again. `CONN_DEAD` (`device.cpp` 79) only
  stops the recursion that starts on the device's side.
- **A removed device is announced** (`DeviceEventsGhost.cfg`, `client.cpp` 1036-1049).
  `device_set_visible` does not say that it found no device.
- **Two locks in two orders** (`events_locks`, `client.cpp` 1064-1090 against
  995-1034 with `device_get_list`).

- **A user's monitoring is ended by the preflight thread** (`usb_monitor_lost`,
  `usb-mce.cpp` 1288-1298). "Monitor once" is ignored on a port that is always
  monitored, so that the setting is kept, but the cancellation the same thread
  sends afterwards (`preflight.cpp` 356, 424, 471) is not. From iOS 8 on it cancels
  although it never asked.

- **The pool of send buffers has two producers** (`UsbPool.cfg`,
  `usb-mce.cpp` 445-451, called at 1064 by the write thread and by `usb_send` on
  the main thread). The vendored queue allows one (`readerwriterqueue.h` 28-30): a
  slot is overwritten, the semaphore counts two, and `usb_send` later uses an
  element it never got.

- **A device that comes too early is waited for** (`UsbArrivalMissed.cfg`,
  `usb-mce.cpp` 1424 and 1209). A monitored port that could not be opened waits for a
  notification, and the callback is registered only after the command. A device that
  comes in between is told to nobody, and the port is not opened again.
  `ToldArrivalComes` is what holds: nothing the plugin did tell is lost.

- **A failed read leaves its thread waiting** (`UsbReadFailed.cfg`, `device.cpp`
  451-455). The main loop takes the byte and does not answer, and the removal that a
  failing port should queue is commented out. `HandshakeAlive` is what holds: of
  transfers that brought data no wake-up is lost.

- **A packet gets the next one as payload** (`combined_payloads`, `device.cpp` 974 and
  984). The payload's length is that of what is left of the transfer.

- **A packet after a gathered one is lost** (`DataInputLost.cfg`, `device.cpp` 994-996 with
  446-449). The length returned counts what `pktbuf` held before the transfer, and the
  caller skips as much of the transfer.

Other defects read in the code while modelling are listed as hazards, some with a
note why no property covers them.

## What is proved

Assumptions: those named in `MuxConnection` (`BufferAssumption`,
`WindowAssumption`, `EnvironmentAssumption`), `DeviceEvents` (`EventsAssumption`),
`UsbPort` (`PortsAssumption`), `UsbTransfer` (`TransferAssumption`), `MuxClients`
(`ClientsAssumption`), `Preflight` (`PreflightAssumption`) and `DataInput`
(`InputAssumption`). They ask that a buffer
is smaller than the sequence space, that a window unit is at most a packet and a
packet at most the buffer, that the queue of commands has a bound above zero, that
the handles of sockets are finitely many and the port numbers more than two, that
a transfer holds something and `DEV_MRU` is no smaller than `USB_MRU`, and nothing
else of the numbers of devices, clients, ports, packets, transfers or bytes.

*MuxConnection.* `LocalInv` is inductive: types, `StatesAgree`, `FlagsFresh`,
`tx_win + ib_size = InBufSize` (also before the connection is up, since a handler
that opens it relies on it), and that the loop enters the device's half only for a
packet. `StatesAgree` alone is not inductive: which reply leaves depends on the
client's state, and `FlagsFresh` needs the type of the window. From it follow
`TypeOK`, `WindowIsFreeSpace`, `StatesAgree` and `FlagsFresh` as theorems of the
specification. The proof has one lemma per handler.

`IInv` is inductive for the data: `LocalInv`,
`HandshakeInv` (which packets may be under way before both ends are up), and
`UpInv` and `DownInv`, one for each direction. Both are the same `Flow`: the
sequence numbers of the receiver, of the packets under way and of the sender follow
one another, each packet starts where the one before it ended, an acknowledgement
is a number the receiver has been at, in order, and the last window promised, from
where it was promised, is the edge up to which the sender may go. All of them lie
within one buffer of each other, which is less than the sequence space, so that
differences modulo `SeqSpace` are true distances: this is what `BufferAssumption`
is for. The laws of a flow (send, receive, acknowledge, promise a window) are
lemmas proved once and used for both directions. From it follow
`NoInputOverflow`, `DeviceNotOverrun` and `StreamsInOrder`.

`PipeCorrect` (`MuxPipeProofs`) says that `Spec` implements the specification of
`BytePipe` under the mapping in `MCMuxConnection`. `PipeInv`
adds to `IInv` that no data is sent after the reset of a teardown, nor to a device
that does not know the connection (`SilentInv`), and that an application is told it
is connected only while it is (`ReplyInv`). What is under way is a sum over the packets of a sequence. That
a packet in front or behind adds its payload is a fact about a recursive function;
it is proved by the well-foundedness of inclusion among finite sets, since the
induction theorems of the library take an operator as a parameter, which no prover
here can instantiate.

*DeviceEvents.* `EventsInv` is inductive: a device is visible only once its worker
has got to the announcement, a device without a version packet has no worker, and
clients know nothing of ids not used yet. Without the first the removal of a
device could not be told from one during the add, without the second a pairing
event could reach a visible device and hide that it is attached. From it follow
`NoDeviceMissed` and `NotAttachedEarly`, and the action properties
`PairingEventsOfPresentDevices` and `AttachedIsDetached`.

*UsbPort.* `PortInv` is inductive for any set of ports; its only assumption is
`PortsAssumption`, that the queue has a bound above zero. `DeviceHasPort` says that
no exit of `usb_add_pending_device` leaves a device or a read thread without its
port, `WaitingIsMonitored` that no entry waits unseen. `ToldArrivalComes` needs
more: that a departure still pending is followed by the arrival of what is in the
port now (`DepartedReturned`), or handling it would lose the device; that a port
left open after a failure has a departure to come once its device has changed
(`StaleIsRemoved`), or the arrival would be refused as "already exists".
`ToldArrivalComes` and `StaleIsRemoved` leave out the ports at which something
happened untold (`missed`); the plugin queues nothing before it was registered. From
it follow `DeviceHasPort`,
`WaitingIsMonitored`, `ToldArrivalComes` and the action property
`MonitoringSurvives`. Nothing assumes that a registration succeeds. The proof has a
lemma per command and lemmas on appending to and taking from the queue.

*UsbTransfer.* The invariant (`TransferInv`) is built in layers, each inductive relative to those
below:

- `PortInv`: the state of the port, its read thread and the two sides of the socket
  pair go together, and a thread that is left over belongs to a connect that is
  over.
- `WriteInv`: every element of the pool is in one place, the free or the full queue
  or the hands of one thread, and the semaphores count what the queues hold. Hence
  `ElementsOwnedOnce`.
- `BytesInv`: the bytes in the two sockets are those of a thread that waits, or the
  stop of a thread that is told to end. Hence `TypeOK`.
- `AcceptInv`: the main loop accepts the pair of the thread that runs (`BacklogInv`,
  `LoopInv`); pairs left over come first in the backlog.
- `ReadInv`: `HandshakeInv` says that of the read thread and the main loop one always
  has the turn, by a byte or by where it is; `DataInv` that the transfer at hand is
  the one the thread has not gone past.

From the last two follow `HandledOnceInOrder`, `HandlesOwnTransfer` and
`HandshakeAlive`, and with `PendingInv` (a transfer under way has an open port and a
thread that waits for it) the refinement `ReadSpec`: each step of a thread is one
step of `ReadSlot`, or none. These four have the hypothesis `Room`, `TRUE` in the run
`transfer` too: an iteration of the main loop has place for the descriptor of the
pair it accepts. Without it a pair is refused (`usbmuxd.cpp` 452): the read thread
ends, and what it read is not handled. The first three layers need no such
hypothesis, and neither does `StopsReachTheirThread`, which follows from them and
`EndsInv`: while the device is connected its read thread ends because its transfer
failed or its pair was refused. A write thread ends by its event only, and that is
reset for each connect, so a stop element that was left over does nothing.

*Preflight.* `PreflightInv` is inductive for any number of ids, versions, attempts
and faults; `PreflightAssumption` only types the constants. `WaitInv` says that
`cb_data` lives exactly while the worker is inside its block, and that neither a
notification thread nor the pointer in `mux_device` is left when it reaches the end
of it. `CbDataAlive` alone is not inductive: it does not say where the worker is.
`FlagInv` says that while the main thread is between starting a worker and setting
its flag the device is there and the worker has not ended, which the lock that
`device_preflight_finished` takes ensures. From them follow `CbDataAlive` and
`FlagMatchesWorker`. The proof has one lemma per action.

*MuxClients.* `MuxInv` is inductive for any handles, devices, commands, ports and
packets under way (TLC had checked it on the instance of the run `clients`). It has
five parts:

- `Sound`: clients and connections are `Matched`, which is `ConnectionsMatchClients`
  by its reasons (`Owned`, `Apart`, `Linking`); each client's replies are those of
  the commands it has run (`ClientOK`); what a device thinks is open is a connection
  of the host with the same number (`OpenOK`); a connection has heard only its own
  packets.
- the devices that are there are finitely many, so that the shutdown can go
  through them;
- `Counted`: the commands not yet run (`Left`) bound the connections still to come;
- `AirOK`: a packet under way for a port in use was sent in the connection that has
  it, and a `TH_RST` is the device's last word. `NothingMisdirected` is not inductive
  without it, nor without `OpenOK`: a packet is as right as the state of the device
  that sends it;
- `LoopOK`: what `select` reported was there then, and nobody is accepted between
  that and the first client that goes, so a handle that is used again has no event
  left.

Handlers are operators on a `World`, so each has a lemma that says of any sound
world what it makes of it: `Teardown`, `ClientClose`, `Connect`, `Input`. In between
the handlers of a step a world need not be sound: `GoodBut` is what a command leaves
before its answer is queued. A removal, `device_kill_connections`, `usb_shutdown`
and `client_shutdown` fold such an operator over a finite set. A theorem cannot
take an operator as a parameter, so a fold is first turned into one of a function,
and what it keeps is a set of pairs of the elements that are done and the world so
far (`FoldWorks`); the induction is over the subsets of the set (`SubsetInduction`).
Then every action has a lemma, and from `MuxInv` follow `TypeOK`, `RepliesInOrder`,
`ConnectionsMatchClients`, `NothingMisdirected` and `ShutdownLeavesNoConnection`.

*DataInput.* `InputInv` is inductive for any `USB_MRU` up to `DEV_MRU`, packets of 1
to `DEV_MRU` bytes and any number of them. It has four parts:

- the types, with `pktlen` at most `DEV_MRU`, which needs no assumption on what the
  device sends;
- `Shape`: packets lie one after the other in the bytes of the device, and only one
  that was cut short overlaps the next;
- `Fill`: what the program has before it. Either a packet sent in part, whose parts
  `pktbuf` and the transfer hold (`Parted`; all but the last part fill a transfer,
  and only the last reaches the length in the header, which is how the code tells
  whether more is to come), or packets that fill what is left of a transfer one
  after the other, of which the first may have begun in `pktbuf` (`Tiles`), or
  nothing, and then `pktbuf` is empty;
- `GivenInv`: of the packets that end before that, those that are due were handed
  on, once and in order, which is `Reassembled` in the middle of a transfer.
  It is kept until there is a `Mixed` transfer.

`Reassembled` alone is not inductive: it says nothing while a transfer is being
processed. The proof has a lemma per action of the device and one per exit of
`device_data_input` (`CallKeeps`, `CallParted`, `CallGives`, `CallTiles`).

Only model-checked: liveness, among it `WorkerEnds` and `TrustedIsAnnounced`, which
is out of the prover's reach. Every invariant, every action property and both
refinements (`PipeSpec`, `ReadSpec`) that a passing run checks are theorems.

## Plan

1. Start and the host process, if they get a model: `usbmuxd_Start` undoes its steps
   in the order of its labels, and `usbmuxdHost` keeps one process alive by a mutex
   and an event.
2. What the transfers of a read thread that was refused its socket should come to:
   `UsbTransfer` without `Room` has the thread's end, but no promise about its data.

## Not modelled

- `usbmuxdHost/`: a process that holds a named mutex and waits; it shares no state
  with the multiplexer beyond starting and stopping it. `usbmuxd_Start` likewise
  runs once, before any of the threads modelled here exists.
- A main thread that is killed because it does not stop in time: what it leaves
  locked or half done is any state between two of its instructions.
- Completion events of monitor commands and their timeouts; the plugin's handles.
- What undefined behaviour leads to: a device of an unknown protocol version that is
  freed under its callers, a connection to a device that is not active yet, a client
  freed twice, an element read from nowhere. The models end there.
- The transfers after one with the end of a cut packet and another packet.
- The local configuration file and the BUID; the text of messages, property lists
  and log lines; the COM plugin and USB descriptors (external); the vendored queue
  but for two producers; helpers for strings, sockets and windows.
