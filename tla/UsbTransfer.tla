----------------------------- MODULE UsbTransfer -----------------------------
(***************************************************************************)
(* The transfers of one usb_device whose port is opened and closed again   *)
(* and again: usb-mce.cpp 362-565 and 845-1183 with device.cpp 361-494.    *)
(*                                                                         *)
(* A read thread keeps one transfer under way.  When it completes, the     *)
(* thread sends a byte through a socket to the main loop and waits for one *)
(* in return; the main loop handles rx.buffer in between.  In turbo mode   *)
(* sends do not wait: pending ones go to the queue tx.q, a write thread    *)
(* waits for their results, frees their buffers and returns their          *)
(* OVERLAPPED structures to tx.pool.  The main loop starts and stops the   *)
(* threads while it handles USB commands.                                  *)
(***************************************************************************)
EXTENDS Integers, SequencesExt

CONSTANTS
  MaxConnects,   \* how often the port is opened
  MaxReads,      \* how many read transfers complete
  Room,          \* fd_set always has room for another socket pair
  MaxElements    \* how many usb_device_tx_q_element exist at a time

ASSUME TransferAssumption ==
  /\ MaxConnects \in Nat \ {0} /\ MaxReads \in Nat /\ MaxElements \in Nat
  /\ Room \in BOOLEAN

Connects == 1..MaxConnects
Elements == 1..MaxElements
Pill == 0                      \* the element that wakes the write thread up

VARIABLES
  turbo,     \* port.bTurbo
  main,      \* the main loop: where it is, what select() reported
  dev,       \* the usb_device and its mux_device
  sock,      \* the socket pair of each connect
  backlog,   \* pairs connected and not accepted yet
  reader,    \* the read thread: position and connect it belongs to
  rx,        \* the read transfer, its event, rx.data_size, the data in rx.buffer
  handled,   \* the data device_data_input was given
  writer,    \* the write thread: position and the element it took
  tx,        \* tx.q, tx.pool, writeThreadStop, transfers under way, the rest
  late       \* a wait for the write thread timed out

rvars == <<sock, backlog, reader, rx, handled>>
wvars == <<writer, tx, late>>
vars == <<turbo, main, dev, rvars, wvars>>

-----------------------------------------------------------------------------
(***************************************************************************)
(* The read thread.                                                        *)
(***************************************************************************)

\* The thread's end can be read or fails: there is an answer, or the other end
\* is closed.  A pair in the backlog is open and gives nothing.
PeerClosed(g) == sock[g].main = "closed"

\* A pending transfer has neither its event signalled nor a size.
BugNewRead == [rx EXCEPT !.transfer = "pending", !.event = FALSE]
NewRead == [rx EXCEPT !.transfer = "pending", !.event = FALSE, !.size = FALSE]

\* usb_start_read: the event is reset, and the transfer completes at once, is
\* pending, or fails, which ends the thread.  Nothing tells the main loop then:
\* the removal that usb_handle_port_failure should queue is commented out.
StartRead ==
  /\ reader.at = "starting"
  /\ \/ /\ rx.read < MaxReads
        /\ rx' = [rx EXCEPT !.transfer = "done", !.event = TRUE, !.size = TRUE, !.read = @ + 1]
        /\ reader' = [reader EXCEPT !.at = "waiting"]
     \/ /\ rx' = NewRead
        /\ reader' = [reader EXCEPT !.at = "waiting"]
     \/ /\ rx' = [NewRead EXCEPT !.transfer = "failed"]
        /\ reader' = [reader EXCEPT !.at = "ended"]
  /\ UNCHANGED <<turbo, main, dev, sock, backlog, handled, wvars>>

\* The pending transfer completes, or fails because the device is gone.
ReadCompletes ==
  /\ rx.transfer = "pending"
  /\ \/ rx.read < MaxReads /\ rx' = [rx EXCEPT !.transfer = "done", !.event = TRUE, !.read = @ + 1]
     \/ rx' = [rx EXCEPT !.transfer = "failed", !.event = TRUE]
  /\ UNCHANGED <<turbo, main, dev, sock, backlog, reader, handled, wvars>>

\* Having told the main loop, the thread waits.
Told == "told"

\* The thread wakes up: the stop event is the first of the two it waits for, and
\* both reset themselves.  With data it tells the main loop.
ReaderWakes ==
  /\ reader.at = "waiting"
  /\ LET g == reader.of
     IN IF dev.stop
        THEN /\ reader' = [reader EXCEPT !.at = "ended"]
             /\ dev' = [dev EXCEPT !.stop = FALSE]
             /\ UNCHANGED <<sock, rx>>
        ELSE /\ rx.event
             /\ rx' = [rx EXCEPT !.event = FALSE]
             /\ UNCHANGED dev
             /\ IF PeerClosed(g)
                THEN reader' = [reader EXCEPT !.at = "ended"] /\ UNCHANGED sock
                ELSE /\ reader' = [reader EXCEPT !.at = Told]
                     /\ sock' = [sock EXCEPT ![g].toMain = @ + 1]
  /\ UNCHANGED <<turbo, main, backlog, handled, wvars>>

\* It receives the answer and reads again, or finds the socket closed.
ReaderAnswered ==
  /\ reader.at = "told"
  /\ LET g == reader.of
     IN \/ /\ sock[g].toThread > 0
           /\ sock' = [sock EXCEPT ![g].toThread = @ - 1]
           /\ reader' = [reader EXCEPT !.at = "starting"]
        \/ /\ sock[g].toThread = 0 /\ PeerClosed(g)
           /\ reader' = [reader EXCEPT !.at = "ended"]
           /\ UNCHANGED sock
  /\ UNCHANGED <<turbo, main, dev, backlog, rx, handled, wvars>>

Reader == StartRead \/ ReaderWakes \/ ReaderAnswered

-----------------------------------------------------------------------------
(***************************************************************************)
(* The main loop, as far as it deals with device sockets.                  *)
(***************************************************************************)

Readable(s) == s # 0 /\ (sock[s].toMain > 0 \/ sock[s].thread = "closed")

\* The clients of an iteration are handled, and select() reports the listening
\* socket and the device's socket.
Select ==
  /\ main.at = "usb"
  /\ main' = [main EXCEPT !.at = "accept", !.listen = backlog # <<>>,
                          !.fd = IF Readable(dev.rx) THEN dev.rx ELSE 0]
  /\ UNCHANGED <<turbo, dev, rvars, wvars>>

\* device_process_sockets looks at the socket that the device has by then.
At0(position) == [at |-> position, listen |-> FALSE, fd |-> 0]
BugToSockets(socket) ==
  IF main.fd # 0 THEN [At0("recv") EXCEPT !.fd = main.fd] ELSE At0("usb")
ToSockets(socket) ==
  IF socket # 0 /\ socket = main.fd THEN [At0("recv") EXCEPT !.fd = socket] ELSE At0("usb")

\* device_accept_socket: the id that came first is that of the usb_device, also
\* when the port was closed since.  The pair is closed when the device is gone,
\* or when there is no room for another descriptor.
DeviceAcceptSocket ==
  /\ main.at = "accept"
  /\ IF ~main.listen
     THEN main' = ToSockets(dev.rx) /\ UNCHANGED <<dev, sock, backlog>>
     ELSE LET s == Head(backlog)
          IN /\ backlog' = Tail(backlog)
             /\ \/ /\ dev.here
                   /\ sock' = [sock EXCEPT ![s].main = "open"]
                   /\ dev' = [dev EXCEPT !.rx = s]
                   /\ main' = ToSockets(s)
                \/ /\ ~dev.here \/ ~Room
                   /\ sock' = [sock EXCEPT ![s].main = "closed"]
                   /\ main' = ToSockets(dev.rx)
                   /\ UNCHANGED dev
  /\ UNCHANGED <<turbo, reader, rx, handled, wvars>>

\* device_process_sockets reads the byte and usb_get_read_result.  A socket that
\* was closed and a failed transfer leave the loop without an answer.
ReadResult ==
  /\ main.at = "recv"
  /\ IF sock[main.fd].toMain = 0
     THEN main' = At0("usb") /\ UNCHANGED <<sock, rx>>
     ELSE /\ sock' = [sock EXCEPT ![main.fd].toMain = @ - 1]
          /\ IF rx.size \/ rx.transfer = "done"
             THEN rx' = [rx EXCEPT !.size = TRUE] /\ main' = [main EXCEPT !.at = "handling"]
             ELSE main' = At0("usb") /\ UNCHANGED rx
  /\ UNCHANGED <<turbo, dev, backlog, reader, handled, wvars>>

\* device_data_input has handled what is in rx.buffer; the thread is answered.
BugAnswer(s) == UNCHANGED sock
BugAnswerTwice(s) == sock' = [sock EXCEPT ![s].toThread = @ + 2]
Answer(s) == sock' = [sock EXCEPT ![s].toThread = @ + 1]
Handle ==
  /\ main.at = "handling"
  /\ handled' = Append(handled, rx.read)
  /\ Answer(main.fd)
  /\ main' = At0("usb")
  /\ UNCHANGED <<turbo, dev, backlog, reader, rx, wvars>>

-----------------------------------------------------------------------------
(***************************************************************************)
(* Sending.                                                                *)
(***************************************************************************)

\* GetTXQElement: the oldest of the pool or a new one.
InUse(t) == ToSet(t.q) \cup ToSet(t.pool) \cup {writer.e} \cup t.under
Fresh(t) == CHOOSE e \in Elements : e \notin InUse(t)
CanTake(t) == t.pool # <<>> \/ (t.sema = 0 /\ Elements \ InUse(t) # {})
Taken(t) == IF t.sema = 0 THEN Fresh(t) ELSE Head(t.pool)
Without(t) ==
  IF t.sema = 0 THEN t
  ELSE [t EXCEPT !.pool = Tail(@), !.sema = @ - 1,
                    !.mark = IF writer.at = "pooling" /\ @ >= 0 THEN @ - 1 ELSE @]

\* The semaphore of the pool admits a caller, and nothing is there: the element
\* is read from memory nobody has written.
NothingThere(t) == t.sema > 0 /\ t.pool = <<>>

\* ReUseTXQElement on the main thread: the buffer is freed, the element returned.
Returned(t, e) == [t EXCEPT !.pool = Append(@, e), !.sema = @ + 1]

\* usb_send: the transfer completes at once, is left to the write thread, or,
\* where there never was one, waited for.  One that fails ends the process.
Sent(t) ==
  LET e == Taken(t)
  IN {Returned(Without(t), e)} \cup
     (IF t.thread THEN {[Without(t) EXCEPT !.q = Append(@, e), !.under = @ \cup {e}]} ELSE {})

Send ==
  /\ main.at \in {"handling", "usb"} /\ dev.here
  /\ CanTake(tx)
  /\ tx' \in Sent(tx)
  /\ UNCHANGED <<turbo, main, dev, rvars, writer, late>>

\* What a program does with such an element is not defined.
SendUndefined ==
  /\ main.at \in {"handling", "usb"} /\ dev.here /\ NothingThere(tx)
  /\ main' = At0("undefined")
  /\ UNCHANGED <<turbo, dev, rvars, wvars>>

\* A transfer to the device completes.
SendCompletes(e) ==
  /\ e \in tx.under
  /\ tx' = [tx EXCEPT !.under = @ \ {e}]
  /\ UNCHANGED <<turbo, main, dev, rvars, writer, late>>

\* The write thread: wait_dequeue, the look at the stop event, the wait for the
\* result, ReUseTXQElement in its two halves, and what it does when it stops.
WriterStep(at, e) == writer' = [at |-> at, e |-> e]

WriterTakes ==
  /\ writer.at = "idle" /\ tx.q # <<>>
  /\ WriterStep("taken", Head(tx.q))
  /\ tx' = [tx EXCEPT !.q = Tail(@)]

AfterTake(e) == IF e = Pill THEN "idle" ELSE "result"
WriterChecks ==
  /\ writer.at = "taken"
  /\ IF tx.stop
     THEN WriterStep("drain", Pill) /\ tx' = [tx EXCEPT !.stop = FALSE]
     ELSE WriterStep(AfterTake(writer.e), writer.e) /\ UNCHANGED tx

Pooling(e) ==
  /\ WriterStep("pooling", e)
  /\ tx' = [tx EXCEPT !.mark = Len(tx.pool)]
BugWriterResult == writer.at = "result" /\ Pooling(writer.e)
WriterResult ==
  writer.at = "result" /\ writer.e \notin tx.under /\ Pooling(writer.e)

\* pool.enqueue ends.  The main thread may have returned an element meanwhile: the
\* queue is not made for two producers, and where this thread had read the tail
\* before, it sets it back.  The semaphore counts every element.
SetBack(pool, e) ==
  IF tx.mark >= 0 THEN Append(SubSeq(pool, 1, tx.mark), e) ELSE <<>>
Enqueued(pool, e) ==
  {Append(pool, e)} \cup (IF Len(pool) = tx.mark THEN {} ELSE {SetBack(pool, e)})
WriterReuses ==
  /\ writer.at = "pooling"
  /\ WriterStep("idle", Pill)
  /\ \E pool \in Enqueued(tx.pool, writer.e) :
       tx' = [tx EXCEPT !.pool = pool, !.sema = @ + 1, !.mark = 0]

WriterDrains ==
  /\ writer.at = "drain"
  /\ IF tx.q = <<>> THEN WriterStep("ended", Pill) /\ UNCHANGED tx
     ELSE tx' = [tx EXCEPT !.q = Tail(@)] /\ UNCHANGED writer

Writer ==
  /\ WriterTakes \/ WriterChecks \/ WriterResult \/ WriterReuses \/ WriterDrains
  /\ UNCHANGED <<turbo, main, dev, rvars, late>>

-----------------------------------------------------------------------------
(***************************************************************************)
(* Opening and closing the port.                                           *)
(***************************************************************************)

\* usb_add_pending_device from device_add on: the version packet, the socket
\* pair, the read thread with a stop event that is reset, and in turbo mode a
\* write thread with a stop event of its own.  (What follows a wait that timed out
\* is left out: the next write thread would share the queue with the late one.)
ThreadStop == FALSE
Connect ==
  /\ main.at = "usb" /\ ~dev.open /\ ~dev.freed /\ ~late /\ dev.connect < MaxConnects
  /\ LET g == dev.connect + 1
     IN /\ dev' = [dev EXCEPT !.connect = g, !.open = TRUE, !.here = TRUE, !.reads = TRUE,
                              !.stop = ThreadStop]
        /\ sock' = [sock EXCEPT ![g].thread = "open", ![g].main = "backlog"]
        /\ backlog' = Append(backlog, g)
        /\ reader' = [at |-> "starting", of |-> g]
        /\ writer' = IF turbo THEN [at |-> "idle", e |-> Pill] ELSE writer
        /\ CanTake(tx)
        /\ \E t \in Sent(tx) :
             tx' = IF turbo THEN [t EXCEPT !.thread = TRUE, !.stop = FALSE] ELSE t
  /\ UNCHANGED <<turbo, main, rx, handled, late>>

\* device_remove and the beginning of usb_disconnect, for a removal by hand or
\* one after which the port is monitored.
Disconnect ==
  /\ main.at = "usb" /\ dev.open
  /\ dev' = [dev EXCEPT !.here = FALSE, !.rx = 0, !.stop = dev.reads]
  /\ sock' = IF dev.rx = 0 THEN sock ELSE [sock EXCEPT ![dev.rx].main = "closed"]
  /\ main' = [main EXCEPT !.at = IF dev.reads THEN "joinReader" ELSE "stopWriter"]
  /\ UNCHANGED <<turbo, backlog, reader, rx, handled, wvars>>

\* A thread blocked in recv on a pair that nobody accepted is killed.
Blocked == reader.at = "told" /\ sock[reader.of].toThread = 0 /\ ~PeerClosed(reader.of)
JoinReader ==
  /\ main.at = "joinReader"
  /\ reader.at = "ended" \/ Blocked
  /\ reader' = [reader EXCEPT !.at = "ended"]
  /\ main' = [main EXCEPT !.at = "stopWriter"]
  /\ UNCHANGED <<turbo, dev, sock, backlog, rx, handled, wvars>>

\* The write thread's event is signalled, then the element is queued that wakes it up.
\* The thread may see the event after an element it had, and end in between; the next
\* one then finds the stop element.
BugStopWriter ==
  /\ main.at = "stopWriter"
  /\ tx' = [tx EXCEPT !.stop = tx.thread]
  /\ main' = [main EXCEPT !.at = "close"]
  /\ UNCHANGED <<turbo, dev, rvars, writer, late>>
StopWriter ==
  /\ main.at = "stopWriter"
  /\ tx' = [tx EXCEPT !.stop = tx.thread]
  /\ main' = [main EXCEPT !.at = IF tx.thread THEN "wakeWriter" ELSE "close"]
  /\ UNCHANGED <<turbo, dev, rvars, writer, late>>

WakeWriter ==
  /\ main.at = "wakeWriter"
  /\ tx' = [tx EXCEPT !.q = Append(@, Pill)]
  /\ main' = [main EXCEPT !.at = "joinWriter"]
  /\ UNCHANGED <<turbo, dev, rvars, writer, late>>

\* The pool is emptied when the thread has ended, and left when it hangs on a
\* transfer for the whole timeout, its own or that of another device: the mutex
\* around the wait is one for all devices.
JoinWriter ==
  /\ main.at = "joinWriter"
  /\ \/ /\ writer.at = "ended"
        /\ tx' = [tx EXCEPT !.pool = <<>>, !.sema = 0]
        /\ main' = At0(IF tx.sema > Len(tx.pool) THEN "undefined" ELSE "close")
        /\ UNCHANGED late
     \/ /\ writer.at = "result"
        /\ late' = TRUE /\ main' = At0("close")
        /\ UNCHANGED tx
  /\ UNCHANGED <<turbo, dev, rvars, writer>>

\* com_plugin_close ends what is under way; then the usb_device is freed, or
\* waits for the next device.
Close ==
  /\ main.at = "close"
  /\ sock' = [sock EXCEPT ![dev.connect].thread = "closed"]
  /\ tx' = [tx EXCEPT !.under = {}]
  /\ rx' = IF rx.transfer = "pending" THEN [rx EXCEPT !.transfer = "failed", !.event = TRUE] ELSE rx
  /\ \E manual \in BOOLEAN :
       dev' = [dev EXCEPT !.open = FALSE, !.reads = FALSE, !.freed = manual]
  /\ main' = At0("usb")
  /\ UNCHANGED <<turbo, backlog, reader, handled, writer, late>>

Usb == Connect \/ Disconnect \/ JoinReader \/ StopWriter \/ WakeWriter \/ JoinWriter \/ Close

-----------------------------------------------------------------------------

Init ==
  /\ turbo \in BOOLEAN
  /\ main = [at |-> "usb", listen |-> FALSE, fd |-> 0]
  /\ dev = [connect |-> 0, open |-> FALSE, here |-> FALSE, rx |-> 0, reads |-> FALSE,
            stop |-> FALSE, freed |-> FALSE]
  /\ sock = [g \in Connects |-> [thread |-> "none", main |-> "none", toMain |-> 0, toThread |-> 0]]
  /\ backlog = <<>>
  /\ reader = [at |-> "ended", of |-> 0]
  /\ rx = [transfer |-> "none", event |-> FALSE, size |-> FALSE, read |-> 0]
  /\ handled = <<>>
  /\ writer = [at |-> "ended", e |-> Pill]
  /\ tx = [q |-> <<>>, pool |-> <<>>, sema |-> 0, thread |-> FALSE, stop |-> FALSE,
           under |-> {}, mark |-> 0]
  /\ late = FALSE

MainLoop == Select \/ DeviceAcceptSocket \/ ReadResult \/ Handle
Next ==
  \/ Reader \/ ReadCompletes \/ MainLoop \/ Usb \/ Send \/ SendUndefined
  \/ Writer
  \/ \E e \in Elements : SendCompletes(e)

Spec == Init /\ [][Next]_vars

-----------------------------------------------------------------------------
(***************************************************************************)
(* Properties.                                                             *)
(***************************************************************************)

InQueue(queue, e) == {i \in DOMAIN queue : queue[i] = e}

\* Every variable keeps its type.
TypeOK ==
  /\ turbo \in BOOLEAN /\ late \in BOOLEAN
  /\ main \in [at : {"usb", "accept", "recv", "handling", "joinReader", "stopWriter",
                      "wakeWriter", "joinWriter", "close", "undefined"},
               listen : BOOLEAN, fd : 0..MaxConnects]
  /\ dev \in [connect : 0..MaxConnects, open : BOOLEAN, here : BOOLEAN, rx : 0..MaxConnects,
              reads : BOOLEAN, stop : BOOLEAN, freed : BOOLEAN]
  /\ sock \in [Connects -> [thread : {"none", "open", "closed"},
                            main : {"none", "backlog", "open", "closed"},
                            toMain : 0..1, toThread : 0..1]]
  /\ backlog \in Seq(Connects)
  /\ reader \in [at : {"starting", "waiting", "told", "ended"}, of : 0..MaxConnects]
  /\ rx \in [transfer : {"none", "pending", "done", "failed"}, event : BOOLEAN,
             size : BOOLEAN, read : 0..MaxReads]
  /\ handled \in Seq(1..MaxReads)
  /\ writer \in [at : {"idle", "taken", "result", "pooling", "drain", "ended"},
                 e : Elements \cup {Pill}]
  /\ tx \in [q : Seq(Elements \cup {Pill}), pool : Seq(Elements), sema : Nat, thread : BOOLEAN,
             stop : BOOLEAN, under : SUBSET Elements, mark : {-1} \cup Nat]

\* What one read transfer brought is handled once, and in the order it came, also
\* when the port was closed and opened between a thread's byte and its handling
\* (device.cpp:437-464 against usb-mce.cpp:971-987).
HandledOnceInOrder ==
  \A i, j \in DOMAIN handled : i < j => handled[i] < handled[j]

\* The main loop handles rx.buffer only for the thread of the open port, and then no
\* transfer is under way into it: the byte was not one of a pair left over from
\* an earlier connect, because accepting comes before reading in an iteration, and
\* the thread that would start a transfer waits (usbmuxd.cpp:448-465,
\* device.cpp:376-419, usb-mce.cpp:975-984).
HandlesOwnTransfer ==
  /\ main.at \in {"recv", "handling"} => main.fd = dev.connect
  /\ main.at = "handling" => reader.at = "told" /\ rx.transfer = "done"

\* usb_read_thread_proc tells the main loop of its data and will "wait for it to process
\* it" (usb-mce.cpp:975): while the device is there, each time one byte is on its way to
\* the main loop or back, or the transfer is being handled.
ByteUnderWay(s) == sock[s].toMain + sock[s].toThread = 1
ToldIsAnswered ==
  reader.at = "told" /\ dev.here /\ main.at # "undefined" =>
    ByteUnderWay(reader.of) \/ (main.at = "handling" /\ main.fd = reader.of)

\* What holds of it: the wake-up of a transfer that brought data is never lost.  Only one
\* whose transfer has failed may be, because device_process_sockets takes its byte and
\* goes on without an answer (device.cpp:451-455).
HandshakeAlive ==
  reader.at = "told" /\ dev.here /\ main.at # "undefined" /\ rx.transfer # "failed" =>
    ByteUnderWay(reader.of) \/ (main.at = "handling" /\ main.fd = reader.of)

\* An element is in one place, the pool holds none whose transfer is under way, so
\* that no OVERLAPPED structure serves two transfers, and while the device is
\* connected the queue or the write thread keeps the buffer of a transfer until
\* it is over (usb-mce.cpp:434-453,1052-1064).
ElementsOwnedOnce ==
  \A e \in Elements :
    /\ Cardinality(InQueue(tx.q, e)) + Cardinality(InQueue(tx.pool, e))
         + (IF writer.e = e THEN 1 ELSE 0) <= 1
    /\ e \in tx.under => InQueue(tx.pool, e) = {}
    /\ e \in tx.under /\ dev.here =>
         InQueue(tx.q, e) # {} \/ writer \in [at : {"taken", "result"}, e : {e}]

\* A stop reaches the threads it was meant for and no others.  Once usb_disconnect
\* has closed the port none of them runs, unless the wait for the write thread
\* timed out: none works on a freed usb_device or serves the next device.  And
\* while the device is connected none ends because of an event or an element left
\* over from an earlier stop, though the write thread may find such an element: the
\* read thread ends when its transfer failed, or its socket pair was refused for lack of
\* descriptors (usb-mce.cpp:845-939 and 1038-1054, usbmuxd.cpp:452-460).
StopsReachTheirThread ==
  ~late =>
    /\ main.at = "usb" /\ ~dev.open => reader.at = "ended" /\ writer.at = "ended"
    /\ dev.here /\ turbo => writer.at \notin {"drain", "ended"}
    /\ dev.here /\ reader.at = "ended" =>
         rx.transfer = "failed" \/ sock[reader.of].main = "closed"

\* What a transfer brought and the thread has no answer for, while the device is there.
Brought ==
  IF /\ dev.here /\ rx.transfer = "done"
     /\ \/ reader.at = "waiting"
        \/ reader.at = "told" /\ sock[reader.of].toThread = 0
  THEN rx.read ELSE 0

Slot == INSTANCE ReadSlot WITH connected <- dev.here, slot <- Brought, brought <- rx.read

\* The read thread and the main loop together implement a buffer for one transfer:
\* none is lost, overwritten or handled again while the device is connected, over any
\* number of connects (usb-mce.cpp:955-987 with device.cpp:437-464).
ReadSpec == Slot!Spec

\* readerwriterqueue.h:713 assert(success): whoever the semaphore of a queue
\* admits finds an element.
DequeueSucceeds == main.at # "undefined"
=============================================================================
