------------------------------ MODULE Preflight ------------------------------
(***************************************************************************)
(* The preflight workers of one device that comes and goes, under a new id *)
(* every time: preflight.cpp with the pair records of conf.cpp 400-600 and *)
(* the parts of device.cpp and client.cpp they meet.                       *)
(*                                                                         *)
(* A worker connects to the device's lockdown service, looks for a pair    *)
(* record, tries a session with it and, where that fails, asks the device  *)
(* to pair and waits for its user.  While it waits, a record on its stack  *)
(* (cb_data) is known to two others: the main thread, through mux_device,  *)
(* and the thread that receives notifications (np_callback).  A pairing    *)
(* the device accepts is saved by the main thread, asked by lockdownd_pair *)
(* through a client connection.  The file it finds first may be what an    *)
(* earlier process left that crashed while it wrote.                       *)
(*                                                                         *)
(* What pairing has to do with the monitoring of ports is in UsbPort, what *)
(* the listeners are told in DeviceEvents.                                 *)
(***************************************************************************)
EXTENDS Integers, FiniteSets

CONSTANTS
  MaxId,         \* ids of mux_devices, in the order they are given
  Versions,      \* major versions of the system on the device; 0 is restore mode
  Attempts,      \* LOCKDOWN_RECREATION_ATTEMPTS
  MaxFaults      \* lockdown calls that fail although the device is there, and
                 \*   pair records that other clients save or delete

ASSUME PreflightAssumption ==
  /\ \A n \in {MaxId, Attempts, MaxFaults} : n \in Nat
  /\ Versions \subseteq Nat

Ids == 1..MaxId

\* A pair record is one the device accepts, one whose host it does not know, one
\* whose certificate it does not accept, or a file without contents.
Records == {"none", "empty", "bad", "stale", "good"}

VARIABLES
  phone,     \* the device: version, its user's answer, whether it accepted a pairing
  list,      \* the mux_device of each id
  main,      \* the main thread: between commands, or where it is in one
  worker,    \* the preflight worker of each id
  cb,        \* its cb_data
  note,      \* its thread for notifications
  file,      \* the pair record of the device
  requests,  \* pair records to be saved
  faults     \* faults so far

vars == <<phone, list, main, worker, cb, note, file, requests, faults>>

Here(d) == list[d].state = "here"

\* device_list_mutex is held over more than one step by device_process_sockets only.
BugLockFree == TRUE
LockFree == main.at # "starting"

-----------------------------------------------------------------------------
(***************************************************************************)
(* The main thread.                                                        *)
(***************************************************************************)

Idle == [at |-> "idle", id |-> 0, rec |-> "none", by |-> "none"]
NewWorker == [at |-> "connect", host |-> "none", paired |-> FALSE, tries |-> Attempts,
              client |-> TRUE, next |-> "none", gaveUp |-> FALSE]
NoDevice == [state |-> "none", visible |-> FALSE, running |-> FALSE, cb |-> FALSE]
NoData == [alive |-> FALSE, np |-> FALSE, connected |-> FALSE, signal |-> FALSE]

\* device_add and device_version_input: the worker runs before its flag is set.
Arrive(d) ==
  /\ main.at = "idle"
  /\ list[d].state = "none" /\ \A e \in Ids : e < d => list[e].state = "gone"
  /\ list' = [list EXCEPT ![d].state = "here"]
  /\ worker' = [worker EXCEPT ![d] = NewWorker]
  /\ main' = [Idle EXCEPT !.at = "starting", !.id = d]
  /\ \E user \in {"unasked", "trusts"} :
       phone' = [phone EXCEPT !.user = user]
  /\ UNCHANGED <<cb, note, file, requests, faults>>

Started ==
  /\ main.at = "starting"
  /\ list' = [list EXCEPT ![main.id].running = TRUE]
  /\ main' = Idle
  /\ UNCHANGED <<phone, worker, cb, note, file, requests, faults>>

\* device_remove and preflight_device_remove_cb.
Unplugged == [phone EXCEPT !.user = "unasked", !.accepted = FALSE]
Remove(d) ==
  /\ main.at = "idle" /\ Here(d)
  /\ list' = [list EXCEPT ![d] = [NoDevice EXCEPT !.state = "gone"]]
  /\ cb' = IF list[d].cb THEN [cb EXCEPT ![d].connected = FALSE] ELSE cb
  /\ phone' = Unplugged
  /\ UNCHANGED <<main, worker, note, file, requests, faults>>

\* handle_save_pair_record_command with config_set_device_record, which removes the
\* file, opens it and writes it, and handle_delete_pair_record_command.
Asked(by, d) == {r \in requests : r.by = by /\ r.id = d}
TakeRequest(by, d) ==
  /\ main.at = "idle"
  /\ \E r \in Asked(by, d) :
       /\ file' = "none"
       /\ IF r.rec = "none" THEN requests' = requests \ {r} /\ UNCHANGED main
          ELSE main' = [at |-> "removed", id |-> d, rec |-> r.rec, by |-> by] /\ UNCHANGED requests
  /\ UNCHANGED <<phone, list, worker, cb, note, faults>>

Open ==
  /\ main.at = "removed"
  /\ file' = "empty" /\ main' = [main EXCEPT !.at = "opened"]
  /\ UNCHANGED <<phone, list, worker, cb, note, requests, faults>>

Write ==
  /\ main.at = "opened"
  /\ file' = main.rec /\ main' = Idle
  /\ requests' = requests \ Asked(main.by, main.id)
  /\ UNCHANGED <<phone, list, worker, cb, note, faults>>

-----------------------------------------------------------------------------
(***************************************************************************)
(* The worker.                                                             *)
(***************************************************************************)

At(w, place) == worker[w].at = place
Go(w, place) == worker' = [worker EXCEPT ![w].at = place]
GiveUp(w) == worker' = [worker EXCEPT ![w].at = "finish", ![w].gaveUp = TRUE]

\* A call to the device fails when it is gone, and may fail otherwise.
Fails(w) ==
  \/ ~Here(w) /\ UNCHANGED faults
  \/ Here(w) /\ faults < MaxFaults /\ faults' = faults + 1
Answers(w) == Here(w) /\ UNCHANGED faults

\* lockdownd_pair on a device whose user trusts the host: the device accepts, and
\* the caller waits until the record is saved.
Ask(by, w) ==
  /\ requests' = requests \cup {[by |-> by, id |-> w, rec |-> "good"]}
  /\ phone' = [phone EXCEPT !.accepted = phone.version = 7]
Pairs(w, next) ==
  /\ Answers(w) /\ phone.user = "trusts"
  /\ Ask("worker", w)
  /\ worker' = [worker EXCEPT ![w].at = "saving", ![w].next = next]

\* The user denied it, or is asked now.
Denied(w) == Answers(w) /\ phone.user = "denies" /\ UNCHANGED phone
Pending(w) ==
  /\ Answers(w) /\ phone.user \in {"unasked", "asked"}
  /\ phone' = [phone EXCEPT !.user = "asked"]

Saved(w) ==
  /\ At(w, "saving") /\ Asked("worker", w) = {}
  /\ worker' = [worker EXCEPT ![w].at = worker[w].next, ![w].next = "none"]
  /\ UNCHANGED <<phone, list, main, cb, note, file, requests, faults>>

\* lockdownd_client_new and lockdownd_query_type; in restore mode the device is
\* announced.
ConnectLockdown(w) ==
  /\ At(w, "connect")
  /\ \/ Answers(w) /\ Go(w, IF phone.version = 0 THEN "announce" ELSE "check")
     \/ Fails(w) /\ GiveUp(w)
  /\ UNCHANGED <<phone, list, main, cb, note, file, requests>>

\* config_has_device_record.
Check(w) ==
  /\ At(w, "check")
  /\ Go(w, IF file = "none" THEN "recheck" ELSE "hostid")
  /\ UNCHANGED <<phone, list, main, cb, note, file, requests, faults>>

\* It is looked for again, and one that came meanwhile is removed.
Recheck(w) ==
  /\ At(w, "recheck")
  /\ file' = "none" /\ Go(w, "version")
  /\ UNCHANGED <<phone, list, main, cb, note, requests, faults>>

\* config_device_record_get_host_id.
HostId(w) ==
  /\ At(w, "hostid")
  /\ worker' = [worker EXCEPT ![w].at = "session", ![w].host = file]
  /\ UNCHANGED <<phone, list, main, cb, note, file, requests, faults>>

\* lockdownd_start_session.  Errors other than LOCKDOWN_E_INVALID_HOST_ID and
\* LOCKDOWN_E_SSL_ERROR, that of a missing host id among them, count as paired.
BugAfterSession(host) == CASE host = "good" -> "announce" [] host = "bad" -> "drop" [] OTHER -> "finish"
AfterSession(host) == CASE host = "good" -> "announce" [] host = "bad" -> "drop" [] OTHER -> "version"
StartSession(w) ==
  /\ At(w, "session")
  /\ \/ /\ Answers(w)
        /\ worker' = [worker EXCEPT ![w].at = AfterSession(worker[w].host), ![w].host = "none",
                                    ![w].paired = worker[w].host \in {"none", "empty"}]
     \/ /\ Fails(w)
        /\ worker' = [worker EXCEPT ![w].at = "version", ![w].host = "none", ![w].paired = TRUE]
  /\ UNCHANGED <<phone, list, main, cb, note, file, requests>>

\* A record the device does not accept is removed, and the worker starts anew.
Drop(w) ==
  /\ At(w, "drop")
  /\ file' = "none"
  /\ Go(w, IF file = "none" THEN "version" ELSE "connect")
  /\ UNCHANGED <<phone, list, main, cb, note, requests, faults>>

\* lockdownd_get_value(ProductVersion).
AfterVersion(w) ==
  IF phone.version < 7 THEN "pair6" ELSE IF worker[w].paired THEN "service" ELSE "pair"
Version(w) ==
  /\ At(w, "version")
  /\ \/ Answers(w) /\ worker' = [worker EXCEPT ![w].at = AfterVersion(w), ![w].paired = FALSE]
     \/ Fails(w) /\ GiveUp(w)
  /\ UNCHANGED <<phone, list, main, cb, note, file, requests>>

\* The first lockdownd_pair shows the dialog.  A device of iOS 7.0 that is locked
\* ends the worker, a denial as well.
PairFirst(w) ==
  /\ At(w, "pair")
  /\ \/ Pairs(w, "announce")
     \/ /\ \/ Denied(w) /\ Go(w, "finish")
           \/ Pending(w) /\ Go(w, "service")
           \/ Pending(w) /\ phone.version = 7 /\ GiveUp(w)
           \/ Fails(w) /\ UNCHANGED phone /\ Go(w, "service")
        /\ UNCHANGED requests
  /\ UNCHANGED <<list, main, cb, note, file>>

\* lockdownd_start_service and np_client_new, of which the second may fail unnoticed;
\* then cb_data and np_set_notify_callback.
StartService(w) ==
  /\ At(w, "service")
  /\ \/ /\ \E np \in BOOLEAN :
             /\ cb' = [cb EXCEPT ![w] = [alive |-> TRUE, np |-> np, connected |-> TRUE, signal |-> FALSE]]
             /\ note' = [note EXCEPT ![w] = IF np THEN "idle" ELSE "none"]
             /\ worker' = [worker EXCEPT ![w].at = "setcb", ![w].gaveUp = ~np]
        /\ Answers(w)
     \/ Fails(w) /\ GiveUp(w) /\ UNCHANGED <<cb, note>>
  /\ UNCHANGED <<phone, list, main, file, requests>>

\* device_set_preflight_cb_data finds the device only while it is in the list.
SetCbData(w) ==
  /\ At(w, "setcb") /\ LockFree
  /\ list' = [list EXCEPT ![w].cb = Here(w)]
  /\ Go(w, "loop")
  /\ UNCHANGED <<phone, main, cb, note, file, requests, faults>>

\* The loop: its condition, the wait, and lockdownd_pair, which finds out what the
\* user has done.  After LOCKDOWN_E_MUX_ERROR the worker makes a new client; where
\* that fails it has none, and the call has an error that changes nothing.
Waits(w) == cb[w].np /\ cb[w].connected /\ ~cb[w].signal /\ worker[w].tries >= 0
Retry(w) ==
  worker' = [worker EXCEPT ![w].client = Here(w), ![w].tries = @ - 1]
Poll(w) ==
  \/ Pairs(w, "signal")
  \/ /\ \/ Denied(w) /\ Go(w, "unset")
        \/ Pending(w) /\ Go(w, "loop")
        \/ Fails(w) /\ UNCHANGED phone /\ Retry(w)
     /\ UNCHANGED requests
Loop(w) ==
  /\ At(w, "loop")
  /\ \/ /\ ~Waits(w)
        /\ worker' = [worker EXCEPT ![w].at = "unset", ![w].gaveUp = @ \/ worker[w].tries < 0]
        /\ UNCHANGED <<phone, requests, faults>>
     \/ Waits(w) /\ worker[w].client /\ Poll(w)
  /\ UNCHANGED <<list, main, cb, note, file>>

\* IOS_8_SIGNAL_IS_PAIRED.
Signalled(data) == IF phone.version >= 8 THEN [data EXCEPT !.signal = TRUE] ELSE data
Signal(w) ==
  /\ At(w, "signal")
  /\ cb' = [cb EXCEPT ![w] = Signalled(@)]
  /\ Go(w, "loop")
  /\ UNCHANGED <<phone, list, main, note, file, requests, faults>>

BugUnset(w) == UNCHANGED list
Unset(w) == list' = [list EXCEPT ![w].cb = FALSE]
UnsetCbData(w) ==
  /\ At(w, "unset") /\ LockFree
  /\ Unset(w)
  /\ Go(w, "join")
  /\ UNCHANGED <<phone, main, cb, note, file, requests, faults>>

\* np_set_notify_callback(NULL) waits for a callback that runs.
Returned(w) == note[w] \notin {"pairing", "saving"}
StopNotifications(w) ==
  /\ At(w, "join")
  /\ cb[w].np => Returned(w)
  /\ note' = [note EXCEPT ![w] = "none"]
  /\ Go(w, "end")
  /\ UNCHANGED <<phone, list, main, cb, file, requests, faults>>

\* From iOS 8 on a paired device is announced; cb_data goes.
EndWait(w) ==
  /\ At(w, "end")
  /\ cb' = [cb EXCEPT ![w] = NoData]
  /\ Go(w, IF cb[w].signal THEN "announce" ELSE "finish")
  /\ UNCHANGED <<phone, list, main, note, file, requests, faults>>

\* iOS 6 and earlier: pair, read the host id, start a session, validate.
Pair6(w) ==
  /\ At(w, "pair6")
  /\ \/ Pairs(w, "hostid6")
     \/ /\ Denied(w) \/ Pending(w) \/ (Fails(w) /\ UNCHANGED phone)
        /\ GiveUp(w) /\ UNCHANGED requests
  /\ UNCHANGED <<list, main, cb, note, file>>

Session6(w) ==
  /\ At(w, "hostid6")
  /\ \/ Answers(w) /\ IF file = "good" THEN Go(w, "announce") ELSE GiveUp(w)
     \/ Fails(w) /\ GiveUp(w)
  /\ UNCHANGED <<phone, list, main, cb, note, file, requests>>

\* client_device_add (device_set_visible).
Announce(w) ==
  /\ At(w, "announce") /\ LockFree
  /\ list' = [list EXCEPT ![w].visible = Here(w)]
  /\ Go(w, "finish")
  /\ UNCHANGED <<phone, main, cb, note, file, requests, faults>>

\* device_preflight_finished.
Finish(w) ==
  /\ At(w, "finish") /\ LockFree
  /\ list' = [list EXCEPT ![w].running = FALSE]
  /\ worker' = [worker EXCEPT ![w] = [NewWorker EXCEPT !.at = "ended", !.gaveUp = worker[w].gaveUp]]
  /\ UNCHANGED <<phone, main, cb, note, file, requests, faults>>

Worker(w) ==
  \/ ConnectLockdown(w) \/ Check(w) \/ Recheck(w) \/ HostId(w) \/ StartSession(w) \/ Drop(w)
  \/ Version(w) \/ PairFirst(w) \/ Saved(w) \/ Pair6(w) \/ Session6(w)
  \/ StartService(w) \/ SetCbData(w) \/ Loop(w) \/ Signal(w)
  \/ UnsetCbData(w) \/ StopNotifications(w) \/ EndWait(w) \/ Announce(w) \/ Finish(w)

-----------------------------------------------------------------------------
(***************************************************************************)
(* np_callback.                                                            *)
(***************************************************************************)

\* request_pair: the user has answered; the notification may be lost.
Notified(w) ==
  /\ note[w] = "idle" /\ Here(w) /\ phone.user = "trusts"
  /\ note' = [note EXCEPT ![w] = "pairing"]
  /\ UNCHANGED <<phone, list, main, worker, cb, file, requests, faults>>

\* It pairs.  A call that fails is signalled as well.
CallbackPairs(w) ==
  /\ note[w] = "pairing"
  /\ \/ /\ Answers(w) /\ Ask("callback", w)
        /\ note' = [note EXCEPT ![w] = "saving"]
        /\ UNCHANGED cb
     \/ /\ Fails(w)
        /\ note' = [note EXCEPT ![w] = "told"]
        /\ cb' = [cb EXCEPT ![w] = Signalled(@)]
        /\ UNCHANGED <<phone, requests>>
  /\ UNCHANGED <<list, main, worker, file>>

CallbackSaved(w) ==
  /\ note[w] = "saving" /\ Asked("callback", w) = {}
  /\ note' = [note EXCEPT ![w] = "told"]
  /\ cb' = [cb EXCEPT ![w] = Signalled(@)]
  /\ UNCHANGED <<phone, list, main, worker, file, requests, faults>>

\* The empty notification of a connection that has ended.
BugEmpty(data) == data
EmptyNotification(data) == [data EXCEPT !.np = FALSE]
CallbackEnds(w) ==
  /\ note[w] \in {"idle", "told"} /\ ~Here(w)
  /\ note' = [note EXCEPT ![w] = "none"]
  /\ cb' = [cb EXCEPT ![w] = EmptyNotification(@)]
  /\ UNCHANGED <<phone, list, main, worker, file, requests, faults>>

Callback(w) == CallbackPairs(w) \/ CallbackSaved(w) \/ CallbackEnds(w)

-----------------------------------------------------------------------------
(***************************************************************************)
(* Users and other clients.                                                *)
(***************************************************************************)

Decide ==
  /\ phone.user = "asked" /\ \E d \in Ids : Here(d)
  /\ \E answer \in {"trusts", "denies"} : phone' = [phone EXCEPT !.user = answer]
  /\ UNCHANGED <<list, main, worker, cb, note, file, requests, faults>>

\* A device of iOS 7 reconnects once it has accepted a pairing.
Reconnect(d) == phone.version = 7 /\ phone.accepted /\ Remove(d)

\* Another client saves a record, or deletes it.
OtherClient ==
  /\ faults < MaxFaults /\ faults' = faults + 1
  /\ \E record \in Records \ {"empty"} :
       requests' = requests \cup {[by |-> "client", id |-> 0, rec |-> record]}
  /\ UNCHANGED <<phone, list, main, worker, cb, note, file>>

Init ==
  /\ phone \in [version : Versions, user : {"unasked"}, accepted : {FALSE}]
  /\ list = [d \in Ids |-> NoDevice]
  /\ main = Idle
  /\ worker = [w \in Ids |-> [NewWorker EXCEPT !.at = "none"]]
  /\ cb = [w \in Ids |-> NoData] /\ note = [w \in Ids |-> "none"]
  /\ file \in Records /\ requests = {}
  /\ faults = 0

Next ==
  \/ Started \/ Open \/ Write \/ Decide \/ OtherClient
  \/ \E d \in Ids : Arrive(d) \/ Remove(d) \/ TakeRequest("worker", d) \/ TakeRequest("callback", d)
  \/ TakeRequest("client", 0)
  \/ \E w \in Ids : Worker(w) \/ Notified(w) \/ Callback(w)

Spec == Init /\ [][Next]_vars

\* Threads run.  Every iteration of the main loop serves each client that has sent
\* something and sees a device that has gone.
Fairness ==
  /\ WF_vars(Started \/ Open \/ Write)
  /\ \A w \in Ids :
       /\ WF_vars(Worker(w)) /\ WF_vars(Callback(w))
       /\ SF_vars(TakeRequest("worker", w)) /\ SF_vars(TakeRequest("callback", w))
       /\ SF_vars(Reconnect(w))
FairSpec == Spec /\ Fairness

-----------------------------------------------------------------------------
(***************************************************************************)
(* Properties.                                                             *)
(***************************************************************************)

\* cb_data is on the worker's stack: as long as the main thread or np_callback can
\* reach it, the worker has not left the block it lives in, whenever the device
\* goes and whatever the callback is doing (preflight.cpp:364-466 against
\* device.cpp:1075 and preflight.cpp:107-160).
CbDataAlive ==
  \A d \in Ids :
    list[d].cb \/ note[d] \in {"idle", "pairing", "saving", "told"} => cb[d].alive

\* is_preflight_worker_running, which is set after the worker was started, is not
\* left set by a worker that ended first, nor missing (device.cpp:760-761 and
\* 1306-1316): device_is_initializing would answer wrong for as long as the device
\* stays.
FlagMatchesWorker ==
  \A d \in Ids : main.at # "starting" /\ Here(d) => (list[d].running <=> worker[d].at # "ended")

\* A worker whose device has gone ends, also when that happened before it had told
\* mux_device of its cb_data and when it lost its lockdown client: then only the
\* empty notification ends its wait (preflight.cpp:115-118, 401-446).
WorkerEnds ==
  \A w \in Ids : list[w].state = "gone" ~> worker[w].at = "ended"

\* Whatever pair record there is, missing, left empty by a crash, of a pairing the
\* device forgot or with a certificate it rejects, and whoever saves or deletes one
\* meanwhile: a device that stays and whose user trusts the host is announced.  Not,
\* as in the code, when a call before the wait failed, or more calls in it than the
\* worker makes up for (preflight.cpp:239-466, conf.cpp:406-567).
TrustedIsAnnounced ==
  \A d \in Ids :
    Here(d) /\ phone.user = "trusts" ~> list[d].visible \/ ~Here(d) \/ worker[d].gaveUp

-----------------------------------------------------------------------------
(***************************************************************************)
(* The inductive invariant behind CbDataAlive and FlagMatchesWorker.       *)
(***************************************************************************)

Places ==
  {"none", "connect", "check", "recheck", "hostid", "session", "drop", "version", "pair",
   "saving", "service", "setcb", "loop", "signal", "unset", "join", "end", "pair6",
   "hostid6", "announce", "finish", "ended"}
Threads == {"idle", "pairing", "saving", "told"}

\* The worker is inside the block cb_data lives in.
InBlock(r) ==
  r.at \in {"setcb", "loop", "signal", "unset", "join", "end"} \/ (r.at = "saving" /\ r.next = "signal")

WorkerType ==
  [at : Places, host : Records, paired : BOOLEAN, tries : Int, client : BOOLEAN,
   next : {"none", "announce", "signal", "hostid6"}, gaveUp : BOOLEAN]

DeviceType ==
  [state : {"none", "here", "gone"}, visible : BOOLEAN, running : BOOLEAN, cb : BOOLEAN]
MainType ==
  [at : {"idle", "starting", "removed", "opened"}, id : 0..MaxId, rec : Records,
   by : {"none", "worker", "callback", "client"}]
DataType == [alive : BOOLEAN, np : BOOLEAN, connected : BOOLEAN, signal : BOOLEAN]
RequestType == [by : {"worker", "callback", "client"}, id : 0..MaxId, rec : Records]

TypeInv ==
  /\ list \in [Ids -> DeviceType] /\ main \in MainType
  /\ worker \in [Ids -> WorkerType]
  /\ cb \in [Ids -> DataType] /\ note \in [Ids -> Threads \cup {"none"}]
  /\ file \in Records /\ requests \subseteq RequestType

\* cb_data lives while the worker is in its block, and whoever knows it is stopped
\* from using it before the block ends.
WaitInv ==
  \A w \in Ids :
    /\ InBlock(worker[w]) <=> cb[w].alive
    /\ note[w] \in Threads => cb[w].alive /\ worker[w].at # "end"
    /\ list[w].cb => cb[w].alive /\ worker[w].at \notin {"join", "end"}
    /\ worker[w].at = "saving" => worker[w].next # "none"
    /\ list[w].state = "none" => worker[w].at = "none"

\* The flag is the worker's, but for the moment in which it is about to be set; then
\* the worker cannot end.
FlagInv ==
  /\ main.at = "starting" =>
       main.id \in Ids /\ Here(main.id) /\ worker[main.id].at \notin {"none", "ended"}
  /\ \A d \in Ids :
       Here(d) /\ ~(main.at = "starting" /\ main.id = d) =>
         (list[d].running <=> worker[d].at # "ended")

PreflightInv == TypeInv /\ WaitInv /\ FlagInv
=============================================================================
