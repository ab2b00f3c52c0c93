---------------------------- MODULE PreflightProofs ----------------------------
(***************************************************************************)
(* For any number of devices, versions and faults: cb_data outlives those  *)
(* who know it, and is_preflight_worker_running is right.                  *)
(***************************************************************************)
EXTENDS Preflight, TLAPS

\* One worker steps, and neither leaves nor enters the block of cb_data.
NoWaitStep(w) ==
  /\ worker' \in [Ids -> WorkerType]
  /\ \A v \in Ids : v # w => worker'[v] = worker[v]
  /\ InBlock(worker'[w]) <=> InBlock(worker[w])
  /\ worker[w].at \notin {"none", "ended"}
  /\ worker'[w].at \notin {"none", "join", "end", "ended"}
  /\ worker'[w].at = "saving" => worker'[w].next # "none"

\* Most calls the worker makes do this: they move it, leave device_list, cb_data and
\* the callback alone, and may change the record's file and the requests to save one.
LEMMA WorkerStep ==
  ASSUME PreflightInv, NEW w \in Ids, NoWaitStep(w), UNCHANGED <<list, main, cb, note>>,
         file' \in Records,
         requests' \subseteq RequestType
  PROVE  PreflightInv'
<1>1. TypeInv' BY DEF PreflightInv, TypeInv, NoWaitStep
<1>2. WaitInv'
  BY DEF PreflightInv, TypeInv, WaitInv, NoWaitStep, InBlock
<1>3. FlagInv'
  BY DEF PreflightInv, TypeInv, FlagInv, Here, NoWaitStep
<1> QED BY <1>1, <1>2, <1>3 DEF PreflightInv

\* Before the first device comes there is neither a worker nor its cb_data, and
\* device_list is empty.
THEOREM PreflightInvInit == Init => PreflightInv
<1> SUFFICES ASSUME Init PROVE PreflightInv OBVIOUS
<1>1. TypeInv
  <2>1. Attempts \in Int /\ 0 \in 0..MaxId BY PreflightAssumption
  <2>2. [NewWorker EXCEPT !.at = "none"] \in WorkerType
    BY <2>1 DEF NewWorker, WorkerType, Places, Records
  <2>3. worker \in [Ids -> WorkerType] BY <2>2 DEF Init
  <2>4. list \in [Ids -> DeviceType] BY DEF Init, NoDevice, DeviceType
  <2>5. main \in MainType BY <2>1 DEF Init, Idle, Records, MainType
  <2>6. cb \in [Ids -> DataType] BY DEF Init, NoData, DataType
  <2> QED BY <2>3, <2>4, <2>5, <2>6 DEF TypeInv, Init, Threads
<1>2. WaitInv
  BY DEF Init, WaitInv, NoDevice, NewWorker, NoData, InBlock, Threads
<1>3. FlagInv
  BY DEF Init, FlagInv, NoDevice, Idle, Here
<1> QED BY <1>1, <1>2, <1>3 DEF PreflightInv

\* The calls that only move the worker.
LEMMA ConnectLockdownKeeps ==
  ASSUME PreflightInv, NEW w \in Ids, ConnectLockdown(w)
  PROVE  PreflightInv'
<1>1. worker' \in [Ids -> WorkerType]
  <2>1. worker \in [Ids -> WorkerType] BY DEF PreflightInv, TypeInv
  <2> QED BY <2>1 DEF ConnectLockdown, GiveUp, Go, At, WorkerType, Places
<1>2. \A v \in Ids : v # w => worker'[v] = worker[v]
  BY DEF ConnectLockdown, GiveUp, Go, At, PreflightInv, TypeInv
<1>3. /\ InBlock(worker'[w]) <=> InBlock(worker[w])
      /\ worker[w].at \notin {"none", "ended"}
      /\ worker'[w].at \notin {"none", "join", "end", "ended"}
      /\ worker'[w].at = "saving" => worker'[w].next # "none"
  BY DEF ConnectLockdown, GiveUp, Go, At, PreflightInv, TypeInv, WorkerType, InBlock, WaitInv
<1>4. /\ UNCHANGED <<list, main, cb, note>>
      /\ file' \in Records
      /\ requests' \subseteq RequestType
  BY DEF ConnectLockdown, GiveUp, Go, At, PreflightInv, TypeInv, Records, Ids, RequestType
<1> QED BY <1>1, <1>2, <1>3, <1>4, WorkerStep DEF NoWaitStep

LEMMA CheckKeeps ==
  ASSUME PreflightInv, NEW w \in Ids, Check(w)
  PROVE  PreflightInv'
<1>1. worker' \in [Ids -> WorkerType]
  <2>1. worker \in [Ids -> WorkerType] BY DEF PreflightInv, TypeInv
  <2> QED BY <2>1 DEF Check, Go, At, WorkerType, Places
<1>2. \A v \in Ids : v # w => worker'[v] = worker[v]
  BY DEF Check, Go, At, PreflightInv, TypeInv
<1>3. /\ InBlock(worker'[w]) <=> InBlock(worker[w])
      /\ worker[w].at \notin {"none", "ended"}
      /\ worker'[w].at \notin {"none", "join", "end", "ended"}
      /\ worker'[w].at = "saving" => worker'[w].next # "none"
  BY DEF Check, Go, At, PreflightInv, TypeInv, WorkerType, InBlock, WaitInv
<1>4. /\ UNCHANGED <<list, main, cb, note>>
      /\ file' \in Records
      /\ requests' \subseteq RequestType
  BY DEF Check, Go, At, PreflightInv, TypeInv, Records, Ids, RequestType
<1> QED BY <1>1, <1>2, <1>3, <1>4, WorkerStep DEF NoWaitStep

LEMMA RecheckKeeps ==
  ASSUME PreflightInv, NEW w \in Ids, Recheck(w)
  PROVE  PreflightInv'
<1>1. worker' \in [Ids -> WorkerType]
  <2>1. worker \in [Ids -> WorkerType] BY DEF PreflightInv, TypeInv
  <2> QED BY <2>1 DEF Recheck, Go, At, WorkerType, Places
<1>2. \A v \in Ids : v # w => worker'[v] = worker[v]
  BY DEF Recheck, Go, At, PreflightInv, TypeInv
<1>3. /\ InBlock(worker'[w]) <=> InBlock(worker[w])
      /\ worker[w].at \notin {"none", "ended"}
      /\ worker'[w].at \notin {"none", "join", "end", "ended"}
      /\ worker'[w].at = "saving" => worker'[w].next # "none"
  BY DEF Recheck, Go, At, PreflightInv, TypeInv, WorkerType, InBlock, WaitInv
<1>4. /\ UNCHANGED <<list, main, cb, note>>
      /\ file' \in Records
      /\ requests' \subseteq RequestType
  BY DEF Recheck, Go, At, PreflightInv, TypeInv, Records, Ids, RequestType
<1> QED BY <1>1, <1>2, <1>3, <1>4, WorkerStep DEF NoWaitStep

LEMMA HostIdKeeps ==
  ASSUME PreflightInv, NEW w \in Ids, HostId(w)
  PROVE  PreflightInv'
<1>1. worker' \in [Ids -> WorkerType]
  <2>1. worker \in [Ids -> WorkerType] BY DEF PreflightInv, TypeInv
  <2>2. file \in Records BY DEF PreflightInv, TypeInv
  <2>3. "session" \in Places BY DEF Places
  <2> DEFINE r == [worker[w] EXCEPT !.at = "session", !.host = file]
  <2>4. r \in WorkerType
    <3>1. worker[w] \in WorkerType BY <2>1
    <3> QED BY <2>2, <2>3, <3>1 DEF WorkerType
  <2>5. worker' = [worker EXCEPT ![w] = r] BY <2>1 DEF HostId
  <2> HIDE DEF r
  <2> QED BY ONLY <2>1, <2>4, <2>5
<1>2. \A v \in Ids : v # w => worker'[v] = worker[v]
  BY DEF HostId, At, PreflightInv, TypeInv
<1>3. /\ InBlock(worker'[w]) <=> InBlock(worker[w])
      /\ worker[w].at \notin {"none", "ended"}
      /\ worker'[w].at \notin {"none", "join", "end", "ended"}
      /\ worker'[w].at = "saving" => worker'[w].next # "none"
  BY DEF HostId, At, PreflightInv, TypeInv, WorkerType, InBlock, WaitInv
<1>4. /\ UNCHANGED <<list, main, cb, note>>
      /\ file' \in Records
      /\ requests' \subseteq RequestType
  BY DEF HostId, At, PreflightInv, TypeInv, Records, Ids, RequestType
<1> QED BY <1>1, <1>2, <1>3, <1>4, WorkerStep DEF NoWaitStep

LEMMA StartSessionKeeps ==
  ASSUME PreflightInv, NEW w \in Ids, StartSession(w)
  PROVE  PreflightInv'
<1>1. worker' \in [Ids -> WorkerType]
  <2>1. worker \in [Ids -> WorkerType] BY DEF PreflightInv, TypeInv
  <2> QED BY <2>1 DEF StartSession, At, AfterSession, WorkerType, Places
<1>2. \A v \in Ids : v # w => worker'[v] = worker[v]
  BY DEF StartSession, At, AfterSession, PreflightInv, TypeInv
<1>3. /\ InBlock(worker'[w]) <=> InBlock(worker[w])
      /\ worker[w].at \notin {"none", "ended"}
      /\ worker'[w].at \notin {"none", "join", "end", "ended"}
      /\ worker'[w].at = "saving" => worker'[w].next # "none"
  BY DEF StartSession, At, AfterSession, PreflightInv, TypeInv, WorkerType, InBlock, WaitInv
<1>4. /\ UNCHANGED <<list, main, cb, note>>
      /\ file' \in Records
      /\ requests' \subseteq RequestType
  BY DEF StartSession, At, AfterSession, PreflightInv, TypeInv, Records, Ids, RequestType
<1> QED BY <1>1, <1>2, <1>3, <1>4, WorkerStep DEF NoWaitStep

LEMMA DropKeeps ==
  ASSUME PreflightInv, NEW w \in Ids, Drop(w)
  PROVE  PreflightInv'
<1>1. worker' \in [Ids -> WorkerType]
  <2>1. worker \in [Ids -> WorkerType] BY DEF PreflightInv, TypeInv
  <2> QED BY <2>1 DEF Drop, Go, At, WorkerType, Places
<1>2. \A v \in Ids : v # w => worker'[v] = worker[v]
  BY DEF Drop, Go, At, PreflightInv, TypeInv
<1>3. /\ InBlock(worker'[w]) <=> InBlock(worker[w])
      /\ worker[w].at \notin {"none", "ended"}
      /\ worker'[w].at \notin {"none", "join", "end", "ended"}
      /\ worker'[w].at = "saving" => worker'[w].next # "none"
  BY DEF Drop, Go, At, PreflightInv, TypeInv, WorkerType, InBlock, WaitInv
<1>4. /\ UNCHANGED <<list, main, cb, note>>
      /\ file' \in Records
      /\ requests' \subseteq RequestType
  BY DEF Drop, Go, At, PreflightInv, TypeInv, Records, Ids, RequestType
<1> QED BY <1>1, <1>2, <1>3, <1>4, WorkerStep DEF NoWaitStep

LEMMA VersionKeeps ==
  ASSUME PreflightInv, NEW w \in Ids, Version(w)
  PROVE  PreflightInv'
<1>1. worker' \in [Ids -> WorkerType]
  <2>1. worker \in [Ids -> WorkerType] BY DEF PreflightInv, TypeInv
  <2> QED BY <2>1 DEF Version, At, AfterVersion, GiveUp, WorkerType, Places
<1>2. \A v \in Ids : v # w => worker'[v] = worker[v]
  BY DEF Version, At, AfterVersion, GiveUp, PreflightInv, TypeInv
<1>3. /\ InBlock(worker'[w]) <=> InBlock(worker[w])
      /\ worker[w].at \notin {"none", "ended"}
      /\ worker'[w].at \notin {"none", "join", "end", "ended"}
      /\ worker'[w].at = "saving" => worker'[w].next # "none"
  BY DEF Version, At, AfterVersion, GiveUp, PreflightInv, TypeInv, WorkerType, InBlock, WaitInv
<1>4. /\ UNCHANGED <<list, main, cb, note>>
      /\ file' \in Records
      /\ requests' \subseteq RequestType
  BY DEF Version, At, AfterVersion, GiveUp, PreflightInv, TypeInv, Records, Ids, RequestType
<1> QED BY <1>1, <1>2, <1>3, <1>4, WorkerStep DEF NoWaitStep

LEMMA PairFirstKeeps ==
  ASSUME PreflightInv, NEW w \in Ids, PairFirst(w)
  PROVE  PreflightInv'
<1>1. worker' \in [Ids -> WorkerType]
  <2>1. worker \in [Ids -> WorkerType] BY DEF PreflightInv, TypeInv
  <2> QED BY <2>1 DEF PairFirst, At, Pairs, Ask, Go, GiveUp, WorkerType, Places
<1>2. \A v \in Ids : v # w => worker'[v] = worker[v]
  BY DEF PairFirst, At, Pairs, Ask, Go, GiveUp, PreflightInv, TypeInv
<1>3. /\ InBlock(worker'[w]) <=> InBlock(worker[w])
      /\ worker[w].at \notin {"none", "ended"}
      /\ worker'[w].at \notin {"none", "join", "end", "ended"}
      /\ worker'[w].at = "saving" => worker'[w].next # "none"
  BY DEF PairFirst, At, Pairs, Ask, Go, GiveUp, PreflightInv, TypeInv, WorkerType, InBlock, WaitInv
<1>4. /\ UNCHANGED <<list, main, cb, note>>
      /\ file' \in Records
      /\ requests' \subseteq RequestType
  BY DEF PairFirst, At, Pairs, Ask, Go, GiveUp, PreflightInv, TypeInv, Records, Ids, RequestType
<1> QED BY <1>1, <1>2, <1>3, <1>4, WorkerStep DEF NoWaitStep

LEMMA SavedKeeps ==
  ASSUME PreflightInv, NEW w \in Ids, Saved(w)
  PROVE  PreflightInv'
<1>1. worker' \in [Ids -> WorkerType]
  <2>1. worker \in [Ids -> WorkerType] BY DEF PreflightInv, TypeInv
  <2>2. worker[w].next \in Places BY <2>1 DEF WorkerType, Places
  <2> DEFINE r == [worker[w] EXCEPT !.at = worker[w].next, !.next = "none"]
  <2>3. r \in WorkerType
    <3>1. worker[w] \in WorkerType BY <2>1
    <3> QED BY <2>2, <3>1 DEF WorkerType
  <2>4. worker' = [worker EXCEPT ![w] = r] BY <2>1 DEF Saved
  <2> HIDE DEF r
  <2> QED BY ONLY <2>1, <2>3, <2>4
<1>2. \A v \in Ids : v # w => worker'[v] = worker[v]
  BY DEF Saved, At, PreflightInv, TypeInv
<1>3. /\ InBlock(worker'[w]) <=> InBlock(worker[w])
      /\ worker[w].at \notin {"none", "ended"}
      /\ worker'[w].at \notin {"none", "join", "end", "ended"}
      /\ worker'[w].at = "saving" => worker'[w].next # "none"
  BY DEF Saved, At, PreflightInv, TypeInv, WorkerType, InBlock, WaitInv
<1>4. /\ UNCHANGED <<list, main, cb, note>>
      /\ file' \in Records
      /\ requests' \subseteq RequestType
  BY DEF Saved, At, PreflightInv, TypeInv, Records, Ids, RequestType
<1> QED BY <1>1, <1>2, <1>3, <1>4, WorkerStep DEF NoWaitStep

LEMMA LoopKeeps ==
  ASSUME PreflightInv, NEW w \in Ids, Loop(w)
  PROVE  PreflightInv'
<1>1. worker' \in [Ids -> WorkerType]
  <2>1. worker \in [Ids -> WorkerType] BY DEF PreflightInv, TypeInv
  <2> QED BY <2>1 DEF Loop, At, Poll, Pairs, Ask, Go, Retry, WorkerType, Places
<1>2. \A v \in Ids : v # w => worker'[v] = worker[v]
  BY DEF Loop, At, Poll, Pairs, Ask, Go, Retry, PreflightInv, TypeInv
<1>3. /\ InBlock(worker'[w]) <=> InBlock(worker[w])
      /\ worker[w].at \notin {"none", "ended"}
      /\ worker'[w].at \notin {"none", "join", "end", "ended"}
      /\ worker'[w].at = "saving" => worker'[w].next # "none"
  BY DEF Loop, At, Poll, Pairs, Ask, Go, Retry, PreflightInv, TypeInv, WorkerType, InBlock, WaitInv
<1>4. /\ UNCHANGED <<list, main, cb, note>>
      /\ file' \in Records
      /\ requests' \subseteq RequestType
  BY DEF Loop, At, Poll, Pairs, Ask, Go, Retry, PreflightInv, TypeInv, Records, Ids, RequestType
<1> QED BY <1>1, <1>2, <1>3, <1>4, WorkerStep DEF NoWaitStep

LEMMA Pair6Keeps ==
  ASSUME PreflightInv, NEW w \in Ids, Pair6(w)
  PROVE  PreflightInv'
<1>1. worker' \in [Ids -> WorkerType]
  <2>1. worker \in [Ids -> WorkerType] BY DEF PreflightInv, TypeInv
  <2> QED BY <2>1 DEF Pair6, At, Pairs, Ask, GiveUp, WorkerType, Places
<1>2. \A v \in Ids : v # w => worker'[v] = worker[v]
  BY DEF Pair6, At, Pairs, Ask, GiveUp, PreflightInv, TypeInv
<1>3. /\ InBlock(worker'[w]) <=> InBlock(worker[w])
      /\ worker[w].at \notin {"none", "ended"}
      /\ worker'[w].at \notin {"none", "join", "end", "ended"}
      /\ worker'[w].at = "saving" => worker'[w].next # "none"
  BY DEF Pair6, At, Pairs, Ask, GiveUp, PreflightInv, TypeInv, WorkerType, InBlock, WaitInv
<1>4. /\ UNCHANGED <<list, main, cb, note>>
      /\ file' \in Records
      /\ requests' \subseteq RequestType
  BY DEF Pair6, At, Pairs, Ask, GiveUp, PreflightInv, TypeInv, Records, Ids, RequestType
<1> QED BY <1>1, <1>2, <1>3, <1>4, WorkerStep DEF NoWaitStep

LEMMA Session6Keeps ==
  ASSUME PreflightInv, NEW w \in Ids, Session6(w)
  PROVE  PreflightInv'
<1>1. worker' \in [Ids -> WorkerType]
  <2>1. worker \in [Ids -> WorkerType] BY DEF PreflightInv, TypeInv
  <2> QED BY <2>1 DEF Session6, At, Go, GiveUp, WorkerType, Places
<1>2. \A v \in Ids : v # w => worker'[v] = worker[v]
  BY DEF Session6, At, Go, GiveUp, PreflightInv, TypeInv
<1>3. /\ InBlock(worker'[w]) <=> InBlock(worker[w])
      /\ worker[w].at \notin {"none", "ended"}
      /\ worker'[w].at \notin {"none", "join", "end", "ended"}
      /\ worker'[w].at = "saving" => worker'[w].next # "none"
  BY DEF Session6, At, Go, GiveUp, PreflightInv, TypeInv, WorkerType, InBlock, WaitInv
<1>4. /\ UNCHANGED <<list, main, cb, note>>
      /\ file' \in Records
      /\ requests' \subseteq RequestType
  BY DEF Session6, At, Go, GiveUp, PreflightInv, TypeInv, Records, Ids, RequestType
<1> QED BY <1>1, <1>2, <1>3, <1>4, WorkerStep DEF NoWaitStep

-----------------------------------------------------------------------------

\* Into the block of cb_data, through it and out of it, and to the end.  A client of
\* the notification proxy that was not made leaves no thread.
LEMMA StartServiceKeeps ==
  ASSUME PreflightInv, NEW w \in Ids, StartService(w)
  PROVE  PreflightInv'
<1>1. TypeInv /\ WaitInv /\ FlagInv BY DEF PreflightInv
<1>2. CASE GiveUp(w) /\ UNCHANGED <<cb, note>>
  <2>1. NoWaitStep(w)
    <3>1. worker \in [Ids -> WorkerType] BY <1>1 DEF TypeInv
    <3>2. "finish" \in Places BY DEF Places
    <3>3. worker' = [worker EXCEPT ![w].at = "finish", ![w].gaveUp = TRUE] BY <1>2 DEF GiveUp
    <3>4. worker' \in [Ids -> WorkerType] BY <3>1, <3>2, <3>3 DEF WorkerType
    <3>5. \A v \in Ids : v # w => worker'[v] = worker[v] BY <3>1, <3>3
    <3>6. worker[w].at = "service" BY DEF StartService, At
    <3>7. worker'[w].at = "finish" BY <3>1, <3>3 DEF WorkerType
    <3> QED BY <3>4, <3>5, <3>6, <3>7 DEF NoWaitStep, InBlock
  <2> QED BY <1>1, <1>2, <2>1, WorkerStep DEF StartService, TypeInv
<1>3. ASSUME NEW np \in BOOLEAN,
             cb' = [cb EXCEPT ![w] = [alive |-> TRUE, np |-> np, connected |-> TRUE, signal |-> FALSE]],
             note' = [note EXCEPT ![w] = IF np THEN "idle" ELSE "none"],
             worker' = [worker EXCEPT ![w].at = "setcb", ![w].gaveUp = ~np]
      PROVE  PreflightInv'
  <2>1. At(w, "service") /\ UNCHANGED <<list, main, file, requests>> BY DEF StartService
  <2>2. worker' \in [Ids -> WorkerType]
    <3>1. worker \in [Ids -> WorkerType] BY <1>1 DEF TypeInv
    <3>2. "setcb" \in Places BY DEF Places
    <3>3. (~np) \in BOOLEAN OBVIOUS
    <3>4. PICK g \in BOOLEAN : worker' = [worker EXCEPT ![w].at = "setcb", ![w].gaveUp = g]
      BY <1>3, <3>3
    <3> QED BY <3>1, <3>2, <3>4 DEF WorkerType
  <2>3. cb' \in [Ids -> DataType]
    <3>1. cb \in [Ids -> DataType] BY <1>1 DEF TypeInv
    <3> QED BY <1>3, <3>1 DEF DataType
  <2>4. note' \in [Ids -> Threads \cup {"none"}]
    <3>1. note \in [Ids -> Threads \cup {"none"}] BY <1>1 DEF TypeInv
    <3> QED BY <1>3, <3>1 DEF Threads
  <2>5. TypeInv' BY <1>1, <2>1, <2>2, <2>3, <2>4 DEF TypeInv
  <2>6. WaitInv'
    BY <1>1, <1>3, <2>1 DEF At, TypeInv, WaitInv, WorkerType, DataType, InBlock, Threads
  <2>7. FlagInv' BY <1>1, <1>3, <2>1 DEF At, TypeInv, FlagInv, WorkerType, Here
  <2> QED BY <2>5, <2>6, <2>7 DEF PreflightInv
<1> QED BY <1>2, <1>3 DEF StartService

LEMMA SetCbDataKeeps ==
  ASSUME PreflightInv, NEW w \in Ids, SetCbData(w)
  PROVE  PreflightInv'
<1>1. TypeInv /\ WaitInv /\ FlagInv BY DEF PreflightInv
<1>2. TypeInv'
  <2>1. worker' \in [Ids -> WorkerType]
    <3>1. worker \in [Ids -> WorkerType] BY <1>1 DEF TypeInv
    <3> QED BY <3>1 DEF SetCbData, Go, At, Here, WorkerType, Places
  <2>2. list' \in [Ids -> DeviceType]
    <3>1. list \in [Ids -> DeviceType] BY <1>1 DEF TypeInv
    <3> QED BY <3>1 DEF SetCbData, Go, At, Here, DeviceType
  <2> QED BY <1>1, <2>1, <2>2 DEF SetCbData, TypeInv
<1>3. WaitInv' BY <1>1 DEF SetCbData, Go, At, TypeInv, WaitInv, WorkerType, InBlock, Threads
<1>4. FlagInv' BY <1>1 DEF SetCbData, Go, At, TypeInv, FlagInv, WorkerType, Here
<1> QED BY <1>2, <1>3, <1>4 DEF PreflightInv

LEMMA SignalKeeps ==
  ASSUME PreflightInv, NEW w \in Ids, Signal(w)
  PROVE  PreflightInv'
<1>1. TypeInv /\ WaitInv /\ FlagInv BY DEF PreflightInv
<1>2. TypeInv'
  <2>1. worker' \in [Ids -> WorkerType]
    <3>1. worker \in [Ids -> WorkerType] BY <1>1 DEF TypeInv
    <3> QED BY <3>1 DEF Signal, Go, At, Signalled, WorkerType, Places
  <2>2. cb' \in [Ids -> DataType]
    <3>1. cb \in [Ids -> DataType] BY <1>1 DEF TypeInv
    <3> QED BY <3>1 DEF Signal, Go, At, Signalled, DataType
  <2> QED BY <1>1, <2>1, <2>2 DEF Signal, TypeInv
<1>3. WaitInv' BY <1>1 DEF Signal, Go, At, Signalled, TypeInv, WaitInv, WorkerType, InBlock, Threads
<1>4. FlagInv' BY <1>1 DEF Signal, Go, At, Signalled, TypeInv, FlagInv, WorkerType, Here
<1> QED BY <1>2, <1>3, <1>4 DEF PreflightInv

LEMMA UnsetCbDataKeeps ==
  ASSUME PreflightInv, NEW w \in Ids, UnsetCbData(w)
  PROVE  PreflightInv'
<1>1. TypeInv /\ WaitInv /\ FlagInv BY DEF PreflightInv
<1>2. TypeInv'
  <2>1. worker' \in [Ids -> WorkerType]
    <3>1. worker \in [Ids -> WorkerType] BY <1>1 DEF TypeInv
    <3> QED BY <3>1 DEF UnsetCbData, Go, At, Unset, WorkerType, Places
  <2>2. list' \in [Ids -> DeviceType]
    <3>1. list \in [Ids -> DeviceType] BY <1>1 DEF TypeInv
    <3> QED BY <3>1 DEF UnsetCbData, Go, At, Unset, DeviceType
  <2> QED BY <1>1, <2>1, <2>2 DEF UnsetCbData, TypeInv
<1>3. WaitInv' BY <1>1 DEF UnsetCbData, Go, At, Unset, TypeInv, WaitInv, WorkerType, InBlock, Threads
<1>4. FlagInv' BY <1>1 DEF UnsetCbData, Go, At, Unset, TypeInv, FlagInv, WorkerType, Here
<1> QED BY <1>2, <1>3, <1>4 DEF PreflightInv

LEMMA StopNotificationsKeeps ==
  ASSUME PreflightInv, NEW w \in Ids, StopNotifications(w)
  PROVE  PreflightInv'
<1>1. TypeInv /\ WaitInv /\ FlagInv BY DEF PreflightInv
<1>2. TypeInv'
  <2>1. worker' \in [Ids -> WorkerType]
    <3>1. worker \in [Ids -> WorkerType] BY <1>1 DEF TypeInv
    <3> QED BY <3>1 DEF StopNotifications, Go, At, WorkerType, Places
  <2>2. note' \in [Ids -> Threads \cup {"none"}]
    <3>1. note \in [Ids -> Threads \cup {"none"}] BY <1>1 DEF TypeInv
    <3> QED BY <3>1 DEF StopNotifications, Go, At, Threads
  <2> QED BY <1>1, <2>1, <2>2 DEF StopNotifications, TypeInv
<1>3. WaitInv' BY <1>1 DEF StopNotifications, Go, At, Returned, TypeInv, WaitInv, WorkerType, InBlock, Threads
<1>4. FlagInv' BY <1>1 DEF StopNotifications, Go, At, Returned, TypeInv, FlagInv, WorkerType, Here
<1> QED BY <1>2, <1>3, <1>4 DEF PreflightInv

LEMMA EndWaitKeeps ==
  ASSUME PreflightInv, NEW w \in Ids, EndWait(w)
  PROVE  PreflightInv'
<1>1. TypeInv /\ WaitInv /\ FlagInv BY DEF PreflightInv
<1>2. TypeInv'
  <2>1. worker' \in [Ids -> WorkerType]
    <3>1. worker \in [Ids -> WorkerType] BY <1>1 DEF TypeInv
    <3> QED BY <3>1 DEF EndWait, Go, At, NoData, WorkerType, Places
  <2>2. cb' \in [Ids -> DataType]
    <3>1. cb \in [Ids -> DataType] BY <1>1 DEF TypeInv
    <3> QED BY <3>1 DEF EndWait, Go, At, NoData, DataType
  <2> QED BY <1>1, <2>1, <2>2 DEF EndWait, TypeInv
<1>3. WaitInv' BY <1>1 DEF EndWait, Go, At, NoData, TypeInv, WaitInv, WorkerType, InBlock, Threads
<1>4. FlagInv' BY <1>1 DEF EndWait, Go, At, NoData, TypeInv, FlagInv, WorkerType, Here
<1> QED BY <1>2, <1>3, <1>4 DEF PreflightInv

LEMMA AnnounceKeeps ==
  ASSUME PreflightInv, NEW w \in Ids, Announce(w)
  PROVE  PreflightInv'
<1>1. TypeInv /\ WaitInv /\ FlagInv BY DEF PreflightInv
<1>2. TypeInv'
  <2>1. worker' \in [Ids -> WorkerType]
    <3>1. worker \in [Ids -> WorkerType] BY <1>1 DEF TypeInv
    <3> QED BY <3>1 DEF Announce, Go, At, Here, WorkerType, Places
  <2>2. list' \in [Ids -> DeviceType]
    <3>1. list \in [Ids -> DeviceType] BY <1>1 DEF TypeInv
    <3> DEFINE b == Here(w)
               r == [list[w] EXCEPT !.visible = b]
    <3>2. list' = [list EXCEPT ![w] = r] BY <3>1 DEF Announce
    <3>3. b \in BOOLEAN BY DEF Here
    <3> HIDE DEF b
    <3>4. r \in DeviceType
      <4>1. list[w] \in DeviceType BY <3>1
      <4> QED BY ONLY <3>3, <4>1 DEF DeviceType
    <3> HIDE DEF r
    <3> QED BY ONLY <3>1, <3>2, <3>4
  <2> QED BY <1>1, <2>1, <2>2 DEF Announce, TypeInv
<1>3. WaitInv' BY <1>1 DEF Announce, Go, At, TypeInv, WaitInv, WorkerType, InBlock, Threads
<1>4. FlagInv' BY <1>1 DEF Announce, Go, At, TypeInv, FlagInv, WorkerType, Here
<1> QED BY <1>2, <1>3, <1>4 DEF PreflightInv

LEMMA FinishKeeps ==
  ASSUME PreflightInv, NEW w \in Ids, Finish(w)
  PROVE  PreflightInv'
<1>1. TypeInv /\ WaitInv /\ FlagInv BY DEF PreflightInv
<1>2. TypeInv'
  <2>1. list' \in [Ids -> DeviceType]
    <3>1. list \in [Ids -> DeviceType] BY <1>1 DEF TypeInv
    <3> QED BY <3>1 DEF Finish, Here, DeviceType
  <2>2. worker' \in [Ids -> WorkerType]
    <3>1. worker \in [Ids -> WorkerType] BY <1>1 DEF TypeInv
    <3>2. Attempts \in Int BY PreflightAssumption
    <3>3. worker[w].gaveUp \in BOOLEAN BY <1>1 DEF TypeInv, WorkerType
    <3>4. [NewWorker EXCEPT !.at = "ended", !.gaveUp = worker[w].gaveUp] \in WorkerType
      BY <3>2, <3>3 DEF NewWorker, WorkerType, Places, Records
    <3> QED BY <3>1, <3>2, <3>3, <3>4 DEF Finish
  <2> QED BY <1>1, <2>1, <2>2 DEF Finish, TypeInv
<1>3. WaitInv' BY <1>1 DEF Finish, At, NewWorker, LockFree, TypeInv, WaitInv, WorkerType, InBlock, Threads
<1>4. FlagInv' BY <1>1 DEF Finish, At, NewWorker, LockFree, TypeInv, FlagInv, WorkerType, Here
<1> QED BY <1>2, <1>3, <1>4 DEF PreflightInv

\* np_callback changes only cb_data, and only while it lives.
LEMMA NotifiedKeeps ==
  ASSUME PreflightInv, NEW w \in Ids, Notified(w)
  PROVE  PreflightInv'
<1>1. TypeInv /\ WaitInv /\ FlagInv BY DEF PreflightInv
<1>2. TypeInv' BY <1>1 DEF Notified, TypeInv, WorkerType, Places, Threads
<1>3. WaitInv' BY <1>1 DEF Notified, TypeInv, WaitInv, WorkerType, InBlock, Threads
<1>4. FlagInv' BY <1>1 DEF Notified, TypeInv, FlagInv, WorkerType, Here
<1> QED BY <1>2, <1>3, <1>4 DEF PreflightInv

LEMMA CallbackPairsKeeps ==
  ASSUME PreflightInv, NEW w \in Ids, CallbackPairs(w)
  PROVE  PreflightInv'
<1>1. TypeInv /\ WaitInv /\ FlagInv BY DEF PreflightInv
<1>2. TypeInv'
  <2>1. cb' \in [Ids -> DataType]
    <3>1. cb \in [Ids -> DataType] BY <1>1 DEF TypeInv
    <3> QED BY <3>1 DEF CallbackPairs, Ask, Answers, Fails, Signalled, DataType
  <2>2. note' \in [Ids -> Threads \cup {"none"}]
    <3>1. note \in [Ids -> Threads \cup {"none"}] BY <1>1 DEF TypeInv
    <3> QED BY <3>1 DEF CallbackPairs, Ask, Answers, Fails, Signalled, Threads
  <2>3. requests' \subseteq RequestType
    <3>1. requests \subseteq RequestType BY <1>1 DEF TypeInv
    <3> QED BY <3>1 DEF CallbackPairs, Ask, Answers, Fails, Signalled, RequestType, Records, Ids
  <2> QED BY <1>1, <2>1, <2>2, <2>3 DEF CallbackPairs, TypeInv
<1>3. WaitInv'
  <2>1. note[w] = "pairing" /\ note' \in [Ids -> Threads \cup {"none"}]
    BY <1>2 DEF CallbackPairs, TypeInv
  <2>2. \A v \in Ids : cb'[v].alive = cb[v].alive
    BY <1>1 DEF CallbackPairs, Signalled, TypeInv, DataType
  <2>3. \A v \in Ids : note'[v] \in Threads => note[v] \in Threads
    BY <1>1, <2>1 DEF CallbackPairs, TypeInv, Threads
  <2>4. UNCHANGED <<list, worker>> BY DEF CallbackPairs
  <2> QED BY <1>1, <2>2, <2>3, <2>4 DEF WaitInv
<1>4. FlagInv' BY <1>1 DEF CallbackPairs, Ask, Answers, Fails, Signalled, TypeInv, FlagInv, WorkerType, Here
<1> QED BY <1>2, <1>3, <1>4 DEF PreflightInv

LEMMA CallbackSavedKeeps ==
  ASSUME PreflightInv, NEW w \in Ids, CallbackSaved(w)
  PROVE  PreflightInv'
<1>1. TypeInv /\ WaitInv /\ FlagInv BY DEF PreflightInv
<1>2. TypeInv'
  <2>1. cb' \in [Ids -> DataType]
    <3>1. cb \in [Ids -> DataType] BY <1>1 DEF TypeInv
    <3> QED BY <3>1 DEF CallbackSaved, Signalled, DataType
  <2>2. note' \in [Ids -> Threads \cup {"none"}]
    <3>1. note \in [Ids -> Threads \cup {"none"}] BY <1>1 DEF TypeInv
    <3> QED BY <3>1 DEF CallbackSaved, Threads
  <2> QED BY <1>1, <2>1, <2>2 DEF CallbackSaved, TypeInv
<1>3. WaitInv' BY <1>1 DEF CallbackSaved, Signalled, TypeInv, WaitInv, WorkerType, InBlock, Threads
<1>4. FlagInv' BY <1>1 DEF CallbackSaved, Signalled, TypeInv, FlagInv, WorkerType, Here
<1> QED BY <1>2, <1>3, <1>4 DEF PreflightInv

LEMMA CallbackEndsKeeps ==
  ASSUME PreflightInv, NEW w \in Ids, CallbackEnds(w)
  PROVE  PreflightInv'
<1>1. TypeInv /\ WaitInv /\ FlagInv BY DEF PreflightInv
<1>2. TypeInv'
  <2>1. cb' \in [Ids -> DataType]
    <3>1. cb \in [Ids -> DataType] BY <1>1 DEF TypeInv
    <3> QED BY <3>1 DEF CallbackEnds, EmptyNotification, DataType
  <2>2. note' \in [Ids -> Threads \cup {"none"}]
    <3>1. note \in [Ids -> Threads \cup {"none"}] BY <1>1 DEF TypeInv
    <3> QED BY <3>1 DEF CallbackEnds, Threads
  <2> QED BY <1>1, <2>1, <2>2 DEF CallbackEnds, TypeInv
<1>3. WaitInv' BY <1>1 DEF CallbackEnds, EmptyNotification, TypeInv, WaitInv, WorkerType, InBlock, Threads
<1>4. FlagInv' BY <1>1 DEF CallbackEnds, EmptyNotification, TypeInv, FlagInv, WorkerType, Here
<1> QED BY <1>2, <1>3, <1>4 DEF PreflightInv

\* The main thread, the user and other clients.
LEMMA ArriveKeeps ==
  ASSUME PreflightInv, NEW d \in Ids, Arrive(d)
  PROVE  PreflightInv'
<1>1. TypeInv /\ WaitInv /\ FlagInv BY DEF PreflightInv
<1>2. TypeInv'
  <2>1. list' \in [Ids -> DeviceType]
    <3>1. list \in [Ids -> DeviceType] BY <1>1 DEF TypeInv
    <3> QED BY <3>1 DEF Arrive, DeviceType
  <2>2. main' \in MainType
    <3>1. main \in MainType BY <1>1 DEF TypeInv
    <3>2. d \in 0..MaxId BY DEF Ids
    <3>3. main' = [at |-> "starting", id |-> d, rec |-> "none", by |-> "none"]
      BY DEF Arrive, Idle
    <3> QED BY <3>2, <3>3 DEF Records, MainType
  <2>3. worker' \in [Ids -> WorkerType]
    <3>1. worker \in [Ids -> WorkerType] BY <1>1 DEF TypeInv
    <3>2. Attempts \in Int BY PreflightAssumption
    <3>3. NewWorker \in WorkerType BY <3>2 DEF NewWorker, WorkerType, Places, Records
    <3> QED BY <3>1, <3>2, <3>3 DEF Arrive
  <2> QED BY <1>1, <2>1, <2>2, <2>3 DEF Arrive, TypeInv
<1>3. WaitInv' BY <1>1 DEF Arrive, NewWorker, Idle, TypeInv, WaitInv, WorkerType, InBlock, Threads
<1>4. FlagInv' BY <1>1 DEF Arrive, NewWorker, Idle, TypeInv, FlagInv, WorkerType, Here
<1> QED BY <1>2, <1>3, <1>4 DEF PreflightInv

LEMMA StartedKeeps ==
  ASSUME PreflightInv, Started
  PROVE  PreflightInv'
<1>1. TypeInv /\ WaitInv /\ FlagInv BY DEF PreflightInv
<1>2. TypeInv'
  <2>1. list' \in [Ids -> DeviceType]
    <3>1. list \in [Ids -> DeviceType] BY <1>1 DEF TypeInv
    <3> QED BY <3>1 DEF Started, DeviceType
  <2>2. main' \in MainType
    <3>1. main \in MainType BY <1>1 DEF TypeInv
    <3>2. 0 \in 0..MaxId BY PreflightAssumption
    <3> QED BY <3>1, <3>2 DEF Started, Idle, Records, MainType
  <2> QED BY <1>1, <2>1, <2>2 DEF Started, TypeInv
<1>3. WaitInv' BY <1>1 DEF Started, Idle, TypeInv, WaitInv, WorkerType, InBlock, Threads
<1>4. FlagInv' BY <1>1 DEF Started, Idle, TypeInv, FlagInv, WorkerType, Here
<1> QED BY <1>2, <1>3, <1>4 DEF PreflightInv

LEMMA RemoveKeeps ==
  ASSUME PreflightInv, NEW d \in Ids, Remove(d)
  PROVE  PreflightInv'
<1>1. TypeInv /\ WaitInv /\ FlagInv BY DEF PreflightInv
<1>2. TypeInv'
  <2>1. list' \in [Ids -> DeviceType]
    <3>1. list \in [Ids -> DeviceType] BY <1>1 DEF TypeInv
    <3> QED BY <3>1 DEF Remove, NoDevice, DeviceType
  <2>2. cb' \in [Ids -> DataType]
    <3>1. cb \in [Ids -> DataType] BY <1>1 DEF TypeInv
    <3> QED BY <3>1 DEF Remove, DataType
  <2> QED BY <1>1, <2>1, <2>2 DEF Remove, TypeInv
<1>3. WaitInv' BY <1>1 DEF Remove, NoDevice, Idle, TypeInv, WaitInv, WorkerType, InBlock, Threads
<1>4. FlagInv' BY <1>1 DEF Remove, NoDevice, Idle, TypeInv, FlagInv, WorkerType, Here
<1> QED BY <1>2, <1>3, <1>4 DEF PreflightInv

LEMMA OpenKeeps ==
  ASSUME PreflightInv, Open
  PROVE  PreflightInv'
<1>1. TypeInv /\ WaitInv /\ FlagInv BY DEF PreflightInv
<1>2. TypeInv'
  <2>1. file' \in Records
    <3>1. file \in Records /\ main \in MainType BY <1>1 DEF TypeInv
    <3> QED BY <3>1 DEF Open, Records
  <2>2. main' \in MainType
    <3>1. main \in MainType BY <1>1 DEF TypeInv
    <3> QED BY <3>1 DEF Open, MainType
  <2> QED BY <1>1, <2>1, <2>2 DEF Open, TypeInv
<1>3. WaitInv' BY <1>1 DEF Open, TypeInv, WaitInv, WorkerType, InBlock, Threads
<1>4. FlagInv' BY <1>1 DEF Open, TypeInv, FlagInv, WorkerType, Here
<1> QED BY <1>2, <1>3, <1>4 DEF PreflightInv

LEMMA WriteKeeps ==
  ASSUME PreflightInv, Write
  PROVE  PreflightInv'
<1>1. TypeInv /\ WaitInv /\ FlagInv BY DEF PreflightInv
<1>2. TypeInv'
  <2>1. file' \in Records
    <3>1. file \in Records /\ main \in MainType BY <1>1 DEF TypeInv
    <3> QED BY <3>1 DEF Write, MainType, Records
  <2>2. main' \in MainType
    <3>1. main \in MainType BY <1>1 DEF TypeInv
    <3>2. 0 \in 0..MaxId BY PreflightAssumption
    <3> QED BY <3>1, <3>2 DEF Write, Idle, Records, MainType
  <2>3. requests' \subseteq RequestType
    <3>1. requests \subseteq RequestType BY <1>1 DEF TypeInv
    <3> QED BY <3>1 DEF Write, Asked, RequestType, Records, Ids
  <2> QED BY <1>1, <2>1, <2>2, <2>3 DEF Write, TypeInv
<1>3. WaitInv' BY <1>1 DEF Write, Idle, Asked, TypeInv, WaitInv, WorkerType, InBlock, Threads
<1>4. FlagInv' BY <1>1 DEF Write, Idle, Asked, TypeInv, FlagInv, WorkerType, Here
<1> QED BY <1>2, <1>3, <1>4 DEF PreflightInv

LEMMA DecideKeeps ==
  ASSUME PreflightInv, Decide
  PROVE  PreflightInv'
<1>1. TypeInv /\ WaitInv /\ FlagInv BY DEF PreflightInv
<1>2. TypeInv' BY <1>1 DEF Decide, TypeInv, WorkerType, Places, Records, Ids
<1>3. WaitInv' BY <1>1 DEF Decide, TypeInv, WaitInv, WorkerType, InBlock, Threads
<1>4. FlagInv' BY <1>1 DEF Decide, TypeInv, FlagInv, WorkerType, Here
<1> QED BY <1>2, <1>3, <1>4 DEF PreflightInv

LEMMA OtherClientKeeps ==
  ASSUME PreflightInv, OtherClient
  PROVE  PreflightInv'
<1>1. TypeInv /\ WaitInv /\ FlagInv BY DEF PreflightInv
<1>2. TypeInv'
  <2>1. requests' \subseteq RequestType
    <3>1. requests \subseteq RequestType BY <1>1 DEF TypeInv
    <3>2. 0 \in 0..MaxId BY PreflightAssumption
    <3> QED BY <3>1, <3>2 DEF OtherClient, RequestType, Records, Ids
  <2> QED BY <1>1, <2>1 DEF OtherClient, TypeInv
<1>3. WaitInv' BY <1>1 DEF OtherClient, TypeInv, WaitInv, WorkerType, InBlock, Threads
<1>4. FlagInv' BY <1>1 DEF OtherClient, TypeInv, FlagInv, WorkerType, Here
<1> QED BY <1>2, <1>3, <1>4 DEF PreflightInv

LEMMA TakeRequestKeeps ==
  ASSUME PreflightInv, NEW by \in {"worker", "callback", "client"}, NEW d \in 0..MaxId,
         TakeRequest(by, d)
  PROVE  PreflightInv'
<1>1. TypeInv /\ WaitInv /\ FlagInv BY DEF PreflightInv
<1>2. TypeInv'
  <2>1. main' \in MainType
    <3>1. main \in MainType /\ requests \subseteq RequestType BY <1>1 DEF TypeInv
    <3> QED BY <3>1 DEF TakeRequest, Asked, RequestType, MainType
  <2>2. requests' \subseteq RequestType
    <3>1. requests \subseteq RequestType BY <1>1 DEF TypeInv
    <3> QED BY <3>1 DEF TakeRequest, Asked, RequestType, Records, Ids
  <2>3. file' \in Records
    <3>1. file \in Records /\ main \in MainType BY <1>1 DEF TypeInv
    <3> QED BY <3>1 DEF TakeRequest, Records
  <2> QED BY <1>1, <2>1, <2>2, <2>3 DEF TakeRequest, TypeInv
<1>3. WaitInv' BY <1>1 DEF TakeRequest, WaitInv
<1>4. FlagInv' BY <1>1 DEF TakeRequest, Asked, TypeInv, FlagInv, Here
<1> QED BY <1>2, <1>3, <1>4 DEF PreflightInv

\* No step of any thread breaks the invariant: each action of the main thread, of a
\* worker, of a callback, of the user and of other clients has its lemma above.
LEMMA PreflightInvNext == PreflightInv /\ [Next]_vars => PreflightInv'
<1> SUFFICES ASSUME PreflightInv, [Next]_vars PROVE PreflightInv' OBVIOUS
<1>1. CASE UNCHANGED vars
  <2>1. TypeInv' BY <1>1 DEF PreflightInv, TypeInv, vars
  <2>2. WaitInv' BY <1>1 DEF PreflightInv, WaitInv, vars
  <2>3. FlagInv' BY <1>1 DEF PreflightInv, FlagInv, Here, vars
  <2> QED BY <2>1, <2>2, <2>3 DEF PreflightInv
<1>2. CASE Started \/ Open \/ Write \/ Decide \/ OtherClient
  BY <1>2, StartedKeeps, OpenKeeps, WriteKeeps, DecideKeeps, OtherClientKeeps
<1>3. ASSUME NEW d \in Ids, Arrive(d) \/ Remove(d)
      PROVE  PreflightInv'
  BY <1>3, ArriveKeeps, RemoveKeeps
<1>4. ASSUME NEW by \in {"worker", "callback"}, NEW d \in Ids, TakeRequest(by, d)
      PROVE  PreflightInv'
  <2>1. d \in 0..MaxId BY DEF Ids
  <2> QED BY <1>4, <2>1, TakeRequestKeeps
<1>5. CASE TakeRequest("client", 0)
  <2>1. 0 \in 0..MaxId BY PreflightAssumption
  <2> QED BY <1>5, <2>1, TakeRequestKeeps
<1>6. ASSUME NEW w \in Ids, Worker(w)
      PROVE  PreflightInv'
  BY <1>6, ConnectLockdownKeeps, CheckKeeps, RecheckKeeps, HostIdKeeps, StartSessionKeeps,
     DropKeeps, VersionKeeps, PairFirstKeeps, SavedKeeps, Pair6Keeps, Session6Keeps,
     StartServiceKeeps, SetCbDataKeeps, LoopKeeps, SignalKeeps, UnsetCbDataKeeps,
     StopNotificationsKeeps, EndWaitKeeps, AnnounceKeeps, FinishKeeps DEF Worker
<1>7. ASSUME NEW w \in Ids, Notified(w) \/ Callback(w)
      PROVE  PreflightInv'
  BY <1>7, NotifiedKeeps, CallbackPairsKeeps, CallbackSavedKeeps, CallbackEndsKeeps DEF Callback
<1> QED BY <1>1, <1>2, <1>3, <1>4, <1>5, <1>6, <1>7 DEF Next

\* The invariant of the preflight workers holds in every reachable state, for any
\* number of devices, versions, attempts and faults.
THEOREM PreflightCorrect == Spec => []PreflightInv
<1> QED BY PreflightInvInit, PreflightInvNext, PTL DEF Spec

\* cb_data, which is on the worker's stack, outlives its use by the main thread
\* (preflight_device_remove_cb) and by np_callback: the worker leaves its block only
\* after it has unset the one (device.cpp:1075) and stopped the other
\* (np_set_notify_callback(NULL)).
THEOREM CbDataAlwaysAlive == Spec => []CbDataAlive
<1>1. PreflightInv => CbDataAlive
  BY DEF PreflightInv, TypeInv, WaitInv, CbDataAlive, Threads
<1> QED BY <1>1, PreflightCorrect, PTL

\* is_preflight_worker_running says whether the worker runs, although it is set
\* after the worker was started (device.cpp:760-761): device_list_mutex, which
\* device_process_sockets holds meanwhile, keeps device_preflight_finished waiting.
THEOREM FlagAlwaysMatches == Spec => []FlagMatchesWorker
<1>1. PreflightInv => FlagMatchesWorker
  BY DEF PreflightInv, FlagInv, FlagMatchesWorker, Here
<1> QED BY <1>1, PreflightCorrect, PTL
=============================================================================
