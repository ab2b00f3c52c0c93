------------------------------ MODULE BytePipe ------------------------------
(***************************************************************************)
(* What a tunnelled connection promises its two users, without packets,    *)
(* windows or a main loop: two bounded pipes of bytes between the client   *)
(* socket and the device.  Bytes only ever move from one place to the      *)
(* next; they disappear only with the end that was to receive them.        *)
(***************************************************************************)
EXTENDS Integers

CONSTANTS
  UpBound,   \* bytes the device may have sent that the socket has not got yet
  DownBound  \* bytes taken from the socket that the device has not consumed yet

VARIABLES
  state, \* "idle", "open" or "done"
  app,   \* the application's end is up
  devUp, \* the device's end is up
  up,    \* bytes sent by the device, not yet in the socket
  out,   \* bytes in the socket, not yet read by the application
  in,    \* bytes written by the application, still in the socket
  down   \* bytes taken from the socket, not yet consumed by the device

vars == <<state, app, devUp, up, out, in, down>>

Init ==
  /\ state = "idle" /\ app = TRUE /\ devUp = FALSE
  /\ up = 0 /\ out = 0 /\ in = 0 /\ down = 0

DeviceOpens ==
  /\ state # "open" /\ ~devUp /\ devUp' = TRUE
  /\ UNCHANGED <<state, app, up, out, in, down>>

Opens ==
  /\ state = "idle" /\ state' = "open"
  /\ UNCHANGED <<app, devUp, up, out, in, down>>

DeviceSends ==
  /\ devUp /\ up' > up /\ up' <= UpBound
  /\ UNCHANGED <<state, app, devUp, out, in, down>>

DeviceConsumes ==
  /\ devUp /\ down' < down /\ down' >= 0
  /\ UNCHANGED <<state, app, devUp, up, out, in>>

DeviceEnds ==
  /\ devUp /\ devUp' = FALSE /\ down' = 0
  /\ UNCHANGED <<state, app, up, out, in>>

AppWrites ==
  /\ app /\ state = "open" /\ in' > in
  /\ UNCHANGED <<state, app, devUp, up, out, down>>

AppReads ==
  /\ app /\ out' < out /\ out' >= 0
  /\ UNCHANGED <<state, app, devUp, up, in, down>>

AppEnds ==
  /\ app /\ app' = FALSE /\ out' = 0
  /\ UNCHANGED <<state, devUp, up, in, down>>

\* n bytes go to the socket and m bytes leave it, in one step.
Transfers ==
  /\ state = "open"
  /\ \E n \in 0 .. up, m \in 0 .. in :
       /\ up' = up - n /\ out' = IF app THEN out + n ELSE out
       /\ in' = in - m /\ down' = IF devUp THEN down + m ELSE down
       /\ down' <= DownBound
  /\ UNCHANGED <<state, app, devUp>>

\* The connection ends; a part of what came from the device may still get out.
Ends ==
  /\ state # "done" /\ state' = "done" /\ up' = 0
  /\ \E n \in 0 .. up : out' = out + n
  /\ UNCHANGED <<app, devUp, in, down>>

Next ==
  \/ DeviceOpens \/ Opens \/ DeviceSends \/ DeviceConsumes \/ DeviceEnds
  \/ AppWrites \/ AppReads \/ AppEnds \/ Transfers \/ Ends

Spec == Init /\ [][Next]_vars
=============================================================================
