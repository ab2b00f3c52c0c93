-------------------------- MODULE MCMuxConnection --------------------------
(***************************************************************************)
(* MuxConnection as TLC runs it, and the mapping under which it implements *)
(* BytePipe: a pipe holds what is in a buffer and what is in the packets   *)
(* on their way to it.                                                     *)
(***************************************************************************)
EXTENDS MuxConnection

Payload(chan) ==
  LET sum[i \in 0 .. Len(chan)] == IF i = 0 THEN 0 ELSE sum[i - 1] + chan[i].len
  IN  sum[Len(chan)]

Alive == dev.state \in {"SYN_RCVD", "OPEN"}

PipeState ==
  IF conn.state = "CONNECTED" THEN "open" ELSE IF client.state = "FREED" THEN "done" ELSE "idle"
AppUp == sock.peer = "open"
UpBytes == IF conn.state = "CONNECTED" THEN conn.ib_size + Payload(d2h) ELSE 0
DownBytes == IF Alive THEN dev.buf + Payload(h2d) ELSE 0

Pipe == INSTANCE BytePipe WITH
  UpBound <- InBufSize, DownBound <- DevBufSize,
  state <- PipeState, app <- AppUp, devUp <- Alive,
  up <- UpBytes, out <- sock.out, in <- sock.in, down <- DownBytes

\* The connection implements the pair of bounded pipes: no handler of device.cpp
\* or client.cpp loses, repeats or invents a byte while both ends are up, and
\* neither end is ever sent more than it has room for.
PipeSpec == Pipe!Spec
=============================================================================
