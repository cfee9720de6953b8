--------------------------------- MODULE Pump ---------------------------------
(***************************************************************************)
(* pump() of detail/forwarding.ipp: the poll loop that copies bytes        *)
(* between a Channel and a local socket for LocalForward, RemoteForward,   *)
(* SocksProxy, BidirectionalPump and X11Forwarder.                         *)
(*                                                                         *)
(* Both streams are first-in first-out, so bytes are counted, not named.   *)
(* The loop is one thread; its peers (the far end of the channel, and the  *)
(* local client behind the socket) run concurrently with every step of it. *)
(* The socket is a blocking one: ::send() waits for room in its buffer,    *)
(* and the session is a blocking one: try_write_all() waits for the far    *)
(* end's window.                                                           *)
(***************************************************************************)
EXTENDS Integers

CONSTANTS
  MaxBytes,    \* bound: bytes each peer sends
  BufferSize,  \* buffer_size, the most one iteration copies
  SocketRoom,  \* bytes the kernel buffers in each direction of the socket
  Window,      \* bytes the far end takes before it has read them
  Faults       \* BOOLEAN: the socket is reset, the session or the channel lost

ASSUME PumpAssumption ==
  /\ MaxBytes \in Nat
  /\ BufferSize \in Nat \ {0}
  /\ SocketRoom \in Nat \ {0}
  /\ Window \in Nat \ {0}
  /\ Faults \in BOOLEAN

VARIABLES
  pc,                       \* where the loop is
  stop,                     \* stop_requested
  client_eof, channel_eof,
  chunk,                    \* *r: what the last read from the channel returned
  left,                     \* the part of chunk that ::send() has yet to take
  got,                      \* n: what recv() returned
  rest,                     \* the part of it that try_write_all() has yet to write
  sent, avail, remote,      \* far end: bytes sent, those still buffered, its state
  taken, toClient, shut,    \* bytes ::send() took, those unread, SHUT_WR done
  typed, queued, sock,      \* client: bytes sent, those not received, its state
  written, eofSent,         \* bytes written to the channel, EOF sent on it
  window,                   \* bytes the far end takes at the moment
  bytes_in, bytes_out,      \* ForwardStats
  link                      \* the session is connected

chanSide == <<sent, avail, remote, link>>
sockOut == <<taken, toClient, shut>>
sockIn == <<typed, queued, sock>>
chanOut == <<written, eofSent, window>>
stats == <<bytes_in, bytes_out>>
flags == <<client_eof, channel_eof>>
sending == <<chunk, left>>
writing == <<got, rest>>
buffer == <<sending, writing>>

vars == <<pc, stop, flags, buffer, chanSide, sockOut, sockIn, chanOut, stats>>

Min(a, b) == IF a < b THEN a ELSE b

Init ==
  /\ pc = "loop"
  /\ stop = FALSE /\ client_eof = FALSE /\ channel_eof = FALSE
  /\ chunk = 0 /\ left = 0 /\ got = 0 /\ rest = 0
  /\ sent = 0 /\ avail = 0 /\ remote = "open"
  /\ taken = 0 /\ toClient = 0 /\ shut = FALSE
  /\ typed = 0 /\ queued = 0 /\ sock = "open"
  /\ written = 0 /\ eofSent = FALSE /\ window = Window
  /\ bytes_in = 0 /\ bytes_out = 0
  /\ link = TRUE

-----------------------------------------------------------------------------
(* Fault: stop_requested is not looked at.                                  *)
LoopIgnoresStop ==
  /\ pc = "loop"
  /\ pc' = IF client_eof /\ channel_eof THEN "close"
           ELSE IF channel_eof THEN "client" ELSE "channel"
  /\ UNCHANGED <<stop, flags, buffer, chanSide, sockOut, sockIn, chanOut, stats>>

(* The loop condition.                                                      *)
Loop ==
  /\ pc = "loop"
  /\ pc' = IF stop \/ (client_eof /\ channel_eof) THEN "close"
           ELSE IF channel_eof THEN "client" ELSE "channel"
  /\ UNCHANGED <<stop, flags, buffer, chanSide, sockOut, sockIn, chanOut, stats>>

(* try_bytes_available() and try_read_some(); both fail on a lost session.  *)
ReadChannel ==
  /\ pc = "channel"
  /\ IF link /\ avail > 0
     THEN \E n \in {Min(avail, BufferSize)} :
            /\ chunk' = n /\ left' = n
            /\ avail' = avail - n
            /\ pc' = "send"
     ELSE /\ pc' = "eof"
          /\ UNCHANGED <<sending, avail>>
  /\ UNCHANGED <<stop, flags, writing, sent, remote, link, sockOut, sockIn, chanOut, stats>>

(* ::send() on a blocking socket goes on while there is room ...            *)
SendSome ==
  /\ pc = "send" /\ left > 0 /\ sock # "reset" /\ toClient < SocketRoom
  /\ \E k \in {Min(left, SocketRoom - toClient)} :
       /\ left' = left - k
       /\ taken' = taken + k
       /\ toClient' = toClient + k
  /\ UNCHANGED <<pc, stop, flags, chunk, writing, chanSide, shut, sockIn, chanOut, stats>>

(* ... and its result is not looked at: an error drops what is left, and    *)
(* bytes_out counts it all the same ...                                     *)
SendDone ==
  /\ pc = "send" /\ (left = 0 \/ sock = "reset")
  /\ bytes_out' = bytes_out + chunk
  /\ chunk' = 0 /\ left' = 0
  /\ pc' = "eof"
  /\ UNCHANGED <<stop, flags, writing, chanSide, sockOut, sockIn, chanOut, bytes_in>>

(* ... but it is called without MSG_NOSIGNAL: on a socket that was reset it *)
(* may raise SIGPIPE, which ends a process that does not ignore it.         *)
SendKills ==
  /\ pc = "send" /\ left > 0 /\ sock = "reset"
  /\ pc' = "killed"
  /\ UNCHANGED <<stop, flags, buffer, chanSide, sockOut, sockIn, chanOut, stats>>

(* ssh_channel_is_eof(): the far end is finished and its bytes are read.    *)
IsEof == remote # "open" /\ avail = 0

(* Fault: EOF as soon as the far end announces it.                          *)
CheckEofEarly ==
  /\ pc = "eof"
  /\ IF remote # "open"
     THEN channel_eof' = TRUE /\ shut' = TRUE
     ELSE UNCHANGED <<channel_eof, shut>>
  /\ pc' = IF client_eof THEN "loop" ELSE "client"
  /\ UNCHANGED <<stop, client_eof, buffer, chanSide, taken, toClient, sockIn, chanOut, stats>>

(* Fault: the socket is shut down, but channel_eof is not set.              *)
CheckEofForgets ==
  /\ pc = "eof"
  /\ shut' = (shut \/ IsEof)
  /\ pc' = IF client_eof THEN "loop" ELSE "client"
  /\ UNCHANGED <<stop, flags, buffer, chanSide, taken, toClient, sockIn, chanOut, stats>>

CheckEof ==
  /\ pc = "eof"
  /\ IF IsEof
     THEN channel_eof' = TRUE /\ shut' = TRUE
     ELSE UNCHANGED <<channel_eof, shut>>
  /\ pc' = IF client_eof THEN "loop" ELSE "client"
  /\ UNCHANGED <<stop, client_eof, buffer, chanSide, taken, toClient, sockIn, chanOut, stats>>

(* Writing to the channel works.                                            *)
Writable == link /\ remote # "closed"

(* ::poll() reports data: recv().                                           *)
ReadClient ==
  /\ pc = "client" /\ queued > 0 /\ sock # "reset"
  /\ \E n \in {Min(queued, BufferSize)} :
       /\ got' = n /\ rest' = n
       /\ queued' = queued - n
  /\ pc' = "write"
  /\ UNCHANGED <<stop, flags, sending, chanSide, sockOut, typed, sock, chanOut, stats>>

(* try_write_all() goes on while the window is open ...                     *)
WriteSome ==
  /\ pc = "write" /\ rest > 0 /\ Writable /\ window > 0
  /\ \E k \in {Min(rest, window)} :
       /\ rest' = rest - k
       /\ written' = written + k
       /\ window' = window - k
  /\ UNCHANGED <<pc, stop, flags, sending, got, chanSide, sockOut, sockIn, eofSent, stats>>

(* Fault: a write that the window cuts short is taken for a whole one.      *)
WriteDoneAnyway ==
  /\ pc = "write" /\ (rest = 0 \/ ~Writable \/ window = 0)
  /\ bytes_in' = bytes_in + got
  /\ got' = 0 /\ rest' = 0
  /\ pc' = "loop"
  /\ UNCHANGED <<stop, flags, sending, chanSide, sockOut, sockIn, chanOut, bytes_out>>

(* ... and its result is ignored: an error drops what is left.              *)
WriteDone ==
  /\ pc = "write" /\ (rest = 0 \/ ~Writable)
  /\ bytes_in' = bytes_in + got
  /\ got' = 0 /\ rest' = 0
  /\ pc' = "loop"
  /\ UNCHANGED <<stop, flags, sending, chanSide, sockOut, sockIn, chanOut, bytes_out>>

(* recv() returns 0, or -1 for a reset: EOF is sent either way.             *)
ClientEnded ==
  /\ pc = "client" /\ (sock = "reset" \/ (sock = "eof" /\ queued = 0))
  /\ client_eof' = TRUE
  /\ eofSent' = Writable
  /\ pc' = "loop"
  /\ UNCHANGED <<stop, channel_eof, buffer, chanSide, sockOut, sockIn, written, window, stats>>

(* ::poll() times out.                                                      *)
ClientQuiet ==
  /\ pc = "client" /\ sock = "open" /\ queued = 0
  /\ pc' = "loop"
  /\ UNCHANGED <<stop, flags, buffer, chanSide, sockOut, sockIn, chanOut, stats>>

(* channel.try_close() and ::close(client_fd).                              *)
Close ==
  /\ pc = "close"
  /\ pc' = "done"
  /\ UNCHANGED <<stop, flags, buffer, chanSide, sockOut, sockIn, chanOut, stats>>

PumpStep ==
  \/ Loop \/ ReadChannel \/ SendSome \/ SendDone \/ SendKills \/ CheckEof
  \/ ReadClient \/ WriteSome \/ WriteDone \/ ClientEnded \/ ClientQuiet \/ Close

(* pump() has returned, or its process is gone.                             *)
Over == pc \in {"done", "killed"}

-----------------------------------------------------------------------------
(* The far end of the channel.                                              *)
RemoteSends ==
  /\ ~Over /\ link /\ remote = "open" /\ sent < MaxBytes
  /\ sent' = sent + 1 /\ avail' = avail + 1
  /\ UNCHANGED <<pc, stop, flags, buffer, remote, link, sockOut, sockIn, chanOut, stats>>

RemoteEof ==
  /\ ~Over /\ link /\ remote = "open"
  /\ remote' = "eof"
  /\ UNCHANGED <<pc, stop, flags, buffer, sent, avail, link, sockOut, sockIn, chanOut, stats>>

RemoteReads ==
  /\ ~Over /\ link /\ window < Window
  /\ window' = window + 1
  /\ UNCHANGED <<pc, stop, flags, buffer, chanSide, sockOut, sockIn, written, eofSent, stats>>

(* A close implies EOF, and nothing more can be written.                    *)
RemoteCloses ==
  /\ Faults /\ ~Over /\ link /\ remote # "closed"
  /\ remote' = "closed"
  /\ UNCHANGED <<pc, stop, flags, buffer, sent, avail, link, sockOut, sockIn, chanOut, stats>>

SessionLost ==
  /\ Faults /\ ~Over /\ link
  /\ link' = FALSE
  /\ UNCHANGED <<pc, stop, flags, buffer, sent, avail, remote, sockOut, sockIn, chanOut, stats>>

(* The local client.                                                        *)
ClientSends ==
  /\ ~Over /\ sock = "open" /\ typed < MaxBytes /\ queued < SocketRoom
  /\ typed' = typed + 1 /\ queued' = queued + 1
  /\ UNCHANGED <<pc, stop, flags, buffer, chanSide, sockOut, sock, chanOut, stats>>

ClientReads ==
  /\ ~Over /\ toClient > 0
  /\ toClient' = toClient - 1
  /\ UNCHANGED <<pc, stop, flags, buffer, chanSide, taken, shut, sockIn, chanOut, stats>>

ClientEof ==
  /\ ~Over /\ sock = "open"
  /\ sock' = "eof"
  /\ UNCHANGED <<pc, stop, flags, buffer, chanSide, sockOut, typed, queued, chanOut, stats>>

(* A reset discards what is on its way in both directions.                  *)
ClientResets ==
  /\ Faults /\ ~Over /\ sock # "reset"
  /\ sock' = "reset" /\ queued' = 0 /\ toClient' = 0
  /\ UNCHANGED <<pc, stop, flags, buffer, chanSide, taken, shut, typed, chanOut, stats>>

(* stop() of the object that runs the pump, from any thread.                *)
RequestStop ==
  /\ ~Over /\ ~stop
  /\ stop' = TRUE
  /\ UNCHANGED <<pc, flags, buffer, chanSide, sockOut, sockIn, chanOut, stats>>

Terminated ==
  /\ Over
  /\ UNCHANGED vars

Next ==
  \/ PumpStep
  \/ RemoteSends \/ RemoteReads \/ RemoteEof \/ RemoteCloses \/ SessionLost
  \/ ClientSends \/ ClientReads \/ ClientEof \/ ClientResets
  \/ RequestStop \/ Terminated

Spec == Init /\ [][Next]_vars

(* The pump's thread is scheduled; nothing is assumed of its peers.         *)
FairSpec == Spec /\ WF_vars(PumpStep)

(* The two calls in which the pump waits for a peer, with no time limit:    *)
(* ::send() for a client that does not read, try_write_all() for a far end  *)
(* that does not.                                                           *)
Blocked ==
  \/ pc = "send" /\ left > 0 /\ sock # "reset" /\ toClient = SocketRoom
  \/ pc = "write" /\ rest > 0 /\ Writable /\ window = 0

-----------------------------------------------------------------------------
(* The values of the variables; the socket buffers keep their bound.        *)
TypeOK ==
  /\ pc \in {"loop", "channel", "send", "eof", "client", "write", "close", "done", "killed"}
  /\ stop \in BOOLEAN /\ client_eof \in BOOLEAN /\ channel_eof \in BOOLEAN
  /\ chunk \in 0..BufferSize /\ left \in 0..chunk
  /\ got \in 0..BufferSize /\ rest \in 0..got
  /\ sent \in 0..MaxBytes /\ avail \in 0..sent /\ remote \in {"open", "eof", "closed"}
  /\ taken \in 0..sent /\ toClient \in 0..SocketRoom /\ shut \in BOOLEAN
  /\ typed \in 0..MaxBytes /\ queued \in 0..SocketRoom /\ sock \in {"open", "eof", "reset"}
  /\ written \in 0..typed /\ eofSent \in BOOLEAN /\ window \in 0..Window
  /\ bytes_in \in 0..typed /\ bytes_out \in 0..sent
  /\ link \in BOOLEAN

(* No byte disappears between the channel and the socket, or between the    *)
(* socket and the channel, except through a fault of the side it was to be  *)
(* handed to (forwarding.ipp:102-127).                                      *)
NothingLost ==
  /\ sock # "reset" => sent = taken + left + avail
  /\ (sock # "reset" /\ Writable) => typed = written + rest + queued

(* EOF is passed on behind the data, in both directions: the socket is shut *)
(* down when it was given all that the far end sent, the channel gets EOF   *)
(* when it was given all that the client sent (forwarding.ipp:113-116,      *)
(* 128-131; rules 1 and 2 of docs/design/07-api-forwarding.md:225-226).     *)
EofAfterData ==
  /\ (shut /\ sock # "reset") => taken = sent
  /\ (eofSent /\ sock = "eof") => written = typed

(* The pump implements Relay.  "out" is the stream from the channel to the  *)
(* socket, "in" the one from the socket to the channel.  A reset socket     *)
(* breaks both, a closed channel or a lost session the one towards it; both *)
(* flags of the loop, the buffer and what libssh and the kernel hold are    *)
(* hidden.  Nothing may follow an end of file that was passed on, also not  *)
(* after a fault or a stop, and only both ends of file, a stop, or SIGPIPE  *)
(* on a reset socket end the loop (forwarding.ipp:99-140).                  *)
R == INSTANCE Relay WITH
       sent <- [d \in {"out", "in"} |-> IF d = "out" THEN sent ELSE typed],
       passed <- [d \in {"out", "in"} |-> IF d = "out" THEN taken ELSE written],
       counted <- [d \in {"out", "in"} |-> IF d = "out" THEN bytes_out ELSE bytes_in],
       ended <- {d \in {"out", "in"} : IF d = "out" THEN remote # "open" ELSE sock # "open"},
       eof <- {d \in {"out", "in"} : IF d = "out" THEN shut ELSE eofSent},
       broken <- {d \in {"out", "in"} : sock = "reset" \/ (d = "in" /\ ~Writable)},
       stopped <- stop,
       over <- Over
ImplementsRelay == R!RelaySpec

(* A pump that ends of its own accord, no fault having happened, has copied *)
(* both streams whole, passed both EOFs on, and counted every byte once.    *)
EndsComplete ==
  (pc = "done" /\ ~stop /\ sock # "reset" /\ Writable) =>
    /\ shut /\ taken = sent /\ bytes_out = sent
    /\ eofSent /\ written = typed /\ bytes_in = typed

(* stop() ends the pump (docs/design/07-api-forwarding.md:55: "wakes the    *)
(* loop"), wherever in the loop it finds it, unless the pump is, and stays, *)
(* in a call that waits for a peer that does not read: the loop of          *)
(* forwarding.ipp:99 is the only place that looks at stop_requested.        *)
StopEnds == stop ~> [](Over \/ Blocked)

(* Once both peers are finished the pump ends by itself, unless it waits    *)
(* for a peer that does not read, or the session was lost before the        *)
(* channel was read to its end: then only a stop ends it.                   *)
BothEofEnds ==
  (remote # "open" /\ sock # "open") ~> [](Over \/ Blocked \/ (~link /\ ~IsEof))
=============================================================================
