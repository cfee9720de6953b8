------------------------------ MODULE Serving -------------------------------
(***************************************************************************)
(* How a forwarder serves the connections it accepts, one after the other: *)
(*   "local"   LocalForward::pump_one_connection                           *)
(*   "remote"  RemoteForward::pump_one_connection                          *)
(*   "socks"   SocksProxy::serve_one_connection                            *)
(*   "x11"     X11Forwarder::try_run_until_stopped                         *)
(* Module Forwarder has the threads around it and Pump the copying inside. *)
(* A SOCKS client sends its request field by field, and may send nothing,  *)
(* something else, or go away at any point.                                *)
(***************************************************************************)
EXTENDS Naturals

CONSTANTS
  Targets,     \* what a client can ask for
  Allowed,     \* those for which options_.allow answers true
  Addresses,   \* bound: the addresses getaddrinfo() finds for a target
  MaxConns     \* bound: connections accepted

(* What a client sends that is no target.                                   *)
OtherFields == {"none", "4", "5", "noAuth", "connect", "other", "short", "tooLong"}

ASSUME ServingAssumption ==
  /\ Targets \cap OtherFields = {} /\ "origin" \notin Targets
  /\ Allowed \subseteq Targets
  /\ Addresses \in Nat /\ MaxConns \in Nat

VARIABLES
  kind,
  socks4,    \* options_.allow_socks4
  unix,      \* the target of the options is a UnixEndpoint
  pc,        \* "x11", "loop", "accept", a place in the request, "allow", "open", "connect", "pump", "ended"
  stop,      \* stop_requested_
  stuck,     \* a peer of the connection that is pumped does not read
  fd,        \* sockets of the connection that are open
  channel,   \* the target the open channel leads to, or "none"
  inbox,     \* the field the client has sent, or "none"
  gone,      \* the client has closed its end
  wanted,    \* the target in the client's request
  target,    \* the target that was read
  reply,     \* the final answer: "none", "granted", "refused"
  left,      \* connect_tcp(): addresses not tried
  conns, connections, rejected

conn == <<fd, channel, inbox, gone, wanted, target, reply, left>>
stats == <<conns, connections, rejected>>
given == <<kind, socks4, unix, stop, stuck>>
vars == <<given, pc, conn, stats>>

None == "none"

Request == {"version", "methods", "request5", "address5", "request4", "userid"}
Places == Request \cup {"x11", "display", "loop", "accept", "allow", "open", "connect", "pump", "ended"}

TypeOK ==
  /\ kind \in {"local", "remote", "socks", "x11"} /\ socks4 \in BOOLEAN
  /\ unix \in BOOLEAN /\ (kind = "socks" => ~unix)
  /\ pc \in Places /\ stop \in BOOLEAN /\ stuck \in BOOLEAN
  /\ fd \in {0, 1} /\ left \in Nat
  /\ channel \in Targets \cup {None, "origin", "fixed"}
  /\ inbox \in Targets \cup OtherFields /\ gone \in BOOLEAN
  /\ wanted \in Targets \cup {None} /\ target \in Targets \cup {None}
  /\ reply \in {None, "granted", "refused"}
  /\ conns \in Nat /\ connections \in Nat /\ rejected \in Nat

Init ==
  /\ kind \in {"local", "remote", "socks", "x11"} /\ socks4 \in BOOLEAN
  /\ unix \in (IF kind = "socks" THEN {FALSE} ELSE BOOLEAN)
  /\ pc = (IF kind = "x11" THEN "x11" ELSE "loop") /\ stop = FALSE /\ stuck = FALSE
  /\ fd = 0 /\ channel = None /\ inbox = None /\ gone = FALSE
  /\ wanted = None /\ target = None /\ reply = None /\ left = 0
  /\ conns = 0 /\ connections = 0 /\ rejected = 0

Fixed == UNCHANGED given
Step(next) == pc' = next /\ Fixed

(* Channel and sockets of the connection are closed, and the loop goes on.  *)
CloseAll == fd' = 0 /\ channel' = None
Drop ==
  /\ CloseAll /\ Step("loop") /\ target' = None
  /\ UNCHANGED <<inbox, gone, wanted, reply, left>>

-----------------------------------------------------------------------------
(* ------------------------------- accepting ------------------------------- *)

Fresh(f, c) ==
  /\ fd' = f /\ channel' = c /\ inbox' = None /\ gone' = FALSE
  /\ wanted' = None /\ target' = None /\ reply' = None /\ left' = Addresses
  /\ conns' = conns + 1 /\ UNCHANGED <<connections, rejected>>
Accepting(k) == kind = k /\ pc = "accept" /\ conns < MaxConns

(* Fault: the flag is looked at once, before the first connection.          *)
LoopTestsOnce ==
  /\ pc = "loop" /\ Step(IF stop /\ conns = 0 THEN "ended" ELSE "accept")
  /\ UNCHANGED <<conn, stats>>

(* The test of stop_requested_; a stop() after it finds the loop waiting    *)
(* for a connection, or with one that it will serve.                        *)
LoopTests == pc = "loop" /\ Step(IF stop THEN "ended" ELSE "accept") /\ UNCHANGED <<conn, stats>>
(* ::poll() or the accept times out, or fails, which ends X11Forwarder's    *)
(* loop only.                                                               *)
AcceptTimesOut ==
  /\ pc = "accept" /\ (Step("loop") \/ (kind = "x11" /\ Step("ended")))
  /\ UNCHANGED <<conn, stats>>

(* accept() of the loops of LocalForward and SocksProxy.                    *)
AcceptLocal == Accepting("local") /\ Fresh(1, None) /\ Step("allow")
AcceptSocks == Accepting("socks") /\ Fresh(1, None) /\ Step("version")
(* RemoteForwardListener::try_accept(): a channel.                          *)
AcceptRemote == Accepting("remote") /\ Fresh(0, "origin") /\ Step("allow")
(* X11Forwarder::try_request(), and where the display is: the server may    *)
(* refuse, and DISPLAY may be missing or malformed.                         *)
RequestX11 == pc = "x11" /\ (Step("display") \/ Step("ended")) /\ UNCHANGED <<conn, stats>>
TargetFromDisplay == pc = "display" /\ (Step("loop") \/ Step("ended")) /\ UNCHANGED <<conn, stats>>
(* X11Forwarder::try_accept().                                              *)
AcceptX11 == Accepting("x11") /\ Fresh(0, "origin") /\ Step("connect")

Stop == ~stop /\ stop' = TRUE /\ UNCHANGED <<kind, socks4, unix, stuck, pc, conn, stats>>

-----------------------------------------------------------------------------
(* ---------------------------- the SOCKS client --------------------------- *)

Fields ==
  CASE pc = "version" -> {"4", "5", "other"}
    [] pc = "methods" -> {"noAuth", "other"}
    [] pc = "request5" -> {"connect", "other"}
    [] pc = "address5" -> Targets \cup {"other"}
    [] pc = "request4" -> Targets \cup {"other"}
    [] pc = "userid" -> {"short", "tooLong"}
    [] OTHER -> {}
ClientSends ==
  /\ fd > 0 /\ inbox = None /\ ~gone
  /\ \E f \in Fields : inbox' = f /\ wanted' = IF f \in Targets THEN f ELSE wanted
  /\ UNCHANGED <<given, pc, fd, channel, gone, target, reply, left, stats>>
ClientLeaves ==
  /\ pc \in Request /\ ~gone /\ gone' = TRUE
  /\ UNCHANGED <<given, pc, fd, channel, inbox, wanted, target, reply, left, stats>>

-----------------------------------------------------------------------------
(* ---------------------------- SocksProxy reads --------------------------- *)

(* recv_exact() returns the next field.                                     *)
Received(p) == pc = p /\ inbox # None
Goto(next) ==
  /\ Step(next) /\ inbox' = None
  /\ UNCHANGED <<fd, channel, gone, wanted, reply, left, stats>>
DropIt == Drop /\ UNCHANGED stats

(* recv_exact() fails: the client has left.                                 *)
RecvFails == pc \in Request /\ inbox = None /\ gone /\ DropIt

(* serve_one_connection(): the version byte.                                *)
ReadVersion ==
  /\ Received("version")
  /\ \/ inbox = "5" /\ UNCHANGED target /\ Goto("methods")
     \/ inbox = "4" /\ socks4 /\ UNCHANGED target /\ Goto("request4")
     \/ inbox = "other" /\ DropIt
     \/ inbox = "4" /\ ~socks4 /\ DropIt

(* Fault: the connection is given up without closing its socket.            *)
ReadMethodsLeaks ==
  /\ Received("methods")
  /\ \/ inbox = "noAuth" /\ UNCHANGED target /\ Goto("request5")
     \/ Step("loop") /\ UNCHANGED <<conn, stats>>

(* read_socks5_request(): the methods, and the reply to them, which may not *)
(* get through.                                                             *)
ReadMethods ==
  /\ Received("methods")
  /\ \/ inbox = "noAuth" /\ UNCHANGED target /\ Goto("request5")
     \/ (inbox # "noAuth" \/ gone) /\ DropIt
(* Its request: CONNECT only.                                               *)
ReadRequest5 ==
  /\ Received("request5")
  /\ \/ inbox = "connect" /\ UNCHANGED target /\ Goto("address5")
     \/ inbox # "connect" /\ DropIt
(* Its address, of three types, and port.                                   *)
ReadAddress5 ==
  /\ Received("address5")
  /\ \/ inbox \in Targets /\ target' = inbox /\ Goto("allow")
     \/ inbox \notin Targets /\ DropIt

(* read_socks4_request(): the fixed part, then the user id.                 *)
ReadRequest4 ==
  /\ Received("request4")
  /\ \/ inbox \in Targets /\ target' = inbox /\ Goto("userid")
     \/ inbox \notin Targets /\ DropIt
ReadUserId ==
  /\ Received("userid")
  /\ \/ inbox = "short" /\ UNCHANGED target /\ Goto("allow")
     \/ inbox # "short" /\ DropIt

-----------------------------------------------------------------------------
(* -------------------------- policy and channel --------------------------- *)

(* options_.allow or options_.accept_filter says no: LocalForward and       *)
(* RemoteForward just close, SocksProxy answers first.                      *)
Reject ==
  /\ pc = "allow" /\ (kind = "socks" => target \notin Allowed)
  /\ rejected' = rejected + 1 /\ UNCHANGED <<conns, connections>>
  /\ reply' = (IF kind = "socks" THEN "refused" ELSE None)
  /\ CloseAll /\ Step("loop") /\ UNCHANGED <<inbox, gone, wanted, target, left>>
Allow ==
  /\ pc = "allow" /\ (kind = "socks" => target \in Allowed)
  /\ Step(IF kind = "remote" THEN "connect" ELSE "open") /\ UNCHANGED <<conn, stats>>

(* Fault: the answer is not sent when the channel cannot be opened.         *)
OpenFailsSilently ==
  /\ pc = "open" /\ CloseAll /\ Step("loop")
  /\ UNCHANGED <<inbox, gone, wanted, target, reply, left, stats>>

(* open_direct() fails; Channel::open_forward() frees the channel it made.  *)
OpenFails ==
  /\ pc = "open"
  /\ reply' = (IF kind = "socks" THEN "refused" ELSE None)
  /\ CloseAll /\ Step("loop") /\ UNCHANGED <<inbox, gone, wanted, target, left, stats>>

(* Fault: the channel is opened while the client is told that it is.        *)
OpenDirectEarly ==
  /\ pc = "open" /\ reply' = (IF kind = "socks" THEN "granted" ELSE None)
  /\ Step(IF reply = None THEN "open" ELSE "pump")
  /\ channel' = (IF reply = None THEN None ELSE target)
  /\ connections' = connections + 1
  /\ UNCHANGED <<fd, inbox, gone, wanted, target, left, conns, rejected>>

(* Channel::open_forward() and open_forward_unix(): where the channel leads.*)
OpenForward == ~unix /\ channel' = (IF kind = "socks" THEN target ELSE "fixed")
OpenForwardUnix == unix /\ channel' = "fixed"

(* open_direct() opens the channel, and the client is told.                 *)
OpenDirect ==
  /\ pc = "open" /\ Step("pump")
  /\ OpenForward \/ OpenForwardUnix
  /\ reply' = (IF kind = "socks" THEN "granted" ELSE None)
  /\ connections' = connections + 1
  /\ UNCHANGED <<fd, inbox, gone, wanted, target, left, conns, rejected>>

(* connect_tcp(), address by address: the socket is made and connected, or  *)
(* closed again.                                                            *)
MakeSocket ==
  /\ pc = "connect" /\ ~unix /\ fd = 0 /\ left > 0
  /\ fd' = 1 /\ left' = left - 1
  /\ UNCHANGED <<given, pc, channel, inbox, gone, wanted, target, reply, stats>>
ConnectFails ==
  /\ pc = "connect" /\ fd = 1 /\ fd' = 0
  /\ UNCHANGED <<given, pc, channel, inbox, gone, wanted, target, reply, left, stats>>
(* connect_unix(): one try.                                                 *)
ConnectUnix ==
  /\ pc = "connect" /\ unix /\ fd = 0 /\ left > 0
  /\ fd' \in {0, 1} /\ left' = 0
  /\ UNCHANGED <<given, pc, channel, inbox, gone, wanted, target, reply, stats>>
(* pump_one_connection() goes on with the socket.                           *)
Connected ==
  /\ pc = "connect" /\ fd = 1 /\ Step("pump")
  /\ connections' = connections + (IF kind = "remote" THEN 1 ELSE 0)
  /\ UNCHANGED <<conn, conns, rejected>>
(* No address is left: the channel is freed with its Channel object.        *)
Unreachable == pc = "connect" /\ fd = 0 /\ left = 0 /\ DropIt

(* pump() sees stop_requested_, unless it waits for a peer that does not    *)
(* read (Blocked of Pump); X11Forwarder's pump has a flag of its own, which *)
(* nobody sets.                                                             *)
PumpOver ==
  /\ CloseAll /\ stuck' = FALSE
  /\ UNCHANGED <<kind, socks4, unix, stop, inbox, gone, wanted, target, reply, left, stats>>
PumpStops ==
  /\ pc = "pump" /\ kind # "x11" /\ stop /\ ~stuck
  /\ pc' = "loop" /\ PumpOver
(* It returns because both sides have ended.                                *)
PumpEnds ==
  /\ pc = "pump"
  /\ pc' = "loop" \/ (kind = "x11" /\ pc' = "ended")     \* single_connection
  /\ PumpOver
PeerStopsReading ==
  /\ pc = "pump" /\ ~stuck /\ stuck' = TRUE
  /\ UNCHANGED <<kind, socks4, unix, stop, pc, conn, stats>>

-----------------------------------------------------------------------------
Reads == ReadVersion \/ ReadMethods \/ ReadRequest5 \/ ReadAddress5 \/ ReadRequest4 \/ ReadUserId
Serve ==
  \/ LoopTests \/ AcceptTimesOut \/ RecvFails \/ Reads
  \/ Reject \/ Allow \/ OpenFails \/ OpenDirect \/ RequestX11 \/ TargetFromDisplay
  \/ MakeSocket \/ ConnectUnix \/ ConnectFails \/ Connected \/ Unreachable \/ PumpStops
Accept == AcceptLocal \/ AcceptSocks \/ AcceptRemote \/ AcceptX11

Next == Accept \/ Serve \/ PumpEnds \/ Stop \/ ClientSends \/ ClientLeaves \/ PeerStopsReading

Spec == Init /\ [][Next]_vars

(* The thread runs, and its calls to open a channel or a socket return.     *)
(* Nothing is assumed of the client and the peers of the pump.              *)
FairSpec == Spec /\ WF_vars(Serve)

-----------------------------------------------------------------------------
(* Between two connections nothing of the last one is open, on whichever    *)
(* of the paths through its request, the policy and the targets it went.    *)
NothingHeld == pc \in {"loop", "accept", "ended"} => fd = 0 /\ channel = None

(* A SOCKS client is told "granted" only when a channel is open to the      *)
(* target it asked for, and the policy allows that one.                     *)
GrantedIsOpen ==
  kind = "socks" /\ reply = "granted" =>
    /\ target = wanted /\ target \in Allowed
    /\ pc = "pump" => channel = wanted
    /\ pc \in {"loop", "accept", "pump", "ended"}

(* A SOCKS request that was read to the end is answered before the          *)
(* connection is dropped.                                                   *)
RequestAnswered ==
  kind = "socks" /\ pc \in {"loop", "accept", "pump", "ended"} /\ target # None
    => reply # None

(* The waits that stop_requested_ does not end: recv_exact() has no time    *)
(* limit (forwarding.ipp:788), X11Forwarder's stop() does not reach its     *)
(* pump (603-604), and a pump may wait for a peer that does not read.       *)
Held ==
  \/ pc \in Request /\ inbox = None /\ ~gone
  \/ pc = "pump" /\ (stuck \/ kind = "x11")

(* A stop() ends the loop, wherever it finds it, at the latest after one    *)
(* more connection, unless the loop comes to rest in one of these waits     *)
(* (forwarding.ipp:354, 596, 834; forwarding.hpp:256 promises pumping       *)
(* "until stop() is called").                                               *)
StopEnds == stop ~> [](pc = "ended" \/ Held)
=============================================================================
