------------------------------- MODULE Forwarder -------------------------------
(***************************************************************************)
(* The life of a forwarder of detail/forwarding.ipp: LocalForward and      *)
(* SocksProxy (kind "local", with running_ and a listening socket) and     *)
(* RemoteForward (kind "remote", with a RemoteForwardListener).            *)
(*                                                                         *)
(* The accept loop runs on thread_ after try_start(), or on the caller's   *)
(* thread inside try_run_until_stopped(); the two flags it shares with its *)
(* controllers are atomics that no lock ties together.  Owner is the       *)
(* thread that uses the object; while it is inside try_run_until_stopped() *)
(* another thread may call stop().  Pumping a connection is one state      *)
(* here; module Pump is what happens in it.                                *)
(***************************************************************************)
EXTENDS Naturals, FiniteSets

CONSTANTS
  Kinds,        \* the kinds of forwarder looked at
  Manners,      \* the manners of use looked at, see manner
  Calls,        \* the ways the program starts the loop
  Listeners,    \* listening sockets, or forwarding requests
  NoListener,   \* listen_fd_ < 0, or an empty listener_
  Clients,      \* connections that arrive at the listener
  NoClient

ASSUME ForwarderAssumption ==
  /\ Kinds \subseteq {"local", "remote"}
  /\ Manners \subseteq {"patient", "restarting", "hasty"}
  /\ Calls \subseteq {"try_start", "try_run_until_stopped"}
  /\ NoListener \notin Listeners
  /\ NoClient \notin Clients /\ IsFiniteSet(Clients)

VARIABLES
  kind,       \* "local" or "remote"
  manner,     \* how the program uses the object: a "patient" or a "restarting"
              \* one waits for the loop to run and to be joined, and calls
              \* try_start() once or repeatedly; a "hasty" one does not wait
  owner,      \* where the owner's thread is
  call,       \* the call it is in
  loop,       \* loop[t]: the accept loop on t, Owner's thread or thread_
  thread,     \* thread_.joinable()
  running,    \* running_; FALSE for ever in a RemoteForward, which has none
  stop,       \* stop_requested_
  stopped,    \* a call of stop() has not had its effect yet
  listener,   \* listen_fd_ or listener_
  open,       \* the listeners that exist
  polls,      \* polls[t]: the one that the loop on t waits at
  client,     \* client[k]: what became of the connection k
  serving,    \* serving[t]: the connection (client_fd) the loop on t is busy with
  connections, rejected,   \* ForwardStats
  aborted     \* std::terminate() was called

sockets == <<listener, open, polls>>
connVars == <<client, serving, connections, rejected>>
setup == <<kind, manner>>
vars == <<setup, owner, call, loop, thread, running, stop, stopped, sockets, connVars, aborted>>

Threads == {"Owner", "Worker"}
LoopPlaces == {"none", "enter", "check", "wait", "serve", "pump", "leave"}
Active(t) == loop[t] # "none"

Types ==
  /\ kind \in {"local", "remote"} /\ manner \in {"patient", "restarting", "hasty"}
  /\ owner \in {"idle", "bind", "reset", "launch", "looping", "join", "dtorJoin", "gone"}
  /\ call \in {"none", "try_start", "try_run_until_stopped"}
  /\ loop \in [Threads -> LoopPlaces]
  /\ thread \in BOOLEAN /\ running \in BOOLEAN
  /\ stop \in BOOLEAN /\ stopped \in BOOLEAN
  /\ listener \in Listeners \cup {NoListener}
  /\ open \subseteq Listeners
  /\ polls \in [Threads -> Listeners \cup {NoListener}]
  /\ client \in [Clients -> {"away", "queued", "accepted", "pumping", "closed", "stranded"}]
  /\ serving \in [Threads -> Clients \cup {NoClient}]
  /\ connections \in Nat /\ rejected \in Nat
  /\ aborted \in BOOLEAN

Init ==
  /\ kind \in Kinds /\ manner \in Manners
  /\ owner = "idle" /\ call = "none"
  /\ loop = [t \in Threads |-> "none"]
  /\ thread = FALSE /\ running = FALSE
  /\ stop = FALSE /\ stopped = FALSE
  /\ listener = NoListener /\ open = {} /\ polls = [t \in Threads |-> NoListener]
  /\ client = [k \in Clients |-> "away"]
  /\ serving = [t \in Threads |-> NoClient]
  /\ connections = 0 /\ rejected = 0
  /\ aborted = FALSE

-----------------------------------------------------------------------------
(* A hasty program relies on the test of running_, any other starts no loop *)
(* before the last one is joined.  A patient one does not call try_start()  *)
(* a second time.                                                           *)
MayStart(c) ==
  /\ manner = "hasty" \/ ~thread
  /\ manner # "patient" \/ listener = NoListener \/ c = "try_run_until_stopped"

(* try_start() and try_run_until_stopped() up to the test of running_.      *)
CallStart(c) ==
  /\ owner = "idle" /\ c \in Calls /\ MayStart(c)
  /\ IF running
     THEN UNCHANGED <<owner, call>>   \* errc::already_connected
     ELSE /\ owner' = IF c = "try_run_until_stopped" /\ listener # NoListener
                      THEN "reset" ELSE "bind"
          /\ call' = c
  /\ UNCHANGED <<loop, thread, running, stop, stopped, sockets, aborted, connVars>>

(* RemoteForwardListener::operator=(RemoteForwardListener&&): assigning to  *)
(* listener_ cancels the forwarding request it held.                        *)
Replaced(l) == (open \ {listener}) \cup {l}

(* ~RemoteForwardListener() cancels the request, ::close() the socket.      *)
Released == open \ {listener}

(* bind_listener() overwrites listen_fd_, and nobody polls the old socket   *)
(* any more; libssh keeps the channels opened for a cancelled request.      *)
Bind(l) ==
  /\ owner = "bind"
  /\ l \notin open
  /\ open' = IF kind = "remote" THEN Replaced(l) ELSE open \cup {l}
  /\ listener' = l
  /\ client' = [k \in Clients |->
       IF kind = "local" /\ client[k] = "queued" THEN "stranded" ELSE client[k]]
  /\ owner' = "reset"
  /\ UNCHANGED <<call, loop, thread, running, stop, stopped, polls, serving, connections,
                 rejected, aborted>>

BindFails ==
  /\ owner = "bind"
  /\ owner' = "idle" /\ call' = "none"
  /\ stopped' = FALSE
  /\ UNCHANGED <<loop, thread, running, stop, sockets, aborted, connVars>>

(* stop_requested_.store(false)                                             *)
ResetStop ==
  /\ owner = "reset"
  /\ stop' = FALSE
  /\ owner' = "launch"
  /\ UNCHANGED <<call, loop, thread, running, stopped, sockets, aborted, connVars>>

(* thread_ = std::thread(...): assigning to a joinable thread terminates    *)
(* the program.                                                             *)
LaunchThread ==
  /\ owner = "launch" /\ call = "try_start"
  /\ IF thread
     THEN /\ aborted' = TRUE
          /\ UNCHANGED <<owner, call, loop, thread>>
     ELSE /\ thread' = TRUE
          /\ loop' = [loop EXCEPT !["Worker"] = "enter"]
          /\ owner' = "idle" /\ call' = "none"
          /\ UNCHANGED aborted
  /\ UNCHANGED <<running, stop, stopped, sockets, connVars>>

(* accept_loop() on the calling thread.                                     *)
EnterLoop ==
  /\ owner = "launch" /\ call = "try_run_until_stopped"
  /\ loop' = [loop EXCEPT !["Owner"] = "enter"]
  /\ owner' = "looping"
  /\ UNCHANGED <<call, thread, running, stop, stopped, sockets, aborted, connVars>>

-----------------------------------------------------------------------------
(* accept_loop() and run_loop(); only the former has a running_ to set.     *)
LoopEnter(t) ==
  /\ loop[t] = "enter"
  /\ running' = (kind = "local")
  /\ loop' = [loop EXCEPT ![t] = "check"]
  /\ UNCHANGED <<owner, call, thread, stop, stopped, sockets, aborted, connVars>>

(* Fault: the loop condition is not evaluated again.                        *)
LoopCheckSkipped(t) ==
  /\ loop[t] = "check"
  /\ loop' = [loop EXCEPT ![t] = "wait"]
  /\ polls' = [polls EXCEPT ![t] = listener]
  /\ UNCHANGED <<owner, call, thread, running, stop, stopped, listener, open, aborted, connVars>>

(* The loop condition, and which listener the wait that follows is for.     *)
LoopCheck(t) ==
  /\ loop[t] = "check"
  /\ loop' = [loop EXCEPT ![t] = IF stop THEN "leave" ELSE "wait"]
  /\ polls' = [polls EXCEPT ![t] = IF stop THEN NoListener ELSE listener]
  /\ UNCHANGED <<owner, call, thread, running, stop, stopped, listener, open, aborted, connVars>>

(* ::poll() or try_accept() times out, or fails.                            *)
LoopTimeout(t) ==
  /\ loop[t] = "wait"
  /\ loop' = [loop EXCEPT ![t] = "check"]
  /\ polls' = [polls EXCEPT ![t] = NoListener]
  /\ UNCHANGED <<owner, call, thread, running, stop, stopped, listener, open, aborted, connVars>>

LoopAccept(t, k) ==
  /\ loop[t] = "wait" /\ client[k] = "queued"
  /\ loop' = [loop EXCEPT ![t] = "serve"]
  /\ polls' = [polls EXCEPT ![t] = NoListener]
  /\ serving' = [serving EXCEPT ![t] = k]
  /\ client' = [client EXCEPT ![k] = "accepted"]
  /\ UNCHANGED <<owner, call, thread, running, stop, stopped, listener, open,
                 connections, rejected, aborted>>

(* ::close(client_fd), and back to the loop condition.                      *)
EndServing(t) ==
  /\ loop' = [loop EXCEPT ![t] = "check"]
  /\ serving' = [serving EXCEPT ![t] = NoClient]
  /\ client' = [client EXCEPT ![serving[t]] = "closed"]

(* accept_filter, or allow of the SocksProxy, says no.                      *)
Refuse(t) ==
  /\ loop[t] = "serve"
  /\ rejected' = rejected + 1
  /\ EndServing(t)
  /\ UNCHANGED <<owner, call, thread, running, stop, stopped, sockets, connections, aborted>>

(* The SOCKS request is not one, or the far side cannot be reached:         *)
(* open_direct() or connect_target() fails.                                 *)
Unreachable(t) ==
  /\ loop[t] = "serve"
  /\ EndServing(t)
  /\ UNCHANGED <<owner, call, thread, running, stop, stopped, sockets,
                 connections, rejected, aborted>>

BeginPump(t) ==
  /\ loop[t] = "serve"
  /\ loop' = [loop EXCEPT ![t] = "pump"]
  /\ client' = [client EXCEPT ![serving[t]] = "pumping"]
  /\ connections' = connections + 1
  /\ UNCHANGED <<owner, call, thread, running, stop, stopped, sockets, serving,
                 rejected, aborted>>

(* pump() returns, its peers being finished or a stop being asked for.      *)
PumpEnds(t) ==
  /\ loop[t] = "pump"
  /\ EndServing(t)
  /\ UNCHANGED <<owner, call, thread, running, stop, stopped, sockets,
                 connections, rejected, aborted>>

LoopLeave(t) ==
  /\ loop[t] = "leave"
  /\ running' = FALSE
  /\ loop' = [loop EXCEPT ![t] = "none"]
  /\ IF t = "Owner"
     THEN owner' = "idle" /\ call' = "none" /\ stopped' = FALSE
     ELSE UNCHANGED <<owner, call, stopped>>
  /\ UNCHANGED <<thread, stop, sockets, aborted, connVars>>

-----------------------------------------------------------------------------
(* stop(): raise the flag, join thread_ if there is one.                    *)
Stop ==
  /\ owner = "idle"
  /\ stop' = TRUE
  /\ stopped' = thread
  /\ owner' = IF thread THEN "join" ELSE "idle"
  /\ UNCHANGED <<call, loop, thread, running, sockets, aborted, connVars>>

(* The second thread's stop(), for a loop on the caller's thread.  A        *)
(* program that is not hasty waits for running().                           *)
StopFromOutside ==
  /\ call = "try_run_until_stopped" /\ ~thread
  /\ manner = "hasty" \/ loop["Owner"] \notin {"none", "enter"}
  /\ stop' = TRUE
  /\ stopped' = TRUE
  /\ UNCHANGED <<owner, call, loop, thread, running, sockets, aborted, connVars>>

(* Fault: thread_ is detached, not joined.                                  *)
JoinDetaches ==
  /\ owner = "join"
  /\ thread' = FALSE
  /\ stopped' = FALSE
  /\ owner' = "idle"
  /\ UNCHANGED <<call, loop, running, stop, sockets, aborted, connVars>>

Join ==
  /\ owner = "join"
  /\ ~Active("Worker")
  /\ thread' = FALSE
  /\ stopped' = FALSE
  /\ owner' = "idle"
  /\ UNCHANGED <<call, loop, running, stop, sockets, aborted, connVars>>

(* The destructor: stop() with its join, then the listener, and with it the *)
(* connections that nobody accepted.                                        *)
Destroy ==
  /\ owner = "idle"
  /\ stop' = TRUE
  /\ stopped' = thread
  /\ owner' = "dtorJoin"
  /\ UNCHANGED <<call, loop, thread, running, sockets, aborted, connVars>>

(* Fault: the listening socket is not closed.                               *)
DestroyEndLeaks ==
  /\ owner = "dtorJoin"
  /\ ~Active("Worker")
  /\ thread' = FALSE
  /\ stopped' = FALSE
  /\ owner' = "gone"
  /\ UNCHANGED <<call, loop, running, stop, sockets, aborted, connVars>>

DestroyEnd ==
  /\ owner = "dtorJoin"
  /\ ~Active("Worker")
  /\ thread' = FALSE
  /\ stopped' = FALSE
  /\ open' = Released
  /\ client' = [k \in Clients |-> IF client[k] = "queued" THEN "closed" ELSE client[k]]
  /\ owner' = "gone"
  /\ UNCHANGED <<call, loop, running, stop, listener, polls, aborted, serving, connections,
                 rejected>>

(* A connection arrives while somebody listens.                             *)
Connect(k) ==
  /\ client[k] = "away" /\ open # {} /\ listener \in open
  /\ client' = [client EXCEPT ![k] = "queued"]
  /\ UNCHANGED <<owner, call, loop, thread, running, stop, stopped, sockets, serving,
                 connections, rejected, aborted>>

(* The object is gone, or the program is.                                   *)
Terminated ==
  /\ owner = "gone" \/ aborted
  /\ UNCHANGED vars

LoopStep(t) ==
  \/ LoopEnter(t) \/ LoopCheck(t) \/ LoopTimeout(t) \/ LoopLeave(t)
  \/ \E k \in Clients : LoopAccept(t, k)
  \/ Refuse(t) \/ Unreachable(t) \/ BeginPump(t) \/ PumpEnds(t)

OwnerStep ==
  \/ \E l \in Listeners : Bind(l)
  \/ BindFails \/ ResetStop \/ LaunchThread \/ EnterLoop \/ Join \/ DestroyEnd

(* The program has not been terminated; what it is and does is fixed.       *)
Alive == ~aborted /\ UNCHANGED setup

Next ==
  \/ Alive /\ OwnerStep
  \/ Alive /\ \E c \in Calls : CallStart(c)
  \/ Alive /\ (Stop \/ StopFromOutside \/ Destroy)
  \/ Alive /\ \E t \in Threads : LoopStep(t)
  \/ Alive /\ \E k \in Clients : Connect(k)
  \/ Terminated

Spec == Init /\ [][Next]_vars

(* The threads are scheduled and a wait for a connection times out.  How    *)
(* long a connection is served is up to its peers: a SOCKS client may stay  *)
(* silent, a target not answer, a peer not read (Blocked of Pump).          *)
FairSpec ==
  /\ Spec
  /\ WF_vars(Alive /\ OwnerStep)
  /\ \A t \in Threads : WF_vars(Alive /\ loop[t] \notin {"serve", "pump"} /\ LoopStep(t))

-----------------------------------------------------------------------------
(* The values of the variables; a loop on another thread is one that        *)
(* thread_ can join.                                                        *)
TypeOK == Types /\ (Active("Worker") => thread)

(* The loop waits at a listener that is open, and at the one the forwarder  *)
(* has now, so that a connection is not missed: neither a restart nor the   *)
(* destructor changes it during the wait (forwarding.ipp:274-278, 352-363). *)
(* A hasty program gets less: its second try_start() leaves the running     *)
(* loop at the old socket, and cancels the request that a RemoteForward's   *)
(* loop waits for (208-214, 440).                                           *)
ListenerValid ==
  \A t \in Threads : loop[t] = "wait" =>
    /\ (kind = "local" \/ manner # "hasty") => polls[t] \in open
    /\ manner # "hasty" => polls[t] = listener

(* forwarding.hpp:7-8 and 97: one active connection at a time.  Two would   *)
(* use the same ssh_session from two threads.                               *)
OneConnectionEver == ~(loop["Owner"] = "pump" /\ loop["Worker"] = "pump")

(* The same for a program that starts no loop before the last is joined.    *)
OneConnection == manner # "hasty" => OneConnectionEver

(* running() tells whether a loop is past its first statement, so that      *)
(* try_start() refuses a running forwarder and accepts one that was stopped *)
(* (forwarding.ipp:353-366), if the program waits as above.                 *)
RunningExact ==
  (manner # "hasty" /\ kind = "local") =>
    (running <=> \E t \in Threads : loop[t] \notin {"none", "enter"})

(* An accepted connection is in the hands of the loop that accepted it, or  *)
(* closed: no way out of pump_one_connection() or serve_one_connection()    *)
(* forgets client_fd (forwarding.ipp:318-350, 786-830).                     *)
ConnectionsHeld ==
  \A k \in Clients : client[k] \in {"accepted", "pumping"} =>
    \E t \in Threads : serving[t] = k /\ loop[t] \in {"serve", "pump"}

(* A local forwarder's second try_start() abandons the first socket, and a  *)
(* hasty program may abandon a loop.                                        *)
Tidy == manner = "patient" \/ (manner = "restarting" /\ kind = "remote")

(* Otherwise a destroyed forwarder leaves no loop, no listener and no       *)
(* connection behind (forwarding.ipp:274-278, 401-404).                     *)
NothingLeft ==
  (Tidy /\ owner = "gone") =>
    /\ open = {}
    /\ \A t \in Threads : ~Active(t)
    /\ \A k \in Clients : client[k] \in {"away", "closed"}

(* stop() ends the loop (docs/design/07-api-forwarding.md:55: "wakes the    *)
(* loop"), wherever it is, unless the loop is held by the connection it     *)
(* serves, or the stop is lost: a hasty program's stop() may come before    *)
(* the stop_requested_.store(false) of the call it is meant to end          *)
(* (forwarding.ipp:369, 380).                                               *)
Held == \E t \in Threads : loop[t] \in {"serve", "pump"}
Lost == manner = "hasty" /\ ~stop
StopEnds == stopped ~> (~stopped \/ aborted \/ []Held \/ []Lost)
=============================================================================
