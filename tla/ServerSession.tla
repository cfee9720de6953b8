---------------------------- MODULE ServerSession ----------------------------
(***************************************************************************)
(* One server connection in the callback style: the connection thread that *)
(* loops over server::Session::try_poll() and then destroys the Session    *)
(* (TestServer::serve_connection), the detail::HandlerBridge that owns the *)
(* channels, and the SftpSubsystemHandler worker threads, one per channel  *)
(* that asked for the sftp subsystem.                                      *)
(*                                                                         *)
(* The SessionCore mutex is held by the connection thread around           *)
(* ssh_event_dopoll() and by a worker for the whole of try_serve().  The   *)
(* thread that holds it reads the socket, and so it is the one that runs   *)
(* the callbacks of every channel (libssh, external).  Each step is one    *)
(* callback, one lock operation, or one piece of a destructor.             *)
(*                                                                         *)
(* The connection thread reaps closed channels and destroys the bridge     *)
(* without the mutex, so that callbacks run by a worker's read meanwhile   *)
(* race with it.  A channel whose own entry such a race is about is raced  *)
(* from then on: its entry may or may not arrive in the container, and may *)
(* or may not be seen by the loop that walks it.                           *)
(***************************************************************************)
EXTENDS Naturals

CONSTANTS
  Channels,     \* channels the client may open; c also names c's worker thread
  SftpChannels, \* the ones whose client asks for sftp and whose handler accepts it
  Poller,       \* the connection thread
  NoThread      \* no thread, no channel

ASSUME ServerAssumption ==
  /\ SftpChannels \subseteq Channels
  /\ Poller \notin Channels
  /\ NoThread \notin Channels
  /\ Poller # NoThread

VARIABLES
  pc,        \* where the connection thread is
  mutex,     \* the holder of SessionCore::mutex()
  chan,      \* chan[c]: the ChannelState, with its Channel: "none", "live", "freed"
  channels,  \* HandlerBridge::channels_, the ones that have an entry
  callbacks, \* the channels whose ssh_channel_callbacks are installed
  pending,   \* HandlerBridge::pending_removals_
  erasing,   \* the channel whose ChannelState is being destroyed
  joined,    \* its handler member is gone, and has joined the worker
  raced,     \* the channels whose entries were written while being read
  worker,    \* worker[c]: c's SFTP thread
  peer,      \* peer[c]: the channel as the client sees it
  link,      \* the connection is up
  stop       \* stop_requested_

vars == <<pc, mutex, chan, channels, callbacks, pending, erasing, joined, raced,
          worker, peer, link, stop>>

PollerPlaces == {"check", "lock", "poll", "sleep", "reap", "clear", "freeEvent", "dropBridge",
                 "freeCore", "done"}

Types ==
  /\ pc \in PollerPlaces
  /\ mutex \in Channels \cup {Poller, NoThread}
  /\ chan \in [Channels -> {"none", "live", "freed"}]
  /\ channels \subseteq Channels
  /\ callbacks \subseteq Channels
  /\ pending \subseteq Channels
  /\ erasing \in Channels \cup {NoThread}
  /\ joined \in BOOLEAN
  /\ raced \subseteq Channels
  /\ worker \in [Channels -> {"none", "waiting", "serving", "ended"}]
  /\ peer \in [Channels -> {"none", "open", "closing", "closed"}]
  /\ link \in BOOLEAN
  /\ stop \in BOOLEAN

(* The values of the variables; installed callbacks point into a            *)
(* ChannelState that is still allocated.                                    *)
TypeOK == Types /\ callbacks \subseteq {c \in Channels : chan[c] = "live"}

Init ==
  /\ pc = "check"
  /\ mutex = NoThread
  /\ chan = [c \in Channels |-> "none"]
  /\ channels = {}
  /\ callbacks = {}
  /\ pending = {}
  /\ erasing = NoThread
  /\ joined = FALSE
  /\ raced = {}
  /\ worker = [c \in Channels |-> "none"]
  /\ peer = [c \in Channels |-> "none"]
  /\ link = TRUE
  /\ stop = FALSE

-----------------------------------------------------------------------------
(* libssh processes a packet: in ssh_event_dopoll(), or inside a worker's   *)
(* sftp_get_client_message().                                               *)
ReadsSocket ==
  /\ link
  /\ pc = "poll" \/ \E c \in Channels : worker[c] = "serving"

(* The connection thread is, without the mutex, in code that uses channels_ *)
(* (or the bridge is gone already); or that uses pending_removals_.         *)
MapInUse == pc \in {"dropBridge", "freeCore", "done"} \/ (pc = "reap" /\ pending # {})
ListInUse == pc \in {"reap", "clear", "dropBridge", "freeCore", "done"}

(* channel_open_session_cb and register_channel.                            *)
OpenChannel(c) ==
  /\ ReadsSocket
  /\ peer[c] = "none"
  /\ peer' = [peer EXCEPT ![c] = "open"]
  /\ chan' = [chan EXCEPT ![c] = "live"]
  /\ callbacks' = callbacks \cup {c}
  /\ \/ channels' = channels \cup {c}
     \/ MapInUse /\ UNCHANGED channels
  /\ raced' = IF MapInUse THEN raced \cup {c} ELSE raced
  /\ UNCHANGED <<pc, mutex, pending, erasing, joined, worker, link, stop>>

(* channel_subsystem_request_cb with an accepted "sftp": the worker thread  *)
(* is started, then the channel's callbacks are removed.  It uses the       *)
(* ChannelState, which may be in the middle of its destruction.             *)
SubsystemRequest(c) ==
  /\ ReadsSocket
  /\ c \in SftpChannels
  /\ c \in callbacks /\ peer[c] = "open" /\ worker[c] = "none"
  /\ worker' = [worker EXCEPT ![c] = "waiting"]
  /\ callbacks' = callbacks \ {c}
  /\ raced' = IF erasing = c THEN raced \cup {c} ELSE raced
  /\ UNCHANGED <<pc, mutex, chan, channels, pending, erasing, joined, peer, link, stop>>

(* The client's close arrives: channel_close_cb, if it is still installed,  *)
(* only notes the channel for reap_closed_channels().                       *)
CloseChannel(c) ==
  /\ ReadsSocket
  /\ peer[c] = "closing"
  /\ peer' = [peer EXCEPT ![c] = "closed"]
  /\ IF c \in callbacks
     THEN /\ \/ pending' = pending \cup {c}
             \/ ListInUse /\ UNCHANGED pending
          /\ raced' = IF ListInUse THEN raced \cup {c} ELSE raced
     ELSE UNCHANGED <<pending, raced>>
  /\ UNCHANGED <<pc, mutex, chan, channels, callbacks, erasing, joined, worker, link, stop>>

-----------------------------------------------------------------------------
(* Fault: try_serve() does not take the session mutex.                      *)
WorkerLockSkipped(c) ==
  /\ worker[c] = "waiting"
  /\ worker' = [worker EXCEPT ![c] = "serving"]
  /\ UNCHANGED <<pc, mutex, chan, channels, callbacks, pending, erasing, joined, raced, peer, link, stop>>

(* SftpSubsystemHandler::try_serve.                                         *)
WorkerLock(c) ==
  /\ worker[c] = "waiting"
  /\ mutex = NoThread
  /\ mutex' = c
  /\ worker' = [worker EXCEPT ![c] = "serving"]
  /\ UNCHANGED <<pc, chan, channels, callbacks, pending, erasing, joined, raced, peer, link, stop>>

(* The loop ends when sftp_get_client_message() returns nullptr, for its    *)
(* own channel's close or the connection's end; the lock_guard releases.    *)
WorkerSeesClose(c) ==
  /\ worker[c] = "serving"
  /\ ~link \/ peer[c] \in {"closing", "closed"}
  /\ worker' = [worker EXCEPT ![c] = "ended"]
  /\ mutex' = NoThread
  /\ peer' = [peer EXCEPT ![c] = IF @ = "closing" THEN "closed" ELSE @]
  /\ UNCHANGED <<pc, chan, channels, callbacks, pending, erasing, joined, raced, link, stop>>

(* sftp_server_new or sftp_server_init fails, or the client breaks the      *)
(* protocol, with the channel still open.                                   *)
WorkerGivesUp(c) ==
  /\ worker[c] = "serving"
  /\ worker' = [worker EXCEPT ![c] = "ended"]
  /\ mutex' = NoThread
  /\ UNCHANGED <<pc, chan, channels, callbacks, pending, erasing, joined, raced, peer, link, stop>>

-----------------------------------------------------------------------------
(* serve_connection's loop condition; the Session itself stays valid.       *)
Check ==
  /\ pc = "check"
  /\ pc' = IF stop THEN "freeEvent" ELSE "lock"
  /\ UNCHANGED <<mutex, chan, channels, callbacks, pending, erasing, joined, raced, worker, peer, link, stop>>

(* Session::try_poll: lock, ssh_event_dopoll(), unlock.                     *)
PollerLock ==
  /\ pc = "lock"
  /\ mutex = NoThread
  /\ mutex' = Poller
  /\ pc' = "poll"
  /\ UNCHANGED <<chan, channels, callbacks, pending, erasing, joined, raced, worker, peer, link, stop>>

(* Fault: the loop goes on at once, without the sleep.                      *)
PollReturnsAwake ==
  /\ pc = "poll"
  /\ mutex' = NoThread
  /\ pc' = "reap"
  /\ UNCHANGED <<chan, channels, callbacks, pending, erasing, joined, raced, worker, peer, link, stop>>

PollReturns ==
  /\ pc = "poll"
  /\ mutex' = NoThread
  /\ pc' = "sleep"
  /\ UNCHANGED <<chan, channels, callbacks, pending, erasing, joined, raced, worker, peer, link, stop>>

(* The millisecond for which try_poll() leaves the mutex alone is over.     *)
Wake ==
  /\ pc = "sleep"
  /\ pc' = "reap"
  /\ UNCHANGED <<mutex, chan, channels, callbacks, pending, erasing, joined, raced, worker, peer, link, stop>>

(* channels_.erase(raw), or ~unordered_map in the destructor: a             *)
(* ChannelState goes.  Its members are destroyed in reverse order: first    *)
(* the handler, whose destructor joins c's worker, then the Channel.        *)
BeginErase(c) ==
  /\ erasing = NoThread
  /\ c \in channels
  /\ (pc = "reap" /\ c \in pending) \/ pc = "dropBridge"
  /\ channels' = channels \ {c}
  /\ erasing' = c
  /\ UNCHANGED <<pc, mutex, chan, callbacks, pending, joined, raced, worker, peer, link, stop>>

(* Fault: the handler's destructor does not join the worker.                *)
HandlerGoesUnjoined(c) ==
  /\ erasing = c /\ ~joined
  /\ joined' = TRUE
  /\ UNCHANGED <<pc, mutex, chan, channels, callbacks, pending, erasing, raced, worker, peer, link, stop>>

HandlerGoes(c) ==
  /\ erasing = c /\ ~joined
  /\ worker[c] \in {"none", "ended"}
  /\ joined' = TRUE
  /\ UNCHANGED <<pc, mutex, chan, channels, callbacks, pending, erasing, raced, worker, peer, link, stop>>

(* ~Channel: ssh_channel_free(), and with it libssh's list of callbacks.    *)
FreeChannel(c) ==
  /\ erasing = c /\ joined
  /\ chan' = [chan EXCEPT ![c] = "freed"]
  /\ callbacks' = callbacks \ {c}
  /\ erasing' = NoThread
  /\ joined' = FALSE
  /\ UNCHANGED <<pc, mutex, channels, pending, raced, worker, peer, link, stop>>

(* Fault: the vector is cleared before the loop over it.                    *)
ReapClearsFirst ==
  /\ pc = "reap" /\ erasing = NoThread
  /\ pending' = {}
  /\ pc' = "clear"
  /\ UNCHANGED <<mutex, chan, channels, callbacks, erasing, joined, raced, worker, peer, link, stop>>

(* The loop of reap_closed_channels() has come to the end of the vector, as *)
(* far as it sees it.                                                       *)
ReapLoopEnds ==
  /\ pc = "reap" /\ erasing = NoThread
  /\ channels \cap pending \subseteq raced
  /\ pc' = "clear"
  /\ UNCHANGED <<mutex, chan, channels, callbacks, pending, erasing, joined, raced, worker, peer, link, stop>>

(* pending_removals_.clear(), and the result of try_poll: dopoll() reports  *)
(* an error once the connection is gone.                                    *)
ReapClears ==
  /\ pc = "clear"
  /\ pending' \in {{}, pending \cap raced}
  /\ pc' = IF link THEN "check" ELSE "freeEvent"
  /\ UNCHANGED <<mutex, chan, channels, callbacks, erasing, joined, raced, worker, peer, link, stop>>

-----------------------------------------------------------------------------
(* Fault: the Session is destroyed with the session mutex held.             *)
FreeEventLocked ==
  /\ pc = "freeEvent"
  /\ mutex = NoThread
  /\ mutex' = Poller
  /\ pc' = "dropBridge"
  /\ UNCHANGED <<chan, channels, callbacks, pending, erasing, joined, raced, worker, peer, link, stop>>

(* ~Session(): private_event_, bridge_ and core_ go in that order, and none *)
(* of them under the mutex.                                                 *)
FreeEvent ==
  /\ pc = "freeEvent"
  /\ pc' = "dropBridge"
  /\ UNCHANGED <<mutex, chan, channels, callbacks, pending, erasing, joined, raced, worker, peer, link, stop>>

(* ~HandlerBridge has destroyed every entry of channels_ that it found.     *)
DropBridge ==
  /\ pc = "dropBridge" /\ erasing = NoThread
  /\ channels \subseteq raced
  /\ pc' = "freeCore"
  /\ UNCHANGED <<mutex, chan, channels, callbacks, pending, erasing, joined, raced, worker, peer, link, stop>>

(* core_ goes; a Channel that was left behind has a reference of its own,   *)
(* and so ssh_disconnect() and ssh_free() do not run.                       *)
FreeCore ==
  /\ pc = "freeCore"
  /\ pc' = "done"
  /\ link' = (link /\ \E c \in Channels : chan[c] = "live")
  /\ UNCHANGED <<mutex, chan, channels, callbacks, pending, erasing, joined, raced, worker, peer, stop>>

-----------------------------------------------------------------------------
(* The client closes a channel, or its connection is lost.                  *)
ClientClose(c) ==
  /\ peer[c] = "open" /\ link
  /\ peer' = [peer EXCEPT ![c] = "closing"]
  /\ UNCHANGED <<pc, mutex, chan, channels, callbacks, pending, erasing, joined, raced, worker, link, stop>>

ConnectionLost ==
  /\ link
  /\ link' = FALSE
  /\ UNCHANGED <<pc, mutex, chan, channels, callbacks, pending, erasing, joined, raced, worker, peer, stop>>

(* ~TestServer() sets stop_requested_ and joins the connection thread.      *)
RequestStop ==
  /\ ~stop
  /\ stop' = TRUE
  /\ UNCHANGED <<pc, mutex, chan, channels, callbacks, pending, erasing, joined, raced, worker, peer, link>>

(* The connection thread has returned; nothing is left to do.               *)
Terminated ==
  /\ pc = "done"
  /\ UNCHANGED vars

Next ==
  \/ Check \/ PollerLock \/ PollReturns \/ Wake \/ ReapLoopEnds \/ ReapClears
  \/ FreeEvent \/ DropBridge \/ FreeCore \/ Terminated
  \/ \E c \in Channels : OpenChannel(c) \/ SubsystemRequest(c) \/ CloseChannel(c)
  \/ \E c \in Channels : WorkerLock(c) \/ WorkerSeesClose(c) \/ WorkerGivesUp(c)
  \/ \E c \in Channels : BeginErase(c) \/ HandlerGoes(c) \/ FreeChannel(c)
  \/ \E c \in Channels : ClientClose(c)
  \/ ConnectionLost \/ RequestStop

Spec == Init /\ [][Next]_vars

(* What the scheduler guarantees: every thread that can go on does, but a   *)
(* thread that waits for the recursive_mutex gets it only if it stays free  *)
(* ("gives no fairness guarantee", server_handlers.ipp:201), or, sooner or  *)
(* later, while the connection thread sleeps and does not compete for it    *)
(* (:206).                                                                  *)
WorkerLocksInSleep == pc = "sleep" /\ \E c \in Channels : WorkerLock(c)

ServerFairness ==
  /\ WF_vars(Check) /\ WF_vars(PollerLock) /\ WF_vars(PollReturns) /\ WF_vars(Wake)
  /\ WF_vars(ReapLoopEnds) /\ WF_vars(ReapClears)
  /\ WF_vars(FreeEvent) /\ WF_vars(DropBridge) /\ WF_vars(FreeCore)
  /\ SF_vars(WorkerLocksInSleep)
  /\ \A c \in Channels :
       /\ WF_vars(BeginErase(c)) /\ WF_vars(HandlerGoes(c)) /\ WF_vars(FreeChannel(c))
       /\ WF_vars(WorkerLock(c)) /\ WF_vars(WorkerSeesClose(c))

FairSpec == Spec /\ ServerFairness

(* A client that closes every channel it opens, sooner or later.            *)
ClosingClientSpec == FairSpec /\ \A c \in Channels : WF_vars(ClientClose(c))

-----------------------------------------------------------------------------
(* A worker's Channel& stays valid: from the moment the subsystem request   *)
(* starts the thread (server_sftp_subsystem.ipp:109) until the thread ends, *)
(* neither the reaping of closed channels nor the destruction of the        *)
(* Session frees the channel or the session under it, also while callbacks  *)
(* of other channels race with them.  A channel that was itself raced, one  *)
(* opened while channels_ is being changed or given a worker in the middle  *)
(* of its destruction (handler_bridge.ipp:176-183, 300-310), has no such    *)
(* guarantee.                                                               *)
WorkerSafe ==
  \A c \in Channels \ raced : worker[c] \in {"waiting", "serving"} =>
    chan[c] = "live" /\ pc \notin {"freeCore", "done"}

(* ssh_event_dopoll() and the raw reads of try_serve() never interleave     *)
(* (server_sftp_subsystem.ipp:151-155), and neither do two workers.         *)
OneReader ==
  /\ \A c, d \in Channels : (worker[c] = "serving" /\ worker[d] = "serving") => c = d
  /\ pc = "poll" => \A c \in Channels : worker[c] # "serving"

(* No channel is freed inside ssh_event_dopoll(), whose iteration over the  *)
(* channel list it would corrupt (handler_bridge.ipp:229-235).              *)
NotFreedInPoll ==
  [][\A c \in Channels : (chan[c] = "live" /\ chan'[c] = "freed") => pc # "poll"]_vars

(* No channel is forgotten: one that has been closed while its callbacks    *)
(* were installed is on the list of reap_closed_channels() until it is      *)
(* freed (handler_bridge.ipp:59-62, 236), and every other one is still in   *)
(* channels_ and goes with the bridge, so that none is left when the        *)
(* Session's core is next.  Raced entries may be missed.                    *)
NothingLeft ==
  \A c \in Channels \ raced : chan[c] = "live" =>
    /\ pc \notin {"freeCore", "done"}
    /\ (c \in callbacks /\ peer[c] = "closed") => c \in pending

(* The client's channels being closed in the end, a stop request ends the   *)
(* connection thread: destroying the Session cannot wait for ever on a      *)
(* worker that waits for the mutex (TestServer::~TestServer joins it).      *)
StopCompletes == stop ~> pc = "done"

(* The poll loop does not starve a worker that waits for the mutex: with    *)
(* nothing but the sleep of try_poll() to let it in, and a client that      *)
(* closes its channels, every worker gets its turn                          *)
(* (server_handlers.ipp:201-206).                                           *)
WorkerGetsMutex ==
  \A c \in Channels : worker[c] = "waiting" ~> worker[c] # "waiting"
=============================================================================
