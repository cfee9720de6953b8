------------------------- MODULE ServerSessionProofs -------------------------
(***************************************************************************)
(* Proofs about ServerSession, for every set of channels.  The invariant   *)
(* behind them ties the mutex to the two places that hold it (MutexHeld),  *)
(* the memory of every channel that no race was about to the two places    *)
(* from which it will be freed (Anchored), and the channels on the list    *)
(* of reap_closed_channels() to the channels that are closed (Noted).      *)
(***************************************************************************)
EXTENDS ServerSession, TLAPS

(* The mutex is held exactly by the thread that is inside dopoll() or       *)
(* inside try_serve().                                                      *)
MutexHeld ==
  /\ pc = "poll" <=> mutex = Poller
  /\ \A c \in Channels : worker[c] = "serving" <=> mutex = c

(* A channel that was not raced is allocated exactly while it has an entry  *)
(* in channels_ or its entry is being destroyed, and its worker ends before *)
(* the handler is gone.  Only reap_closed_channels() and ~HandlerBridge     *)
(* destroy an entry.                                                        *)
Anchored ==
  /\ \A c \in Channels : c \in callbacks => chan[c] = "live"
  /\ \A c \in Channels : peer[c] = "none" =>
       chan[c] = "none" /\ c \notin channels /\ c \notin raced /\ worker[c] = "none"
  /\ \A c \in Channels : c \in channels \/ erasing = c => chan[c] = "live"
  /\ \A c \in Channels : c \notin raced => (chan[c] = "live" <=> (c \in channels \/ erasing = c))
  /\ \A c \in Channels : (c \notin raced /\ worker[c] \in {"waiting", "serving"}) =>
       chan[c] = "live" /\ ~(erasing = c /\ joined)
  /\ \A c \in Channels : worker[c] # "none" => c \notin callbacks
  /\ erasing # NoThread => pc \in {"reap", "dropBridge"} /\ erasing \notin channels
  /\ joined => erasing # NoThread
  /\ pc \in {"freeCore", "done"} => channels \subseteq raced

(* A close that ran the callback put the channel on the list, and the list  *)
(* is cleared only when the entries on it are gone.                         *)
Noted ==
  /\ \A c \in Channels : c \in pending => peer[c] = "closed"
  /\ pc = "clear" => channels \cap pending \subseteq raced
  /\ \A c \in Channels :
       (c \notin raced /\ chan[c] = "live" /\ c \in callbacks /\ peer[c] = "closed") => c \in pending

ServerInv == Types /\ MutexHeld /\ Anchored /\ Noted

(* Types, one step per action.                                              *)
LEMMA TypeStep == Types /\ [Next]_vars => Types'
<1> SUFFICES ASSUME Types, [Next]_vars PROVE Types'
  OBVIOUS
<1> USE DEF Types, PollerPlaces
<1>1. CASE Check
  BY <1>1, ServerAssumption DEF ServerAssumption, Check
<1>2. CASE PollerLock
  BY <1>2, ServerAssumption DEF ServerAssumption, PollerLock
<1>3. CASE PollReturns
  BY <1>3, ServerAssumption DEF ServerAssumption, PollReturns
<1>4. CASE Wake
  BY <1>4, ServerAssumption DEF ServerAssumption, Wake
<1>5. CASE ReapLoopEnds
  BY <1>5, ServerAssumption DEF ServerAssumption, ReapLoopEnds
<1>6. CASE ReapClears
  BY <1>6, ServerAssumption DEF ServerAssumption, ReapClears
<1>7. CASE FreeEvent
  BY <1>7, ServerAssumption DEF ServerAssumption, FreeEvent
<1>8. CASE DropBridge
  BY <1>8, ServerAssumption DEF ServerAssumption, DropBridge
<1>9. CASE FreeCore
  BY <1>9, ServerAssumption DEF ServerAssumption, FreeCore
<1>10. CASE Terminated
  BY <1>10, ServerAssumption DEF ServerAssumption, Terminated, vars
<1>11. CASE \E c \in Channels : OpenChannel(c)
  BY <1>11, ServerAssumption DEF ServerAssumption, OpenChannel, ReadsSocket, MapInUse
<1>12. CASE \E c \in Channels : SubsystemRequest(c)
  BY <1>12, ServerAssumption DEF ServerAssumption, SubsystemRequest, ReadsSocket
<1>13. CASE \E c \in Channels : CloseChannel(c)
  BY <1>13, ServerAssumption DEF ServerAssumption, CloseChannel, ReadsSocket, ListInUse
<1>14. CASE \E c \in Channels : WorkerLock(c)
  BY <1>14, ServerAssumption DEF ServerAssumption, WorkerLock
<1>15. CASE \E c \in Channels : WorkerSeesClose(c)
  BY <1>15, ServerAssumption DEF ServerAssumption, WorkerSeesClose
<1>16. CASE \E c \in Channels : WorkerGivesUp(c)
  BY <1>16, ServerAssumption DEF ServerAssumption, WorkerGivesUp
<1>17. CASE \E c \in Channels : BeginErase(c)
  BY <1>17, ServerAssumption DEF ServerAssumption, BeginErase
<1>18. CASE \E c \in Channels : HandlerGoes(c)
  BY <1>18, ServerAssumption DEF ServerAssumption, HandlerGoes
<1>19. CASE \E c \in Channels : FreeChannel(c)
  BY <1>19, ServerAssumption DEF ServerAssumption, FreeChannel
<1>20. CASE \E c \in Channels : ClientClose(c)
  BY <1>20, ServerAssumption DEF ServerAssumption, ClientClose
<1>21. CASE ConnectionLost
  BY <1>21, ServerAssumption DEF ServerAssumption, ConnectionLost
<1>22. CASE RequestStop
  BY <1>22, ServerAssumption DEF ServerAssumption, RequestStop
<1>23. CASE UNCHANGED vars
  BY <1>23 DEF vars
<1>24. QED
  BY <1>1, <1>2, <1>3, <1>4, <1>5, <1>6, <1>7, <1>8, <1>9, <1>10, <1>11, <1>12,
     <1>13, <1>14, <1>15, <1>16, <1>17, <1>18, <1>19, <1>20, <1>21, <1>22, <1>23
     DEF Next

(* The mutex discipline, one step per action.                               *)
LEMMA MutexStep == Types /\ MutexHeld /\ [Next]_vars => MutexHeld'
<1> SUFFICES ASSUME Types, MutexHeld, [Next]_vars PROVE MutexHeld'
  OBVIOUS
<1> USE DEF Types, MutexHeld
<1>1. CASE Check
  BY <1>1, ServerAssumption DEF ServerAssumption, Check
<1>2. CASE PollerLock
  BY <1>2, ServerAssumption DEF ServerAssumption, PollerLock
<1>3. CASE PollReturns
  BY <1>3, ServerAssumption DEF ServerAssumption, PollReturns
<1>4. CASE Wake
  BY <1>4, ServerAssumption DEF ServerAssumption, Wake
<1>5. CASE ReapLoopEnds
  BY <1>5, ServerAssumption DEF ServerAssumption, ReapLoopEnds
<1>6. CASE ReapClears
  BY <1>6, ServerAssumption DEF ServerAssumption, ReapClears
<1>7. CASE FreeEvent
  BY <1>7, ServerAssumption DEF ServerAssumption, FreeEvent
<1>8. CASE DropBridge
  BY <1>8, ServerAssumption DEF ServerAssumption, DropBridge
<1>9. CASE FreeCore
  BY <1>9, ServerAssumption DEF ServerAssumption, FreeCore
<1>10. CASE Terminated
  BY <1>10, ServerAssumption DEF ServerAssumption, Terminated, vars
<1>11. CASE \E c \in Channels : OpenChannel(c)
  BY <1>11, ServerAssumption DEF ServerAssumption, OpenChannel, ReadsSocket, MapInUse
<1>12. CASE \E c \in Channels : SubsystemRequest(c)
  BY <1>12, ServerAssumption DEF ServerAssumption, SubsystemRequest, ReadsSocket
<1>13. CASE \E c \in Channels : CloseChannel(c)
  BY <1>13, ServerAssumption DEF ServerAssumption, CloseChannel, ReadsSocket, ListInUse
<1>14. CASE \E c \in Channels : WorkerLock(c)
  BY <1>14, ServerAssumption DEF ServerAssumption, WorkerLock
<1>15. CASE \E c \in Channels : WorkerSeesClose(c)
  BY <1>15, ServerAssumption DEF ServerAssumption, WorkerSeesClose
<1>16. CASE \E c \in Channels : WorkerGivesUp(c)
  BY <1>16, ServerAssumption DEF ServerAssumption, WorkerGivesUp
<1>17. CASE \E c \in Channels : BeginErase(c)
  BY <1>17, ServerAssumption DEF ServerAssumption, BeginErase
<1>18. CASE \E c \in Channels : HandlerGoes(c)
  BY <1>18, ServerAssumption DEF ServerAssumption, HandlerGoes
<1>19. CASE \E c \in Channels : FreeChannel(c)
  BY <1>19, ServerAssumption DEF ServerAssumption, FreeChannel
<1>20. CASE \E c \in Channels : ClientClose(c)
  BY <1>20, ServerAssumption DEF ServerAssumption, ClientClose
<1>21. CASE ConnectionLost
  BY <1>21, ServerAssumption DEF ServerAssumption, ConnectionLost
<1>22. CASE RequestStop
  BY <1>22, ServerAssumption DEF ServerAssumption, RequestStop
<1>23. CASE UNCHANGED vars
  BY <1>23 DEF vars
<1>24. QED
  BY <1>1, <1>2, <1>3, <1>4, <1>5, <1>6, <1>7, <1>8, <1>9, <1>10, <1>11, <1>12,
     <1>13, <1>14, <1>15, <1>16, <1>17, <1>18, <1>19, <1>20, <1>21, <1>22, <1>23
     DEF Next

(* Channels stay anchored, one step per action.                             *)
LEMMA AnchoredStep == ServerInv /\ [Next]_vars => Anchored'
<1> SUFFICES ASSUME ServerInv, [Next]_vars PROVE Anchored'
  OBVIOUS
<1> USE DEF ServerInv, Types, MutexHeld, Anchored
<1>1. CASE Check
  BY <1>1, ServerAssumption DEF ServerAssumption, Check
<1>2. CASE PollerLock
  BY <1>2, ServerAssumption DEF ServerAssumption, PollerLock
<1>3. CASE PollReturns
  BY <1>3, ServerAssumption DEF ServerAssumption, PollReturns
<1>4. CASE Wake
  BY <1>4, ServerAssumption DEF ServerAssumption, Wake
<1>5. CASE ReapLoopEnds
  BY <1>5, ServerAssumption DEF ServerAssumption, ReapLoopEnds
<1>6. CASE ReapClears
  BY <1>6, ServerAssumption DEF ServerAssumption, ReapClears
<1>7. CASE FreeEvent
  BY <1>7, ServerAssumption DEF ServerAssumption, FreeEvent
<1>8. CASE DropBridge
  BY <1>8, ServerAssumption DEF ServerAssumption, DropBridge
<1>9. CASE FreeCore
  BY <1>9, ServerAssumption DEF ServerAssumption, FreeCore
<1>10. CASE Terminated
  BY <1>10, ServerAssumption DEF ServerAssumption, Terminated, vars
<1>11. CASE \E c \in Channels : OpenChannel(c)
  BY <1>11, ServerAssumption DEF ServerAssumption, OpenChannel, ReadsSocket, MapInUse
<1>12. CASE \E c \in Channels : SubsystemRequest(c)
  BY <1>12, ServerAssumption DEF ServerAssumption, SubsystemRequest, ReadsSocket
<1>13. CASE \E c \in Channels : CloseChannel(c)
  BY <1>13, ServerAssumption DEF ServerAssumption, CloseChannel, ReadsSocket, ListInUse
<1>14. CASE \E c \in Channels : WorkerLock(c)
  BY <1>14, ServerAssumption DEF ServerAssumption, WorkerLock
<1>15. CASE \E c \in Channels : WorkerSeesClose(c)
  BY <1>15, ServerAssumption DEF ServerAssumption, WorkerSeesClose
<1>16. CASE \E c \in Channels : WorkerGivesUp(c)
  BY <1>16, ServerAssumption DEF ServerAssumption, WorkerGivesUp
<1>17. CASE \E c \in Channels : BeginErase(c)
  BY <1>17, ServerAssumption DEF ServerAssumption, BeginErase
<1>18. CASE \E c \in Channels : HandlerGoes(c)
  BY <1>18, ServerAssumption DEF ServerAssumption, HandlerGoes
<1>19. CASE \E c \in Channels : FreeChannel(c)
  BY <1>19, ServerAssumption DEF ServerAssumption, FreeChannel
<1>20. CASE \E c \in Channels : ClientClose(c)
  BY <1>20, ServerAssumption DEF ServerAssumption, ClientClose
<1>21. CASE ConnectionLost
  BY <1>21, ServerAssumption DEF ServerAssumption, ConnectionLost
<1>22. CASE RequestStop
  BY <1>22, ServerAssumption DEF ServerAssumption, RequestStop
<1>23. CASE UNCHANGED vars
  BY <1>23 DEF vars
<1>24. QED
  BY <1>1, <1>2, <1>3, <1>4, <1>5, <1>6, <1>7, <1>8, <1>9, <1>10, <1>11, <1>12,
     <1>13, <1>14, <1>15, <1>16, <1>17, <1>18, <1>19, <1>20, <1>21, <1>22, <1>23
     DEF Next

(* Closed channels stay noted, one step per action.                         *)
LEMMA NotedStep == ServerInv /\ [Next]_vars => Noted'
<1> SUFFICES ASSUME ServerInv, [Next]_vars PROVE Noted'
  OBVIOUS
<1> USE DEF ServerInv, Types, Anchored, Noted
<1>1. CASE Check
  BY <1>1, ServerAssumption DEF ServerAssumption, Check
<1>2. CASE PollerLock
  BY <1>2, ServerAssumption DEF ServerAssumption, PollerLock
<1>3. CASE PollReturns
  BY <1>3, ServerAssumption DEF ServerAssumption, PollReturns
<1>4. CASE Wake
  BY <1>4, ServerAssumption DEF ServerAssumption, Wake
<1>5. CASE ReapLoopEnds
  BY <1>5, ServerAssumption DEF ServerAssumption, ReapLoopEnds
<1>6. CASE ReapClears
  BY <1>6, ServerAssumption DEF ServerAssumption, ReapClears
<1>7. CASE FreeEvent
  BY <1>7, ServerAssumption DEF ServerAssumption, FreeEvent
<1>8. CASE DropBridge
  BY <1>8, ServerAssumption DEF ServerAssumption, DropBridge
<1>9. CASE FreeCore
  BY <1>9, ServerAssumption DEF ServerAssumption, FreeCore
<1>10. CASE Terminated
  BY <1>10, ServerAssumption DEF ServerAssumption, Terminated, vars
<1>11. CASE \E c \in Channels : OpenChannel(c)
  BY <1>11, ServerAssumption DEF ServerAssumption, OpenChannel, ReadsSocket, MapInUse
<1>12. CASE \E c \in Channels : SubsystemRequest(c)
  BY <1>12, ServerAssumption DEF ServerAssumption, SubsystemRequest, ReadsSocket
<1>13. CASE \E c \in Channels : CloseChannel(c)
  BY <1>13, ServerAssumption DEF ServerAssumption, CloseChannel, ReadsSocket, ListInUse
<1>14. CASE \E c \in Channels : WorkerLock(c)
  BY <1>14, ServerAssumption DEF ServerAssumption, WorkerLock
<1>15. CASE \E c \in Channels : WorkerSeesClose(c)
  BY <1>15, ServerAssumption DEF ServerAssumption, WorkerSeesClose
<1>16. CASE \E c \in Channels : WorkerGivesUp(c)
  BY <1>16, ServerAssumption DEF ServerAssumption, WorkerGivesUp
<1>17. CASE \E c \in Channels : BeginErase(c)
  BY <1>17, ServerAssumption DEF ServerAssumption, BeginErase
<1>18. CASE \E c \in Channels : HandlerGoes(c)
  BY <1>18, ServerAssumption DEF ServerAssumption, HandlerGoes
<1>19. CASE \E c \in Channels : FreeChannel(c)
  BY <1>19, ServerAssumption DEF ServerAssumption, FreeChannel
<1>20. CASE \E c \in Channels : ClientClose(c)
  BY <1>20, ServerAssumption DEF ServerAssumption, ClientClose
<1>21. CASE ConnectionLost
  BY <1>21, ServerAssumption DEF ServerAssumption, ConnectionLost
<1>22. CASE RequestStop
  BY <1>22, ServerAssumption DEF ServerAssumption, RequestStop
<1>23. CASE UNCHANGED vars
  BY <1>23 DEF vars
<1>24. QED
  BY <1>1, <1>2, <1>3, <1>4, <1>5, <1>6, <1>7, <1>8, <1>9, <1>10, <1>11, <1>12,
     <1>13, <1>14, <1>15, <1>16, <1>17, <1>18, <1>19, <1>20, <1>21, <1>22, <1>23
     DEF Next

(* The inductive invariant holds in every reachable state.                  *)
LEMMA ServerInvariant == Spec => []ServerInv
<1>1. Init => ServerInv
  BY ServerAssumption DEF ServerAssumption, Init, ServerInv, Types, PollerPlaces, MutexHeld,
     Anchored, Noted
<1>2. ServerInv /\ [Next]_vars => ServerInv'
  BY TypeStep, MutexStep, AnchoredStep, NotedStep DEF ServerInv
<1>3. QED
  BY <1>1, <1>2, PTL DEF Spec

(* Every state of ServerSession has its type, and no installed callback     *)
(* points to a freed ChannelState.                                          *)
THEOREM TypeCorrect == Spec => []TypeOK
<1>1. ServerInv => TypeOK
  BY DEF ServerInv, Types, Anchored, TypeOK
<1>2. QED
  BY <1>1, ServerInvariant, PTL

(* dopoll() and any number of SFTP workers read the session one at a time.  *)
THEOREM ReadersExclude == Spec => []OneReader
<1>1. ServerInv => OneReader
  BY ServerAssumption DEF ServerAssumption, ServerInv, Types, MutexHeld, OneReader
<1>2. QED
  BY <1>1, ServerInvariant, PTL

(* No worker of a channel that was not raced, for any number of channels,   *)
(* ever uses a freed Channel or session.                                    *)
THEOREM WorkersAreSafe == Spec => []WorkerSafe
<1>1. ServerInv => WorkerSafe
  BY ServerAssumption DEF ServerAssumption, ServerInv, Types, Anchored, WorkerSafe
<1>2. QED
  BY <1>1, ServerInvariant, PTL

(* Of the channels that were not raced, every closed one is on the list or  *)
(* freed, and none is left once the bridge is gone.                         *)
THEOREM NothingIsLeft == Spec => []NothingLeft
<1>1. ServerInv => NothingLeft
  BY ServerAssumption DEF ServerAssumption, ServerInv, Types, Anchored, Noted, NothingLeft
<1>2. QED
  BY <1>1, ServerInvariant, PTL

(* Channels are freed outside ssh_event_dopoll() only.                      *)
THEOREM NeverFreedInPoll == Spec => NotFreedInPoll
<1> DEFINE Outside == \A c \in Channels :
                        (chan[c] = "live" /\ chan'[c] = "freed") => pc # "poll"
<1>1. ServerInv /\ [Next]_vars => [Outside]_vars
  <2> SUFFICES ASSUME ServerInv, Next, NEW c \in Channels,
                      chan[c] = "live", chan'[c] = "freed"
               PROVE  pc # "poll"
    OBVIOUS
  <2>1. PICK d \in Channels : FreeChannel(d)
    BY DEF Next, Check, PollerLock, PollReturns, Wake, ReapLoopEnds, ReapClears, FreeEvent, DropBridge,
           FreeCore, Terminated, OpenChannel, SubsystemRequest, CloseChannel, WorkerLock,
           WorkerSeesClose, WorkerGivesUp, BeginErase, HandlerGoes, ClientClose, ConnectionLost, RequestStop,
           vars, ServerInv, Types
  <2>2. QED
    BY <2>1, ServerAssumption DEF ServerAssumption, FreeChannel, ServerInv, Anchored
<1>2. QED
  BY <1>1, ServerInvariant, PTL DEF Spec, NotFreedInPoll
=============================================================================
