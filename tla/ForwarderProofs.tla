--------------------------- MODULE ForwarderProofs ---------------------------
(***************************************************************************)
(* Proofs about Forwarder, for any number of connections and restarts.     *)
(* What a hasty program cannot break comes from where the owner's thread   *)
(* is (Placed) and from who serves which connection (Serving).  What only  *)
(* a program that waits gets needs the absence of a second loop (Alone)    *)
(* and of a second listener (Single) on top.                               *)
(***************************************************************************)
EXTENDS Forwarder, TLAPS

(* The listener is there whenever a loop is, or is about to be.             *)
Placed ==
  /\ owner = "looping" <=> loop["Owner"] # "none"
  /\ owner = "looping" => call = "try_run_until_stopped"
  /\ call # "none" <=> owner \in {"bind", "reset", "launch", "looping"}
  /\ loop["Worker"] # "none" => thread
  /\ owner # "gone" => (listener = NoListener \/ listener \in open)
  /\ owner = "gone" => ~thread
  /\ (thread \/ owner \in {"reset", "launch", "looping"}) => listener \in open

(* A loop is busy with one connection, and no other loop with the same.     *)
Serving ==
  /\ \A t \in Threads : loop[t] \in {"serve", "pump"} =>
       serving[t] \in Clients /\ client[serving[t]] \in {"accepted", "pumping"}
  /\ \A t, u \in Threads :
       (t # u /\ loop[t] \in {"serve", "pump"} /\ loop[u] \in {"serve", "pump"}) =>
         serving[t] # serving[u]

LifeInv == Types /\ Placed /\ Serving /\ ConnectionsHeld

(* No step changes what the forwarder is or how it is used.                 *)
LEMMA SetupFixed == [Next]_vars => kind' = kind /\ manner' = manner
  BY DEF Next, Alive, Terminated, vars, setup

(* Types, one step per action.                                              *)
LEMMA TypesStep == Types /\ Serving /\ [Next]_vars => Types'
<1> SUFFICES ASSUME Types, Serving, [Next]_vars PROVE Types'
  OBVIOUS
<1>0. kind' = kind /\ manner' = manner
  BY SetupFixed
<1> USE DEF Types, Serving, Threads, LoopPlaces, sockets, connVars, setup, vars
<1>1. CASE \E l \in Listeners : Bind(l)
  BY <1>0, <1>1, ForwarderAssumption DEF ForwarderAssumption, Bind, Replaced
<1>2. CASE BindFails
  BY <1>0, <1>2, ForwarderAssumption DEF ForwarderAssumption, BindFails
<1>3. CASE ResetStop
  BY <1>0, <1>3, ForwarderAssumption DEF ForwarderAssumption, ResetStop
<1>4. CASE LaunchThread
  BY <1>0, <1>4, ForwarderAssumption DEF ForwarderAssumption, LaunchThread
<1>5. CASE EnterLoop
  BY <1>0, <1>5, ForwarderAssumption DEF ForwarderAssumption, EnterLoop
<1>6. CASE Join
  BY <1>0, <1>6, ForwarderAssumption DEF ForwarderAssumption, Join
<1>7. CASE DestroyEnd
  BY <1>0, <1>7, ForwarderAssumption DEF ForwarderAssumption, DestroyEnd, Released
<1>8. CASE \E c \in Calls : CallStart(c)
  BY <1>0, <1>8, ForwarderAssumption DEF ForwarderAssumption, CallStart, MayStart
<1>9. CASE Stop
  BY <1>0, <1>9, ForwarderAssumption DEF ForwarderAssumption, Stop
<1>10. CASE StopFromOutside
  BY <1>0, <1>10, ForwarderAssumption DEF ForwarderAssumption, StopFromOutside
<1>11. CASE Destroy
  BY <1>0, <1>11, ForwarderAssumption DEF ForwarderAssumption, Destroy
<1>12. CASE \E t \in Threads : LoopEnter(t)
  BY <1>0, <1>12, ForwarderAssumption DEF ForwarderAssumption, LoopEnter
<1>13. CASE \E t \in Threads : LoopCheck(t)
  BY <1>0, <1>13, ForwarderAssumption DEF ForwarderAssumption, LoopCheck
<1>14. CASE \E t \in Threads : LoopTimeout(t)
  BY <1>0, <1>14, ForwarderAssumption DEF ForwarderAssumption, LoopTimeout
<1>15. CASE \E t \in Threads : LoopLeave(t)
  <2>1. stopped' \in BOOLEAN /\ running' \in BOOLEAN
    BY <1>15, Zenon DEF LoopLeave
  <2>2. QED
    BY <1>0, <1>15, <2>1 DEF LoopLeave
<1>16. CASE \E t \in Threads, k \in Clients : LoopAccept(t, k)
  BY <1>0, <1>16, ForwarderAssumption DEF ForwarderAssumption, LoopAccept
<1>17. CASE \E t \in Threads : Refuse(t)
  BY <1>0, <1>17, ForwarderAssumption DEF ForwarderAssumption, Refuse, EndServing
<1>18. CASE \E t \in Threads : Unreachable(t)
  BY <1>0, <1>18, ForwarderAssumption DEF ForwarderAssumption, Unreachable, EndServing
<1>19. CASE \E t \in Threads : BeginPump(t)
  BY <1>0, <1>19, ForwarderAssumption DEF ForwarderAssumption, BeginPump
<1>20. CASE \E t \in Threads : PumpEnds(t)
  BY <1>0, <1>20, ForwarderAssumption DEF ForwarderAssumption, PumpEnds, EndServing
<1>21. CASE \E k \in Clients : Connect(k)
  BY <1>0, <1>21, ForwarderAssumption DEF ForwarderAssumption, Connect
<1>22. CASE Terminated
  BY <1>0, <1>22, ForwarderAssumption DEF ForwarderAssumption, Terminated
<1>23. CASE UNCHANGED vars
  BY <1>0, <1>23, ForwarderAssumption DEF ForwarderAssumption
<1>24. QED
  BY <1>1, <1>2, <1>3, <1>4, <1>5, <1>6, <1>7, <1>8, <1>9, <1>10, <1>11, <1>12,
     <1>13, <1>14, <1>15, <1>16, <1>17, <1>18, <1>19, <1>20, <1>21, <1>22, <1>23
     DEF Next, OwnerStep, LoopStep, Alive

(* The owner's place, one step per action.                                  *)
LEMMA PlacedStep == Types /\ Placed /\ [Next]_vars => Placed'
<1> SUFFICES ASSUME Types, Placed, [Next]_vars PROVE Placed'
  OBVIOUS
<1>0. kind' = kind /\ manner' = manner
  BY SetupFixed
<1> USE DEF Types, Placed, Threads, LoopPlaces, Active, sockets, connVars, setup, vars
<1>1. CASE \E l \in Listeners : Bind(l)
  BY <1>0, <1>1, ForwarderAssumption DEF ForwarderAssumption, Bind, Replaced
<1>2. CASE BindFails
  BY <1>0, <1>2, ForwarderAssumption DEF ForwarderAssumption, BindFails
<1>3. CASE ResetStop
  BY <1>0, <1>3, ForwarderAssumption DEF ForwarderAssumption, ResetStop
<1>4. CASE LaunchThread
  BY <1>0, <1>4, ForwarderAssumption DEF ForwarderAssumption, LaunchThread
<1>5. CASE EnterLoop
  BY <1>0, <1>5, ForwarderAssumption DEF ForwarderAssumption, EnterLoop
<1>6. CASE Join
  BY <1>0, <1>6, ForwarderAssumption DEF ForwarderAssumption, Join
<1>7. CASE DestroyEnd
  BY <1>0, <1>7, ForwarderAssumption DEF ForwarderAssumption, DestroyEnd, Released
<1>8. CASE \E c \in Calls : CallStart(c)
  BY <1>0, <1>8, ForwarderAssumption DEF ForwarderAssumption, CallStart, MayStart
<1>9. CASE Stop
  BY <1>0, <1>9, ForwarderAssumption DEF ForwarderAssumption, Stop
<1>10. CASE StopFromOutside
  BY <1>0, <1>10, ForwarderAssumption DEF ForwarderAssumption, StopFromOutside
<1>11. CASE Destroy
  BY <1>0, <1>11, ForwarderAssumption DEF ForwarderAssumption, Destroy
<1>12. CASE \E t \in Threads : LoopEnter(t)
  BY <1>0, <1>12, ForwarderAssumption DEF ForwarderAssumption, LoopEnter
<1>13. CASE \E t \in Threads : LoopCheck(t)
  BY <1>0, <1>13, ForwarderAssumption DEF ForwarderAssumption, LoopCheck
<1>14. CASE \E t \in Threads : LoopTimeout(t)
  BY <1>0, <1>14, ForwarderAssumption DEF ForwarderAssumption, LoopTimeout
<1>15. CASE \E t \in Threads : LoopLeave(t)
  BY <1>0, <1>15, ForwarderAssumption DEF ForwarderAssumption, LoopLeave
<1>16. CASE \E t \in Threads, k \in Clients : LoopAccept(t, k)
  BY <1>0, <1>16, ForwarderAssumption DEF ForwarderAssumption, LoopAccept
<1>17. CASE \E t \in Threads : Refuse(t)
  BY <1>0, <1>17, ForwarderAssumption DEF ForwarderAssumption, Refuse, EndServing
<1>18. CASE \E t \in Threads : Unreachable(t)
  BY <1>0, <1>18, ForwarderAssumption DEF ForwarderAssumption, Unreachable, EndServing
<1>19. CASE \E t \in Threads : BeginPump(t)
  BY <1>0, <1>19, ForwarderAssumption DEF ForwarderAssumption, BeginPump
<1>20. CASE \E t \in Threads : PumpEnds(t)
  BY <1>0, <1>20, ForwarderAssumption DEF ForwarderAssumption, PumpEnds, EndServing
<1>21. CASE \E k \in Clients : Connect(k)
  BY <1>0, <1>21, ForwarderAssumption DEF ForwarderAssumption, Connect
<1>22. CASE Terminated
  BY <1>0, <1>22, ForwarderAssumption DEF ForwarderAssumption, Terminated
<1>23. CASE UNCHANGED vars
  BY <1>0, <1>23, ForwarderAssumption DEF ForwarderAssumption
<1>24. QED
  BY <1>1, <1>2, <1>3, <1>4, <1>5, <1>6, <1>7, <1>8, <1>9, <1>10, <1>11, <1>12,
     <1>13, <1>14, <1>15, <1>16, <1>17, <1>18, <1>19, <1>20, <1>21, <1>22, <1>23
     DEF Next, OwnerStep, LoopStep, Alive

(* The connections in service, one step per action.                         *)
LEMMA ServingStep == LifeInv /\ [Next]_vars => Serving' /\ ConnectionsHeld'
<1> SUFFICES ASSUME LifeInv, [Next]_vars PROVE Serving' /\ ConnectionsHeld'
  OBVIOUS
<1>0. kind' = kind /\ manner' = manner
  BY SetupFixed
<1> USE DEF LifeInv, Types, Placed, Serving, ConnectionsHeld, Threads, LoopPlaces, Active,
            sockets, connVars, setup, vars
<1>1. CASE \E l \in Listeners : Bind(l)
  BY <1>0, <1>1, ForwarderAssumption DEF ForwarderAssumption, Bind, Replaced
<1>2. CASE BindFails
  BY <1>0, <1>2, ForwarderAssumption DEF ForwarderAssumption, BindFails
<1>3. CASE ResetStop
  BY <1>0, <1>3, ForwarderAssumption DEF ForwarderAssumption, ResetStop
<1>4. CASE LaunchThread
  BY <1>0, <1>4, ForwarderAssumption DEF ForwarderAssumption, LaunchThread
<1>5. CASE EnterLoop
  BY <1>0, <1>5, ForwarderAssumption DEF ForwarderAssumption, EnterLoop
<1>6. CASE Join
  BY <1>0, <1>6, ForwarderAssumption DEF ForwarderAssumption, Join
<1>7. CASE DestroyEnd
  BY <1>0, <1>7, ForwarderAssumption DEF ForwarderAssumption, DestroyEnd, Released
<1>8. CASE \E c \in Calls : CallStart(c)
  BY <1>0, <1>8, ForwarderAssumption DEF ForwarderAssumption, CallStart, MayStart
<1>9. CASE Stop
  BY <1>0, <1>9, ForwarderAssumption DEF ForwarderAssumption, Stop
<1>10. CASE StopFromOutside
  BY <1>0, <1>10, ForwarderAssumption DEF ForwarderAssumption, StopFromOutside
<1>11. CASE Destroy
  BY <1>0, <1>11, ForwarderAssumption DEF ForwarderAssumption, Destroy
<1>12. CASE \E t \in Threads : LoopEnter(t)
  BY <1>0, <1>12, ForwarderAssumption DEF ForwarderAssumption, LoopEnter
<1>13. CASE \E t \in Threads : LoopCheck(t)
  BY <1>0, <1>13, ForwarderAssumption DEF ForwarderAssumption, LoopCheck
<1>14. CASE \E t \in Threads : LoopTimeout(t)
  BY <1>0, <1>14, ForwarderAssumption DEF ForwarderAssumption, LoopTimeout
<1>15. CASE \E t \in Threads : LoopLeave(t)
  BY <1>0, <1>15, ForwarderAssumption DEF ForwarderAssumption, LoopLeave
<1>16. CASE \E t \in Threads, k \in Clients : LoopAccept(t, k)
  BY <1>0, <1>16, ForwarderAssumption DEF ForwarderAssumption, LoopAccept
<1>17. CASE \E t \in Threads : Refuse(t)
  BY <1>0, <1>17, ForwarderAssumption DEF ForwarderAssumption, Refuse, EndServing
<1>18. CASE \E t \in Threads : Unreachable(t)
  BY <1>0, <1>18, ForwarderAssumption DEF ForwarderAssumption, Unreachable, EndServing
<1>19. CASE \E t \in Threads : BeginPump(t)
  BY <1>0, <1>19, ForwarderAssumption DEF ForwarderAssumption, BeginPump
<1>20. CASE \E t \in Threads : PumpEnds(t)
  BY <1>0, <1>20, ForwarderAssumption DEF ForwarderAssumption, PumpEnds, EndServing
<1>21. CASE \E k \in Clients : Connect(k)
  BY <1>0, <1>21, ForwarderAssumption DEF ForwarderAssumption, Connect
<1>22. CASE Terminated
  BY <1>0, <1>22, ForwarderAssumption DEF ForwarderAssumption, Terminated
<1>23. CASE UNCHANGED vars
  BY <1>0, <1>23, ForwarderAssumption DEF ForwarderAssumption
<1>24. QED
  BY <1>1, <1>2, <1>3, <1>4, <1>5, <1>6, <1>7, <1>8, <1>9, <1>10, <1>11, <1>12,
     <1>13, <1>14, <1>15, <1>16, <1>17, <1>18, <1>19, <1>20, <1>21, <1>22, <1>23
     DEF Next, OwnerStep, LoopStep, Alive

(* The part of the invariant that holds for every program.                  *)
LEMMA LifeInvariant == Spec => []LifeInv
<1>1. Init => LifeInv
  <2>1. Init => /\ thread \in BOOLEAN /\ running \in BOOLEAN /\ stop \in BOOLEAN
                /\ stopped \in BOOLEAN /\ aborted \in BOOLEAN
    BY Zenon DEF Init
  <2>2. Init => Types
    BY <2>1, ForwarderAssumption DEF ForwarderAssumption, Init, Types, Threads, LoopPlaces
  <2>3. Init => ~thread
    BY Zenon DEF Init
  <2>4. Init => Placed
    BY <2>3 DEF Init, Placed, Threads
  <2>5. Init => Serving /\ ConnectionsHeld
    BY DEF Init, Serving, ConnectionsHeld, Threads
  <2>6. QED
    BY <2>2, <2>4, <2>5 DEF LifeInv
<1>2. LifeInv /\ [Next]_vars => LifeInv'
  BY TypesStep, PlacedStep, ServingStep DEF LifeInv
<1>3. QED
  BY <1>1, <1>2, PTL DEF Spec

(* Every state of Forwarder has its type, and no loop runs detached.        *)
THEOREM TypeCorrect == Spec => []TypeOK
<1>1. LifeInv => TypeOK
  BY DEF LifeInv, Types, Placed, TypeOK, Active
<1>2. QED
  BY <1>1, LifeInvariant, PTL

(* However it is called, a forwarder drops no accepted connection.          *)
THEOREM ConnectionsAlwaysHeld == Spec => []ConnectionsHeld
<1>1. LifeInv => ConnectionsHeld
  BY DEF LifeInv
<1>2. QED
  BY <1>1, LifeInvariant, PTL

-----------------------------------------------------------------------------
(* A program that waits has one loop at a time, and running_ tells.         *)
Alone == manner # "hasty" => (call # "none" => ~thread) /\ RunningExact

(* One step per action, for a program that waits.                           *)
LEMMA AloneStep == LifeInv /\ Alone /\ [Next]_vars => Alone'
<1> SUFFICES ASSUME LifeInv, Alone, [Next]_vars PROVE Alone'
  OBVIOUS
<1>0. kind' = kind /\ manner' = manner
  BY SetupFixed
<1> USE DEF LifeInv, Types, Placed, Alone, RunningExact, Threads, LoopPlaces, Active, sockets, connVars, setup, vars
<1>1. CASE \E l \in Listeners : Bind(l)
  BY <1>0, <1>1, ForwarderAssumption DEF ForwarderAssumption, Bind, Replaced
<1>2. CASE BindFails
  BY <1>0, <1>2, ForwarderAssumption DEF ForwarderAssumption, BindFails
<1>3. CASE ResetStop
  BY <1>0, <1>3, ForwarderAssumption DEF ForwarderAssumption, ResetStop
<1>4. CASE LaunchThread
  BY <1>0, <1>4, ForwarderAssumption DEF ForwarderAssumption, LaunchThread
<1>5. CASE EnterLoop
  BY <1>0, <1>5, ForwarderAssumption DEF ForwarderAssumption, EnterLoop
<1>6. CASE Join
  BY <1>0, <1>6, ForwarderAssumption DEF ForwarderAssumption, Join
<1>7. CASE DestroyEnd
  BY <1>0, <1>7, ForwarderAssumption DEF ForwarderAssumption, DestroyEnd, Released
<1>8. CASE \E c \in Calls : CallStart(c)
  BY <1>0, <1>8, ForwarderAssumption DEF ForwarderAssumption, CallStart, MayStart
<1>9. CASE Stop
  BY <1>0, <1>9, ForwarderAssumption DEF ForwarderAssumption, Stop
<1>10. CASE StopFromOutside
  BY <1>0, <1>10, ForwarderAssumption DEF ForwarderAssumption, StopFromOutside
<1>11. CASE Destroy
  BY <1>0, <1>11, ForwarderAssumption DEF ForwarderAssumption, Destroy
<1>12. CASE \E t \in Threads : LoopEnter(t)
  BY <1>0, <1>12, ForwarderAssumption DEF ForwarderAssumption, LoopEnter
<1>13. CASE \E t \in Threads : LoopCheck(t)
  BY <1>0, <1>13, ForwarderAssumption DEF ForwarderAssumption, LoopCheck
<1>14. CASE \E t \in Threads : LoopTimeout(t)
  BY <1>0, <1>14, ForwarderAssumption DEF ForwarderAssumption, LoopTimeout
<1>15. CASE \E t \in Threads : LoopLeave(t)
  BY <1>0, <1>15, ForwarderAssumption DEF ForwarderAssumption, LoopLeave
<1>16. CASE \E t \in Threads, k \in Clients : LoopAccept(t, k)
  BY <1>0, <1>16, ForwarderAssumption DEF ForwarderAssumption, LoopAccept
<1>17. CASE \E t \in Threads : Refuse(t)
  BY <1>0, <1>17, ForwarderAssumption DEF ForwarderAssumption, Refuse, EndServing
<1>18. CASE \E t \in Threads : Unreachable(t)
  BY <1>0, <1>18, ForwarderAssumption DEF ForwarderAssumption, Unreachable, EndServing
<1>19. CASE \E t \in Threads : BeginPump(t)
  BY <1>0, <1>19, ForwarderAssumption DEF ForwarderAssumption, BeginPump
<1>20. CASE \E t \in Threads : PumpEnds(t)
  BY <1>0, <1>20, ForwarderAssumption DEF ForwarderAssumption, PumpEnds, EndServing
<1>21. CASE \E k \in Clients : Connect(k)
  BY <1>0, <1>21, ForwarderAssumption DEF ForwarderAssumption, Connect
<1>22. CASE Terminated
  BY <1>0, <1>22, ForwarderAssumption DEF ForwarderAssumption, Terminated
<1>23. CASE UNCHANGED vars
  BY <1>0, <1>23, ForwarderAssumption DEF ForwarderAssumption
<1>24. QED
  BY <1>1, <1>2, <1>3, <1>4, <1>5, <1>6, <1>7, <1>8, <1>9, <1>10, <1>11, <1>12,
     <1>13, <1>14, <1>15, <1>16, <1>17, <1>18, <1>19, <1>20, <1>21, <1>22, <1>23
     DEF Next, OwnerStep, LoopStep, Alive

(* The same for every reachable state.                                      *)
LEMMA AloneInvariant == Spec => []Alone
<1>1. Init => Alone
  BY DEF Init, Alone, RunningExact, Threads
<1>2. LifeInv /\ Alone /\ [Next]_vars => Alone'
  BY AloneStep
<1>3. QED
  BY <1>1, <1>2, LifeInvariant, PTL DEF Spec

(* A program that joins one loop before it starts the next one never has    *)
(* two connections pumped at once.                                          *)
THEOREM OneConnectionAtATime == Spec => []OneConnection
<1>1. LifeInv /\ Alone => OneConnection
  BY DEF LifeInv, Types, Placed, Alone, OneConnection, OneConnectionEver, Threads
<1>2. QED
  BY <1>1, LifeInvariant, AloneInvariant, PTL

(* For such a program running() is exact.                                   *)
THEOREM RunningIsExact == Spec => []RunningExact
<1>1. Alone => RunningExact
  BY DEF Alone, RunningExact
<1>2. QED
  BY <1>1, AloneInvariant, PTL

(* What a loop waits at, one step per action.                               *)
LEMMA PollsStep == LifeInv /\ Alone /\ ListenerValid /\ [Next]_vars => ListenerValid'
<1> SUFFICES ASSUME LifeInv, Alone, ListenerValid, [Next]_vars PROVE ListenerValid'
  OBVIOUS
<1>0. kind' = kind /\ manner' = manner
  BY SetupFixed
<1> USE DEF LifeInv, Types, Placed, Alone, ListenerValid, Threads, LoopPlaces, Active, sockets, connVars, setup, vars
<1>1. CASE \E l \in Listeners : Bind(l)
  BY <1>0, <1>1, ForwarderAssumption DEF ForwarderAssumption, Bind, Replaced
<1>2. CASE BindFails
  BY <1>0, <1>2, ForwarderAssumption DEF ForwarderAssumption, BindFails
<1>3. CASE ResetStop
  BY <1>0, <1>3, ForwarderAssumption DEF ForwarderAssumption, ResetStop
<1>4. CASE LaunchThread
  BY <1>0, <1>4, ForwarderAssumption DEF ForwarderAssumption, LaunchThread
<1>5. CASE EnterLoop
  BY <1>0, <1>5, ForwarderAssumption DEF ForwarderAssumption, EnterLoop
<1>6. CASE Join
  BY <1>0, <1>6, ForwarderAssumption DEF ForwarderAssumption, Join
<1>7. CASE DestroyEnd
  BY <1>0, <1>7, ForwarderAssumption DEF ForwarderAssumption, DestroyEnd, Released
<1>8. CASE \E c \in Calls : CallStart(c)
  BY <1>0, <1>8, ForwarderAssumption DEF ForwarderAssumption, CallStart, MayStart
<1>9. CASE Stop
  BY <1>0, <1>9, ForwarderAssumption DEF ForwarderAssumption, Stop
<1>10. CASE StopFromOutside
  BY <1>0, <1>10, ForwarderAssumption DEF ForwarderAssumption, StopFromOutside
<1>11. CASE Destroy
  BY <1>0, <1>11, ForwarderAssumption DEF ForwarderAssumption, Destroy
<1>12. CASE \E t \in Threads : LoopEnter(t)
  BY <1>0, <1>12, ForwarderAssumption DEF ForwarderAssumption, LoopEnter
<1>13. CASE \E t \in Threads : LoopCheck(t)
  BY <1>0, <1>13, ForwarderAssumption DEF ForwarderAssumption, LoopCheck
<1>14. CASE \E t \in Threads : LoopTimeout(t)
  BY <1>0, <1>14, ForwarderAssumption DEF ForwarderAssumption, LoopTimeout
<1>15. CASE \E t \in Threads : LoopLeave(t)
  BY <1>0, <1>15, ForwarderAssumption DEF ForwarderAssumption, LoopLeave
<1>16. CASE \E t \in Threads, k \in Clients : LoopAccept(t, k)
  BY <1>0, <1>16, ForwarderAssumption DEF ForwarderAssumption, LoopAccept
<1>17. CASE \E t \in Threads : Refuse(t)
  BY <1>0, <1>17, ForwarderAssumption DEF ForwarderAssumption, Refuse, EndServing
<1>18. CASE \E t \in Threads : Unreachable(t)
  BY <1>0, <1>18, ForwarderAssumption DEF ForwarderAssumption, Unreachable, EndServing
<1>19. CASE \E t \in Threads : BeginPump(t)
  BY <1>0, <1>19, ForwarderAssumption DEF ForwarderAssumption, BeginPump
<1>20. CASE \E t \in Threads : PumpEnds(t)
  BY <1>0, <1>20, ForwarderAssumption DEF ForwarderAssumption, PumpEnds, EndServing
<1>21. CASE \E k \in Clients : Connect(k)
  BY <1>0, <1>21, ForwarderAssumption DEF ForwarderAssumption, Connect
<1>22. CASE Terminated
  BY <1>0, <1>22, ForwarderAssumption DEF ForwarderAssumption, Terminated
<1>23. CASE UNCHANGED vars
  BY <1>0, <1>23, ForwarderAssumption DEF ForwarderAssumption
<1>24. QED
  BY <1>1, <1>2, <1>3, <1>4, <1>5, <1>6, <1>7, <1>8, <1>9, <1>10, <1>11, <1>12,
     <1>13, <1>14, <1>15, <1>16, <1>17, <1>18, <1>19, <1>20, <1>21, <1>22, <1>23
     DEF Next, OwnerStep, LoopStep, Alive

(* No restart and no destructor takes the listener from under a loop that   *)
(* waits at it, if the program joins one loop before it starts the next; a  *)
(* LocalForward's socket stays open however it is called.                   *)
THEOREM ListenerAlwaysValid == Spec => []ListenerValid
<1>1. Init => ListenerValid
  BY DEF Init, ListenerValid, Threads
<1>2. LifeInv /\ Alone /\ ListenerValid /\ [Next]_vars => ListenerValid'
  BY PollsStep
<1>3. QED
  BY <1>1, <1>2, LifeInvariant, AloneInvariant, PTL DEF Spec

-----------------------------------------------------------------------------
(* One listener at most, and connections that wait do so at it.             *)
Single == Tidy =>
  /\ open \subseteq {listener}
  /\ (owner = "bind" /\ kind = "local") => listener = NoListener
  /\ \A k \in Clients : client[k] = "queued" => owner # "gone" /\ listener \in open
  /\ \A k \in Clients : client[k] # "stranded"
  /\ owner = "gone" => open = {}

(* One step per action, for a program that waits and does not restart a     *)
(* local forwarder with try_start().                                        *)
LEMMA SingleStep == LifeInv /\ Alone /\ Single /\ [Next]_vars => Single'
<1> SUFFICES ASSUME LifeInv, Alone, Single, [Next]_vars PROVE Single'
  OBVIOUS
<1>0. kind' = kind /\ manner' = manner
  BY SetupFixed
<1> USE DEF LifeInv, Types, Placed, Serving, Alone, Single, Tidy, Threads, LoopPlaces, Active, sockets, connVars, setup, vars
<1>1. CASE \E l \in Listeners : Bind(l)
  BY <1>0, <1>1, ForwarderAssumption DEF ForwarderAssumption, Bind, Replaced
<1>2. CASE BindFails
  BY <1>0, <1>2, ForwarderAssumption DEF ForwarderAssumption, BindFails
<1>3. CASE ResetStop
  BY <1>0, <1>3, ForwarderAssumption DEF ForwarderAssumption, ResetStop
<1>4. CASE LaunchThread
  BY <1>0, <1>4, ForwarderAssumption DEF ForwarderAssumption, LaunchThread
<1>5. CASE EnterLoop
  BY <1>0, <1>5, ForwarderAssumption DEF ForwarderAssumption, EnterLoop
<1>6. CASE Join
  BY <1>0, <1>6, ForwarderAssumption DEF ForwarderAssumption, Join
<1>7. CASE DestroyEnd
  BY <1>0, <1>7, ForwarderAssumption DEF ForwarderAssumption, DestroyEnd, Released
<1>8. CASE \E c \in Calls : CallStart(c)
  BY <1>0, <1>8, ForwarderAssumption DEF ForwarderAssumption, CallStart, MayStart
<1>9. CASE Stop
  BY <1>0, <1>9, ForwarderAssumption DEF ForwarderAssumption, Stop
<1>10. CASE StopFromOutside
  BY <1>0, <1>10, ForwarderAssumption DEF ForwarderAssumption, StopFromOutside
<1>11. CASE Destroy
  BY <1>0, <1>11, ForwarderAssumption DEF ForwarderAssumption, Destroy
<1>12. CASE \E t \in Threads : LoopEnter(t)
  BY <1>0, <1>12, ForwarderAssumption DEF ForwarderAssumption, LoopEnter
<1>13. CASE \E t \in Threads : LoopCheck(t)
  BY <1>0, <1>13, ForwarderAssumption DEF ForwarderAssumption, LoopCheck
<1>14. CASE \E t \in Threads : LoopTimeout(t)
  BY <1>0, <1>14, ForwarderAssumption DEF ForwarderAssumption, LoopTimeout
<1>15. CASE \E t \in Threads : LoopLeave(t)
  BY <1>0, <1>15, ForwarderAssumption DEF ForwarderAssumption, LoopLeave
<1>16. CASE \E t \in Threads, k \in Clients : LoopAccept(t, k)
  BY <1>0, <1>16, ForwarderAssumption DEF ForwarderAssumption, LoopAccept
<1>17. CASE \E t \in Threads : Refuse(t)
  BY <1>0, <1>17, ForwarderAssumption DEF ForwarderAssumption, Refuse, EndServing
<1>18. CASE \E t \in Threads : Unreachable(t)
  BY <1>0, <1>18, ForwarderAssumption DEF ForwarderAssumption, Unreachable, EndServing
<1>19. CASE \E t \in Threads : BeginPump(t)
  BY <1>0, <1>19, ForwarderAssumption DEF ForwarderAssumption, BeginPump
<1>20. CASE \E t \in Threads : PumpEnds(t)
  BY <1>0, <1>20, ForwarderAssumption DEF ForwarderAssumption, PumpEnds, EndServing
<1>21. CASE \E k \in Clients : Connect(k)
  BY <1>0, <1>21, ForwarderAssumption DEF ForwarderAssumption, Connect
<1>22. CASE Terminated
  BY <1>0, <1>22, ForwarderAssumption DEF ForwarderAssumption, Terminated
<1>23. CASE UNCHANGED vars
  BY <1>0, <1>23, ForwarderAssumption DEF ForwarderAssumption
<1>24. QED
  BY <1>1, <1>2, <1>3, <1>4, <1>5, <1>6, <1>7, <1>8, <1>9, <1>10, <1>11, <1>12,
     <1>13, <1>14, <1>15, <1>16, <1>17, <1>18, <1>19, <1>20, <1>21, <1>22, <1>23
     DEF Next, OwnerStep, LoopStep, Alive

(* The destructor leaves nothing behind, whatever came before it, if a      *)
(* local forwarder was started with try_start() once.                       *)
THEOREM DestroyedLeavesNothing == Spec => []NothingLeft
<1>1. Init => Single
  BY ForwarderAssumption DEF ForwarderAssumption, Init, Single
<1>2. LifeInv /\ Alone /\ Single /\ [Next]_vars => Single'
  BY SingleStep
<1>3. LifeInv /\ Single => NothingLeft
  BY DEF LifeInv, Types, Placed, Serving, ConnectionsHeld, Single, Tidy, NothingLeft, Active, Threads
<1>4. QED
  BY <1>1, <1>2, <1>3, LifeInvariant, AloneInvariant, PTL DEF Spec
=============================================================================
