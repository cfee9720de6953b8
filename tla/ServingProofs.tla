--------------------------- MODULE ServingProofs ----------------------------
(***************************************************************************)
(* Every way through a connection ends with everything closed, and a SOCKS *)
(* client is answered once and truthfully, for any targets and any policy. *)
(***************************************************************************)
EXTENDS Serving, TLAPS

(* No connection is being served: nothing of the last one is open.          *)
Idle == pc \in {"x11", "display", "loop", "accept", "ended"} => fd = 0 /\ channel = None

(* Which forwarder can be at which place.                                   *)
Kinds ==
  /\ pc \in Request => kind = "socks"
  /\ pc = "connect" => kind \in {"remote", "x11"}
  /\ pc \in {"x11", "display"} => kind = "x11"

(* What the field in the socket says is what the client wants.              *)
Asked == inbox \in Targets => wanted = inbox

(* How far a SOCKS request has come: the target is the one asked for from   *)
(* the moment it is read, and no answer is given before the policy and the  *)
(* channel.                                                                 *)
Progress ==
  kind = "socks" =>
    /\ pc \in Request \ {"userid"} => target = None /\ reply = None
    /\ pc \in {"userid", "allow", "open"} =>
         target = wanted /\ target \in Targets /\ reply = None
    /\ pc = "open" => target \in Allowed
    /\ pc = "pump" => reply = "granted" /\ channel = target

ServingInv == TypeOK /\ Idle /\ Kinds /\ Asked /\ Progress /\ GrantedIsOpen /\ RequestAnswered

-----------------------------------------------------------------------------
LEMMA NoneIsNoTarget == None \notin Targets /\ None \in OtherFields
  BY ServingAssumption DEF None, OtherFields

LEMMA InitServing == Init => ServingInv
  <1> SUFFICES ASSUME Init PROVE ServingInv
      OBVIOUS
  <1>1. unix \in BOOLEAN /\ (kind = "socks" => ~unix)
      <2>1. CASE kind = "socks"
            BY <2>1, Zenon DEF Init
      <2>2. CASE kind # "socks"
            BY <2>2, Zenon DEF Init
      <2> QED  BY <2>1, <2>2
  <1>2. pc \in {"x11", "loop"} /\ (pc = "x11" => kind = "x11")
      BY DEF Init
  <1>3. "none" \in OtherFields
      BY DEF OtherFields
  <1> QED
      BY <1>1, <1>2, <1>3, NoneIsNoTarget
      DEF Init, ServingInv, TypeOK, Idle, Kinds, Asked, Progress, GrantedIsOpen,
          RequestAnswered, Places, Request, None

(* Accepting a connection starts it afresh.                                 *)
LEMMA FreshTypes ==
  ASSUME TypeOK, NEW f \in {0, 1}, NEW c \in {None, "origin"}, Fresh(f, c), Fixed, pc' \in Places
  PROVE  TypeOK'
  <1>1. conns' \in Nat /\ connections' \in Nat /\ rejected' \in Nat /\ left' \in Nat
      BY ServingAssumption DEF TypeOK, Fresh
  <1>2. kind' = kind /\ socks4' = socks4 /\ unix' = unix /\ stop' = stop /\ stuck' = stuck
      BY DEF Fixed, given
  <1>3. /\ fd' \in {0, 1} /\ channel' \in {None, "origin"} /\ inbox' = None /\ gone' = FALSE
        /\ wanted' = None /\ target' = None /\ reply' = None
      BY DEF Fresh
  <1> QED
      BY <1>1, <1>2, <1>3, NoneIsNoTarget DEF TypeOK

LEMMA AcceptKeeps == ServingInv /\ Accept => ServingInv'
  <1> SUFFICES ASSUME ServingInv, Accept PROVE ServingInv'
      OBVIOUS
  <1>1. PICK f \in {0, 1}, c \in {None, "origin"} : Fresh(f, c) /\ Fixed
      BY DEF Accept, AcceptLocal, AcceptSocks, AcceptRemote, AcceptX11, Step
  <1>2. \/ pc' = "allow" /\ kind # "socks"
        \/ pc' = "version" /\ kind = "socks"
        \/ pc' = "connect" /\ kind = "x11"
      BY DEF Accept, AcceptLocal, AcceptSocks, AcceptRemote, AcceptX11, Step, Accepting
  <1>3. TypeOK'
      BY <1>1, <1>2, FreshTypes DEF ServingInv, Places, Request
  <1>4. kind' = kind /\ inbox' = None /\ target' = None /\ reply' = None
      BY <1>1 DEF Fresh, Fixed, given
  <1> QED
      BY <1>2, <1>3, <1>4, NoneIsNoTarget
      DEF ServingInv, Idle, Kinds, Asked, Progress, GrantedIsOpen, RequestAnswered, Request, None

(* The client: it sends a target only while none has been read.             *)
LEMMA ClientKeeps == ServingInv /\ (ClientSends \/ ClientLeaves) => ServingInv'
  <1> SUFFICES ASSUME ServingInv, ClientSends \/ ClientLeaves PROVE ServingInv'
      OBVIOUS
  <1>1. CASE ClientSends
      <2>1. PICK f \in Fields : inbox' = f /\ wanted' = IF f \in Targets THEN f ELSE wanted
            BY <1>1 DEF ClientSends
      <2>2. f \in Targets \cup OtherFields /\ (f \in Targets => pc \in {"address5", "request4"})
            BY ServingAssumption DEF Fields, OtherFields, ServingInv, TypeOK, Places, Request
      <2> QED
            BY <1>1, <2>1, <2>2, NoneIsNoTarget
            DEF ClientSends, ServingInv, TypeOK, Idle, Kinds, Asked, Progress, GrantedIsOpen,
                RequestAnswered, Places, Request, stats, given
  <1>2. CASE ClientLeaves
      BY <1>2
      DEF ClientLeaves, ServingInv, TypeOK, Idle, Kinds, Asked, Progress, GrantedIsOpen,
          RequestAnswered, Places, Request, stats, given
  <1> QED  BY <1>1, <1>2

(* Reading the request, field by field, with all its ways out.              *)
LEMMA ReadsKeep == ServingInv /\ (Reads \/ RecvFails) => ServingInv'
  <1> SUFFICES ASSUME ServingInv, Reads \/ RecvFails PROVE ServingInv'
      OBVIOUS
  <1> USE NoneIsNoTarget DEF ServingInv, TypeOK, Idle, Kinds, Asked, Progress, GrantedIsOpen,
          RequestAnswered, Places, Request, Received, Goto, DropIt, Drop, CloseAll, Step, Fixed, given,
          stats
  <1>1. CASE RecvFails
      BY <1>1, ServingAssumption DEF RecvFails, OtherFields, None
  <1>2. CASE ReadVersion
      BY <1>2, ServingAssumption DEF ReadVersion, OtherFields, None
  <1>3. CASE ReadMethods
      BY <1>3, ServingAssumption DEF ReadMethods, OtherFields, None
  <1>4. CASE ReadRequest5
      BY <1>4, ServingAssumption DEF ReadRequest5, OtherFields, None
  <1>5. CASE ReadAddress5
      BY <1>5, ServingAssumption DEF ReadAddress5, OtherFields, None
  <1>6. CASE ReadRequest4
      BY <1>6, ServingAssumption DEF ReadRequest4, OtherFields, None
  <1>7. CASE ReadUserId
      BY <1>7, ServingAssumption DEF ReadUserId, OtherFields, None
  <1> QED  BY <1>1, <1>2, <1>3, <1>4, <1>5, <1>6, <1>7 DEF Reads

(* The policy and the channel: the answer agrees with what was done.        *)
LEMMA PolicyKeeps ==
  ServingInv /\ (Reject \/ Allow \/ OpenFails \/ OpenDirect) => ServingInv'
  <1> SUFFICES ASSUME ServingInv, Reject \/ Allow \/ OpenFails \/ OpenDirect PROVE ServingInv'
      OBVIOUS
  <1> USE NoneIsNoTarget, ServingAssumption
      DEF ServingInv, TypeOK, Idle, Kinds, Asked, Progress, GrantedIsOpen,
          RequestAnswered, Places, Request, CloseAll, Step, Fixed, given, stats, conn, OtherFields, None
  <1>1. CASE Reject
      BY <1>1 DEF Reject
  <1>2. CASE Allow
      BY <1>2 DEF Allow
  <1>3. CASE OpenFails
      BY <1>3 DEF OpenFails
  <1>4. CASE OpenDirect
      BY <1>4 DEF OpenDirect, OpenForward, OpenForwardUnix
  <1> QED  BY <1>1, <1>2, <1>3, <1>4

(* Connecting to the local target, address by address, and the pump.        *)
LEMMA ConnectKeeps ==
  ServingInv /\ (MakeSocket \/ ConnectUnix \/ ConnectFails \/ Connected \/ Unreachable)
    => ServingInv'
  <1> SUFFICES ASSUME ServingInv,
                      MakeSocket \/ ConnectUnix \/ ConnectFails \/ Connected \/ Unreachable
               PROVE ServingInv'
      OBVIOUS
  <1> USE DEF ServingInv, TypeOK, Idle, Kinds, Asked, Progress, GrantedIsOpen,
          RequestAnswered, Places, Request, CloseAll, Step, Fixed, given, stats, conn, DropIt, Drop
  <1>1. CASE MakeSocket
      BY <1>1 DEF MakeSocket
  <1>2. CASE ConnectUnix
      BY <1>2 DEF ConnectUnix
  <1>3. CASE ConnectFails
      BY <1>3 DEF ConnectFails
  <1>4. CASE Connected
      BY <1>4 DEF Connected
  <1>5. CASE Unreachable
      BY <1>5 DEF Unreachable
  <1> QED  BY <1>1, <1>2, <1>3, <1>4, <1>5

(* The loop itself, the end of a pump, and stop().                          *)
LEMMA LoopKeeps ==
  ServingInv /\ (LoopTests \/ AcceptTimesOut \/ RequestX11 \/ TargetFromDisplay \/ PumpStops
                  \/ PumpEnds \/ PeerStopsReading \/ Stop) => ServingInv'
  <1> SUFFICES ASSUME ServingInv,
                      LoopTests \/ AcceptTimesOut \/ RequestX11 \/ TargetFromDisplay
                        \/ PumpStops \/ PumpEnds \/ PeerStopsReading \/ Stop
               PROVE ServingInv'
      OBVIOUS
  <1> USE NoneIsNoTarget
      DEF ServingInv, TypeOK, Idle, Kinds, Asked, Progress, GrantedIsOpen,
          RequestAnswered, Places, Request, CloseAll, Step, Fixed, given, stats, conn
  <1>1. CASE LoopTests
      BY <1>1 DEF LoopTests
  <1>2. CASE RequestX11
      BY <1>2 DEF RequestX11
  <1>3. CASE TargetFromDisplay
      BY <1>3 DEF TargetFromDisplay
  <1>4. CASE PumpStops
      BY <1>4 DEF PumpStops, PumpOver, None
  <1>5. CASE PumpEnds
      <2>1. pc = "pump" /\ pc' \in {"loop", "ended"} /\ (pc' = "ended" => kind = "x11")
            BY <1>5 DEF PumpEnds
      <2>2. fd' = 0 /\ channel' = "none" /\ stuck' = FALSE
            BY <1>5 DEF PumpEnds, PumpOver, None
      <2>3. UNCHANGED <<kind, socks4, unix, stop, inbox, gone, wanted, target, reply, left, stats>>
            BY <1>5 DEF PumpEnds, PumpOver
      <2>4. TypeOK'
            BY <2>1, <2>2, <2>3 DEF None
      <2>5. Idle' /\ Kinds' /\ Asked' /\ Progress'
            BY <2>1, <2>2, <2>3 DEF None
      <2>6. GrantedIsOpen' /\ RequestAnswered'
            <3>1. kind = "socks" => reply = "granted" /\ pc' = "loop"
                  BY <2>1
            <3>2. kind' = kind /\ reply' = reply /\ target' = target /\ wanted' = wanted
                  BY <2>3
            <3> QED  BY <2>1, <3>1, <3>2 DEF None
      <2> QED  BY <2>4, <2>5, <2>6
  <1>6. CASE Stop
      BY <1>6 DEF Stop
  <1>7. CASE AcceptTimesOut
      BY <1>7 DEF AcceptTimesOut
  <1>8. CASE PeerStopsReading
      BY <1>8 DEF PeerStopsReading
  <1> QED  BY <1>1, <1>2, <1>3, <1>4, <1>5, <1>6, <1>7, <1>8

LEMMA StutterKeeps == ServingInv /\ UNCHANGED vars => ServingInv'
  BY DEF ServingInv, TypeOK, Idle, Kinds, Asked, Progress, GrantedIsOpen, RequestAnswered,
         vars, given, conn, stats

-----------------------------------------------------------------------------
(* The inductive invariant.                                                 *)
THEOREM ServingInvariant == Spec => []ServingInv
  <1>1. Init => ServingInv
      BY InitServing
  <1>2. ServingInv /\ [Next]_vars => ServingInv'
      BY AcceptKeeps, ClientKeeps, ReadsKeep, PolicyKeeps, ConnectKeeps, LoopKeeps, StutterKeeps
      DEF Next, Serve
  <1> QED  BY <1>1, <1>2, PTL DEF Spec

(* The variables have their types.                                          *)
THEOREM TypeCorrect == Spec => []TypeOK
  BY ServingInvariant, PTL DEF ServingInv

(* No socket and no channel is held between two connections, whichever of   *)
(* the early returns of pump_one_connection(), serve_one_connection() and   *)
(* X11Forwarder's loop ended the last one.                                  *)
THEOREM NothingIsHeld == Spec => []NothingHeld
  <1>1. ServingInv => NothingHeld
      BY DEF ServingInv, Idle, NothingHeld
  <1> QED  BY <1>1, ServingInvariant, PTL

(* "Granted" is said only when the channel to the allowed target the client *)
(* asked for is open, for any set of targets and any policy.                *)
THEOREM GrantsAreTrue == Spec => []GrantedIsOpen
  BY ServingInvariant, PTL DEF ServingInv

(* A SOCKS request that was read is answered on every path.                 *)
THEOREM RequestsAreAnswered == Spec => []RequestAnswered
  BY ServingInvariant, PTL DEF ServingInv
=============================================================================
