------------------------------ MODULE PumpProofs ------------------------------
(***************************************************************************)
(* Proofs about Pump, for every amount of data and every buffer size.  The *)
(* properties follow from what each of the two streams keeps in balance    *)
(* (Balance) and from what the flags say about the peers they stand for    *)
(* (FlagsMean).                                                            *)
(***************************************************************************)
EXTENDS Pump, TLAPS

(* The values of the variables, without the bounds.                         *)
Values ==
  /\ pc \in {"loop", "channel", "send", "eof", "client", "write", "close", "done", "killed"}
  /\ stop \in BOOLEAN /\ client_eof \in BOOLEAN /\ channel_eof \in BOOLEAN
  /\ shut \in BOOLEAN /\ eofSent \in BOOLEAN /\ link \in BOOLEAN
  /\ remote \in {"open", "eof", "closed"} /\ sock \in {"open", "eof", "reset"}
  /\ chunk \in Nat /\ left \in Nat /\ got \in Nat /\ rest \in Nat /\ window \in Nat /\ sent \in Nat /\ avail \in Nat
  /\ taken \in Nat /\ toClient \in Nat /\ typed \in Nat /\ queued \in Nat
  /\ written \in Nat /\ bytes_in \in Nat /\ bytes_out \in Nat

(* Where each byte is: off the channel and counted, or in the buffer, or    *)
(* still in the channel; received and counted, or in the buffer, or still   *)
(* in the socket.                                                           *)
Balance ==
  /\ chunk <= BufferSize /\ left <= chunk /\ (pc \notin {"send", "killed"} => chunk = 0)
  /\ got <= BufferSize /\ rest <= got /\ (pc # "write" => got = 0)
  /\ sent <= MaxBytes /\ sent = bytes_out + chunk + avail
  /\ taken + left <= bytes_out + chunk
  /\ sock # "reset" => taken + left = bytes_out + chunk
  /\ toClient <= SocketRoom /\ window <= Window
  /\ typed <= MaxBytes /\ queued <= SocketRoom /\ bytes_in + got + queued <= typed
  /\ sock # "reset" => bytes_in + got + queued = typed
  /\ written + rest <= bytes_in + got
  /\ Writable => written + rest = bytes_in + got

(* What the loop knows of its peers, and where it goes for it.              *)
FlagsMean ==
  /\ shut <=> channel_eof
  /\ channel_eof => remote # "open" /\ avail = 0 /\ pc \notin {"channel", "send", "eof", "killed"}
  /\ client_eof => sock # "open" /\ (sock = "eof" => queued = 0) /\ pc \notin {"client", "write"}
  /\ pc = "killed" => sock = "reset"
  /\ eofSent => client_eof /\ written = bytes_in
  /\ (client_eof /\ Writable) => eofSent
  /\ (pc \in {"close", "done"} /\ ~stop) => client_eof /\ channel_eof

(* The inductive invariant.                                                 *)
PumpInv == Values /\ Balance /\ FlagsMean

(* The values, one step per action.                                         *)
LEMMA ValuesStep == Values /\ Balance /\ [Next]_vars => Values'
<1> SUFFICES ASSUME Values, Balance, [Next]_vars PROVE Values'
  OBVIOUS
<1> USE DEF Values, Balance, vars, chanSide, sockOut, sockIn, chanOut, stats, flags, buffer, sending, writing, Over
<1>1. CASE Loop
  BY <1>1, PumpAssumption DEF PumpAssumption, Loop
<1>2. CASE ReadChannel
  BY <1>2, PumpAssumption DEF PumpAssumption, ReadChannel, Min
<1>3. CASE SendSome
  BY <1>3, PumpAssumption DEF PumpAssumption, SendSome, Min
<1>4. CASE SendDone
  BY <1>4, PumpAssumption DEF PumpAssumption, SendDone
<1>5. CASE CheckEof
  BY <1>5, PumpAssumption DEF PumpAssumption, CheckEof, IsEof
<1>6. CASE ReadClient
  BY <1>6, PumpAssumption DEF PumpAssumption, ReadClient, Min, Writable
<1>7. CASE ClientEnded
  BY <1>7, PumpAssumption DEF PumpAssumption, ClientEnded, Writable
<1>8. CASE ClientQuiet
  BY <1>8, PumpAssumption DEF PumpAssumption, ClientQuiet
<1>9. CASE Close
  BY <1>9, PumpAssumption DEF PumpAssumption, Close
<1>10. CASE RemoteSends
  BY <1>10, PumpAssumption DEF PumpAssumption, RemoteSends
<1>11. CASE RemoteEof
  BY <1>11, PumpAssumption DEF PumpAssumption, RemoteEof
<1>12. CASE RemoteCloses
  BY <1>12, PumpAssumption DEF PumpAssumption, RemoteCloses
<1>13. CASE SessionLost
  BY <1>13, PumpAssumption DEF PumpAssumption, SessionLost
<1>14. CASE ClientSends
  BY <1>14, PumpAssumption DEF PumpAssumption, ClientSends
<1>15. CASE ClientReads
  BY <1>15, PumpAssumption DEF PumpAssumption, ClientReads
<1>16. CASE ClientEof
  BY <1>16, PumpAssumption DEF PumpAssumption, ClientEof
<1>17. CASE ClientResets
  BY <1>17, PumpAssumption DEF PumpAssumption, ClientResets
<1>18. CASE RequestStop
  BY <1>18, PumpAssumption DEF PumpAssumption, RequestStop
<1>19. CASE Terminated
  BY <1>19, PumpAssumption DEF PumpAssumption, Terminated
<1>20. CASE SendKills
  BY <1>20, PumpAssumption DEF PumpAssumption, SendKills
<1>21. CASE WriteSome
  BY <1>21, PumpAssumption DEF PumpAssumption, WriteSome, Min, Writable
<1>22. CASE WriteDone
  BY <1>22, PumpAssumption DEF PumpAssumption, WriteDone, Writable
<1>23. CASE RemoteReads
  BY <1>23, PumpAssumption DEF PumpAssumption, RemoteReads
<1>24. CASE UNCHANGED vars
  BY <1>24
<1>25. QED
  BY <1>1, <1>2, <1>3, <1>4, <1>5, <1>6, <1>7, <1>8, <1>9, <1>10, <1>11, <1>12,
     <1>13, <1>14, <1>15, <1>16, <1>17, <1>18, <1>19, <1>20, <1>21, <1>22, <1>23, <1>24
     DEF Next, PumpStep

(* The balance of both streams, one step per action.                        *)
LEMMA BalanceStep == PumpInv /\ [Next]_vars => Balance'
<1> SUFFICES ASSUME PumpInv, [Next]_vars PROVE Balance'
  OBVIOUS
<1> USE DEF PumpInv, Values, Balance, FlagsMean, Writable, vars, chanSide, sockOut, sockIn, chanOut, stats, flags, buffer, sending, writing, Over
<1>1. CASE Loop
  BY <1>1, PumpAssumption DEF PumpAssumption, Loop
<1>2. CASE ReadChannel
  BY <1>2, PumpAssumption DEF PumpAssumption, ReadChannel, Min
<1>3. CASE SendSome
  BY <1>3, PumpAssumption DEF PumpAssumption, SendSome, Min
<1>4. CASE SendDone
  BY <1>4, PumpAssumption DEF PumpAssumption, SendDone
<1>5. CASE CheckEof
  BY <1>5, PumpAssumption DEF PumpAssumption, CheckEof, IsEof
<1>6. CASE ReadClient
  BY <1>6, PumpAssumption DEF PumpAssumption, ReadClient, Min, Writable
<1>7. CASE ClientEnded
  BY <1>7, PumpAssumption DEF PumpAssumption, ClientEnded, Writable
<1>8. CASE ClientQuiet
  BY <1>8, PumpAssumption DEF PumpAssumption, ClientQuiet
<1>9. CASE Close
  BY <1>9, PumpAssumption DEF PumpAssumption, Close
<1>10. CASE RemoteSends
  BY <1>10, PumpAssumption DEF PumpAssumption, RemoteSends
<1>11. CASE RemoteEof
  BY <1>11, PumpAssumption DEF PumpAssumption, RemoteEof
<1>12. CASE RemoteCloses
  BY <1>12, PumpAssumption DEF PumpAssumption, RemoteCloses
<1>13. CASE SessionLost
  BY <1>13, PumpAssumption DEF PumpAssumption, SessionLost
<1>14. CASE ClientSends
  BY <1>14, PumpAssumption DEF PumpAssumption, ClientSends
<1>15. CASE ClientReads
  BY <1>15, PumpAssumption DEF PumpAssumption, ClientReads
<1>16. CASE ClientEof
  BY <1>16, PumpAssumption DEF PumpAssumption, ClientEof
<1>17. CASE ClientResets
  BY <1>17, PumpAssumption DEF PumpAssumption, ClientResets
<1>18. CASE RequestStop
  BY <1>18, PumpAssumption DEF PumpAssumption, RequestStop
<1>19. CASE Terminated
  BY <1>19, PumpAssumption DEF PumpAssumption, Terminated
<1>20. CASE SendKills
  BY <1>20, PumpAssumption DEF PumpAssumption, SendKills
<1>21. CASE WriteSome
  BY <1>21, PumpAssumption DEF PumpAssumption, WriteSome, Min, Writable
<1>22. CASE WriteDone
  BY <1>22, PumpAssumption DEF PumpAssumption, WriteDone, Writable
<1>23. CASE RemoteReads
  BY <1>23, PumpAssumption DEF PumpAssumption, RemoteReads
<1>24. CASE UNCHANGED vars
  BY <1>24
<1>25. QED
  BY <1>1, <1>2, <1>3, <1>4, <1>5, <1>6, <1>7, <1>8, <1>9, <1>10, <1>11, <1>12,
     <1>13, <1>14, <1>15, <1>16, <1>17, <1>18, <1>19, <1>20, <1>21, <1>22, <1>23, <1>24
     DEF Next, PumpStep

(* The meaning of the flags, one step per action.                           *)
LEMMA FlagsStep == PumpInv /\ [Next]_vars => FlagsMean'
<1> SUFFICES ASSUME PumpInv, [Next]_vars PROVE FlagsMean'
  OBVIOUS
<1> USE DEF PumpInv, Values, Balance, FlagsMean, Writable, vars, chanSide, sockOut, sockIn, chanOut, stats, flags, buffer, sending, writing, Over
<1>1. CASE Loop
  BY <1>1, PumpAssumption DEF PumpAssumption, Loop
<1>2. CASE ReadChannel
  BY <1>2, PumpAssumption DEF PumpAssumption, ReadChannel, Min
<1>3. CASE SendSome
  BY <1>3, PumpAssumption DEF PumpAssumption, SendSome, Min
<1>4. CASE SendDone
  BY <1>4, PumpAssumption DEF PumpAssumption, SendDone
<1>5. CASE CheckEof
  BY <1>5, PumpAssumption DEF PumpAssumption, CheckEof, IsEof
<1>6. CASE ReadClient
  BY <1>6, PumpAssumption DEF PumpAssumption, ReadClient, Min, Writable
<1>7. CASE ClientEnded
  BY <1>7, PumpAssumption DEF PumpAssumption, ClientEnded, Writable
<1>8. CASE ClientQuiet
  BY <1>8, PumpAssumption DEF PumpAssumption, ClientQuiet
<1>9. CASE Close
  BY <1>9, PumpAssumption DEF PumpAssumption, Close
<1>10. CASE RemoteSends
  BY <1>10, PumpAssumption DEF PumpAssumption, RemoteSends
<1>11. CASE RemoteEof
  BY <1>11, PumpAssumption DEF PumpAssumption, RemoteEof
<1>12. CASE RemoteCloses
  BY <1>12, PumpAssumption DEF PumpAssumption, RemoteCloses
<1>13. CASE SessionLost
  BY <1>13, PumpAssumption DEF PumpAssumption, SessionLost
<1>14. CASE ClientSends
  BY <1>14, PumpAssumption DEF PumpAssumption, ClientSends
<1>15. CASE ClientReads
  BY <1>15, PumpAssumption DEF PumpAssumption, ClientReads
<1>16. CASE ClientEof
  BY <1>16, PumpAssumption DEF PumpAssumption, ClientEof
<1>17. CASE ClientResets
  BY <1>17, PumpAssumption DEF PumpAssumption, ClientResets
<1>18. CASE RequestStop
  BY <1>18, PumpAssumption DEF PumpAssumption, RequestStop
<1>19. CASE Terminated
  BY <1>19, PumpAssumption DEF PumpAssumption, Terminated
<1>20. CASE SendKills
  BY <1>20, PumpAssumption DEF PumpAssumption, SendKills
<1>21. CASE WriteSome
  BY <1>21, PumpAssumption DEF PumpAssumption, WriteSome, Min, Writable
<1>22. CASE WriteDone
  BY <1>22, PumpAssumption DEF PumpAssumption, WriteDone, Writable
<1>23. CASE RemoteReads
  BY <1>23, PumpAssumption DEF PumpAssumption, RemoteReads
<1>24. CASE UNCHANGED vars
  BY <1>24
<1>25. QED
  BY <1>1, <1>2, <1>3, <1>4, <1>5, <1>6, <1>7, <1>8, <1>9, <1>10, <1>11, <1>12,
     <1>13, <1>14, <1>15, <1>16, <1>17, <1>18, <1>19, <1>20, <1>21, <1>22, <1>23, <1>24
     DEF Next, PumpStep

(* The inductive invariant holds in every reachable state.                  *)
LEMMA PumpInvariant == Spec => []PumpInv
<1>1. Init => PumpInv
  <2>1. Init => Values
    <3>1. Init => /\ stop \in BOOLEAN /\ client_eof \in BOOLEAN /\ channel_eof \in BOOLEAN
                  /\ shut \in BOOLEAN /\ eofSent \in BOOLEAN /\ link \in BOOLEAN
      BY Zenon DEF Init
    <3>2. QED
      BY <3>1, PumpAssumption DEF PumpAssumption, Init, Values
  <2>2. Init => Balance
    BY PumpAssumption DEF PumpAssumption, Init, Balance
  <2>3. Init => FlagsMean
    <3>1. Init => ~shut /\ ~channel_eof /\ ~client_eof /\ ~eofSent /\ pc = "loop"
      BY Zenon DEF Init
    <3>2. Init => pc # "killed" /\ pc \notin {"close", "done"}
      BY <3>1
    <3>3. QED
      BY <3>1, <3>2, Zenon DEF FlagsMean
  <2>4. QED
    BY <2>1, <2>2, <2>3 DEF PumpInv
<1>2. PumpInv /\ [Next]_vars => PumpInv'
  BY ValuesStep, BalanceStep, FlagsStep DEF PumpInv
<1>3. QED
  BY <1>1, <1>2, PTL DEF Spec

(* Every state of Pump has its type; no read exceeds the buffer.            *)
THEOREM TypeCorrect == Spec => []TypeOK
<1>1. PumpInv => TypeOK
  BY PumpAssumption DEF PumpAssumption, PumpInv, Values, Balance, TypeOK
<1>2. QED
  BY <1>1, PumpInvariant, PTL

(* Whatever the peers do, no byte is lost except through a fault of the     *)
(* side it was meant for.                                                   *)
THEOREM PumpLosesNothing == Spec => []NothingLost
<1>1. PumpInv => NothingLost
  BY DEF PumpInv, Values, Balance, NothingLost
<1>2. QED
  BY <1>1, PumpInvariant, PTL

(* EOF never overtakes data, in either direction.                           *)
THEOREM EofNeverOvertakes == Spec => []EofAfterData
<1>1. PumpInv => EofAfterData
  BY DEF PumpInv, Values, Balance, FlagsMean, EofAfterData
<1>2. QED
  BY <1>1, PumpInvariant, PTL

(* A pump that ends unasked and without a fault has copied everything and   *)
(* counted it right.                                                        *)
THEOREM PumpEndsComplete == Spec => []EndsComplete
<1>1. PumpInv => EndsComplete
  BY DEF PumpInv, Values, Balance, FlagsMean, EndsComplete
<1>2. QED
  BY <1>1, PumpInvariant, PTL

-----------------------------------------------------------------------------
(* What Relay sees of the pump.                                             *)
Seen == <<sent, typed, taken, written, bytes_out, bytes_in, remote, sock, shut, eofSent, link,
          stop, Over>>

(* A step that changes nothing of it leaves Relay's variables alone.        *)
LEMMA Unseen == UNCHANGED Seen => UNCHANGED R!relayVars
  BY DEF Seen, R!relayVars, Writable, Over

(* The peers send, or finish, or fail.                                      *)
LEMMA PeersRelay ==
  ASSUME PumpInv, RemoteSends \/ ClientSends \/ RemoteEof \/ RemoteCloses \/ SessionLost
                    \/ ClientEof \/ ClientResets
  PROVE  R!RelayNext
<1> USE DEF PumpInv, Values, vars, chanSide, sockOut, sockIn, chanOut, stats, flags, buffer, sending,
            writing, Over
<1>1. CASE RemoteSends
  <2>1. R!Send("out")
    BY <1>1 DEF RemoteSends, R!Send, R!Directions, Writable
  <2>2. QED
    BY <2>1 DEF R!RelayNext, R!Directions
<1>2. CASE ClientSends
  <2>1. R!Send("in")
    BY <1>2 DEF ClientSends, R!Send, R!Directions, Writable
  <2>2. QED
    BY <2>1 DEF R!RelayNext, R!Directions
<1>3. CASE RemoteEof \/ RemoteCloses \/ SessionLost \/ ClientEof \/ ClientResets
  <2>1. R!Change
    BY <1>3 DEF RemoteEof, RemoteCloses, SessionLost, ClientEof, ClientResets, R!Change,
                R!Directions, Writable
  <2>2. QED
    BY <2>1 DEF R!RelayNext
<1>4. QED
  BY <1>1, <1>2, <1>3

(* Bytes are passed on or counted in one direction.                         *)
LEMMA PassOut ==
  ASSUME Values, ~Over, ~Over', ~shut,
         NEW n \in Nat, NEW m \in Nat, n <= sent - taken, m <= sent - bytes_out,
         taken' = taken + n, bytes_out' = bytes_out + m,
         UNCHANGED <<sent, typed, written, bytes_in, remote, sock, shut, eofSent, link, stop>>
  PROVE  R!RelayNext
<1>1. n \in 0 .. sent - taken /\ m \in 0 .. sent - bytes_out
  BY DEF Values
<1>2. Over = FALSE /\ Over' = FALSE
  BY DEF Over
<1>3. R!Pass("out")
  BY <1>1, <1>2 DEF R!Pass, Writable
<1>4. QED
  BY <1>3 DEF R!RelayNext, R!Directions

LEMMA PassIn ==
  ASSUME Values, ~Over, ~Over', ~eofSent,
         NEW n \in Nat, NEW m \in Nat, n <= typed - written, m <= typed - bytes_in,
         written' = written + n, bytes_in' = bytes_in + m,
         UNCHANGED <<sent, typed, taken, bytes_out, remote, sock, shut, eofSent, link, stop>>
  PROVE  R!RelayNext
<1>1. n \in 0 .. typed - written /\ m \in 0 .. typed - bytes_in
  BY DEF Values
<1>2. Over = FALSE /\ Over' = FALSE
  BY DEF Over
<1>3. R!Pass("in")
  BY <1>1, <1>2 DEF R!Pass, Writable
<1>4. QED
  BY <1>3 DEF R!RelayNext, R!Directions

(* ::send() and try_write_all() pass bytes on, which are counted later.     *)
LEMMA PassRelay ==
  ASSUME PumpInv, SendSome \/ SendDone \/ WriteSome \/ WriteDone
  PROVE  R!RelayNext
<1> USE PumpAssumption
    DEF PumpAssumption, PumpInv, Values, Balance, FlagsMean, chanSide, sockOut, sockIn, chanOut,
        stats, flags, buffer, sending, writing, Over
<1>1. CASE SendSome
  <2> DEFINE k == Min(left, SocketRoom - toClient)
  <2>1. k \in Nat /\ k <= sent - taken /\ 0 <= sent - bytes_out /\ ~shut
    BY <1>1 DEF SendSome, Min
  <2>2. taken' = taken + k /\ bytes_out' = bytes_out + 0
    BY <1>1 DEF SendSome
  <2> HIDE DEF k
  <2>3. QED
    BY <1>1, <2>1, <2>2, PassOut DEF SendSome
<1>2. CASE SendDone
  <2>1. chunk <= sent - bytes_out /\ 0 <= sent - taken /\ ~shut
    BY <1>2 DEF SendDone
  <2>2. taken' = taken + 0 /\ bytes_out' = bytes_out + chunk
    BY <1>2 DEF SendDone
  <2>3. QED
    BY <1>2, <2>1, <2>2, PassOut DEF SendDone
<1>3. CASE WriteSome
  <2> DEFINE k == Min(rest, window)
  <2>1. k \in Nat /\ k <= typed - written /\ 0 <= typed - bytes_in /\ ~eofSent
    BY <1>3 DEF WriteSome, Min
  <2>2. written' = written + k /\ bytes_in' = bytes_in + 0
    BY <1>3 DEF WriteSome
  <2> HIDE DEF k
  <2>3. QED
    BY <1>3, <2>1, <2>2, PassIn DEF WriteSome
<1>4. CASE WriteDone
  <2>1. got <= typed - bytes_in /\ 0 <= typed - written /\ ~eofSent
    BY <1>4 DEF WriteDone
  <2>2. written' = written + 0 /\ bytes_in' = bytes_in + got
    BY <1>4 DEF WriteDone
  <2>3. QED
    BY <1>4, <2>1, <2>2, PassIn DEF WriteDone
<1>5. QED
  BY <1>1, <1>2, <1>3, <1>4

(* An end of file is passed on behind the data, or not at all.              *)
LEMMA EofRelay ==
  ASSUME PumpInv, CheckEof \/ ClientEnded
  PROVE  R!RelayNext \/ UNCHANGED R!relayVars
<1> USE DEF PumpInv, Values, Balance, FlagsMean, vars, chanSide, sockOut, sockIn, chanOut, stats,
            flags, buffer, sending, writing, Over
<1>1. CASE CheckEof /\ IsEof
  <2>1. R!PassEof("out")
    BY <1>1 DEF CheckEof, IsEof, R!PassEof, R!Directions, Writable
  <2>2. QED
    BY <2>1 DEF R!RelayNext, R!Directions
<1>2. CASE CheckEof /\ ~IsEof
  BY <1>2, Unseen DEF CheckEof, Seen
<1>3. CASE ClientEnded /\ Writable
  <2>1. eofSent' = TRUE /\ ~eofSent /\ ~Over /\ ~Over' /\ sock # "open"
    BY <1>3, Zenon DEF ClientEnded
  <2>2. sock # "reset" => written = typed /\ bytes_in = typed
    BY <1>3 DEF ClientEnded
  <2>3. UNCHANGED <<sent, typed, taken, written, bytes_out, bytes_in, remote, sock, shut, link, stop>>
    BY <1>3 DEF ClientEnded
  <2>4. R!PassEof("in")
    BY <2>1, <2>2, <2>3 DEF R!PassEof, Writable
  <2>5. QED
    BY <2>4 DEF R!RelayNext, R!Directions
<1>4. CASE ClientEnded /\ ~Writable
  <2>1. eofSent' = FALSE /\ eofSent = FALSE /\ ~Over /\ ~Over'
    BY <1>4 DEF ClientEnded
  <2>2. eofSent' = eofSent
    BY <2>1, Zenon
  <2>3. pc = "client" /\ pc' = "loop"
    BY <1>4 DEF ClientEnded
  <2>4. Over' = Over
    BY <2>3
  <2>5. UNCHANGED Seen
    BY <1>4, <2>2, <2>4 DEF ClientEnded, Seen
  <2>6. QED
    BY <2>5, Unseen
<1>5. QED
  BY <1>1, <1>2, <1>3, <1>4

(* The pump ends when it was told to, has nothing left to do, or is killed  *)
(* for a socket that is broken in both directions.                          *)
LEMMA EndRelay ==
  ASSUME PumpInv, Close \/ SendKills \/ RequestStop
  PROVE  R!RelayNext
<1> USE DEF PumpInv, Values, FlagsMean, vars, chanSide, sockOut, sockIn, chanOut, stats, flags,
            buffer, sending, writing, Over
<1>1. CASE Close
  <2>1. R!Finish
    BY <1>1 DEF Close, R!Finish, R!Directions, Writable
  <2>2. QED
    BY <2>1 DEF R!RelayNext
<1>2. CASE RequestStop
  <2>1. R!Stop
    BY <1>2 DEF RequestStop, R!Stop, Writable
  <2>2. QED
    BY <2>1 DEF R!RelayNext
<1>3. CASE SendKills
  <2>1. R!Finish
    BY <1>3 DEF SendKills, R!Finish, R!Directions, Writable
  <2>2. QED
    BY <2>1 DEF R!RelayNext
<1>4. QED
  BY <1>1, <1>2, <1>3

(* Every step of the pump and its peers is a step of Relay or none.         *)
LEMMA RelayStep == PumpInv /\ [Next]_vars => [R!RelayNext]_(R!relayVars)
<1> SUFFICES ASSUME PumpInv, [Next]_vars PROVE R!RelayNext \/ UNCHANGED R!relayVars
  OBVIOUS
<1>1. CASE Loop \/ ReadChannel \/ ReadClient \/ ClientQuiet
  BY <1>1, Unseen DEF Loop, ReadChannel, ReadClient, ClientQuiet, Seen, chanSide, sockOut, sockIn,
     chanOut, stats, flags, buffer, sending, writing, Over
<1>2. CASE ClientReads \/ RemoteReads \/ Terminated \/ UNCHANGED vars
  BY <1>2, Unseen DEF ClientReads, RemoteReads, Terminated, Seen, vars, chanSide, sockOut, sockIn,
     chanOut, stats, flags, buffer, sending, writing, Over
<1>3. QED
  BY <1>1, <1>2, PeersRelay, PassRelay, EofRelay, EndRelay DEF Next, PumpStep

(* The pump keeps Relay's promise for any amounts and buffer sizes, whatever *)
(* its peers do and in whatever order they fail (forwarding.ipp:93-140).     *)
THEOREM PumpImplementsRelay == Spec => ImplementsRelay
<1>1. Init => R!RelayInit
  BY DEF Init, R!RelayInit, R!Directions, Writable, Over
<1>2. QED
  BY <1>1, RelayStep, PumpInvariant, PTL DEF Spec, ImplementsRelay, R!RelaySpec
=============================================================================
