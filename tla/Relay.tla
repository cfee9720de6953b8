------------------------------- MODULE Relay --------------------------------
(***************************************************************************)
(* What a byte pump promises its two peers.  In each direction the bytes   *)
(* that one peer sends are passed on, then its end of file, behind which   *)
(* nothing follows.  The pump ends because it was told to, or when it has  *)
(* passed on, and counted, both streams to the end.  Of a direction that   *)
(* broke (a side that can no longer be written to or read from) it is only *)
(* promised that nothing is made up and nothing follows the end of file.   *)
(***************************************************************************)
EXTENDS Naturals

VARIABLES
  sent,     \* per direction: bytes the source has sent
  passed,   \* per direction: bytes handed to the sink
  counted,  \* per direction: bytes in the statistics
  ended,    \* the directions whose source has finished
  eof,      \* the directions whose sink was told so
  broken,   \* the directions that failed
  stopped,  \* the pump was told to end
  over      \* the pump has ended

relayVars == <<sent, passed, counted, ended, eof, broken, stopped, over>>

Directions == {"out", "in"}

RelayInit ==
  /\ sent = [d \in Directions |-> 0]
  /\ passed = [d \in Directions |-> 0]
  /\ counted = [d \in Directions |-> 0]
  /\ ended = {} /\ eof = {} /\ broken = {}
  /\ stopped = FALSE /\ over = FALSE

(* The peers: one sends a byte, finishes, or fails, which may end one       *)
(* direction and break the other at the same moment.                        *)
Send(d) ==
  /\ ~over /\ d \notin ended
  /\ sent' = [sent EXCEPT ![d] = @ + 1]
  /\ UNCHANGED <<passed, counted, ended, eof, broken, stopped, over>>

Change ==
  /\ ~over
  /\ ended \subseteq ended' /\ ended' \subseteq Directions
  /\ broken \subseteq broken' /\ broken' \subseteq Directions
  /\ UNCHANGED <<sent, passed, counted, eof, stopped, over>>

(* Bytes are passed on, counted, or both.                                   *)
Pass(d) ==
  /\ ~over /\ d \notin eof
  /\ \E n \in 0 .. sent[d] - passed[d] : passed' = [passed EXCEPT ![d] = @ + n]
  /\ \E m \in 0 .. sent[d] - counted[d] : counted' = [counted EXCEPT ![d] = @ + m]
  /\ UNCHANGED <<sent, ended, eof, broken, stopped, over>>

(* A direction's end of file is passed on, behind all its bytes.            *)
PassEof(d) ==
  /\ ~over /\ d \in ended \ eof
  /\ d \notin broken => passed[d] = sent[d] /\ counted[d] = sent[d]
  /\ eof' = eof \cup {d}
  /\ UNCHANGED <<sent, passed, counted, ended, broken, stopped, over>>

Stop ==
  /\ stopped' = TRUE
  /\ UNCHANGED <<sent, passed, counted, ended, eof, broken, over>>

Finish ==
  /\ stopped \/ \A d \in Directions : d \in eof \cup broken
  /\ over' = TRUE
  /\ UNCHANGED <<sent, passed, counted, ended, eof, broken, stopped>>

RelayNext ==
  \/ \E d \in Directions : Send(d) \/ Pass(d) \/ PassEof(d)
  \/ Change \/ Stop \/ Finish

RelaySpec == RelayInit /\ [][RelayNext]_relayVars
=============================================================================
