-------------------------- MODULE TransfersProofs ---------------------------
(***************************************************************************)
(* Every transfer implements Copy, for any size, chunk and depth: each of  *)
(* its steps is a step of Copy or leaves Copy's variables alone.           *)
(***************************************************************************)
EXTENDS Transfers, TLAPS

(* How far the source has been dealt with, until the loop breaks early.     *)
Frontier == IF mode = "readAhead" THEN MinOf(head, size)
            ELSE IF mode = "writeBehind" THEN head ELSE pos

Places == {"start", "next", "accept", "open", "init", "push", "run", "flush", "early", "end"}

Types ==
  /\ mode \in Modes /\ asked \in Nat
  /\ size \in Nat /\ pos \in Nat /\ head \in Nat /\ flight \in Nat
  /\ told \in BOOLEAN /\ first \in BOOLEAN
  /\ outcome \in {"running", "ok", "failed"} /\ pc \in Places

(* What has been dealt with lies before the frontier, and fills it up to    *)
(* there unless an error was met; after an early break it is everything.    *)
Placed ==
  /\ pc \notin {"early", "end"} =>
       /\ dst \cup lost \subseteq 1 .. Frontier
       /\ ~told /\ ~first => dst \cup lost = 1 .. Frontier
  /\ pc = "early" => dst \cup lost = 1 .. size

(* Errors are remembered by the flush only; every other way out is one.     *)
Phases ==
  /\ outcome = "running" <=> pc # "end"
  /\ (told \/ first) /\ pc # "end" => pc = "flush"
  /\ first => told \/ pc # "end"
  /\ pc = "flush" => mode = "writeBehind" /\ (told \/ pos = size)
  /\ pc = "early" => mode \in {"download", "upload", "scpDownload", "readTo", "scpUpload"}

(* WriteBehind's requests in flight lie between head and pos, all but the   *)
(* last of them Chunk bytes long, and the last not empty.                   *)
Queue ==
  /\ mode = "writeBehind" =>
       /\ pos = MinOf(head + flight * Chunk, size)
       /\ head <= size
       /\ flight > 0 => head + (flight - 1) * Chunk < size
  /\ mode \notin {"readAhead", "writeBehind"} => pos <= size

(* Where bytes can be passed over, and which.                               *)
Losses ==
  /\ mode \in WholeModes \cup {"upload"} /\ lost # {} =>
       mode \in {"upload", "scpUpload"} /\ pc \in {"early", "end"}
  /\ mode = "readAhead" => \A b \in lost : \E a \in dst : a < b /\ b < a + Chunk
  /\ mode \notin {"readAhead", "writeBehind"} => Prefix

CopyInv == Types /\ Placed /\ Phases /\ Queue /\ Losses /\ SuccessMeans

(* A step that keeps the invariant and that Copy allows.                    *)
GoodStep == CopyInv' /\ (C!CopyNext \/ UNCHANGED C!copyVars)

-----------------------------------------------------------------------------
(* Only try_download and try_upload can have an empty chunk.                *)
LEMMA ChunkType ==
  ASSUME Types
  PROVE  Chunk \in Nat /\ (mode \notin {"download", "upload"} => Chunk > 0)
  BY TransfersAssumption DEF Types, Chunk

LEMMA EmptyRange == \A n \in Nat : (n + 1 .. n) = {}
  OBVIOUS

LEMMA ChunkStays ==
  ASSUME Keep
  PROVE  Chunk' = Chunk /\ mode' = mode /\ size' = size /\ asked' = asked
  BY DEF Keep, Chunk

LEMMA InitCopy == Init => CopyInv /\ C!CopyInit
  <1> SUFFICES ASSUME Init PROVE CopyInv /\ C!CopyInit
      OBVIOUS
  <1>1. size \in Nat /\ asked \in Nat /\ MinOf(0, size) = 0
      BY TransfersAssumption DEF Init, MinOf
  <1>2. Types /\ Phases
      BY <1>1 DEF Init, Types, Phases, Places
  <1>3. C!CopyInit
      BY <1>1 DEF Init, C!CopyInit, Reported
  <1>4. Frontier = 0
      BY <1>1 DEF Init, Frontier
  <1>5. Placed
      BY <1>4 DEF Init, Placed
  <1>6. Queue
      <2>1. Chunk \in Nat /\ 0 + 0 * Chunk = 0
            BY <1>2, ChunkType
      <2> QED  BY <1>1, <2>1 DEF Init, Queue
  <1>7. Losses /\ SuccessMeans
      <2>1. dst = 1 .. 0 /\ 0 \in 0 .. size
            BY <1>1 DEF Init
      <2> QED  BY <2>1 DEF Init, Losses, Prefix, SuccessMeans, Reported
  <1> QED  BY <1>2, <1>3, <1>5, <1>6, <1>7 DEF CopyInv

(* A step that leaves the data alone.                                       *)
LEMMA GoToKeeps ==
  ASSUME CopyInv, pc \notin {"early", "end"}, NEW to \in Places \ {"early", "end"}, GoTo(to),
         to = "flush" => mode = "writeBehind" /\ pos = size,
         pc = "flush" => to = "flush"
  PROVE  GoodStep
  <1>1. /\ pc' = to /\ dst' = dst /\ lost' = lost /\ told' = told /\ first' = first
        /\ outcome' = outcome /\ pos' = pos /\ head' = head /\ flight' = flight
        /\ Chunk' = Chunk /\ mode' = mode /\ size' = size /\ asked' = asked
      BY ChunkStays DEF GoTo
  <1>2. outcome = "running"
      BY DEF CopyInv, Phases
  <1>3. UNCHANGED C!copyVars
      BY <1>1 DEF C!copyVars, Reported
  <1>4. Types'
      BY <1>1 DEF CopyInv, Types
  <1>5. Frontier' = Frontier
      BY <1>1 DEF Frontier
  <1>6. Placed'
      BY <1>1, <1>5 DEF CopyInv, Placed
  <1>7. Phases'
      BY <1>1, <1>2 DEF CopyInv, Phases
  <1>8. Queue'
      BY <1>1 DEF CopyInv, Queue
  <1>9. Losses' /\ SuccessMeans'
      BY <1>1, <1>2 DEF CopyInv, Losses, Prefix, SuccessMeans, Reported
  <1> QED  BY <1>3, <1>4, <1>6, <1>7, <1>8, <1>9 DEF GoodStep, CopyInv

(* Giving up is always allowed.                                             *)
LEMMA FailKeeps ==
  ASSUME CopyInv, pc # "end", Return("failed")
  PROVE  GoodStep
  <1>1. /\ dst' = dst /\ lost' = lost /\ pos' = pos /\ head' = head /\ flight' = flight
        /\ outcome' = "failed" /\ pc' = "end" /\ told' = TRUE /\ first' = first
        /\ Chunk' = Chunk /\ mode' = mode /\ size' = size /\ asked' = asked
      BY ChunkStays DEF Return
  <1>2. outcome = "running"
      BY DEF CopyInv, Phases
  <1>3. C!Fail
      BY <1>1, <1>2 DEF C!Fail, Reported
  <1>4. Types' /\ Placed' /\ Phases' /\ Queue'
      BY <1>1 DEF CopyInv, Types, Placed, Phases, Queue, Places
  <1>5. Losses' /\ SuccessMeans'
      BY <1>1 DEF CopyInv, Losses, Prefix, SuccessMeans, Reported
  <1> QED  BY <1>3, <1>4, <1>5 DEF GoodStep, CopyInv, C!CopyNext

(* Success at the end of the source.                                        *)
LEMMA SucceedKeeps ==
  ASSUME CopyInv, pc # "end", pc = "early" => mode # "scpUpload", ~first,
         told \/ dst \cup lost = 1 .. size, Return("ok")
  PROVE  GoodStep
  <1>1. /\ dst' = dst /\ lost' = lost /\ pos' = pos /\ head' = head /\ flight' = flight
        /\ outcome' = "ok" /\ pc' = "end" /\ told' = told /\ first' = first
        /\ Chunk' = Chunk /\ mode' = mode /\ size' = size /\ asked' = asked
      BY ChunkStays DEF Return, CopyInv, Types
  <1>2. outcome = "running" /\ told \in BOOLEAN /\ first \in BOOLEAN /\ size \in Nat
      BY DEF CopyInv, Phases, Types
  <1>3. C!CopyNext \/ UNCHANGED C!copyVars
      <2>1. CASE told
            <3>1. C!Fail
                  BY <1>1, <1>2, <2>1 DEF C!Fail, Reported
            <3> QED  BY <3>1 DEF C!CopyNext
      <2>2. CASE ~told
            <3>1. C!Succeed
                  BY <1>1, <1>2, <2>2 DEF C!Succeed, Reported
            <3> QED  BY <3>1 DEF C!CopyNext
      <2> QED  BY <2>1, <2>2
  <1>4. Types' /\ Placed' /\ Phases' /\ Queue'
      BY <1>1, <1>2 DEF CopyInv, Types, Placed, Phases, Queue, Places
  <1>5. Losses'
      BY <1>1 DEF CopyInv, Losses, Prefix
  <1>6. SuccessMeans'
      <2> SUFFICES ASSUME ~told
                   PROVE  /\ mode \in WholeModes => dst = 1 .. size
                          /\ mode = "readAhead" => Gapped
                          /\ mode # "readAhead" => Prefix
            BY <1>1 DEF SuccessMeans, Reported, Gapped, Prefix
      <2>1. ASSUME mode \in WholeModes PROVE dst = 1 .. size
            <3>1. lost = {}
                  BY <2>1 DEF CopyInv, Losses, WholeModes
            <3> QED  BY <3>1
      <2>2. ASSUME mode = "readAhead" PROVE Gapped
            <3>1. (1 .. size) \ dst \subseteq lost
                  OBVIOUS
            <3> QED  BY <2>2, <3>1 DEF CopyInv, Losses, Gapped
      <2>3. ASSUME mode # "readAhead" PROVE Prefix
            <3>1. CASE mode = "writeBehind"
                  <4>1. dst = 1 .. size /\ size \in 0 .. size
                        BY <1>2, <2>1, <3>1 DEF WholeModes
                  <4> QED  BY <4>1 DEF Prefix
            <3>2. CASE mode # "writeBehind"
                  BY <2>3, <3>2 DEF CopyInv, Losses
            <3> QED  BY <3>1, <3>2
      <2> QED  BY <2>1, <2>2, <2>3
  <1> QED  BY <1>3, <1>4, <1>5, <1>6 DEF GoodStep, CopyInv

(* The bytes lo + 1 to hi are dealt with, next to those before.             *)
LEMMA AdvanceKeeps ==
  ASSUME size \in Nat, NEW lo \in Nat, NEW mid \in Nat, NEW hi \in Nat,
         lo < hi, hi <= size, lo <= mid, mid <= hi, outcome = "running",
         dst \cup lost \subseteq 1 .. lo, ~told /\ ~first => dst \cup lost = 1 .. lo,
         dst' = dst \cup (lo + 1 .. mid), lost' = lost \cup (mid + 1 .. hi),
         UNCHANGED <<size, told, first, outcome>>
  PROVE  /\ C!Advance
         /\ dst' \cup lost' \subseteq 1 .. hi
         /\ ~told /\ ~first => dst' \cup lost' = 1 .. hi
  <1>1. /\ lo + 1 \in 1 .. size /\ hi \in lo + 1 .. size /\ (lo + 1) - 1 = lo
        /\ mid \in ((lo + 1) - 1) .. hi
      OBVIOUS
  <1>2. Reported = "running" /\ Reported' = Reported
      BY DEF Reported
  <1>3. C!Advance
      BY <1>1, <1>2 DEF C!Advance
  <1>4. dst' \cup lost' = (dst \cup lost) \cup (lo + 1 .. hi)
      <2>1. (lo + 1 .. mid) \cup (mid + 1 .. hi) = lo + 1 .. hi
            OBVIOUS
      <2> QED  BY <2>1
  <1>5. (1 .. lo) \cup (lo + 1 .. hi) = 1 .. hi
      OBVIOUS
  <1> QED  BY <1>3, <1>4, <1>5

-----------------------------------------------------------------------------
(* The opening of a transfer moves no byte.                                 *)
LEMMA StartKeeps == CopyInv /\ Start => GoodStep
  <1> SUFFICES ASSUME CopyInv, Start PROVE GoodStep
      OBVIOUS
  <1>1. pc \in {"start", "next", "accept", "open", "init", "push"}
      BY DEF Start, StartPipeline, StartDownload, StartUpload, StartReadFile, ReaderInit,
             StartReadTo, NextRequest, AcceptRequest, StartScpUpload, WriterInit, PushFile,
             OpenLocal, Step
  <1>2. \/ Return("failed")
        \/ \E to \in {"next", "accept", "open", "init", "push", "run"} : GoTo(to)
      BY DEF Start, StartPipeline, StartDownload, StartUpload, StartReadFile, ReaderInit,
             StartReadTo, NextRequest, AcceptRequest, StartScpUpload, WriterInit, PushFile,
             OpenLocal, Step, GoOn
  <1>3. CASE Return("failed")
      BY <1>1, <1>3, FailKeeps
  <1>4. CASE \E to \in {"next", "accept", "open", "init", "push", "run"} : GoTo(to)
      <2>1. PICK to \in {"next", "accept", "open", "init", "push", "run"} : GoTo(to)
            BY <1>4
      <2>2. to \in Places \ {"early", "end"} /\ to # "flush"
            BY DEF Places
      <2> QED  BY <1>1, <2>1, <2>2, GoToKeeps
  <1> QED  BY <1>2, <1>3, <1>4

-----------------------------------------------------------------------------
(* ReadAhead: a request is for Chunk bytes behind head, and its answer      *)
(* moves the frontier by as much, whatever its length.                      *)
LEMMA AnsweredKeeps ==
  ASSUME CopyInv, mode = "readAhead", pc = "run", flight = Depth, head < size,
         NEW n \in 1 .. MinOf(Chunk, size - head), Answered(n), UNCHANGED <<outcome, pc>>
  PROVE  GoodStep
  <1> DEFINE hi == MinOf(head + Chunk, size)
  <1>1. /\ dst' = dst \cup (head + 1 .. head + n) /\ lost' = lost \cup ((head + n) + 1 .. hi)
        /\ head' = head + Chunk /\ flight' = flight - 1
        /\ told' = told /\ first' = first /\ pos' = pos /\ outcome' = outcome /\ pc' = pc
        /\ Chunk' = Chunk /\ mode' = mode /\ size' = size /\ asked' = asked
      BY ChunkStays DEF Answered, Stored, PassedOver
  <1>2. size \in Nat /\ head \in Nat /\ Chunk \in Nat /\ Chunk > 0 /\ flight - 1 \in Nat
      BY ChunkType, TransfersAssumption DEF CopyInv, Types
  <1>3. /\ n \in Nat /\ n >= 1 /\ head + n \in Nat /\ hi \in Nat /\ head < hi /\ hi <= size
        /\ head + n <= hi /\ head <= head + n /\ hi <= head + Chunk
      BY <1>2 DEF MinOf
  <1>4. Frontier = head /\ Frontier' = hi
      BY <1>1, <1>2 DEF Frontier, MinOf
  <1>5. /\ outcome = "running" /\ dst \cup lost \subseteq 1 .. head
        /\ ~told /\ ~first => dst \cup lost = 1 .. head
      BY <1>4 DEF CopyInv, Placed, Phases
  <1> HIDE DEF hi
  <1>6. /\ C!Advance
        /\ dst' \cup lost' \subseteq 1 .. hi
        /\ ~told /\ ~first => dst' \cup lost' = 1 .. hi
      BY <1>1, <1>2, <1>3, <1>5, AdvanceKeeps
  <1>7. Placed'
      BY <1>1, <1>4, <1>6 DEF Placed
  <1>8. Types'
      BY <1>1, <1>2 DEF CopyInv, Types
  <1>9. Phases' /\ Queue'
      BY <1>1 DEF CopyInv, Phases, Queue
  <1>10. Losses'
      <2>1. ASSUME NEW b \in lost' PROVE \E a \in dst' : a < b /\ b < a + Chunk
            <3>1. CASE b \in lost
                  BY <1>1, <3>1 DEF CopyInv, Losses
            <3>2. CASE b \in (head + n) + 1 .. hi
                  <4>1. head + 1 \in dst'
                        BY <1>1, <1>2, <1>3
                  <4>2. head + 1 < b /\ b < (head + 1) + Chunk
                        BY <1>2, <1>3, <3>2
                  <4> QED  BY <4>1, <4>2
            <3> QED  BY <1>1, <3>1, <3>2
      <2> QED  BY <1>1, <2>1 DEF Losses, WholeModes
  <1>11. SuccessMeans'
      BY <1>1, <1>5 DEF SuccessMeans, Reported
  <1> QED  BY <1>6, <1>7, <1>8, <1>9, <1>10, <1>11 DEF GoodStep, CopyInv, C!CopyNext

LEMMA ReadAheadKeeps == CopyInv /\ (SubmitRead \/ WaitRead) => GoodStep
  <1> SUFFICES ASSUME CopyInv, SubmitRead \/ WaitRead PROVE GoodStep
      OBVIOUS
  <1>1. mode = "readAhead" /\ pc = "run" /\ ~told /\ ~first /\ outcome = "running"
      BY DEF SubmitRead, WaitRead, CopyInv, Phases
  <1>2. CASE Return("failed")
      BY <1>1, <1>2, FailKeeps
  <1>3. CASE /\ flight' = flight + 1 /\ pos' = pos + Chunk
             /\ UNCHANGED <<dst, lost, told, first, outcome, pc, head>> /\ Keep
      <2>1. /\ dst' = dst /\ lost' = lost /\ told' = told /\ first' = first /\ head' = head
            /\ outcome' = outcome /\ pc' = pc
            /\ Chunk' = Chunk /\ mode' = mode /\ size' = size /\ asked' = asked
            BY <1>3, ChunkStays
      <2>2. pos' \in Nat /\ flight' \in Nat
            BY <1>3, ChunkType DEF CopyInv, Types
      <2>3. Frontier' = Frontier
            BY <1>1, <2>1 DEF Frontier
      <2>4. Types' /\ Placed' /\ Phases' /\ Queue'
            BY <1>1, <2>1, <2>2, <2>3 DEF CopyInv, Types, Placed, Phases, Queue
      <2>5. Losses' /\ SuccessMeans' /\ UNCHANGED C!copyVars
            BY <1>1, <2>1 DEF CopyInv, Losses, WholeModes, SuccessMeans, Reported, C!copyVars
      <2> QED  BY <2>4, <2>5 DEF GoodStep, CopyInv
  <1>4. CASE head >= size /\ Return("ok")
      <2>1. Frontier = size
            BY <1>1, <1>4 DEF Frontier, MinOf, CopyInv, Types
      <2>2. dst \cup lost = 1 .. size
            BY <1>1, <2>1 DEF CopyInv, Placed
      <2> QED  BY <1>1, <1>4, <2>2, SucceedKeeps
  <1>5. ASSUME flight = Depth, head < size, NEW n \in 1 .. MinOf(Chunk, size - head), Answered(n),
               UNCHANGED <<outcome, pc>>
        PROVE  GoodStep
      BY <1>1, <1>5, AnsweredKeeps
  <1> QED  BY <1>2, <1>3, <1>4, <1>5 DEF SubmitRead, WaitRead

-----------------------------------------------------------------------------
LEMMA Times == \A a, b \in Nat : a * b \in Nat /\ (a + 1) * b = a * b + b
  OBVIOUS

(* WriteBehind queues a chunk: it is not empty, and behind the others.      *)
LEMMA SubmitQueue ==
  ASSUME CopyInv, mode = "writeBehind", pos < size, flight' = flight + 1,
         pos' = MinOf(pos + Chunk, size), UNCHANGED <<mode, size, head>>, Chunk' = Chunk
  PROVE  pos' \in Nat /\ flight' \in Nat /\ Queue'
  <1>1. size \in Nat /\ pos \in Nat /\ head \in Nat /\ flight \in Nat /\ Chunk \in Nat
      BY ChunkType DEF CopyInv, Types
  <1>2. flight * Chunk \in Nat /\ (flight + 1) * Chunk = flight * Chunk + Chunk
      BY <1>1, Times
  <1>3. pos = head + flight * Chunk
      BY <1>1, <1>2 DEF CopyInv, Queue, MinOf
  <1>4. pos' = MinOf(head + (flight + 1) * Chunk, size)
      BY <1>1, <1>2, <1>3 DEF MinOf
  <1>5. head + ((flight + 1) - 1) * Chunk < size
      BY <1>1, <1>3
  <1>6. pos' \in Nat /\ flight' \in Nat
      BY <1>1 DEF MinOf
  <1> QED  BY <1>4, <1>5, <1>6 DEF CopyInv, Queue

(* The first request in flight is answered: it was not empty.               *)
LEMMA DrainQueue ==
  ASSUME CopyInv, mode = "writeBehind", flight > 0, flight' = flight - 1,
         head' = MinOf(head + Chunk, size), UNCHANGED <<mode, size, pos>>, Chunk' = Chunk
  PROVE  head' \in Nat /\ flight' \in Nat /\ head < head' /\ head' <= size /\ Queue'
  <1>1. size \in Nat /\ pos \in Nat /\ head \in Nat /\ flight \in Nat /\ flight - 1 \in Nat
        /\ Chunk \in Nat /\ Chunk > 0
      BY ChunkType DEF CopyInv, Types
  <1>2. (flight - 1) * Chunk \in Nat /\ flight * Chunk = (flight - 1) * Chunk + Chunk
      <2>1. (flight - 1) + 1 = flight
            BY <1>1
      <2> QED  BY <1>1, <2>1, Times
  <1>3. head + (flight - 1) * Chunk < size /\ pos = MinOf(head + flight * Chunk, size)
      BY DEF CopyInv, Queue
  <1>4. head' \in Nat /\ flight' \in Nat /\ head < head' /\ head' <= size
      BY <1>1, <1>2, <1>3 DEF MinOf
  <1>5. CASE flight - 1 = 0
      BY <1>1, <1>2, <1>3, <1>4, <1>5 DEF Queue, MinOf
  <1>6. CASE flight - 1 > 0
      <2>1. (flight - 2) * Chunk \in Nat /\ (flight - 1) * Chunk = (flight - 2) * Chunk + Chunk
            <3>1. flight - 2 \in Nat /\ (flight - 2) + 1 = flight - 1
                  BY <1>1, <1>6
            <3> QED  BY <1>1, <3>1, Times
      <2>2. head' = head + Chunk
            BY <1>1, <1>3, <2>1 DEF MinOf
      <2>3. pos' = MinOf(head' + flight' * Chunk, size')
            BY <1>1, <1>2, <1>3, <2>2 DEF MinOf
      <2>4. (flight' - 1) * Chunk = (flight - 2) * Chunk
            <3>1. flight' - 1 = flight - 2
                  BY <1>1
            <3> QED  BY <3>1
      <2>5. head' + (flight' - 1) * Chunk < size'
            BY <1>1, <1>3, <2>1, <2>2, <2>4
      <2> QED  BY <1>4, <2>3, <2>5 DEF Queue
  <1> QED  BY <1>1, <1>5, <1>6

(* The first request in flight is answered, well or not; what the error is  *)
(* remembered in depends on who waits for it.                               *)
LEMMA DrainKeeps ==
  ASSUME CopyInv, mode = "writeBehind", pc \in {"run", "flush"},
         NEW fails \in BOOLEAN, DrainOne(fails),
         ~fails => told' = told /\ first' = first /\ pc' = pc,
         fails => \/ told' = TRUE /\ first' = first /\ pc' = "flush"
                  \/ told' = told /\ first' = TRUE /\ pc = "flush" /\ pc' = "flush"
  PROVE  GoodStep
  <1>1. /\ flight > 0 /\ flight' = flight - 1 /\ head' = MinOf(head + Chunk, size)
        /\ lost' = lost /\ outcome' = outcome /\ pos' = pos
        /\ Chunk' = Chunk /\ mode' = mode /\ size' = size /\ asked' = asked
      BY ChunkStays DEF DrainOne
  <1>2. head' \in Nat /\ flight' \in Nat /\ head < head' /\ head' <= size /\ Queue'
      BY <1>1, DrainQueue
  <1>3. /\ size \in Nat /\ head \in Nat /\ outcome = "running" /\ lost = {}
        /\ told \in BOOLEAN /\ first \in BOOLEAN
        /\ dst \cup lost \subseteq 1 .. head /\ (~told /\ ~first => dst \cup lost = 1 .. head)
      BY DEF CopyInv, Types, Phases, Placed, Frontier, Losses, WholeModes
  <1>4. Frontier' = head'
      BY <1>1 DEF Frontier
  <1>5. Types' /\ Phases'
      <2>1. /\ told' \in BOOLEAN /\ first' \in BOOLEAN /\ pc' \in {"run", "flush"}
            /\ pc' = "run" => pc = "run" /\ told' = told /\ first' = first
            /\ pc' = "flush" => told' = TRUE \/ (pc = "flush" /\ told' = told)
            <3>1. CASE ~fails
                  BY <1>3, <3>1
            <3>2. CASE told' = TRUE /\ first' = first /\ pc' = "flush"
                  BY <1>3, <3>2
            <3>3. CASE told' = told /\ first' = TRUE /\ pc = "flush" /\ pc' = "flush"
                  BY <1>3, <3>3
            <3> QED  BY <3>1, <3>2, <3>3
      <2>2. Types'
            BY <1>1, <1>2, <2>1 DEF CopyInv, Types, Places
      <2>3. Phases'
            BY <1>1, <1>3, <2>1 DEF CopyInv, Phases
      <2> QED  BY <2>2, <2>3
  <1>6. Losses' /\ SuccessMeans'
      BY <1>1, <1>3 DEF Losses, SuccessMeans, Reported
  <1>7. CASE ~fails
      <2>1. told' = told /\ first' = first
            BY <1>7
      <2>2. dst' = dst \cup (head + 1 .. head') /\ lost' = lost \cup (head' + 1 .. head')
            <3>1. (head' + 1 .. head') = {}
                  BY <1>2, EmptyRange
            <3> QED  BY <1>1, <1>7, <3>1 DEF DrainOne, Stored
      <2>3. /\ C!Advance
            /\ dst' \cup lost' \subseteq 1 .. head'
            /\ ~told /\ ~first => dst' \cup lost' = 1 .. head'
            BY <1>1, <1>2, <1>3, <2>1, <2>2, AdvanceKeeps
      <2>4. Placed'
            BY <1>4, <1>5, <2>1, <2>3 DEF Placed, Phases
      <2> QED  BY <1>2, <1>5, <1>6, <2>3, <2>4 DEF GoodStep, CopyInv, C!CopyNext
  <1>8. CASE fails
      <2>1. dst' = dst /\ (told' \/ first')
            BY <1>8 DEF DrainOne
      <2>2. C!MeetError \/ UNCHANGED C!copyVars
            BY <1>1, <1>3, <2>1 DEF C!MeetError, C!copyVars, Reported
      <2>3. Placed'
            BY <1>1, <1>2, <1>3, <1>4, <1>5, <2>1 DEF Placed, Phases
      <2> QED  BY <1>2, <1>5, <1>6, <2>2, <2>3 DEF GoodStep, CopyInv, C!CopyNext
  <1> QED  BY <1>7, <1>8

(* WriteBehind: queue, make room, flush, and report the first error.        *)
LEMMA WriteBehindKeeps ==
  CopyInv /\ (SubmitWrite \/ MakeRoom \/ BeginFlush \/ Flush \/ Flushed) => GoodStep
  <1> SUFFICES ASSUME CopyInv, SubmitWrite \/ MakeRoom \/ BeginFlush \/ Flush \/ Flushed
               PROVE GoodStep
      OBVIOUS
  <1>1. /\ mode = "writeBehind" /\ pc \in {"run", "flush"} /\ outcome = "running" /\ lost = {}
        /\ told \in BOOLEAN /\ first \in BOOLEAN /\ (pc = "run" => ~told /\ ~first)
      BY DEF SubmitWrite, MakeRoom, BeginFlush, Flush, Flushed, CopyInv, Phases, Types, Losses,
             WholeModes
  <1>2. CASE SubmitWrite
      <2>1. pc = "run" /\ pos < size
            BY <1>2 DEF SubmitWrite
      <2>2. CASE /\ flight' = flight + 1 /\ pos' = MinOf(pos + Chunk, size)
                 /\ UNCHANGED <<dst, lost, told, first, outcome, pc, head>> /\ Keep
            <3>1. /\ dst' = dst /\ lost' = lost /\ told' = told /\ first' = first /\ head' = head
                  /\ outcome' = outcome /\ pc' = pc
                  /\ Chunk' = Chunk /\ mode' = mode /\ size' = size /\ asked' = asked
                  BY <2>2, ChunkStays
            <3>2. pos' \in Nat /\ flight' \in Nat /\ Queue'
                  BY <1>1, <2>1, <2>2, <3>1, SubmitQueue
            <3>3. Frontier' = Frontier
                  BY <1>1, <3>1 DEF Frontier
            <3>4. Types' /\ Placed' /\ Phases'
                  BY <1>1, <2>1, <3>1, <3>2, <3>3 DEF CopyInv, Types, Placed, Phases
            <3>5. Losses' /\ SuccessMeans' /\ UNCHANGED C!copyVars
                  BY <1>1, <3>1 DEF CopyInv, Losses, SuccessMeans, Reported, C!copyVars
            <3> QED  BY <3>2, <3>4, <3>5 DEF GoodStep, CopyInv
      <2>3. CASE /\ told' = TRUE /\ pc' = "flush"
                 /\ UNCHANGED <<dst, lost, first, outcome, pos, head, flight>> /\ Keep
            <3>1. /\ dst' = dst /\ lost' = lost /\ first' = first /\ head' = head
                  /\ outcome' = outcome /\ pos' = pos /\ flight' = flight
                  /\ Chunk' = Chunk /\ mode' = mode /\ size' = size /\ asked' = asked
                  BY <2>3, ChunkStays
            <3>2. C!MeetError
                  BY <1>1, <2>3, <3>1 DEF C!MeetError, Reported
            <3>3. Frontier' = Frontier
                  BY <1>1, <3>1 DEF Frontier
            <3>4. Types' /\ Placed' /\ Phases' /\ Queue'
                  BY <1>1, <2>1, <2>3, <3>1, <3>3
                  DEF CopyInv, Types, Placed, Phases, Queue, Places
            <3>5. Losses' /\ SuccessMeans'
                  BY <1>1, <3>1 DEF Losses, SuccessMeans, Reported
            <3> QED  BY <3>2, <3>4, <3>5 DEF GoodStep, CopyInv, C!CopyNext
      <2> QED  BY <1>2, <2>2, <2>3 DEF SubmitWrite
  <1>3. CASE MakeRoom
      <2>1. PICK fails \in BOOLEAN :
              DrainOne(fails) /\ told' = fails /\ pc' = IF fails THEN "flush" ELSE "run"
            BY <1>3 DEF MakeRoom
      <2>2. pc = "run" /\ first' = first
            BY <1>3 DEF MakeRoom
      <2> QED  BY <1>1, <2>1, <2>2, DrainKeeps
  <1>4. CASE Flush
      <2>1. PICK fails \in BOOLEAN : DrainOne(fails) /\ first' = (first \/ fails)
            BY <1>4 DEF Flush, FlushOne
      <2>2. pc = "flush" /\ told' = told /\ pc' = pc
            BY <1>4 DEF Flush, FlushOne
      <2> QED  BY <1>1, <2>1, <2>2, DrainKeeps
  <1>5. CASE BeginFlush
      <2>1. pc = "run" /\ pos = size /\ GoTo("flush") /\ "flush" \in Places \ {"early", "end"}
            BY <1>5 DEF BeginFlush, Places
      <2> QED  BY <1>1, <2>1, GoToKeeps
  <1>6. CASE Flushed
      <2>1. pc = "flush" /\ flight = 0 /\ Return(IF first THEN "failed" ELSE "ok")
            BY <1>6 DEF Flushed
      <2>2. CASE first
            BY <2>1, <2>2, FailKeeps
      <2>3. CASE ~first
            <3>1. told \/ dst \cup lost = 1 .. size
                  <4> SUFFICES ASSUME ~told PROVE dst \cup lost = 1 .. size
                        OBVIOUS
                  <4>1. pos = size /\ pos = MinOf(head + 0 * Chunk, size) /\ head <= size
                        BY <1>1, <2>1 DEF CopyInv, Phases, Queue
                  <4>2. Chunk \in Nat /\ head \in Nat /\ size \in Nat
                        BY ChunkType DEF CopyInv, Types
                  <4>3. Frontier = size
                        BY <1>1, <4>1, <4>2 DEF Frontier, MinOf
                  <4> QED  BY <2>1, <2>3, <4>3 DEF CopyInv, Placed
            <3> QED  BY <2>1, <2>3, <3>1, SucceedKeeps
      <2> QED  BY <2>2, <2>3
  <1> QED  BY <1>2, <1>3, <1>4, <1>5, <1>6

-----------------------------------------------------------------------------
(* The transfers that have one request at a time.                           *)
OneByOne == mode \in Modes \ {"readAhead", "writeBehind"}

(* What such a transfer knows while it runs.                                *)
LEMMA Running ==
  ASSUME CopyInv, OneByOne, pc = "run"
  PROVE  /\ size \in Nat /\ pos \in Nat /\ pos <= size /\ outcome = "running"
         /\ told = FALSE /\ first = FALSE
         /\ Frontier = pos /\ dst \cup lost = 1 .. pos
  BY DEF CopyInv, Types, Phases, Queue, Placed, Frontier, OneByOne

(* A chunk arrives.                                                         *)
LEMMA ChunkKeeps ==
  ASSUME CopyInv, OneByOne, pc = "run", pos' \in Nat, pos < pos', pos' <= size, lost = {},
         Stored(pos, pos'), UNCHANGED <<lost, told, first, outcome, pc, head, flight>>, Keep
  PROVE  GoodStep
  <1>1. /\ size \in Nat /\ pos \in Nat /\ outcome = "running" /\ dst \cup lost = 1 .. pos
        /\ told = FALSE /\ first = FALSE
      BY Running
  <1>2. /\ told' = told /\ first' = first /\ outcome' = outcome /\ pc' = pc /\ head' = head
        /\ flight' = flight /\ Chunk' = Chunk /\ mode' = mode /\ size' = size /\ asked' = asked
      BY ChunkStays
  <1>3. dst' = dst \cup (pos + 1 .. pos') /\ lost' = lost \cup (pos' + 1 .. pos')
      <2>1. (pos' + 1 .. pos') = {}
            BY EmptyRange
      <2> QED  BY <2>1 DEF Stored
  <1>4. C!Advance /\ dst' \cup lost' = 1 .. pos'
      BY <1>1, <1>2, <1>3, AdvanceKeeps
  <1>5. Frontier' = pos'
      BY <1>2 DEF Frontier, OneByOne
  <1>6. Types' /\ Phases' /\ Queue' /\ Placed'
      BY <1>2, <1>4, <1>5 DEF CopyInv, Types, Phases, Queue, Placed, OneByOne
  <1>7. Losses' /\ SuccessMeans'
      <2>1. dst' = 1 .. pos' /\ pos' \in 0 .. size'
            BY <1>2, <1>4
      <2>2. Prefix'
            BY <2>1 DEF Prefix
      <2> QED  BY <1>1, <1>2, <2>2 DEF Losses, SuccessMeans, Reported, OneByOne
  <1> QED  BY <1>4, <1>6, <1>7 DEF GoodStep, CopyInv, C!CopyNext

(* Bytes are passed over: a chunk, or all the rest.                         *)
LEMMA PassOverKeeps ==
  ASSUME CopyInv, OneByOne, mode \notin {"readFile", "writeFile"}, pc = "run",
         NEW hi \in Nat, pos < hi, hi <= size, PassedOver(pos, hi),
         \/ pc' = "run" /\ mode \notin {"upload", "scpUpload"} /\ pos' = hi
         \/ pc' = "early" /\ mode \in {"download", "upload", "scpDownload", "readTo", "scpUpload"}
            /\ pos' = pos /\ hi = size,
         UNCHANGED <<dst, told, first, outcome, head, flight>>, Keep
  PROVE  GoodStep
  <1>1. /\ size \in Nat /\ pos \in Nat /\ outcome = "running" /\ dst \cup lost = 1 .. pos
        /\ told = FALSE /\ first = FALSE /\ pos <= size
      BY Running
  <1>2. /\ dst' = dst /\ told' = told /\ first' = first /\ outcome' = outcome /\ head' = head
        /\ flight' = flight /\ Chunk' = Chunk /\ mode' = mode /\ size' = size /\ asked' = asked
      BY ChunkStays
  <1>3. dst' = dst \cup (pos + 1 .. pos) /\ lost' = lost \cup (pos + 1 .. hi) /\ pos <= pos
      <2>1. (pos + 1 .. pos) = {}
            BY <1>1, EmptyRange
      <2> QED  BY <1>1, <1>2, <2>1 DEF PassedOver
  <1>4. C!Advance /\ dst' \cup lost' = 1 .. hi
      <2>1. dst \cup lost \subseteq 1 .. pos /\ (~told /\ ~first => dst \cup lost = 1 .. pos)
            BY <1>1
      <2>2. pos <= hi
            BY <1>1
      <2> QED  BY <1>1, <1>2, <1>3, <2>1, <2>2, AdvanceKeeps
  <1>5. Frontier' = pos'
      BY <1>2 DEF Frontier, OneByOne
  <1>6. Types' /\ Phases' /\ Queue'
      BY <1>1, <1>2 DEF CopyInv, Types, Phases, Queue, OneByOne, Places
  <1>7. Placed'
      BY <1>2, <1>4, <1>5 DEF Placed
  <1>8. Losses' /\ SuccessMeans'
      <2>1. Prefix'
            BY <1>2 DEF CopyInv, Losses, Prefix, OneByOne
      <2> QED  BY <1>1, <1>2, <2>1 DEF Losses, WholeModes, SuccessMeans, Reported, OneByOne
  <1> QED  BY <1>4, <1>6, <1>7, <1>8 DEF GoodStep, CopyInv, C!CopyNext

LEMMA ChunkInKeeps ==
  ASSUME CopyInv, OneByOne, mode \notin {"upload", "writeFile", "scpUpload"}, ChunkIn
  PROVE  GoodStep
  <1>1. CASE pc = "run" /\ Return("failed")
      BY <1>1, FailKeeps
  <1>2. ASSUME pc = "run", pos < size, NEW n \in 1 .. MinOf(Chunk, size - pos), pos' = pos + n,
               UNCHANGED <<told, first, outcome, pc, head, flight>>, Keep,
               \/ lost = {} /\ Stored(pos, pos') /\ UNCHANGED lost
               \/ mode # "readFile" /\ PassedOver(pos, pos') /\ UNCHANGED dst
        PROVE  GoodStep
      <2>1. size \in Nat /\ pos \in Nat /\ Chunk \in Nat
            BY ChunkType DEF CopyInv, Types
      <2>2. pos' \in Nat /\ pos < pos' /\ pos' <= size
            BY <1>2, <2>1 DEF MinOf
      <2>3. CASE lost = {} /\ Stored(pos, pos') /\ UNCHANGED lost
            BY <1>2, <2>2, <2>3, ChunkKeeps
      <2>4. CASE mode # "readFile" /\ PassedOver(pos, pos') /\ UNCHANGED dst
            BY <1>2, <2>2, <2>4, PassOverKeeps
      <2> QED  BY <1>2, <2>3, <2>4
  <1> QED  BY <1>1, <1>2 DEF ChunkIn

LEMMA ChunkOutKeeps ==
  ASSUME CopyInv, OneByOne, mode \in {"upload", "writeFile", "scpUpload"}, ChunkOut
  PROVE  GoodStep
  <1>1. CASE pc = "run" /\ Return("failed")
      BY <1>1, FailKeeps
  <1>2. CASE /\ pc = "run" /\ pos < size /\ Chunk # 0
             /\ pos' = MinOf(pos + Chunk, size) /\ Stored(pos, pos')
             /\ UNCHANGED <<lost, told, first, outcome, pc, head, flight>> /\ Keep
      <2>1. size \in Nat /\ pos \in Nat /\ Chunk \in Nat
            BY ChunkType DEF CopyInv, Types
      <2>2. pos' \in Nat /\ pos < pos' /\ pos' <= size
            BY <1>2, <2>1 DEF MinOf
      <2>3. lost = {}
            BY <1>2 DEF CopyInv, Losses, WholeModes
      <2> QED  BY <1>2, <2>2, <2>3, ChunkKeeps
  <1> QED  BY <1>1, <1>2 DEF ChunkOut

LEMMA SequentialKeeps == CopyInv /\ Sequential => GoodStep
  <1> SUFFICES ASSUME CopyInv, Sequential PROVE GoodStep
      OBVIOUS
  <1>1. CASE DownloadChunk \/ ReadFileChunk \/ ScpDownloadChunk \/ ReadToChunk
      BY <1>1, ChunkInKeeps
      DEF DownloadChunk, ReadFileChunk, ScpDownloadChunk, ReadToChunk, OneByOne, Modes
  <1>2. CASE UploadChunk \/ WriteFileChunk \/ ScpUploadChunk
      BY <1>2, ChunkOutKeeps DEF UploadChunk, WriteFileChunk, ScpUploadChunk, OneByOne, Modes
  <1>3. CASE \/ DownloadEnds \/ ReadFileEnds \/ ScpDownloadEnds
             \/ UploadEnds \/ WriteFileEnds \/ ScpUploadEnds
      <2>1. OneByOne /\ pc = "run" /\ pos = size /\ Return("ok")
            BY <1>3 DEF DownloadEnds, ReadFileEnds, ScpDownloadEnds, UploadEnds, WriteFileEnds,
                        ScpUploadEnds, OneByOne, Modes
      <2>2. dst \cup lost = 1 .. size /\ ~first
            BY <2>1, Running
      <2> QED  BY <2>1, <2>2, SucceedKeeps
  <1>4. CASE EmptyChunk \/ ScpDownloadEarly \/ LocalReadFails
      <2>1. /\ OneByOne /\ mode \in {"download", "upload", "scpDownload", "readTo", "scpUpload"}
            /\ BreakEarly
            BY <1>4 DEF EmptyChunk, ScpDownloadEarly, LocalReadFails, OneByOne, Modes
      <2>2. size \in Nat
            BY DEF CopyInv, Types
      <2> QED  BY <2>1, <2>2, PassOverKeeps DEF BreakEarly
  <1>5. CASE EndsEarly
      <2>1. pc = "early" /\ Return(IF mode = "scpUpload" THEN "failed" ELSE "ok")
            BY <1>5 DEF EndsEarly
      <2>2. CASE mode = "scpUpload"
            BY <2>1, <2>2, FailKeeps
      <2>3. CASE mode # "scpUpload"
            <3>1. dst \cup lost = 1 .. size /\ ~first
                  BY <2>1 DEF CopyInv, Placed, Phases
            <3> QED  BY <2>1, <2>3, <3>1, SucceedKeeps
      <2> QED  BY <2>2, <2>3
  <1> QED  BY <1>1, <1>2, <1>3, <1>4, <1>5 DEF Sequential

LEMMA StutterKeeps == CopyInv /\ UNCHANGED vars => GoodStep
  <1> SUFFICES ASSUME CopyInv, UNCHANGED vars PROVE GoodStep
      OBVIOUS
  <1>1. /\ dst' = dst /\ lost' = lost /\ told' = told /\ first' = first /\ outcome' = outcome
        /\ pc' = pc /\ pos' = pos /\ head' = head /\ flight' = flight
        /\ Chunk' = Chunk /\ mode' = mode /\ size' = size /\ asked' = asked
      BY DEF vars, Chunk
  <1>2. UNCHANGED C!copyVars /\ Frontier' = Frontier
      BY <1>1 DEF C!copyVars, Reported, Frontier
  <1>3. Types' /\ Placed' /\ Phases' /\ Queue'
      BY <1>1, <1>2 DEF CopyInv, Types, Placed, Phases, Queue
  <1>4. Losses' /\ SuccessMeans'
      BY <1>1 DEF CopyInv, Losses, SuccessMeans, Reported, Prefix, Gapped
  <1> QED  BY <1>2, <1>3, <1>4 DEF GoodStep, CopyInv

-----------------------------------------------------------------------------
LEMMA StepKeeps == CopyInv /\ [Next]_vars => GoodStep
  BY StartKeeps, ReadAheadKeeps, WriteBehindKeeps, SequentialKeeps, StutterKeeps
  DEF Next, Pipeline

(* The inductive invariant, for any size, chunk and depth.                  *)
THEOREM TransferInvariant == Spec => []CopyInv
  <1>1. CopyInv /\ [Next]_vars => CopyInv'
      BY StepKeeps DEF GoodStep
  <1> QED  BY InitCopy, <1>1, PTL DEF Spec

(* The pipelines of File, the SFTP algorithms and the SCP transfers deal    *)
(* with every byte in order and once, and succeed only at the end of the    *)
(* source and when no request failed.                                       *)
THEOREM TransfersImplementCopy == Spec => ImplementsCopy
  <1>1. CopyInv /\ [Next]_vars => [C!CopyNext]_(C!copyVars)
      BY StepKeeps DEF GoodStep
  <1> QED  BY InitCopy, <1>1, TransferInvariant, PTL DEF Spec, ImplementsCopy, C!CopySpec

(* What a success of each of them leaves at the destination, for any size,  *)
(* depth and chunk, a chunk_size of 0 included.                             *)
THEOREM SuccessMeansHolds == Spec => []SuccessMeans
  <1>1. CopyInv => SuccessMeans
      BY DEF CopyInv
  <1> QED  BY TransferInvariant, <1>1, PTL
=============================================================================
