----------------------------- MODULE Transfers ------------------------------
(***************************************************************************)
(* The ways this library moves a file, one of them per behaviour:          *)
(*                                                                         *)
(*   "readAhead", "writeBehind"   the SFTP pipelines of File, with several *)
(*                                requests in flight (the build with       *)
(*                                sftp_aio)                                *)
(*   "download", "upload",        the SFTP algorithms, which read and      *)
(*   "readFile", "writeFile"      write one request at a time              *)
(*   "scpDownload", "readTo",     the SCP transfers                        *)
(*   "scpUpload"                                                           *)
(*                                                                         *)
(* A byte is its position in the source.  Requests in flight are answered  *)
(* in the order they were sent: head is the position the first of them     *)
(* starts behind, pos the position behind the last.                        *)
(***************************************************************************)
EXTENDS Naturals

CONSTANTS
  MaxSize,  \* bound: the size of the source
  Chunks,   \* the chunk sizes a caller asks for, 0 among them
  Default,  \* kDefaultChunk, or the 64 KiB of the loops that take no size
  Depth     \* depth_

ASSUME TransfersAssumption ==
  MaxSize \in Nat /\ Chunks \subseteq Nat /\ Default \in Nat \ {0} /\ Depth \in Nat \ {0}

VARIABLES
  mode,     \* which of them
  asked,    \* chunk or opts.chunk_size
  size, dst, lost,   \* as in Copy
  told,     \* a call has returned an error
  first,    \* try_flush()'s first_error
  outcome,  \* what the last call returned
  pc,       \* where the transfer is
  pos,      \* bytes requested (pipelines), read (downloads) or sent (uploads)
  head,     \* pipelines: bytes answered
  flight    \* pipelines: requests in flight

vars == <<mode, asked, size, dst, lost, told, first, outcome, pc, pos, head, flight>>

Modes == {"readAhead", "writeBehind", "download", "upload", "readFile", "writeFile",
          "scpDownload", "readTo", "scpUpload"}

(* The chunk that is used: the pipelines take 0 for the default, the        *)
(* algorithms take the caller's number as it is.                            *)
Chunk ==
  IF mode \in {"download", "upload"} \/ (asked # 0 /\ mode \in {"readAhead", "writeBehind"})
  THEN asked ELSE Default

MinOf(a, b) == IF a < b THEN a ELSE b

Init ==
  /\ mode \in Modes /\ asked \in Chunks
  /\ size \in 0 .. MaxSize
  /\ dst = {} /\ lost = {} /\ told = FALSE /\ first = FALSE /\ outcome = "running"
  /\ pc = "start" /\ pos = 0 /\ head = 0 /\ flight = 0

Keep == UNCHANGED <<mode, asked, size>>
Stored(lo, hi) == dst' = dst \cup (lo + 1 .. hi)
PassedOver(lo, hi) == lost' = lost \cup (lo + 1 .. hi)
Return(r) ==
  /\ outcome' = r /\ pc' = "end" /\ told' = (told \/ r = "failed")
  /\ UNCHANGED <<dst, lost, first, pos, head, flight>> /\ Keep
GoTo(place) ==
  pc' = place /\ UNCHANGED <<dst, lost, told, first, outcome, pos, head, flight>> /\ Keep
GoOn == GoTo("run")

-----------------------------------------------------------------------------
(* ------------------------ how the transfers begin ------------------------ *)

(* ReadAhead's and WriteBehind's constructors: the File is open already.    *)
StartPipeline == mode \in {"readAhead", "writeBehind"} /\ pc = "start" /\ GoOn

(* sftp::try_download: the destination exists and must not, the remote file *)
(* or the local one cannot be opened.                                       *)
StartDownload == mode = "download" /\ pc = "start" /\ (GoOn \/ Return("failed"))
(* sftp::try_upload.                                                        *)
StartUpload == mode = "upload" /\ pc = "start" /\ (GoOn \/ Return("failed"))
(* sftp::try_read_file and try_write_file.                                  *)
StartReadFile == mode \in {"readFile", "writeFile"} /\ pc = "start" /\ (GoOn \/ Return("failed"))

(* The next step of opening an SCP transfer, which may fail.                *)
Step(modes, from, to) ==
  /\ mode \in modes /\ pc = from
  /\ GoTo(to) \/ Return("failed")

(* scp::try_download: Reader::try_init.  The caller of try_read_to has done *)
(* that before.                                                             *)
ReaderInit == Step({"scpDownload"}, "start", "next")
StartReadTo == mode = "readTo" /\ pc = "start" /\ GoTo("next")

(* Reader::try_next: what the far end offers, or nothing, or an error.      *)
Requests == [type : {"eof", "error", "new_file", "new_directory", "end_directory", "warning"},
             safe : BOOLEAN]

(* The first request must be for a file; a warning is not skipped.  Only    *)
(* try_download looks at the name.                                          *)
Wanted(r) == r.type = "new_file" /\ (mode = "scpDownload" => r.safe)
NextRequest ==
  /\ mode \in {"scpDownload", "readTo"} /\ pc = "next"
  /\ \E r \in Requests : IF Wanted(r) THEN GoTo("accept") ELSE Return("failed")

(* Reader::try_accept.                                                      *)
AcceptRequest ==
  Step({"scpDownload"}, "accept", "open") \/ Step({"readTo"}, "accept", "run")

(* scp::try_upload: the local size, Writer::try_init, try_push_file.        *)
StartScpUpload == Step({"scpUpload"}, "start", "init")
WriterInit == Step({"scpUpload"}, "init", "push")
PushFile == Step({"scpUpload"}, "push", "open")

(* Both open the local file last, when the far end already waits for it.    *)
OpenLocal == Step({"scpDownload", "scpUpload"}, "open", "run")

-----------------------------------------------------------------------------
(* ------------------------------- ReadAhead ------------------------------- *)

(* submit_one(), until depth_ requests are in flight; the last error.       *)
SubmitRead ==
  /\ mode = "readAhead" /\ pc = "run" /\ flight < Depth
  /\ \/ /\ flight' = flight + 1 /\ pos' = pos + Chunk
        /\ UNCHANGED <<dst, lost, told, first, outcome, pc, head>> /\ Keep
     \/ Return("failed")

(* The answer to the first request: n bytes, and the rest of what was asked *)
(* for is passed over, since the requests behind it were sent for fixed     *)
(* positions.                                                               *)
Answered(n) ==
  /\ Stored(head, head + n)
  /\ PassedOver(head + n, MinOf(head + Chunk, size))
  /\ head' = head + Chunk /\ flight' = flight - 1
  /\ UNCHANGED <<told, first, pos>> /\ Keep

(* Fault: a request that comes back short is taken for the end of file.     *)
WaitReadShortIsEnd ==
  /\ mode = "readAhead" /\ pc = "run" /\ flight = Depth
  /\ \/ /\ head < size
        /\ \E n \in 1 .. MinOf(Chunk, size - head) :
             /\ Answered(n)
             /\ pc' = (IF n < Chunk THEN "early" ELSE pc) /\ UNCHANGED outcome
     \/ head >= size /\ Return("ok")
     \/ Return("failed")

(* The rest of try_next(): only an empty answer is the end of the file.     *)
WaitRead ==
  /\ mode = "readAhead" /\ pc = "run" /\ flight = Depth
  /\ \/ /\ head < size
        /\ \E n \in 1 .. MinOf(Chunk, size - head) : Answered(n)
        /\ UNCHANGED <<outcome, pc>>
     \/ head >= size /\ Return("ok")
     \/ Return("failed")

-----------------------------------------------------------------------------
(* ------------------------------ WriteBehind ------------------------------ *)

(* try_write(): sftp_aio_begin_write() while fewer than depth_ requests are *)
(* in flight; its error is returned, and the caller gives up.               *)
SubmitWrite ==
  /\ mode = "writeBehind" /\ pc = "run" /\ pos < size /\ flight < Depth
  /\ \/ /\ flight' = flight + 1 /\ pos' = MinOf(pos + Chunk, size)
        /\ UNCHANGED <<dst, lost, told, first, outcome, pc, head>> /\ Keep
     \/ /\ told' = TRUE /\ pc' = "flush"
        /\ UNCHANGED <<dst, lost, first, outcome, pos, head, flight>> /\ Keep

(* drain_one(): the server has written the chunk, or reports an error.      *)
DrainOne(fails) ==
  /\ flight > 0 /\ flight' = flight - 1
  /\ head' = MinOf(head + Chunk, size)
  /\ IF fails THEN UNCHANGED dst ELSE Stored(head, head')
  /\ UNCHANGED <<lost, outcome, pos>> /\ Keep

(* try_write() makes room: an error is returned, and the caller gives up.   *)
MakeRoom ==
  /\ mode = "writeBehind" /\ pc = "run" /\ pos < size /\ flight = Depth
  /\ \E fails \in BOOLEAN :
       /\ DrainOne(fails) /\ told' = fails
       /\ pc' = IF fails THEN "flush" ELSE "run"
  /\ UNCHANGED first

(* The caller is done and calls try_flush(), or the destructor does.        *)
BeginFlush == mode = "writeBehind" /\ pc = "run" /\ pos = size /\ GoTo("flush")

FlushOne ==
  /\ \E fails \in BOOLEAN : DrainOne(fails) /\ first' = (first \/ fails)
  /\ UNCHANGED <<told, pc>>

(* Fault: after an error try_flush() leaves the request in inflight_, and   *)
(* waits for it for ever.                                                   *)
FlushStops == mode = "writeBehind" /\ pc = "flush" /\ ~first /\ FlushOne

(* try_flush(): goes on after an error.                                     *)
Flush == mode = "writeBehind" /\ pc = "flush" /\ FlushOne

(* It returns the first error of its own; what try_write() has returned     *)
(* before is not returned again.                                            *)
Flushed ==
  /\ mode = "writeBehind" /\ pc = "flush" /\ flight = 0
  /\ Return(IF first THEN "failed" ELSE "ok")

-----------------------------------------------------------------------------
(* ------------------------- one request at a time ------------------------- *)

(* A chunk is read and kept; std::ofstream does not say when it could not   *)
(* be written, and takes nothing from then on.  The progress callback may   *)
(* cancel the transfer.                                                     *)
ChunkIn ==
  \/ /\ pc = "run" /\ pos < size
     /\ \E n \in 1 .. MinOf(Chunk, size - pos) :
          /\ pos' = pos + n
          /\ \/ lost = {} /\ Stored(pos, pos') /\ UNCHANGED lost
             \/ mode # "readFile" /\ PassedOver(pos, pos') /\ UNCHANGED dst
     /\ UNCHANGED <<told, first, outcome, pc, head, flight>> /\ Keep
  \/ pc = "run" /\ Return("failed")

(* The loop ends before the source does, and no error says so: a chunk of 0 *)
(* bytes was asked for, or what feeds it has come to an end.                *)
BreakEarly ==
  /\ pc = "run" /\ pos < size
  /\ PassedOver(pos, size) /\ pc' = "early"
  /\ UNCHANGED <<dst, told, first, outcome, pos, head, flight>> /\ Keep

(* try_download and try_upload with opts.chunk_size = 0: the first read is  *)
(* empty.                                                                   *)
EmptyChunk == mode \in {"download", "upload"} /\ asked = 0 /\ BreakEarly
(* The SCP source sends 0 bytes before its announced size.                  *)
ScpDownloadEarly == mode \in {"scpDownload", "readTo"} /\ BreakEarly
(* A local read error looks like the end of the file.                       *)
LocalReadFails == mode \in {"upload", "scpUpload"} /\ BreakEarly

(* Fault: try_write_from() does not compare what it has sent with size.     *)
EndsEarlyUnchecked == pc = "early" /\ Return("ok")

(* What came so far is a success, but for Writer::try_write_from.           *)
EndsEarly == pc = "early" /\ Return(IF mode = "scpUpload" THEN "failed" ELSE "ok")

(* sftp::try_download: until the server reports the end of the file.        *)
DownloadChunk == mode = "download" /\ ChunkIn
DownloadEnds == mode = "download" /\ pc = "run" /\ pos = size /\ Return("ok")
(* sftp::try_read_file: an error too when the limit is passed.              *)
ReadFileChunk == mode = "readFile" /\ ChunkIn
ReadFileEnds == mode = "readFile" /\ pc = "run" /\ pos = size /\ Return("ok")

(* scp::try_download and Reader::try_read_to: until the announced size.     *)
ScpDownloadChunk == mode = "scpDownload" /\ ChunkIn
ReadToChunk == mode = "readTo" /\ ChunkIn
ScpDownloadEnds == mode \in {"scpDownload", "readTo"} /\ pc = "run" /\ pos = size /\ Return("ok")

(* A chunk of the local file is written, by File::try_write_all in as many  *)
(* requests as it takes; a request that writes nothing is an error.         *)
ChunkOut ==
  \/ /\ pc = "run" /\ pos < size /\ Chunk # 0
     /\ pos' = MinOf(pos + Chunk, size) /\ Stored(pos, pos')
     /\ UNCHANGED <<lost, told, first, outcome, pc, head, flight>> /\ Keep
  \/ pc = "run" /\ Return("failed")

(* sftp::try_upload: ends with the local file, whatever its size was.       *)
UploadChunk == mode = "upload" /\ ChunkOut
UploadEnds == mode = "upload" /\ pc = "run" /\ pos = size /\ Return("ok")
(* sftp::try_write_file: one try_write_all.                                 *)
WriteFileChunk == mode = "writeFile" /\ ChunkOut
WriteFileEnds == mode = "writeFile" /\ pc = "run" /\ pos = size /\ Return("ok")
(* Writer::try_write_from.                                                  *)
ScpUploadChunk == mode = "scpUpload" /\ ChunkOut
ScpUploadEnds == mode = "scpUpload" /\ pc = "run" /\ pos = size /\ Return("ok")

-----------------------------------------------------------------------------
Start ==
  \/ StartPipeline \/ StartDownload \/ StartUpload \/ StartReadFile
  \/ ReaderInit \/ StartReadTo \/ NextRequest \/ AcceptRequest
  \/ StartScpUpload \/ WriterInit \/ PushFile \/ OpenLocal
Pipeline ==
  \/ SubmitRead \/ WaitRead \/ SubmitWrite \/ MakeRoom \/ BeginFlush \/ Flush \/ Flushed
Sequential ==
  \/ DownloadChunk \/ DownloadEnds \/ ReadFileChunk \/ ReadFileEnds
  \/ ScpDownloadChunk \/ ReadToChunk \/ ScpDownloadEnds
  \/ EmptyChunk \/ ScpDownloadEarly \/ LocalReadFails \/ EndsEarly
  \/ UploadChunk \/ UploadEnds \/ WriteFileChunk \/ WriteFileEnds
  \/ ScpUploadChunk \/ ScpUploadEnds

Next == Start \/ Pipeline \/ Sequential

Spec == Init /\ [][Next]_vars
FairSpec == Spec /\ WF_vars(Next)

-----------------------------------------------------------------------------
(* What the calls of a transfer have reported together.                     *)
Reported == IF outcome # "running" /\ told THEN "failed" ELSE outcome

(* Every transfer keeps the promise of Copy: it deals with every byte, in   *)
(* order and once, with several requests in flight as with one, and reports *)
(* success only at the end of the source and when no request failed (the    *)
(* failures of requests still in flight when try_write() returns an error   *)
(* included).                                                               *)
C == INSTANCE Copy WITH
       size <- size, dst <- dst, lost <- lost, error <- told \/ first, outcome <- Reported
ImplementsCopy == C!CopySpec

(* What a success leaves at the destination, whatever the environment did.  *)
(* WriteBehind, try_read_file, try_write_file and scp::try_upload: the      *)
(* whole file.  ReadAhead: of every request at least its first byte; a      *)
(* server that answers short leaves gaps, each shorter than a chunk, in     *)
(* what file.hpp:69 calls contiguous.  The other transfers: a prefix, and   *)
(* nothing behind it; a full disk, a local read error, an SCP source that   *)
(* ends early and chunk_size = 0 all shorten it without an error.           *)
WholeModes == {"writeBehind", "readFile", "writeFile", "scpUpload"}
Prefix == \E m \in 0 .. size : dst = 1 .. m
Gapped == \A b \in (1 .. size) \ dst : \E a \in dst : a < b /\ b < a + Chunk
SuccessMeans ==
  Reported = "ok" =>
    /\ mode \in WholeModes => dst = 1 .. size
    /\ mode = "readAhead" => Gapped
    /\ mode # "readAhead" => Prefix

(* Every transfer ends: the pipelines do not wait for a request that is not *)
(* in flight, and no loop stops making progress before the end.             *)
TransferEnds == <>(outcome # "running")
=============================================================================
