------------------------------ MODULE Programs ------------------------------
(***************************************************************************)
(* The two programs this library runs on a session channel, Exec::try_run  *)
(* and Shell::try_start with Shell::try_interact, over the operations of   *)
(* Channel, against a remote process, a connection that may be lost, a     *)
(* clock and a terminal.                                                   *)
(*                                                                         *)
(* Bytes are counted.  A channel direction holds at most a window of bytes *)
(* that were not read yet: Window for the output of the process, both      *)
(* streams together, InWindow for its input.                               *)
(***************************************************************************)
EXTENDS Naturals, Sequences

CONSTANTS
  StdinLen,   \* bytes of stdin_data_ when it is set
  Window,     \* bytes of output libssh takes before the client reads
  InWindow,   \* bytes of input the server takes before the process reads
  Chunk,      \* the 16384 bytes of one read
  MaxOutput,  \* Exec::max_output_
  MaxBytes,   \* bound: bytes the process of an Exec writes to each stream by itself
  MaxShown,   \* bound: bytes the process of a Shell writes, both streams together
  MaxKeys,    \* bound: keys typed
  Sizes       \* terminal sizes

ASSUME ProgramsAssumption ==
  /\ StdinLen \in Nat /\ MaxBytes \in Nat /\ MaxShown \in Nat /\ MaxKeys \in Nat
  /\ Window \in Nat \ {0} /\ InWindow \in Nat \ {0}
  /\ Chunk \in Nat \ {0} /\ MaxOutput \in Nat \ {0} /\ Sizes # {}

VARIABLES
  conf,    \* the options of the call
  pc,      \* where the program is
  result,  \* what it returned
  link,    \* the connection is up
  late,    \* the deadline has passed
  stdin,   \* bytes of stdin_data_ not written yet
  remote,  \* the process: input not read, output owed for it, EOF, status, close
  wrote,   \* wrote[s]: bytes the process has written to stream s
  buf,     \* buf[s]: bytes libssh holds for the client
  kept,    \* kept[s]: bytes of s in the result (or given to the sink, or shown)
  cut,     \* cut[s]: stdout_truncated, stderr_truncated
  moved,   \* progressed
  term,    \* terminal: raw mode, SIGWINCH action and flag, its size and the pty's
  keys     \* at_line_start, escape_seen, what was typed and where it is

chan == <<link, remote, wrote, buf>>
vars == <<conf, pc, result, link, late, stdin, remote, wrote, buf, kept, cut, moved, term, keys>>

Streams == {"out", "err"}
Zero == [s \in Streams |-> 0]
Keys == {"escape", "dot", "newline", "letter"}

Configurations ==
  {c \in [program : {"exec", "shell"}, stdin : BOOLEAN, merge : BOOLEAN, sink : BOOLEAN,
          timeout : BOOLEAN, escape : BOOLEAN] :
     IF c.program = "exec" THEN ~c.escape ELSE ~(c.stdin \/ c.merge \/ c.sink \/ c.timeout)}

(* A Shell's pty is asked for with Options::size, whatever the terminal's   *)
(* is; an Exec does not look at the terminal.                               *)
SizesAtStart == IF conf.program = "shell" THEN Sizes ELSE {CHOOSE z \in Sizes : TRUE}

Init ==
  /\ conf \in Configurations
  /\ pc = "open" /\ result = "none"
  /\ link = TRUE /\ late = FALSE /\ moved = FALSE
  /\ stdin = IF conf.stdin THEN StdinLen ELSE 0
  /\ remote = [up |-> FALSE, input |-> 0, inEof |-> FALSE, owes |-> 0, eof |-> FALSE,
               status |-> FALSE, closed |-> FALSE]
  /\ wrote = Zero /\ buf = Zero /\ kept = Zero
  /\ cut = [s \in Streams |-> FALSE]
  /\ \E z, w \in SizesAtStart :
       term = [raw |-> FALSE, handler |-> FALSE, flag |-> FALSE, caught |-> FALSE,
               size |-> z, asked |-> w, pty |-> w, refused |-> FALSE]
  /\ keys = [lineStart |-> TRUE, escape |-> FALSE,
             typed |-> <<>>, sent |-> <<>>, lost |-> <<>>, out |-> <<>>]

-----------------------------------------------------------------------------
(* ------------------- the process, the network, the user ------------------ *)

(* libssh reports EOF once everything before it was read.                   *)
IsEof == remote.eof /\ buf = Zero

Running == remote.up /\ link /\ ~remote.eof
Arrives(s) ==
  /\ buf["out"] + buf["err"] < Window
  /\ buf' = [buf EXCEPT ![s] = @ + 1] /\ wrote' = [wrote EXCEPT ![s] = @ + 1]
RemoteOnly == UNCHANGED <<conf, pc, result, late, stdin, kept, cut, moved, term, keys>>

(* The process of an Exec is a filter, which answers what it reads before   *)
(* it reads on; that of a Shell may write at any time.                      *)
RemoteReads ==
  /\ Running /\ remote.input > 0 /\ remote.owes = 0
  /\ remote' = [remote EXCEPT !.input = @ - 1, !.owes = IF conf.program = "exec" THEN 1 ELSE 0]
  /\ UNCHANGED <<link, wrote, buf>> /\ RemoteOnly
RemoteAnswers ==
  /\ Running /\ remote.owes = 1 /\ Arrives("out")
  /\ remote' = [remote EXCEPT !.owes = 0]
  /\ UNCHANGED link /\ RemoteOnly
RemoteWrites(s) ==
  /\ Running
  /\ IF conf.program = "exec" THEN wrote[s] < MaxBytes ELSE wrote["out"] + wrote["err"] < MaxShown
  /\ Arrives(s)
  /\ UNCHANGED <<link, remote>> /\ RemoteOnly
(* It ends when its input has ended, or by itself; its status comes before  *)
(* or after EOF, or never, and the close comes last.                        *)
RemoteEnds ==
  /\ Running /\ remote.owes = 0
  /\ \E st \in BOOLEAN : remote' = [remote EXCEPT !.eof = TRUE, !.status = st]
  /\ UNCHANGED <<link, wrote, buf>> /\ RemoteOnly
RemoteCloses ==
  /\ remote.up /\ link /\ remote.eof /\ ~remote.closed
  /\ \E st \in {remote.status, TRUE} : remote' = [remote EXCEPT !.closed = TRUE, !.status = st]
  /\ UNCHANGED <<link, wrote, buf>> /\ RemoteOnly
ConnectionLost ==
  /\ link /\ link' = FALSE
  /\ UNCHANGED <<remote, wrote, buf>> /\ RemoteOnly
DeadlinePasses ==
  /\ pc \in {"out", "err", "check", "exit"}
  /\ conf.timeout /\ ~late /\ late' = TRUE
  /\ UNCHANGED <<conf, pc, result, chan, stdin, kept, cut, moved, term, keys>>

-----------------------------------------------------------------------------
(* ------------------------------- Channel -------------------------------- *)

Return(r) == pc' = "done" /\ result' = r

(* The steps of Exec::try_run() before its loop, and of Shell::try_start(). *)
ExecSteps == [open |-> "env", env |-> "pty", pty |-> "exec", exec |-> "stdin"]
ShellSteps == [open |-> "pty", pty |-> "env", env |-> "shell", shell |-> "raw"]
Follows == IF conf.program = "exec" THEN ExecSteps ELSE ShellSteps

(* Channel::try_open_session.                                               *)
OpenChannel ==
  /\ pc = "open"
  /\ \/ link /\ pc' = Follows[pc] /\ UNCHANGED result
     \/ Return("error")
  /\ UNCHANGED <<conf, chan, late, stdin, kept, cut, moved, term, keys>>

(* try_request_env: servers commonly refuse it, and its result is ignored.  *)
RequestEnv ==
  /\ pc = "env" /\ pc' = Follows[pc]
  /\ UNCHANGED <<conf, result, chan, late, stdin, kept, cut, moved, term, keys>>

(* try_request_pty, when one is asked for.                                  *)
RequestPty ==
  /\ pc = "pty"
  /\ (pc' = Follows[pc] /\ UNCHANGED result) \/ Return("error")
  /\ UNCHANGED <<conf, chan, late, stdin, kept, cut, moved, term, keys>>

(* The request that starts the process: refused by the server, or failed.   *)
StartProcess ==
  /\ \/ /\ link /\ remote' = [remote EXCEPT !.up = TRUE]
        /\ pc' = Follows[pc] /\ UNCHANGED result
     \/ Return("error") /\ UNCHANGED remote
  /\ UNCHANGED <<conf, link, wrote, buf, late, stdin, kept, cut, moved, term, keys>>
(* Channel::try_request_exec, Channel::try_request_shell.                   *)
RequestExec == pc = "exec" /\ StartProcess
RequestShell == pc = "shell" /\ StartProcess

(* When ssh_channel_write() goes on.                                        *)
WindowOpen == link /\ ~remote.closed /\ remote.input < InWindow

(* One turn of try_write_all() with stdin_data_; ssh_channel_write() waits  *)
(* for the window.                                                          *)
WriteStdin ==
  /\ pc = "stdin"
  /\ \/ /\ stdin = 0 /\ pc' = "eof" /\ UNCHANGED <<result, stdin, remote>>
     \/ /\ stdin > 0 /\ WindowOpen
        /\ stdin' = stdin - 1 /\ remote' = [remote EXCEPT !.input = @ + 1]
        /\ UNCHANGED <<pc, result>>
     \/ /\ stdin > 0 /\ (~link \/ remote.closed)
        /\ Return("error") /\ UNCHANGED <<stdin, remote>>
  /\ UNCHANGED <<conf, link, wrote, buf, late, kept, cut, moved, term, keys>>

(* Channel::try_send_eof; its result is ignored.                            *)
SendEof ==
  /\ pc = "eof" /\ pc' = "out"
  /\ remote' = [remote EXCEPT !.inEof = link]
  /\ UNCHANGED <<conf, result, link, wrote, buf, late, stdin, kept, cut, moved, term, keys>>

-----------------------------------------------------------------------------
(* --------------------------------- Exec --------------------------------- *)

(* The result string that stream s goes to, and its length.                 *)
Dest(s) == IF conf.merge THEN "out" ELSE s
Length(d) == IF conf.merge THEN kept["out"] + kept["err"] ELSE kept[d]

(* The sink gets every chunk; a result string takes whole chunks while it   *)
(* is shorter than max_output_, and is then marked as truncated.            *)
Collect(s, n) ==
  IF conf.sink \/ Length(Dest(s)) < MaxOutput
  THEN kept' = [kept EXCEPT ![s] = @ + n] /\ UNCHANGED cut
  ELSE UNCHANGED kept /\ cut' = [cut EXCEPT ![Dest(s)] = TRUE]

(* Channel::try_bytes_available, and what try_read_some() then returns.     *)
Available(s) == buf[s]
ReadLength(s) == IF buf[s] < Chunk THEN buf[s] ELSE Chunk

ReadStream(s, then) ==
  \/ /\ Available(s) = 0
     /\ pc' = then /\ moved' = (moved /\ s = "err")
     /\ UNCHANGED <<result, buf, kept, cut>>
  \/ /\ Available(s) > 0
     /\ buf' = [buf EXCEPT ![s] = @ - ReadLength(s)] /\ Collect(s, ReadLength(s))
     /\ pc' = then /\ moved' = TRUE /\ UNCHANGED result
  \/ /\ Available(s) > 0 /\ ~link
     /\ Return("error") /\ UNCHANGED <<moved, buf, kept, cut>>

(* The top of the loop of try_run: try_bytes_available and try_read_some of *)
(* stdout, then of stderr.                                                  *)
ReadOut ==
  /\ pc = "out" /\ ReadStream("out", "err")
  /\ UNCHANGED <<conf, link, remote, wrote, late, stdin, term, keys>>
ReadErr ==
  /\ pc = "err" /\ ReadStream("err", "check")
  /\ UNCHANGED <<conf, link, remote, wrote, late, stdin, term, keys>>

(* Fault: the loop ends at EOF without a look at what is still buffered.    *)
CheckEofOnly ==
  /\ pc = "check"
  /\ \/ remote.eof /\ pc' = "exit" /\ UNCHANGED result
     \/ ~remote.eof /\ conf.timeout /\ late /\ Return("timed_out")
     \/ ~remote.eof /\ ~(conf.timeout /\ late) /\ pc' = "out" /\ UNCHANGED result
  /\ UNCHANGED <<conf, chan, late, stdin, kept, cut, moved, term, keys>>


(* The bottom of the loop: at EOF with nothing read in this turn it ends;   *)
(* else it waits up to 50 ms and looks at the deadline.                     *)
Check ==
  /\ pc = "check"
  /\ \/ IsEof /\ ~moved /\ pc' = "exit" /\ UNCHANGED result
     \/ ~(IsEof /\ ~moved) /\ conf.timeout /\ late /\ Return("timed_out")
     \/ ~(IsEof /\ ~moved) /\ ~(conf.timeout /\ late) /\ pc' = "out" /\ UNCHANGED result
  /\ UNCHANGED <<conf, chan, late, stdin, kept, cut, moved, term, keys>>

(* libssh's exit state waits for the status, the close, or the loss of the  *)
(* connection.                                                              *)
ExitState == remote.status \/ remote.closed \/ ~link

(* try_wait_exit() at EOF asks for the exit state; then try_close().        *)
WaitExit ==
  /\ pc = "exit"
  /\ ExitState
  /\ Return("ok")
  /\ UNCHANGED <<conf, chan, late, stdin, kept, cut, moved, term, keys>>

-----------------------------------------------------------------------------
(* --------------------------------- Shell -------------------------------- *)

ShellOnly == UNCHANGED <<conf, late, stdin, cut, moved>>

(* The RawMode constructor, and sigaction(SIGWINCH).                        *)
EnterRaw ==
  /\ pc = "raw" /\ pc' = "reset"
  /\ term' = [term EXCEPT !.raw = TRUE, !.handler = TRUE]
  /\ UNCHANGED <<result, chan, kept, keys>> /\ ShellOnly

(* g_shell_sigwinch_received.store(false), after the handler is installed:  *)
(* a signal that came in between is forgotten.                              *)
ResetFlag ==
  /\ pc = "reset" /\ pc' = "loop"
  /\ term' = [term EXCEPT !.flag = FALSE, !.caught = FALSE]
  /\ UNCHANGED <<result, chan, kept, keys>> /\ ShellOnly

(* The user changes the terminal's size, and on_sigwinch() runs if it is    *)
(* installed; caught: since the flag was cleared.                           *)
WindowChanges(z) ==
  /\ z # term.size /\ pc # "done"
  /\ term' = [term EXCEPT !.size = z, !.flag = @ \/ term.handler, !.caught = @ \/ term.handler]
  /\ UNCHANGED <<pc, result, chan, kept, keys>> /\ ShellOnly

Interacting == link /\ ~IsEof /\ ~remote.closed

(* The loop's condition, and exchange(false).                               *)
LoopTop ==
  /\ pc = "loop"
  /\ IF Interacting
     THEN /\ pc' = IF term.flag THEN "ioctl" ELSE "show"
          /\ term' = [term EXCEPT !.flag = FALSE]
     ELSE pc' = "restore" /\ UNCHANGED term
  /\ UNCHANGED <<result, chan, kept, keys>> /\ ShellOnly

(* current_terminal_size().                                                 *)
ReadSize ==
  /\ pc = "ioctl" /\ pc' = "resize"
  /\ term' = [term EXCEPT !.asked = term.size]
  /\ UNCHANGED <<result, chan, kept, keys>> /\ ShellOnly

(* Fault: the flag is cleared when the resize was sent, not before the size *)
(* is read.                                                                 *)
TryResizeClears ==
  /\ pc = "resize" /\ pc' = "show"
  /\ term' = [term EXCEPT !.pty = term.asked, !.refused = FALSE, !.flag = FALSE]
  /\ UNCHANGED <<result, chan, kept, keys>> /\ ShellOnly

(* Channel::try_change_pty_size: sent, or failed; its argument is gone.     *)
ChangePtySize(t, sent) == IF sent THEN [t EXCEPT !.pty = t.asked, !.refused = FALSE]
                          ELSE [t EXCEPT !.asked = t.pty, !.refused = TRUE]
(* Shell::try_resize, whose result is ignored and which is not repeated.    *)
TryResize ==
  /\ pc = "resize" /\ pc' = "show"
  /\ \E sent \in BOOLEAN : (sent => link /\ ~remote.closed) /\ term' = ChangePtySize(term, sent)
  /\ UNCHANGED <<result, chan, kept, keys>> /\ ShellOnly

(* What the process wrote is read and shown, up to a chunk of each stream.  *)
Show ==
  /\ pc = "show" /\ pc' = "keys"
  /\ buf' = [s \in Streams |-> buf[s] - ReadLength(s)]
  /\ kept' = [s \in Streams |-> kept[s] + ReadLength(s)]
  /\ UNCHANGED <<result, link, remote, wrote, term, keys>> /\ ShellOnly

(* No key: the next turn.  The end of local input leaves the loop.          *)
NoKey ==
  /\ pc = "keys" /\ pc' = "loop"
  /\ UNCHANGED <<result, chan, kept, term, keys>> /\ ShellOnly
StdinEnds ==
  /\ pc = "keys" /\ pc' = "restore"
  /\ UNCHANGED <<result, chan, kept, term, keys>> /\ ShellOnly

(* Fault: an escape that was not followed by a dot is not forwarded.        *)
ForwardDropsEscape(c) == <<c>>
(* The bytes to write for a key: a held-back escape goes first.             *)
Forward(c) == IF keys.escape THEN <<"escape", c>> ELSE <<c>>

(* A key: the escape at the start of a line is held back, escape and dot    *)
(* detach, and an escape before anything else is forwarded with it.         *)
Key(c) ==
  /\ pc = "keys" /\ Len(keys.typed) < MaxKeys
  /\ LET typed == Append(keys.typed, c) IN
       \/ /\ conf.escape /\ keys.lineStart /\ c = "escape"
          /\ keys' = [keys EXCEPT !.typed = typed, !.escape = TRUE, !.lineStart = FALSE]
          /\ pc' = "loop" /\ UNCHANGED result
       \/ /\ conf.escape /\ ~keys.lineStart /\ keys.escape /\ c = "dot"
          /\ keys' = [keys EXCEPT !.typed = typed, !.escape = FALSE]
          /\ pc' = "restore" /\ result' = "detached"
       \/ /\ ~(conf.escape /\ keys.lineStart /\ c = "escape")
          /\ ~(conf.escape /\ keys.escape /\ c = "dot")
          /\ keys' = [keys EXCEPT !.typed = typed, !.escape = FALSE,
                                  !.lineStart = (c = "newline"), !.out = Forward(c)]
          /\ pc' = "write" /\ UNCHANGED result
  /\ UNCHANGED <<chan, kept, term>> /\ ShellOnly

(* try_write_all() of the next byte: it waits for the window, and a byte    *)
(* that could not be written is forgotten, for the result is ignored.       *)
WriteKey ==
  /\ pc = "write" /\ pc' = IF Tail(keys.out) = <<>> THEN "loop" ELSE "write"
  /\ \/ /\ WindowOpen
        /\ keys' = [keys EXCEPT !.sent = Append(@, Head(keys.out)), !.out = Tail(@)]
        /\ remote' = [remote EXCEPT !.input = @ + 1]
     \/ /\ ~link \/ remote.closed
        /\ keys' = [keys EXCEPT !.lost = Append(@, Head(keys.out)), !.out = Tail(@)]
        /\ UNCHANGED remote
  /\ UNCHANGED <<result, link, wrote, buf, kept, term>> /\ ShellOnly

(* sigaction() gives the old action back; a detached call returns.          *)
Restore ==
  /\ pc = "restore"
  /\ IF result = "detached"
     THEN pc' = "done" /\ term' = [term EXCEPT !.handler = FALSE, !.raw = FALSE]
     ELSE pc' = "drain" /\ term' = [term EXCEPT !.handler = FALSE]
  /\ UNCHANGED <<result, chan, kept, keys>> /\ ShellOnly

(* try_wait_exit(): both streams are read and thrown away until EOF or the  *)
(* close; then the exit state, and ~RawMode.                                *)
Drain ==
  /\ pc = "drain"
  /\ IF IsEof \/ remote.closed \/ ~link
     THEN ExitState /\ Return("ok") /\ term' = [term EXCEPT !.raw = FALSE] /\ UNCHANGED buf
     ELSE buf # Zero /\ buf' = Zero /\ UNCHANGED <<pc, result, term>>
  /\ UNCHANGED <<link, remote, wrote, kept, keys>> /\ ShellOnly

-----------------------------------------------------------------------------
Done == pc = "done" /\ UNCHANGED vars

(* The requests that wait for the server's answer, and the other steps.     *)
RequestStep == OpenChannel \/ RequestEnv \/ RequestPty \/ RequestExec \/ RequestShell
LocalStep ==
  \/ WriteStdin \/ SendEof \/ ReadOut \/ ReadErr \/ Check \/ WaitExit
  \/ EnterRaw \/ ResetFlag \/ LoopTop \/ ReadSize \/ TryResize \/ Show \/ NoKey
  \/ WriteKey \/ Restore \/ Drain
Remote ==
  \/ RemoteReads \/ RemoteAnswers \/ RemoteEnds \/ RemoteCloses
  \/ \E s \in Streams : RemoteWrites(s)
User ==
  \/ StdinEnds \/ \E c \in Keys : Key(c)
  \/ conf.program = "shell" /\ \E z \in Sizes : WindowChanges(z)

Next == RequestStep \/ LocalStep \/ Remote \/ User \/ ConnectionLost \/ DeadlinePasses \/ Done

(* The program runs and time passes.  Nothing is asked of the server, the   *)
(* process, the connection or the user.                                     *)
Spec == Init /\ [][Next]_vars /\ WF_vars(LocalStep) /\ WF_vars(DeadlinePasses)

-----------------------------------------------------------------------------
(* Exec::try_run: a result that is returned has every byte the process      *)
(* wrote before EOF, on both streams, except of a stream that is marked as  *)
(* truncated (with merge_stderr the mark of stdout stands for both).  A     *)
(* mark tells the truth: something is missing, at least max_output_ bytes   *)
(* were kept, and never a whole chunk more.                                 *)
OutputExact ==
  conf.program = "exec" =>
    /\ result = "ok" => \A s \in Streams : kept[s] # wrote[s] => cut[Dest(s)]
    /\ \A s \in Streams : cut[s] => Length(s) >= MaxOutput
    /\ ~conf.sink => \A s \in Streams : Length(Dest(s)) < MaxOutput + Chunk
    /\ (\A s \in Streams : kept[s] + buf[s] = wrote[s]) => \A s \in Streams : ~cut[s]

(* What was typed is what was sent, in order, followed by what was lost,    *)
(* the bytes being written, the escape that is held back and the sequence   *)
(* that detaches; and a key is lost only when the connection or the channel *)
(* was gone by the time it was written.                                     *)
KeysForwarded ==
  /\ keys.typed = keys.sent \o keys.lost \o keys.out
                   \o (IF keys.escape THEN <<"escape">> ELSE <<>>)
                   \o (IF result = "detached" THEN <<"escape", "dot">> ELSE <<>>)
  /\ keys.lost # <<>> => ~link \/ remote.closed

(* No change of the window's size that comes while the loop runs is         *)
(* forgotten: the flag is set, the size is about to be read or has been     *)
(* read, the remote pty has it, or the last attempt to send it failed.  It  *)
(* says nothing of the size the terminal had when the call began, nor of a  *)
(* change between sigaction() and store(false).                             *)
ResizePending ==
  pc \in {"loop", "ioctl", "resize", "show", "keys", "write"} /\ term.caught =>
    \/ term.flag \/ pc = "ioctl"
    \/ pc = "resize" /\ term.asked = term.size
    \/ pc # "resize" /\ (term.pty = term.size \/ term.refused)

(* Where try_run() can stay for ever: at a request the server does not      *)
(* answer; writing stdin to a process that does not read, which may itself  *)
(* wait for its output to be read; in the loop, without a timeout, until    *)
(* EOF; and waiting for an exit state that does not come.                   *)
Unanswered == pc \in {"open", "env", "pty", "exec"}
StdinHeld == pc = "stdin" /\ stdin > 0 /\ link /\ ~remote.closed /\ remote.input = InWindow
Endless == pc \in {"out", "err", "check"} /\ ~conf.timeout /\ ~remote.eof
ExitHeld == pc = "exit" /\ ~ExitState

=============================================================================
