--------------------------- MODULE ServerRequests ---------------------------
(***************************************************************************)
(* What a server::Session does with the requests of its client, in both    *)
(* styles.                                                                 *)
(*                                                                         *)
(*  - Callback style: try_set_handler() installs a HandlerBridge, whose    *)
(*    trampolines ask a SimpleAuthHandler for authentication and, per      *)
(*    channel, the TestServer's channel handler with its CommandHandler.   *)
(*    The SimpleAuthHandler may serve several sessions, one after the      *)
(*    other.                                                               *)
(*  - Message style: try_next_message() hands out Message objects that the *)
(*    program moves, replies to and destroys.                              *)
(*                                                                         *)
(* The program keeps two rules of the documentation: it replies to a       *)
(* message at most once itself (message.hpp: exactly one reply), and it    *)
(* does not move a Session that a bridge or a Message points to.           *)
(***************************************************************************)
EXTENDS Naturals, FiniteSets

CONSTANTS
  Users,
  Nobody,
  EntryTables,  \* tables a program sets up with the allow_...() calls
  Knowledge,    \* what a client may know: pairs of a user and a credential
  MaxAttempts,  \* SimpleAuthHandler::max_attempts_
  MaxSessions,  \* bound: sessions served with one handler
  Messages,     \* libssh's ssh_message objects
  Objects,      \* Message objects of the program
  Nil,
  Channels,
  MaxData,      \* bound: data packets on a channel
  MaxExecs      \* bound: exec requests on a channel

(* What an entry of SimpleAuthHandler can allow.                            *)
Credentials == {"none", "password", "key"}

ASSUME RequestsAssumption ==
  /\ MaxAttempts \in Nat \ {0} /\ MaxSessions \in Nat \ {0} /\ MaxData \in Nat
  /\ MaxExecs \in Nat
  /\ EntryTables \subseteq [Users -> SUBSET Credentials]
  /\ Knowledge \subseteq SUBSET (Users \X {"password", "key"})
  /\ Nobody \notin Users /\ Nil \notin Messages \cup Objects

VARIABLES
  entries,   \* entries[u]: what allow_password, allow_public_key, allow_none gave u
  knows,     \* the credentials the client has: pairs of a user and a method
  attempts,  \* SimpleAuthHandler::attempts_
  sessions,  \* sessions begun so far
  bridge,    \* Session::bridge_ is set
  used,      \* Session::used_message_style_
  auth,      \* Session::authenticated_ and user_: a user or Nobody
  granted,   \* the user libssh has told the client it is
  obj,       \* obj[o]: a Message object, its native_ and replied_
  kinds,     \* kinds[m]: what the client asked with the message
  replies,   \* replies[m]: replies given to libssh for the message
  heard,     \* the messages whose reply libssh could send
  freed,     \* messages that were freed
  chan       \* chan[c]: a channel and its handler

authVars == <<entries, knows, attempts, sessions>>
sessionVars == <<bridge, used, auth, granted>>
messageVars == <<obj, kinds, replies, heard, freed>>
vars == <<authVars, sessionVars, messageVars, chan>>

Asked == {"auth", "probe", "open", "other"}
Empty == [native |-> Nil, replied |-> TRUE]

(* A channel with no CommandHandler yet.  The rest is what happened on it:  *)
(* client and after are the packets the client sent, in all and since its   *)
(* last exec request; ended, an EOF since that request; execs, the requests *)
(* accepted; runs, the times a runner was called; threw, those that threw;  *)
(* exits, the exit statuses sent with EOF behind them.                      *)
NoChannel == [open |-> FALSE, command |-> FALSE, ran |-> FALSE, input |-> 0, client |-> 0,
              after |-> 0, ended |-> FALSE, execs |-> 0, runs |-> 0, threw |-> 0, exits |-> 0,
              callbacks |-> TRUE]

ChannelStates ==
  [open : BOOLEAN, command : BOOLEAN, ran : BOOLEAN, input : Nat, client : Nat, after : Nat,
   ended : BOOLEAN, execs : Nat, runs : Nat, threw : Nat, exits : Nat, callbacks : BOOLEAN]

TypeOK ==
  /\ entries \in [Users -> SUBSET Credentials]
  /\ knows \subseteq Users \X Credentials
  /\ attempts \in [Users -> 0 .. MaxAttempts + 1]
  /\ sessions \in 1 .. MaxSessions
  /\ bridge \in BOOLEAN /\ used \in BOOLEAN
  /\ auth \in Users \cup {Nobody} /\ granted \in Users \cup {Nobody}
  /\ obj \in [Objects -> [native : Messages \cup {Nil}, replied : BOOLEAN]]
  /\ kinds \in [Messages -> Asked \cup {"none"}]
  /\ replies \in [Messages -> 0 .. 1]
  /\ heard \subseteq Messages /\ freed \subseteq Messages
  /\ chan \in [Channels -> ChannelStates]

Init ==
  /\ entries \in EntryTables
  /\ knows \in Knowledge
  /\ attempts = [u \in Users |-> 0]
  /\ sessions = 1
  /\ bridge = FALSE /\ used = FALSE /\ auth = Nobody /\ granted = Nobody
  /\ obj = [o \in Objects |-> Empty]
  /\ kinds = [m \in Messages |-> "none"]
  /\ replies = [m \in Messages |-> 0]
  /\ heard = {} /\ freed = {}
  /\ chan = [c \in Channels |-> NoChannel]

-----------------------------------------------------------------------------
(* ------------------------------ the session ------------------------------ *)

(* Session::try_set_handler; refused in the message style, or when there is *)
(* a handler already.                                                       *)
SetHandler ==
  /\ ~used /\ ~bridge
  /\ bridge' = TRUE
  /\ UNCHANGED <<authVars, used, auth, granted, messageVars, chan>>

(* The program ends the connection and serves another client with the same  *)
(* handler.                                                                 *)
NextSession ==
  /\ sessions < MaxSessions
  /\ \A o \in Objects : obj[o].native = Nil
  /\ sessions' = sessions + 1
  /\ bridge' = FALSE /\ used' = FALSE /\ auth' = Nobody /\ granted' = Nobody
  /\ chan' = [c \in Channels |-> NoChannel]
  /\ UNCHANGED <<entries, knows, attempts, messageVars>>

-----------------------------------------------------------------------------
(* -------------------------- authentication ------------------------------ *)

(* libssh takes authentication requests until it has answered one with      *)
(* success.  Bound: one attempt more than the limit is enough.              *)
MayAuthenticate(u) == bridge /\ granted = Nobody /\ attempts[u] <= MaxAttempts

(* SimpleAuthHandler::record_attempt_and_check: ++count <= max_attempts_.   *)
WithinLimit(u) == attempts[u] + 1 <= MaxAttempts
RecordAttempt(u) == attempts' = [attempts EXCEPT ![u] = @ + 1]

(* HandlerBridge::apply_auth_result, and libssh's answer to the client.     *)
ApplyAuthResult(success, u, finalize) ==
  /\ auth' = IF success /\ finalize THEN u ELSE auth
  /\ granted' = IF success /\ finalize THEN u ELSE granted
  /\ UNCHANGED <<entries, knows, sessions, bridge, used, messageVars, chan>>

(* SimpleAuthHandler::on_auth_none and on_auth_password.                    *)
OnAuthNone(u) == WithinLimit(u) /\ "none" \in entries[u]
OnAuthPassword(u, right) == WithinLimit(u) /\ "password" \in entries[u] /\ right

(* auth_none_cb.                                                            *)
AuthNone(u) ==
  /\ MayAuthenticate(u)
  /\ RecordAttempt(u) /\ ApplyAuthResult(OnAuthNone(u), u, TRUE)

(* auth_password_cb.                                                        *)
AuthPassword(u, right) ==
  /\ MayAuthenticate(u)
  /\ right => <<u, "password">> \in knows
  /\ RecordAttempt(u) /\ ApplyAuthResult(OnAuthPassword(u, right), u, TRUE)

(* Fault: the offer of an acceptable key, before any signature, already     *)
(* finishes the authentication.                                             *)
AuthPublicKeyOfferSuffices(u, known, state) ==
  /\ MayAuthenticate(u)
  /\ known /\ state # "wrong" /\ "key" \in entries[u]
  /\ UNCHANGED attempts
  /\ ApplyAuthResult(TRUE, u, TRUE)

(* SimpleAuthHandler::on_auth_public_key: a known key is counted when it    *)
(* comes with a signature, and not when it is only offered.                 *)
Acceptable(u, known, state) == known /\ "key" \in entries[u] /\ state # "wrong"
OnAuthPublicKey(u, known, state) ==
  Acceptable(u, known, state) /\ (state = "valid" => WithinLimit(u))

(* auth_pubkey_cb: only a verified signature (state valid), which takes the *)
(* private key, finishes.                                                   *)
AuthPublicKey(u, known, state) ==
  /\ MayAuthenticate(u)
  /\ state = "valid" /\ known => <<u, "key">> \in knows
  /\ IF Acceptable(u, known, state) /\ state = "valid"
     THEN RecordAttempt(u) ELSE UNCHANGED attempts
  /\ ApplyAuthResult(OnAuthPublicKey(u, known, state), u, state = "valid")

(* auth_gssapi_mic_cb with the default handler, or a handler that throws:   *)
(* denied.                                                                  *)
AuthRefused(u) ==
  /\ MayAuthenticate(u)
  /\ UNCHANGED attempts /\ ApplyAuthResult(FALSE, u, TRUE)

-----------------------------------------------------------------------------
(* ------------------------- channels, callback style ---------------------- *)

Reads(c) == bridge /\ granted # Nobody /\ chan[c].open /\ chan[c].callbacks
OnlyChan == UNCHANGED <<authVars, sessionVars, messageVars>>

(* channel_open_session_cb; a handler that returns nullptr or throws, or a  *)
(* failed ssh_channel_new(), refuses the channel.                           *)
ChannelOpen(c) ==
  /\ bridge /\ granted # Nobody
  /\ ~chan[c].open
  /\ chan' = [chan EXCEPT ![c] = [NoChannel EXCEPT !.open = TRUE]]
  /\ OnlyChan

(* Fault: an exec request keeps the input of an earlier one.                *)
ExecRequestKeepsInput(c) ==
  /\ Reads(c) /\ chan[c].execs < MaxExecs
  /\ chan' = [chan EXCEPT ![c].command = TRUE, ![c].ran = FALSE, ![c].after = 0,
                          ![c].ended = FALSE, ![c].execs = @ + 1]
  /\ OnlyChan

(* TestServerChannelHandler::on_exec_request: a new CommandHandler, with an *)
(* empty buffer, takes the place of the one before, whose command is gone   *)
(* if it had not run.                                                       *)
OnExecRequest(h) ==
  [h EXCEPT !.command = TRUE, !.ran = FALSE, !.input = 0, !.after = 0, !.ended = FALSE,
            !.execs = @ + 1]

(* channel_exec_request_cb, at any time, after the client's EOF too.        *)
ExecRequest(c) ==
  /\ Reads(c) /\ chan[c].execs < MaxExecs
  /\ chan' = [chan EXCEPT ![c] = OnExecRequest(@)]
  /\ OnlyChan

(* channel_data_cb: without a command the bytes are consumed and dropped.   *)
Data(c) ==
  /\ Reads(c) /\ chan[c].client < MaxData
  /\ chan' = [chan EXCEPT ![c].input = IF chan[c].command THEN @ + 1 ELSE @,
                          ![c].client = @ + 1, ![c].after = @ + 1]
  /\ OnlyChan

(* CommandHandler::on_eof.  A runner that returns has its output, the exit  *)
(* status and EOF sent, in this order; one that throws leaves ran_ set and  *)
(* the client without an exit status.                                       *)
OnEof(h, returns) ==
  LET one == IF h.command /\ ~h.ran THEN 1 ELSE 0 IN
  [h EXCEPT !.ended = TRUE, !.ran = h.command, !.runs = @ + one,
            !.exits = IF returns THEN @ + one ELSE @,
            !.threw = IF returns THEN @ ELSE @ + one]

(* channel_eof_cb, which swallows what the handler throws.                  *)
Eof(c, returns) == Reads(c) /\ chan' = [chan EXCEPT ![c] = OnEof(@, returns)] /\ OnlyChan

(* channel_subsystem_request_cb: an accepted subsystem takes the channel's  *)
(* data away from the callbacks.                                            *)
SubsystemRequest(c) ==
  /\ Reads(c)
  /\ chan' = [chan EXCEPT ![c].callbacks = FALSE]
  /\ OnlyChan

(* signal, pty, window-change and shell requests, and a request whose       *)
(* handler throws: answered, and nothing is kept.                           *)
OtherRequest(c) == Reads(c) /\ UNCHANGED vars
(* env requests likewise.                                                   *)
EnvRequest(c) == Reads(c) /\ UNCHANGED vars
(* x11 requests likewise.                                                   *)
X11Request(c) == Reads(c) /\ UNCHANGED vars

-----------------------------------------------------------------------------
(* ----------------------------- message style ----------------------------- *)

OnlyMessages == UNCHANGED <<authVars, bridge, chan>>

(* Session::try_next_message; refused in the callback style.  Nothing to    *)
(* read, or a timeout, still makes it the message style.                    *)
NextMessage(o, kind) ==
  /\ ~bridge
  /\ obj[o].native = Nil
  /\ used' = TRUE
  /\ \/ UNCHANGED messageVars
     \/ \E m \in {n \in Messages : kinds[n] = "none"} :
          /\ obj' = [obj EXCEPT ![o] = [native |-> m, replied |-> FALSE]]
          /\ kinds' = [kinds EXCEPT ![m] = kind]
          /\ UNCHANGED <<replies, heard, freed>>
  /\ UNCHANGED <<auth, granted>> /\ OnlyMessages

(* A reply of the program: replied_ is set whether or not libssh could send *)
(* it, and it is not tried again.                                           *)
SetReplied(o) ==
  /\ obj[o].native # Nil /\ ~obj[o].replied
  /\ obj' = [obj EXCEPT ![o].replied = TRUE]
  /\ replies' = [replies EXCEPT ![obj[o].native] = @ + 1]
  /\ heard' \in {heard, heard \cup {obj[o].native}}
  /\ UNCHANGED <<kinds, freed, used>>

(* Message::try_reply_auth_success; authenticated_ is set whether or not    *)
(* the client hears of it.                                                  *)
ReplyAuthSuccess(o, u) ==
  /\ SetReplied(o) /\ kinds[obj[o].native] = "auth" /\ granted = Nobody
  /\ auth' = u /\ granted' = IF obj[o].native \in heard' THEN u ELSE Nobody
  /\ OnlyMessages

(* The replies that change nothing of the session.                          *)
Reply(o, kind) ==
  /\ SetReplied(o) /\ kinds[obj[o].native] = kind
  /\ UNCHANGED <<auth, granted>> /\ OnlyMessages
ReplyAuthFailure(o) == Reply(o, "auth") \/ Reply(o, "probe")
ReplyAuthPkOk(o) == Reply(o, "probe")
AcceptChannelOpen(o) == Reply(o, "open")
ReplyRequest(o) == Reply(o, "other")
ReplyDefault(o) == \E kind \in Asked : Reply(o, kind)

(* What a Message object does to the message it still has.                  *)
DropReplies(o) ==
  IF obj[o].native = Nil \/ obj[o].replied THEN replies
  ELSE [replies EXCEPT ![obj[o].native] = @ + 1]
DropHeard(o) ==
  IF obj[o].native = Nil \/ obj[o].replied THEN {heard} ELSE {heard, heard \cup {obj[o].native}}
DropFrees(o) == freed \cup ({obj[o].native} \ {Nil})

(* Message::Message(Message&&).                                             *)
MoveConstruct(o, p) ==
  /\ obj[p] = Empty /\ obj[o].native # Nil
  /\ obj' = [obj EXCEPT ![p] = obj[o], ![o] = Empty]
  /\ UNCHANGED <<kinds, replies, heard, freed, sessionVars>> /\ OnlyMessages

(* Fault: the message that is moved over is freed without a reply.          *)
MoveAssignForgets(o, p) ==
  /\ o # p
  /\ obj[p].native # Nil
  /\ freed' = DropFrees(p)
  /\ obj' = [obj EXCEPT ![p] = obj[o], ![o] = Empty]
  /\ UNCHANGED <<kinds, replies, heard, sessionVars>> /\ OnlyMessages

(* Message::operator=(Message&&).                                           *)
MoveAssign(o, p) ==
  /\ o # p
  /\ obj[p].native # Nil
  /\ replies' = DropReplies(p) /\ heard' \in DropHeard(p) /\ freed' = DropFrees(p)
  /\ obj' = [obj EXCEPT ![p] = obj[o], ![o] = Empty]
  /\ UNCHANGED <<kinds, sessionVars>> /\ OnlyMessages

(* Message::~Message.                                                       *)
Destroy(o) ==
  /\ obj[o].native # Nil
  /\ replies' = DropReplies(o) /\ heard' \in DropHeard(o) /\ freed' = DropFrees(o)
  /\ obj' = [obj EXCEPT ![o] = Empty]
  /\ UNCHANGED <<kinds, sessionVars>> /\ OnlyMessages

Next ==
  \/ SetHandler \/ NextSession
  \/ \E u \in Users :
       \/ AuthNone(u) \/ AuthRefused(u)
       \/ \E right \in BOOLEAN : AuthPassword(u, right)
       \/ \E known \in BOOLEAN, state \in {"none", "valid", "wrong"} : AuthPublicKey(u, known, state)
       \/ \E o \in Objects : ReplyAuthSuccess(o, u)
  \/ \E c \in Channels :
       \/ ChannelOpen(c) \/ ExecRequest(c) \/ Data(c) \/ SubsystemRequest(c)
       \/ OtherRequest(c) \/ EnvRequest(c) \/ X11Request(c)
       \/ \E returns \in BOOLEAN : Eof(c, returns)
  \/ \E o \in Objects :
       \/ \E kind \in Asked : NextMessage(o, kind)
       \/ ReplyAuthFailure(o) \/ ReplyAuthPkOk(o) \/ AcceptChannelOpen(o)
       \/ ReplyRequest(o) \/ ReplyDefault(o) \/ Destroy(o)
       \/ \E p \in Objects : MoveConstruct(o, p) \/ MoveAssign(o, p)

Spec == Init /\ [][Next]_vars

-----------------------------------------------------------------------------
(* In the callback style, libssh has admitted the client as u only if u's   *)
(* entry allows "none" or the client has shown a credential of that entry,  *)
(* and authenticated_ and user_ say exactly that, whatever offers, wrong    *)
(* tries and other users came before.                                       *)
GrantEarned ==
  /\ bridge => auth = granted
  /\ bridge /\ granted # Nobody =>
       \/ "none" \in entries[granted]
       \/ \E m \in entries[granted] : <<granted, m>> \in knows

(* libssh is given exactly one reply to a message by the time the message   *)
(* is freed (whether libssh can send it is another matter: heard), and the  *)
(* message is never freed twice, however the Message objects are moved.     *)
MessagesAnswered ==
  /\ \A m \in freed : replies[m] = 1
  /\ \A o \in Objects : obj[o].native \notin freed
  /\ \A o, p \in Objects : obj[o].native # Nil /\ obj[o].native = obj[p].native => o = p

(* CommandHandler: every exec request that is accepted is run once at most, *)
(* a second EOF and a second request notwithstanding, and the last one has  *)
(* run as soon as an EOF has come behind it; the buffer it runs on is all   *)
(* that came since that request and nothing older; and each run that does   *)
(* not throw sends one exit status.                                         *)
RunsWholeInput ==
  \A c \in Channels :
    /\ chan[c].runs <= chan[c].execs
    /\ chan[c].ran <=> chan[c].command /\ chan[c].ended
    /\ chan[c].command => chan[c].input = chan[c].after
    /\ chan[c].exits + chan[c].threw = chan[c].runs
=============================================================================
