--------------------------- MODULE ClientSession ----------------------------
(***************************************************************************)
(* Client sessions: configuring, connecting, checking the host key, and    *)
(* authenticating.  The sessions talk to one host and share the known_hosts *)
(* files with other programs, which also change them; the host may present *)
(* another key every time.                                                 *)
(* libssh finishes an authentication request that it reported as           *)
(* SSH_AUTH_AGAIN when the same call is made again; any other call is an   *)
(* error until then.                                                       *)
(*                                                                         *)
(* st[s] is what there is of session s:                                    *)
(*   pc        "none" (no Session), "idle" between calls, or where the     *)
(*             current call is                                             *)
(*   opt       what its options are, see ApplyOptions                      *)
(*   strict    SSH_OPTIONS_STRICTHOSTKEYCHECK                              *)
(*   key       the key the host presented; <<>> when not connected         *)
(*   status    what try_check_known_host() returned to try_verify_host_key *)
(*   changed   the known_hosts files have changed since                    *)
(*   policy    the HostKeyVerifier in use                                  *)
(*   verified  the policy that accepted the key of this connection, in the *)
(*             last try_verify_host_key()                                  *)
(*   blocking  ssh_is_blocking()                                           *)
(*   authed    authenticated_                                              *)
(*   left      server: the methods it still wants, of this connection      *)
(*   granted   server: it has let the user in, on this connection          *)
(*   pend      libssh: the request that has no answer yet                  *)
(*   ans       libssh: the answer that has arrived                         *)
(*   todo      the authenticators of the chain not finished yet            *)
(*   res       the result of the last try_authenticate()                   *)
(*   late      steady_clock is past the deadline of auth_attempt()         *)
(***************************************************************************)
EXTENDS Naturals, Sequences

CONSTANTS
  Sessions,
  Uses,          \* what programs do with the sessions: functions from Sessions
                 \* to sets of "configure", "verify", "auth"
  HostKeys,      \* host keys, <<type, number>>
  Pins,          \* pins_ of PinnedHostKeyPolicy
  Wanted,        \* what a server may want: sets of methods
  Chains,        \* the authenticators tried in one call: sequences of methods
  MaxSets,       \* bound: how often options are applied to one session
  MaxConnects    \* bound: connections of each session

VARIABLES
  st,            \* [Sessions -> record]
  use,           \* what the program does with each session
  user, global,  \* the keys of the host in the user's and in the global known_hosts
  exists,        \* the user's file exists
  connects       \* connections made so far, per session

clientVars == <<st, use, user, global, exists, connects>>

Policies == {"strict", "tofu", "any", "pinned"}

NoOptions == [n |-> 0, known |-> 0, host |-> 0, bare |-> FALSE, config |-> FALSE, whole |-> FALSE]

Fresh == [pc |-> "none", opt |-> NoOptions, strict |-> TRUE, key |-> <<>>, status |-> "none",
          changed |-> FALSE, policy |-> "none", verified |-> "none", blocking |-> TRUE,
          authed |-> FALSE, left |-> {}, granted |-> FALSE, pend |-> "none", ans |-> "none",
          todo |-> <<>>, res |-> "none", late |-> FALSE]

ClientInit ==
  /\ st = [s \in Sessions |-> Fresh]
  /\ use \in Uses
  /\ user = {} /\ global = {} /\ exists = FALSE
  /\ connects = [s \in Sessions |-> 0]

(* Session s becomes q.                                                     *)
Now(s, q) == st' = [st EXCEPT ![s] = q]
At(s, pc) == st[s].pc = pc
FilesKept == UNCHANGED <<user, global, exists>>
Only(s, q) == Now(s, q) /\ FilesKept /\ UNCHANGED <<use, connects>>

-----------------------------------------------------------------------------
(* ------------------------- options and connection ------------------------ *)

(* One call of apply_options(): whether the options name a known_hosts      *)
(* file, the first option that libssh refuses (the files come before the    *)
(* host, and ciphers stands for all that comes after it), and what remains  *)
(* of it when ssh_options_parse_config(), whose result is not looked at,    *)
(* has read the configuration: that may name another file and switch        *)
(* StrictHostKeyChecking, which options may do as well.                     *)
Position == [known_hosts |-> 1, host |-> 2, ciphers |-> 3, nothing |-> 4]
Applications ==
  {a \in [gives : BOOLEAN, bad : DOMAIN Position, config : BOOLEAN, strict : BOOLEAN] :
     a.bad = "known_hosts" => a.gives}
Plain == [gives |-> TRUE, bad |-> "nothing", config |-> FALSE, strict |-> TRUE]

(* Those that a program makes which cares about something else.             *)
Applied(s) ==
  IF "configure" \in use[s] THEN Applications
  ELSE {[Plain EXCEPT !.strict = v] : v \in {v \in BOOLEAN : v \/ "verify" \in use[s]}}

(* Fault: goes on after an option that libssh refuses.                      *)
TakenAnyway(option, bad) == option # bad

(* apply_options() sets an option when none before it was refused.          *)
Taken(option, bad) == Position[option] < Position[bad]

(* The options of a session after one more application:                     *)
(*   n       how often they were applied                                    *)
(*   known   the application that named its known_hosts file; 0: the default*)
(*   host    the application that set its host; 0: none                     *)
(*   bare    the options that set the host named no known_hosts file        *)
(*   config  the configuration has named another file since                 *)
(*   whole   the last application came to its end                           *)
ApplyOptions(o, a) ==
  LET known == a.gives /\ Taken("known_hosts", a.bad)
      host  == Taken("host", a.bad)
      whole == Taken("ciphers", a.bad)
  IN  [n      |-> o.n + 1,
       known  |-> IF known THEN o.n + 1 ELSE o.known,
       host   |-> IF host THEN o.n + 1 ELSE o.host,
       bare   |-> IF host THEN ~a.gives ELSE o.bare,
       config |-> (o.config /\ ~known) \/ (whole /\ a.config),
       whole  |-> whole]

Configured(q, a) ==
  [q EXCEPT !.opt = ApplyOptions(q.opt, a), !.strict = IF Taken("ciphers", a.bad) THEN a.strict ELSE @]

(* Session::Session(opts): the error of apply_options() is dropped.  The    *)
(* caller may put libssh's session in non-blocking mode.                    *)
Construct(s) ==
  /\ At(s, "none") /\ use[s] # {}
  /\ \E a \in Applied(s), b \in {b \in BOOLEAN : b \/ "auth" \in use[s]} :
       Only(s, [Configured(st[s], a) EXCEPT !.pc = "idle", !.blocking = b])

(* try_set_options(), whose caller may ignore its error.                    *)
SetOptions(s) ==
  /\ At(s, "idle") /\ "configure" \in use[s] /\ st[s].opt.n < MaxSets
  /\ \E a \in Applied(s) : Only(s, Configured(st[s], a))

(* ssh_connect() reads the configuration that apply_options() has not come  *)
(* to.                                                                      *)
ConfigRead(q, c, v) ==
  IF q.opt.whole THEN q ELSE [q EXCEPT !.opt.config = @ \/ c, !.strict = v]

(* try_connect(): without a host, ssh_connect() fails, and it may fail      *)
(* anyway, which changes nothing here.                                      *)
Connect(s) ==
  /\ At(s, "idle") /\ st[s].key = <<>> /\ connects[s] < MaxConnects[s] /\ st[s].opt.host # 0
  /\ \E k \in HostKeys, c, v \in BOOLEAN :
     \E w \in IF "auth" \in use[s] THEN Wanted ELSE {{}} :
       Now(s, [ConfigRead(st[s], c, v) EXCEPT
                 !.key = k, !.left = w, !.granted = FALSE, !.verified = "none",
                 !.pend = "none", !.ans = "none", !.res = "none"])
  /\ connects' = [connects EXCEPT ![s] = @ + 1]
  /\ FilesKept /\ UNCHANGED use

(* disconnect(), or the peer goes away between two calls.  authenticated_   *)
(* keeps its value.                                                         *)
Disconnect(s) ==
  /\ At(s, "idle") /\ st[s].key # <<>>
  /\ Only(s, [st[s] EXCEPT !.key = <<>>, !.verified = "none", !.granted = FALSE, !.left = {},
              !.pend = "none", !.ans = "none", !.res = "none"])

-----------------------------------------------------------------------------
(* ------------------------------- host keys ------------------------------- *)

OnFile == user \cup global

(* The files change; sessions that have looked at them have not noticed.    *)
Noticed(q) == [q EXCEPT !.changed = @ \/ (q.pc \in {"verify", "remember"} /\ OnFile' # OnFile)]

(* ssh_session_is_known_server() and known_hosts_status_from_native(): the  *)
(* user's file and the global one.                                          *)
KnownHostsStatus(k) ==
  IF ~exists /\ global = {} THEN "not_found"
  ELSE IF OnFile = {} THEN "unknown"
  ELSE IF k \in OnFile THEN "ok"
  ELSE IF \E f \in OnFile : f[1] = k[1] THEN "changed" ELSE "other_type"

(* What libssh may report; it lets any key pass where strict checking was   *)
(* switched off.                                                            *)
Statuses(q) == {KnownHostsStatus(q.key), "error"} \cup (IF q.strict THEN {} ELSE {"ok"})

(* try_verify_host_key() up to the call of verify(): the files are read     *)
(* here.                                                                    *)
CheckKnownHost(s, p) ==
  /\ At(s, "idle") /\ "verify" \in use[s] /\ st[s].key # <<>>
  /\ \E status \in Statuses(st[s]) :
       Only(s, [st[s] EXCEPT !.pc = "verify", !.policy = p, !.status = status, !.changed = FALSE,
                             !.verified = "none"])

(* The verify() of the policies.                                            *)
StrictVerify(status) == IF status = "ok" THEN "accept" ELSE "reject"
TofuVerify(status) ==
  IF status = "ok" THEN "accept"
  ELSE IF status \in {"not_found", "unknown"} THEN "remember" ELSE "reject"
PinnedVerify(k) == IF k \in Pins THEN "accept" ELSE "reject"
Decision(s) ==
  CASE st[s].policy = "strict" -> StrictVerify(st[s].status)
    [] st[s].policy = "tofu" -> TofuVerify(st[s].status)
    [] st[s].policy = "pinned" -> PinnedVerify(st[s].key)
    [] OTHER -> "accept"

Verdict(q) == [q EXCEPT !.pc = "idle", !.status = "none", !.policy = "none"]
Verify(s) ==
  /\ At(s, "verify")
  /\ CASE Decision(s) = "accept" -> Only(s, [Verdict(st[s]) EXCEPT !.verified = st[s].policy])
       [] Decision(s) = "reject" -> Only(s, Verdict(st[s]))
       [] OTHER -> Only(s, [Verdict(st[s]) EXCEPT !.pc = "remember"])

Accepted(q) == [q EXCEPT !.pc = "idle", !.verified = "tofu"]
Appended(s) ==
  /\ user' = user \cup {st[s].key} /\ exists' = TRUE /\ UNCHANGED global
  /\ st' = [t \in Sessions |-> IF t = s THEN Accepted(st[s]) ELSE Noticed(st[t])]
  /\ UNCHANGED <<use, connects>>

(* Fault: an error of try_update_known_hosts() is not returned.             *)
RememberAnyway(s) == At(s, "remember") /\ (Appended(s) \/ Only(s, Accepted(st[s])))

(* try_update_known_hosts(): the line is added or there is an error.        *)
Remember(s) == At(s, "remember") /\ (Appended(s) \/ Only(s, [st[s] EXCEPT !.pc = "idle"]))

Watched == \E s \in Sessions : "verify" \in use[s]
FilesBecome(u, g, e) ==
  /\ Watched
  /\ user' = u /\ global' = g /\ exists' = e
  /\ st' = [t \in Sessions |-> Noticed(st[t])]
  /\ UNCHANGED <<use, connects>>

(* KnownHosts::add(), by any program: it appends, and makes the file.       *)
AddKnownHost(k) == FilesBecome(user \cup {k}, global, TRUE)

(* Other programs edit the files: keys come and go, and the user's file.    *)
EditFiles(k) ==
  \/ FilesBecome(user \ {k}, global, exists)
  \/ FilesBecome(user, global \cup {k}, exists)
  \/ FilesBecome(user, global \ {k}, exists)
  \/ FilesBecome({}, global, FALSE)

-----------------------------------------------------------------------------
(* ------------------------------ the server ------------------------------- *)

(* The answer to the request in flight.  It may be any refusal, a success   *)
(* for a method that the server wants, an offer of the key that would do,   *)
(* and any number of rounds of prompts.                                     *)
Method(m) == IF m \in {"agent", "publicKeyAuto"} THEN "publicKey" ELSE m
Grants(s, m) == st[s].left \subseteq {Method(m)}
Answers(s, m) ==
  {"denied", "error"}
  \cup (IF m = "offer" THEN {"success"} ELSE {})
  \cup (IF m = "interactive" THEN {"info"} ELSE {})
  \cup (IF Method(m) \in st[s].left \cup {"none"} /\ Grants(s, m) THEN {"success"} ELSE {})
  \cup (IF Method(m) \in st[s].left /\ ~Grants(s, m) THEN {"partial"} ELSE {})
ServerAnswers(s) ==
  /\ st[s].pend # "none" /\ st[s].ans = "none" /\ st[s].key # <<>>
  /\ \E a \in Answers(s, st[s].pend) :
       Only(s, [st[s] EXCEPT
                  !.ans = a,
                  !.left = IF a \in {"success", "partial"} THEN @ \ {Method(st[s].pend)} ELSE @,
                  !.granted = @ \/ (a = "success" /\ st[s].pend # "offer")])

-----------------------------------------------------------------------------
(* ---------------------------- authentication ----------------------------- *)

(* Chain::interactive_default(): its last authenticator asks for the        *)
(* password when its turn comes.                                            *)
InteractiveDefault == <<"agent", "publicKeyAuto", "interactive", "password">>

(* Session::try_authenticate(chain) and Chain::attempt() begin.             *)
Authenticate(s) ==
  /\ At(s, "idle") /\ "auth" \in use[s] /\ st[s].key # <<>> /\ ~st[s].granted
  /\ \E c \in Chains :
       Only(s, [st[s] EXCEPT !.pc = "call", !.todo = c, !.res = "none", !.late = FALSE])

(* The request that the call at the head of the chain makes: PublicKey      *)
(* offers its key first, and signs when it is acceptable.                   *)
Request(s) ==
  IF Head(st[s].todo) = "publicKey" /\ At(s, "call") THEN "offer" ELSE Head(st[s].todo)
Calling(s) == st[s].pc \in {"call", "sign", "retry"}
Waiting(s) == Calling(s) /\ st[s].pend = Request(s) /\ st[s].ans = "none"
Answered(s, a) == Calling(s) /\ st[s].pend = Request(s) /\ st[s].ans = a
Consumed(q) == [q EXCEPT !.pend = "none", !.ans = "none", !.late = FALSE]

(* How attempt() ends: an error ends the chain, and so does a success, which*)
(* try_authenticate() notes; otherwise the next one is tried.               *)
Settle(s, r, q) ==
  IF r \in {"error", "success"} \/ Len(st[s].todo) = 1
  THEN Only(s, [q EXCEPT !.pc = "idle", !.res = r, !.todo = <<>>,
                         !.authed = @ \/ r = "success"])
  ELSE Only(s, [q EXCEPT !.pc = "call", !.todo = Tail(@), !.late = FALSE])

(* The libssh call sends its request.                                       *)
Send(s) == Calling(s) /\ st[s].pend = "none" /\ Only(s, [st[s] EXCEPT !.pend = Request(s)])

(* LazyPassword::attempt(): the callback gives no password.                 *)
NoPassword(s) ==
  /\ At(s, "call") /\ st[s].todo = <<"password">> /\ st[s].pend = "none"
  /\ Settle(s, "error", st[s])

(* Or a call that gave up has left a request of another sort with libssh,   *)
(* and this call is an error.                                               *)
WrongState(s) ==
  /\ Calling(s) /\ st[s].pend \notin {"none", Request(s)}
  /\ Settle(s, "error", st[s])

(* auth_attempt() and map_auth_result(): SSH_AUTH_AGAIN is a status in      *)
(* non-blocking mode; in blocking mode the call is repeated until an answer *)
(* or the deadline, and the request stays with libssh.                      *)
Again(s) ==
  /\ Waiting(s)
  /\ \/ ~st[s].blocking /\ Settle(s, "again", st[s])
     \/ st[s].blocking /\ st[s].late /\ Settle(s, "error", st[s])

(* KeyboardInteractive::attempt() gets SSH_AUTH_AGAIN, and goes to          *)
(* auth_attempt() for good.                                                 *)
AgainInteractive(s) ==
  /\ Waiting(s) /\ At(s, "call") /\ Request(s) = "interactive" /\ st[s].blocking
  /\ Only(s, [st[s] EXCEPT !.pc = "retry"])


(* The clock passes the deadline of auth_attempt().                         *)
Deadline(s) ==
  /\ Waiting(s) /\ st[s].blocking /\ ~st[s].late
  /\ Calling(s) /\ Request(s) = "interactive" => At(s, "retry")
  /\ Only(s, [st[s] EXCEPT !.late = TRUE])

(* Fault: the answer to the offer is taken for that to the signature.       *)
PublicKeyOfferOnly(s) ==
  /\ At(s, "call") /\ Request(s) = "offer"
  /\ \E a \in {"success", "denied", "error"} : Answered(s, a) /\ Settle(s, a, Consumed(st[s]))

(* PublicKey::attempt(): the answer to the offer.                           *)
PublicKeyOffered(s) ==
  /\ At(s, "call") /\ Request(s) = "offer"
  /\ \/ Answered(s, "success") /\ Only(s, [Consumed(st[s]) EXCEPT !.pc = "sign"])
     \/ \E a \in {"denied", "error"} : Answered(s, a) /\ Settle(s, a, Consumed(st[s]))

(* None, Password, PublicKeyAuto, Agent, and the signature of PublicKey.    *)
Attempted(s) ==
  /\ Calling(s) /\ Request(s) \notin {"offer", "interactive"}
  /\ \E a \in {"success", "denied", "partial", "error"} : Answered(s, a) /\ Settle(s, a, Consumed(st[s]))

(* KeyboardInteractive::attempt(): the prompts go to the handler and its    *)
(* answers back, unless there is none or it fails; as often as the server   *)
(* asks.  In auth_attempt() a round of prompts is an error.                 *)
Prompted(s) ==
  /\ Calling(s) /\ Request(s) = "interactive" /\ Answered(s, "info")
  /\ \/ At(s, "call") /\ Only(s, [st[s] EXCEPT !.ans = "none"])
     \/ Settle(s, "error", Consumed(st[s]))
Interactive(s) ==
  /\ Calling(s) /\ Request(s) = "interactive"
  /\ \E a \in {"success", "denied", "partial", "error"} : Answered(s, a) /\ Settle(s, a, Consumed(st[s]))

(* try_auth_methods(): ssh_userauth_none(), whose other results give way to *)
(* the list of methods.                                                     *)
AuthMethods(s) ==
  /\ At(s, "idle") /\ "auth" \in use[s] /\ st[s].key # <<>> /\ ~st[s].granted
  /\ st[s].pend = "none" /\ st[s].left = {} /\ Only(s, [st[s] EXCEPT !.authed = TRUE, !.granted = TRUE])

-----------------------------------------------------------------------------
Client(s) ==
  \/ Construct(s) \/ SetOptions(s) \/ Connect(s) \/ Disconnect(s)
  \/ \E p \in Policies : CheckKnownHost(s, p)
  \/ Verify(s) \/ Remember(s)
  \/ Authenticate(s) \/ AuthMethods(s)
Attempt(s) ==
  \/ Send(s) \/ NoPassword(s) \/ WrongState(s) \/ Again(s) \/ AgainInteractive(s) \/ PublicKeyOffered(s)
  \/ Attempted(s) \/ Prompted(s) \/ Interactive(s)

ClientNext ==
  \/ \E s \in Sessions : Client(s) \/ Attempt(s) \/ ServerAnswers(s) \/ Deadline(s)
  \/ \E k \in HostKeys : AddKnownHost(k) \/ EditFiles(k)

ClientSpec == ClientInit /\ [][ClientNext]_clientVars

(* A call that can return does, and time passes.  Nothing makes the server  *)
(* answer.                                                                  *)
ClientFairSpec ==
  /\ ClientSpec
  /\ \A s \in Sessions : WF_clientVars(Attempt(s)) /\ WF_clientVars(Deadline(s))

-----------------------------------------------------------------------------
(* A session that is connected uses the known_hosts file of the options     *)
(* that named its host, or of later ones, however often options were        *)
(* applied, refused and ignored by the constructor or the caller: the file  *)
(* comes before the host, and nothing after an error.  Except where those   *)
(* options name no file (then an earlier one stays in force) and where the  *)
(* configuration, read behind them all, names another one.                  *)
KnownHostsInForce ==
  \A s \in Sessions :
    st[s].key # <<>> =>
      LET o == st[s].opt IN o.known >= o.host \/ o.bare \/ o.config

(* When the strict or the trust-on-first-use policy accepts a key, it is in *)
(* a known_hosts file, and a key that was not there is trusted only when    *)
(* there was none of this host ("reject on change"); whatever the other     *)
(* sessions and programs do, as long as the files do not change between the *)
(* check and the verdict, and libssh's own strict checking is on.  A file   *)
(* that does change there is not read again: two sessions may then trust    *)
(* two different keys on first use.                                         *)
VerifiedIsKnown ==
  [][\A s \in Sessions :
       /\ st[s].verified = "none" /\ st'[s].verified \in {"strict", "tofu"}
       /\ st[s].strict /\ ~st[s].changed
       => /\ st'[s].key \in OnFile'
          /\ st'[s].key \notin OnFile => OnFile = {}]_clientVars

(* try_authenticate() reports success, and sets authenticated_, only when   *)
(* the server has let the user in on this connection, late answers to calls *)
(* that gave up included.                                                   *)
AuthEarned ==
  [][\A s \in Sessions :
       (st'[s].res = "success" /\ st[s].res # "success") \/ (st'[s].authed /\ ~st[s].authed)
         => st'[s].granted /\ st'[s].key # <<>>]_clientVars

=============================================================================
