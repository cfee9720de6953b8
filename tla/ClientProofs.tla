---------------------------- MODULE ClientProofs ----------------------------
(***************************************************************************)
(* Proofs about the two client components: ClientSession, for any number   *)
(* of sessions, any host keys and any chains of methods, and Programs, for *)
(* any sizes of chunks, limits and windows.                                *)
(*                                                                         *)
(* The properties of ClientSession are about one session and the files    *)
(* that all share.  What makes them inductive is that options name their   *)
(* file before their host (OptionsKept), that a status stays true of the   *)
(* files as long as they do not change (Known), and that the success which *)
(* libssh keeps for a call that has timed out was granted (Earned).        *)
(*                                                                         *)
(* The three arguments about Programs (terminal, keys, output) need only   *)
(* where each program can be (Placed); each is about one record of the     *)
(* state, and a lemma says which steps change that record.                 *)
(***************************************************************************)
EXTENDS ClientSession, Programs, TLAPS

-----------------------------------------------------------------------------
(* ----------------------------- ClientSession ----------------------------- *)

(* The fields of a session, and the types that the arguments need.          *)
Fields == {"pc", "opt", "strict", "key", "status", "changed", "policy", "verified", "blocking",
           "authed", "left", "granted", "pend", "ans", "todo", "res", "late"}

Options == [n : Nat, known : Nat, host : Nat, bare : BOOLEAN, config : BOOLEAN, whole : BOOLEAN]

Shaped(q) ==
  /\ q = [f \in Fields |-> q[f]]
  /\ q.authed \in BOOLEAN /\ q.granted \in BOOLEAN /\ q.strict \in BOOLEAN /\ q.changed \in BOOLEAN

(* No file and no host is of an application that is still to come, and the  *)
(* file is not older than the host, but for the two ways out.               *)
OptionsKept(o) ==
  /\ o \in Options
  /\ o.known <= o.n /\ o.host <= o.n
  /\ o.known >= o.host \/ o.bare \/ o.config

(* As long as the files have not changed since they were read, the status   *)
(* is true of the keys in them.                                             *)
Known(q, onfile) ==
  ~q.changed =>
    /\ q.pc = "verify" /\ q.status = "ok" /\ q.strict => q.key \in onfile
    /\ q.pc = "verify" /\ q.status \in {"not_found", "unknown"} => onfile = {}
    /\ q.pc = "remember" => onfile = {}

(* A call is made on a connection, and the success that libssh holds for a  *)
(* request that is not an offer is one that the server has granted.         *)
Earned(q) ==
  /\ q.pc \in {"call", "sign", "retry"} => q.key # <<>>
  /\ q.ans = "success" /\ q.pend # "offer" => q.granted

(* The inductive invariant, for one session and the keys on file, and for   *)
(* all; a file that is not there holds no key.                              *)
SessionInv(q, onfile) == Shaped(q) /\ OptionsKept(q.opt) /\ Known(q, onfile) /\ Earned(q)

ClientInv ==
  /\ st = [s \in Sessions |-> st[s]]
  /\ exists \/ user = {}
  /\ \A s \in Sessions : SessionInv(st[s], OnFile)

(* A step of a session from q to r that reports a success reports one that  *)
(* was granted, and one that accepts a key finds it on file.                *)
EarnedStep(q, r) ==
  (r.res = "success" /\ q.res # "success") \/ (r.authed /\ ~q.authed)
    => r.granted /\ r.key # <<>>

VerifiedStep(q, r, before, after) ==
  /\ q.verified = "none" /\ r.verified \in {"strict", "tofu"}
  /\ q.strict /\ ~q.changed
  => /\ r.key \in after
     /\ r.key \notin before => before = {}

GoodStep ==
  /\ ClientInv'
  /\ \A s \in Sessions :
       EarnedStep(st[s], st'[s]) /\ VerifiedStep(st[s], st'[s], OnFile, OnFile')

(* What is asked of a step that leaves the files alone.                     *)
StepInv(q, r, onfile) == SessionInv(r, onfile) /\ EarnedStep(q, r) /\ VerifiedStep(q, r, onfile, onfile)

(* A Session that is not constructed satisfies the invariant.               *)
LEMMA FreshInv == \A onfile : SessionInv(Fresh, onfile)
  BY DEF SessionInv, Shaped, OptionsKept, Options, Known, Earned, Fresh, NoOptions, Fields

(* A step of one session, which leaves the files alone, disturbs no other   *)
(* session.                                                                 *)
LEMMA Local ==
  ASSUME ClientInv, NEW s \in Sessions, NEW q, Now(s, q), FilesKept, StepInv(st[s], q, OnFile)
  PROVE  GoodStep
  <1>1. OnFile' = OnFile /\ exists' = exists /\ user' = user
    BY DEF FilesKept, OnFile
  <1>2. /\ st' = [t \in Sessions |-> st'[t]]
        /\ \A t \in Sessions : st'[t] = IF t = s THEN q ELSE st[t]
    BY DEF ClientInv, Now
  <1>3. ASSUME NEW t \in Sessions
        PROVE  /\ SessionInv(st'[t], OnFile)
               /\ EarnedStep(st[t], st'[t]) /\ VerifiedStep(st[t], st'[t], OnFile, OnFile)
    <2>1. CASE t = s
      BY <1>2, <2>1 DEF StepInv
    <2>2. CASE t # s
      BY <1>2, <2>2 DEF ClientInv, EarnedStep, VerifiedStep
    <2> QED BY <2>1, <2>2
  <1> QED BY <1>1, <1>2, <1>3 DEF ClientInv, GoodStep

(* One application of options: the file is named before the host, so an     *)
(* error in between leaves the host as it was.                              *)
LEMMA ApplyOptionsKept ==
  ASSUME NEW o, OptionsKept(o), NEW a \in Applications
  PROVE  OptionsKept(ApplyOptions(o, a))
  <1>1. /\ a.bad \in {"known_hosts", "host", "ciphers", "nothing"}
        /\ a.gives \in BOOLEAN /\ a.config \in BOOLEAN
    BY DEF Applications, Position
  <1>2. Taken("host", a.bad) => Taken("known_hosts", a.bad)
    BY <1>1 DEF Taken, Position
  <1>3. Taken("host", a.bad) \in BOOLEAN /\ Taken("known_hosts", a.bad) \in BOOLEAN
        /\ Taken("ciphers", a.bad) \in BOOLEAN
    BY <1>1 DEF Taken, Position
  <1> DEFINE known == a.gives /\ Taken("known_hosts", a.bad)
             host == Taken("host", a.bad)
             whole == Taken("ciphers", a.bad)
             nk == IF known THEN o.n + 1 ELSE o.known
             nh == IF host THEN o.n + 1 ELSE o.host
             nb == IF host THEN ~a.gives ELSE o.bare
             nc == (o.config /\ ~known) \/ (whole /\ a.config)
             r == [n |-> o.n + 1, known |-> nk, host |-> nh, bare |-> nb, config |-> nc,
                   whole |-> whole]
  <1>4. ApplyOptions(o, a) = r
    BY DEF ApplyOptions
  <1>5. /\ o.n \in Nat /\ o.known \in Nat /\ o.host \in Nat
        /\ o.bare \in BOOLEAN /\ o.config \in BOOLEAN
        /\ o.known <= o.n /\ o.host <= o.n /\ (o.known >= o.host \/ o.bare \/ o.config)
    BY DEF OptionsKept, Options
  <1>6. known \in BOOLEAN /\ host \in BOOLEAN /\ whole \in BOOLEAN
        /\ nb \in BOOLEAN /\ nc \in BOOLEAN
    BY <1>1, <1>3, <1>5
  <1>7. (host => known \/ nb) /\ (~known /\ o.config => nc) /\ (~host => (nb <=> o.bare))
    BY <1>1, <1>2, <1>3, <1>5
  <1> HIDE DEF known, host, whole, nb, nc
  <1>8. nk \in Nat /\ nh \in Nat /\ nk <= o.n + 1 /\ nh <= o.n + 1
    BY <1>5, <1>6
  <1>9. nk >= nh \/ nb \/ nc
    BY <1>5, <1>6, <1>7
  <1> HIDE DEF nk, nh
  <1>10. OptionsKept(r)
    BY <1>5, <1>6, <1>8, <1>9 DEF OptionsKept, Options
  <1> QED BY <1>4, <1>10

LEMMA AppliedAre ==
  ASSUME NEW s \in Sessions
  PROVE  Applied(s) \subseteq Applications
  BY DEF Applied, Applications, Plain, Position

(* Options reach a session that is not being verified.                      *)
LEMMA ConfiguredKept ==
  ASSUME NEW q, NEW onfile, SessionInv(q, onfile), q.pc \in {"none", "idle"}, NEW a \in Applications
  PROVE  StepInv(q, Configured(q, a), onfile) /\ Configured(q, a).pc = q.pc
         /\ Configured(q, a).verified = q.verified
         /\ Configured(q, a).res = q.res /\ Configured(q, a).authed = q.authed
  <1> DEFINE o == ApplyOptions(q.opt, a)
             v == IF Taken("ciphers", a.bad) THEN a.strict ELSE q.strict
             r == [q EXCEPT !.opt = o, !.strict = v]
  <1>1. OptionsKept(o) /\ v \in BOOLEAN
    BY ApplyOptionsKept DEF SessionInv, Shaped, Applications
  <1>2. Configured(q, a) = r
    BY DEF Configured
  <1> HIDE DEF o, v
  <1> QED BY <1>1, <1>2
      DEF StepInv, SessionInv, Shaped, Known, Earned, EarnedStep, VerifiedStep, Fields

(* Session(const SessionOptions&).                                          *)
LEMMA ConstructGood ==
  ASSUME ClientInv, NEW s \in Sessions, Construct(s)
  PROVE  GoodStep
  <1>1. PICK a \in Applied(s) : \E b \in BOOLEAN :
          Only(s, [Configured(st[s], a) EXCEPT !.pc = "idle", !.blocking = b])
    BY DEF Construct
  <1>2. PICK b \in BOOLEAN :
          Only(s, [Configured(st[s], a) EXCEPT !.pc = "idle", !.blocking = b])
    BY <1>1
  <1>3. SessionInv(st[s], OnFile) /\ st[s].pc = "none" /\ a \in Applications
    BY AppliedAre DEF ClientInv, Construct, At
  <1> DEFINE c == Configured(st[s], a)
             q == [c EXCEPT !.pc = "idle", !.blocking = b]
  <1>4. StepInv(st[s], c, OnFile) /\ c.pc = "none" /\ c.verified = st[s].verified
        /\ c.res = st[s].res /\ c.authed = st[s].authed
    BY <1>3, ConfiguredKept
  <1> HIDE DEF c
  <1>5. StepInv(st[s], q, OnFile)
    BY <1>4 DEF StepInv, SessionInv, Shaped, Known, Earned, EarnedStep, VerifiedStep, Fields
  <1>6. Only(s, q)
    BY <1>2 DEF c
  <1> QED BY <1>5, <1>6, Local DEF Only

(* try_set_options(), as often as the caller likes.                         *)
LEMMA SetOptionsGood ==
  ASSUME ClientInv, NEW s \in Sessions, SetOptions(s)
  PROVE  GoodStep
  <1>1. PICK a \in Applied(s) : Only(s, Configured(st[s], a))
    BY DEF SetOptions
  <1>2. SessionInv(st[s], OnFile) /\ st[s].pc = "idle" /\ a \in Applications
    BY AppliedAre DEF ClientInv, SetOptions, At
  <1> QED BY <1>1, <1>2, ConfiguredKept, Local DEF Only

(* ssh_connect() may read the configuration.                                *)
LEMMA ConfigReadKept ==
  ASSUME NEW q, NEW onfile, SessionInv(q, onfile), q.pc = "idle", NEW c \in BOOLEAN, NEW v \in BOOLEAN
  PROVE  LET r == ConfigRead(q, c, v)
         IN  /\ SessionInv(r, onfile) /\ r.pc = "idle"
             /\ r.res = q.res /\ r.authed = q.authed /\ r.verified = q.verified
  <1> DEFINE o == [q.opt EXCEPT !.config = @ \/ c]
             r == [q EXCEPT !.opt = o, !.strict = v]
  <1>1. OptionsKept(o)
    BY DEF SessionInv, OptionsKept, Options
  <1>2. CASE q.opt.whole = TRUE
    BY <1>2 DEF ConfigRead
  <1>3. CASE q.opt.whole = FALSE
    <2>1. ConfigRead(q, c, v) = r
      BY <1>3 DEF ConfigRead, SessionInv, Shaped, Fields
    <2> HIDE DEF o
    <2> QED BY <1>1, <2>1 DEF SessionInv, Shaped, Known, Earned, Fields
  <1>4. q.opt.whole \in BOOLEAN
    BY DEF SessionInv, OptionsKept, Options
  <1> QED BY <1>2, <1>3, <1>4

(* try_connect(): a new connection has been granted nothing.                *)
LEMMA ConnectGood ==
  ASSUME ClientInv, NEW s \in Sessions, Connect(s)
  PROVE  GoodStep
  <1>1. PICK k \in HostKeys, c \in BOOLEAN, v \in BOOLEAN :
          \E w \in IF "auth" \in use[s] THEN Wanted ELSE {{}} :
          Now(s, [ConfigRead(st[s], c, v) EXCEPT
                  !.key = k, !.left = w, !.granted = FALSE, !.verified = "none",
                  !.pend = "none", !.ans = "none", !.res = "none"])
    BY DEF Connect
  <1>2. PICK w \in IF "auth" \in use[s] THEN Wanted ELSE {{}} :
          Now(s, [ConfigRead(st[s], c, v) EXCEPT
                  !.key = k, !.left = w, !.granted = FALSE, !.verified = "none",
                  !.pend = "none", !.ans = "none", !.res = "none"])
    BY <1>1
  <1> DEFINE r == ConfigRead(st[s], c, v)
             q == [r EXCEPT !.key = k, !.left = w, !.granted = FALSE, !.verified = "none",
                   !.pend = "none", !.ans = "none", !.res = "none"]
  <1>3. /\ SessionInv(r, OnFile) /\ r.pc = "idle" /\ r.authed = st[s].authed
        /\ FilesKept
    BY ConfigReadKept DEF ClientInv, Connect, At
  <1>4. Now(s, q)
    BY <1>2
  <1> HIDE DEF r
  <1>5. StepInv(st[s], q, OnFile)
    BY <1>3 DEF StepInv, SessionInv, Shaped, Known, Earned, EarnedStep, VerifiedStep, Fields
  <1> QED BY <1>3, <1>4, <1>5, Local

(* disconnect().                                                            *)
LEMMA DisconnectGood ==
  ASSUME ClientInv, NEW s \in Sessions, Disconnect(s)
  PROVE  GoodStep
  <1> DEFINE q == [st[s] EXCEPT !.key = <<>>, !.verified = "none", !.granted = FALSE, !.left = {},
                   !.pend = "none", !.ans = "none", !.res = "none"]
  <1>1. SessionInv(st[s], OnFile) /\ st[s].pc = "idle" /\ Only(s, q)
    BY DEF ClientInv, Disconnect, At
  <1>2. StepInv(st[s], q, OnFile)
    BY <1>1 DEF StepInv, SessionInv, Shaped, Known, Earned, EarnedStep, VerifiedStep, Fields
  <1> QED BY <1>1, <1>2, Local DEF Only

(* The status is true of the files it was read from.                       *)
LEMMA StatusTrue ==
  ASSUME ClientInv, NEW s \in Sessions, NEW status \in Statuses(st[s])
  PROVE  /\ status = "ok" /\ st[s].strict => st[s].key \in OnFile
         /\ status \in {"not_found", "unknown"} => OnFile = {}
  BY DEF ClientInv, Statuses, KnownHostsStatus, OnFile

LEMMA CheckKnownHostGood ==
  ASSUME ClientInv, NEW s \in Sessions, NEW p, CheckKnownHost(s, p)
  PROVE  GoodStep
  <1>1. PICK status \in Statuses(st[s]) :
          Only(s, [st[s] EXCEPT !.pc = "verify", !.policy = p, !.status = status,
                                !.changed = FALSE, !.verified = "none"])
    BY DEF CheckKnownHost
  <1> DEFINE q == [st[s] EXCEPT !.pc = "verify", !.policy = p, !.status = status,
                                !.changed = FALSE, !.verified = "none"]
  <1>2. SessionInv(st[s], OnFile)
    BY DEF ClientInv
  <1>3. StepInv(st[s], q, OnFile)
    BY <1>2, StatusTrue DEF StepInv, SessionInv, Shaped, Known, Earned, EarnedStep, VerifiedStep, Fields
  <1> QED BY <1>1, <1>3, Local DEF Only

(* A policy that looks at the files accepts on the status "ok" alone, and  *)
(* remembers a key where there was none.                                    *)
LEMMA VerifyGood ==
  ASSUME ClientInv, NEW s \in Sessions, Verify(s)
  PROVE  GoodStep
  <1> DEFINE p == st[s].policy
             a == [Verdict(st[s]) EXCEPT !.verified = p]
             r == [Verdict(st[s]) EXCEPT !.pc = "remember"]
  <1>1. SessionInv(st[s], OnFile) /\ st[s].pc = "verify"
    BY DEF ClientInv, Verify, At
  <1>2. /\ Decision(s) = "accept" /\ p \in {"strict", "tofu"} => st[s].status = "ok"
        /\ Decision(s) \notin {"accept", "reject"} => st[s].status \in {"not_found", "unknown"}
    BY DEF Decision, StrictVerify, TofuVerify, PinnedVerify
  <1>3. CASE Decision(s) = "accept"
    <2>1. Only(s, a)
      BY <1>3 DEF Verify
    <2>2. StepInv(st[s], a, OnFile)
      BY <1>1, <1>2, <1>3
      DEF Verdict, StepInv, SessionInv, Shaped, Known, Earned, EarnedStep, VerifiedStep, Fields
    <2> QED BY <2>1, <2>2, Local DEF Only
  <1>4. CASE Decision(s) = "reject"
    <2>1. Only(s, Verdict(st[s]))
      BY <1>4 DEF Verify
    <2>2. StepInv(st[s], Verdict(st[s]), OnFile)
      BY <1>1 DEF Verdict, StepInv, SessionInv, Shaped, Known, Earned, EarnedStep, VerifiedStep, Fields
    <2> QED BY <2>1, <2>2, Local DEF Only
  <1>5. CASE Decision(s) \notin {"accept", "reject"}
    <2>1. Only(s, r)
      BY <1>5 DEF Verify
    <2>2. StepInv(st[s], r, OnFile)
      BY <1>1, <1>2, <1>5
      DEF Verdict, StepInv, SessionInv, Shaped, Known, Earned, EarnedStep, VerifiedStep, Fields
    <2> QED BY <2>1, <2>2, Local DEF Only
  <1> QED BY <1>3, <1>4, <1>5

(* The files change: a session that has read them is marked, and no other   *)
(* is concerned.                                                            *)
LEMMA NoticedGood ==
  ASSUME ClientInv, NEW t \in Sessions
  PROVE  /\ SessionInv(Noticed(st[t]), OnFile')
         /\ EarnedStep(st[t], Noticed(st[t]))
         /\ VerifiedStep(st[t], Noticed(st[t]), OnFile, OnFile')
  <1> DEFINE now == st[t].changed \/ (st[t].pc \in {"verify", "remember"} /\ OnFile' # OnFile)
             q == [st[t] EXCEPT !.changed = now]
  <1>1. SessionInv(st[t], OnFile)
    BY DEF ClientInv
  <1>2. Noticed(st[t]) = q
    BY <1>1 DEF Noticed, SessionInv, Shaped, Fields
  <1>3. now \in BOOLEAN
    BY <1>1 DEF SessionInv, Shaped
  <1>4. ~now => ~st[t].changed /\ (st[t].pc \notin {"verify", "remember"} \/ OnFile' = OnFile)
    OBVIOUS
  <1> HIDE DEF now
  <1>5. Shaped(q) /\ OptionsKept(q.opt) /\ Earned(q)
    BY <1>1, <1>3 DEF SessionInv, Shaped, Earned, Fields
  <1>6. Known(q, OnFile')
    BY <1>1, <1>3, <1>4 DEF SessionInv, Shaped, Known, Fields
  <1>7. EarnedStep(st[t], q) /\ VerifiedStep(st[t], q, OnFile, OnFile')
    BY <1>1 DEF SessionInv, Shaped, EarnedStep, VerifiedStep, Fields
  <1> QED BY <1>2, <1>5, <1>6, <1>7 DEF SessionInv

(* The host key is written to the file before the policy accepts it, or it  *)
(* is not accepted.                                                         *)
LEMMA RememberGood ==
  ASSUME ClientInv, NEW s \in Sessions, Remember(s)
  PROVE  GoodStep
  <1>1. SessionInv(st[s], OnFile) /\ st[s].pc = "remember"
    BY DEF ClientInv, Remember, At
  <1>2. CASE Only(s, [st[s] EXCEPT !.pc = "idle"])
    <2>1. StepInv(st[s], [st[s] EXCEPT !.pc = "idle"], OnFile)
      BY <1>1 DEF StepInv, SessionInv, Shaped, Known, Earned, EarnedStep, VerifiedStep, Fields
    <2> QED BY <1>2, <2>1, Local DEF Only
  <1>3. CASE Appended(s)
    <2> DEFINE q == Accepted(st[s])
    <2>1. st[s].key \in OnFile'
      BY <1>3 DEF Appended, OnFile
    <2>2. SessionInv(q, OnFile') /\ EarnedStep(st[s], q) /\ VerifiedStep(st[s], q, OnFile, OnFile')
      BY <1>1, <2>1
      DEF Accepted, SessionInv, Shaped, Known, Earned, EarnedStep, VerifiedStep, Fields
    <2>3. st' = [t \in Sessions |-> IF t = s THEN q ELSE Noticed(st[t])] /\ exists' = TRUE
      BY <1>3 DEF Appended
    <2> HIDE DEF q
    <2>4. ASSUME NEW t \in Sessions
          PROVE  /\ SessionInv(st'[t], OnFile') /\ EarnedStep(st[t], st'[t])
                 /\ VerifiedStep(st[t], st'[t], OnFile, OnFile')
      <3>1. CASE t = s
        BY <2>2, <2>3, <3>1
      <3>2. CASE t # s
        BY <2>3, <3>2, NoticedGood
      <3> QED BY <3>1, <3>2
    <2>5. st' = [t \in Sessions |-> st'[t]]
      BY <2>3
    <2> QED BY <2>3, <2>4, <2>5 DEF ClientInv, GoodStep
  <1> QED BY <1>2, <1>3 DEF Remember

(* Other programs change the files, or remove the user's with all that is   *)
(* in it.                                                                   *)
LEMMA FilesBecomeGood ==
  ASSUME ClientInv, NEW u, NEW g, NEW e, FilesBecome(u, g, e), e \/ u = {}
  PROVE  GoodStep
  <1>1. st' = [t \in Sessions |-> Noticed(st[t])] /\ user' = u /\ exists' = e
    BY DEF FilesBecome
  <1>2. ASSUME NEW t \in Sessions
        PROVE  /\ SessionInv(st'[t], OnFile') /\ EarnedStep(st[t], st'[t])
               /\ VerifiedStep(st[t], st'[t], OnFile, OnFile')
    BY <1>1, NoticedGood
  <1>3. st' = [t \in Sessions |-> st'[t]]
    BY <1>1
  <1> QED BY <1>1, <1>2, <1>3 DEF ClientInv, GoodStep

LEMMA FilesGood ==
  ASSUME ClientInv, NEW k, AddKnownHost(k) \/ EditFiles(k)
  PROVE  GoodStep
  BY FilesBecomeGood DEF ClientInv, AddKnownHost, EditFiles

(* The server's success is recorded as granted, but for an offered key.     *)
LEMMA ServerAnswersGood ==
  ASSUME ClientInv, NEW s \in Sessions, ServerAnswers(s)
  PROVE  GoodStep
  <1>1. PICK a \in Answers(s, st[s].pend) :
          Only(s, [st[s] EXCEPT
                  !.ans = a,
                  !.left = IF a \in {"success", "partial"} THEN @ \ {Method(st[s].pend)} ELSE @,
                  !.granted = @ \/ (a = "success" /\ st[s].pend # "offer")])
    BY DEF ServerAnswers
  <1> DEFINE left == IF a \in {"success", "partial"} THEN st[s].left \ {Method(st[s].pend)}
                     ELSE st[s].left
             granted == st[s].granted \/ (a = "success" /\ st[s].pend # "offer")
             q == [st[s] EXCEPT !.ans = a, !.left = left, !.granted = granted]
  <1>2. SessionInv(st[s], OnFile)
    BY DEF ClientInv
  <1>3. Only(s, q)
    BY <1>1, <1>2, Zenon DEF SessionInv, Shaped
  <1>4. granted \in BOOLEAN /\ (st[s].granted => granted)
        /\ (a = "success" /\ st[s].pend # "offer" => granted)
    BY <1>2 DEF SessionInv, Shaped
  <1> HIDE DEF left, granted
  <1>5. StepInv(st[s], q, OnFile)
    BY <1>2, <1>4 DEF StepInv, SessionInv, Shaped, Known, Earned, EarnedStep, VerifiedStep, Fields
  <1> QED BY <1>3, <1>5, Local DEF Only

(* authenticate() and the try_auth functions start on a connection.         *)
LEMMA AuthenticateGood ==
  ASSUME ClientInv, NEW s \in Sessions, Authenticate(s)
  PROVE  GoodStep
  <1>1. PICK c \in Chains :
          Only(s, [st[s] EXCEPT !.pc = "call", !.todo = c, !.res = "none", !.late = FALSE])
    BY DEF Authenticate
  <1> DEFINE q == [st[s] EXCEPT !.pc = "call", !.todo = c, !.res = "none", !.late = FALSE]
  <1>2. SessionInv(st[s], OnFile) /\ st[s].key # <<>>
    BY DEF ClientInv, Authenticate
  <1>3. StepInv(st[s], q, OnFile)
    BY <1>2 DEF StepInv, SessionInv, Shaped, Known, Earned, EarnedStep, VerifiedStep, Fields
  <1> QED BY <1>1, <1>3, Local DEF Only

(* ssh_userauth_none() succeeded: the server has granted it.                *)
LEMMA AuthMethodsGood ==
  ASSUME ClientInv, NEW s \in Sessions, AuthMethods(s)
  PROVE  GoodStep
  <1> DEFINE q == [st[s] EXCEPT !.authed = TRUE, !.granted = TRUE]
  <1>1. SessionInv(st[s], OnFile) /\ st[s].key # <<>> /\ Only(s, q)
    BY DEF ClientInv, AuthMethods
  <1>2. StepInv(st[s], q, OnFile)
    BY <1>1 DEF StepInv, SessionInv, Shaped, Known, Earned, EarnedStep, VerifiedStep, Fields
  <1> QED BY <1>1, <1>2, Local DEF Only

(* How attempt() ends, from the session as it is or with the answer taken.  *)
LEMMA SettleGood ==
  ASSUME ClientInv, NEW s \in Sessions, NEW r, NEW q, q \in {st[s], Consumed(st[s])},
         Calling(s), Settle(s, r, q), r = "success" => st[s].granted
  PROVE  GoodStep
  <1>1. SessionInv(st[s], OnFile) /\ st[s].pc \in {"call", "sign", "retry"}
    BY DEF ClientInv, Calling
  <1>2. /\ SessionInv(q, OnFile) /\ q.pc = st[s].pc
        /\ q.authed = st[s].authed /\ q.key = st[s].key /\ q.granted = st[s].granted
        /\ q.res = st[s].res /\ q.verified = st[s].verified
    BY <1>1 DEF Consumed, SessionInv, Shaped, Known, Earned, Fields
  <1>3. CASE r \in {"error", "success"} \/ Len(st[s].todo) = 1
    <2> DEFINE p == [q EXCEPT !.pc = "idle", !.res = r, !.todo = <<>>,
                              !.authed = @ \/ r = "success"]
    <2>1. Only(s, p)
      BY <1>3 DEF Settle
    <2>2. SessionInv(p, OnFile)
      BY <1>1, <1>2 DEF SessionInv, Shaped, Known, Earned, Fields
    <2>3. EarnedStep(st[s], p) /\ VerifiedStep(st[s], p, OnFile, OnFile)
      BY <1>1, <1>2 DEF SessionInv, Shaped, Earned, EarnedStep, VerifiedStep, Fields
    <2> QED BY <2>1, <2>2, <2>3, Local DEF Only, StepInv
  <1>4. CASE ~(r \in {"error", "success"} \/ Len(st[s].todo) = 1)
    <2> DEFINE p == [q EXCEPT !.pc = "call", !.todo = Tail(@), !.late = FALSE]
    <2>1. Only(s, p)
      BY <1>4 DEF Settle
    <2>2. StepInv(st[s], p, OnFile)
      BY <1>1, <1>2 DEF StepInv, SessionInv, Shaped, Known, Earned, EarnedStep, VerifiedStep, Fields
    <2> QED BY <2>1, <2>2, Local DEF Only
  <1> QED BY <1>3, <1>4

(* The steps inside a call that change pc, pend, ans or late alone.         *)
LEMMA InsideGood ==
  ASSUME ClientInv, NEW s \in Sessions, Calling(s), NEW q, Only(s, q),
         \/ st[s].pend = "none" /\ q = [st[s] EXCEPT !.pend = Request(s)]
         \/ q = [st[s] EXCEPT !.pc = "retry"]
         \/ q = [st[s] EXCEPT !.late = TRUE]
         \/ q = [st[s] EXCEPT !.ans = "none"]
         \/ q = [Consumed(st[s]) EXCEPT !.pc = "sign"]
  PROVE  GoodStep
  <1>1. SessionInv(st[s], OnFile) /\ st[s].pc \in {"call", "sign", "retry"}
    BY DEF ClientInv, Calling
  <1> DEFINE Good == StepInv(st[s], q, OnFile)
  <1>2. ASSUME st[s].pend = "none" /\ q = [st[s] EXCEPT !.pend = Request(s)]
        PROVE  Good
    BY <1>1, <1>2 DEF StepInv, SessionInv, Shaped, Known, Earned, EarnedStep, VerifiedStep, Fields
  <1>3. ASSUME q = [st[s] EXCEPT !.pc = "retry"]
        PROVE  Good
    BY <1>1, <1>3 DEF StepInv, SessionInv, Shaped, Known, Earned, EarnedStep, VerifiedStep, Fields
  <1>4. ASSUME q = [st[s] EXCEPT !.late = TRUE]
        PROVE  Good
    BY <1>1, <1>4 DEF StepInv, SessionInv, Shaped, Known, Earned, EarnedStep, VerifiedStep, Fields
  <1>5. ASSUME q = [st[s] EXCEPT !.ans = "none"]
        PROVE  Good
    BY <1>1, <1>5 DEF StepInv, SessionInv, Shaped, Known, Earned, EarnedStep, VerifiedStep, Fields
  <1>6. ASSUME q = [Consumed(st[s]) EXCEPT !.pc = "sign"]
        PROVE  Good
    BY <1>1, <1>6 DEF Consumed, StepInv, SessionInv, Shaped, Known, Earned, EarnedStep, VerifiedStep, Fields
  <1> QED BY <1>2, <1>3, <1>4, <1>5, <1>6, Local DEF Only

(* The steps of the authentication calls, each with the answer that it      *)
(* takes.                                                                   *)
LEMMA AttemptGood ==
  ASSUME ClientInv, NEW s \in Sessions, Attempt(s) \/ Deadline(s)
  PROVE  GoodStep
  <1>0. SessionInv(st[s], OnFile)
    BY DEF ClientInv
  <1>1. CASE Send(s)
    BY <1>1, InsideGood DEF Send
  <1>2. CASE NoPassword(s)
    BY <1>2, SettleGood DEF NoPassword, Calling, At
  <1>3. CASE WrongState(s)
    BY <1>3, SettleGood DEF WrongState
  <1>4. CASE Again(s)
    BY <1>4, SettleGood DEF Again, Waiting
  <1>5. CASE AgainInteractive(s)
    BY <1>5, InsideGood DEF AgainInteractive, Waiting
  <1>6. CASE PublicKeyOffered(s)
    BY <1>6, InsideGood, SettleGood DEF PublicKeyOffered, Answered
  <1>7. CASE Attempted(s)
    <2>1. PICK a \in {"success", "denied", "partial", "error"} :
            Answered(s, a) /\ Settle(s, a, Consumed(st[s]))
      BY <1>7 DEF Attempted
    <2>2. a = "success" => st[s].granted
      BY <1>0, <1>7, <2>1 DEF Attempted, Answered, SessionInv, Earned
    <2> QED BY <2>1, <2>2, SettleGood DEF Answered
  <1>8. CASE Prompted(s)
    BY <1>8, InsideGood, SettleGood DEF Prompted
  <1>9. CASE Interactive(s)
    <2>1. PICK a \in {"success", "denied", "partial", "error"} :
            Answered(s, a) /\ Settle(s, a, Consumed(st[s]))
      BY <1>9 DEF Interactive
    <2>2. a = "success" => st[s].granted
      BY <1>0, <1>9, <2>1 DEF Interactive, Answered, SessionInv, Earned
    <2> QED BY <2>1, <2>2, SettleGood DEF Answered
  <1>10. CASE Deadline(s)
    BY <1>10, InsideGood DEF Deadline, Waiting
  <1> QED BY <1>1, <1>2, <1>3, <1>4, <1>5, <1>6, <1>7, <1>8, <1>9, <1>10 DEF Attempt

(* Every step keeps the invariant and reports no success that was not       *)
(* earned, one case per action.                                             *)
LEMMA ClientStep ==
  ASSUME ClientInv, [ClientNext]_clientVars
  PROVE  GoodStep
  <1>1. CASE UNCHANGED clientVars
    <2>1. st' = st /\ exists' = exists /\ user' = user /\ OnFile' = OnFile
      BY <1>1 DEF clientVars, OnFile
    <2> QED BY <2>1 DEF GoodStep, ClientInv, EarnedStep, VerifiedStep
  <1>2. ASSUME NEW s \in Sessions, Client(s) PROVE GoodStep
    BY <1>2, ConstructGood, SetOptionsGood, ConnectGood, DisconnectGood, CheckKnownHostGood,
       VerifyGood, RememberGood, AuthenticateGood, AuthMethodsGood DEF Client
  <1> QED BY <1>1, <1>2, AttemptGood, ServerAnswersGood, FilesGood DEF ClientNext

(* The invariant holds in every reachable state.                            *)
LEMMA ClientInvariant == ClientSpec => []ClientInv
  <1>1. ClientInit => ClientInv
    BY FreshInv DEF ClientInit, ClientInv
  <1>2. ClientInv /\ [ClientNext]_clientVars => ClientInv'
    BY ClientStep DEF GoodStep
  <1> QED BY <1>1, <1>2, PTL DEF ClientSpec

(* A session that is connected uses the known_hosts file of the options     *)
(* that named its host, or of later ones, for any number of applications    *)
(* and errors of apply_options() and with the configuration read behind     *)
(* them, unless those options name no file or the configuration does.       *)
THEOREM KnownHostsHolds == ClientSpec => []KnownHostsInForce
  <1>1. ClientInv => KnownHostsInForce
    BY DEF ClientInv, SessionInv, OptionsKept, KnownHostsInForce
  <1> QED BY <1>1, ClientInvariant, PTL

(* The strict and the trust-on-first-use policy accept only a key that is   *)
(* in a known_hosts file, and trust a new one only where there was none:    *)
(* for any number of sessions and programs that write the files, unless     *)
(* they do so between the check and the verdict of this very session, or    *)
(* strict checking is off.                                                  *)
THEOREM VerifiedHolds == ClientSpec => VerifiedIsKnown
  <1>1. ClientInv /\ [ClientNext]_clientVars =>
          [\A s \in Sessions :
             /\ st[s].verified = "none" /\ st'[s].verified \in {"strict", "tofu"}
             /\ st[s].strict /\ ~st[s].changed
             => /\ st'[s].key \in OnFile'
                /\ st'[s].key \notin OnFile => OnFile = {}]_clientVars
    BY ClientStep DEF GoodStep, VerifiedStep
  <1> QED BY <1>1, ClientInvariant, PTL DEF ClientSpec, VerifiedIsKnown

(* No call reports a success and authenticated() never turns true unless    *)
(* the server granted the user access on this connection, with answers      *)
(* that arrive after their call has timed out among them.                   *)
THEOREM AuthEarnedHolds == ClientSpec => AuthEarned
  <1>1. ClientInv /\ [ClientNext]_clientVars =>
          [\A s \in Sessions :
       (st'[s].res = "success" /\ st[s].res # "success") \/ (st'[s].authed /\ ~st[s].authed)
         => st'[s].granted /\ st'[s].key # <<>>]_clientVars
    BY ClientStep DEF GoodStep, EarnedStep
  <1> QED BY <1>1, ClientInvariant, PTL DEF ClientSpec, AuthEarned

-----------------------------------------------------------------------------
(* ------------------------------- Programs -------------------------------- *)

(* ---------------------- what the steps may change ------------------------ *)

(* The terminal is changed by the shell program and by its window alone.    *)
LEMMA TermChanges ==
  ASSUME [Next]_vars
  PROVE  \/ UNCHANGED term
         \/ EnterRaw \/ ResetFlag \/ LoopTop \/ ReadSize \/ TryResize \/ Restore \/ Drain
         \/ \E z \in Sizes : WindowChanges(z)
  BY DEF Next, vars, RequestStep, LocalStep, Remote, User, OpenChannel, RequestEnv, RequestPty, RequestExec,
         RequestShell, StartProcess, WriteStdin, SendEof, ReadOut, ReadErr, Check, WaitExit, Show,
         NoKey, StdinEnds, Key, WriteKey, RemoteReads, RemoteAnswers, RemoteWrites, RemoteEnds,
         RemoteCloses, RemoteOnly, ConnectionLost, DeadlinePasses, Done

(* What was typed and sent changes with the keys alone.                     *)
LEMMA KeysChanges ==
  ASSUME [Next]_vars
  PROVE  UNCHANGED keys \/ WriteKey \/ \E c \in Keys : Key(c)
  BY DEF Next, vars, RequestStep, LocalStep, Remote, User, OpenChannel, RequestEnv, RequestPty, RequestExec,
         RequestShell, StartProcess, WriteStdin, SendEof, ReadOut, ReadErr, Check, WaitExit, Show,
         NoKey, StdinEnds, EnterRaw, ResetFlag, LoopTop, ReadSize, TryResize, Restore, Drain,
         WindowChanges, RemoteReads,
         RemoteAnswers, RemoteWrites, RemoteEnds,
         RemoteCloses, RemoteOnly, ConnectionLost, DeadlinePasses, Done

(* The remote process is changed by requests, by input and by itself.       *)
LEMMA RemoteChanges ==
  ASSUME [Next]_vars
  PROVE  \/ UNCHANGED <<remote, link>>
         \/ RequestExec \/ RequestShell \/ WriteStdin \/ SendEof \/ WriteKey \/ Remote
         \/ ConnectionLost
  BY DEF Next, vars, chan, RequestStep, LocalStep, User, OpenChannel, RequestEnv, RequestPty, ReadOut, ReadErr,
         Check, WaitExit, Show, NoKey, EnterRaw, ResetFlag, LoopTop, ReadSize, TryResize, Restore,
         Drain, WindowChanges, StdinEnds, Key, DeadlinePasses, Done

(* Output arrives, is collected and is shown; nothing else touches it.      *)
LEMMA OutputChanges ==
  ASSUME [Next]_vars
  PROVE  \/ UNCHANGED <<buf, wrote, kept, cut>>
         \/ ReadOut \/ ReadErr \/ Show \/ Drain
         \/ RemoteAnswers \/ \E s \in Streams : RemoteWrites(s)
  BY DEF Next, vars, chan, RequestStep, LocalStep, Remote, User, OpenChannel, RequestEnv, RequestPty, RequestExec,
         RequestShell, StartProcess, WriteStdin, SendEof, Check, WaitExit, NoKey, EnterRaw,
         ResetFlag, LoopTop, ReadSize, TryResize, Restore, WindowChanges, StdinEnds, Key, WriteKey,
         ShellOnly, RemoteReads, RemoteEnds,
         RemoteCloses, RemoteOnly, ConnectionLost, DeadlinePasses, Done

(* The options of the call do not change.                                   *)
LEMMA ConfKept == ASSUME [Next]_vars PROVE UNCHANGED conf
  BY DEF Next, vars, chan, RequestStep, LocalStep, Remote, User, OpenChannel, RequestEnv, RequestPty, RequestExec,
         RequestShell, StartProcess, WriteStdin, SendEof, ReadOut, ReadErr, Check, WaitExit, Show,
         NoKey, EnterRaw, ResetFlag, LoopTop, ReadSize, TryResize, Restore, Drain, WindowChanges,
         StdinEnds, Key, WriteKey, ShellOnly, RemoteReads, RemoteAnswers, RemoteWrites, RemoteEnds,
         RemoteCloses, RemoteOnly, ConnectionLost, DeadlinePasses, Done

(* The program moves in its own steps alone.                                *)
LEMMA PlaceChanges ==
  ASSUME [Next]_vars
  PROVE  UNCHANGED <<pc, result>> \/ RequestStep \/ LocalStep \/ StdinEnds \/ \E c \in Keys : Key(c)
  BY DEF Next, vars, chan, Remote, User, WindowChanges, 
         ShellOnly, RemoteReads, RemoteAnswers, RemoteWrites, RemoteEnds,
         RemoteCloses, RemoteOnly, ConnectionLost, DeadlinePasses, Done

-----------------------------------------------------------------------------
(* The places in exec() and in shell().                                     *)
ExecPlaces == {"open", "env", "pty", "exec", "stdin", "eof", "out", "err", "check", "exit", "done"}
ShellPlaces == {"open", "pty", "env", "shell", "raw", "reset", "loop", "ioctl", "resize", "show",
                "keys", "write", "restore", "drain", "done"}

(* Where each program can be, and what it has returned there.               *)
Placed ==
  /\ conf \in Configurations
  /\ pc \in IF conf.program = "exec" THEN ExecPlaces ELSE ShellPlaces
  /\ result \in {"none", "ok", "error", "timed_out", "detached"}
  /\ result = "detached" => pc \in {"restore", "done"}
  /\ result \in {"ok", "error", "timed_out"} => pc = "done"

(* A request that succeeded is followed by another of the same program.     *)
LEMMA FollowsPlaces ==
  ASSUME Placed, pc \in {"open", "env", "pty", "exec", "shell"}
  PROVE  /\ Follows[pc] \in IF conf.program = "exec" THEN ExecPlaces ELSE ShellPlaces
         /\ Follows[pc] \in {"env", "pty", "exec", "stdin", "shell", "raw"}
  BY DEF Placed, Follows, ExecSteps, ShellSteps, ExecPlaces, ShellPlaces

(* Each program stays in its places, one case per group of actions.         *)
LEMMA StepPlaced == ASSUME Placed, [Next]_vars PROVE Placed'
  <1> USE DEF Placed
  <1>0. /\ pc \in {"stdin", "eof", "out", "err", "check", "exit"} => conf.program = "exec"
        /\ pc \in {"raw", "reset", "loop", "ioctl", "resize", "show", "keys", "write", "restore",
                   "drain"} => conf.program = "shell"
        /\ UNCHANGED conf
    BY ConfKept DEF Configurations, ExecPlaces, ShellPlaces
  <1>1. CASE OpenChannel \/ RequestEnv \/ RequestPty \/ RequestExec \/ RequestShell
    BY <1>0, <1>1, FollowsPlaces
    DEF OpenChannel, RequestEnv, RequestPty, RequestExec, RequestShell, StartProcess, Return,
        ExecPlaces, ShellPlaces
  <1>2. CASE WriteStdin \/ SendEof \/ Check \/ WaitExit
    BY <1>0, <1>2 DEF WriteStdin, SendEof, Check, WaitExit, Return, ExecPlaces
  <1>3. CASE ReadOut \/ ReadErr
    BY <1>0, <1>3 DEF ReadOut, ReadErr, ReadStream, Return, ExecPlaces
  <1>4. CASE \/ EnterRaw \/ ResetFlag \/ LoopTop \/ ReadSize \/ TryResize \/ Show \/ NoKey
             \/ StdinEnds \/ WriteKey
    BY <1>0, <1>4
    DEF EnterRaw, ResetFlag, LoopTop, ReadSize, TryResize, Show, NoKey, StdinEnds, WriteKey,
        ShellPlaces
  <1>5. CASE Restore \/ Drain
    BY <1>0, <1>5 DEF Restore, Drain, Return, ShellPlaces
  <1>6. ASSUME NEW c \in Keys, Key(c) PROVE Placed'
    BY <1>0, <1>6 DEF Key, ShellPlaces
  <1>7. CASE UNCHANGED <<pc, result>>
    BY <1>0, <1>7
  <1> QED BY <1>1, <1>2, <1>3, <1>4, <1>5, <1>6, <1>7, PlaceChanges DEF RequestStep, LocalStep

-----------------------------------------------------------------------------
(* The type of the terminal.                                                *)
TermType ==
  term \in [raw : BOOLEAN, handler : BOOLEAN, flag : BOOLEAN, caught : BOOLEAN, size : Sizes,
            asked : Sizes, pty : Sizes, refused : BOOLEAN]

(* The handler is there until the loop is left, so that a change sets the   *)
(* flag at every place in it.                                               *)
InLoop == {"loop", "ioctl", "resize", "show", "keys", "write"}
ResizeInv ==
  /\ TermType
  /\ pc \in {"reset"} \cup InLoop => term.handler
  /\ ResizePending

(* The terminal as the call finds it.                                       *)
LEMMA InitResize == Init => ResizeInv
  <1> SUFFICES ASSUME Init PROVE ResizeInv
    OBVIOUS
  <1>1. SizesAtStart \subseteq Sizes
    BY ProgramsAssumption DEF SizesAtStart
  <1>2. PICK z \in Sizes, w \in Sizes :
          term = [raw |-> FALSE, handler |-> FALSE, flag |-> FALSE, caught |-> FALSE,
                  size |-> z, asked |-> w, pty |-> w, refused |-> FALSE]
    BY <1>1 DEF Init
  <1>3. pc = "open"
    BY DEF Init
  <1> QED BY <1>2, <1>3 DEF ResizeInv, TermType, InLoop, ResizePending

(* No size is lost, one case per action that touches the terminal.          *)
LEMMA StepResize == ASSUME Placed, ResizeInv, [Next]_vars PROVE ResizeInv'
  <1> USE DEF ResizeInv, TermType, InLoop, ResizePending
  <1>1. CASE EnterRaw
    BY <1>1 DEF EnterRaw
  <1>2. CASE ResetFlag
    BY <1>2 DEF ResetFlag
  <1>3. CASE LoopTop
    BY <1>3 DEF LoopTop
  <1>8. CASE ReadSize
    BY <1>8 DEF ReadSize
  <1>9. CASE TryResize
    BY <1>9 DEF TryResize, ChangePtySize
  <1>4. CASE Restore
    BY <1>4 DEF Restore
  <1>5. CASE Drain
    BY <1>5 DEF Drain, Return
  <1>6. ASSUME NEW z \in Sizes, WindowChanges(z) PROVE ResizeInv'
    BY <1>6 DEF WindowChanges
  <1>7. CASE UNCHANGED term
    <2> DEFINE settled == {"loop", "show", "keys", "write"}
               stays == \/ UNCHANGED pc \/ pc' \notin {"reset"} \cup InLoop
                        \/ pc \in settled /\ pc' \in settled
    <2>1. CASE OpenChannel \/ RequestEnv \/ RequestPty \/ RequestExec \/ RequestShell
      <3>1. stays
        BY <2>1, FollowsPlaces
        DEF OpenChannel, RequestEnv, RequestPty, RequestExec, RequestShell, StartProcess, Return
      <3> QED BY <1>7, <3>1
    <2>2. CASE \/ WriteStdin \/ SendEof \/ ReadOut \/ ReadErr \/ Check \/ WaitExit
               \/ Show \/ NoKey \/ StdinEnds \/ WriteKey \/ \E c \in Keys : Key(c)
      <3>1. stays
        BY <2>2 DEF WriteStdin, SendEof, ReadOut, ReadErr, ReadStream, Check, WaitExit, Return, Show,
                    NoKey, StdinEnds, WriteKey, Key
      <3> QED BY <1>7, <3>1
    <2>3. CASE UNCHANGED <<pc, result>>
      BY <1>7, <2>3
    <2> QED
      BY <1>1, <1>2, <1>3, <1>4, <1>5, <1>8, <1>9, <2>1, <2>2, <2>3, PlaceChanges
      DEF RequestStep, LocalStep
  <1> QED BY <1>1, <1>2, <1>3, <1>4, <1>5, <1>6, <1>7, <1>8, <1>9, TermChanges

-----------------------------------------------------------------------------
(* The type of the remote process.                                          *)
RemoteType ==
  /\ link \in BOOLEAN
  /\ remote \in [up : BOOLEAN, input : Nat, inEof : BOOLEAN, owes : {0, 1}, eof : BOOLEAN,
                 status : BOOLEAN, closed : BOOLEAN]

(* The remote process keeps its type and takes back neither its end of      *)
(* output nor its close, and a lost connection stays lost.                  *)
LEMMA StepRemote ==
  ASSUME RemoteType, [Next]_vars
  PROVE  /\ RemoteType' /\ (remote.eof => remote'.eof)
         /\ ~link \/ remote.closed => ~link' \/ remote'.closed
  <1> USE DEF RemoteType
  <1>1. CASE UNCHANGED <<remote, link>>
    BY <1>1
  <1>2. CASE RequestExec \/ RequestShell
    <2>1. link' = link /\ (remote' = remote \/ remote' = [remote EXCEPT !.up = TRUE])
      BY <1>2 DEF RequestExec, RequestShell, StartProcess
    <2> QED BY <2>1
  <1>3. CASE WriteStdin \/ WriteKey
    <2>1. link' = link /\ (remote' = remote \/ remote' = [remote EXCEPT !.input = remote.input + 1])
      BY <1>3 DEF WriteStdin, WriteKey
    <2> QED BY <2>1
  <1>4. CASE SendEof
    <2>1. link' = link /\ remote' = [remote EXCEPT !.inEof = link]
      BY <1>4 DEF SendEof
    <2> QED BY <2>1
  <1>5. CASE RemoteReads
    <2>1. remote.input \in Nat /\ remote.input > 0
      BY <1>5 DEF RemoteReads
    <2>2. remote.input - 1 \in Nat
      BY <2>1
    <2>3. PICK n \in {0, 1} :
            remote' = [remote EXCEPT !.input = remote.input - 1, !.owes = n] /\ link' = link
      BY <1>5 DEF RemoteReads
    <2> QED BY <2>2, <2>3
  <1>6. CASE RemoteAnswers
    <2>1. link' = link /\ remote' = [remote EXCEPT !.owes = 0]
      BY <1>6 DEF RemoteAnswers
    <2> QED BY <2>1
  <1>7. CASE RemoteEnds
    <2>1. PICK b \in BOOLEAN : link' = link /\ remote' = [remote EXCEPT !.eof = TRUE, !.status = b]
      BY <1>7 DEF RemoteEnds
    <2> QED BY <2>1
  <1>8. CASE RemoteCloses
    <2>1. PICK b \in BOOLEAN : link' = link /\ remote' = [remote EXCEPT !.closed = TRUE, !.status = b]
      BY <1>8 DEF RemoteCloses
    <2> QED BY <2>1
  <1>9. CASE \E s \in Streams : RemoteWrites(s)
    BY <1>1, <1>9 DEF RemoteWrites
  <1>10. CASE ConnectionLost
    <2>1. link' = FALSE /\ remote' = remote
      BY <1>10 DEF ConnectionLost
    <2> QED BY <2>1
  <1> QED BY <1>1, <1>2, <1>3, <1>4, <1>5, <1>6, <1>7, <1>8, <1>9, <1>10, RemoteChanges DEF Remote

-----------------------------------------------------------------------------
(* The type of the keys.                                                    *)
KeyRecords ==
  [lineStart : BOOLEAN, escape : BOOLEAN, typed : Seq(Keys), sent : Seq(Keys),
   lost : Seq(Keys), out : Seq(Keys)]
KeysType == keys \in KeyRecords

(* An escape is held back only inside a line; bytes are being written only  *)
(* at "write", where there are some and no escape is held back.             *)
KeysInv ==
  /\ KeysType
  /\ keys.lineStart => ~keys.escape
  /\ pc = "write" => keys.out # <<>> /\ ~keys.escape
  /\ pc # "write" => keys.out = <<>>
  /\ KeysForwarded

(* Nothing typed, nothing sent.                                             *)
LEMMA InitKeys == Init => KeysInv
  BY DEF Init, KeysInv, KeysType, KeyRecords, KeysForwarded

(* What one assignment does to such a record.                               *)
LEMMA KeyFields ==
  ASSUME NEW k \in KeyRecords
  PROVE  /\ k.lineStart \in BOOLEAN /\ k.escape \in BOOLEAN
         /\ k.typed \in Seq(Keys) /\ k.sent \in Seq(Keys) /\ k.lost \in Seq(Keys)
         /\ k.out \in Seq(Keys)
  BY DEF KeyRecords
LEMMA SetFlags ==
  ASSUME NEW k \in KeyRecords, NEW a \in BOOLEAN, NEW b \in BOOLEAN
  PROVE  LET n == [k EXCEPT !.escape = a, !.lineStart = b]
         IN  /\ n \in KeyRecords /\ n.escape = a /\ n.lineStart = b /\ n.typed = k.typed
             /\ n.sent = k.sent /\ n.lost = k.lost /\ n.out = k.out
  BY DEF KeyRecords
LEMMA SetTyped ==
  ASSUME NEW k \in KeyRecords, NEW t \in Seq(Keys)
  PROVE  LET n == [k EXCEPT !.typed = t]
         IN  /\ n \in KeyRecords /\ n.escape = k.escape /\ n.lineStart = k.lineStart
             /\ n.typed = t /\ n.sent = k.sent /\ n.lost = k.lost /\ n.out = k.out
  BY DEF KeyRecords
LEMMA SetOut ==
  ASSUME NEW k \in KeyRecords, NEW t \in Seq(Keys)
  PROVE  LET n == [k EXCEPT !.out = t]
         IN  /\ n \in KeyRecords /\ n.escape = k.escape /\ n.lineStart = k.lineStart
             /\ n.typed = k.typed /\ n.sent = k.sent /\ n.lost = k.lost /\ n.out = t
  BY DEF KeyRecords
LEMMA SetSent ==
  ASSUME NEW k \in KeyRecords, NEW t \in Seq(Keys)
  PROVE  LET n == [k EXCEPT !.sent = t]
         IN  /\ n \in KeyRecords /\ n.escape = k.escape /\ n.lineStart = k.lineStart
             /\ n.typed = k.typed /\ n.sent = t /\ n.lost = k.lost /\ n.out = k.out
  BY DEF KeyRecords
LEMMA SetLost ==
  ASSUME NEW k \in KeyRecords, NEW t \in Seq(Keys)
  PROVE  LET n == [k EXCEPT !.lost = t]
         IN  /\ n \in KeyRecords /\ n.escape = k.escape /\ n.lineStart = k.lineStart
             /\ n.typed = k.typed /\ n.sent = k.sent /\ n.lost = t /\ n.out = k.out
  BY DEF KeyRecords

(* Facts about sequences: the first of t goes to the end of s.              *)
LEMMA MoveHead ==
  ASSUME NEW S, NEW s \in Seq(S), NEW t \in Seq(S), t # <<>>
  PROVE  /\ s \o t = Append(s, Head(t)) \o Tail(t)
         /\ Append(s, Head(t)) \in Seq(S) /\ Tail(t) \in Seq(S) /\ Append(s, Head(t)) # <<>>
  OBVIOUS

(* An element at the end of t is one at the end of s \o t.                  *)
LEMMA AppendLast ==
  ASSUME NEW S, NEW s \in Seq(S), NEW t \in Seq(S), NEW e \in S
  PROVE  s \o Append(t, e) = Append(s \o t, e)
  OBVIOUS

(* The empty sequence adds nothing.                                         *)
LEMMA NothingAdded ==
  ASSUME NEW S, NEW s \in Seq(S)
  PROVE  s \o <<>> = s /\ <<>> \o s = s
  OBVIOUS

(* What has been forwarded or given up when nothing is being written.       *)
LEMMA KeysAtRest ==
  ASSUME KeysInv, pc # "write", result # "detached"
  PROVE  /\ keys.sent \o keys.lost \in Seq(Keys) /\ keys.typed \in Seq(Keys)
         /\ keys.typed = IF keys.escape THEN Append(keys.sent \o keys.lost, "escape")
                         ELSE keys.sent \o keys.lost
  <1> DEFINE x == keys.sent \o keys.lost
  <1>1. /\ keys.sent \in Seq(Keys) /\ keys.lost \in Seq(Keys) /\ keys.typed \in Seq(Keys)
        /\ keys.out = <<>>
    BY KeyFields DEF KeysInv, KeysType
  <1>2. x \in Seq(Keys)
    BY <1>1
  <1>3. keys.typed = x \o <<>> \o (IF keys.escape THEN <<"escape">> ELSE <<>>) \o <<>>
    BY <1>1 DEF KeysInv, KeysForwarded
  <1> HIDE DEF x
  <1>4. x \o <<>> = x
    BY <1>2, NothingAdded
  <1>5. CASE keys.escape
    <2>1. "escape" \in Keys
      BY DEF Keys
    <2>2. x \o <<"escape">> = Append(x, "escape") /\ x \o <<"escape">> \in Seq(Keys)
      BY <1>2, <2>1
    <2>3. keys.typed = x \o <<"escape">> \o <<>>
      BY <1>3, <1>4, <1>5
    <2> QED BY <1>1, <1>2, <1>5, <2>2, <2>3, NothingAdded DEF x
  <1>6. CASE ~keys.escape
    <2>1. keys.typed = x \o <<>> \o <<>>
      BY <1>3, <1>4, <1>6
    <2> QED BY <1>1, <1>2, <1>4, <1>6, <2>1 DEF x
  <1> QED BY <1>5, <1>6

(* The three things that a key does.                                        *)
LEMMA KeyHeld ==
  ASSUME Placed, KeysInv, NEW c \in Keys, pc = "keys", keys.lineStart, c = "escape",
         keys' = [keys EXCEPT !.typed = Append(keys.typed, c), !.escape = TRUE, !.lineStart = FALSE],
         pc' = "loop", UNCHANGED <<result, link, remote>>
  PROVE  KeysInv'
  <1> DEFINE x == keys.sent \o keys.lost
  <1>1. KeysType /\ keys.escape = FALSE /\ result # "detached" /\ keys.out = <<>>
    BY KeyFields DEF Placed, KeysInv, KeysType
  <1>2. x \in Seq(Keys) /\ keys.typed = x
    BY <1>1, KeysAtRest
  <1>3. KeysType' /\ keys'.typed = Append(keys.typed, c) /\ keys'.escape = TRUE
        /\ keys'.lineStart = FALSE
        /\ keys'.sent = keys.sent /\ keys'.lost = keys.lost /\ keys'.out = keys.out
    <2> DEFINE k == [keys EXCEPT !.typed = Append(keys.typed, c)]
    <2>1. keys' = [k EXCEPT !.escape = TRUE, !.lineStart = FALSE]
      OBVIOUS
    <2>2. Append(keys.typed, c) \in Seq(Keys) /\ keys \in KeyRecords
      BY <1>1, KeyFields DEF KeysType
    <2>3. /\ k \in KeyRecords /\ k.typed = Append(keys.typed, c) /\ k.sent = keys.sent
          /\ k.lost = keys.lost /\ k.out = keys.out
      BY <2>2, SetTyped
    <2> HIDE DEF k
    <2> DEFINE n == [k EXCEPT !.escape = TRUE, !.lineStart = FALSE]
    <2>4. /\ n \in KeyRecords /\ n.escape = TRUE /\ n.lineStart = FALSE /\ n.typed = k.typed
          /\ n.sent = k.sent /\ n.lost = k.lost /\ n.out = k.out
      BY <2>3, SetFlags
    <2>5. keys' = n
      BY <2>1
    <2> HIDE DEF n
    <2> QED BY <2>3, <2>4, <2>5, Zenon DEF KeysType
  <1> HIDE DEF x
  <1>4. Append(x, "escape") = x \o <<>> \o <<"escape">> \o <<>>
    BY <1>2, NothingAdded DEF Keys
  <1>5. keys'.typed = x \o keys'.out \o <<"escape">> \o <<>>
    BY <1>1, <1>2, <1>3, <1>4
  <1>6. KeysForwarded'
    BY <1>1, <1>3, <1>5 DEF KeysForwarded, KeysInv, x
  <1> QED BY <1>1, <1>3, <1>6 DEF KeysInv

(* A dot after it detaches.                                                 *)
LEMMA KeyDetaches ==
  ASSUME Placed, KeysInv, NEW c \in Keys, pc = "keys", keys.escape, c = "dot",
         keys' = [keys EXCEPT !.typed = Append(keys.typed, c), !.escape = FALSE],
         pc' = "restore", result' = "detached", UNCHANGED <<link, remote>>
  PROVE  KeysInv'
  <1> DEFINE x == keys.sent \o keys.lost
  <1>1. KeysType /\ keys.escape = TRUE /\ result # "detached" /\ keys.out = <<>>
    BY KeyFields DEF Placed, KeysInv, KeysType
  <1>2. x \in Seq(Keys) /\ keys.typed = Append(x, "escape") /\ keys.typed \in Seq(Keys)
    BY <1>1, KeysAtRest
  <1>3. KeysType' /\ keys'.typed = Append(keys.typed, c) /\ keys'.escape = FALSE
        /\ keys'.lineStart = keys.lineStart
        /\ keys'.sent = keys.sent /\ keys'.lost = keys.lost /\ keys'.out = keys.out
    <2> DEFINE k == [keys EXCEPT !.typed = Append(keys.typed, c)]
    <2>1. keys' = [k EXCEPT !.escape = FALSE]
      OBVIOUS
    <2>2. Append(keys.typed, c) \in Seq(Keys) /\ keys \in KeyRecords
      BY <1>1, KeyFields DEF KeysType
    <2>3. /\ k \in KeyRecords /\ k.typed = Append(keys.typed, c) /\ k.sent = keys.sent
          /\ k.lost = keys.lost /\ k.out = keys.out /\ k.lineStart = keys.lineStart
      BY <2>2, SetTyped
    <2> HIDE DEF k
    <2>4. [k EXCEPT !.escape = FALSE] = [k EXCEPT !.escape = FALSE, !.lineStart = k.lineStart]
      BY <2>3 DEF KeyRecords
    <2> DEFINE n == [k EXCEPT !.escape = FALSE, !.lineStart = k.lineStart]
    <2>5. /\ n \in KeyRecords /\ n.escape = FALSE /\ n.lineStart = k.lineStart
          /\ n.typed = k.typed /\ n.sent = k.sent /\ n.lost = k.lost /\ n.out = k.out
      <3>1. k.lineStart \in BOOLEAN /\ FALSE \in BOOLEAN
        BY <2>3, KeyFields
      <3> HIDE DEF k
      <3> QED BY <2>3, <3>1, SetFlags, Zenon
    <2>6. keys' = n
      BY <2>1, <2>4
    <2> HIDE DEF n
    <2> QED BY <2>3, <2>5, <2>6, Zenon DEF KeysType
  <1> HIDE DEF x
  <1>4. Append(Append(x, "escape"), "dot") = x \o <<>> \o <<>> \o <<"escape", "dot">>
    <2>1. "escape" \in Keys /\ "dot" \in Keys
      BY DEF Keys
    <2>2. x \o <<>> = x
      BY <1>2, NothingAdded
    <2> QED BY <1>2, <2>1, <2>2
  <1>5. keys'.typed = x \o keys'.out \o <<>> \o <<"escape", "dot">>
    BY <1>1, <1>2, <1>3, <1>4
  <1>6. KeysForwarded'
    BY <1>1, <1>3, <1>5 DEF KeysForwarded, KeysInv, x
  <1> QED BY <1>1, <1>3, <1>6 DEF KeysInv

(* Any other key is to be written, after the escape that was held back.     *)
LEMMA KeyForwarded ==
  ASSUME Placed, KeysInv, NEW c \in Keys, pc = "keys",
         keys' = [keys EXCEPT !.typed = Append(keys.typed, c), !.escape = FALSE,
                              !.lineStart = (c = "newline"), !.out = Forward(c)],
         pc' = "write", UNCHANGED <<result, link, remote>>
  PROVE  KeysInv'
  <1> DEFINE x == keys.sent \o keys.lost
  <1>1. KeysType /\ keys.escape \in BOOLEAN /\ result # "detached" /\ keys.out = <<>>
    BY KeyFields DEF Placed, KeysInv, KeysType
  <1>2. /\ x \in Seq(Keys) /\ keys.typed \in Seq(Keys)
        /\ keys.typed = IF keys.escape THEN Append(x, "escape") ELSE x
    BY <1>1, KeysAtRest
  <1>3. Forward(c) \in Seq(Keys) /\ Forward(c) # <<>>
    <2>1. "escape" \in Keys
      BY DEF Keys
    <2>2. <<"escape", c>> \in Seq(Keys) /\ <<c>> \in Seq(Keys)
      BY <2>1
    <2> QED BY <2>2 DEF Forward
  <1>4. KeysType' /\ keys'.typed = Append(keys.typed, c) /\ keys'.escape = FALSE
        /\ keys'.out = Forward(c) /\ keys'.sent = keys.sent /\ keys'.lost = keys.lost
    <2> DEFINE k == [keys EXCEPT !.typed = Append(keys.typed, c)]
               l == [k EXCEPT !.escape = FALSE, !.lineStart = (c = "newline")]
    <2>1. keys' = [l EXCEPT !.out = Forward(c)]
      OBVIOUS
    <2>2. /\ Append(keys.typed, c) \in Seq(Keys) /\ keys \in KeyRecords
          /\ (c = "newline") \in BOOLEAN
      BY <1>1, KeyFields DEF KeysType
    <2>3. /\ k \in KeyRecords /\ k.typed = Append(keys.typed, c) /\ k.sent = keys.sent
          /\ k.lost = keys.lost
      BY <2>2, SetTyped
    <2> HIDE DEF k
    <2>4. /\ l \in KeyRecords /\ l.typed = k.typed /\ l.sent = k.sent /\ l.lost = k.lost
          /\ l.escape = FALSE
      BY <2>2, <2>3, SetFlags
    <2> HIDE DEF l
    <2> DEFINE n == [l EXCEPT !.out = Forward(c)]
    <2>5. /\ n \in KeyRecords /\ n.escape = l.escape /\ n.typed = l.typed /\ n.sent = l.sent
          /\ n.lost = l.lost /\ n.out = Forward(c)
      BY <1>3, <2>4, SetOut
    <2>6. keys' = n
      BY <2>1
    <2> HIDE DEF n
    <2> QED BY <2>3, <2>4, <2>5, <2>6, Zenon DEF KeysType
  <1> HIDE DEF x
  <1>5. Append(keys.typed, c) = x \o Forward(c)
    <2>1. "escape" \in Keys
      BY DEF Keys
    <2>2. CASE keys.escape
      <3>1. Append(Append(x, "escape"), c) = x \o <<"escape", c>>
        BY <1>2, <2>1
      <3> QED BY <1>2, <2>2, <3>1 DEF Forward
    <2>3. CASE ~keys.escape
      <3>1. Append(x, c) = x \o <<c>>
        BY <1>2
      <3> QED BY <1>2, <2>3, <3>1 DEF Forward
    <2> QED BY <2>2, <2>3
  <1>6. x \o Forward(c) \in Seq(Keys) /\ x \o Forward(c) = x \o Forward(c) \o <<>> \o <<>>
    BY <1>2, <1>3, NothingAdded
  <1>7. keys'.typed = x \o keys'.out \o <<>> \o <<>>
    BY <1>4, <1>5, <1>6
  <1>8. KeysForwarded'
    BY <1>1, <1>4, <1>7 DEF KeysForwarded, KeysInv, x
  <1> QED BY <1>3, <1>4, <1>8 DEF KeysInv

(* A byte that is written goes from the front of what is to be written to   *)
(* the end of what was sent; one that cannot be, to the end of what is lost.*)
LEMMA WriteKeyKeeps ==
  ASSUME Placed, KeysInv, RemoteType, WriteKey
  PROVE  KeysInv'
  <1> DEFINE x == keys.sent \o keys.lost
             e == Head(keys.out)
  <1>1. KeysType /\ pc = "write" /\ result # "detached" /\ keys.out # <<>> /\ keys.escape = FALSE
    BY KeyFields DEF Placed, KeysInv, KeysType, WriteKey
  <1>2. /\ keys.sent \in Seq(Keys) /\ keys.lost \in Seq(Keys) /\ keys.out \in Seq(Keys)
        /\ x \in Seq(Keys) /\ e \in Keys /\ Tail(keys.out) \in Seq(Keys)
    BY <1>1, KeyFields DEF KeysType
  <1>3. keys.typed = x \o keys.out
    <2>1. keys.typed = x \o keys.out \o <<>> \o <<>>
      BY <1>1 DEF KeysInv, KeysForwarded
    <2>2. x \o keys.out \in Seq(Keys)
      BY <1>2
    <2> HIDE DEF x
    <2> QED BY <2>1, <2>2, NothingAdded
  <1>4. x \o keys.out = Append(x, e) \o Tail(keys.out) /\ Append(x, e) \in Seq(Keys)
    BY <1>1, <1>2, MoveHead
  <1>5. /\ keys'.typed = keys.typed /\ keys'.out = Tail(keys.out) /\ keys'.escape = FALSE
        /\ keys'.lineStart = keys.lineStart /\ UNCHANGED result
        /\ pc' = IF Tail(keys.out) = <<>> THEN "loop" ELSE "write"
    BY <1>1 DEF WriteKey, KeysType, KeyRecords
  <1>6. KeysType' /\ keys'.sent \o keys'.lost = Append(x, e)
    <2>1. CASE WindowOpen /\ keys' = [keys EXCEPT !.sent = Append(@, Head(keys.out)), !.out = Tail(@)]
      <3>1. keys.lost = <<>>
        BY <2>1 DEF WindowOpen, KeysInv, KeysForwarded
      <3>2. keys'.sent = Append(keys.sent, e) /\ keys'.lost = <<>> /\ KeysType'
        <4> DEFINE k == [keys EXCEPT !.sent = Append(keys.sent, e)]
        <4>1. keys' = [k EXCEPT !.out = Tail(keys.out)]
          BY <1>1, <1>2, <2>1 DEF KeysType, KeyRecords
        <4>2. /\ k \in KeyRecords /\ k.sent = Append(keys.sent, e) /\ k.lost = keys.lost
          <5>1. Append(keys.sent, e) \in Seq(Keys) /\ keys \in KeyRecords
            BY <1>1, <1>2 DEF KeysType
          <5> HIDE DEF e
          <5> QED BY <5>1, SetSent
        <4> HIDE DEF k, e
        <4> QED BY <1>2, <3>1, <4>1, <4>2, SetOut DEF KeysType
      <3>3. Append(keys.sent, e) \in Seq(Keys) /\ x = keys.sent
        BY <1>2, <3>1, NothingAdded
      <3> QED BY <3>2, <3>3, NothingAdded
    <2>2. CASE keys' = [keys EXCEPT !.lost = Append(@, Head(keys.out)), !.out = Tail(@)]
      <3>1. keys'.sent = keys.sent /\ keys'.lost = Append(keys.lost, e) /\ KeysType'
        <4> DEFINE k == [keys EXCEPT !.lost = Append(keys.lost, e)]
        <4>1. keys' = [k EXCEPT !.out = Tail(keys.out)]
          BY <1>1, <1>2, <2>2 DEF KeysType, KeyRecords
        <4>2. /\ k \in KeyRecords /\ k.lost = Append(keys.lost, e) /\ k.sent = keys.sent
          <5>1. Append(keys.lost, e) \in Seq(Keys) /\ keys \in KeyRecords
            BY <1>1, <1>2 DEF KeysType
          <5> HIDE DEF e
          <5> QED BY <5>1, SetLost
        <4> DEFINE n == [k EXCEPT !.out = Tail(keys.out)]
        <4> HIDE DEF k, e
        <4>3. n \in KeyRecords /\ n.sent = k.sent /\ n.lost = k.lost
          <5>1. k \in KeyRecords /\ Tail(keys.out) \in Seq(Keys)
            BY <1>2, <4>2
          <5> QED BY <5>1, SetOut, Zenon
        <4>4. keys' = n
          BY <4>1
        <4> HIDE DEF n
        <4> QED BY <4>2, <4>3, <4>4, Zenon DEF KeysType
      <3>2. keys.sent \o Append(keys.lost, e) = Append(x, e)
        <4>1. keys.sent \in Seq(Keys) /\ keys.lost \in Seq(Keys) /\ e \in Keys
          BY <1>2
        <4> DEFINE y == keys.sent
                   z == keys.lost
        <4>2. y \in Seq(Keys) /\ z \in Seq(Keys)
          BY <4>1
        <4> HIDE DEF e, y, z
        <4>3. y \o Append(z, e) = Append(y \o z, e)
          BY <4>1, <4>2, AppendLast
        <4> QED BY <4>3 DEF y, z
      <3> HIDE DEF x, e
      <3> QED BY <3>1, <3>2, Zenon
    <2> QED BY <2>1, <2>2 DEF WriteKey
  <1>7. keys'.lost # <<>> => ~link' \/ remote'.closed
    <2>1. CASE WindowOpen /\ keys' = [keys EXCEPT !.sent = Append(@, Head(keys.out)), !.out = Tail(@)]
      BY <1>1, <2>1 DEF WindowOpen, KeysInv, KeysForwarded, KeysType, KeyRecords, WriteKey
    <2>2. CASE (~link \/ remote.closed) /\ UNCHANGED <<link, remote>>
      BY <2>2
    <2> QED BY <2>1, <2>2 DEF WriteKey
  <1>8. keys'.typed = (keys'.sent \o keys'.lost) \o keys'.out \o <<>> \o <<>>
    <2>1. Append(x, e) \o Tail(keys.out) \in Seq(Keys)
      BY <1>2, <1>4
    <2> HIDE DEF x, e
    <2>2. keys'.typed = Append(x, e) \o Tail(keys.out)
      BY <1>3, <1>4, <1>5
    <2>3. keys'.typed \o <<>> \o <<>> = keys'.typed
      BY <2>1, <2>2, NothingAdded
    <2> QED BY <1>5, <1>6, <2>2, <2>3
  <1>9. KeysForwarded'
    BY <1>1, <1>5, <1>7, <1>8 DEF KeysForwarded
  <1> QED BY <1>1, <1>5, <1>6, <1>9 DEF KeysInv

(* The keys stay accounted for, one case per action on them.                *)
LEMMA StepKeys == ASSUME Placed, KeysInv, RemoteType, [Next]_vars PROVE KeysInv'
  <1>1. ASSUME NEW c \in Keys, Key(c) PROVE KeysInv'
    BY <1>1, KeyHeld, KeyDetaches, KeyForwarded DEF Key, chan
  <1>2. CASE WriteKey
    BY <1>2, WriteKeyKeeps
  <1>3. CASE /\ UNCHANGED keys /\ (result' = "detached" <=> result = "detached")
             /\ (pc' = "write" <=> pc = "write")
    BY <1>3, StepRemote DEF KeysInv, KeysType, KeysForwarded
  <1>4. \/ WriteKey \/ \E c \in Keys : Key(c)
        \/ /\ result' = "detached" <=> result = "detached"
           /\ pc' = "write" <=> pc = "write"
    <2>1. CASE UNCHANGED <<pc, result>>
      BY <2>1
    <2>2. CASE RequestStep
      BY <2>2, FollowsPlaces
      DEF Placed, RequestStep, OpenChannel, RequestEnv, RequestPty, RequestExec, RequestShell,
          StartProcess, Return
    <2>3. CASE LocalStep \/ StdinEnds
      BY <2>3
      DEF Placed, LocalStep, WriteStdin, SendEof, ReadOut, ReadErr, ReadStream, Check, WaitExit,
          Return, EnterRaw, ResetFlag, LoopTop, ReadSize, TryResize, Show, Restore, Drain, NoKey,
          StdinEnds
    <2> QED BY <2>1, <2>2, <2>3, PlaceChanges
  <1> QED BY <1>1, <1>2, <1>3, <1>4, KeysChanges

-----------------------------------------------------------------------------
(* The type of the output.                                                  *)
Counted ==
  /\ buf \in [Streams -> Nat] /\ wrote \in [Streams -> Nat] /\ kept \in [Streams -> Nat]
  /\ cut \in [Streams -> BOOLEAN]

(* What is missing from a stream was dropped under its mark, a mark is set  *)
(* when something is dropped, at a length that reached the limit and passes *)
(* it by less than a chunk.                                                 *)
Balance ==
  /\ \A s \in Streams : kept[s] + buf[s] <= wrote[s]
  /\ \A s \in Streams : ~cut[Dest(s)] => kept[s] + buf[s] = wrote[s]
Marked ==
  \A d \in Streams : cut[d] => /\ Length(d) >= MaxOutput
                               /\ \E s \in Streams : Dest(s) = d /\ kept[s] + buf[s] < wrote[s]
Limited == ~conf.sink => \A s \in Streams : Length(Dest(s)) < MaxOutput + Chunk

(* With it, exec() that has come to the exit status has read everything.    *)
OutputInv ==
  /\ RemoteType /\ Counted
  /\ conf.program = "exec" =>
       /\ Balance /\ Marked /\ Limited
       /\ pc = "exit" \/ result = "ok" => remote.eof /\ buf = Zero

(* No output.                                                               *)
LEMMA InitOutput == Init => OutputInv
  BY ProgramsAssumption
  DEF Init, OutputInv, RemoteType, Counted, Balance, Marked, Limited, Dest, Length, Zero, Streams, Configurations

(* A chunk is taken from libssh's buffer and kept or dropped.               *)
LEMMA CollectKeeps ==
  ASSUME Counted, Balance, Marked, Limited, conf \in Configurations, NEW s \in Streams, buf[s] > 0,
         buf' = [buf EXCEPT ![s] = @ - ReadLength(s)], Collect(s, ReadLength(s)),
         UNCHANGED <<conf, wrote>>
  PROVE  Counted' /\ Balance' /\ Marked' /\ Limited'
  <1> DEFINE n == ReadLength(s)
  <1>1. n \in Nat \ {0} /\ n <= buf[s] /\ n <= Chunk
    BY ProgramsAssumption DEF ReadLength, Counted
  <1> HIDE DEF n
  <1>2. CASE conf.sink \/ Length(Dest(s)) < MaxOutput
    <2>1. kept' = [kept EXCEPT ![s] = @ + n] /\ cut' = cut /\ buf' = [buf EXCEPT ![s] = @ - n]
      BY <1>2 DEF Collect, n
    <2>2. Counted'
      BY <1>1, <2>1 DEF Counted
    <2>3. Balance'
      BY <1>1, <2>1 DEF Counted, Balance, Dest
    <2>4. Marked'
      BY <1>1, <2>1, ProgramsAssumption DEF Counted, Marked, Dest, Length, Streams
    <2>5. Limited'
      BY <1>1, <1>2, <2>1, ProgramsAssumption DEF Counted, Limited, Dest, Length, Streams
    <2> QED BY <2>2, <2>3, <2>4, <2>5
  <1>3. CASE ~(conf.sink \/ Length(Dest(s)) < MaxOutput)
    <2>1. kept' = kept /\ cut' = [cut EXCEPT ![Dest(s)] = TRUE] /\ buf' = [buf EXCEPT ![s] = @ - n]
      BY <1>3 DEF Collect, n
    <2>0. Dest(s) \in Streams /\ Length(Dest(s)) \in Nat
      BY DEF Dest, Streams, Length, Counted
    <2>2. Counted'
      BY <1>1, <2>0, <2>1 DEF Counted
    <2>3. Balance'
      BY <1>1, <2>0, <2>1 DEF Counted, Balance, Dest
    <2>4. Marked'
      <3>1. Length(Dest(s)) >= MaxOutput
        BY <1>3, <2>0, ProgramsAssumption
      <3>2. kept'[s] + buf'[s] < wrote'[s]
        BY <1>1, <2>1 DEF Counted, Balance
      <3> QED BY <1>1, <2>0, <2>1, <3>1, <3>2, ProgramsAssumption DEF Counted, Marked, Dest, Length
    <2>5. Limited'
      BY <1>1, <2>1, ProgramsAssumption DEF Counted, Limited, Dest, Length
    <2> QED BY <2>2, <2>3, <2>4, <2>5
  <1> QED BY <1>2, <1>3

(* A byte that arrives is in the buffer.                                    *)
LEMMA ArrivesKeeps ==
  ASSUME Counted, Balance, Marked, NEW s \in Streams, Arrives(s), UNCHANGED <<conf, kept, cut>>
  PROVE  Counted' /\ Balance' /\ Marked'
  <1>1. Counted'
    BY DEF Arrives, Counted
  <1>2. Balance'
    BY DEF Arrives, Counted, Balance, Dest
  <1>3. Marked'
    BY ProgramsAssumption DEF Arrives, Counted, Marked, Dest, Length, Streams
  <1> QED BY <1>1, <1>2, <1>3

(* The output stays accounted for: by the collecting steps, by what         *)
(* arrives, and by the test that lets exec() leave its loop.                *)
LEMMA StepOutput == ASSUME Placed, OutputInv, [Next]_vars PROVE OutputInv'
  <1>0. /\ RemoteType' /\ (remote.eof => remote'.eof)
        /\ Counted /\ conf \in Configurations /\ conf' = conf
    BY StepRemote, ConfKept DEF OutputInv, Placed
  <1>1. CASE conf.program = "exec"
    <2>0. /\ Balance /\ Marked /\ Limited
          /\ pc = "exit" \/ result = "ok" => remote.eof /\ buf = Zero
          /\ result = "ok" => pc = "done"
      BY <1>1 DEF OutputInv, Placed
    <2>1. CASE ReadOut \/ ReadErr
      <3>1. PICK s \in Streams, then \in {"err", "check"} : ReadStream(s, then)
        BY <2>1 DEF ReadOut, ReadErr, Streams
      <3>2. UNCHANGED wrote /\ pc \in {"out", "err"}
        BY <2>1 DEF ReadOut, ReadErr
      <3>3. /\ pc' # "exit" /\ result' # "ok"
        BY <2>0, <3>1, <3>2 DEF ReadStream, Return, Placed
      <3>4. CASE UNCHANGED <<buf, kept, cut>>
        BY <1>0, <2>0, <3>2, <3>3, <3>4
        DEF OutputInv, Counted, Balance, Marked, Limited, Dest, Length
      <3>5. CASE buf[s] > 0 /\ buf' = [buf EXCEPT ![s] = @ - ReadLength(s)] /\ Collect(s, ReadLength(s))
        BY <1>0, <2>0, <3>2, <3>3, <3>5, CollectKeeps DEF OutputInv
      <3> QED BY <3>1, <3>4, <3>5 DEF ReadStream, Available
    <2>2. CASE RemoteAnswers \/ \E s \in Streams : RemoteWrites(s)
      <3>1. PICK s \in Streams : Arrives(s)
        BY <2>2 DEF RemoteAnswers, RemoteWrites, Streams
      <3>2. /\ UNCHANGED <<conf, kept, cut, pc, result>> /\ ~remote.eof
        BY <2>2 DEF RemoteAnswers, RemoteWrites, RemoteOnly, Running
      <3>3. Limited'
        BY <2>0, <3>2 DEF Limited, Dest, Length
      <3>4. Counted' /\ Balance' /\ Marked'
        BY <1>0, <2>0, <3>1, <3>2, ArrivesKeeps
      <3> QED BY <1>0, <2>0, <3>2, <3>3, <3>4 DEF OutputInv
    <2>3. CASE UNCHANGED <<buf, wrote, kept, cut>>
      <3>1. Counted' /\ Balance' /\ Marked' /\ Limited'
        BY <1>0, <2>0, <2>3 DEF Counted, Balance, Marked, Limited, Dest, Length
      <3>2. pc' = "exit" \/ result' = "ok" => remote.eof /\ buf = Zero
        <4> DEFINE goal == pc' = "exit" \/ result' = "ok" => remote.eof /\ buf = Zero
        <4>1. ASSUME UNCHANGED <<pc, result>> PROVE goal
          BY <2>0, <4>1
        <4>2. ASSUME OpenChannel \/ RequestEnv \/ RequestPty \/ RequestExec \/ RequestShell PROVE goal
          BY <2>0, <4>2, FollowsPlaces
          DEF OpenChannel, RequestEnv, RequestPty, RequestExec, RequestShell, StartProcess, Return
        <4>3. ASSUME WriteStdin \/ SendEof \/ ReadOut \/ ReadErr PROVE goal
          BY <2>0, <4>3 DEF WriteStdin, SendEof, ReadOut, ReadErr, ReadStream, Return
        <4>4. ASSUME Check PROVE goal
          BY <2>0, <4>4 DEF Check, IsEof, Return
        <4>5. ASSUME WaitExit PROVE goal
          BY <2>0, <4>5 DEF WaitExit, Return
        <4>6. pc \notin {"raw", "reset", "loop", "ioctl", "resize", "show", "keys", "write",
                         "restore", "drain"}
          BY <1>1 DEF Placed, ExecPlaces
        <4>7. /\ ~(EnterRaw \/ ResetFlag \/ LoopTop \/ ReadSize \/ TryResize \/ Show \/ Restore)
              /\ ~(Drain \/ NoKey \/ StdinEnds \/ WriteKey)
              /\ ~\E c \in Keys : Key(c)
          BY <4>6
          DEF EnterRaw, ResetFlag, LoopTop, ReadSize, TryResize, Show, Restore, Drain, NoKey,
              StdinEnds, WriteKey, Key
        <4> QED BY <4>1, <4>2, <4>3, <4>4, <4>5, <4>7, PlaceChanges DEF RequestStep, LocalStep
      <3> QED BY <1>0, <2>3, <3>1, <3>2 DEF OutputInv
    <2>4. ~(Show \/ Drain)
      BY <1>1 DEF Show, Drain, Placed, ExecPlaces
    <2> QED BY <2>1, <2>2, <2>3, <2>4, OutputChanges
  <1>2. CASE conf.program # "exec"
    <2>1. ASSUME ReadOut \/ ReadErr PROVE Counted'
      BY <1>2, <2>1 DEF ReadOut, ReadErr, Placed, ShellPlaces
    <2>2. ASSUME RemoteAnswers \/ \E s \in Streams : RemoteWrites(s) PROVE Counted'
      BY <1>0, <2>2 DEF Counted, RemoteAnswers, RemoteWrites, Arrives, RemoteOnly, Streams
    <2>3. ASSUME Show PROVE Counted'
      BY <1>0, <2>3, ProgramsAssumption DEF Counted, Show, ReadLength, ShellOnly
    <2>4. ASSUME Drain PROVE Counted'
      BY <1>0, <2>4 DEF Counted, Drain, ShellOnly, Zero
    <2>5. ASSUME UNCHANGED <<buf, wrote, kept, cut>> PROVE Counted'
      BY <1>0, <2>5 DEF Counted
    <2>6. Counted'
      BY <1>0, <2>1, <2>2, <2>3, <2>4, <2>5, OutputChanges
    <2> QED BY <1>0, <1>2, <2>6 DEF OutputInv
  <1> QED BY <1>1, <1>2

-----------------------------------------------------------------------------
(* The inductive invariant of both programs.                                *)
ProgramsInv == Placed /\ ResizeInv /\ KeysInv /\ OutputInv

(* It holds in every reachable state.                                       *)
LEMMA ProgramsInvariant == Spec => []ProgramsInv
  <1>1. Init => Placed
    BY DEF Init, Placed, ExecPlaces, ShellPlaces
  <1>2. Init => ProgramsInv
    BY <1>1, InitResize, InitKeys, InitOutput DEF ProgramsInv
  <1>3. ProgramsInv /\ [Next]_vars => ProgramsInv'
    BY StepPlaced, StepResize, StepKeys, StepOutput DEF ProgramsInv, OutputInv
  <1> QED BY <1>2, <1>3, PTL DEF Spec

(* exec() that returns successfully has every byte of both streams, unless  *)
(* it marks the result as truncated, which it does only at the limit, and   *)
(* it never keeps a whole chunk more than the limit allows: for any sizes   *)
(* of chunks and limits.                                                    *)
THEOREM OutputExactHolds == Spec => []OutputExact
  <1>1. ProgramsInv => OutputExact
    <2> SUFFICES ASSUME ProgramsInv, conf.program = "exec" PROVE OutputExact
      BY DEF OutputExact
    <2>1. /\ Counted /\ Balance /\ Marked /\ Limited
          /\ result = "ok" => buf = Zero
      BY DEF ProgramsInv, OutputInv
    <2>2. result = "ok" => \A s \in Streams : kept[s] # wrote[s] => cut[Dest(s)]
      BY <2>1 DEF Counted, Balance, Zero
    <2>3. \A s \in Streams : cut[s] => Length(s) >= MaxOutput
      BY <2>1 DEF Marked
    <2>4. (\A s \in Streams : kept[s] + buf[s] = wrote[s]) => \A s \in Streams : ~cut[s]
      BY <2>1 DEF Counted, Marked
    <2> QED BY <2>1, <2>2, <2>3, <2>4 DEF OutputExact, Limited
  <1> QED BY <1>1, ProgramsInvariant, PTL

(* Every key that shell() reads is sent in order, is being written, is held *)
(* back as an escape, detaches, or was lost to a connection or channel that *)
(* was gone: for any number of keys and any window.                         *)
THEOREM KeysForwardedHolds == Spec => []KeysForwarded
  <1>1. ProgramsInv => KeysForwarded
    BY DEF ProgramsInv, KeysInv
  <1> QED BY <1>1, ProgramsInvariant, PTL

(* A change of the window's size that comes while shell()'s loop runs is    *)
(* pending, sent or refused, wherever between the exchange of the flag, the *)
(* reading of the size and the resize it comes.                             *)
THEOREM ResizePendingHolds == Spec => []ResizePending
  <1>1. ProgramsInv => ResizePending
    BY DEF ProgramsInv, ResizeInv, ResizePending
  <1> QED BY <1>1, ProgramsInvariant, PTL
=============================================================================
