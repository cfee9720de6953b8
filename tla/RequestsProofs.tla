--------------------------- MODULE RequestsProofs ---------------------------
(***************************************************************************)
(* Proofs about what a server answers: ServerRequests, for any users,      *)
(* tables, credentials, messages and channels, and SftpServer, for any     *)
(* tree, handle table, descriptors and limits.                             *)
(*                                                                         *)
(* In ServerRequests nobody is admitted who has not earned it, every       *)
(* message is replied to once, and a command runs on its whole input.  The *)
(* three arguments share only the exclusion of the two styles.             *)
(*                                                                         *)
(* In SftpServer every request has one of six effects (Effect), and the    *)
(* invariant is shown to survive the effects.  HandlesExact needs that     *)
(* nothing is open before the loop (Untouched); ListingComplete needs that *)
(* a name a listing keeps still exists (OwedExist), or a batch would pass  *)
(* it over; ReadOnlyKept needs that nothing was opened for writing.        *)
(***************************************************************************)
EXTENDS ServerRequests, SftpServer, TLAPS


-----------------------------------------------------------------------------
(* ---------------------------- authentication ----------------------------- *)

AuthTypes ==
  /\ entries \in [Users -> SUBSET Credentials]
  /\ attempts \in [Users -> Nat]
  /\ bridge \in BOOLEAN /\ used \in BOOLEAN
  /\ auth \in Users \cup {Nobody} /\ granted \in Users \cup {Nobody}

(* A session is used in one style: only the message style has Message       *)
(* objects, and before a style is chosen nobody is admitted.                *)
Styles ==
  /\ bridge => ~used
  /\ ~bridge /\ ~used => auth = Nobody /\ granted = Nobody
  /\ \A o \in Objects : obj[o].native # Nil => used

AuthInv == AuthTypes /\ Styles /\ GrantEarned

LEMMA InitAuth == Init => AuthInv
  <1> SUFFICES ASSUME Init PROVE AuthInv
      OBVIOUS
  <1>1. AuthTypes
      BY RequestsAssumption DEF Init, AuthTypes
  <1>2. \A o \in Objects : obj[o].native = Nil
      BY DEF Init, Empty
  <1>3. Styles
      BY <1>2 DEF Init, Styles
  <1>4. GrantEarned
      BY DEF Init, GrantEarned
  <1> QED  BY <1>1, <1>3, <1>4 DEF AuthInv

(* An answer to an authentication request of the client as u.               *)
LEMMA AnswerKeeps ==
  ASSUME AuthInv, NEW u \in Users, bridge, attempts' \in [Users -> Nat],
         auth' \in {auth, u}, granted' = auth',
         auth' # auth => \/ "none" \in entries[u]
                         \/ \E m \in entries[u] : <<u, m>> \in knows,
         UNCHANGED <<entries, knows, bridge, used, obj>>
  PROVE  AuthInv'
  <1>1. AuthTypes'
      BY DEF AuthInv, AuthTypes
  <1>2. Styles'
      BY DEF AuthInv, Styles
  <1>3. GrantEarned'
      <2>1. CASE auth' = auth
            BY <2>1 DEF AuthInv, GrantEarned
      <2>2. CASE auth' # auth
            BY <2>2 DEF GrantEarned
      <2> QED  BY <2>1, <2>2
  <1> QED  BY <1>1, <1>2, <1>3 DEF AuthInv

LEMMA AuthenticateKeeps ==
  ASSUME AuthInv, NEW u \in Users, NEW right \in BOOLEAN, NEW known \in BOOLEAN,
         NEW state \in {"none", "valid", "wrong"},
         AuthNone(u) \/ AuthRefused(u) \/ AuthPassword(u, right) \/ AuthPublicKey(u, known, state)
  PROVE  AuthInv'
  <1>1. /\ bridge /\ granted = Nobody /\ auth = granted
        /\ UNCHANGED <<entries, knows, bridge, used, obj>>
      <2>1. bridge /\ granted = Nobody
            BY DEF AuthNone, AuthRefused, AuthPassword, AuthPublicKey, MayAuthenticate
      <2>2. UNCHANGED <<entries, knows, bridge, used, obj>>
            BY DEF AuthNone, AuthRefused, AuthPassword, AuthPublicKey, ApplyAuthResult, messageVars
      <2> QED  BY <2>1, <2>2 DEF AuthInv, GrantEarned
  <1>2. attempts' \in [Users -> Nat]
      <2>1. RecordAttempt(u) \/ UNCHANGED attempts
            BY DEF AuthNone, AuthRefused, AuthPassword, AuthPublicKey
      <2> QED  BY <2>1 DEF RecordAttempt, AuthInv, AuthTypes
  <1>3. auth' \in {auth, u} /\ granted' = auth'
      BY <1>1 DEF AuthNone, AuthRefused, AuthPassword, AuthPublicKey, ApplyAuthResult
  <1>4. auth' # auth => \/ "none" \in entries[u]
                        \/ \E m \in entries[u] : <<u, m>> \in knows
      BY DEF AuthNone, AuthRefused, AuthPassword, AuthPublicKey, ApplyAuthResult, OnAuthNone,
             OnAuthPassword, OnAuthPublicKey, Acceptable
  <1> QED  BY <1>1, <1>2, <1>3, <1>4, AnswerKeeps

(* An action of the message style: Message objects come and go while used   *)
(* is set, and the bridge is not there.                                     *)
LEMMA MessageStyleKeeps ==
  ASSUME AuthInv, ~bridge, used',
         auth' \in Users \cup {Nobody}, granted' \in Users \cup {Nobody}, used' \in BOOLEAN,
         UNCHANGED <<entries, knows, attempts, bridge>>
  PROVE  AuthInv'
  BY DEF AuthInv, AuthTypes, Styles, GrantEarned

(* A Message object shows that the session is in the message style.         *)
LEMMA MessageStyle ==
  ASSUME AuthInv, NEW o \in Objects, obj[o].native # Nil
  PROVE  used /\ ~bridge
  BY DEF AuthInv, Styles

Replies(o) ==
  \/ ReplyAuthFailure(o) \/ ReplyAuthPkOk(o) \/ AcceptChannelOpen(o) \/ ReplyRequest(o)
  \/ ReplyDefault(o)

LEMMA RepliesAre ==
  ASSUME NEW o \in Objects, Replies(o)
  PROVE  SetReplied(o) /\ UNCHANGED <<auth, granted>> /\ OnlyMessages
  BY DEF Replies, ReplyAuthFailure, ReplyAuthPkOk, AcceptChannelOpen, ReplyRequest, ReplyDefault,
         Reply

ChannelStep(c) ==
  \/ ChannelOpen(c) \/ ExecRequest(c) \/ Data(c) \/ SubsystemRequest(c)
  \/ \E returns \in BOOLEAN : Eof(c, returns)
  \/ OtherRequest(c) \/ EnvRequest(c) \/ X11Request(c)

LEMMA ChannelStepsOnlyChan ==
  ASSUME NEW c \in Channels, ChannelStep(c)
  PROVE  UNCHANGED <<authVars, sessionVars, messageVars>>
  BY DEF ChannelStep, ChannelOpen, ExecRequest, Data, Eof, SubsystemRequest, OtherRequest,
         EnvRequest, X11Request, OnlyChan, vars

LEMMA UnchangedAuth ==
  AuthInv /\ UNCHANGED <<authVars, sessionVars, obj>> => AuthInv'
  <1> SUFFICES ASSUME AuthInv, UNCHANGED <<authVars, sessionVars, obj>> PROVE AuthInv'
      OBVIOUS
  <1>1. UNCHANGED <<entries, knows, attempts, bridge, used, auth, granted, obj>>
      BY DEF authVars, sessionVars
  <1>2. AuthTypes' /\ Styles'
      BY <1>1 DEF AuthInv, AuthTypes, Styles
  <1>3. GrantEarned'
      BY <1>1 DEF AuthInv, GrantEarned
  <1> QED  BY <1>2, <1>3 DEF AuthInv

LEMMA AuthStep == AuthInv /\ [Next]_vars => AuthInv'
  <1> SUFFICES ASSUME AuthInv, [Next]_vars PROVE AuthInv'
      OBVIOUS
  <1>1. CASE UNCHANGED vars
      BY <1>1, UnchangedAuth DEF vars, messageVars
  <1>2. CASE SetHandler
      BY <1>2
      DEF SetHandler, AuthInv, AuthTypes, Styles, GrantEarned, authVars, messageVars
  <1>3. CASE NextSession
      <2>1. AuthTypes'
            BY <1>3 DEF NextSession, AuthInv, AuthTypes
      <2>2. Styles'
            BY <1>3 DEF NextSession, Styles, messageVars
      <2>3. GrantEarned'
            BY <1>3 DEF NextSession, GrantEarned
      <2> QED  BY <2>1, <2>2, <2>3 DEF AuthInv
  <1>4. ASSUME NEW u \in Users, AuthNone(u) \/ AuthRefused(u) PROVE AuthInv'
      <2>1. TRUE \in BOOLEAN /\ "none" \in {"none", "valid", "wrong"}
            OBVIOUS
      <2> QED  BY <1>4, <2>1, AuthenticateKeeps
  <1>5. ASSUME NEW u \in Users, NEW right \in BOOLEAN, AuthPassword(u, right) PROVE AuthInv'
      <2>1. TRUE \in BOOLEAN /\ "none" \in {"none", "valid", "wrong"}
            OBVIOUS
      <2> QED  BY <1>5, <2>1, AuthenticateKeeps
  <1>6. ASSUME NEW u \in Users, NEW known \in BOOLEAN, NEW state \in {"none", "valid", "wrong"},
               AuthPublicKey(u, known, state)
        PROVE  AuthInv'
      BY <1>6, AuthenticateKeeps
  <1>7. ASSUME NEW u \in Users, NEW o \in Objects, ReplyAuthSuccess(o, u) PROVE AuthInv'
      <2>1. used /\ ~bridge
            BY <1>7, MessageStyle DEF ReplyAuthSuccess, SetReplied
      <2>2. used' /\ used' \in BOOLEAN /\ UNCHANGED <<entries, knows, attempts, bridge>>
            BY <1>7, <2>1
            DEF ReplyAuthSuccess, SetReplied, OnlyMessages, authVars, AuthInv, AuthTypes
      <2>3. auth' \in Users \cup {Nobody} /\ granted' \in Users \cup {Nobody}
            BY <1>7 DEF ReplyAuthSuccess
      <2> QED  BY <2>1, <2>2, <2>3, MessageStyleKeeps
  <1>8. ASSUME NEW c \in Channels, ChannelStep(c) PROVE AuthInv'
      BY <1>8, ChannelStepsOnlyChan, UnchangedAuth DEF messageVars
  <1>9. ASSUME NEW o \in Objects, NEW ask \in Asked, NextMessage(o, ask) PROVE AuthInv'
      <2>1. ~bridge /\ used' /\ used' \in BOOLEAN /\ UNCHANGED <<entries, knows, attempts, bridge>>
            BY <1>9 DEF NextMessage, OnlyMessages, authVars
      <2>2. auth' \in Users \cup {Nobody} /\ granted' \in Users \cup {Nobody}
            BY <1>9 DEF NextMessage, AuthInv, AuthTypes
      <2> QED  BY <2>1, <2>2, MessageStyleKeeps
  <1>10. ASSUME NEW o \in Objects, NEW p \in Objects,
                Replies(o) \/ Destroy(o) \/ MoveConstruct(o, p) \/ MoveAssign(o, p)
         PROVE  AuthInv'
      <2>1. obj[o].native # Nil \/ obj[p].native # Nil
            BY <1>10, RepliesAre DEF SetReplied, Destroy, MoveConstruct, MoveAssign
      <2>2. used /\ ~bridge
            BY <2>1, MessageStyle
      <2>3. used' = used /\ UNCHANGED <<auth, granted, entries, knows, attempts, bridge>>
            BY <1>10, RepliesAre
            DEF SetReplied, Destroy, MoveConstruct, MoveAssign, OnlyMessages, authVars, sessionVars
      <2> QED  BY <2>2, <2>3, MessageStyleKeeps DEF AuthInv, AuthTypes
  <1>11. ASSUME NEW o \in Objects, Replies(o) \/ Destroy(o) PROVE AuthInv'
      BY <1>10, <1>11
  <1> QED
      BY <1>1, <1>2, <1>3, <1>4, <1>5, <1>6, <1>7, <1>8, <1>9, <1>10, <1>11
      DEF Next, ChannelStep, Replies

(* The inductive invariant of authentication.                               *)
THEOREM AuthInvariant == Spec => []AuthInv
  BY InitAuth, AuthStep, PTL DEF Spec

(* Whoever is admitted in the callback style has earned it, for any users,  *)
(* entries and credentials, and the Session says so.                        *)
THEOREM GrantsAreEarned == Spec => []GrantEarned
  BY AuthInvariant, PTL DEF AuthInv

-----------------------------------------------------------------------------
(* -------------------------------- messages ------------------------------- *)

MessageTypes ==
  /\ obj \in [Objects -> [native : Messages \cup {Nil}, replied : BOOLEAN]]
  /\ kinds \in [Messages -> Asked \cup {"none"}]
  /\ replies \in [Messages -> Nat]
  /\ freed \subseteq Messages

(* A message that is held has come, is not freed, and replied_ counts its   *)
(* replies; one that has not come has none.                                 *)
Counted ==
  /\ \A o \in Objects : obj[o].native # Nil =>
       /\ kinds[obj[o].native] # "none"
       /\ obj[o].replied => replies[obj[o].native] = 1
       /\ ~obj[o].replied => replies[obj[o].native] = 0
  /\ \A m \in Messages : kinds[m] = "none" => replies[m] = 0 /\ m \notin freed

MessageInv == MessageTypes /\ Counted /\ MessagesAnswered

LEMMA NilIsNoMessage == Nil \notin Messages
  BY RequestsAssumption

LEMMA InitMessage == Init => MessageInv
  <1> SUFFICES ASSUME Init PROVE MessageInv
      OBVIOUS
  <1>1. \A o \in Objects : obj[o] = [native |-> Nil, replied |-> TRUE]
      BY DEF Init, Empty
  <1>2. MessageTypes
      BY DEF Init, MessageTypes, Empty
  <1>3. Counted
      BY <1>1 DEF Init, Counted
  <1>4. MessagesAnswered
      BY <1>1 DEF Init, MessagesAnswered
  <1> QED  BY <1>2, <1>3, <1>4 DEF MessageInv

LEMMA UnchangedMessage == MessageInv /\ UNCHANGED messageVars => MessageInv'
  <1> SUFFICES ASSUME MessageInv, UNCHANGED messageVars PROVE MessageInv'
      OBVIOUS
  <1>1. UNCHANGED <<obj, kinds, replies, freed>>
      BY DEF messageVars
  <1> QED  BY <1>1 DEF MessageInv, MessageTypes, Counted, MessagesAnswered

LEMMA TakeKeeps ==
  ASSUME MessageInv, NEW o \in Objects, NEW m \in Messages, NEW ask \in Asked, kinds[m] = "none",
         obj' = [obj EXCEPT ![o] = [native |-> m, replied |-> FALSE]],
         kinds' = [kinds EXCEPT ![m] = ask], UNCHANGED <<replies, freed>>
  PROVE  MessageInv'
  <1>1. ask # "none"
      BY DEF Asked
  <1>2. \A q \in Objects : obj[q].native # m
      BY NilIsNoMessage DEF MessageInv, Counted
  <1>3. MessageTypes'
      BY DEF MessageInv, MessageTypes
  <1>4. Counted'
      BY <1>1, <1>2 DEF MessageInv, MessageTypes, Counted
  <1>5. MessagesAnswered'
      BY <1>2 DEF MessageInv, MessageTypes, Counted, MessagesAnswered
  <1> QED  BY <1>3, <1>4, <1>5 DEF MessageInv

LEMMA ReplyKeeps ==
  ASSUME MessageInv, NEW o \in Objects, SetReplied(o)
  PROVE  MessageInv'
  <1> DEFINE m == obj[o].native
  <1>1. m \in Messages /\ replies[m] = 0 /\ m \notin freed /\ kinds[m] # "none"
      BY DEF SetReplied, MessageInv, MessageTypes, Counted, MessagesAnswered
  <1>2. /\ obj' = [obj EXCEPT ![o].replied = TRUE]
        /\ replies' = [replies EXCEPT ![m] = 1] /\ UNCHANGED <<kinds, freed>>
      BY <1>1 DEF SetReplied, MessageInv, MessageTypes
  <1>3. \A q \in Objects : obj'[q].native = obj[q].native /\ (q # o => obj'[q] = obj[q])
      BY <1>2 DEF MessageInv, MessageTypes
  <1>4. \A q \in Objects : q # o => obj[q].native # m
      BY <1>1, NilIsNoMessage DEF MessageInv, MessagesAnswered
  <1>5. MessageTypes'
      BY <1>2 DEF MessageInv, MessageTypes
  <1>6. Counted'
      BY <1>1, <1>2, <1>3, <1>4 DEF MessageInv, MessageTypes, Counted
  <1>7. MessagesAnswered'
      BY <1>1, <1>2, <1>3 DEF MessageInv, MessageTypes, MessagesAnswered
  <1> QED  BY <1>5, <1>6, <1>7 DEF MessageInv

(* The destructor, and the first half of an assignment.                     *)
LEMMA DropKeeps ==
  ASSUME MessageInv, NEW o \in Objects, obj[o].native # Nil
  PROVE  /\ DropReplies(o) \in [Messages -> Nat] /\ DropFrees(o) \subseteq Messages
         /\ \A m \in Messages : m # obj[o].native => DropReplies(o)[m] = replies[m]
         /\ DropReplies(o)[obj[o].native] = 1
         /\ DropFrees(o) = freed \cup {obj[o].native}
         /\ obj[o].native \in Messages /\ kinds[obj[o].native] # "none"
  <1>1. obj[o].native \in Messages /\ obj[o].replied \in BOOLEAN /\ kinds[obj[o].native] # "none"
      BY DEF MessageInv, MessageTypes, Counted
  <1>2. DropFrees(o) = freed \cup {obj[o].native} /\ DropFrees(o) \subseteq Messages
      BY <1>1 DEF DropFrees, MessageInv, MessageTypes
  <1>3. CASE obj[o].replied
      BY <1>1, <1>2, <1>3 DEF DropReplies, MessageInv, MessageTypes, Counted
  <1>4. CASE ~obj[o].replied
      <2>1. replies[obj[o].native] = 0
            BY <1>4 DEF MessageInv, Counted
      <2>2. DropReplies(o) = [replies EXCEPT ![obj[o].native] = replies[obj[o].native] + 1]
            BY <1>4, Zenon DEF DropReplies
      <2>3. DropReplies(o) = [replies EXCEPT ![obj[o].native] = 1]
            BY <2>1, <2>2
      <2> QED  BY <1>1, <1>2, <2>3 DEF MessageInv, MessageTypes
  <1> QED  BY <1>3, <1>4

LEMMA DestroyKeeps ==
  ASSUME MessageInv, NEW o \in Objects, Destroy(o)
  PROVE  MessageInv'
  <1> DEFINE m == obj[o].native
  <1>1. /\ m # Nil /\ replies' = DropReplies(o) /\ freed' = DropFrees(o)
        /\ obj' = [obj EXCEPT ![o] = Empty] /\ kinds' = kinds
      BY DEF Destroy
  <1>2. /\ replies' \in [Messages -> Nat] /\ freed' \subseteq Messages
        /\ \A n \in Messages : n # m => replies'[n] = replies[n]
        /\ replies'[m] = 1 /\ freed' = freed \cup {m} /\ m \in Messages /\ kinds[m] # "none"
      BY <1>1, DropKeeps
  <1>3. \A q \in Objects : q # o => obj[q].native # m
      BY <1>1 DEF MessageInv, MessagesAnswered
  <1>4. obj'[o].native = Nil /\ \A q \in Objects : q # o => obj'[q] = obj[q]
      BY <1>1 DEF Empty, MessageInv, MessageTypes
  <1>5. MessageTypes'
      BY <1>1, <1>2 DEF MessageInv, MessageTypes, Empty
  <1>6. Counted'
      BY <1>1, <1>2, <1>3, <1>4 DEF MessageInv, MessageTypes, Counted
  <1>7. MessagesAnswered'
      BY <1>1, <1>2, <1>3, <1>4, NilIsNoMessage DEF MessageInv, MessageTypes, MessagesAnswered
  <1> QED  BY <1>5, <1>6, <1>7 DEF MessageInv

LEMMA MoveKeeps ==
  ASSUME MessageInv, NEW o \in Objects, NEW p \in Objects, MoveConstruct(o, p) \/ MoveAssign(o, p)
  PROVE  MessageInv'
  <1> DEFINE m == obj[p].native
  <1>1. o # p /\ obj' = [obj EXCEPT ![p] = obj[o], ![o] = Empty] /\ kinds' = kinds
      BY DEF MoveConstruct, MoveAssign, Empty
  <1>2. /\ obj'[p] = obj[o] /\ obj'[o].native = Nil
        /\ \A q \in Objects : q # o /\ q # p => obj'[q] = obj[q]
      BY <1>1 DEF Empty, MessageInv, MessageTypes
  <1>3. obj' \in [Objects -> [native : Messages \cup {Nil}, replied : BOOLEAN]]
      BY <1>1 DEF Empty, MessageInv, MessageTypes
  <1>4. CASE MoveConstruct(o, p)
      <2>1. m = Nil /\ UNCHANGED <<replies, freed>>
            BY <1>4 DEF MoveConstruct, Empty
      <2>2. MessageTypes'
            BY <1>1, <1>3, <2>1 DEF MessageInv, MessageTypes
      <2>3. Counted'
            <3>1. \A q \in Objects : obj'[q].native # Nil => obj'[q] = obj[q] \/ obj'[q] = obj[o]
                  BY <1>2
            <3> QED  BY <1>1, <2>1, <3>1 DEF MessageInv, Counted
      <2>4. MessagesAnswered'
            BY <1>1, <1>2, <2>1, NilIsNoMessage DEF MessageInv, MessageTypes, MessagesAnswered
      <2> QED  BY <2>2, <2>3, <2>4 DEF MessageInv
  <1>5. CASE MoveAssign(o, p)
      <2>1. m # Nil /\ replies' = DropReplies(p) /\ freed' = DropFrees(p)
            BY <1>5 DEF MoveAssign
      <2>2. /\ replies' \in [Messages -> Nat] /\ freed' \subseteq Messages
            /\ \A n \in Messages : n # m => replies'[n] = replies[n]
            /\ replies'[m] = 1 /\ freed' = freed \cup {m} /\ m \in Messages /\ kinds[m] # "none"
            BY <2>1, DropKeeps
      <2>3. \A q \in Objects : q # p => obj[q].native # m
            BY <2>1 DEF MessageInv, MessagesAnswered
      <2>4. MessageTypes'
            BY <1>1, <1>3, <2>2 DEF MessageInv, MessageTypes
      <2>5. Counted'
            BY <1>1, <1>2, <2>2, <2>3 DEF MessageInv, MessageTypes, Counted
      <2>6. MessagesAnswered'
            BY <1>1, <1>2, <2>2, <2>3, NilIsNoMessage DEF MessageInv, MessageTypes, MessagesAnswered
      <2> QED  BY <2>4, <2>5, <2>6 DEF MessageInv
  <1> QED  BY <1>4, <1>5

LEMMA MessageStep == MessageInv /\ [Next]_vars => MessageInv'
  <1> SUFFICES ASSUME MessageInv, [Next]_vars PROVE MessageInv'
      OBVIOUS
  <1>1. CASE UNCHANGED vars \/ SetHandler \/ NextSession
      BY <1>1, UnchangedMessage DEF vars, SetHandler, NextSession
  <1>2. ASSUME NEW u \in Users, AuthNone(u) \/ AuthRefused(u) PROVE MessageInv'
      BY <1>2, UnchangedMessage DEF AuthNone, AuthRefused, ApplyAuthResult
  <1>3. ASSUME NEW u \in Users, NEW right \in BOOLEAN, AuthPassword(u, right) PROVE MessageInv'
      BY <1>3, UnchangedMessage DEF AuthPassword, ApplyAuthResult
  <1>4. ASSUME NEW u \in Users, NEW known \in BOOLEAN, NEW state \in {"none", "valid", "wrong"},
               AuthPublicKey(u, known, state)
        PROVE  MessageInv'
      BY <1>4, UnchangedMessage DEF AuthPublicKey, ApplyAuthResult
  <1>5. ASSUME NEW u \in Users, NEW o \in Objects, ReplyAuthSuccess(o, u) PROVE MessageInv'
      BY <1>5, ReplyKeeps DEF ReplyAuthSuccess
  <1>6. ASSUME NEW c \in Channels, ChannelStep(c) PROVE MessageInv'
      BY <1>6, ChannelStepsOnlyChan, UnchangedMessage
  <1>7. ASSUME NEW o \in Objects, NEW ask \in Asked, NextMessage(o, ask) PROVE MessageInv'
      <2>1. CASE UNCHANGED messageVars
            BY <2>1, UnchangedMessage
      <2>2. CASE ~UNCHANGED messageVars
            BY <1>7, <2>2, TakeKeeps DEF NextMessage
      <2> QED  BY <2>1, <2>2
  <1>8. ASSUME NEW o \in Objects, Replies(o) PROVE MessageInv'
      BY <1>8, RepliesAre, ReplyKeeps
  <1>9. ASSUME NEW o \in Objects, Destroy(o) PROVE MessageInv'
      BY <1>9, DestroyKeeps
  <1>10. ASSUME NEW o \in Objects, NEW p \in Objects, MoveConstruct(o, p) \/ MoveAssign(o, p)
         PROVE  MessageInv'
      BY <1>10, MoveKeeps
  <1> QED
      BY <1>1, <1>2, <1>3, <1>4, <1>5, <1>6, <1>7, <1>8, <1>9, <1>10 DEF Next, ChannelStep, Replies

(* libssh is given exactly one reply to a message by the time it is freed,  *)
(* for any number of messages and objects and any moves between them.       *)
THEOREM MessagesAreAnswered == Spec => []MessagesAnswered
  <1>1. MessageInv => MessagesAnswered
      BY DEF MessageInv
  <1> QED  BY <1>1, InitMessage, MessageStep, PTL DEF Spec

-----------------------------------------------------------------------------
(* -------------------------------- commands ------------------------------- *)

(* A command's buffer is what came since its request; it has run exactly    *)
(* when EOF came behind it; and before it has run there is a request more   *)
(* than runs.                                                               *)
Orderly(h) ==
  /\ h \in ChannelStates
  /\ h.command => h.input = h.after
  /\ h.ran <=> h.command /\ h.ended
  /\ h.runs <= h.execs
  /\ h.command /\ ~h.ran => h.runs < h.execs
  /\ h.exits + h.threw = h.runs

ChannelInv == chan \in [Channels -> ChannelStates] /\ \A c \in Channels : Orderly(chan[c])

LEMMA NewIsOrderly ==
  Orderly(NoChannel) /\ Orderly([NoChannel EXCEPT !.open = TRUE])
  <1>1. Orderly(NoChannel)
      <2>1. NoChannel \in ChannelStates
            BY DEF NoChannel, ChannelStates
      <2>2. /\ ~NoChannel.command /\ ~NoChannel.ran /\ NoChannel.exits = 0 /\ NoChannel.threw = 0
            /\ NoChannel.runs = 0 /\ NoChannel.execs = 0
            BY DEF NoChannel
      <2> QED  BY <2>1, <2>2 DEF Orderly
  <1>2. Orderly([NoChannel EXCEPT !.open = TRUE])
      BY <1>1 DEF Orderly, ChannelStates
  <1> QED  BY <1>1, <1>2

LEMMA ReplaceKeeps ==
  ASSUME ChannelInv, NEW c \in Channels, NEW h, Orderly(h), chan' = [chan EXCEPT ![c] = h]
  PROVE  ChannelInv'
  BY DEF ChannelInv, Orderly

LEMMA ChannelStepKeeps ==
  ASSUME ChannelInv, NEW c \in Channels, ChannelStep(c)
  PROVE  ChannelInv'
  <1>1. Orderly(chan[c]) /\ chan \in [Channels -> ChannelStates]
      BY DEF ChannelInv
  <1>2. CASE ChannelOpen(c)
      BY <1>2, NewIsOrderly, ReplaceKeeps DEF ChannelOpen
  <1>3. CASE ExecRequest(c)
      <2> DEFINE g == chan[c]
                 r == OnExecRequest(g)
      <2>1. /\ g \in ChannelStates /\ g.execs \in Nat /\ g.runs \in Nat
            /\ g.runs <= g.execs /\ g.exits + g.threw = g.runs
            BY <1>1 DEF Orderly, ChannelStates
      <2>2. r = [g EXCEPT !.command = TRUE, !.ran = FALSE, !.input = 0, !.after = 0,
                          !.ended = FALSE, !.execs = g.execs + 1]
            BY DEF OnExecRequest
      <2> HIDE DEF r, g
      <2>3. r \in ChannelStates
            <3>1. [g EXCEPT !.command = TRUE, !.ran = FALSE] \in ChannelStates
                  BY <2>1 DEF ChannelStates
            <3>2. \A h \in ChannelStates : [h EXCEPT !.input = 0, !.after = 0] \in ChannelStates
                  BY DEF ChannelStates
            <3>3. \A h \in ChannelStates : \A n \in Nat :
                    [h EXCEPT !.ended = FALSE, !.execs = n] \in ChannelStates
                  BY DEF ChannelStates
            <3>4. g.execs + 1 \in Nat
                  BY <2>1
            <3> QED  BY <2>2, <3>1, <3>2, <3>3, <3>4, Zenon
      <2>4. /\ r.input = 0 /\ r.after = 0 /\ r.ran = FALSE /\ r.ended = FALSE
            /\ r.execs = g.execs + 1
            BY <2>1, <2>2 DEF ChannelStates
      <2>5. r.runs = g.runs /\ r.exits = g.exits /\ r.threw = g.threw
            BY <2>1, <2>2 DEF ChannelStates
      <2>6. Orderly(r)
            BY <2>1, <2>3, <2>4, <2>5 DEF Orderly
      <2> QED  BY <1>3, <2>6, ReplaceKeeps DEF ExecRequest, r, g
  <1>4. CASE Data(c)
      <2> DEFINE h == [chan[c] EXCEPT !.input = IF chan[c].command THEN @ + 1 ELSE @,
                                      !.client = @ + 1, !.after = @ + 1]
      <2>1. chan' = [chan EXCEPT ![c] = h]
            BY <1>1, <1>4 DEF Data, ChannelStates
      <2>2. Orderly(h)
            BY <1>1, <1>4 DEF Data, Orderly, ChannelStates
      <2> QED  BY <2>1, <2>2, ReplaceKeeps
  <1>5. ASSUME NEW returns \in BOOLEAN, Eof(c, returns) PROVE ChannelInv'
      <2> DEFINE g == chan[c]
                 one == IF g.command /\ ~g.ran THEN 1 ELSE 0
                 x == IF returns THEN g.exits + one ELSE g.exits
                 t == IF returns THEN g.threw ELSE g.threw + one
      <2>1. /\ g \in ChannelStates /\ g.ran \in BOOLEAN /\ g.command \in BOOLEAN
            /\ g.exits \in Nat /\ g.threw \in Nat /\ g.runs \in Nat /\ g.execs \in Nat
            BY <1>1 DEF ChannelStates
      <2>2. /\ one \in Nat /\ x \in Nat /\ t \in Nat /\ g.runs + one \in Nat
            /\ x + t = g.runs + one /\ g.runs + one <= g.execs
            BY <1>1, <2>1 DEF Orderly
      <2>3. OnEof(g, returns) = [g EXCEPT !.ended = TRUE, !.ran = g.command,
                                          !.runs = g.runs + one, !.exits = x, !.threw = t]
            BY DEF OnEof
      <2> HIDE DEF one, x, t, g
      <2>4. OnEof(g, returns) \in ChannelStates
            BY <2>1, <2>2, <2>3 DEF ChannelStates
      <2>5. /\ OnEof(g, returns).input = g.input /\ OnEof(g, returns).after = g.after
            /\ OnEof(g, returns).command = g.command /\ OnEof(g, returns).ran = g.command
            /\ OnEof(g, returns).ended = TRUE
            BY <2>1, <2>3 DEF ChannelStates
      <2>6. /\ OnEof(g, returns).runs = g.runs + one /\ OnEof(g, returns).execs = g.execs
            /\ OnEof(g, returns).exits = x /\ OnEof(g, returns).threw = t
            BY <2>1, <2>3 DEF ChannelStates
      <2>7. g.command => g.input = g.after
            BY <1>1 DEF Orderly, g
      <2>8. Orderly(OnEof(g, returns))
            BY <2>1, <2>2, <2>4, <2>5, <2>6, <2>7 DEF Orderly
      <2> QED  BY <1>5, <2>8, ReplaceKeeps DEF Eof, g
  <1>6. CASE SubsystemRequest(c)
      <2>1. chan' = [chan EXCEPT ![c] = [chan[c] EXCEPT !.callbacks = FALSE]]
            BY <1>6 DEF SubsystemRequest
      <2>2. Orderly([chan[c] EXCEPT !.callbacks = FALSE])
            BY <1>1 DEF Orderly, ChannelStates
      <2> QED  BY <2>1, <2>2, ReplaceKeeps
  <1>7. CASE OtherRequest(c) \/ EnvRequest(c) \/ X11Request(c)
      BY <1>7 DEF OtherRequest, EnvRequest, X11Request, vars, ChannelInv
  <1> QED  BY <1>2, <1>3, <1>4, <1>5, <1>6, <1>7 DEF ChannelStep

LEMMA ChannelsStep == ChannelInv /\ [Next]_vars => ChannelInv'
  <1> SUFFICES ASSUME ChannelInv, [Next]_vars PROVE ChannelInv'
      OBVIOUS
  <1>1. CASE NextSession
      BY <1>1, NewIsOrderly DEF NextSession, ChannelInv, Orderly
  <1>2. ASSUME NEW c \in Channels, ChannelStep(c) PROVE ChannelInv'
      BY <1>2, ChannelStepKeeps
  <1>3. CASE UNCHANGED chan
      BY <1>3 DEF ChannelInv
  <1>4. CASE UNCHANGED vars \/ SetHandler
      BY <1>3, <1>4 DEF vars, SetHandler
  <1>5. ASSUME NEW u \in Users, AuthNone(u) \/ AuthRefused(u) PROVE ChannelInv'
      BY <1>3, <1>5 DEF AuthNone, AuthRefused, ApplyAuthResult
  <1>6. ASSUME NEW u \in Users, NEW right \in BOOLEAN, AuthPassword(u, right) PROVE ChannelInv'
      BY <1>3, <1>6 DEF AuthPassword, ApplyAuthResult
  <1>7. ASSUME NEW u \in Users, NEW known \in BOOLEAN, NEW state \in {"none", "valid", "wrong"},
               AuthPublicKey(u, known, state)
        PROVE  ChannelInv'
      BY <1>3, <1>7 DEF AuthPublicKey, ApplyAuthResult
  <1>8. ASSUME NEW u \in Users, NEW o \in Objects, ReplyAuthSuccess(o, u) PROVE ChannelInv'
      BY <1>3, <1>8 DEF ReplyAuthSuccess, OnlyMessages
  <1>9. ASSUME NEW o \in Objects, NEW ask \in Asked, NextMessage(o, ask) PROVE ChannelInv'
      BY <1>3, <1>9 DEF NextMessage, OnlyMessages
  <1>10. ASSUME NEW o \in Objects, Replies(o) \/ Destroy(o) PROVE ChannelInv'
      BY <1>3, <1>10, RepliesAre DEF Destroy, OnlyMessages
  <1>11. ASSUME NEW o \in Objects, NEW p \in Objects, MoveConstruct(o, p) \/ MoveAssign(o, p)
         PROVE  ChannelInv'
      BY <1>3, <1>11 DEF MoveConstruct, MoveAssign, OnlyMessages
  <1> QED
      BY <1>1, <1>2, <1>4, <1>5, <1>6, <1>7, <1>8, <1>9, <1>10, <1>11 DEF Next, ChannelStep, Replies

(* A command runs once at most, when EOF comes behind its request, on all   *)
(* that came since the request, and is reported unless it threw; for any    *)
(* number of requests and EOFs and any amount of data.                      *)
THEOREM CommandsRunOnWholeInput == Spec => []RunsWholeInput
  <1>1. Init => ChannelInv
      BY NewIsOrderly DEF Init, ChannelInv, Orderly
  <1>2. ChannelInv => RunsWholeInput
      BY DEF ChannelInv, Orderly, RunsWholeInput, ChannelStates
  <1> QED  BY <1>1, <1>2, ChannelsStep, PTL DEF Spec

-----------------------------------------------------------------------------
(* ------------------------------- SftpServer ------------------------------ *)

(* ------------------------- the tree and its paths ------------------------- *)

(* A name's kind and what it leads to agree.                                *)
TreeOK(k, t) ==
  /\ k \in [Names -> Kinds]
  /\ t \in [Names -> Inodes \cup Paths \cup {Null}]
  /\ \A n \in Names : /\ k[n] = "file" => t[n] \in Inodes
                      /\ k[n] = "link" => t[n] \in Paths

(* No file is longer than the file system allows.                           *)
Sized == size \in [Inodes -> 0 .. SizeBound]

(* Following links ends at a path that is not a link.                       *)
LEMMA TargetType ==
  ASSUME NEW n \in Names, Ends(n) # {}
  PROVE  Target(n) \in Paths /\ ~IsLink(Target(n)) /\ Target(n) \in Ends(n)
  <1>1. Target(n) \in Ends(n)
      BY DEF Target
  <1> QED  BY <1>1 DEF Ends, Way

(* resolve_sftp_path() answers a name, the root or nothing; a link it       *)
(* answers is a dangling one, which open() can follow.                      *)
LEMMA ResolveType ==
  ASSUME TreeOK(kind, to), NEW p \in Paths
  PROVE  /\ Resolve(p) \in Names \cup {Root, Null}
         /\ Resolve(p) \in Names /\ kind[Resolve(p)] = "link" =>
              /\ Target(Resolve(p)) \in Names
              /\ kind[Target(Resolve(p))] # "link"
  <1>1. CASE ~IsLink(p)
      <2>1. Resolve(p) = IF p = Escape THEN Null ELSE p
            BY <1>1 DEF Resolve
      <2> QED  BY <1>1, <2>1, SftpAssumption DEF IsLink, Paths
  <1>2. CASE IsLink(p) /\ Ends(p) = {}
      BY <1>2, SftpAssumption DEF Resolve
  <1>3. CASE IsLink(p) /\ Ends(p) # {}
      <2>1. p \in Names /\ Ends(p) # {}
            BY <1>3 DEF IsLink
      <2>2. Target(p) \in Paths /\ ~IsLink(Target(p)) /\ Target(p) \in Ends(p)
            BY <2>1, TargetType
      <2>3. Resolve(p) = IF Target(p) = Escape THEN Null
                         ELSE IF Target(p) \in Names /\ kind[Target(p)] = "none" THEN p
                         ELSE Target(p)
            BY <1>3 DEF Resolve, Target
      <2> QED  BY <2>1, <2>2, <2>3, SftpAssumption DEF IsLink, Paths
  <1> QED  BY <1>1, <1>2, <1>3

(* ------------------------ what a request may change ----------------------- *)

(* The request is answered and nothing else happens.                        *)
Idle == Answer(reply') /\ reply' \in {"ok", "eof", "error"} /\ UNCHANGED <<tree, fds, table>>

(* What an open descriptor describes: a listing that has still everything   *)
(* before it, or a file that a read-only server has not opened for writing. *)
FreshEntry(e) ==
  \/ e \in DirEntry /\ e.owed = e.left /\ e.left \subseteq Existing
  \/ e \in FileEntry /\ (opt.readOnly => "write" \notin e.flags)

(* A descriptor is opened and given a handle; a file may have been created  *)
(* or emptied.                                                              *)
Gives(f, e) ==
  /\ f \in FreeFds /\ FreshEntry(e) /\ GiveHandle(f, e, fds)
  /\ TreeOK(kind', to') /\ Sized'
  /\ opt.readOnly => UNCHANGED tree
  /\ \A n \in Names : kind[n] # "none" => kind'[n] # "none"
  /\ \A i \in Inodes : size'[i] <= size[i]

(* A batch of a listing is sent.                                            *)
Lists(h) ==
  /\ table[h] # Null /\ fds[table[h]].dir
  /\ \E read \in SUBSET fds[table[h]].left : \E failed \in SUBSET (read \cap Existing) :
       Sends(h, read, (read \cap Existing) \ failed, failed)
  /\ UNCHANGED <<tree, table>>

(* The names change.                                                        *)
Edits(k, t) ==
  /\ ~opt.readOnly /\ TreeOK(k, t) /\ SetTree(k, t)
  /\ Answer("ok") /\ UNCHANGED <<size, table>>

(* A write is carried out.                                                  *)
Grows(h, offset, len) ==
  /\ ~opt.readOnly /\ table[h] # Null /\ ~fds[table[h]].dir
  /\ ~TooLarge(offset, len)
  /\ offset < Wrap \div 2 /\ fds[table[h]].ino # Null
  /\ \E w \in 0 .. len :
       LET e == fds[table[h]]
           at == IF "append" \in e.flags THEN size[e.ino] ELSE offset
       IN  /\ at + w <= SizeBound
           /\ size' = [size EXCEPT ![e.ino] = IF w > 0 /\ at + w > @ THEN at + w ELSE @]
  /\ Answer("ok") /\ UNCHANGED <<kind, to, fds, table>>

(* What a request does is one of six things.                                *)
Effect ==
  \/ Idle
  \/ \E f \in Fds, e \in DirEntry \cup FileEntry : Gives(f, e)
  \/ \E h \in Handles : Lists(h)
  \/ \E h \in Handles : Close(h)
  \/ \E k \in [Names -> Kinds], t \in [Names -> Inodes \cup Paths \cup {Null}] : Edits(k, t)
  \/ \E h \in Handles, offset \in Offsets, len \in Lens : Grows(h, offset, len)

(* A refusal is an answer and nothing else.                                 *)
LEMMA RefuseIdle == Refuse \/ Unsupported => Idle
  BY DEF Refuse, Unsupported, Answer, Idle

(* A request that only asks: whatever the answer is, it is one reply.       *)
LEMMA AnswerIdle ==
  ASSUME NEW r \in {"ok", "eof", "error"}, Answer(r), UNCHANGED <<tree, fds, table>>
  PROVE  Idle
  BY DEF Answer, Idle

(* REALPATH, READLINK, STAT and LSTAT.                                      *)
LEMMA PathQueriesIdle ==
  ASSUME NEW p \in Paths, RealPath(p) \/ ReadLink(p) \/ \E follow \in BOOLEAN : Stat(p, follow)
  PROVE  Idle
  <1>1. CASE RealPath(p)
      BY <1>1, AnswerIdle DEF RealPath
  <1>2. CASE ReadLink(p)
      BY <1>2, AnswerIdle DEF ReadLink
  <1>3. ASSUME NEW follow \in BOOLEAN, Stat(p, follow) PROVE Idle
      BY <1>3, AnswerIdle DEF Stat
  <1> QED  BY <1>1, <1>2, <1>3

(* FSTAT.                                                                   *)
LEMMA FStatIdle ==
  ASSUME NEW h \in Handles, FStat(h)
  PROVE  Idle
  BY AnswerIdle DEF FStat

(* READ.                                                                    *)
LEMMA ReadIdle ==
  ASSUME NEW h \in Handles, NEW offset \in Offsets, NEW len \in Lens, Read(h, offset, len)
  PROVE  Idle
  BY AnswerIdle, RefuseIdle DEF Read, InvalidHandle

(* OPENDIR: the listing starts with everything in the directory.            *)
LEMMA OpenDirEffect ==
  ASSUME TreeOK(kind, to), Sized, NEW p \in Paths, OpenDir(p)
  PROVE  Effect
  <1> DEFINE r == Resolve(p)
             now == IF r = Root THEN Existing ELSE {}
             e == [dir |-> TRUE, path |-> r, left |-> now, owed |-> now]
  <1>1. CASE Refuse
      BY <1>1, RefuseIdle DEF Effect
  <1>2. ASSUME NEW f \in FreeFds, GiveHandle(f, e, fds), UNCHANGED tree,
               r = Root \/ r \in Names
        PROVE  Effect
      <2>1. e \in DirEntry /\ e.owed = e.left /\ e.left \subseteq Existing
            BY <1>2 DEF DirEntry, Existing
      <2>2. f \in Fds
            BY <1>2 DEF FreeFds
      <2>3. /\ TreeOK(kind', to') /\ Sized'
            /\ \A i \in Inodes : size'[i] <= size[i]
            BY <1>2 DEF tree, TreeOK, Sized
      <2>4. Gives(f, e)
            BY <1>2, <2>1, <2>3 DEF Gives, FreshEntry, tree
      <2> QED  BY <2>1, <2>2, <2>4 DEF Effect
  <1> QED  BY <1>1, <1>2 DEF OpenDir

(* OPEN: of a directory, of a file that is there, or of a new one; a        *)
(* read-only server opens only for reading.                                 *)
LEMMA OpenEffect ==
  ASSUME TreeOK(kind, to), Sized, NEW p \in Paths, NEW flags \in OpenFlags, Open(p, flags)
  PROVE  Effect
  <1> DEFINE r == Resolve(p)
             n == IF r \in Names /\ kind[r] = "link" THEN Target(r) ELSE r
             changes == flags \cap {"write", "creat", "trunc", "append"} # {}
             entry(i) == [dir |-> FALSE, ino |-> i, flags |-> flags]
  <1>1. CASE Refuse
      BY <1>1, RefuseIdle DEF Effect
  <1>2. CASE ~Refuse
      <2>1. r \in Names \cup {Root} /\ ~(changes /\ opt.readOnly)
            BY <1>2, ResolveType DEF Open, DeniedReadOnly
      <2>2. r \in Names => n \in Names /\ kind[n] # "link"
            BY ResolveType
      <2>3. ASSUME NEW i \in Inodes \cup {Null} PROVE FreshEntry(entry(i)) /\ entry(i) \in FileEntry
            <3>1. flags \in SUBSET Flags
                  BY SftpAssumption
            <3>2. opt.readOnly => "write" \notin flags
                  BY <2>1
            <3> QED  BY <3>1, <3>2 DEF FreshEntry, FileEntry
      <2>4. ASSUME NEW f \in FreeFds, NEW i \in Inodes \cup {Null}, GiveHandle(f, entry(i), fds),
                   TreeOK(kind', to'), Sized', opt.readOnly => UNCHANGED tree,
                   \A m \in Names : kind[m] # "none" => kind'[m] # "none",
                   \A j \in Inodes : size'[j] <= size[j]
            PROVE  Effect
            <3>1. Gives(f, entry(i)) /\ f \in Fds
                  BY <2>3, <2>4 DEF Gives, FreeFds
            <3> QED  BY <2>3, <3>1 DEF Effect
      <2>5. PICK f \in FreeFds :
              \/ /\ Opened(r, flags) = "dir"
                 /\ GiveHandle(f, entry(Null), fds) /\ UNCHANGED tree
              \/ /\ Opened(r, flags) = "file"
                 /\ GiveHandle(f, entry(to[n]), fds)
                 /\ size' = [size EXCEPT ![to[n]] = IF "trunc" \in flags THEN 0 ELSE @]
                 /\ UNCHANGED <<kind, to>>
              \/ /\ Opened(r, flags) = "new"
                 /\ \E i \in Inodes \ Used :
                      /\ GiveHandle(f, entry(i), fds)
                      /\ kind' = [kind EXCEPT ![n] = "file"]
                      /\ to' = [to EXCEPT ![n] = i]
                      /\ size' = [size EXCEPT ![i] = 0]
            BY <1>2, ZenonT(60) DEF Open, DeniedReadOnly
      <2>6. CASE Opened(r, flags) = "dir"
            <3>1. GiveHandle(f, entry(Null), fds) /\ UNCHANGED tree
                  BY <2>5, <2>6
            <3>2. TreeOK(kind', to') /\ Sized' /\ \A j \in Inodes : size'[j] <= size[j]
                  BY <3>1 DEF tree, TreeOK, Sized
            <3> QED  BY <2>4, <3>1, <3>2 DEF tree
      <2>7. CASE Opened(r, flags) = "file"
            <3>1. /\ GiveHandle(f, entry(to[n]), fds)
                  /\ size' = [size EXCEPT ![to[n]] = IF "trunc" \in flags THEN 0 ELSE @]
                  /\ UNCHANGED <<kind, to>>
                  BY <2>5, <2>7
            <3>2. n \in Names /\ kind[n] = "file"
                  BY <2>1, <2>2, <2>7, SftpAssumption DEF Opened
            <3>3. to[n] \in Inodes
                  BY <3>2 DEF TreeOK
            <3>4. TreeOK(kind', to') /\ \A m \in Names : kind[m] # "none" => kind'[m] # "none"
                  BY <3>1
            <3>5. Sized' /\ \A j \in Inodes : size'[j] <= size[j]
                  BY <3>1, <3>3, SftpAssumption DEF Sized
            <3>6. opt.readOnly => UNCHANGED tree
                  BY <2>1, <3>1, <3>3 DEF Sized, tree
            <3> QED  BY <2>4, <3>1, <3>3, <3>4, <3>5, <3>6
      <2>8. CASE Opened(r, flags) = "new"
            <3>1. PICK i \in Inodes \ Used :
                      /\ GiveHandle(f, entry(i), fds)
                      /\ kind' = [kind EXCEPT ![n] = "file"]
                      /\ to' = [to EXCEPT ![n] = i]
                      /\ size' = [size EXCEPT ![i] = 0]
                  BY <2>5, <2>8
            <3>2. r \in Names /\ n \in Names /\ "creat" \in flags
                  BY <2>1, <2>2, <2>8, SftpAssumption DEF Opened
            <3>3. TreeOK(kind', to') /\ \A m \in Names : kind[m] # "none" => kind'[m] # "none"
                  BY <3>1, <3>2 DEF TreeOK, Kinds
            <3>4. Sized' /\ \A j \in Inodes : size'[j] <= size[j]
                  BY <3>1, SftpAssumption DEF Sized
            <3>5. ~opt.readOnly
                  BY <2>1, <3>2
            <3> QED  BY <2>4, <3>1, <3>3, <3>4, <3>5
      <2> QED  BY <2>5, <2>6, <2>7, <2>8
  <1> QED  BY <1>1, <1>2

(* READDIR.                                                                 *)
LEMMA ReadDirEffect ==
  ASSUME NEW h \in Handles, ReadDir(h)
  PROVE  Effect
  <1>1. CASE Idle
      BY <1>1 DEF Effect
  <1>2. CASE ~Idle
      <2>1. ~Refuse
            BY <1>2, RefuseIdle
      <2>2. table[h] # Null /\ fds[table[h]].dir /\ UNCHANGED <<tree, table>>
            BY <2>1 DEF ReadDir, InvalidHandle
      <2>3. ~(Answer("eof") /\ UNCHANGED fds)
            BY <1>2, <2>2 DEF Idle, Answer
      <2>4. \E read \in SUBSET fds[table[h]].left : \E failed \in SUBSET (read \cap Existing) :
              Sends(h, read, (read \cap Existing) \ failed, failed)
            BY <2>1, <2>2, <2>3, Zenon DEF ReadDir, InvalidHandle
      <2> QED  BY <2>2, <2>4 DEF Effect, Lists
  <1> QED  BY <1>1, <1>2

(* WRITE.                                                                   *)
LEMMA WriteEffect ==
  ASSUME NEW h \in Handles, NEW offset \in Offsets, NEW len \in Lens, Write(h, offset, len)
  PROVE  Effect
  <1>1. CASE Refuse
      BY <1>1, RefuseIdle DEF Effect
  <1>2. CASE ~Refuse
      <2>1. len \in Nat /\ \A w \in (IF len = 0 THEN {0} ELSE 1 .. len) : w \in 0 .. len
            BY SftpAssumption
      <2>2. Grows(h, offset, len)
            BY <1>2, <2>1 DEF Write, DeniedReadOnly, InvalidHandle, Grows
      <2> QED  BY <2>2 DEF Effect
  <1> QED  BY <1>1, <1>2

(* What the requests that change names have in common.                      *)
LEMMA EditsEffect ==
  ASSUME NEW k, NEW t, ~opt.readOnly, TreeOK(k, t), SetTree(k, t),
         Answer("ok"), UNCHANGED <<size, table>>
  PROVE  Effect
  BY DEF Effect, Edits, TreeOK

(* REMOVE.                                                                  *)
LEMMA RemoveEffect ==
  ASSUME TreeOK(kind, to), NEW p \in Paths, Remove(p)
  PROVE  Effect
  <1>1. CASE Refuse
      BY <1>1, RefuseIdle DEF Effect
  <1>2. TreeOK([kind EXCEPT ![Resolve(p)] = "none"], [to EXCEPT ![Resolve(p)] = Null])
      BY DEF TreeOK, Kinds
  <1> QED  BY <1>1, <1>2, EditsEffect DEF Remove, DeniedReadOnly

(* MKDIR.                                                                   *)
LEMMA MkDirEffect ==
  ASSUME TreeOK(kind, to), NEW p \in Paths, MkDir(p)
  PROVE  Effect
  <1>1. CASE Refuse
      BY <1>1, RefuseIdle DEF Effect
  <1>2. TreeOK([kind EXCEPT ![Resolve(p)] = "dir"], to)
      BY DEF TreeOK, Kinds
  <1> QED  BY <1>1, <1>2, EditsEffect DEF MkDir, DeniedReadOnly

(* RMDIR.                                                                   *)
LEMMA RmDirEffect ==
  ASSUME TreeOK(kind, to), NEW p \in Paths, RmDir(p)
  PROVE  Effect
  <1>1. CASE Refuse
      BY <1>1, RefuseIdle DEF Effect
  <1>2. TreeOK([kind EXCEPT ![Resolve(p)] = "none"], to)
      BY DEF TreeOK, Kinds
  <1> QED  BY <1>1, <1>2, EditsEffect DEF RmDir, DeniedReadOnly

(* SYMLINK.                                                                 *)
LEMMA SymLinkEffect ==
  ASSUME TreeOK(kind, to), NEW p \in Paths, NEW target \in Paths, SymLink(target, p)
  PROVE  Effect
  <1>1. CASE Refuse
      BY <1>1, RefuseIdle DEF Effect
  <1>2. TreeOK([kind EXCEPT ![Resolve(p)] = "link"], [to EXCEPT ![Resolve(p)] = target])
      BY DEF TreeOK, Kinds
  <1> QED  BY <1>1, <1>2, EditsEffect DEF SymLink, DeniedReadOnly

(* RENAME, also onto an existing name.                                      *)
LEMMA RenameEffect ==
  ASSUME TreeOK(kind, to), NEW p \in Paths, NEW q \in Paths, Rename(p, q)
  PROVE  Effect
  <1> DEFINE from == Resolve(p)
             onto == Resolve(q)
             k == [kind EXCEPT ![onto] = kind[from], ![from] = "none"]
             t == [to EXCEPT ![onto] = to[from], ![from] = Null]
  <1>1. CASE Refuse
      BY <1>1, RefuseIdle DEF Effect
  <1>2. CASE ~Refuse
      <2>1. /\ ~opt.readOnly /\ from \in Names /\ onto \in Names
            /\ Answer("ok") /\ UNCHANGED <<size, table>>
            /\ IF from = onto THEN UNCHANGED <<kind, to, fds>> ELSE SetTree(k, t)
            BY <1>2 DEF Rename, DeniedReadOnly
      <2>2. CASE from = onto
            BY <2>1, <2>2 DEF Effect, Idle, Answer, tree
      <2>3. CASE from # onto
            <3>1. TreeOK(k, t)
                  BY <2>1 DEF TreeOK, Kinds
            <3> QED  BY <2>1, <2>3, <3>1, EditsEffect
      <2> QED  BY <2>2, <2>3
  <1> QED  BY <1>1, <1>2

(* Every request, one case per request type.                                *)
LEMMA RequestEffect ==
  ASSUME TreeOK(kind, to), Sized, Request
  PROVE  Effect
  <1>1. ASSUME NEW p \in Paths,
               \/ RealPath(p) \/ OpenDir(p) \/ Remove(p) \/ MkDir(p) \/ RmDir(p) \/ ReadLink(p)
               \/ \E follow \in BOOLEAN : Stat(p, follow)
               \/ \E flags \in OpenFlags : Open(p, flags)
               \/ \E q \in Paths : Rename(p, q)
               \/ \E t \in Paths : SymLink(t, p)
        PROVE  Effect
      <2>1. CASE RealPath(p) \/ ReadLink(p) \/ \E follow \in BOOLEAN : Stat(p, follow)
            BY <2>1, PathQueriesIdle DEF Effect
      <2>2. CASE OpenDir(p)
            BY <2>2, OpenDirEffect
      <2>3. CASE \E flags \in OpenFlags : Open(p, flags)
            BY <2>3, OpenEffect
      <2>4. CASE Remove(p) \/ MkDir(p) \/ RmDir(p)
            BY <2>4, RemoveEffect, MkDirEffect, RmDirEffect
      <2>5. CASE \E q \in Paths : Rename(p, q)
            BY <2>5, RenameEffect
      <2>6. CASE \E t \in Paths : SymLink(t, p)
            BY <2>6, SymLinkEffect
      <2> QED  BY <1>1, <2>1, <2>2, <2>3, <2>4, <2>5, <2>6
  <1>2. ASSUME NEW h \in Handles,
               \/ FStat(h) \/ ReadDir(h) \/ Close(h)
               \/ \E offset \in Offsets, len \in Lens : Read(h, offset, len) \/ Write(h, offset, len)
        PROVE  Effect
      <2>1. CASE FStat(h)
            BY <2>1, FStatIdle DEF Effect
      <2>2. CASE ReadDir(h)
            BY <2>2, ReadDirEffect
      <2>3. CASE Close(h)
            BY <2>3 DEF Effect
      <2>4. CASE \E offset \in Offsets, len \in Lens : Read(h, offset, len)
            BY <2>4, ReadIdle DEF Effect
      <2>5. CASE \E offset \in Offsets, len \in Lens : Write(h, offset, len)
            BY <2>5, WriteEffect
      <2> QED  BY <1>2, <2>1, <2>2, <2>3, <2>4, <2>5
  <1> QED  BY <1>1, <1>2, RefuseIdle DEF Request, Effect

-----------------------------------------------------------------------------
(* ----------------------------- the invariant ------------------------------ *)

(* The types of the descriptors and slots, and of the rest.                 *)
FdTypes == /\ fds \in [Fds -> FileEntry \cup DirEntry \cup {Null}]
           /\ table \in [Handles -> Fds \cup {Null}]

ControlTypes == /\ pc \in {"new", "serving", "ended"}
                /\ opt \in [readOnly : BOOLEAN, maxSize : {0, MaxSize}]
                /\ reply \in {"ok", "eof", "error"}

(* Before the first request nothing is open.                                *)
Untouched == pc = "new" => /\ \A f \in Fds : fds[f] = Null
                           /\ \A h \in Handles : table[h] = Null

(* A name that a listing owes still exists.                                 *)
OwedExist == \A f \in Fds : fds[f] # Null /\ fds[f].dir => fds[f].owed \subseteq Existing

(* A read-only server has nothing open for writing.                         *)
NoWriters ==
  opt.readOnly => \A f \in Fds : fds[f] # Null /\ ~fds[f].dir => "write" \notin fds[f].flags

(* The inductive invariant.                                                 *)
SftpInv ==
  /\ ControlTypes /\ FdTypes /\ Sized /\ TreeOK(kind, to)
  /\ Untouched /\ HandlesExact /\ OwedExist /\ ListingComplete /\ NoWriters

(* The entries of the table's two kinds.                                    *)
LEMMA EntryKinds ==
  /\ \A e \in FileEntry : e.dir = FALSE /\ e # Null
  /\ \A e \in DirEntry : e.dir = TRUE /\ e # Null
  BY SftpAssumption DEF FileEntry, DirEntry

(* Nothing is open in an initial state.                                     *)
LEMMA InitSftp == SftpInit => SftpInv
  <1> SUFFICES ASSUME SftpInit PROVE SftpInv
      OBVIOUS
  <1>1. ControlTypes /\ Sized
      BY SftpAssumption DEF SftpInit, ControlTypes, Sized
  <1>2. TreeOK(kind, to)
      BY DEF SftpInit, TreeOK
  <1>3. /\ \A f \in Fds : fds[f] = Null
        /\ \A h \in Handles : table[h] = Null
        /\ FdTypes
      BY DEF SftpInit, FdTypes
  <1>4. Untouched /\ HandlesExact /\ OwedExist /\ ListingComplete /\ NoWriters
      BY <1>3 DEF SftpInit, Untouched, HandlesExact, OwedExist, ListingComplete, NoWriters
  <1> QED  BY <1>1, <1>2, <1>3, <1>4 DEF SftpInv

(* An answer alone.                                                         *)
LEMMA IdleKeeps == ASSUME SftpInv, Idle PROVE SftpInv'
  <1>1. ControlTypes'
      BY DEF SftpInv, Idle, Answer, ControlTypes
  <1>2. FdTypes' /\ Sized' /\ TreeOK(kind, to)'
      BY DEF SftpInv, Idle, tree, FdTypes, Sized, TreeOK
  <1>3. Untouched' /\ HandlesExact'
      BY DEF SftpInv, Idle, Answer, Untouched, HandlesExact
  <1>4. OwedExist' /\ ListingComplete'
      BY DEF SftpInv, Idle, Answer, tree, OwedExist, ListingComplete, Existing
  <1>5. NoWriters'
      BY DEF SftpInv, Idle, Answer, NoWriters
  <1> QED  BY <1>1, <1>2, <1>3, <1>4, <1>5 DEF SftpInv

(* What a descriptor is given in a full and in a free table.                *)
LEMMA GivesKeeps ==
  ASSUME SftpInv, pc = "serving", NEW f \in Fds, NEW e \in DirEntry \cup FileEntry, Gives(f, e)
  PROVE  SftpInv'
  <1>1. ControlTypes' /\ UNCHANGED <<pc, opt>>
      BY DEF SftpInv, Gives, GiveHandle, Answer, ControlTypes
  <1>2. Sized' /\ TreeOK(kind, to)'
      BY DEF Gives
  <1>3. Untouched'
      BY <1>1 DEF Untouched
  <1>4. \/ UNCHANGED <<fds, table>>
        \/ \E h \in FreeSlots : /\ fds' = [fds EXCEPT ![f] = e]
                                /\ table' = [table EXCEPT ![h] = f]
      BY DEF Gives, GiveHandle
  <1>5. Existing \subseteq Existing'
      BY <1>2 DEF Gives, Existing, TreeOK, SftpInv
  <1>6. CASE UNCHANGED <<fds, table>>
      <2>1. FdTypes' /\ HandlesExact' /\ ListingComplete' /\ NoWriters'
            BY <1>1, <1>6 DEF SftpInv, FdTypes, HandlesExact, ListingComplete, NoWriters
      <2>2. OwedExist'
            BY <1>5, <1>6 DEF SftpInv, OwedExist
      <2> QED  BY <1>1, <1>2, <1>3, <2>1, <2>2 DEF SftpInv
  <1>7. ASSUME NEW h \in FreeSlots, fds' = [fds EXCEPT ![f] = e], table' = [table EXCEPT ![h] = f]
        PROVE  SftpInv'
      <2>1. FdTypes /\ f \in Fds /\ fds[f] = Null /\ h \in Handles /\ table[h] = Null /\ e # Null
            BY <1>7, EntryKinds DEF SftpInv, Gives, FreeFds, FreeSlots
      <2>2. FdTypes'
            BY <1>7, <2>1 DEF FdTypes
      <2>3. /\ fds'[f] = e /\ table'[h] = f
            /\ \A g \in Fds : g # f => fds'[g] = fds[g]
            /\ \A k \in Handles : k # h => table'[k] = table[k]
            BY <1>7, <2>1 DEF FdTypes
      <2>4. \A k \in Handles : table[k] # f
            BY <1>1, <2>1, SftpAssumption DEF SftpInv, HandlesExact
      <2>5. HandlesExact'
            <3>1. \A k \in Handles : table'[k] # Null => fds'[table'[k]] # Null
                  BY <2>1, <2>3, <2>4 DEF SftpInv, HandlesExact, FdTypes
            <3>2. \A g \in Fds : fds'[g] # Null => \E k \in Handles : table'[k] = g
                  BY <2>1, <2>3, <2>4, SftpAssumption DEF SftpInv, HandlesExact, FdTypes
            <3>3. \A j, k \in Handles : table'[j] # Null /\ table'[j] = table'[k] => j = k
                  BY <2>1, <2>3, <2>4 DEF SftpInv, HandlesExact, FdTypes
            <3> QED  BY <3>1, <3>2, <3>3 DEF HandlesExact
      <2>6. OwedExist'
            <3>1. e.dir => e.owed \subseteq Existing
                  BY EntryKinds DEF Gives, FreshEntry
            <3> QED  BY <1>5, <2>3, <3>1 DEF SftpInv, OwedExist
      <2>7. ListingComplete'
            <3>1. e.dir => e.owed \subseteq e.left
                  BY EntryKinds DEF Gives, FreshEntry
            <3> QED  BY <2>3, <3>1 DEF SftpInv, ListingComplete
      <2>8. NoWriters'
            <3>1. opt.readOnly /\ ~e.dir => "write" \notin e.flags
                  BY EntryKinds DEF Gives, FreshEntry
            <3> QED  BY <1>1, <2>3, <3>1 DEF SftpInv, NoWriters
      <2> QED  BY <1>1, <1>2, <1>3, <2>2, <2>5, <2>6, <2>7, <2>8 DEF SftpInv
  <1> QED  BY <1>4, <1>6, <1>7

(* A batch takes out of left what it takes out of owed.                     *)
LEMMA ListsKeeps ==
  ASSUME SftpInv, pc = "serving", NEW h \in Handles, Lists(h)
  PROVE  SftpInv'
  <1> DEFINE f == table[h]
  <1>1. ControlTypes' /\ UNCHANGED <<pc, opt>>
      BY DEF SftpInv, Lists, Sends, Answer, ControlTypes
  <1>2. UNCHANGED <<tree, table>> /\ Existing' = Existing
      BY DEF Lists, tree, Existing
  <1>3. Sized' /\ TreeOK(kind, to)' /\ Untouched'
      BY <1>1, <1>2 DEF SftpInv, tree, Sized, TreeOK, Untouched
  <1>4. FdTypes /\ f \in Fds /\ fds[f] # Null /\ fds[f].dir
      BY DEF SftpInv, FdTypes, HandlesExact, Lists
  <1>5. fds[f] \in DirEntry
      BY <1>4, EntryKinds DEF FdTypes
  <1>0. PICK read \in SUBSET fds[f].left : \E failed \in SUBSET (read \cap Existing) :
          Sends(h, read, (read \cap Existing) \ failed, failed)
      BY DEF Lists
  <1>6. PICK failed \in SUBSET (read \cap Existing) :
          fds' = [fds EXCEPT ![f].left = @ \ read,
                             ![f].owed = @ \ (((read \cap Existing) \ failed) \cup failed)]
      BY <1>0 DEF Sends
  <1>7. /\ fds'[f] = [fds[f] EXCEPT !.left = @ \ read,
                                    !.owed = @ \ (((read \cap Existing) \ failed) \cup failed)]
        /\ \A g \in Fds : g # f => fds'[g] = fds[g]
        /\ DOMAIN fds' = Fds
      BY <1>4, <1>6 DEF FdTypes
  <1>8. /\ fds'[f] \in DirEntry
        /\ fds'[f].left = fds[f].left \ read
        /\ fds'[f].owed = fds[f].owed \ (read \cap Existing)
      <2>1. ((read \cap Existing) \ failed) \cup failed = read \cap Existing
            BY <1>6
      <2> QED  BY <1>5, <1>7, <2>1 DEF DirEntry
  <1>9. FdTypes'
      <2>1. \A g \in Fds : fds'[g] \in FileEntry \cup DirEntry \cup {Null}
            BY <1>4, <1>7, <1>8 DEF FdTypes
      <2>2. fds' = [g \in Fds |-> fds'[g]]
            BY <1>4, <1>6 DEF FdTypes
      <2> QED  BY <1>2, <1>4, <2>1, <2>2 DEF FdTypes
  <1>10. fds'[f] # Null /\ fds'[f].dir
      BY <1>8, EntryKinds
  <1>11. HandlesExact'
      <2>1. table' = table /\ \A g \in Fds : fds'[g] = Null <=> fds[g] = Null
            BY <1>2, <1>4, <1>7, <1>10
      <2> QED  BY <1>1, <1>4, <2>1 DEF SftpInv, HandlesExact, FdTypes
  <1>12. OwedExist'
      BY <1>2, <1>4, <1>7, <1>8 DEF SftpInv, OwedExist
  <1>13. ListingComplete'
      <2>1. fds[f].owed \subseteq fds[f].left /\ fds[f].owed \subseteq Existing
            BY <1>4 DEF SftpInv, ListingComplete, OwedExist
      <2>2. fds'[f].owed \subseteq fds'[f].left
            BY <1>8, <2>1
      <2> QED  BY <1>7, <2>2 DEF SftpInv, ListingComplete
  <1>14. NoWriters'
      BY <1>1, <1>7, <1>10 DEF SftpInv, NoWriters
  <1> QED  BY <1>1, <1>3, <1>9, <1>11, <1>12, <1>13, <1>14 DEF SftpInv

(* CLOSE frees the slot together with its descriptor.                       *)
LEMMA CloseKeeps ==
  ASSUME SftpInv, pc = "serving", NEW h \in Handles, Close(h)
  PROVE  SftpInv'
  <1>1. ControlTypes' /\ UNCHANGED <<pc, opt>>
      BY DEF SftpInv, Close, Answer, ControlTypes
  <1>2. UNCHANGED tree /\ Existing' = Existing
      BY DEF Close, tree, Existing
  <1>3. Sized' /\ TreeOK(kind, to)' /\ Untouched'
      BY <1>1, <1>2 DEF SftpInv, tree, Sized, TreeOK, Untouched
  <1>4. CASE table[h] = Null
      <2>1. UNCHANGED <<fds, table>>
            BY <1>4 DEF Close
      <2>2. FdTypes' /\ HandlesExact' /\ ListingComplete' /\ NoWriters' /\ OwedExist'
            BY <1>1, <1>2, <2>1
            DEF SftpInv, FdTypes, HandlesExact, ListingComplete, NoWriters, OwedExist
      <2> QED  BY <1>1, <1>3, <2>2 DEF SftpInv
  <1>5. CASE table[h] # Null
      <2>1. FdTypes /\ table[h] \in Fds
            BY <1>5 DEF SftpInv, FdTypes
      <2>2. table' = [table EXCEPT ![h] = Null] /\ fds' = [fds EXCEPT ![table[h]] = Null]
            BY <1>5 DEF Close
      <2>3. /\ fds'[table[h]] = Null /\ table'[h] = Null
            /\ \A g \in Fds : g # table[h] => fds'[g] = fds[g]
            /\ \A k \in Handles : k # h => table'[k] = table[k]
            BY <2>1, <2>2 DEF FdTypes
      <2>4. FdTypes'
            BY <2>1, <2>2 DEF FdTypes
      <2>5. HandlesExact'
            BY <1>1, <1>5, <2>1, <2>3 DEF SftpInv, HandlesExact, FdTypes
      <2>6. OwedExist' /\ ListingComplete' /\ NoWriters'
            BY <1>1, <1>2, <2>1, <2>3 DEF SftpInv, OwedExist, ListingComplete, NoWriters
      <2> QED  BY <1>1, <1>3, <2>4, <2>5, <2>6 DEF SftpInv
  <1> QED  BY <1>4, <1>5

(* SetTree() leaves every entry what it was but for the names it owes.     *)
LEMMA SetTreeEntries ==
  ASSUME FdTypes, NEW k, NEW t, SetTree(k, t), NEW f \in Fds
  PROVE  /\ fds[f] = Null => fds'[f] = Null
         /\ fds[f] \in FileEntry => fds'[f] = fds[f]
         /\ fds[f] \in DirEntry => /\ fds'[f] \in DirEntry
                                   /\ fds'[f].owed = {n \in fds[f].owed : k[n] # "none"}
                                   /\ fds'[f].left = fds[f].left
  <1>1. fds'[f] = IF fds[f] # Null /\ fds[f].dir
                  THEN [fds[f] EXCEPT !.owed = {n \in @ : k[n] # "none"}] ELSE fds[f]
      BY DEF SetTree
  <1>2. CASE fds[f] = Null
      BY <1>1, <1>2, EntryKinds
  <1>3. CASE fds[f] \in FileEntry
      BY <1>1, <1>3, EntryKinds
  <1>4. CASE fds[f] \in DirEntry
      <2>1. fds[f] # Null /\ fds[f].dir /\ fds[f] \notin FileEntry
            BY <1>4, EntryKinds
      <2>2. fds'[f] = [fds[f] EXCEPT !.owed = {n \in fds[f].owed : k[n] # "none"}]
            BY <1>1, <2>1
      <2>3. {n \in fds[f].owed : k[n] # "none"} \in SUBSET Names
            BY <1>4 DEF DirEntry
      <2>4. /\ fds'[f] \in DirEntry
            /\ fds'[f].owed = {n \in fds[f].owed : k[n] # "none"}
            /\ fds'[f].left = fds[f].left
            BY <1>4, <2>2, <2>3 DEF DirEntry
      <2> QED  BY <2>1, <2>4
  <1> QED  BY <1>2, <1>3, <1>4 DEF FdTypes

(* A name that is gone is owed by no listing.                               *)
LEMMA EditsKeeps ==
  ASSUME SftpInv, pc = "serving", NEW k, NEW t, Edits(k, t)
  PROVE  SftpInv'
  <1>1. ControlTypes' /\ UNCHANGED <<pc, opt>>
      BY DEF SftpInv, Edits, Answer, ControlTypes
  <1>2. kind' = k /\ to' = t /\ UNCHANGED <<size, table>> /\ SetTree(k, t) /\ ~opt.readOnly
      BY DEF Edits, SetTree
  <1>3. TreeOK(kind, to)' /\ Sized' /\ Untouched' /\ NoWriters'
      BY <1>1, <1>2 DEF SftpInv, Edits, Sized, Untouched, NoWriters
  <1>4. FdTypes
      BY DEF SftpInv
  <1>5. \A f \in Fds : fds'[f] \in FileEntry \cup DirEntry \cup {Null}
                         /\ (fds'[f] = Null <=> fds[f] = Null)
      BY <1>2, <1>4, SetTreeEntries, EntryKinds DEF FdTypes
  <1>6. FdTypes'
      <2>1. fds' = [f \in Fds |-> fds'[f]]
            BY <1>2 DEF SetTree
      <2> QED  BY <1>2, <1>4, <1>5, <2>1 DEF FdTypes
  <1>7. HandlesExact'
      BY <1>1, <1>2, <1>4, <1>5 DEF SftpInv, HandlesExact, FdTypes
  <1>8. OwedExist' /\ ListingComplete'
      <2> SUFFICES ASSUME NEW f \in Fds, fds'[f] # Null, fds'[f].dir
                   PROVE  /\ fds'[f].owed \subseteq Existing'
                          /\ fds'[f].owed \subseteq fds'[f].left
            BY DEF OwedExist, ListingComplete
      <2>1. fds[f] # Null /\ fds[f] \in DirEntry /\ fds[f].dir
            BY <1>2, <1>4, <1>5, SetTreeEntries, EntryKinds DEF FdTypes
      <2>2. /\ fds'[f].owed = {n \in fds[f].owed : k[n] # "none"}
            /\ fds'[f].left = fds[f].left
            BY <1>2, <1>4, <2>1, SetTreeEntries
      <2>3. fds[f].owed \subseteq Names /\ fds[f].owed \subseteq fds[f].left
            BY <2>1 DEF SftpInv, ListingComplete, DirEntry
      <2> QED  BY <1>2, <2>2, <2>3 DEF Existing
  <1> QED  BY <1>1, <1>3, <1>6, <1>7, <1>8 DEF SftpInv

(* A write touches no descriptor and no name.                               *)
LEMMA GrowsKeeps ==
  ASSUME SftpInv, pc = "serving", NEW h \in Handles, NEW offset \in Offsets, NEW len \in Lens,
         Grows(h, offset, len)
  PROVE  SftpInv'
  <1>1. ControlTypes' /\ UNCHANGED <<pc, opt>>
      BY DEF SftpInv, Grows, Answer, ControlTypes
  <1>2. UNCHANGED <<kind, to, fds, table>> /\ Existing' = Existing
      BY DEF Grows, Existing
  <1>3. TreeOK(kind, to)' /\ FdTypes' /\ Untouched' /\ HandlesExact' /\ OwedExist'
          /\ ListingComplete' /\ NoWriters'
      BY <1>1, <1>2 DEF SftpInv, FdTypes, Untouched, HandlesExact, OwedExist,
                        ListingComplete, NoWriters
  <1>4. Sized'
      <2>1. offset \in Nat /\ len \in Nat /\ SizeBound \in Nat
            BY SftpAssumption
      <2>2. table[h] \in Fds /\ fds[table[h]] # Null /\ ~fds[table[h]].dir
            BY DEF SftpInv, FdTypes, HandlesExact, Grows
      <2>3. fds[table[h]] \in FileEntry
            BY <2>2, EntryKinds DEF SftpInv, FdTypes
      <2>4. fds[table[h]].ino \in Inodes
            BY <2>3 DEF FileEntry, Grows
      <2> QED  BY <2>1, <2>4 DEF SftpInv, Sized, Grows
  <1> QED  BY <1>1, <1>3, <1>4 DEF SftpInv

(* Every step keeps the invariant, one case per effect.                     *)
LEMMA NextSftp == SftpInv /\ [SftpNext]_sftpVars => SftpInv'
  <1> SUFFICES ASSUME SftpInv, [SftpNext]_sftpVars PROVE SftpInv'
      OBVIOUS
  <1>1. CASE Start
      <2>1. ControlTypes'
            BY <1>1 DEF SftpInv, Start, ControlTypes
      <2>2. /\ \A f \in Fds : fds'[f] = Null
            /\ \A h \in Handles : table'[h] = Null
            /\ pc' # "new" /\ UNCHANGED <<opt, fds, table>>
            BY <1>1 DEF SftpInv, Start, Untouched
      <2>3. FdTypes' /\ Sized' /\ TreeOK(kind, to)'
            BY <1>1 DEF SftpInv, Start, tree, FdTypes, Sized, TreeOK
      <2>4. Untouched' /\ HandlesExact' /\ OwedExist' /\ ListingComplete' /\ NoWriters'
            BY <2>2 DEF Untouched, HandlesExact, OwedExist, ListingComplete, NoWriters
      <2> QED  BY <2>1, <2>3, <2>4 DEF SftpInv
  <1>2. CASE pc = "serving" /\ Request
      <2>1. Effect
            BY <1>2, RequestEffect DEF SftpInv
      <2> QED  BY <1>2, <2>1, IdleKeeps, GivesKeeps, ListsKeeps, CloseKeeps, EditsKeeps, GrowsKeeps
               DEF Effect
  <1>3. CASE pc = "serving" /\ End
      <2>1. pc' = "ended" /\ UNCHANGED <<opt, fds, reply, tree>>
            BY <1>3 DEF End
      <2>2. ControlTypes' /\ Sized' /\ TreeOK(kind, to)'
            BY <2>1 DEF SftpInv, ControlTypes, tree, Sized, TreeOK
      <2>3. FdTypes'
            BY <1>3 DEF SftpInv, End, FdTypes
      <2>4. Untouched' /\ HandlesExact' /\ OwedExist' /\ ListingComplete' /\ NoWriters'
            BY <2>1 DEF SftpInv, tree, Untouched, HandlesExact, OwedExist, ListingComplete,
                        NoWriters, Existing
      <2> QED  BY <2>2, <2>3, <2>4 DEF SftpInv
  <1>4. CASE UNCHANGED sftpVars
      <2>1. UNCHANGED <<pc, opt, kind, to, size, fds, table, reply>>
            BY <1>4 DEF sftpVars
      <2>2. ControlTypes' /\ Sized' /\ TreeOK(kind, to)' /\ FdTypes'
            BY <2>1 DEF SftpInv, ControlTypes, Sized, TreeOK, FdTypes
      <2>3. Untouched' /\ HandlesExact' /\ OwedExist' /\ ListingComplete' /\ NoWriters'
            BY <2>1 DEF SftpInv, Untouched, HandlesExact, OwedExist, ListingComplete,
                        NoWriters, Existing
      <2> QED  BY <2>2, <2>3 DEF SftpInv
  <1> QED  BY <1>1, <1>2, <1>3, <1>4 DEF SftpNext

(* The invariant holds in every reachable state.                            *)
THEOREM SftpInvariant == SftpSpec => []SftpInv
  <1> QED  BY InitSftp, NextSftp, PTL DEF SftpSpec

(* Every variable keeps its type, through every request.                    *)
THEOREM SftpTypeCorrect == SftpSpec => []SftpTypeOK
  <1>1. SftpInv => SftpTypeOK
      BY DEF SftpInv, SftpTypeOK, ControlTypes, FdTypes, Sized, TreeOK
  <1> QED  BY <1>1, SftpInvariant, PTL

(* While the loop runs, the open descriptors and the slots of the handle    *)
(* table correspond one to one: none is leaked when the table is full,      *)
(* none is closed twice, none is used after its close.                      *)
THEOREM HandlesExactHolds == SftpSpec => []HandlesExact
  <1>1. SftpInv => HandlesExact
      BY DEF SftpInv
  <1> QED  BY <1>1, SftpInvariant, PTL

(* A name that has been in a directory since OPENDIR was sent, was passed   *)
(* over because lstat() failed, or is still to come, through any batches,   *)
(* removals, renames and failures of readdir().                             *)
THEOREM ListingCompleteHolds == SftpSpec => []ListingComplete
  <1>1. SftpInv => ListingComplete
      BY DEF SftpInv
  <1> QED  BY <1>1, SftpInvariant, PTL

(* A read-only server changes no name and no file, and has nothing open     *)
(* for writing.                                                             *)
THEOREM ReadOnlyKeptHolds == SftpSpec => ReadOnlyKept
  <1> DEFINE Kept == opt.readOnly =>
               /\ UNCHANGED tree
               /\ \A f \in Fds : fds'[f] # Null /\ ~fds'[f].dir => "write" \notin fds'[f].flags
  <1>1. SftpInv /\ SftpInv' /\ [SftpNext]_sftpVars => [Kept]_sftpVars
      <2> SUFFICES ASSUME SftpInv, SftpInv', SftpNext, opt.readOnly PROVE Kept
            OBVIOUS
      <2>1. UNCHANGED <<opt, tree>>
            <3>1. CASE Start
                  BY <3>1 DEF Start
            <3>2. CASE pc = "serving" /\ Request
                  <4>1. Effect
                        BY <3>2, RequestEffect DEF SftpInv
                  <4>2. ASSUME NEW f \in Fds, NEW e \in DirEntry \cup FileEntry, Gives(f, e)
                        PROVE  UNCHANGED <<opt, tree>>
                        BY <4>2 DEF Gives, GiveHandle, Answer
                  <4> QED  BY <4>1, <4>2 DEF Sends, Effect, Idle, Lists, Close, Edits, Grows, Answer
            <3>3. CASE pc = "serving" /\ End
                  BY <3>3 DEF End
            <3> QED  BY <3>1, <3>2, <3>3 DEF SftpNext
      <2> QED  BY <2>1 DEF SftpInv, NoWriters
  <1> QED  BY <1>1, SftpInvariant, PTL DEF SftpSpec, ReadOnlyKept

(* A write in a handle that does not append and within the limit: neither   *)
(* the offset nor the length reaches half of the modulus, so their sum does *)
(* not wrap.                                                                *)
LEMMA SumFits ==
  ASSUME NEW offset \in Offsets, NEW len \in Lens, offset < Wrap \div 2,
         opt.maxSize # 0, ~TooLarge(offset, len), opt.maxSize \in Nat
  PROVE  offset \in Nat /\ len \in Nat /\ offset + len <= opt.maxSize
  <1>1. /\ Wrap \in Nat /\ offset \in 0 .. Wrap - 1 /\ len \in Nat /\ len < Wrap \div 2
      BY SftpAssumption
  <1>2. offset + len \in Nat /\ offset + len < Wrap
      BY <1>1
  <1>3. (offset + len) % Wrap = offset + len
      BY <1>1, <1>2
  <1> QED  BY <1>1, <1>2, <1>3 DEF TooLarge

(* With max_file_size set, no write makes a file longer than the limit,     *)
(* except through a handle that appends: although the sum that is compared  *)
(* wraps, no accepted write has one that did.                               *)
THEOREM GrowthLimitedHolds == SftpSpec => GrowthLimited
  <1> DEFINE Limited ==
        \A i \in Inodes :
          opt.maxSize # 0 /\ size'[i] > size[i] =>
            \/ size'[i] <= opt.maxSize
            \/ \E f \in Fds : fds[f] # Null /\ ~fds[f].dir /\ fds[f].ino = i
                                /\ "append" \in fds[f].flags
  <1>1. SftpInv /\ [SftpNext]_sftpVars => [Limited]_sftpVars
      <2> SUFFICES ASSUME SftpInv, SftpNext, NEW i \in Inodes, opt.maxSize # 0, size'[i] > size[i]
                   PROVE  \/ size'[i] <= opt.maxSize
                          \/ \E f \in Fds : fds[f] # Null /\ ~fds[f].dir /\ fds[f].ino = i
                                              /\ "append" \in fds[f].flags
            OBVIOUS
      <2>1. size[i] \in Nat /\ opt.maxSize \in Nat
            BY SftpAssumption DEF SftpInv, Sized, ControlTypes
      <2>2. ~(size' = size)
            BY <2>1
      <2>3. pc = "serving" /\ Request
            BY <2>2 DEF SftpNext, Start, End, tree
      <2>4. Effect
            BY <2>3, RequestEffect DEF SftpInv
      <2>5. ASSUME NEW f \in Fds, NEW e \in DirEntry \cup FileEntry, Gives(f, e) PROVE FALSE
            <3>1. size'[i] <= size[i] /\ size'[i] \in Nat
                  BY <2>5, SftpAssumption DEF Gives, Sized
            <3> QED  BY <2>1, <3>1
      <2>6. PICK h \in Handles, offset \in Offsets, len \in Lens : Grows(h, offset, len)
            BY <2>2, <2>4, <2>5 DEF Effect, Idle, Lists, Close, Edits, tree
      <2>7. table[h] \in Fds /\ fds[table[h]] # Null /\ ~fds[table[h]].dir
            BY <2>3, <2>6 DEF SftpInv, FdTypes, HandlesExact, Grows
      <2>8. CASE "append" \in fds[table[h]].flags /\ fds[table[h]].ino = i
            BY <2>7, <2>8
      <2>9. CASE fds[table[h]].ino # i
            <3>1. size'[i] = size[i]
                  BY <2>6, <2>9 DEF Grows, SftpInv, Sized
            <3> QED  BY <2>1, <3>1
      <2>10. CASE "append" \notin fds[table[h]].flags /\ fds[table[h]].ino = i
            <3>1. offset \in Nat /\ len \in Nat /\ offset + len <= opt.maxSize
                  BY <2>1, <2>6, SumFits DEF Grows
            <3>2. PICK w \in 0 .. len :
                    size' = [size EXCEPT ![i] = IF w > 0 /\ offset + w > @ THEN offset + w ELSE @]
                  BY <2>6, <2>10 DEF Grows
            <3>3. size'[i] = offset + w
                  BY <2>1, <3>1, <3>2 DEF SftpInv, Sized
            <3> QED  BY <2>1, <3>1, <3>3
      <2> QED  BY <2>8, <2>9, <2>10
  <1> QED  BY <1>1, SftpInvariant, PTL DEF SftpSpec, GrowthLimited
=============================================================================
