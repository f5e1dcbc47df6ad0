--------------------------- MODULE SocketSession ---------------------------
(***************************************************************************)
(* The events of one socket.  Guards and handlers of the auth gateway and  *)
(* of the route gateways hand the requester to each other in socket.user,  *)
(* one variable for all the events of a socket, and await between writing  *)
(* it and reading it.  A request here is one event a client sends; several *)
(* may be served at once.                                                  *)
(*                                                                         *)
(* The service calls are single steps that succeed or fail (AuthService    *)
(* and CrudService model what is inside); the documents a route predicate  *)
(* judges and the clients a broadcast reaches are those of RoutePipeline.  *)
(***************************************************************************)
EXTENDS FiniteSets, Sequences

CONSTANTS
  Requests,         \* the events that clients send
  Sockets,
  Users,            \* the accounts
  None,             \* socket.user when it is null or undefined
  Absent, Invalid,  \* a handshake without the token, or with one that does not verify
  Unread,           \* a value a handler has not come to
  Handshakes,       \* the tokens a socket may have connected with
  Hooked,           \* the sockets SocketAdapter.handleConnection looks at with a secret
  Kinds,            \* the events sent in this instance
  Judged,           \* those with an abilityPredicate
  Trusted,          \* the users the predicates allow
  Broadcasting,     \* the events with a broadcast configuration
  Fields,           \* whether the login broadcast names its fields
  RegisterProtected,
  ResetConfigured

AuthKinds    == {"getAccount", "updateAccount", "route"}
RefreshKinds == {"refreshToken", "logout"}
ResetKinds   == {"resetPassword", "changePassword"}
AllKinds     == AuthKinds \cup RefreshKinds \cup ResetKinds \cup {"login", "register", "publicRoute"}

Tokens      == Users \cup {Absent, Invalid}
Credentials == Users \cup {"wrong", "missing"}   \* what an auth-login event carries

ASSUME KindsAssumption     == Kinds \subseteq AllKinds /\ Judged \subseteq AllKinds
ASSUME UsersAssumption     == Trusted \subseteq Users /\ Hooked \subseteq Sockets
ASSUME DistinctAssumption  == {None, Absent, Invalid, Unread, "wrong", "missing"} \cap Users = {}
                              /\ None # Unread /\ Invalid # Absent /\ None \notin {Absent, Invalid}
ASSUME HandshakeAssumption == Handshakes \subseteq [{"access", "refresh"} -> Tokens]
ASSUME BroadcastAssumption == Broadcasting \subseteq AllKinds \ (RefreshKinds \cup ResetKinds)
ASSUME FlagsAssumption     == {Fields, RegisterProtected, ResetConfigured} \subseteq BOOLEAN

VARIABLES
  token,       \* socket.handshake: the access and the refresh token of each socket
  expired,     \* which of them have expired since
  socketUser,  \* socket.user
  kind, sock, given,  \* an event: its name, its socket, the credentials of a login
  pc,          \* how far the server is with it
  left,        \* the guards it has still to pass
  user,        \* the user a guard has verified and not yet assigned
  served,      \* the user its service call is for
  told,        \* socket.user as its broadcast reads it
  answer

\* Kept for the properties only: the events that an event has been served together with, and
\* socket.user when it arrived.
VARIABLES company, before

sockets == <<token, expired, socketUser>>
sent    == <<kind, sock, given>>
history == <<company, before>>
vars    == <<sockets, sent, pc, left, user, served, told, answer, history>>

-----------------------------------------------------------------------------
(* What the tokens and credentials of an event are worth. *)

\* verifyAsync, verify: the user of a token that is neither missing, forged nor expired.
Verified(s, t) == IF t \in expired[s] \/ token[s][t] \notin Users THEN None ELSE token[s][t]

\* Variant: the connection takes whatever token it is given.
ConnectionUser_Unverified(s, t) == IF s \in Hooked THEN t.access ELSE None

\* handleConnection: the user of the access token, for the sockets it looks at.
ConnectionUser(s, t) == IF s \in Hooked /\ t.access \in Users THEN t.access ELSE None

\* validateUser: the account whose login and password these are, or null.
ValidateUser(c) == IF c \in Users THEN c ELSE None

\* Whether addUserToSocket lets everybody register.
RegisterPublic == ~RegisterProtected /\ "register" \notin Judged

\* The guards in front of each handler, in the order of their decorators.
Guards(k) ==
  IF k = "updateAccount"    THEN <<"auth", "policies">>
  ELSE IF k = "route"       THEN <<"auth", "routePolicies">>
  ELSE IF k = "getAccount"  THEN <<"auth">>
  ELSE IF k = "register"    THEN <<"policies">>
  ELSE IF k \in RefreshKinds THEN <<"refresh">>
  ELSE IF k \in ResetKinds  THEN <<"reset">>
  ELSE <<>>

Allowed(k, u) == k \in Judged => u \in Trusted

-----------------------------------------------------------------------------
Init ==
  /\ token \in [Sockets -> Handshakes]
  /\ expired = [s \in Sockets |-> {}]
  /\ socketUser = [s \in Sockets |-> ConnectionUser(s, token[s])]
  /\ kind \in [Requests -> Kinds]
  /\ sock \in [Requests -> Sockets]
  /\ given \in [Requests -> Credentials]
  /\ \A r \in Requests : kind[r] # "login" => given[r] = "missing"
  /\ pc = [r \in Requests |-> "idle"]
  /\ left = [r \in Requests |-> Guards(kind[r])]
  /\ user = [r \in Requests |-> None]
  /\ served = [r \in Requests |-> Unread]
  /\ told = [r \in Requests |-> Unread]
  /\ answer = [r \in Requests |-> "none"]
  /\ company = [r \in Requests |-> {}]
  /\ before = [r \in Requests |-> None]

Running(r) == pc[r] \notin {"idle", "done"}

\* A client sends the event.
Send(r) ==
  LET others == {q \in Requests : Running(q) /\ sock[q] = sock[r]}
  IN /\ pc[r] = "idle"
     /\ pc' = [pc EXCEPT ![r] = "guard"]
     /\ before' = [before EXCEPT ![r] = socketUser[sock[r]]]
     /\ company' = [q \in Requests |-> IF q = r THEN others
                                       ELSE IF q \in others THEN company[q] \cup {r}
                                       ELSE company[q]]
     /\ UNCHANGED <<sockets, sent, left, user, served, told, answer>>

\* A token of a socket expires.
Expire(s, t) ==
  /\ token[s][t] \in Users
  /\ t \notin expired[s]
  /\ expired' = [expired EXCEPT ![s] = @ \cup {t}]
  /\ UNCHANGED <<token, socketUser, sent, pc, left, user, served, told, answer, history>>

Answer(r, a) ==
  /\ pc' = [pc EXCEPT ![r] = "done"]
  /\ answer' = [answer EXCEPT ![r] = a]

Assign(r, u) == socketUser' = [socketUser EXCEPT ![sock[r]] = u]

\* The guard lets the event pass on to the next one, or to the handler.
Pass(r) ==
  /\ left' = [left EXCEPT ![r] = Tail(@)]
  /\ pc' = [pc EXCEPT ![r] = "guard"]
  /\ UNCHANGED answer

-----------------------------------------------------------------------------
(* Guards. *)

\* Variant: the refresh guard verifies the access token.
TokenOf_Access(r) == "access"

\* The token a guard is about to verify.
TokenOf(r) == IF Head(left[r]) = "refresh" THEN "refresh" ELSE "access"

\* Whether the guard verifies a token: the policies guard of the auth gateway does so only for
\* a predicate.
Verifies(r) == \/ Head(left[r]) \in {"auth", "refresh"}
               \/ Head(left[r]) = "policies" /\ kind[r] \in Judged

\* Variant: a token that does not verify clears socket.user.
VerifyToken_Clears(r) ==
  LET u == Verified(sock[r], TokenOf(r))
  IN /\ pc[r] = "guard" /\ left[r] # <<>> /\ Verifies(r)
     /\ IF u = None
        THEN Answer(r, "refused") /\ Assign(r, None) /\ UNCHANGED user
        ELSE /\ pc' = [pc EXCEPT ![r] = "verifying"]
             /\ user' = [user EXCEPT ![r] = u]
             /\ UNCHANGED <<socketUser, answer>>
     /\ UNCHANGED <<token, expired, sent, left, served, told, history>>

\* JwtSocketGuard, JwtSocketAuthGuard, JwtSocketRefreshGuard, AuthSocketPoliciesGuard: up to
\* the await of verifyAsync.
VerifyToken(r) ==
  LET u == Verified(sock[r], TokenOf(r))
  IN /\ pc[r] = "guard" /\ left[r] # <<>> /\ Verifies(r)
     /\ IF u = None
        THEN Answer(r, "refused") /\ UNCHANGED user
        ELSE /\ pc' = [pc EXCEPT ![r] = "verifying"]
             /\ user' = [user EXCEPT ![r] = u]
             /\ UNCHANGED answer
     /\ UNCHANGED <<sockets, sent, left, served, told, history>>

\* Variant: a guard leaves the user of the socket as it is.
AssignUser_Keeps(r) ==
  /\ pc[r] = "verifying"
  /\ user' = [user EXCEPT ![r] = None]
  /\ IF Head(left[r]) = "policies" /\ ~Allowed(kind[r], user[r])
     THEN Answer(r, "refused") /\ UNCHANGED left
     ELSE Pass(r)
  /\ UNCHANGED <<sockets, sent, served, told, history>>

\* Variant: a predicate is asked without its answer being used.
AssignUser_Unasked(r) ==
  /\ pc[r] = "verifying"
  /\ Assign(r, user[r])
  /\ user' = [user EXCEPT ![r] = None]
  /\ Pass(r)
  /\ UNCHANGED <<token, expired, sent, served, told, history>>

\* The rest of those guards: socket.user is assigned, and a predicate is asked at once.
AssignUser(r) ==
  /\ pc[r] = "verifying"
  /\ Assign(r, user[r])
  /\ user' = [user EXCEPT ![r] = None]
  /\ IF Head(left[r]) = "policies" /\ ~Allowed(kind[r], user[r])
     THEN Answer(r, "refused") /\ UNCHANGED left
     ELSE Pass(r)
  /\ UNCHANGED <<token, expired, sent, served, told, history>>

\* The guards that verify no token: ResetPasswordGuard, the policies guard of a route that is
\* not public (it demands a user; RoutePipeline has its predicate), a policies guard without a
\* predicate.
CheckGuard(r) ==
  /\ pc[r] = "guard" /\ left[r] # <<>> /\ ~Verifies(r)
  /\ IF \/ Head(left[r]) = "reset" /\ ~ResetConfigured
        \/ Head(left[r]) = "routePolicies" /\ socketUser[sock[r]] = None
     THEN Answer(r, "refused") /\ UNCHANGED left
     ELSE Pass(r)
  /\ UNCHANGED <<sockets, sent, user, served, told, history>>

-----------------------------------------------------------------------------
(* Handlers. *)

InHandler(r) == pc[r] = "guard" /\ left[r] = <<>>

\* The service is called for u.
Call(r, u) ==
  /\ pc' = [pc EXCEPT ![r] = "service"]
  /\ served' = [served EXCEPT ![r] = u]
  /\ UNCHANGED answer

\* getAccount, updateAccount, refreshToken, logout: the service is called for socket.user, if
\* there is one.
HandleForUser(r) ==
  LET u == socketUser[sock[r]]
  IN /\ InHandler(r) /\ kind[r] \in {"getAccount", "updateAccount"} \cup RefreshKinds
     /\ IF u = None
        THEN Answer(r, "empty") /\ served' = [served EXCEPT ![r] = None]
        ELSE Call(r, u)
     /\ UNCHANGED <<sockets, sent, left, user, told, history>>

\* resetPassword, changePassword and the route handlers, whose service calls name no user.
HandleForNobody(r) ==
  /\ InHandler(r) /\ kind[r] \in ResetKinds \cup {"route", "publicRoute"}
  /\ pc' = [pc EXCEPT ![r] = "service"]
  /\ UNCHANGED <<sockets, sent, left, user, served, told, answer, history>>

\* register: addUserToSocket, then the service.
HandleRegister(r) ==
  LET u == Verified(sock[r], "access")
  IN /\ InHandler(r) /\ kind[r] = "register"
     /\ IF RegisterPublic \/ token[sock[r]]["access"] = Absent
        THEN UNCHANGED socketUser
        ELSE Assign(r, u)
     /\ IF RegisterPublic \/ u # None
        THEN pc' = [pc EXCEPT ![r] = "service"] /\ UNCHANGED answer
        ELSE Answer(r, "refused")
     /\ UNCHANGED <<token, expired, sent, left, user, served, told, history>>

\* login, once socket.user is what it is: it must be there and be allowed, and the session is
\* opened for it.
OpenSession(r, u) ==
  IF u = None \/ ~Allowed("login", u)
  THEN Answer(r, "refused") /\ UNCHANGED served
  ELSE Call(r, u)

\* login with a login and a password: up to the await of validateUser.
HandleLogin(r) ==
  /\ InHandler(r) /\ kind[r] = "login" /\ given[r] # "missing"
  /\ pc' = [pc EXCEPT ![r] = "validating"]
  /\ UNCHANGED <<sockets, sent, left, user, served, told, answer, history>>

\* login without them is for whoever socket.user is.
HandleBareLogin(r) ==
  /\ InHandler(r) /\ kind[r] = "login" /\ given[r] = "missing"
  /\ OpenSession(r, socketUser[sock[r]])
  /\ UNCHANGED <<sockets, sent, left, user, told, history>>

\* Variant: a login whose password is wrong goes on for the user of the socket.
ValidateLogin_Falls(r) ==
  LET u == IF ValidateUser(given[r]) = None THEN socketUser[sock[r]] ELSE ValidateUser(given[r])
  IN /\ pc[r] = "validating"
     /\ Assign(r, u)
     /\ OpenSession(r, u)
     /\ UNCHANGED <<token, expired, sent, left, user, told, history>>

\* validateUser has answered: its answer replaces socket.user, null included.
ValidateLogin(r) ==
  /\ pc[r] = "validating"
  /\ Assign(r, ValidateUser(given[r]))
  /\ OpenSession(r, ValidateUser(given[r]))
  /\ UNCHANGED <<token, expired, sent, left, user, told, history>>

-----------------------------------------------------------------------------
\* The service has answered.  Auth events broadcast what they did, routes what they wrote;
\* broadcastIfNeeded asks its predicate about socket.user, and login broadcasts socket.user
\* itself, of which pick can take no fields once it is null.
Finish(r) ==
  LET u == socketUser[sock[r]]
  IN /\ pc[r] = "service"
     /\ told' = [told EXCEPT ![r] = IF kind[r] \in Broadcasting THEN u ELSE Unread]
     /\ Answer(r, IF kind[r] = "login" /\ "login" \in Broadcasting /\ u = None /\ Fields
                  THEN "lost" ELSE "ok")
     /\ UNCHANGED <<sockets, sent, left, user, served, history>>

\* The service has failed, or the search for the account of a login.
Fail(r) ==
  /\ pc[r] \in {"service", "validating"}
  /\ Answer(r, "error")
  /\ UNCHANGED <<sockets, sent, left, user, served, told, history>>

Serve(r) ==
  \/ VerifyToken(r) \/ AssignUser(r) \/ CheckGuard(r)
  \/ HandleForUser(r) \/ HandleForNobody(r) \/ HandleRegister(r)
  \/ HandleLogin(r) \/ HandleBareLogin(r) \/ ValidateLogin(r)
  \/ Finish(r) \/ Fail(r)

\* Every event has been answered.
Finished == (\A r \in Requests : pc[r] = "done") /\ UNCHANGED vars

Next ==
  \/ \E r \in Requests : Send(r) \/ Serve(r)
  \/ \E s \in Sockets, t \in {"access", "refresh"} : Expire(s, t)
  \/ Finished

Spec == Init /\ [][Next]_vars

-----------------------------------------------------------------------------
(* Properties. *)

\* Every variable has its type.
TypeOK ==
  /\ token \in [Sockets -> Handshakes]
  /\ expired \in [Sockets -> SUBSET {"access", "refresh"}]
  /\ socketUser \in [Sockets -> Users \cup {None}]
  /\ kind \in [Requests -> Kinds]
  /\ sock \in [Requests -> Sockets]
  /\ given \in [Requests -> Credentials]
  /\ pc \in [Requests -> {"idle", "guard", "verifying", "validating", "service", "done"}]
  /\ left \in [Requests -> Seq({"auth", "policies", "routePolicies", "refresh", "reset"})]
  /\ user \in [Requests -> Users \cup {None}]
  /\ served \in [Requests -> Users \cup {None, Unread}]
  /\ told \in [Requests -> Users \cup {None, Unread}]
  /\ answer \in [Requests -> {"none", "ok", "empty", "lost", "refused", "error"}]
  /\ company \in [Requests -> SUBSET Requests]
  /\ before \in [Requests -> Users \cup {None}]

\* Whether the event brings a credential of its own, and the user it proves.  The others are
\* for whoever the socket's user was when they arrived.
Credentialed(r) ==
  \/ kind[r] \in AuthKinds \cup RefreshKinds
  \/ kind[r] = "register" /\ ~RegisterPublic
  \/ kind[r] = "login" /\ given[r] # "missing"

Credential(r) ==
  IF ~Credentialed(r) THEN before[r]
  ELSE IF kind[r] = "login" THEN ValidateUser(given[r])
  ELSE token[sock[r]][IF kind[r] \in RefreshKinds THEN "refresh" ELSE "access"]

\* What the event may leave in socket.user: the user of its credential, or nobody (a login
\* whose password is wrong has none; a registration whose token does not verify clears it).
MayPut(q, u) ==
  /\ Credentialed(q)
  /\ \/ u = Credential(q)
     \/ kind[q] = "register" /\ u = None

\* u is the user of r, or one that an event served at the same time has put in its place.
Explained(r, u) == u = Credential(r) \/ \E q \in company[r] : MayPut(q, u)

\* socket.user is read by a handler after the awaits of its guards (auth-gateway.mixin.ts:140,
\* 162, 269, 278): an event is served for the user of its own token or password, unless an
\* event served at the same time on the socket has put its own user there, or nobody.
ServedExplained == \A r \in Requests : served[r] # Unread => Explained(r, served[r])

\* The broadcasts read socket.user once more after the service call (auth-gateway.mixin.ts:198,
\* base.gateway.ts:78): they are about, and judged for, the same users only.
ToldExplained == \A r \in Requests : told[r] # Unread => Explained(r, told[r])

\* A login with a password opens a session for the account of that password and for no other,
\* whatever else the socket is being used for, and only for a user its predicate allows: from
\* the answer of validateUser to the call of the service nothing is awaited.
SessionIsOwn ==
  \A r \in Requests : kind[r] = "login" /\ served[r] # Unread =>
    /\ served[r] \in Users
    /\ (given[r] # "missing" => served[r] = given[r])
    /\ ("login" \in Judged => served[r] \in Trusted)

\* updateAccount asks its predicate in a guard and updates in the handler, awaits later: the
\* account it updates is one the predicate allows, or the user another event has put on the
\* socket in between.
UpdateJudged ==
  \A r \in Requests : kind[r] = "updateAccount" /\ "updateAccount" \in Judged /\ served[r] \in Users =>
    \/ served[r] \in Trusted
    \/ \E q \in company[r] : MayPut(q, served[r])

\* An event that has passed its guard and is answered with nothing, and a login that opens a
\* session and then fails on a broadcast about nobody, were served together with a login whose
\* password is wrong or a registration whose token is not valid.
NobodyExplained ==
  \A r \in Requests : answer[r] \in {"empty", "lost"} => \E q \in company[r] : MayPut(q, None)

=============================================================================
