----------------------------- MODULE AuthService -----------------------------
(***************************************************************************)
(* The authentication service (modules/auth/services/base-auth.service.ts)  *)
(* behind the routes of auth-controller.mixin.ts: accounts, passwords, and  *)
(* one stored refresh token per account.  A request is a chain of awaits;   *)
(* between two of them the service runs alone, at each of them other        *)
(* requests run.  The tokens themselves are stateless: a refresh token is   *)
(* named by its jti, here the request that issued it.                      *)
(***************************************************************************)
EXTENDS Naturals, Sequences, ServiceErrors

CONSTANTS
  Requests,      \* the requests of a run, each served once
  Logins,        \* values of the login field, which is unique
  Passwords,
  Original,      \* the account, and the refresh token, a login has initially
  None,
  Ops,           \* the operations clients call
  Hooks,         \* the callbacks configured
  Predicates,    \* the operations with an ability predicate
  TokenField,    \* refreshTokenField is configured
  SharedSecret,  \* no refreshSecret: access tokens pass the refresh guard
  Removal,       \* accounts may be deleted by the routes of the user entity
  Faults,        \* which awaited calls may reject: "db", "hook"
  Rejections     \* what callbacks, and the write of a new account, may reject with

Operations == {"login", "register", "refresh", "logout", "getAccount",
               "updateAccount", "resetPassword", "changePassword"}
Issuers == {"login", "register", "refresh"}
HookNames == {"login", "register", "beforeRegister", "getAccount",
              "updateAccount", "beforeUpdateAccount",
              "changePassword", "beforeChangePassword"}

ASSUME OpsAssumption == Ops \subseteq Operations /\ Predicates \subseteq Operations
ASSUME HooksAssumption == Hooks \subseteq HookNames
ASSUME FlagsAssumption == TokenField \in BOOLEAN /\ SharedSecret \in BOOLEAN /\ Removal \in BOOLEAN
ASSUME RejectionsAssumption == Rejections \subseteq Errors
ASSUME NamesAssumption == None # Original /\ {None, Original} \cap (Requests \cup Passwords) = {}

VARIABLES
  account,   \* account[l]: the account with login l, named by the request that created it
  password,  \* password[l]: its password
  token,     \* token[l]: the refresh token whose hash it stores
  profile,   \* profile[l]: the request that last updated its other fields
  todo,      \* todo[r]: the awaits request r has left, in order
  op,        \* op[r]: what it asks for
  login,     \* login[r]: the login field in its body or its token
  who,       \* who[r]: the _id of the account it acts on
  given,     \* given[r]: the password in its body
  jti,       \* jti[r]: the jti of the refresh token it presents
  resp       \* resp[r]: its answer

\* History, read by the properties only.
VARIABLES
  current,   \* current[r]: its refresh token was the stored one when it arrived
  matched,   \* matched[r]: its password was the account's at some time since it arrived
  issued,    \* issued[r]: the tokens clients held when r arrived
  dead,      \* tokens held by clients when a logout, answered since, arrived
  late,      \* late[r]: its refresh token was dead when it arrived
  threw,     \* threw[r]: a call awaited by r rejected
  wrote,     \* wrote[r]: a write of r changed the collection
  missed     \* missed[r]: a find or a write of r did not find its account

storeVars == <<account, password, token, profile>>
inputVars == <<op, login, given, jti>>
arrivalVars == <<current, issued, late>>
effectVars == <<wrote, missed>>
vars == <<account, password, token, profile, todo, op, login, who, given, jti, resp,
          current, matched, issued, dead, late, threw, wrote, missed>>

-----------------------------------------------------------------------------
(* The awaits of each operation, in the order of the code.                 *)

When(c, s) == IF c THEN s ELSE <<>>

\* A callback gets the account, read again just before it.
Hooked(h) == When(h \in Hooks, <<"load", "hook">>)

Account == <<"load">> \o When("getAccount" \in Hooks, <<"hook">>)

Plan(o) ==
  CASE o = "login" -> <<"validate">> \o Hooked("login") \o When(TokenField, <<"issue">>)
    [] o = "register" ->
         When("beforeRegister" \in Hooks, <<"hook">>) \o <<"create">>
           \o Hooked("register") \o <<"load">> \o When(TokenField, <<"issue">>)
    [] o = "refresh" -> When(TokenField, <<"check", "issue">>)
    [] o = "logout" -> When(TokenField, <<"revoke">>)
    [] o = "getAccount" -> Account
    [] o = "updateAccount" ->
         Hooked("beforeUpdateAccount") \o <<"update">> \o Hooked("updateAccount") \o Account
    [] o = "resetPassword" -> <<"hook">>
    [] o = "changePassword" ->
         <<"lookup">> \o Hooked("beforeChangePassword") \o <<"setPassword">>
           \o Hooked("changePassword")

Idle(r) == resp[r] = "idle"
At(r, s) == resp[r] = "none" /\ todo[r] # <<>> /\ Head(todo[r]) = s

Answer(r, a) ==
  /\ todo' = [todo EXCEPT ![r] = <<>>]
  /\ resp' = [resp EXCEPT ![r] = a]
  /\ dead' = IF op[r] = "logout" /\ a = "ok" /\ TokenField THEN dead \cup issued[r] ELSE dead

\* On to the next await; after the last one the operation returns.
Proceed(r) ==
  IF Len(todo[r]) = 1 THEN Answer(r, "ok")
  ELSE todo' = [todo EXCEPT ![r] = Tail(@)] /\ UNCHANGED <<resp, dead>>

\* The _id of the request still names the account of its login.
Exists(r) == account[login[r]] # None /\ account[login[r]] = who[r]

\* The refresh tokens clients hold, each with the login it names.
Issued == {<<t, login[t]>> : t \in {r \in Requests : resp[r] = "ok" /\ op[r] \in Issuers}}
            \cup {Original} \X Logins

AccountOf(t) == IF t = Original THEN Original ELSE who[t]

-----------------------------------------------------------------------------
(* Arrivals.  The guards have let the request pass: its token is signed and *)
(* has not expired.                                                        *)

\* What the request carries: a login, an account, a password, a refresh token.
Enter(r, o, l, a, p, t) ==
  /\ Idle(r)
  /\ o \in Ops
  /\ op' = [op EXCEPT ![r] = o]
  /\ login' = [login EXCEPT ![r] = l]
  /\ who' = [who EXCEPT ![r] = a]
  /\ given' = [given EXCEPT ![r] = p]
  /\ jti' = [jti EXCEPT ![r] = t]
  /\ todo' = [todo EXCEPT ![r] = Plan(o)]
  /\ resp' = [resp EXCEPT ![r] = IF Plan(o) = <<>> THEN "ok" ELSE "none"]
  /\ current' = [current EXCEPT ![r] = account[l] = a /\ token[l] = t]
  /\ matched' = [matched EXCEPT ![r] = account[l] # None /\ password[l] = p]
  /\ issued' = [issued EXCEPT ![r] =
                  {s \in Issued : o = "logout" /\ s[2] = l /\ AccountOf(s[1]) = a}]
  /\ late' = [late EXCEPT ![r] = <<t, l>> \in dead]
  /\ UNCHANGED <<storeVars, dead, threw, effectVars>>

ArriveWithBody(r) ==
  \E o \in {"login", "register"}, l \in Logins, p \in Passwords : Enter(r, o, l, None, p, None)

\* A refresh or a logout presents the refresh token; an access token has no jti and
\* passes the guard only when both kinds are signed with one secret.
ArriveWithToken(r) ==
  \E s \in Issued :
    \/ \E o \in {"refresh", "logout"}, t \in {s[1]} \cup (IF SharedSecret THEN {None} ELSE {}) :
         Enter(r, o, s[2], AccountOf(s[1]), None, t)
    \/ \E o \in {"getAccount", "updateAccount"} :
         Enter(r, o, s[2], AccountOf(s[1]), None, None)

\* A change of password presents a token that names an address: changePassword decodes it
\* and does not verify it, so it need not be one that resetPassword gave its callback.
ArriveForReset(r) ==
  \E l \in Logins :
    \/ Enter(r, "resetPassword", l, None, None, None)
    \/ \E p \in Passwords : Enter(r, "changePassword", l, None, p, None)

Arrive(r) == ArriveWithBody(r) \/ ArriveWithToken(r) \/ ArriveForReset(r)

-----------------------------------------------------------------------------
(* The awaits.                                                             *)

Refuse(r, a) == Answer(r, a) /\ UNCHANGED who

\* Variant: a found account is enough.
PasswordOK_Found(r) == TRUE

PasswordOK(r) == password[login[r]] = given[r]

\* LocalStrategy.validate: validateUser (find and bcrypt compare), ability predicate.
Validate(r) ==
  /\ At(r, "validate")
  /\ LET known == account[login[r]] # None /\ PasswordOK(r)
     IN \/ ~known /\ Refuse(r, "unauthorized")
        \/ known /\ "login" \in Predicates /\ Refuse(r, "forbidden")
        \/ known /\ who' = [who EXCEPT ![r] = account[login[r]]] /\ Proceed(r)
  /\ UNCHANGED <<storeVars, inputVars, arrivalVars, matched, threw, effectVars>>

\* Variant: the find is retried until the document is there.
Absent_Retries(r) == UNCHANGED <<todo, resp, dead>>

Absent(r) == Answer(r, "failed")

\* Every find before a callback, an answer or a token: its document must still exist,
\* buildInstance, buildUserFields or user._id.toString() throws on null.
Load(r) ==
  /\ At(r, "load")
  /\ \/ Exists(r) /\ Proceed(r) /\ UNCHANGED missed
     \/ ~Exists(r) /\ Absent(r) /\ missed' = [missed EXCEPT ![r] = TRUE]
  /\ UNCHANGED <<storeVars, inputVars, who, arrivalVars, matched, threw, wrote>>

\* Only register has a catch; from the others an HttpException goes out as it is and any
\* other error as a 500.
Caught(r, e) == IF op[r] = "register" THEN HandleBoth(e) ELSE RethrowOrWrap(e)

Hook(r) ==
  /\ At(r, "hook")
  /\ \/ Proceed(r) /\ UNCHANGED threw
     \/ /\ "hook" \in Faults
        /\ \E e \in Rejections : Answer(r, Caught(r, e))
        /\ threw' = [threw EXCEPT ![r] = TRUE]
  /\ UNCHANGED <<storeVars, inputVars, who, arrivalVars, matched, effectVars>>

\* Variant: the catch handles the duplicate key and goes on.
DuplicateKey_Swallowed(r) == "ok"

DuplicateKey(r) == "conflict"

\* model.create: the unique login field refuses a second account.
Create(r) ==
  /\ At(r, "create")
  /\ \/ /\ account[login[r]] # None
        /\ Refuse(r, DuplicateKey(r))
        /\ UNCHANGED <<storeVars, matched, wrote>>
     \/ /\ account[login[r]] = None
        /\ account' = [account EXCEPT ![login[r]] = r]
        /\ password' = [password EXCEPT ![login[r]] = given[r]]
        /\ token' = [token EXCEPT ![login[r]] = None]
        /\ profile' = [profile EXCEPT ![login[r]] = None]
        /\ who' = [who EXCEPT ![r] = r]
        /\ Proceed(r)
        /\ matched' = [s \in Requests |-> matched[s] \/ (login[s] = login[r] /\ given[s] = given[r])]
        /\ wrote' = [wrote EXCEPT ![r] = TRUE]
  /\ UNCHANGED <<inputVars, arrivalVars, threw, missed>>

\* Variant: a stored hash is enough, whatever it is compared with.
TokenOK_Stored(r) == Exists(r) /\ token[login[r]] # None /\ jti[r] # None

TokenOK(r) == Exists(r) /\ token[login[r]] # None /\ jti[r] = token[login[r]]

\* refreshToken: find, decode, bcrypt compare of the jti with the stored hash.
Check(r) ==
  /\ At(r, "check")
  /\ IF TokenOK(r) THEN Proceed(r) ELSE Answer(r, "unauthorized")
  /\ UNCHANGED <<storeVars, inputVars, who, arrivalVars, matched, threw, effectVars>>

\* Variant: the update finds the account by its login field.
Owned_ByLogin(r) == account[login[r]] # None

\* updateOne({ _id }): it matches nothing when the account is gone.
Owned(r) == Exists(r)

Changed(r) ==
  /\ wrote' = [wrote EXCEPT ![r] = @ \/ Owned(r)]
  /\ missed' = [missed EXCEPT ![r] = @ \/ ~Owned(r)]

\* The end of login, register and refreshToken: the hash of the new jti is stored.
Issue(r) ==
  /\ At(r, "issue")
  /\ token' = IF Owned(r) THEN [token EXCEPT ![login[r]] = r] ELSE token
  /\ Proceed(r)
  /\ Changed(r)
  /\ UNCHANGED <<account, password, profile, inputVars, who, arrivalVars, matched, threw>>

\* Variant: logout stores a value that is no token and no null.
Cleared_Undefined(r) == "undefined"

\* Variant: logout forgets the token it was shown only.
Cleared_Presented(r) == IF token[login[r]] = jti[r] THEN None ELSE token[login[r]]

Cleared(r) == None

Revoke(r) ==
  /\ At(r, "revoke")
  /\ token' = IF Owned(r) THEN [token EXCEPT ![login[r]] = Cleared(r)] ELSE token
  /\ Proceed(r)
  /\ Changed(r)
  /\ UNCHANGED <<account, password, profile, inputVars, who, arrivalVars, matched, threw>>

Update(r) ==
  /\ At(r, "update")
  /\ profile' = IF Owned(r) THEN [profile EXCEPT ![login[r]] = r] ELSE profile
  /\ Proceed(r)
  /\ Changed(r)
  /\ UNCHANGED <<account, password, token, inputVars, who, arrivalVars, matched, threw>>

\* Variant: the catch swallows the refusal too.
NotAllowed_Swallowed(r) == "ok"

NotAllowed(r) == "forbidden"

\* changePassword: tokens without address or expiry and expired ones, then the account of
\* the address.  An unknown address, and any error of the find but a refusal, end it with
\* an ordinary answer.
Lookup(r) ==
  /\ At(r, "lookup")
  /\ \/ \E a \in {"badRequest", "unauthorized"} : Refuse(r, a) /\ UNCHANGED <<threw, missed>>
     \/ /\ account[login[r]] = None
        /\ Refuse(r, "ok")
        /\ missed' = [missed EXCEPT ![r] = TRUE]
        /\ UNCHANGED threw
     \/ /\ "db" \in Faults
        /\ Refuse(r, "ok")
        /\ threw' = [threw EXCEPT ![r] = TRUE]
        /\ UNCHANGED missed
     \/ /\ account[login[r]] # None
        /\ \/ "changePassword" \in Predicates /\ Refuse(r, NotAllowed(r))
           \/ who' = [who EXCEPT ![r] = account[login[r]]] /\ Proceed(r)
        /\ UNCHANGED <<threw, missed>>
  /\ UNCHANGED <<storeVars, inputVars, arrivalVars, matched, wrote>>

SetPassword(r) ==
  /\ At(r, "setPassword")
  /\ IF Owned(r)
       THEN /\ password' = [password EXCEPT ![login[r]] = given[r]]
            /\ matched' = [s \in Requests |->
                             matched[s] \/ (login[s] = login[r] /\ given[s] = given[r])]
       ELSE UNCHANGED <<password, matched>>
  /\ Proceed(r)
  /\ Changed(r)
  /\ UNCHANGED <<account, token, profile, inputVars, who, arrivalVars, threw>>

\* model.create may also refuse the document: a field that does not validate, a duplicate
\* of another unique field.
DbErrors(r) ==
  {"error"} \cup (IF At(r, "create") THEN Rejections \ HttpErrors ELSE {})

\* Any other database call rejects without effect.
DbFail(r) ==
  /\ "db" \in Faults
  /\ resp[r] = "none" /\ ~At(r, "hook") /\ ~At(r, "lookup")
  /\ \E e \in DbErrors(r) : Answer(r, Caught(r, e))
  /\ threw' = [threw EXCEPT ![r] = TRUE]
  /\ UNCHANGED <<storeVars, inputVars, who, arrivalVars, matched, effectVars>>

Progress(r) ==
  \/ Validate(r) \/ Load(r) \/ Hook(r) \/ Create(r) \/ Check(r) \/ Issue(r)
  \/ Revoke(r) \/ Update(r) \/ Lookup(r) \/ SetPassword(r)

\* A DeleteOne route on the user entity.
RemoveAccount(l) ==
  /\ Removal
  /\ account[l] # None
  /\ account' = [account EXCEPT ![l] = None]
  /\ password' = [password EXCEPT ![l] = None]
  /\ token' = [token EXCEPT ![l] = None]
  /\ profile' = [profile EXCEPT ![l] = None]
  /\ UNCHANGED <<todo, inputVars, who, resp, arrivalVars, matched, dead, threw, effectVars>>

-----------------------------------------------------------------------------
Init ==
  /\ account \in [Logins -> {None, Original}]
  /\ password \in [Logins -> Passwords \cup {None}]
  /\ token \in [Logins -> {None, Original}]
  /\ \A l \in Logins : account[l] = None <=> password[l] = None
  /\ \A l \in Logins : account[l] = None => token[l] = None
  /\ profile = [l \in Logins |-> None]
  /\ todo = [r \in Requests |-> <<>>]
  /\ op = [r \in Requests |-> None]
  /\ login = [r \in Requests |-> None]
  /\ who = [r \in Requests |-> None]
  /\ given = [r \in Requests |-> None]
  /\ jti = [r \in Requests |-> None]
  /\ resp = [r \in Requests |-> "idle"]
  /\ current = [r \in Requests |-> FALSE]
  /\ matched = [r \in Requests |-> FALSE]
  /\ issued = [r \in Requests |-> {}]
  /\ dead = {}
  /\ late = [r \in Requests |-> FALSE]
  /\ threw = [r \in Requests |-> FALSE]
  /\ wrote = [r \in Requests |-> FALSE]
  /\ missed = [r \in Requests |-> FALSE]

Quiescent ==
  /\ \A r \in Requests : resp[r] \notin {"idle", "none"}
  /\ UNCHANGED vars

Next ==
  \/ \E r \in Requests : Arrive(r) \/ Progress(r) \/ DbFail(r)
  \/ \E l \in Logins : RemoveAccount(l)
  \/ Quiescent

Spec == Init /\ [][Next]_vars

\* Node's event loop, bcrypt, the database and the callbacks serve every request in turn;
\* that a database call rejects is never counted on.
FairSpec == Spec /\ \A r \in Requests : WF_vars(Progress(r))

-----------------------------------------------------------------------------
(* Properties.                                                             *)

Steps == {"validate", "load", "hook", "create", "check", "issue", "revoke", "update",
          "lookup", "setPassword"}
Answers == {"ok"} \cup HttpErrors
Accounts == Requests \cup {Original, None}

StoreTypeOK ==
  /\ account \in [Logins -> Accounts]
  /\ password \in [Logins -> Passwords \cup {None}]
  /\ token \in [Logins -> Accounts]
  /\ profile \in [Logins -> Requests \cup {None}]

RequestTypeOK ==
  /\ todo \in [Requests -> Seq(Steps)]
  /\ op \in [Requests -> Operations \cup {None}]
  /\ login \in [Requests -> Logins \cup {None}]
  /\ who \in [Requests -> Accounts]
  /\ given \in [Requests -> Passwords \cup {None}]
  /\ jti \in [Requests -> Accounts]
  /\ resp \in [Requests -> Answers \cup {"idle", "none"}]

HistoryTypeOK ==
  /\ current \in [Requests -> BOOLEAN]
  /\ matched \in [Requests -> BOOLEAN]
  /\ issued \in [Requests -> SUBSET (Accounts \X Logins)]
  /\ dead \in SUBSET (Accounts \X Logins)
  /\ late \in [Requests -> BOOLEAN]
  /\ threw \in [Requests -> BOOLEAN]
  /\ wrote \in [Requests -> BOOLEAN]
  /\ missed \in [Requests -> BOOLEAN]

\* Every variable holds values of its kind.
TypeOK == StoreTypeOK /\ RequestTypeOK /\ HistoryTypeOK

Refreshed(r) == TokenField /\ op[r] = "refresh" /\ resp[r] = "ok"

\* However logins, refreshes and logouts interleave, a refresh token that another one
\* has replaced, or a logout has cleared, before a refresh arrives with it is refused:
\* the late write of a slow login or refresh never brings it back.
SupersededRefused == \A r \in Requests : Refreshed(r) => current[r]

\* Logout (base-auth.service.ts:329-351): once it is answered, every refresh token that
\* clients held when it arrived is refused to the refreshes that arrive from then on.
LogoutRevokes == \A r \in Requests : Refreshed(r) => ~late[r]

\* A stored refresh token was issued to the account that stores it, though its login may
\* have been deleted and registered again while a request of the old account was running.
TokenOfAccount ==
  \A l \in Logins : token[l] # None => account[l] = AccountOf(token[l])

\* A login succeeds only with a password that was the account's while it was being served:
\* after a change of password is answered, the old one opens no session.
PasswordChecked ==
  \A r \in Requests : op[r] = "login" /\ resp[r] = "ok" => matched[r]

\* What the answer of a registration says of the account: created when it is accepted;
\* created and refused with a 4xx only when registerCallback rejected after the creation
\* and the catch classified its error (base-auth.service.ts:116-118: a callback's
\* duplicate key is the client's 409); created and answered 5xx only when a callback or
\* the database rejected, or the account was deleted, after its creation.
RegisterExplained ==
  \A r \in Requests : op[r] = "register" =>
    /\ resp[r] = "ok" => wrote[r]
    /\ resp[r] \in HttpErrors \ {"failed"} /\ wrote[r] => threw[r] /\ "register" \in Hooks
    /\ resp[r] = "failed" /\ wrote[r] => threw[r] \/ missed[r]

\* A change of password answered 204 has changed it, unless the find rejected (the catch
\* of changePassword swallows it) or the account was not there to be changed.
ChangeExplained ==
  \A r \in Requests :
    op[r] = "changePassword" /\ resp[r] = "ok" /\ ~wrote[r]
      => threw[r] \/ missed[r]

\* Every request is answered if bcrypt, the database and the callbacks settle.
EveryRequestServed ==
  \A r \in Requests : resp[r] = "none" ~> resp[r] \notin {"idle", "none"}

\* authentication.md:1507 says that each successful refresh rotates the token, revoking
\* the previous one: no two refreshes of one token succeed.
RotationRevokes ==
  \A r, s \in Requests :
    r # s /\ Refreshed(r) /\ Refreshed(s) => <<jti[r], login[r]>> # <<jti[s], login[s]>>

=============================================================================
