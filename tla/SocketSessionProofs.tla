-------------------------- MODULE SocketSessionProofs --------------------------
(***************************************************************************)
(* Proofs about SocketSession, for every number of events, sockets and     *)
(* users, every handshake, and every choice of predicates and broadcasts.  *)
(***************************************************************************)
EXTENDS SocketSession, TLAPS

USE KindsAssumption, UsersAssumption, DistinctAssumption, HandshakeAssumption, FlagsAssumption,
    BroadcastAssumption

-----------------------------------------------------------------------------
(* The guards an event has still to pass. *)

GuardNames == {"auth", "policies", "routePolicies", "refresh", "reset"}

\* What follows the first of two guards.
Rest(k) ==
  IF k = "updateAccount" THEN <<"policies">>
  ELSE IF k = "route" THEN <<"routePolicies">>
  ELSE <<>>

GuardsLeft(k) == {Guards(k), Rest(k), <<>>}

TokenKinds == AuthKinds \cup RefreshKinds

LEMMA TailOfOne == ASSUME NEW a PROVE Head(<<a>>) = a /\ Tail(<<a>>) = <<>> /\ <<a>> # <<>>
OBVIOUS

LEMMA HeadOfTwo == ASSUME NEW a, NEW b PROVE Head(<<a, b>>) = a
OBVIOUS

LEMMA TailOfTwo == ASSUME NEW a, NEW b PROVE Tail(<<a, b>>) = <<b>>
OBVIOUS

LEMMA TwoIsNotOne == ASSUME NEW a, NEW b PROVE <<a, b>> # <<b>>
OBVIOUS

LEMMA TwoIsNotNone == ASSUME NEW a, NEW b PROVE <<a, b>> # <<>>
OBVIOUS

LEMMA GuardsTyped ==
  ASSUME NEW k \in AllKinds
  PROVE  GuardsLeft(k) \subseteq Seq(GuardNames)
<1>1. \A a, b \in GuardNames : <<>> \in Seq(GuardNames) /\ <<a>> \in Seq(GuardNames)
                              /\ <<a, b>> \in Seq(GuardNames)
  OBVIOUS
<1>2. {"auth", "policies", "routePolicies", "refresh", "reset"} = GuardNames
  BY DEF GuardNames
<1>3. Guards(k) \in Seq(GuardNames)
  BY <1>1, <1>2 DEF Guards
<1>4. Rest(k) \in Seq(GuardNames)
  BY <1>1, <1>2 DEF Rest
<1> QED
  BY <1>1, <1>2, <1>3, <1>4 DEF GuardsLeft

\* The next guard of an event, and what is left after it.
LEMMA NextGuard ==
  ASSUME NEW k \in AllKinds, NEW l \in GuardsLeft(k), l # <<>>
  PROVE  /\ Tail(l) \in GuardsLeft(k)
         /\ Tail(l) # Guards(k) /\ Tail(l) # l
         /\ Head(l) = "auth" => k \in AuthKinds
         /\ Head(l) = "refresh" <=> k \in RefreshKinds
         /\ Head(l) = "policies" => k \in {"updateAccount", "register"}
         /\ l = Guards(k) /\ k \in TokenKinds => Head(l) \in {"auth", "refresh"}
         /\ k = "updateAccount" /\ Tail(l) = <<>> => Head(l) = "policies"
         /\ Head(l) \in GuardNames
<1>1. CASE k = "updateAccount"
  <2>1. l = <<"auth", "policies">> \/ l = <<"policies">>
    BY <1>1 DEF GuardsLeft, Guards, Rest
  <2>2. CASE l = <<"auth", "policies">>
    <3>1. Head(l) = "auth" /\ Tail(l) = <<"policies">> /\ Tail(l) # l /\ Tail(l) # <<>>
      BY <2>2, TailOfOne, HeadOfTwo, TailOfTwo, TwoIsNotOne, TwoIsNotNone
    <3> QED
      BY <1>1, <2>2, <3>1 DEF GuardsLeft, Guards, Rest, AuthKinds, RefreshKinds, GuardNames
  <2>3. CASE l = <<"policies">>
    <3>1. Head(l) = "policies" /\ Tail(l) = <<>> /\ l # <<"auth", "policies">> /\ <<"auth", "policies">> # <<>>
      BY <2>3, TailOfOne, HeadOfTwo, TailOfTwo, TwoIsNotOne, TwoIsNotNone
    <3> QED
      BY <1>1, <2>3, <3>1 DEF GuardsLeft, Guards, Rest, AuthKinds, RefreshKinds, GuardNames
  <2> QED
    BY <2>1, <2>2, <2>3
<1>2. CASE k = "route"
  <2>1. l = <<"auth", "routePolicies">> \/ l = <<"routePolicies">>
    BY <1>2 DEF GuardsLeft, Guards, Rest
  <2>2. CASE l = <<"auth", "routePolicies">>
    <3>1. Head(l) = "auth" /\ Tail(l) = <<"routePolicies">> /\ Tail(l) # l /\ Tail(l) # <<>>
      BY <2>2, TailOfOne, HeadOfTwo, TailOfTwo, TwoIsNotOne, TwoIsNotNone
    <3> QED
      BY <1>2, <2>2, <3>1 DEF GuardsLeft, Guards, Rest, AuthKinds, RefreshKinds, GuardNames
  <2>3. CASE l = <<"routePolicies">>
    <3>1. Head(l) = "routePolicies" /\ Tail(l) = <<>> /\ l # <<"auth", "routePolicies">>
          /\ <<"auth", "routePolicies">> # <<>>
      BY <2>3, TailOfOne, HeadOfTwo, TailOfTwo, TwoIsNotOne, TwoIsNotNone
    <3> QED
      BY <1>2, <2>3, <3>1 DEF GuardsLeft, Guards, Rest, AuthKinds, RefreshKinds, GuardNames
  <2> QED
    BY <2>1, <2>2, <2>3
<1>3. CASE k \notin {"updateAccount", "route"}
  <2>1. PICK g \in GuardNames : l = <<g>> /\ Guards(k) = <<g>>
    BY <1>3 DEF GuardsLeft, Guards, Rest, GuardNames
  <2>2. Head(l) = g /\ Tail(l) = <<>> /\ Guards(k) # <<>>
    BY <2>1, TailOfOne
  <2>3. g = IF k = "getAccount" THEN "auth" ELSE IF k = "register" THEN "policies"
            ELSE IF k \in RefreshKinds THEN "refresh" ELSE "reset"
    BY <1>3, <2>1, TailOfOne DEF Guards
  <2> QED
    BY <1>3, <2>1, <2>2, <2>3 DEF GuardsLeft, AuthKinds, RefreshKinds, TokenKinds
<1> QED
  BY <1>1, <1>2, <1>3

LEMMA TokenKindsGuarded ==
  ASSUME NEW k \in TokenKinds
  PROVE  Guards(k) # <<>>
BY TailOfOne, HeadOfTwo, TailOfTwo, TwoIsNotOne, TwoIsNotNone DEF Guards, TokenKinds, AuthKinds, RefreshKinds

-----------------------------------------------------------------------------
(* Types.                                                                   *)

PCs     == {"idle", "guard", "verifying", "validating", "service", "done"}
Answers == {"none", "ok", "empty", "lost", "refused", "error"}

LEMMA TypeInit == Init => TypeOK
<1> SUFFICES ASSUME Init PROVE TypeOK
  OBVIOUS
<1>1. \A s \in Sockets : ConnectionUser(s, token[s]) \in Users \cup {None}
  BY DEF ConnectionUser
<1>2. socketUser \in [Sockets -> Users \cup {None}]
  BY <1>1 DEF Init
<1>3. left \in [Requests -> Seq(GuardNames)]
  BY GuardsTyped DEF Init, GuardsLeft
<1> QED
  BY <1>2, <1>3 DEF Init, TypeOK, GuardNames

LEMMA VerifiedTyped ==
  ASSUME TypeOK, NEW s \in Sockets, NEW t \in {"access", "refresh"}
  PROVE  Verified(s, t) \in Users \cup {None}
BY DEF TypeOK, Verified

\* Every step keeps what the clients have chosen.
LEMMA SentStays == [Next]_vars => UNCHANGED <<token, sent>>
BY DEF Next, Serve, vars, sockets, sent, Send, Expire, VerifyToken, AssignUser, CheckGuard, HandleForUser,
       HandleForNobody, HandleRegister, HandleLogin, HandleBareLogin, ValidateLogin, Finish, Fail, Finished

LEMMA AnswerTyped ==
  ASSUME TypeOK, NEW r \in Requests, NEW a \in Answers, Answer(r, a)
  PROVE  pc' \in [Requests -> PCs] /\ answer' \in [Requests -> Answers]
BY DEF TypeOK, Answer, PCs, Answers

LEMMA GotoTyped ==
  ASSUME TypeOK, NEW r \in Requests, NEW l \in PCs, pc' = [pc EXCEPT ![r] = l], UNCHANGED answer
  PROVE  pc' \in [Requests -> PCs] /\ answer' \in [Requests -> Answers]
BY DEF TypeOK, PCs, Answers

LEMMA AssignTyped ==
  ASSUME TypeOK, NEW r \in Requests, NEW u \in Users \cup {None}, Assign(r, u)
  PROVE  socketUser' \in [Sockets -> Users \cup {None}]
BY DEF TypeOK, Assign

LEMMA PassTyped ==
  ASSUME TypeOK, NEW r \in Requests, left[r] # <<>>, Pass(r)
  PROVE  /\ pc' \in [Requests -> PCs] /\ answer' \in [Requests -> Answers]
         /\ left' \in [Requests -> Seq(GuardNames)]
<1>1. left[r] \in Seq(GuardNames)
  BY DEF TypeOK, GuardNames
<1>2. Tail(left[r]) \in Seq(GuardNames)
  BY <1>1
<1> QED
  BY <1>2 DEF TypeOK, Pass, PCs, Answers, GuardNames

LEMMA OpenSessionTyped ==
  ASSUME TypeOK, NEW r \in Requests, NEW u \in Users \cup {None}, OpenSession(r, u)
  PROVE  /\ pc' \in [Requests -> PCs] /\ answer' \in [Requests -> Answers]
         /\ served' \in [Requests -> Users \cup {None, Unread}]
<1>1. CASE u = None \/ ~Allowed("login", u)
  <2>1. Answer(r, "refused") /\ UNCHANGED served
    BY <1>1 DEF OpenSession
  <2> QED
    BY <2>1, AnswerTyped DEF TypeOK, Answers
<1>2. CASE ~(u = None \/ ~Allowed("login", u))
  <2>1. Call(r, u)
    BY <1>2 DEF OpenSession
  <2> QED
    BY <2>1 DEF TypeOK, Call, PCs, Answers
<1> QED
  BY <1>1, <1>2

LEMMA SendTyped == ASSUME TypeOK, NEW r \in Requests, Send(r) PROVE TypeOK'
<1>1. UNCHANGED <<token, expired, socketUser, kind, sock, given, left, user, served, told, answer>>
  BY DEF Send, sockets, sent
<1>2. pc' \in [Requests -> {"idle", "guard", "verifying", "validating", "service", "done"}]
  BY DEF TypeOK, Send
<1>3. company' \in [Requests -> SUBSET Requests] /\ before' \in [Requests -> Users \cup {None}]
  BY DEF TypeOK, Send
<1> QED
  BY <1>1, <1>2, <1>3 DEF TypeOK

LEMMA ExpireTyped ==
  ASSUME TypeOK, NEW s \in Sockets, NEW t \in {"access", "refresh"}, Expire(s, t)
  PROVE  TypeOK'
BY DEF TypeOK, Expire, sent, history

LEMMA VerifyTokenTyped == ASSUME TypeOK, NEW r \in Requests, VerifyToken(r) PROVE TypeOK'
<1> DEFINE u == Verified(sock[r], TokenOf(r))
<1>1. u \in Users \cup {None}
  BY VerifiedTyped DEF TypeOK, TokenOf
<1>2. UNCHANGED <<token, expired, socketUser, kind, sock, given, left, served, told, company, before>>
  BY DEF VerifyToken, sockets, sent, history
<1>3. \/ Answer(r, "refused") /\ UNCHANGED user
      \/ pc' = [pc EXCEPT ![r] = "verifying"] /\ user' = [user EXCEPT ![r] = u] /\ UNCHANGED answer
  BY DEF VerifyToken
<1>4. user' \in [Requests -> Users \cup {None}]
  <2>1. CASE UNCHANGED user
    BY <2>1 DEF TypeOK
  <2>2. CASE user' = [user EXCEPT ![r] = u]
    <3> HIDE DEF u
    <3> QED
      BY <1>1, <2>2 DEF TypeOK
  <2> QED
    BY <1>3, <2>1, <2>2
<1>5. "refused" \in Answers /\ "verifying" \in PCs
  BY DEF Answers, PCs
<1>6. pc' \in [Requests -> PCs] /\ answer' \in [Requests -> Answers]
  <2>1. CASE Answer(r, "refused")
    BY <1>5, <2>1, AnswerTyped
  <2>2. CASE pc' = [pc EXCEPT ![r] = "verifying"] /\ UNCHANGED answer
    BY <1>5, <2>2, GotoTyped
  <2> QED
    BY <1>3, <2>1, <2>2
<1> QED
  BY <1>2, <1>4, <1>6 DEF TypeOK, PCs, Answers

LEMMA AssignUserTyped ==
  ASSUME TypeOK, NEW r \in Requests, AssignUser(r), left[r] # <<>>
  PROVE  TypeOK'
<1>1. UNCHANGED <<token, expired, kind, sock, given, served, told, company, before>>
  BY DEF AssignUser, sent, history
<1>2. /\ socketUser' \in [Sockets -> Users \cup {None}]
      /\ user' \in [Requests -> Users \cup {None}]
  BY DEF TypeOK, AssignUser, Assign
<1>3. \/ Answer(r, "refused") /\ UNCHANGED left
      \/ Pass(r)
  BY DEF AssignUser
<1>4. pc' \in [Requests -> PCs] /\ answer' \in [Requests -> Answers] /\ left' \in [Requests -> Seq(GuardNames)]
  BY <1>3, AnswerTyped, PassTyped DEF TypeOK, Answers, GuardNames
<1> QED
  BY <1>1, <1>2, <1>4 DEF TypeOK, PCs, Answers, GuardNames

LEMMA CheckGuardTyped == ASSUME TypeOK, NEW r \in Requests, CheckGuard(r) PROVE TypeOK'
<1>1. UNCHANGED <<token, expired, socketUser, kind, sock, given, user, served, told, company, before>>
  BY DEF CheckGuard, sockets, sent, history
<1>2. left[r] # <<>> /\ ((Answer(r, "refused") /\ UNCHANGED left) \/ Pass(r))
  BY DEF CheckGuard
<1>3. pc' \in [Requests -> PCs] /\ answer' \in [Requests -> Answers] /\ left' \in [Requests -> Seq(GuardNames)]
  BY <1>2, AnswerTyped, PassTyped DEF TypeOK, Answers, GuardNames
<1> QED
  BY <1>1, <1>3 DEF TypeOK, PCs, Answers, GuardNames

LEMMA HandleForUserTyped == ASSUME TypeOK, NEW r \in Requests, HandleForUser(r) PROVE TypeOK'
<1> DEFINE u == socketUser[sock[r]]
<1>1. UNCHANGED <<token, expired, socketUser, kind, sock, given, left, user, told, company, before>>
  BY DEF HandleForUser, sockets, sent, history
<1>2. u \in Users \cup {None}
  BY DEF TypeOK
<1>3. \/ Answer(r, "empty") /\ served' = [served EXCEPT ![r] = None]
      \/ Call(r, u)
  BY DEF HandleForUser
<1>4. pc' \in [Requests -> PCs] /\ answer' \in [Requests -> Answers]
      /\ served' \in [Requests -> Users \cup {None, Unread}]
  BY <1>2, <1>3, AnswerTyped DEF TypeOK, Call, PCs, Answers
<1> QED
  BY <1>1, <1>4 DEF TypeOK, PCs, Answers

LEMMA HandleForNobodyTyped == ASSUME TypeOK, NEW r \in Requests, HandleForNobody(r) PROVE TypeOK'
<1>1. UNCHANGED <<token, expired, socketUser, kind, sock, given, left, user, served, told, answer, company, before>>
  BY DEF HandleForNobody, sockets, sent, history
<1>2. pc' \in [Requests -> PCs]
  BY DEF TypeOK, HandleForNobody, PCs
<1> QED
  BY <1>1, <1>2 DEF TypeOK, PCs

LEMMA HandleRegisterTyped == ASSUME TypeOK, NEW r \in Requests, HandleRegister(r) PROVE TypeOK'
<1> DEFINE u == Verified(sock[r], "access")
<1>1. u \in Users \cup {None}
  BY VerifiedTyped DEF TypeOK
<1>2. UNCHANGED <<token, expired, kind, sock, given, left, user, served, told, company, before>>
  BY DEF HandleRegister, sent, history
<1>3. UNCHANGED socketUser \/ Assign(r, u)
  BY DEF HandleRegister
<1>4. socketUser' \in [Sockets -> Users \cup {None}]
  <2>1. CASE UNCHANGED socketUser
    BY <2>1 DEF TypeOK
  <2> QED
    BY <1>1, <1>3, <2>1, AssignTyped
<1>5. \/ pc' = [pc EXCEPT ![r] = "service"] /\ UNCHANGED answer
      \/ Answer(r, "refused")
  BY DEF HandleRegister
<1>6. "refused" \in Answers /\ "service" \in PCs
  BY DEF Answers, PCs
<1>7. pc' \in [Requests -> PCs] /\ answer' \in [Requests -> Answers]
  BY <1>5, <1>6, AnswerTyped, GotoTyped
<1> QED
  BY <1>2, <1>4, <1>7 DEF TypeOK, PCs, Answers

LEMMA LoginTyped ==
  ASSUME TypeOK, NEW r \in Requests, HandleLogin(r) \/ HandleBareLogin(r) \/ ValidateLogin(r)
  PROVE  TypeOK'
<1>1. CASE HandleLogin(r)
  <2>1. UNCHANGED <<token, expired, socketUser, kind, sock, given, left, user, served, told, answer, company, before>>
    BY <1>1 DEF HandleLogin, sockets, sent, history
  <2>2. pc' \in [Requests -> PCs]
    BY <1>1 DEF TypeOK, HandleLogin, PCs
  <2> QED
    BY <2>1, <2>2 DEF TypeOK, PCs
<1>2. CASE HandleBareLogin(r)
  <2>1. UNCHANGED <<token, expired, socketUser, kind, sock, given, left, user, told, company, before>>
    BY <1>2 DEF HandleBareLogin, sockets, sent, history
  <2>2. socketUser[sock[r]] \in Users \cup {None} /\ OpenSession(r, socketUser[sock[r]])
    BY <1>2 DEF TypeOK, HandleBareLogin
  <2>3. pc' \in [Requests -> PCs] /\ answer' \in [Requests -> Answers]
        /\ served' \in [Requests -> Users \cup {None, Unread}]
    BY <2>2, OpenSessionTyped
  <2> QED
    BY <2>1, <2>3 DEF TypeOK, PCs, Answers
<1>3. CASE ValidateLogin(r)
  <2>1. UNCHANGED <<token, expired, kind, sock, given, left, user, told, company, before>>
    BY <1>3 DEF ValidateLogin, sent, history
  <2>2. ValidateUser(given[r]) \in Users \cup {None} /\ OpenSession(r, ValidateUser(given[r]))
    BY <1>3 DEF ValidateLogin, ValidateUser
  <2>3. pc' \in [Requests -> PCs] /\ answer' \in [Requests -> Answers]
        /\ served' \in [Requests -> Users \cup {None, Unread}]
    BY <2>2, OpenSessionTyped
  <2>4. socketUser' \in [Sockets -> Users \cup {None}]
    BY <1>3, <2>2 DEF TypeOK, ValidateLogin, Assign
  <2> QED
    BY <2>1, <2>3, <2>4 DEF TypeOK, PCs, Answers
<1> QED
  BY <1>1, <1>2, <1>3

LEMMA FinishTyped == ASSUME TypeOK, NEW r \in Requests, Finish(r) \/ Fail(r) PROVE TypeOK'
<1>1. CASE Finish(r)
  <2>1. UNCHANGED <<token, expired, socketUser, kind, sock, given, left, user, served, company, before>>
    BY <1>1 DEF Finish, sockets, sent, history
  <2>2. \E a \in Answers : Answer(r, a)
    BY <1>1 DEF Finish, Answers
  <2>3. pc' \in [Requests -> PCs] /\ answer' \in [Requests -> Answers]
    BY <2>2, AnswerTyped
  <2>4. told' \in [Requests -> Users \cup {None, Unread}]
    BY <1>1 DEF TypeOK, Finish
  <2> QED
    BY <2>1, <2>3, <2>4 DEF TypeOK, PCs, Answers
<1>2. CASE Fail(r)
  <2>1. UNCHANGED <<token, expired, socketUser, kind, sock, given, left, user, served, told, company, before>>
    BY <1>2 DEF Fail, sockets, sent, history
  <2>2. pc' \in [Requests -> PCs] /\ answer' \in [Requests -> Answers]
    BY <1>2, AnswerTyped DEF Fail, Answers
  <2> QED
    BY <2>1, <2>2 DEF TypeOK, PCs, Answers
<1> QED
  BY <1>1, <1>2

-----------------------------------------------------------------------------
(* The inductive invariant.                                                 *)

\* u is what an event served together with r has put on the socket.
Displaced(r, u) == \E q \in company[r] : MayPut(q, u)

\* Of two events served at once on a socket each has the other in its company.
Together(r, q) == Running(r) /\ Running(q) /\ r # q /\ sock[r] = sock[q] => q \in company[r]

\* Where an event is in its guards and its handler.
Ordered(r) ==
  /\ left[r] \in GuardsLeft(kind[r])
  /\ pc[r] = "idle" =>
       left[r] = Guards(kind[r]) /\ served[r] = Unread /\ told[r] = Unread /\ answer[r] = "none"
  /\ pc[r] = "verifying" =>
       left[r] # <<>> /\ Verifies(r) /\ Credentialed(r) /\ user[r] = Credential(r) /\ user[r] \in Users
  /\ pc[r] = "validating" => kind[r] = "login" /\ given[r] # "missing"
  /\ pc[r] = "service" => left[r] = <<>>

\* The event has come to the point from which on it relies on socket.user being its own.
Relies(r) ==
  IF kind[r] \in TokenKinds THEN left[r] # Guards(kind[r]) ELSE pc[r] = "service"

\* From there on socket.user is explained; before, it may also be what the event has found there,
\* or what it has put there itself.
HoldsFor(r) ==
  \A u \in Users \cup {None} : Running(r) /\ socketUser[sock[r]] = u =>
    \/ u = Credential(r)
    \/ Displaced(r, u)
    \/ ~Relies(r) /\ (u = before[r] \/ MayPut(r, u))

\* An event with a token that has passed its first guard has a user.
OwnFor(r) ==
  kind[r] \in TokenKinds /\ Running(r) /\ left[r] # Guards(kind[r]) => Credential(r) \in Users

ServedFor(r) == \A u \in Users \cup {None} : served[r] = u => u = Credential(r) \/ Displaced(r, u)
ToldFor(r)   == \A u \in Users \cup {None} : told[r] = u => u = Credential(r) \/ Displaced(r, u)

\* An update of the account that has passed its guards is one the predicate allows.
JudgedFor(r) ==
  kind[r] = "updateAccount" /\ "updateAccount" \in Judged /\ Running(r) /\ left[r] = <<>> =>
    Credential(r) \in Trusted

UpdatedFor(r) ==
  kind[r] = "updateAccount" /\ "updateAccount" \in Judged =>
    \A u \in Users : served[r] = u => u \in Trusted \/ Displaced(r, u)

\* A login whose service is called finds its user on the socket unless it was displaced.
OpenFor(r) ==
  kind[r] = "login" /\ pc[r] = "service" /\ socketUser[sock[r]] = None => Displaced(r, None)

OpenedFor(r) ==
  kind[r] = "login" /\ served[r] # Unread =>
    /\ served[r] \in Users
    /\ given[r] # "missing" => served[r] = given[r]
    /\ "login" \in Judged => served[r] \in Trusted

NobodyFor(r) == answer[r] \in {"empty", "lost"} => Displaced(r, None)

\* What is so while the event is served, and what its answer leaves.
Position(r) == Ordered(r) /\ HoldsFor(r) /\ OwnFor(r) /\ JudgedFor(r) /\ OpenFor(r)
Results(r)  == ServedFor(r) /\ ToldFor(r) /\ UpdatedFor(r) /\ OpenedFor(r) /\ NobodyFor(r)

Local(r) == Position(r) /\ Results(r)

Inv ==
  /\ TypeOK
  /\ \A r, q \in Requests : Together(r, q)
  /\ \A r \in Requests : Local(r)

-----------------------------------------------------------------------------
(* Credentials and company over a step.                                     *)

LEMMA CredentialStays ==
  ASSUME UNCHANGED <<token, sent>>, NEW q \in Requests
  PROVE  /\ Credentialed(q)' <=> Credentialed(q)
         /\ Credentialed(q) => Credential(q)' = Credential(q)
         /\ UNCHANGED before => Credential(q)' = Credential(q)
BY DEF Credentialed, Credential, sent

LEMMA MayPutStays ==
  ASSUME UNCHANGED <<token, sent>>, NEW q \in Requests, NEW u
  PROVE  MayPut(q, u)' <=> MayPut(q, u)
<1>1. kind' = kind
  BY DEF sent
<1> QED
  BY <1>1, CredentialStays DEF MayPut

\* Company only grows, and with it what is explained.
LEMMA DisplacedGrows ==
  ASSUME TypeOK, UNCHANGED <<token, sent>>, NEW r \in Requests, NEW u,
         company[r] \subseteq company'[r], Displaced(r, u)
  PROVE  Displaced(r, u)'
<1>1. PICK q \in company[r] : MayPut(q, u)
  BY DEF Displaced
<1>2. q \in Requests /\ q \in company'[r]
  BY DEF TypeOK
<1>3. MayPut(q, u)'
  BY <1>1, <1>2, MayPutStays
<1> QED
  BY <1>2, <1>3 DEF Displaced

\* What another event of the socket puts there is explained.
LEMMA DisplacedByOther ==
  ASSUME NEW r \in Requests, NEW q \in Requests, NEW u,
         Together(r, q), Running(r), Running(q), r # q, sock[r] = sock[q], MayPut(q, u)
  PROVE  Displaced(r, u)
BY DEF Together, Displaced

\* An event without a credential of its own relies on nothing: whatever is there is explained.
LEMMA WithoutCredential ==
  ASSUME NEW r \in Requests, NEW u \in Users \cup {None},
         Running(r), HoldsFor(r), socketUser[sock[r]] = u, ~Credentialed(r)
  PROVE  u = Credential(r) \/ Displaced(r, u)
BY DEF HoldsFor, Credential, MayPut

LEMMA WithToken ==
  ASSUME NEW r \in Requests, NEW u \in Users \cup {None},
         Running(r), HoldsFor(r), socketUser[sock[r]] = u, kind[r] \in TokenKinds, left[r] # Guards(kind[r])
  PROVE  u = Credential(r) \/ Displaced(r, u)
BY DEF HoldsFor, Relies

LEMMA TokenKindsCredentialed ==
  ASSUME NEW r \in Requests, kind[r] \in TokenKinds
  PROVE  Credentialed(r) /\ kind[r] \notin {"login", "register"}
BY DEF Credentialed, TokenKinds, AuthKinds, RefreshKinds

-----------------------------------------------------------------------------
(* A step of one event, seen from another.                                  *)

\* What a step of r leaves to the events other than r.
Aside(r) ==
  /\ UNCHANGED <<token, sent, history>>
  /\ Running(r)
  /\ \A x \in Requests \ {r} : /\ pc'[x] = pc[x] /\ left'[x] = left[x] /\ user'[x] = user[x]
                               /\ served'[x] = served[x] /\ told'[x] = told[x] /\ answer'[x] = answer[x]
  /\ \/ UNCHANGED socketUser
     \/ \E u \in Users \cup {None} : MayPut(r, u) /\ Assign(r, u)

LEMMA Bystander ==
  ASSUME TypeOK, NEW r \in Requests, NEW x \in Requests, x # r, Aside(r), Together(x, r), Local(x)
  PROVE  Local(x)'
<1>1. /\ pc'[x] = pc[x] /\ left'[x] = left[x] /\ user'[x] = user[x]
      /\ served'[x] = served[x] /\ told'[x] = told[x] /\ answer'[x] = answer[x]
  BY DEF Aside
<1>2. UNCHANGED <<token, sent, kind, sock, given, company, before>>
  BY DEF Aside, sent, history
<1>3. ASSUME NEW u, Displaced(x, u) PROVE Displaced(x, u)'
  BY <1>2, <1>3, DisplacedGrows
<1>4. Credential(x)' = Credential(x) /\ (Credentialed(x)' <=> Credentialed(x))
  BY <1>2, CredentialStays
<1>5. Running(x)' <=> Running(x)
  BY <1>1 DEF Running
<1>6. Relies(x)' <=> Relies(x)
  BY <1>1, <1>2 DEF Relies
<1>7. ASSUME Running(x), socketUser'[sock[x]] # socketUser[sock[x]]
      PROVE  Displaced(x, socketUser'[sock[x]])
  <2>1. PICK u \in Users \cup {None} : MayPut(r, u) /\ Assign(r, u)
    BY <1>7 DEF Aside
  <2>2. sock[x] = sock[r] /\ socketUser'[sock[x]] = u
    BY <1>7, <2>1 DEF Assign, TypeOK
  <2> QED
    BY <1>7, <2>1, <2>2, DisplacedByOther DEF Aside
<1>8. Ordered(x)'
  <2>1. Verifies(x)' <=> Verifies(x)
    BY <1>1, <1>2 DEF Verifies
  <2> QED
    BY <1>1, <1>2, <1>4, <2>1 DEF Local, Position, Ordered
<1>9. HoldsFor(x)'
  <2> SUFFICES ASSUME NEW u \in Users \cup {None}, Running(x), socketUser'[sock[x]] = u
               PROVE  \/ u = Credential(x)
                      \/ Displaced(x, u)'
                      \/ ~Relies(x) /\ (u = before[x] \/ MayPut(x, u)')
    BY <1>2, <1>4, <1>5, <1>6 DEF HoldsFor
  <2>1. CASE socketUser'[sock[x]] # socketUser[sock[x]]
    <3>1. Displaced(x, u)
      BY <1>7, <2>1
    <3> QED
      BY <1>3, <3>1
  <2>2. CASE socketUser[sock[x]] = u
    <3>1. \/ u = Credential(x)
          \/ Displaced(x, u)
          \/ ~Relies(x) /\ (u = before[x] \/ MayPut(x, u))
      BY <2>2 DEF Local, Position, HoldsFor
    <3>2. MayPut(x, u)' <=> MayPut(x, u)
      BY <1>2, MayPutStays
    <3> QED
      BY <1>3, <3>1, <3>2
  <2> QED
    BY <2>1, <2>2
<1>10. OwnFor(x)'
  BY <1>1, <1>2, <1>4, <1>5 DEF Local, Position, OwnFor
<1>11. ServedFor(x)' /\ ToldFor(x)'
  BY <1>1, <1>3, <1>4 DEF Local, Results, ServedFor, ToldFor
<1>12. JudgedFor(x)' /\ UpdatedFor(x)'
  BY <1>1, <1>2, <1>3, <1>4, <1>5 DEF Local, Position, Results, JudgedFor, UpdatedFor
<1>13. OpenFor(x)'
  <2>1. CASE kind[x] = "login" /\ pc[x] = "service" /\ socketUser'[sock[x]] = None
    <3>1. Running(x)
      BY <2>1 DEF Running
    <3>2. Displaced(x, None)
      BY <1>7, <2>1, <3>1 DEF Local, Position, OpenFor
    <3> QED
      BY <1>1, <1>2, <1>3, <3>2 DEF OpenFor
  <2> QED
    BY <1>1, <1>2, <2>1 DEF OpenFor
<1>14. OpenedFor(x)' /\ NobodyFor(x)'
  BY <1>1, <1>2, <1>3 DEF Local, Results, OpenedFor, NobodyFor
<1> QED
  BY <1>8, <1>9, <1>10, <1>11, <1>12, <1>13, <1>14 DEF Local, Position, Results

-----------------------------------------------------------------------------
(* A step of an event, seen from itself.                                    *)

LEMMA Frame ==
  ASSUME TypeOK, UNCHANGED <<token, sent, history>>, NEW r \in Requests
  PROVE  /\ UNCHANGED <<kind, sock, given, company, before>>
         /\ Credential(r)' = Credential(r)
         /\ Credentialed(r)' <=> Credentialed(r)
         /\ \A u : Displaced(r, u) => Displaced(r, u)'
         /\ \A u : MayPut(r, u)' <=> MayPut(r, u)
<1>1. UNCHANGED <<kind, sock, given, company, before>> /\ UNCHANGED <<token, sent>>
  BY DEF sent, history
<1>2. ASSUME NEW u, Displaced(r, u) PROVE Displaced(r, u)'
  BY <1>1, <1>2, DisplacedGrows
<1>3. ASSUME NEW u PROVE MayPut(r, u)' <=> MayPut(r, u)
  BY <1>1, MayPutStays
<1> QED
  BY <1>1, <1>2, <1>3, CredentialStays

LEMMA PositionDone ==
  ASSUME TypeOK, UNCHANGED <<token, sent, history>>, NEW r \in Requests, NEW a, Local(r),
         Answer(r, a), UNCHANGED left
  PROVE  Position(r)'
<1>1. pc'[r] = "done" /\ ~Running(r)' /\ left'[r] = left[r]
  BY DEF TypeOK, Answer, Running
<1>2. Ordered(r)'
  BY <1>1, Frame DEF Local, Position, Ordered
<1> QED
  BY <1>1, <1>2 DEF Position, HoldsFor, OwnFor, JudgedFor, OpenFor

LEMMA ResultsStay ==
  ASSUME TypeOK, UNCHANGED <<token, sent, history>>, NEW r \in Requests, Local(r),
         served'[r] = served[r], told'[r] = told[r],
         answer'[r] = answer[r] \/ answer'[r] \notin {"empty", "lost"}
  PROVE  Results(r)'
<1>1. ServedFor(r)' /\ ToldFor(r)'
  BY Frame DEF Local, Results, ServedFor, ToldFor
<1>2. UpdatedFor(r)'
  BY Frame DEF Local, Results, UpdatedFor
<1>3. OpenedFor(r)'
  BY Frame DEF Local, Results, OpenedFor
<1>4. NobodyFor(r)'
  BY Frame DEF Local, Results, NobodyFor
<1> QED
  BY <1>1, <1>2, <1>3, <1>4 DEF Results

-----------------------------------------------------------------------------
(* The steps.                                                               *)

LEMMA VerifyTokenStep ==
  ASSUME TypeOK, NEW r \in Requests, Local(r), VerifyToken(r)
  PROVE  Aside(r) /\ Local(r)'
<1> DEFINE u == Verified(sock[r], TokenOf(r))
<1>1. /\ UNCHANGED <<token, sent, history>> /\ UNCHANGED <<socketUser, left, served, told>>
      /\ pc[r] = "guard" /\ left[r] # <<>> /\ Verifies(r)
  BY DEF VerifyToken, sockets
<1>2. Aside(r)
  BY <1>1 DEF VerifyToken, Aside, Answer, Running, TypeOK
<1>3. CASE u = None
  <2>1. Answer(r, "refused")
    BY <1>3 DEF VerifyToken
  <2>2. answer'[r] = "refused"
    BY <2>1 DEF Answer, TypeOK
  <2> QED
    BY <1>1, <1>2, <2>1, <2>2, PositionDone, ResultsStay DEF Local
<1>4. CASE u # None
  <2>1. pc'[r] = "verifying" /\ user'[r] = u /\ answer'[r] = answer[r]
    BY <1>4 DEF VerifyToken, TypeOK
  <2>2. Running(r) /\ Running(r)'
    BY <1>1, <2>1 DEF Running
  <2>3. kind[r] \in AllKinds /\ left[r] \in GuardsLeft(kind[r])
    BY DEF TypeOK, Local, Position, Ordered
  <2>4. /\ Head(left[r]) = "auth" => kind[r] \in AuthKinds
        /\ Head(left[r]) = "refresh" <=> kind[r] \in RefreshKinds
        /\ Head(left[r]) = "policies" => kind[r] \in {"updateAccount", "register"}
    BY <1>1, <2>3, NextGuard
  <2>5. Credentialed(r) /\ kind[r] # "login"
    BY <1>1, <2>4 DEF Verifies, Credentialed, RegisterPublic, AuthKinds, RefreshKinds
  <2>6. u \in Users /\ u = Credential(r)
    BY <1>4, <2>4, <2>5 DEF Verified, TokenOf, Credential
  <2>7. Verifies(r)'
    BY <1>1, Frame DEF Verifies
  <2>8. Ordered(r)'
    BY <1>1, <2>1, <2>3, <2>5, <2>6, <2>7, Frame DEF Ordered
  <2>9. Relies(r)' <=> Relies(r)
    BY <1>1, <2>1, Frame DEF Relies
  <2>10. HoldsFor(r)'
    BY <1>1, <2>2, <2>9, Frame DEF Local, Position, HoldsFor
  <2>11. OwnFor(r)' /\ JudgedFor(r)' /\ OpenFor(r)'
    BY <1>1, <2>1, <2>2, Frame DEF Local, Position, OwnFor, JudgedFor, OpenFor
  <2>12. Results(r)'
    BY <1>1, <2>1, ResultsStay
  <2> QED
    BY <1>2, <2>8, <2>10, <2>11, <2>12 DEF Local, Position
<1> QED
  BY <1>3, <1>4

LEMMA AssignUserStep ==
  ASSUME TypeOK, NEW r \in Requests, Local(r), AssignUser(r)
  PROVE  Aside(r) /\ Local(r)'
<1>1. /\ UNCHANGED <<token, sent, history>> /\ UNCHANGED <<served, told>>
      /\ pc[r] = "verifying" /\ Assign(r, user[r])
  BY DEF AssignUser
<1>2. /\ left[r] # <<>> /\ Verifies(r) /\ Credentialed(r) /\ left[r] \in GuardsLeft(kind[r])
      /\ user[r] = Credential(r) /\ user[r] \in Users
  BY <1>1 DEF Local, Position, Ordered
<1>3. MayPut(r, user[r])
  BY <1>2 DEF MayPut
<1>4. /\ \A x \in Requests \ {r} : /\ pc'[x] = pc[x] /\ left'[x] = left[x] /\ user'[x] = user[x]
                                   /\ answer'[x] = answer[x]
      /\ pc'[r] \in {"guard", "done"}
      /\ answer'[r] \in {answer[r], "refused"}
  BY DEF AssignUser, Answer, Pass, TypeOK
<1>5. Aside(r)
  BY <1>1, <1>2, <1>3, <1>4 DEF Aside, Running
<1>6. Results(r)'
  BY <1>1, <1>4, ResultsStay
<1>7. socketUser'[sock[r]] = Credential(r)
  BY <1>1, <1>2 DEF Assign, TypeOK
<1>8. HoldsFor(r)'
  BY <1>1, <1>7, Frame DEF HoldsFor
<1>9. OpenFor(r)'
  BY <1>4 DEF OpenFor
<1>10. kind[r] \in AllKinds
  BY DEF TypeOK
<1>11. CASE left' = left
  <2>1. Ordered(r)' /\ OwnFor(r)' /\ JudgedFor(r)'
    <3>1. pc'[r] = "done"
      <4>1. Tail(left[r]) # left[r]
        BY <1>2, <1>10, NextGuard
      <4> QED
        BY <1>11, <4>1 DEF AssignUser, Answer, Pass, TypeOK
    <3>2. Ordered(r)'
      BY <1>1, <1>2, <1>11, <3>1, Frame DEF Ordered
    <3> QED
      BY <3>1, <3>2 DEF OwnFor, JudgedFor, Running
  <2> QED
    BY <1>5, <1>6, <1>8, <1>9, <2>1 DEF Local, Position
<1>12. CASE left' = [left EXCEPT ![r] = Tail(@)]
  <2>1. left'[r] = Tail(left[r]) /\ left'[r] \in GuardsLeft(kind[r])
    BY <1>2, <1>10, <1>12, NextGuard DEF TypeOK
  <2>2. Ordered(r)'
    BY <1>1, <1>4, <2>1, Frame DEF Ordered
  <2>3. OwnFor(r)'
    BY <1>1, <1>2, Frame DEF OwnFor
  <2>4. JudgedFor(r)'
    <3>1. SUFFICES ASSUME kind[r] = "updateAccount", "updateAccount" \in Judged, Tail(left[r]) = <<>>,
                          pc'[r] # "done"
                   PROVE  Credential(r) \in Trusted
      BY <1>1, <2>1, Frame DEF JudgedFor, Running
    <3>2. Head(left[r]) = "policies"
      BY <1>2, <1>10, <3>1, NextGuard
    <3>3. Allowed(kind[r], user[r])
      BY <3>1, <3>2 DEF AssignUser, Answer, TypeOK
    <3> QED
      BY <1>2, <3>1, <3>3 DEF Allowed
  <2> QED
    BY <1>5, <1>6, <1>8, <1>9, <2>2, <2>3, <2>4 DEF Local, Position
<1> QED
  BY <1>11, <1>12 DEF AssignUser, Pass

LEMMA CheckGuardStep ==
  ASSUME TypeOK, NEW r \in Requests, Local(r), CheckGuard(r)
  PROVE  Aside(r) /\ Local(r)'
<1>1. /\ UNCHANGED <<token, sent, history>> /\ UNCHANGED <<socketUser, user, served, told>>
      /\ pc[r] = "guard" /\ left[r] # <<>> /\ ~Verifies(r)
  BY DEF CheckGuard, sockets
<1>2. Aside(r)
  BY <1>1 DEF CheckGuard, Aside, Answer, Pass, Running, TypeOK
<1>3. CASE Answer(r, "refused") /\ UNCHANGED left
  <2>1. answer'[r] = "refused"
    BY <1>3 DEF Answer, TypeOK
  <2> QED
    BY <1>1, <1>2, <1>3, <2>1, PositionDone, ResultsStay DEF Local
<1>4. CASE Pass(r)
  <2>1. left'[r] = Tail(left[r]) /\ pc'[r] = "guard" /\ answer'[r] = answer[r]
    BY <1>4 DEF Pass, TypeOK
  <2>2. Running(r) /\ Running(r)'
    BY <1>1, <2>1 DEF Running
  <2>3. kind[r] \in AllKinds /\ left[r] \in GuardsLeft(kind[r])
    BY DEF TypeOK, Local, Position, Ordered
  <2>4. /\ Tail(left[r]) \in GuardsLeft(kind[r])
        /\ left[r] = Guards(kind[r]) /\ kind[r] \in TokenKinds => Head(left[r]) \in {"auth", "refresh"}
        /\ kind[r] = "updateAccount" /\ Tail(left[r]) = <<>> => Head(left[r]) = "policies"
    BY <1>1, <2>3, NextGuard
  <2>5. kind[r] \in TokenKinds => left[r] # Guards(kind[r])
    BY <1>1, <2>4 DEF Verifies
  <2>6. Ordered(r)'
    BY <1>1, <2>1, <2>4, Frame DEF Ordered
  <2>7. HoldsFor(r)'
    <3>1. Relies(r)' => Relies(r)
      BY <1>1, <2>1, <2>5, Frame DEF Relies
    <3> QED
      BY <1>1, <2>2, <3>1, Frame DEF Local, Position, HoldsFor
  <2>8. OwnFor(r)' /\ OpenFor(r)'
    BY <1>1, <2>1, <2>2, <2>5, Frame DEF Local, Position, OwnFor, OpenFor
  <2>9. JudgedFor(r)'
    BY <1>1, <2>1, <2>4, Frame DEF JudgedFor, Verifies
  <2>10. Results(r)'
    BY <1>1, <2>1, ResultsStay
  <2> QED
    BY <1>2, <2>6, <2>7, <2>8, <2>9, <2>10 DEF Local, Position
<1> QED
  BY <1>3, <1>4 DEF CheckGuard

\* A handler that calls the service, with socket.user explained.
LEMMA ServicePosition ==
  ASSUME TypeOK, UNCHANGED <<token, sent, history>>, NEW r \in Requests, Local(r), UNCHANGED left,
         left[r] = <<>>, Running(r), pc'[r] = "service", socketUser'[sock[r]] \in Users \cup {None},
         socketUser'[sock[r]] = Credential(r) \/ Displaced(r, socketUser'[sock[r]]),
         kind[r] = "login" => socketUser'[sock[r]] # None
  PROVE  Position(r)'
<1>1. left'[r] = left[r] /\ Running(r)'
  BY DEF Running
<1>2. Ordered(r)'
  BY <1>1, Frame DEF Local, Position, Ordered
<1>3. HoldsFor(r)'
  <2> SUFFICES ASSUME NEW u \in Users \cup {None}, socketUser'[sock[r]] = u
               PROVE  u = Credential(r) \/ Displaced(r, u)'
    BY Frame DEF HoldsFor
  <2>1. u = Credential(r) \/ Displaced(r, u)
    OBVIOUS
  <2> QED
    BY <2>1, Frame
<1>4. OwnFor(r)' /\ JudgedFor(r)' /\ OpenFor(r)'
  BY <1>1, Frame DEF Local, Position, OwnFor, JudgedFor, OpenFor
<1> QED
  BY <1>2, <1>3, <1>4 DEF Position

LEMMA HandleForUserStep ==
  ASSUME TypeOK, NEW r \in Requests, Local(r), HandleForUser(r)
  PROVE  Aside(r) /\ Local(r)'
<1> DEFINE u == socketUser[sock[r]]
<1>1. /\ UNCHANGED <<token, sent, history>> /\ UNCHANGED <<socketUser, left, user, told>>
      /\ pc[r] = "guard" /\ left[r] = <<>> /\ kind[r] \in TokenKinds /\ Running(r)
  BY DEF HandleForUser, InHandler, sockets, TokenKinds, AuthKinds, RefreshKinds, Running
<1>2. Aside(r)
  BY <1>1 DEF HandleForUser, Aside, Answer, Call, TypeOK
<1>3. u \in Users \cup {None} /\ left[r] # Guards(kind[r])
  BY <1>1, TokenKindsGuarded DEF TypeOK
<1>4. u = Credential(r) \/ Displaced(r, u)
  BY <1>1, <1>3, WithToken DEF Local, Position
<1>5. Credential(r) \in Users /\ kind[r] # "login"
  BY <1>1, <1>3, TokenKindsCredentialed DEF Local, Position, OwnFor
<1>6. served'[r] = u /\ told'[r] = told[r]
  BY <1>1 DEF HandleForUser, Call, TypeOK
<1>7. ServedFor(r)' /\ ToldFor(r)'
  <2>1. ServedFor(r)'
    <3> SUFFICES ASSUME NEW v \in Users \cup {None}, served'[r] = v
                 PROVE  v = Credential(r) \/ Displaced(r, v)'
      BY <1>1, Frame DEF ServedFor
    <3>1. v = Credential(r) \/ Displaced(r, v)
      BY <1>4, <1>6
    <3> QED
      BY <1>1, <3>1, Frame
  <2>2. ToldFor(r)'
    BY <1>1, Frame DEF Local, Results, ToldFor
  <2> QED
    BY <2>1, <2>2
<1>8. UpdatedFor(r)'
  <2> SUFFICES ASSUME kind[r] = "updateAccount", "updateAccount" \in Judged, NEW v \in Users, served'[r] = v
               PROVE  v \in Trusted \/ Displaced(r, v)'
    BY <1>1, Frame DEF UpdatedFor
  <2>1. Credential(r) \in Trusted
    BY <1>1 DEF Local, Position, JudgedFor
  <2>2. v = Credential(r) \/ Displaced(r, v)
    BY <1>4, <1>6
  <2> QED
    BY <1>1, <2>1, <2>2, Frame
<1>9. OpenedFor(r)'
  BY <1>1, <1>5, Frame DEF OpenedFor
<1>10. CASE u = None
  <2>1. Answer(r, "empty")
    BY <1>10 DEF HandleForUser
  <2>2. Displaced(r, None)'
    BY <1>1, <1>4, <1>5, <1>10, Frame
  <2>3. Position(r)'
    BY <1>1, <2>1, PositionDone
  <2> QED
    BY <1>2, <1>7, <1>8, <1>9, <2>2, <2>3 DEF Local, Results, NobodyFor
<1>11. CASE u # None
  <2>1. pc'[r] = "service" /\ answer'[r] = answer[r]
    BY <1>11 DEF HandleForUser, Call, TypeOK
  <2>2. Position(r)'
    BY <1>1, <1>3, <1>4, <1>5, <2>1, ServicePosition
  <2>3. NobodyFor(r)'
    BY <1>1, <2>1, Frame DEF Local, Results, NobodyFor
  <2> QED
    BY <1>2, <1>7, <1>8, <1>9, <2>2, <2>3 DEF Local, Results
<1> QED
  BY <1>10, <1>11

LEMMA HandleForNobodyStep ==
  ASSUME TypeOK, NEW r \in Requests, Local(r), HandleForNobody(r)
  PROVE  Aside(r) /\ Local(r)'
<1> DEFINE u == socketUser[sock[r]]
<1>1. /\ UNCHANGED <<token, sent, history>> /\ UNCHANGED <<socketUser, left, user, served, told, answer>>
      /\ pc[r] = "guard" /\ left[r] = <<>> /\ Running(r) /\ pc'[r] = "service"
      /\ kind[r] \in ResetKinds \cup {"route", "publicRoute"}
  BY DEF HandleForNobody, InHandler, sockets, Running, TypeOK
<1>2. Aside(r)
  BY <1>1 DEF HandleForNobody, Aside, TypeOK
<1>3. u \in Users \cup {None} /\ kind[r] # "login"
  BY <1>1 DEF TypeOK, ResetKinds
<1>4. u = Credential(r) \/ Displaced(r, u)
  <2>1. CASE kind[r] = "route"
    <3>1. kind[r] \in TokenKinds /\ left[r] # Guards(kind[r])
      BY <1>1, <2>1, TokenKindsGuarded DEF TokenKinds, AuthKinds
    <3> QED
      BY <1>1, <1>3, <3>1, WithToken DEF Local, Position
  <2>2. CASE kind[r] # "route"
    <3>1. ~Credentialed(r)
      BY <1>1, <2>2 DEF Credentialed, AuthKinds, RefreshKinds, ResetKinds
    <3> QED
      BY <1>1, <1>3, <3>1, WithoutCredential DEF Local, Position
  <2> QED
    BY <2>1, <2>2
<1>5. Position(r)'
  BY <1>1, <1>3, <1>4, ServicePosition
<1>6. Results(r)'
  BY <1>1, ResultsStay
<1> QED
  BY <1>2, <1>5, <1>6 DEF Local

LEMMA HandleRegisterStep ==
  ASSUME TypeOK, NEW r \in Requests, Local(r), HandleRegister(r)
  PROVE  Aside(r) /\ Local(r)'
<1> DEFINE u == Verified(sock[r], "access")
<1>1. /\ UNCHANGED <<token, sent, history>> /\ UNCHANGED <<left, user, served, told>>
      /\ pc[r] = "guard" /\ left[r] = <<>> /\ Running(r) /\ kind[r] = "register"
  BY DEF HandleRegister, InHandler, Running
<1>2. u \in Users \cup {None}
  BY VerifiedTyped DEF TypeOK
<1>3. UNCHANGED socketUser \/ (MayPut(r, u) /\ Assign(r, u))
  <2>1. CASE RegisterPublic \/ token[sock[r]]["access"] = Absent
    BY <2>1 DEF HandleRegister
  <2>2. CASE ~(RegisterPublic \/ token[sock[r]]["access"] = Absent)
    <3>1. Assign(r, u) /\ Credentialed(r)
      BY <1>1, <2>2 DEF HandleRegister, Credentialed
    <3>2. u = None \/ u = Credential(r)
      BY <1>1, <3>1 DEF Verified, Credential, RefreshKinds
    <3> QED
      BY <1>1, <3>1, <3>2 DEF MayPut
  <2> QED
    BY <2>1, <2>2
<1>4. \A x \in Requests \ {r} : pc'[x] = pc[x] /\ answer'[x] = answer[x]
  BY DEF HandleRegister, Answer, TypeOK
<1>5. Aside(r)
  BY <1>1, <1>2, <1>3, <1>4 DEF Aside
<1>6. CASE RegisterPublic \/ u # None
  <2>1. pc'[r] = "service" /\ answer'[r] = answer[r]
    BY <1>6 DEF HandleRegister, TypeOK
  <2>2. /\ socketUser'[sock[r]] \in Users \cup {None}
        /\ socketUser'[sock[r]] = Credential(r) \/ Displaced(r, socketUser'[sock[r]])
    <3>1. CASE RegisterPublic
      <4>1. UNCHANGED socketUser /\ ~Credentialed(r)
        BY <1>1, <3>1 DEF HandleRegister, Credentialed, AuthKinds, RefreshKinds
      <4>2. socketUser[sock[r]] \in Users \cup {None}
        BY DEF TypeOK
      <4> QED
        BY <1>1, <4>1, <4>2, WithoutCredential DEF Local, Position
    <3>2. CASE ~RegisterPublic
      <4>1. u \in Users /\ token[sock[r]]["access"] = u /\ u # Absent
        BY <1>2, <1>6, <3>2 DEF Verified
      <4>2. Assign(r, u)
        BY <3>2, <4>1 DEF HandleRegister
      <4>3. socketUser'[sock[r]] = u
        BY <4>2 DEF Assign, TypeOK
      <4>4. u = Credential(r)
        BY <1>1, <3>2, <4>1 DEF Credential, Credentialed, RefreshKinds
      <4> QED
        BY <4>1, <4>3, <4>4
    <3> QED
      BY <3>1, <3>2
  <2>3. Position(r)'
    BY <1>1, <2>1, <2>2, ServicePosition
  <2>4. Results(r)'
    BY <1>1, <2>1, ResultsStay
  <2> QED
    BY <1>5, <2>3, <2>4 DEF Local
<1>7. CASE ~(RegisterPublic \/ u # None)
  <2>1. Answer(r, "refused")
    BY <1>7 DEF HandleRegister
  <2>2. answer'[r] = "refused"
    BY <2>1 DEF Answer, TypeOK
  <2> QED
    BY <1>1, <1>5, <2>1, <2>2, PositionDone, ResultsStay DEF Local
<1> QED
  BY <1>6, <1>7

LEMMA HandleLoginStep ==
  ASSUME TypeOK, NEW r \in Requests, Local(r), HandleLogin(r)
  PROVE  Aside(r) /\ Local(r)'
<1>1. /\ UNCHANGED <<token, sent, history>> /\ UNCHANGED <<socketUser, left, user, served, told, answer>>
      /\ kind[r] = "login" /\ given[r] # "missing" /\ pc'[r] = "validating" /\ Running(r) /\ Running(r)'
  BY DEF HandleLogin, InHandler, sockets, Running, TypeOK
<1>2. Aside(r)
  BY <1>1 DEF HandleLogin, Aside, TypeOK
<1>3. kind[r] \notin TokenKinds /\ kind[r] # "updateAccount"
  BY <1>1 DEF TokenKinds, AuthKinds, RefreshKinds
<1>4. Ordered(r)'
  BY <1>1, Frame DEF Local, Position, Ordered
<1>5. HoldsFor(r)'
  <2>1. ~Relies(r)'
    BY <1>1, <1>3, Frame DEF Relies
  <2> QED
    BY <1>1, <2>1, Frame DEF Local, Position, HoldsFor
<1>6. OwnFor(r)' /\ JudgedFor(r)' /\ OpenFor(r)'
  BY <1>1, <1>3, Frame DEF OwnFor, JudgedFor, OpenFor
<1>7. Results(r)'
  BY <1>1, ResultsStay
<1> QED
  BY <1>2, <1>4, <1>5, <1>6, <1>7 DEF Local, Position

\* Opening a session for a user that is on the socket and explained.
LEMMA OpenSessionStep ==
  ASSUME TypeOK, UNCHANGED <<token, sent, history>>, UNCHANGED <<left, user, told>>,
         NEW r \in Requests, NEW u \in Users \cup {None}, Local(r), Running(r),
         kind[r] = "login", OpenSession(r, u), socketUser'[sock[r]] = u, left[r] = <<>>,
         u = Credential(r) \/ Displaced(r, u),
         given[r] # "missing" => u \in {given[r], None}
  PROVE  Local(r)'
<1>1. CASE u = None \/ ~Allowed("login", u)
  <2>1. Answer(r, "refused") /\ UNCHANGED served
    BY <1>1 DEF OpenSession
  <2>2. answer'[r] = "refused"
    BY <2>1 DEF Answer, TypeOK
  <2> QED
    BY <2>1, <2>2, PositionDone, ResultsStay DEF Local
<1>2. CASE u # None /\ Allowed("login", u)
  <2>1. pc'[r] = "service" /\ served'[r] = u /\ answer'[r] = answer[r]
    BY <1>2 DEF OpenSession, Call, TypeOK
  <2>2. Position(r)'
    BY <1>2, <2>1, ServicePosition
  <2>3. ServedFor(r)'
    <3> SUFFICES u = Credential(r) \/ Displaced(r, u)'
      BY <2>1, Frame DEF ServedFor
    <3> QED
      BY Frame
  <2>4. ToldFor(r)' /\ NobodyFor(r)' /\ UpdatedFor(r)'
    BY <2>1, Frame DEF Local, Results, ToldFor, NobodyFor, UpdatedFor
  <2>5. OpenedFor(r)'
    BY <1>2, <2>1, Frame DEF OpenedFor, Allowed
  <2> QED
    BY <2>2, <2>3, <2>4, <2>5 DEF Local, Results
<1> QED
  BY <1>1, <1>2

LEMMA OpenSessionAside ==
  ASSUME TypeOK, NEW r \in Requests, NEW u, OpenSession(r, u)
  PROVE  \A x \in Requests \ {r} : pc'[x] = pc[x] /\ served'[x] = served[x] /\ answer'[x] = answer[x]
BY DEF OpenSession, Answer, Call, TypeOK

LEMMA HandleBareLoginStep ==
  ASSUME TypeOK, NEW r \in Requests, Local(r), HandleBareLogin(r)
  PROVE  Aside(r) /\ Local(r)'
<1> DEFINE u == socketUser[sock[r]]
<1>1. /\ UNCHANGED <<token, sent, history>> /\ UNCHANGED <<socketUser, left, user, told>>
      /\ kind[r] = "login" /\ given[r] = "missing" /\ left[r] = <<>> /\ Running(r) /\ OpenSession(r, u)
  BY DEF HandleBareLogin, InHandler, sockets, Running
<1>2. Aside(r)
  BY <1>1, OpenSessionAside DEF Aside
<1>3. u \in Users \cup {None} /\ ~Credentialed(r)
  BY <1>1 DEF TypeOK, Credentialed, AuthKinds, RefreshKinds
<1>4. u = Credential(r) \/ Displaced(r, u)
  BY <1>1, <1>3, WithoutCredential DEF Local, Position
<1>5. socketUser'[sock[r]] = u
  BY <1>1
<1> HIDE DEF u
<1> QED
  BY <1>1, <1>2, <1>3, <1>4, <1>5, OpenSessionStep

LEMMA ValidateLoginStep ==
  ASSUME TypeOK, NEW r \in Requests, Local(r), ValidateLogin(r)
  PROVE  Aside(r) /\ Local(r)'
<1> DEFINE u == ValidateUser(given[r])
<1>1. /\ UNCHANGED <<token, sent, history>> /\ UNCHANGED <<left, user, told>>
      /\ pc[r] = "validating" /\ Running(r) /\ Assign(r, u) /\ OpenSession(r, u)
  BY DEF ValidateLogin, Running
<1>2. kind[r] = "login" /\ given[r] # "missing"
  BY <1>1 DEF Local, Position, Ordered
<1>3. u \in Users \cup {None} /\ u \in {given[r], None}
  BY DEF ValidateUser
<1>4. u = Credential(r) /\ MayPut(r, u)
  BY <1>2 DEF Credential, Credentialed, MayPut
<1>5. left[r] = <<>>
  <2>1. left[r] \in GuardsLeft("login")
    BY <1>2 DEF Local, Position, Ordered
  <2> QED
    BY <2>1 DEF GuardsLeft, Guards, Rest, RefreshKinds, ResetKinds
<1>6. socketUser'[sock[r]] = u
  BY <1>1 DEF Assign, TypeOK
<1> HIDE DEF u
<1>7. Aside(r)
  BY <1>1, <1>3, <1>4, OpenSessionAside DEF Aside
<1> QED
  BY <1>1, <1>2, <1>3, <1>4, <1>5, <1>6, <1>7, OpenSessionStep

LEMMA FinishStep ==
  ASSUME TypeOK, NEW r \in Requests, Local(r), Finish(r)
  PROVE  Aside(r) /\ Local(r)'
<1> DEFINE u == socketUser[sock[r]]
<1>1. /\ UNCHANGED <<token, sent, history>> /\ UNCHANGED <<socketUser, left, user, served>>
      /\ pc[r] = "service" /\ Running(r) /\ left[r] = <<>>
  BY DEF Finish, sockets, Running, Local, Position, Ordered
<1>2. Aside(r)
  BY <1>1 DEF Finish, Aside, Answer, TypeOK
<1>3. u \in Users \cup {None}
  BY DEF TypeOK
<1>4. u = Credential(r) \/ Displaced(r, u)
  <2>1. Relies(r)
    BY <1>1, TokenKindsGuarded DEF Relies
  <2> QED
    BY <1>1, <1>3, <2>1 DEF Local, Position, HoldsFor
<1>5. PICK a : Answer(r, a) /\ (a = "lost" => kind[r] = "login" /\ u = None) /\ a # "empty"
  BY DEF Finish
<1>6. Position(r)'
  BY <1>1, <1>5, PositionDone
<1>7. ServedFor(r)' /\ UpdatedFor(r)' /\ OpenedFor(r)'
  BY <1>1, Frame DEF Local, Results, ServedFor, UpdatedFor, OpenedFor
<1>8. ToldFor(r)'
  <2> SUFFICES ASSUME NEW v \in Users \cup {None}, told'[r] = v
               PROVE  v = Credential(r) \/ Displaced(r, v)'
    BY <1>1, Frame DEF ToldFor
  <2>1. told'[r] \in {u, Unread}
    BY DEF Finish, TypeOK
  <2>2. v = u
    BY <2>1
  <2>3. v = Credential(r) \/ Displaced(r, v)
    BY <1>4, <2>2
  <2> QED
    BY <1>1, <2>3, Frame
<1>9. NobodyFor(r)'
  <2>1. answer'[r] = a
    BY <1>5 DEF Answer, TypeOK
  <2>2. a = "lost" => Displaced(r, None)
    BY <1>1, <1>5 DEF Local, Position, OpenFor
  <2> QED
    BY <1>1, <1>5, <2>1, <2>2, Frame DEF NobodyFor
<1> QED
  BY <1>2, <1>6, <1>7, <1>8, <1>9 DEF Local, Results

LEMMA FailStep ==
  ASSUME TypeOK, NEW r \in Requests, Local(r), Fail(r)
  PROVE  Aside(r) /\ Local(r)'
<1>1. /\ UNCHANGED <<token, sent, history>> /\ UNCHANGED <<socketUser, left, user, served, told>>
      /\ Running(r) /\ Answer(r, "error")
  BY DEF Fail, sockets, Running
<1>2. Aside(r)
  BY <1>1 DEF Aside, Answer, TypeOK
<1>3. answer'[r] = "error"
  BY <1>1 DEF Answer, TypeOK
<1> QED
  BY <1>1, <1>2, <1>3, PositionDone, ResultsStay DEF Local

-----------------------------------------------------------------------------
(* Arrivals and expirations. *)

LEMMA SendStep == ASSUME Inv, NEW r \in Requests, Send(r) PROVE Inv'
<1> DEFINE others == {q \in Requests : Running(q) /\ sock[q] = sock[r]}
<1>1. TypeOK /\ TypeOK'
  BY SendTyped DEF Inv
<1>2. /\ UNCHANGED <<token, sent, kind, sock, given, socketUser, left, user, served, told, answer>>
      /\ pc[r] = "idle" /\ pc'[r] = "guard" /\ before'[r] = socketUser[sock[r]]
      /\ \A x \in Requests \ {r} : pc'[x] = pc[x] /\ before'[x] = before[x]
  BY <1>1 DEF Send, sockets, sent, TypeOK
<1>3. /\ company'[r] = others
      /\ \A x \in Requests \ {r} : company'[x] = IF x \in others THEN company[x] \cup {r} ELSE company[x]
  BY <1>1 DEF Send, TypeOK
<1>4. ASSUME NEW x \in Requests, NEW q \in Requests PROVE Together(x, q)'
  <2> SUFFICES ASSUME Running(x)', Running(q)', x # q, sock[x] = sock[q]
               PROVE  q \in company'[x]
    BY <1>2 DEF Together
  <2>1. CASE x = r
    <3>1. Running(q)
      BY <1>2, <2>1 DEF Running
    <3> QED
      BY <1>3, <2>1, <3>1
  <2>2. CASE q = r
    <3>1. Running(x)
      BY <1>2, <2>2 DEF Running
    <3> QED
      BY <1>3, <2>2, <3>1
  <2>3. CASE x # r /\ q # r
    <3>1. Running(x) /\ Running(q)
      BY <1>2, <2>3 DEF Running
    <3>2. q \in company[x]
      BY <3>1 DEF Inv, Together
    <3> QED
      BY <1>3, <2>3, <3>2
  <2> QED
    BY <2>1, <2>2, <2>3
<1>5. ASSUME NEW x \in Requests, x # r PROVE Local(x)'
  <2>1. Local(x)
    BY DEF Inv
  <2>2. /\ pc'[x] = pc[x] /\ before'[x] = before[x] /\ company[x] \subseteq company'[x]
        /\ (Running(x)' <=> Running(x))
    BY <1>2, <1>3, <1>5 DEF Running
  <2>3. ASSUME NEW u, Displaced(x, u) PROVE Displaced(x, u)'
    BY <1>1, <1>2, <2>2, <2>3, DisplacedGrows
  <2>4. Credential(x)' = Credential(x) /\ (Credentialed(x)' <=> Credentialed(x))
    BY <1>2, <2>2, CredentialStays DEF Credential
  <2>5. \A u : MayPut(x, u)' <=> MayPut(x, u)
    BY <1>2, MayPutStays
  <2>6. Ordered(x)' /\ (Relies(x)' <=> Relies(x))
    BY <1>2, <2>1, <2>2, <2>4 DEF Local, Position, Ordered, Verifies, Relies
  <2>7. HoldsFor(x)'
    BY <1>2, <2>1, <2>2, <2>3, <2>4, <2>5, <2>6 DEF Local, Position, HoldsFor
  <2>8. OwnFor(x)' /\ JudgedFor(x)' /\ OpenFor(x)'
    BY <1>2, <2>1, <2>2, <2>3, <2>4 DEF Local, Position, OwnFor, JudgedFor, OpenFor
  <2>9. ServedFor(x)' /\ ToldFor(x)' /\ UpdatedFor(x)' /\ OpenedFor(x)' /\ NobodyFor(x)'
    BY <1>2, <2>1, <2>3, <2>4 DEF Local, Results, ServedFor, ToldFor, UpdatedFor, OpenedFor, NobodyFor
  <2> QED
    BY <2>6, <2>7, <2>8, <2>9 DEF Local, Position, Results
<1>6. Local(r)'
  <2>1. /\ left[r] = Guards(kind[r]) /\ served[r] = Unread /\ told[r] = Unread /\ answer[r] = "none"
        /\ left[r] \in GuardsLeft(kind[r])
    BY <1>2 DEF Inv, Local, Position, Ordered
  <2>2. Ordered(r)'
    BY <1>2, <2>1 DEF Ordered
  <2>3. HoldsFor(r)'
    BY <1>2, <2>1 DEF HoldsFor, Relies
  <2>4. OwnFor(r)' /\ OpenFor(r)'
    BY <1>2, <2>1 DEF OwnFor, OpenFor
  <2>5. JudgedFor(r)'
    BY <1>2, <2>1, TokenKindsGuarded DEF JudgedFor, TokenKinds, AuthKinds
  <2>6. None # Unread /\ Unread \notin Users
    OBVIOUS
  <2>7. ServedFor(r)' /\ ToldFor(r)' /\ UpdatedFor(r)' /\ OpenedFor(r)' /\ NobodyFor(r)'
    BY <1>2, <2>1, <2>6 DEF ServedFor, ToldFor, UpdatedFor, OpenedFor, NobodyFor
  <2> QED
    BY <2>2, <2>3, <2>4, <2>5, <2>7 DEF Local, Position, Results
<1> QED
  BY <1>1, <1>4, <1>5, <1>6 DEF Inv

\* Steps that change neither control nor socket.user nor company keep the invariant.
LEMMA QuietStep ==
  ASSUME Inv, TypeOK',
         UNCHANGED <<token, socketUser, sent, pc, left, user, served, told, answer, history>>
  PROVE  Inv'
<1>1. ASSUME NEW x \in Requests, NEW q \in Requests PROVE Together(x, q)'
  BY DEF Inv, Together, Running, sent, history
<1>2. ASSUME NEW x \in Requests PROVE Local(x)'
  <2>1. TypeOK /\ Local(x)
    BY DEF Inv
  <2>2. Ordered(x)' /\ HoldsFor(x)'
    <3>1. Ordered(x)'
      BY <2>1, Frame DEF Local, Position, Ordered, Verifies
    <3>2. Relies(x)' <=> Relies(x)
      BY Frame, <2>1 DEF Relies
    <3>3. Running(x)' <=> Running(x)
      BY DEF Running
    <3>4. HoldsFor(x)'
      BY <2>1, <3>2, <3>3, Frame DEF Local, Position, HoldsFor
    <3> QED
      BY <3>1, <3>4
  <2>3. OwnFor(x)' /\ JudgedFor(x)' /\ OpenFor(x)'
    BY <2>1, Frame DEF Local, Position, OwnFor, JudgedFor, OpenFor, Running
  <2>4. Results(x)'
    BY <2>1, ResultsStay
  <2> QED
    BY <2>2, <2>3, <2>4 DEF Local, Position
<1> QED
  BY <1>1, <1>2 DEF Inv

LEMMA ServeTyped == ASSUME Inv, NEW r \in Requests, Serve(r) PROVE TypeOK'
<1>1. TypeOK /\ (pc[r] = "verifying" => left[r] # <<>>)
  BY DEF Inv, Local, Position, Ordered
<1> QED
  BY <1>1, VerifyTokenTyped, AssignUserTyped, CheckGuardTyped, HandleForUserTyped, HandleForNobodyTyped,
     HandleRegisterTyped, LoginTyped, FinishTyped DEF Serve, AssignUser

LEMMA ServeStep == ASSUME Inv, NEW r \in Requests, Serve(r) PROVE Inv'
<1>1. TypeOK /\ Local(r) /\ TypeOK'
  BY ServeTyped DEF Inv
<1>2. Aside(r) /\ Local(r)'
  BY <1>1, VerifyTokenStep, AssignUserStep, CheckGuardStep, HandleForUserStep, HandleForNobodyStep,
     HandleRegisterStep, HandleLoginStep, HandleBareLoginStep, ValidateLoginStep, FinishStep, FailStep
     DEF Serve
<1>3. ASSUME NEW x \in Requests PROVE Local(x)'
  <2>1. CASE x # r
    BY <1>1, <1>2, <2>1, Bystander DEF Inv
  <2> QED
    BY <1>2, <2>1
<1>4. ASSUME NEW x \in Requests, NEW q \in Requests PROVE Together(x, q)'
  <2>1. \A y \in Requests : Running(y)' => Running(y)
    BY <1>2 DEF Aside, Running
  <2>2. UNCHANGED <<sock, company>>
    BY <1>2 DEF Aside, sent, history
  <2> QED
    BY <2>1, <2>2 DEF Inv, Together
<1> QED
  BY <1>1, <1>3, <1>4 DEF Inv

LEMMA InvInit == Init => Inv
<1> SUFFICES ASSUME Init PROVE Inv
  OBVIOUS
<1>1. ASSUME NEW r \in Requests PROVE Local(r)
  <2>1. /\ pc[r] = "idle" /\ left[r] = Guards(kind[r]) /\ served[r] = Unread /\ told[r] = Unread
        /\ answer[r] = "none" /\ ~Running(r)
    BY DEF Init, Running
  <2>2. Ordered(r)
    BY <2>1 DEF Ordered, GuardsLeft
  <2>3. HoldsFor(r) /\ OwnFor(r) /\ JudgedFor(r) /\ OpenFor(r)
    BY <2>1 DEF HoldsFor, OwnFor, JudgedFor, OpenFor
  <2>4. None # Unread /\ Unread \notin Users
    OBVIOUS
  <2>5. Results(r)
    BY <2>1, <2>4 DEF Results, ServedFor, ToldFor, UpdatedFor, OpenedFor, NobodyFor
  <2> QED
    BY <2>2, <2>3, <2>5 DEF Local, Position
<1>2. \A r, q \in Requests : Together(r, q)
  BY DEF Init, Together, Running
<1> QED
  BY <1>1, <1>2, TypeInit DEF Inv

LEMMA InvNext == Inv /\ [Next]_vars => Inv'
<1> SUFFICES ASSUME Inv, [Next]_vars PROVE Inv'
  OBVIOUS
<1>1. ASSUME NEW r \in Requests, Send(r) PROVE Inv'
  BY <1>1, SendStep
<1>2. ASSUME NEW r \in Requests, Serve(r) PROVE Inv'
  BY <1>2, ServeStep
<1>3. ASSUME NEW s \in Sockets, NEW t \in {"access", "refresh"}, Expire(s, t) PROVE Inv'
  <2>1. TypeOK'
    BY <1>3, ExpireTyped DEF Inv
  <2> QED
    BY <1>3, <2>1, QuietStep DEF Expire
<1>4. CASE UNCHANGED vars
  <2>1. TypeOK'
    BY <1>4 DEF Inv, TypeOK, vars, sockets, sent, history
  <2> QED
    BY <1>4, <2>1, QuietStep DEF vars, sockets
<1> QED
  BY <1>1, <1>2, <1>3, <1>4 DEF Next, Finished

LEMMA Invariant == Spec => []Inv
  BY InvInit, InvNext, PTL DEF Spec

-----------------------------------------------------------------------------
(* The theorems.                                                            *)

\* Every variable keeps its type, for any events, sockets, users and handshakes.
THEOREM TypeCorrect == Spec => []TypeOK
<1>1. Inv => TypeOK
  BY DEF Inv
<1> QED
  BY Invariant, <1>1, PTL

\* An event is served for the user of its own token or password, or for whoever an event served
\* together with it has put on the socket (auth-gateway.mixin.ts:140, 162, 269, 278).
THEOREM ServedExplainedHolds == Spec => []ServedExplained
<1>1. ASSUME Inv PROVE ServedExplained
  <2> SUFFICES ASSUME NEW r \in Requests, served[r] # Unread PROVE Explained(r, served[r])
    BY DEF ServedExplained
  <2>1. served[r] \in Users \cup {None} /\ ServedFor(r)
    BY <1>1 DEF Inv, TypeOK, Local, Results
  <2> QED
    BY <2>1 DEF ServedFor, Explained, Displaced
<1> QED
  BY Invariant, <1>1, PTL

\* So are the broadcasts that tell of it (auth-gateway.mixin.ts:198, base.gateway.ts:78).
THEOREM ToldExplainedHolds == Spec => []ToldExplained
<1>1. ASSUME Inv PROVE ToldExplained
  <2> SUFFICES ASSUME NEW r \in Requests, told[r] # Unread PROVE Explained(r, told[r])
    BY DEF ToldExplained
  <2>1. told[r] \in Users \cup {None} /\ ToldFor(r)
    BY <1>1 DEF Inv, TypeOK, Local, Results
  <2> QED
    BY <2>1 DEF ToldFor, Explained, Displaced
<1> QED
  BY Invariant, <1>1, PTL

\* A login with a password opens a session for the account of that password, and only for a user
\* its predicate allows, however many events share the socket.
THEOREM SessionIsOwnHolds == Spec => []SessionIsOwn
<1>1. ASSUME Inv PROVE SessionIsOwn
  BY <1>1 DEF Inv, Local, Results, OpenedFor, SessionIsOwn
<1> QED
  BY Invariant, <1>1, PTL

\* The account that is updated is one the predicate has allowed, unless an event served at the
\* same time has put another on the socket.
THEOREM UpdateJudgedHolds == Spec => []UpdateJudged
<1>1. ASSUME Inv PROVE UpdateJudged
  BY <1>1 DEF Inv, Local, Results, UpdatedFor, UpdateJudged, Displaced
<1> QED
  BY Invariant, <1>1, PTL

\* Only a login with a wrong password or a registration without a valid token, served at the same
\* time, lets an event that has passed its guard find nobody on the socket.
THEOREM NobodyExplainedHolds == Spec => []NobodyExplained
<1>1. ASSUME Inv PROVE NobodyExplained
  BY <1>1 DEF Inv, Local, Results, NobodyFor, NobodyExplained, Displaced
<1> QED
  BY Invariant, <1>1, PTL

=============================================================================
