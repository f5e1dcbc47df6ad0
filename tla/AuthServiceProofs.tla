--------------------------- MODULE AuthServiceProofs ---------------------------
(***************************************************************************)
(* Proofs about AuthService, for every number of requests and logins, every *)
(* choice of callbacks, predicates and options, and every fault.           *)
(***************************************************************************)
EXTENDS AuthService, SequenceTheorems, TLAPS

-----------------------------------------------------------------------------
(* The awaits an operation has left.                                       *)

Has(q, s) == \E i \in 1 .. Len(q) : q[i] = s

\* A refresh token is stored by the last await only.
IssueLast(q) == \A i \in 1 .. Len(q) : q[i] = "issue" => i = Len(q)

LEMMA Singleton ==
  ASSUME NEW a \in Steps
  PROVE  /\ <<a>> \in Seq(Steps) /\ Len(<<a>>) = 1 /\ <<a>>[1] = a
         /\ Head(<<a>>) = a /\ Tail(<<a>>) = <<>> /\ <<a>> # <<>>
OBVIOUS

LEMMA Pair ==
  ASSUME NEW a \in Steps, NEW b \in Steps
  PROVE  /\ <<a, b>> \in Seq(Steps) /\ Len(<<a, b>>) = 2 /\ <<a, b>>[1] = a /\ <<a, b>>[2] = b
         /\ Head(<<a, b>>) = a /\ Tail(<<a, b>>) = <<b>> /\ <<a, b>> # <<>>
OBVIOUS

LEMMA Nothing == <<>> \in Seq(Steps) /\ Len(<<>>) = 0
OBVIOUS

LEMMA Joined ==
  ASSUME NEW p \in Seq(Steps), NEW q \in Seq(Steps)
  PROVE  /\ p \o q \in Seq(Steps)
         /\ Len(p \o q) = Len(p) + Len(q)
         /\ \A s : Has(p \o q, s) <=> Has(p, s) \/ Has(q, s)
         /\ ~Has(p, "issue") /\ IssueLast(q) => IssueLast(p \o q)
<1>1. /\ p \o q \in Seq(Steps) /\ Len(p \o q) = Len(p) + Len(q)
      /\ \A i \in 1 .. Len(p) + Len(q) :
           (p \o q)[i] = IF i <= Len(p) THEN p[i] ELSE q[i - Len(p)]
  BY ConcatProperties
<1>2. Len(p) \in Nat /\ Len(q) \in Nat
  OBVIOUS
<1>3. ASSUME NEW s PROVE Has(p \o q, s) <=> Has(p, s) \/ Has(q, s)
  <2>1. ASSUME NEW i \in 1 .. Len(p \o q), (p \o q)[i] = s PROVE Has(p, s) \/ Has(q, s)
    <3>1. CASE i <= Len(p)
      BY <1>1, <1>2, <2>1, <3>1 DEF Has
    <3>2. CASE ~(i <= Len(p))
      <4>1. i - Len(p) \in 1 .. Len(q) /\ q[i - Len(p)] = s
        BY <1>1, <1>2, <2>1, <3>2
      <4> QED
        BY <4>1 DEF Has
    <3> QED
      BY <3>1, <3>2
  <2>2. ASSUME NEW i \in 1 .. Len(p), p[i] = s PROVE Has(p \o q, s)
    BY <1>1, <1>2, <2>2 DEF Has
  <2>3. ASSUME NEW i \in 1 .. Len(q), q[i] = s PROVE Has(p \o q, s)
    <3>1. i + Len(p) \in 1 .. Len(p \o q) /\ (p \o q)[i + Len(p)] = s
      BY <1>1, <1>2, <2>3
    <3> QED
      BY <3>1 DEF Has
  <2> QED
    BY <2>1, <2>2, <2>3 DEF Has
<1>4. ASSUME ~Has(p, "issue"), IssueLast(q) PROVE IssueLast(p \o q)
  <2> SUFFICES ASSUME NEW i \in 1 .. Len(p \o q), (p \o q)[i] = "issue" PROVE i = Len(p \o q)
    BY DEF IssueLast
  <2>1. CASE i <= Len(p)
    BY <1>1, <1>2, <1>4, <2>1 DEF Has
  <2>2. CASE ~(i <= Len(p))
    BY <1>1, <1>2, <1>4, <2>2 DEF IssueLast
  <2> QED
    BY <2>1, <2>2
<1> QED
  BY <1>1, <1>3, <1>4

\* What is left after an await that is not the last.
LEMMA Left ==
  ASSUME NEW q \in Seq(Steps), q # <<>>
  PROVE  /\ Head(q) \in Steps /\ Tail(q) \in Seq(Steps)
         /\ Len(q) \in Nat \ {0}
         /\ Len(q) # 1 => Tail(q) # <<>>
         /\ IssueLast(q) => IssueLast(Tail(q))
         /\ IssueLast(q) /\ Head(q) = "issue" => Len(q) = 1
         /\ \A s : Has(q, s) <=> Head(q) = s \/ Has(Tail(q), s)
<1>1. /\ Head(q) \in Steps /\ Tail(q) \in Seq(Steps) /\ Len(Tail(q)) = Len(q) - 1
      /\ \A i \in 1 .. Len(Tail(q)) : Tail(q)[i] = q[i + 1]
  BY HeadTailProperties
<1>2. Len(q) \in Nat /\ Len(q) # 0 /\ Head(q) = q[1]
  OBVIOUS
<1>3. Len(q) # 1 => Tail(q) # <<>>
  <2>1. Len(q) # 1 => Len(Tail(q)) # 0
    BY <1>1, <1>2
  <2> QED
    BY <2>1, Nothing
<1>4. IssueLast(q) => IssueLast(Tail(q))
  <2> SUFFICES ASSUME IssueLast(q), NEW i \in 1 .. Len(Tail(q)), Tail(q)[i] = "issue"
               PROVE  i = Len(Tail(q))
    BY DEF IssueLast
  <2>1. i + 1 \in 1 .. Len(q) /\ q[i + 1] = "issue"
    BY <1>1, <1>2
  <2>2. i + 1 = Len(q)
    BY <2>1 DEF IssueLast
  <2>3. i \in Int /\ Len(Tail(q)) \in Nat
    BY <1>1
  <2>4. Len(Tail(q)) = Len(q) - 1
    BY <1>1
  <2> QED
    BY <1>2, <2>2, <2>3, <2>4
<1>5. IssueLast(q) /\ Head(q) = "issue" => Len(q) = 1
  <2>1. 1 \in 1 .. Len(q)
    BY <1>2
  <2> QED
    BY <1>2, <2>1 DEF IssueLast
<1>6. ASSUME NEW s PROVE Has(q, s) <=> Head(q) = s \/ Has(Tail(q), s)
  <2>1. ASSUME NEW i \in 1 .. Len(q), q[i] = s, i # 1 PROVE Has(Tail(q), s)
    <3>1. i - 1 \in 1 .. Len(Tail(q)) /\ Tail(q)[i - 1] = s
      BY <1>1, <1>2, <2>1
    <3> QED
      BY <3>1 DEF Has
  <2>2. ASSUME NEW i \in 1 .. Len(Tail(q)), Tail(q)[i] = s PROVE Has(q, s)
    <3>1. i + 1 \in 1 .. Len(q) /\ q[i + 1] = s
      BY <1>1, <1>2, <2>2
    <3> QED
      BY <3>1 DEF Has
  <2>3. Head(q) = s => Has(q, s)
    BY <1>1, <1>2 DEF Has
  <2> QED
    BY <1>1, <2>1, <2>2, <2>3 DEF Has
<1> QED
  BY <1>1, <1>2, <1>3, <1>4, <1>5, <1>6

LEMMA Regrouped ==
  ASSUME NEW p \in Seq(Steps), NEW q \in Seq(Steps), NEW w \in Seq(Steps)
  PROVE  (p \o q) \o w = p \o (q \o w)
BY ConcatAssociative

LEMMA Prefixed ==
  ASSUME NEW a \in Steps, NEW q \in Seq(Steps)
  PROVE  /\ <<a>> \o q \in Seq(Steps) /\ <<a>> \o q # <<>>
         /\ Head(<<a>> \o q) = a /\ Tail(<<a>> \o q) = q
         /\ Len(<<a>> \o q) = 1 + Len(q)
<1> DEFINE w == <<a>> \o q
<1>1. /\ w \in Seq(Steps) /\ Len(w) = 1 + Len(q)
      /\ \A i \in 1 .. 1 + Len(q) : w[i] = IF i <= 1 THEN a ELSE q[i - 1]
  BY Singleton, ConcatProperties
<1>2. Len(q) \in Nat
  OBVIOUS
<1>3. w # <<>>
  BY <1>1, <1>2, Nothing
<1>4. Head(w) = a
  BY <1>1, <1>2, <1>3
<1>5. /\ Tail(w) \in Seq(Steps) /\ Len(Tail(w)) = Len(w) - 1
      /\ \A i \in 1 .. Len(Tail(w)) : Tail(w)[i] = w[i + 1]
  BY <1>1, <1>3, HeadTailProperties
<1>6. Len(Tail(w)) = Len(q)
  BY <1>1, <1>2, <1>5
<1>7. ASSUME NEW i \in 1 .. Len(q) PROVE Tail(w)[i] = q[i]
  <2>1. Tail(w)[i] = w[i + 1] /\ i + 1 \in 1 .. 1 + Len(q) /\ ~(i + 1 <= 1) /\ (i + 1) - 1 = i
    BY <1>2, <1>5, <1>6
  <2> QED
    BY <1>1, <2>1
<1>8. Tail(w) = q
  BY <1>5, <1>6, <1>7, SeqEqual
<1> QED
  BY <1>1, <1>3, <1>4, <1>8

-----------------------------------------------------------------------------
(* The awaits each operation starts with.                                  *)

\* Finds and callbacks: steps that write nothing.
Soft(q) == q \in Seq(Steps) /\ \A s : Has(q, s) => s \in {"load", "hook"}

LEMMA SoftJoin ==
  ASSUME NEW p, NEW q, Soft(p), Soft(q)
  PROVE  Soft(p \o q)
BY Joined DEF Soft

LEMMA SoftSteps == Soft(<<>>) /\ Soft(<<"load">>) /\ Soft(<<"hook">>) /\ Soft(<<"load", "hook">>)
<1>1. "load" \in Steps /\ "hook" \in Steps
  BY DEF Steps
<1>2. Soft(<<>>)
  BY Nothing DEF Soft, Has
<1>3. \A a \in {"load", "hook"} : Soft(<<a>>)
  BY <1>1, Singleton DEF Soft, Has
<1>4. Soft(<<"load", "hook">>)
  <2>1. \A i \in 1 .. 2 : i = 1 \/ i = 2
    OBVIOUS
  <2> QED
    BY <1>1, <2>1, Pair DEF Soft, Has
<1> QED
  BY <1>2, <1>3, <1>4

LEMMA SoftParts ==
  /\ \A h : Soft(Hooked(h))
  /\ \A c : Soft(When(c, <<"hook">>))
  /\ Soft(Account)
BY SoftSteps, SoftJoin DEF Hooked, When, Account

Last == When(TokenField, <<"issue">>)

LEMMA LastTyped == Last \in Seq(Steps) /\ IssueLast(Last) /\ \A s : Has(Last, s) => s = "issue"
<1>1. "issue" \in Steps
  BY DEF Steps
<1>2. <<"issue">> \in Seq(Steps) /\ IssueLast(<<"issue">>) /\ \A s : Has(<<"issue">>, s) => s = "issue"
  BY <1>1, Singleton DEF IssueLast, Has
<1>3. <<>> \in Seq(Steps) /\ IssueLast(<<>>) /\ \A s : ~Has(<<>>, s)
  BY Nothing DEF IssueLast, Has
<1> QED
  BY <1>2, <1>3 DEF Last, When

\* One await before the others, none of which is a write it must precede.
LEMMA Single ==
  ASSUME NEW a \in Steps
  PROVE  /\ <<a>> \in Seq(Steps)
         /\ \A s : Has(<<a>>, s) <=> s = a
         /\ IssueLast(<<a>>)
BY Singleton DEF Has, IssueLast

LEMMA SoftIssueLast ==
  ASSUME NEW q, Soft(q)
  PROVE  q \in Seq(Steps) /\ ~Has(q, "issue") /\ IssueLast(q)
BY DEF Soft, Has, IssueLast

LEMMA LoginPlan ==
  /\ Plan("login") \in Seq(Steps) /\ IssueLast(Plan("login"))
  /\ Plan("login") # <<>> /\ Head(Plan("login")) = "validate"
<1> DEFINE H == Hooked("login")
<1>1. Plan("login") = (<<"validate">> \o H) \o Last
  BY DEF Plan, Last
<1>2. "validate" \in Steps
  BY DEF Steps
<1>3. H \in Seq(Steps) /\ ~Has(H, "issue")
  BY SoftParts, SoftIssueLast
<1>4. <<"validate">> \o H \in Seq(Steps) /\ ~Has(<<"validate">> \o H, "issue")
  BY <1>2, <1>3, Single, Joined
<1>5. Plan("login") \in Seq(Steps) /\ IssueLast(Plan("login"))
  BY <1>1, <1>4, Joined, LastTyped
<1>6. Plan("login") = <<"validate">> \o (H \o Last)
  <2>1. <<"validate">> \in Seq(Steps) /\ H \in Seq(Steps) /\ Last \in Seq(Steps)
    BY <1>2, <1>3, LastTyped, Single
  <2> QED
    BY <1>1, <2>1, Regrouped
<1>7. H \o Last \in Seq(Steps)
  BY <1>3, LastTyped, Joined
<1> QED
  BY <1>2, <1>5, <1>6, <1>7, Prefixed

\* A registration: perhaps a callback, the creation, and no creation after it.
Registered == Hooked("register") \o (<<"load">> \o Last)
Creating == <<"create">> \o Registered

LEMMA RegisterParts ==
  /\ Registered \in Seq(Steps) /\ IssueLast(Registered)
  /\ \A s : Has(Registered, s) => s \in {"load", "hook", "issue"}
  /\ Has(Registered, "hook") => "register" \in Hooks
  /\ Creating \in Seq(Steps) /\ IssueLast(Creating) /\ Creating # <<>>
  /\ Head(Creating) = "create" /\ Tail(Creating) = Registered
<1> DEFINE H == Hooked("register")
<1>1. "load" \in Steps /\ "create" \in Steps
  BY DEF Steps
<1>2. Soft(H)
  BY SoftParts
<1>3. /\ H \in Seq(Steps) /\ ~Has(H, "issue")
      /\ \A s : Has(H, s) => s \in {"load", "hook"}
  BY <1>2, SoftIssueLast DEF Soft
<1>4. Has(H, "hook") => "register" \in Hooks
  <2>1. ~Has(<<>>, "hook")
    BY Nothing DEF Has
  <2> QED
    BY <2>1 DEF Hooked, When
<1>5. /\ <<"load">> \o Last \in Seq(Steps) /\ IssueLast(<<"load">> \o Last)
      /\ \A s : Has(<<"load">> \o Last, s) => s \in {"load", "issue"}
  BY <1>1, Single, Joined, LastTyped
<1>6. Registered \in Seq(Steps) /\ IssueLast(Registered)
      /\ \A s : Has(Registered, s) <=> Has(H, s) \/ Has(<<"load">> \o Last, s)
  BY <1>3, <1>5, Joined DEF Registered
<1>7. Creating \in Seq(Steps) /\ IssueLast(Creating)
  BY <1>1, <1>6, Single, Joined DEF Creating
<1>8. ~Has(<<"load">> \o Last, "hook")
  BY <1>5
<1> QED
  BY <1>1, <1>3, <1>4, <1>5, <1>6, <1>7, <1>8, Prefixed DEF Creating

LEMMA RegisterPlan ==
  /\ Plan("register") \in Seq(Steps) /\ IssueLast(Plan("register"))
  /\ Plan("register") \in {<<"hook">> \o Creating, Creating}
<1> DEFINE B == When("beforeRegister" \in Hooks, <<"hook">>)
           C == <<"create">>
           H == Hooked("register")
           L == <<"load">>
<1>1. Plan("register") = (((B \o C) \o H) \o L) \o Last
  BY DEF Plan, Last
<1>2. "load" \in Steps /\ "create" \in Steps /\ "hook" \in Steps
  BY DEF Steps
<1>3. B \in Seq(Steps) /\ H \in Seq(Steps) /\ ~Has(B, "issue")
  BY SoftParts, SoftIssueLast
<1>4. C \in Seq(Steps) /\ L \in Seq(Steps)
  BY <1>2, Single
<1>5. L \o Last \in Seq(Steps) /\ B \o C \in Seq(Steps) /\ (B \o C) \o H \in Seq(Steps)
      /\ H \o (L \o Last) \in Seq(Steps)
  BY <1>3, <1>4, LastTyped, Joined
<1>6. Plan("register") = ((B \o C) \o H) \o (L \o Last)
  <2>1. (B \o C) \o H \in Seq(Steps) /\ L \in Seq(Steps) /\ Last \in Seq(Steps)
    BY <1>4, <1>5, LastTyped
  <2> HIDE DEF B, C, H, L
  <2>2. (((B \o C) \o H) \o L) \o Last = ((B \o C) \o H) \o (L \o Last)
    BY <2>1, Regrouped
  <2> QED
    BY <1>1, <2>2
<1>7. Plan("register") = (B \o C) \o (H \o (L \o Last))
  BY <1>3, <1>5, <1>6, Regrouped
<1>8. Plan("register") = B \o (C \o (H \o (L \o Last)))
  BY <1>3, <1>4, <1>5, <1>7, Regrouped
<1>9. Plan("register") = B \o Creating
  BY <1>8 DEF Creating, Registered
<1>10. B \in {<<"hook">>, <<>>}
  BY DEF When
<1>11. <<>> \o Creating = Creating
  BY RegisterParts, ConcatEmptySeq
<1>12. Plan("register") \in Seq(Steps) /\ IssueLast(Plan("register"))
  BY <1>3, <1>9, RegisterParts, Joined
<1> QED
  BY <1>9, <1>10, <1>11, <1>12

LEMMA TokenPlans ==
  /\ Plan("refresh") = When(TokenField, <<"check", "issue">>)
  /\ Plan("refresh") \in Seq(Steps) /\ IssueLast(Plan("refresh"))
  /\ Plan("logout") = When(TokenField, <<"revoke">>)
  /\ Plan("logout") \in Seq(Steps) /\ IssueLast(Plan("logout"))
<1>1. "check" \in Steps /\ "issue" \in Steps /\ "revoke" \in Steps
  BY DEF Steps
<1>2. \A i \in 1 .. 2 : i = 1 \/ i = 2
  OBVIOUS
<1>3. <<"check", "issue">> \in Seq(Steps) /\ IssueLast(<<"check", "issue">>)
  BY <1>1, <1>2, Pair DEF IssueLast
<1>4. <<"revoke">> \in Seq(Steps) /\ IssueLast(<<"revoke">>)
  BY <1>1, Single
<1>5. <<>> \in Seq(Steps) /\ IssueLast(<<>>)
  BY Nothing DEF IssueLast
<1> QED
  BY <1>3, <1>4, <1>5 DEF Plan, When

LEMMA UpdatePlan == Plan("updateAccount") \in Seq(Steps) /\ IssueLast(Plan("updateAccount"))
<1> DEFINE A == Hooked("beforeUpdateAccount")
           U == <<"update">>
           B == Hooked("updateAccount")
<1>1. Plan("updateAccount") = ((A \o U) \o B) \o Account
  BY DEF Plan
<1>2. "update" \in Steps /\ U \in Seq(Steps) /\ ~Has(U, "issue")
  BY Single DEF Steps
<1>3. /\ A \in Seq(Steps) /\ ~Has(A, "issue") /\ B \in Seq(Steps) /\ ~Has(B, "issue")
      /\ Account \in Seq(Steps) /\ IssueLast(Account)
  BY SoftParts, SoftIssueLast
<1>4. A \o U \in Seq(Steps) /\ ~Has(A \o U, "issue")
  BY <1>2, <1>3, Joined
<1>5. (A \o U) \o B \in Seq(Steps) /\ ~Has((A \o U) \o B, "issue")
  BY <1>3, <1>4, Joined
<1> QED
  BY <1>1, <1>3, <1>5, Joined

LEMMA ChangePlan ==
  /\ Plan("changePassword") \in Seq(Steps) /\ IssueLast(Plan("changePassword"))
  /\ Has(Plan("changePassword"), "setPassword")
<1> DEFINE L == <<"lookup">>
           A == Hooked("beforeChangePassword")
           S == <<"setPassword">>
           B == Hooked("changePassword")
<1>1. Plan("changePassword") = ((L \o A) \o S) \o B
  BY DEF Plan
<1>2. /\ "lookup" \in Steps /\ L \in Seq(Steps) /\ ~Has(L, "issue")
      /\ "setPassword" \in Steps /\ S \in Seq(Steps) /\ ~Has(S, "issue") /\ Has(S, "setPassword")
  BY Single DEF Steps
<1>3. A \in Seq(Steps) /\ ~Has(A, "issue") /\ B \in Seq(Steps) /\ IssueLast(B)
  BY SoftParts, SoftIssueLast
<1>4. L \o A \in Seq(Steps) /\ ~Has(L \o A, "issue")
  BY <1>2, <1>3, Joined
<1>5. (L \o A) \o S \in Seq(Steps) /\ ~Has((L \o A) \o S, "issue") /\ Has((L \o A) \o S, "setPassword")
  BY <1>2, <1>4, Joined
<1> QED
  BY <1>1, <1>3, <1>5, Joined

LEMMA PlanTyped ==
  ASSUME NEW o \in Operations
  PROVE  Plan(o) \in Seq(Steps) /\ IssueLast(Plan(o))
<1>1. Plan("getAccount") \in Seq(Steps) /\ IssueLast(Plan("getAccount"))
  BY SoftParts, SoftIssueLast DEF Plan
<1>2. Plan("resetPassword") \in Seq(Steps) /\ IssueLast(Plan("resetPassword"))
  BY SoftSteps, SoftIssueLast DEF Plan
<1> QED
  BY <1>1, <1>2, LoginPlan, RegisterPlan, TokenPlans, UpdatePlan, ChangePlan DEF Operations

-----------------------------------------------------------------------------
(* Types.                                                                   *)

\* A request that has arrived names a login and an operation.
Entered == \A r \in Requests : resp[r] # "idle" => login[r] \in Logins /\ op[r] \in Operations

Typed == TypeOK /\ Entered

LEMMA TypeInit == Init => Typed
<1> SUFFICES ASSUME Init PROVE Typed
  OBVIOUS
<1>1. StoreTypeOK
  BY DEF Init, StoreTypeOK, Accounts
<1>2. RequestTypeOK
  BY Nothing DEF Init, RequestTypeOK, Accounts
<1>3. HistoryTypeOK
  BY DEF Init, HistoryTypeOK
<1>4. Entered
  BY DEF Init, Entered
<1> QED
  BY <1>1, <1>2, <1>3, <1>4 DEF Typed, TypeOK

LEMMA IssuedTyped ==
  ASSUME Typed
  PROVE  /\ Issued \subseteq Accounts \X Logins
         /\ \A s \in Issued : AccountOf(s[1]) \in Accounts
<1>1. ASSUME NEW t \in Requests, resp[t] = "ok" PROVE <<t, login[t]>> \in Accounts \X Logins
  BY <1>1 DEF Typed, Entered, Accounts
<1>2. {Original} \X Logins \subseteq Accounts \X Logins
  BY DEF Accounts
<1>3. Issued \subseteq Accounts \X Logins
  BY <1>1, <1>2 DEF Issued
<1>4. ASSUME NEW t \in Accounts, t # None PROVE AccountOf(t) \in Accounts
  BY <1>4 DEF AccountOf, Accounts, Typed, TypeOK, RequestTypeOK
<1>5. ASSUME NEW s \in Issued PROVE s[1] \in Requests \cup {Original}
  BY <1>5 DEF Issued
<1>6. \A t \in Requests \cup {Original} : t \in Accounts /\ t # None
  BY NamesAssumption DEF Accounts
<1> QED
  BY <1>3, <1>4, <1>5, <1>6

\* What a step of r may do to the requests: it serves r, and only r.
Moved(r) ==
  /\ todo' \in [Requests -> Seq(Steps)]
  /\ resp' \in [Requests -> Answers \cup {"idle", "none"}]
  /\ dead' \in SUBSET (Accounts \X Logins)
  /\ resp'[r] # "idle"
  /\ \A s \in Requests \ {r} : todo'[s] = todo[s] /\ resp'[s] = resp[s]

\* An error a handler has classified is an answer.
LEMMA CaughtTyped ==
  /\ \A r \in Requests : \A e \in Errors : Caught(r, e) \in HttpErrors
  /\ \A r \in Requests : Caught(r, "error") = "failed"
BY DEF Caught, HandleBoth, HandleMongoErrors, HandleDuplicateKeyError, RethrowOrWrap, Errors, HttpErrors

LEMMA HookAnswer ==
  ASSUME NEW r \in Requests, Hook(r)
  PROVE  \/ Proceed(r) /\ UNCHANGED threw
         \/ (\E a \in HttpErrors : Answer(r, a)) /\ threw' = [threw EXCEPT ![r] = TRUE]
BY CaughtTyped, RejectionsAssumption DEF Hook

LEMMA DbAnswer ==
  ASSUME NEW r \in Requests, DbFail(r)
  PROVE  /\ \E a \in HttpErrors : Answer(r, a)
         /\ ~At(r, "create") => Answer(r, "failed")
<1>1. PICK e \in DbErrors(r) : Answer(r, Caught(r, e))
  BY DEF DbFail
<1>2. e \in Errors /\ (~At(r, "create") => e = "error")
  BY <1>1, RejectionsAssumption DEF DbErrors, Errors
<1> QED
  BY <1>1, <1>2, CaughtTyped

LEMMA AnswerMoved ==
  ASSUME TypeOK, NEW r \in Requests, NEW a \in Answers, Answer(r, a)
  PROVE  /\ Moved(r) /\ resp'[r] = a /\ todo'[r] = <<>>
         /\ op[r] # "logout" \/ a # "ok" => dead' = dead
<1>1. todo' \in [Requests -> Seq(Steps)] /\ todo'[r] = <<>>
  BY Nothing DEF Answer, TypeOK, RequestTypeOK
<1>2. resp' \in [Requests -> Answers \cup {"idle", "none"}] /\ resp'[r] = a /\ a # "idle"
  BY DEF Answer, TypeOK, RequestTypeOK, Answers, HttpErrors
<1>3. dead' \in SUBSET (Accounts \X Logins)
  BY DEF Answer, TypeOK, HistoryTypeOK
<1>4. \A s \in Requests \ {r} : todo'[s] = todo[s] /\ resp'[s] = resp[s]
  BY DEF Answer, TypeOK, RequestTypeOK
<1>5. op[r] # "logout" \/ a # "ok" => dead' = dead
  BY DEF Answer
<1> QED
  BY <1>1, <1>2, <1>3, <1>4, <1>5 DEF Moved

LEMMA ProceedMoved ==
  ASSUME TypeOK, NEW r \in Requests, resp[r] = "none", todo[r] # <<>>, Proceed(r)
  PROVE  /\ Moved(r)
         /\ \/ /\ resp'[r] = "ok" /\ todo'[r] = <<>> /\ Len(todo[r]) = 1
               /\ dead' = IF op[r] = "logout" /\ TokenField THEN dead \cup issued[r] ELSE dead
            \/ /\ resp'[r] = "none" /\ todo'[r] = Tail(todo[r]) /\ todo'[r] # <<>>
               /\ Len(todo[r]) # 1 /\ dead' = dead
<1>1. CASE Len(todo[r]) = 1
  <2>1. Answer(r, "ok") /\ "ok" \in Answers
    BY <1>1 DEF Proceed, Answers, HttpErrors
  <2>2. dead' = IF op[r] = "logout" /\ TokenField THEN dead \cup issued[r] ELSE dead
    BY <2>1 DEF Answer
  <2> QED
    BY <1>1, <2>1, <2>2, AnswerMoved
<1>2. CASE Len(todo[r]) # 1
  <2>1. todo' = [todo EXCEPT ![r] = Tail(@)] /\ UNCHANGED <<resp, dead>>
    BY <1>2 DEF Proceed
  <2>2. todo[r] \in Seq(Steps)
    BY DEF TypeOK, RequestTypeOK
  <2>3. Tail(todo[r]) \in Seq(Steps) /\ Tail(todo[r]) # <<>>
    BY <1>2, <2>2, Left
  <2>4. todo' \in [Requests -> Seq(Steps)] /\ todo'[r] = Tail(todo[r])
        /\ \A s \in Requests \ {r} : todo'[s] = todo[s]
    BY <2>1, <2>3 DEF TypeOK, RequestTypeOK
  <2> QED
    BY <1>2, <2>1, <2>3, <2>4 DEF Moved, TypeOK, RequestTypeOK, HistoryTypeOK
<1> QED
  BY <1>1, <1>2

\* A step of a running request: what it carries stays, and so do the other requests.
Serves(r) ==
  /\ resp[r] = "none"
  /\ Moved(r)
  /\ UNCHANGED <<inputVars, arrivalVars>>
  /\ who' \in [Requests -> Accounts]
  /\ \A s \in Requests \ {r} : who'[s] = who[s]
  /\ \A s \in Requests \ {r} : threw'[s] = threw[s] /\ wrote'[s] = wrote[s] /\ missed'[s] = missed[s]
  /\ threw' \in [Requests -> BOOLEAN]
  /\ wrote' \in [Requests -> BOOLEAN]
  /\ missed' \in [Requests -> BOOLEAN]
  /\ matched' \in [Requests -> BOOLEAN]
  /\ \A s \in Requests : matched[s] => matched'[s]

LEMMA AtHead ==
  ASSUME NEW r \in Requests, NEW s, At(r, s)
  PROVE  resp[r] = "none" /\ todo[r] # <<>> /\ Head(todo[r]) = s
BY DEF At

\* The rows of Serves an action changes no further than here are the same in every state.
LEMMA SameRows ==
  ASSUME TypeOK
  PROVE  /\ UNCHANGED who => who' \in [Requests -> Accounts] /\ \A s \in Requests : who'[s] = who[s]
         /\ UNCHANGED matched => /\ matched' \in [Requests -> BOOLEAN]
                                 /\ \A s \in Requests : matched[s] => matched'[s]
         /\ UNCHANGED threw => threw' \in [Requests -> BOOLEAN] /\ \A s \in Requests : threw'[s] = threw[s]
         /\ UNCHANGED wrote => wrote' \in [Requests -> BOOLEAN] /\ \A s \in Requests : wrote'[s] = wrote[s]
         /\ UNCHANGED missed => missed' \in [Requests -> BOOLEAN] /\ \A s \in Requests : missed'[s] = missed[s]
         /\ UNCHANGED storeVars => StoreTypeOK'
BY DEF TypeOK, RequestTypeOK, HistoryTypeOK, StoreTypeOK, storeVars

LEMMA MarkedRow ==
  ASSUME TypeOK, NEW r \in Requests
  PROVE  /\ \A a \in Accounts : who' = [who EXCEPT ![r] = a]
              => /\ who' \in [Requests -> Accounts] /\ who'[r] = a
                 /\ \A s \in Requests \ {r} : who'[s] = who[s]
         /\ threw' = [threw EXCEPT ![r] = TRUE]
              => /\ threw' \in [Requests -> BOOLEAN] /\ threw'[r]
                 /\ \A s \in Requests \ {r} : threw'[s] = threw[s]
         /\ wrote' = [wrote EXCEPT ![r] = TRUE]
              => /\ wrote' \in [Requests -> BOOLEAN] /\ wrote'[r]
                 /\ \A s \in Requests \ {r} : wrote'[s] = wrote[s]
         /\ missed' = [missed EXCEPT ![r] = TRUE]
              => /\ missed' \in [Requests -> BOOLEAN] /\ missed'[r]
                 /\ \A s \in Requests \ {r} : missed'[s] = missed[s]
BY DEF TypeOK, RequestTypeOK, HistoryTypeOK

LEMMA ChangedRow ==
  ASSUME TypeOK, NEW r \in Requests, Changed(r)
  PROVE  /\ wrote' \in [Requests -> BOOLEAN] /\ missed' \in [Requests -> BOOLEAN]
         /\ \A s \in Requests \ {r} : wrote'[s] = wrote[s] /\ missed'[s] = missed[s]
         /\ (wrote'[r] <=> wrote[r] \/ Owned(r))
         /\ (missed'[r] <=> missed[r] \/ ~Owned(r))
<1>1. (wrote[r] \/ Owned(r)) \in BOOLEAN /\ (missed[r] \/ ~Owned(r)) \in BOOLEAN
  OBVIOUS
<1> HIDE DEF Owned
<1> QED
  BY <1>1 DEF Changed, TypeOK, HistoryTypeOK

LEMMA ServesValidate ==
  ASSUME Typed, NEW r \in Requests, Validate(r)
  PROVE  Serves(r) /\ StoreTypeOK'
<1>1. TypeOK /\ resp[r] = "none" /\ todo[r] # <<>> /\ login[r] \in Logins
  BY AtHead DEF Typed, Validate, Entered
<1>2. UNCHANGED <<storeVars, inputVars, arrivalVars, matched, threw, effectVars>>
  BY DEF Validate
<1>3. UNCHANGED <<storeVars, matched, threw, wrote, missed>>
  BY <1>2 DEF effectVars
<1>4. Moved(r) /\ who' \in [Requests -> Accounts] /\ \A s \in Requests \ {r} : who'[s] = who[s]
  <2>1. CASE \E a \in {"unauthorized", "forbidden"} : Refuse(r, a)
    <3>1. PICK a \in Answers : Answer(r, a) /\ UNCHANGED who
      BY <2>1 DEF Refuse, Answers, HttpErrors
    <3> QED
      BY <1>1, <3>1, AnswerMoved, SameRows
  <2>2. CASE who' = [who EXCEPT ![r] = account[login[r]]] /\ Proceed(r)
    <3>1. account[login[r]] \in Accounts
      BY <1>1 DEF TypeOK, StoreTypeOK
    <3> QED
      BY <1>1, <2>2, <3>1, ProceedMoved, MarkedRow
  <2> QED
    BY <2>1, <2>2 DEF Validate
<1> QED
  BY <1>1, <1>2, <1>3, <1>4, SameRows DEF Serves

LEMMA ServesLoad ==
  ASSUME Typed, NEW r \in Requests, Load(r)
  PROVE  Serves(r) /\ StoreTypeOK'
<1>1. TypeOK /\ resp[r] = "none" /\ todo[r] # <<>>
  BY AtHead DEF Typed, Load
<1>2. UNCHANGED <<storeVars, inputVars, who, arrivalVars, matched, threw, wrote>>
  BY DEF Load
<1>3. /\ Moved(r) /\ missed' \in [Requests -> BOOLEAN]
      /\ \A s \in Requests \ {r} : missed'[s] = missed[s]
  <2>1. CASE Proceed(r) /\ UNCHANGED missed
    BY <1>1, <2>1, ProceedMoved, SameRows
  <2>2. CASE Absent(r) /\ missed' = [missed EXCEPT ![r] = TRUE]
    BY <1>1, <2>2, AnswerMoved, MarkedRow DEF Absent, Answers, HttpErrors
  <2> QED
    BY <2>1, <2>2 DEF Load
<1> QED
  BY <1>1, <1>2, <1>3, SameRows DEF Serves

LEMMA ServesHook ==
  ASSUME Typed, NEW r \in Requests, Hook(r)
  PROVE  Serves(r) /\ StoreTypeOK'
<1>1. TypeOK /\ resp[r] = "none" /\ todo[r] # <<>>
  BY AtHead DEF Typed, Hook
<1>2. UNCHANGED <<storeVars, inputVars, who, arrivalVars, matched, effectVars>>
  BY DEF Hook
<1>3. UNCHANGED <<storeVars, matched, wrote, missed>>
  BY <1>2 DEF effectVars
<1>4. /\ Moved(r) /\ threw' \in [Requests -> BOOLEAN]
      /\ \A s \in Requests \ {r} : threw'[s] = threw[s]
  <2>1. CASE Proceed(r) /\ UNCHANGED threw
    BY <1>1, <2>1, ProceedMoved, SameRows
  <2>2. CASE (\E a \in HttpErrors : Answer(r, a)) /\ threw' = [threw EXCEPT ![r] = TRUE]
    BY <1>1, <2>2, AnswerMoved, MarkedRow DEF Answers
  <2> QED
    BY <2>1, <2>2, HookAnswer
<1> QED
  BY <1>1, <1>2, <1>3, <1>4, SameRows DEF Serves

LEMMA ServesCheck ==
  ASSUME Typed, NEW r \in Requests, Check(r)
  PROVE  Serves(r) /\ StoreTypeOK'
<1>1. TypeOK /\ resp[r] = "none" /\ todo[r] # <<>>
  BY AtHead DEF Typed, Check
<1>2. UNCHANGED <<storeVars, inputVars, who, arrivalVars, matched, threw, effectVars>>
  BY DEF Check
<1>3. UNCHANGED <<wrote, missed>>
  BY <1>2 DEF effectVars
<1>4. Moved(r)
  <2>1. Proceed(r) \/ Answer(r, "unauthorized")
    BY DEF Check
  <2> QED
    BY <1>1, <2>1, AnswerMoved, ProceedMoved DEF Answers, HttpErrors
<1> QED
  BY <1>1, <1>2, <1>3, <1>4, SameRows DEF Serves

LEMMA ServesDbFail ==
  ASSUME Typed, NEW r \in Requests, DbFail(r)
  PROVE  Serves(r) /\ StoreTypeOK'
<1>1. TypeOK /\ resp[r] = "none"
  BY DEF Typed, DbFail
<1>2. UNCHANGED <<storeVars, inputVars, who, arrivalVars, matched, effectVars>>
  BY DEF DbFail
<1>3. UNCHANGED <<wrote, missed>>
  BY <1>2 DEF effectVars
<1>4. Moved(r)
  BY <1>1, DbAnswer, AnswerMoved DEF Answers
<1>5. threw' = [threw EXCEPT ![r] = TRUE]
  BY DEF DbFail
<1> QED
  BY <1>1, <1>2, <1>3, <1>4, <1>5, SameRows, MarkedRow DEF Serves

LEMMA ServesLookup ==
  ASSUME Typed, NEW r \in Requests, Lookup(r)
  PROVE  Serves(r) /\ StoreTypeOK'
<1>1. TypeOK /\ resp[r] = "none" /\ todo[r] # <<>> /\ login[r] \in Logins
  BY AtHead DEF Typed, Lookup, Entered
<1>2. UNCHANGED <<storeVars, inputVars, arrivalVars, matched, wrote>>
  BY DEF Lookup
<1>3. Moved(r) /\ who' \in [Requests -> Accounts] /\ \A s \in Requests \ {r} : who'[s] = who[s]
  <2>1. CASE \E a \in {"badRequest", "unauthorized", "ok", "forbidden"} : Refuse(r, a)
    <3>1. PICK a \in Answers : Answer(r, a) /\ UNCHANGED who
      BY <2>1 DEF Refuse, Answers, HttpErrors
    <3> QED
      BY <1>1, <3>1, AnswerMoved, SameRows
  <2>2. CASE who' = [who EXCEPT ![r] = account[login[r]]] /\ Proceed(r)
    <3>1. account[login[r]] \in Accounts
      BY <1>1 DEF TypeOK, StoreTypeOK
    <3> QED
      BY <1>1, <2>2, <3>1, ProceedMoved, MarkedRow
  <2> QED
    BY <2>1, <2>2 DEF Lookup, NotAllowed
<1>4. /\ threw' \in [Requests -> BOOLEAN] /\ missed' \in [Requests -> BOOLEAN]
      /\ \A s \in Requests \ {r} : threw'[s] = threw[s] /\ missed'[s] = missed[s]
  <2>1. /\ UNCHANGED threw \/ threw' = [threw EXCEPT ![r] = TRUE]
        /\ UNCHANGED missed \/ missed' = [missed EXCEPT ![r] = TRUE]
    BY DEF Lookup
  <2> QED
    BY <1>1, <2>1, SameRows, MarkedRow
<1> QED
  BY <1>1, <1>2, <1>3, <1>4, SameRows DEF Serves

LEMMA ServesIssue ==
  ASSUME Typed, NEW r \in Requests, Issue(r)
  PROVE  Serves(r) /\ StoreTypeOK'
<1>1. TypeOK /\ resp[r] = "none" /\ todo[r] # <<>>
  BY AtHead DEF Typed, Issue
<1>2. /\ UNCHANGED <<account, password, profile, inputVars, who, arrivalVars, matched, threw>>
      /\ Proceed(r) /\ Changed(r)
  BY DEF Issue
<1>3. Moved(r)
  BY <1>1, <1>2, ProceedMoved
<1>4. token' \in [Logins -> Accounts]
  BY <1>1 DEF Issue, TypeOK, StoreTypeOK, Accounts
<1> QED
  BY <1>1, <1>2, <1>3, <1>4, SameRows, ChangedRow DEF Serves, TypeOK, StoreTypeOK

LEMMA ServesRevoke ==
  ASSUME Typed, NEW r \in Requests, Revoke(r)
  PROVE  Serves(r) /\ StoreTypeOK'
<1>1. TypeOK /\ resp[r] = "none" /\ todo[r] # <<>>
  BY AtHead DEF Typed, Revoke
<1>2. /\ UNCHANGED <<account, password, profile, inputVars, who, arrivalVars, matched, threw>>
      /\ Proceed(r) /\ Changed(r)
  BY DEF Revoke
<1>3. Moved(r)
  BY <1>1, <1>2, ProceedMoved
<1>4. token' \in [Logins -> Accounts]
  BY <1>1 DEF Revoke, Cleared, TypeOK, StoreTypeOK, Accounts
<1> QED
  BY <1>1, <1>2, <1>3, <1>4, SameRows, ChangedRow DEF Serves, TypeOK, StoreTypeOK

LEMMA ServesUpdate ==
  ASSUME Typed, NEW r \in Requests, Update(r)
  PROVE  Serves(r) /\ StoreTypeOK'
<1>1. TypeOK /\ resp[r] = "none" /\ todo[r] # <<>>
  BY AtHead DEF Typed, Update
<1>2. /\ UNCHANGED <<account, password, token, inputVars, who, arrivalVars, matched, threw>>
      /\ Proceed(r) /\ Changed(r)
  BY DEF Update
<1>3. Moved(r)
  BY <1>1, <1>2, ProceedMoved
<1>4. profile' \in [Logins -> Requests \cup {None}]
  BY <1>1 DEF Update, TypeOK, StoreTypeOK
<1> QED
  BY <1>1, <1>2, <1>3, <1>4, SameRows, ChangedRow DEF Serves, TypeOK, StoreTypeOK

LEMMA ServesSetPassword ==
  ASSUME Typed, NEW r \in Requests, SetPassword(r)
  PROVE  Serves(r) /\ StoreTypeOK'
<1>1. TypeOK /\ resp[r] = "none" /\ todo[r] # <<>>
  BY AtHead DEF Typed, SetPassword
<1>2. /\ UNCHANGED <<account, token, profile, inputVars, who, arrivalVars, threw>>
      /\ Proceed(r) /\ Changed(r)
  BY DEF SetPassword
<1>3. Moved(r)
  BY <1>1, <1>2, ProceedMoved
<1>4. given[r] \in Passwords \cup {None}
  BY <1>1 DEF TypeOK, RequestTypeOK
<1>5. password' \in [Logins -> Passwords \cup {None}]
  BY <1>1, <1>4 DEF SetPassword, TypeOK, StoreTypeOK
<1>6. matched' \in [Requests -> BOOLEAN] /\ \A s \in Requests : matched[s] => matched'[s]
  BY <1>1 DEF SetPassword, TypeOK, HistoryTypeOK
<1> QED
  BY <1>1, <1>2, <1>3, <1>5, <1>6, SameRows, ChangedRow DEF Serves, TypeOK, StoreTypeOK

LEMMA ServesCreate ==
  ASSUME Typed, NEW r \in Requests, Create(r)
  PROVE  Serves(r) /\ StoreTypeOK'
<1>1. TypeOK /\ resp[r] = "none" /\ todo[r] # <<>>
  BY AtHead DEF Typed, Create
<1>2. UNCHANGED <<inputVars, arrivalVars, threw, missed>>
  BY DEF Create
<1>3. CASE Refuse(r, DuplicateKey(r)) /\ UNCHANGED <<storeVars, matched, wrote>>
  <2>1. Answer(r, "conflict") /\ "conflict" \in Answers /\ UNCHANGED who
    BY <1>3 DEF Refuse, DuplicateKey, Answers, HttpErrors
  <2>2. Moved(r)
    BY <1>1, <2>1, AnswerMoved
  <2> QED
    BY <1>1, <1>2, <1>3, <2>1, <2>2, SameRows DEF Serves
<1>4. CASE /\ account' = [account EXCEPT ![login[r]] = r]
           /\ password' = [password EXCEPT ![login[r]] = given[r]]
           /\ token' = [token EXCEPT ![login[r]] = None]
           /\ profile' = [profile EXCEPT ![login[r]] = None]
           /\ who' = [who EXCEPT ![r] = r]
           /\ Proceed(r)
           /\ matched' = [s \in Requests |-> matched[s] \/ (login[s] = login[r] /\ given[s] = given[r])]
           /\ wrote' = [wrote EXCEPT ![r] = TRUE]
  <2>2. r \in Accounts /\ None \in Accounts /\ given[r] \in Passwords \cup {None}
    BY <1>1 DEF Accounts, TypeOK, RequestTypeOK
  <2>3. StoreTypeOK'
    BY <1>1, <1>4, <2>2 DEF TypeOK, StoreTypeOK
  <2>4. Moved(r)
    BY <1>1, <1>4, ProceedMoved
  <2>5. matched' \in [Requests -> BOOLEAN] /\ \A s \in Requests : matched[s] => matched'[s]
    BY <1>1, <1>4 DEF TypeOK, HistoryTypeOK
  <2> QED
    BY <1>1, <1>2, <1>4, <2>2, <2>3, <2>4, <2>5, SameRows, MarkedRow DEF Serves
<1> QED
  BY <1>3, <1>4 DEF Create

LEMMA Serving ==
  ASSUME Typed, NEW r \in Requests, Progress(r) \/ DbFail(r)
  PROVE  Serves(r) /\ StoreTypeOK'
BY ServesValidate, ServesLoad, ServesHook, ServesCreate, ServesCheck, ServesIssue, ServesRevoke,
   ServesUpdate, ServesLookup, ServesSetPassword, ServesDbFail DEF Progress

\* A token clients hold: the first one of a login, or one whose request is over.
Held(t) == t = Original \/ (t \in Requests /\ resp[t] = "ok")

LEMMA Arriving ==
  ASSUME Typed, NEW r \in Requests, Arrive(r)
  PROVE  \E o \in Ops, l \in Logins, a \in Accounts, p \in Passwords \cup {None}, t \in Accounts :
           Enter(r, o, l, a, p, t) /\ (t = None \/ Held(t))
<1>1. None \in Accounts
  BY DEF Accounts
<1>2. CASE ArriveWithBody(r)
  <2>1. PICK o \in {"login", "register"}, l \in Logins, p \in Passwords : Enter(r, o, l, None, p, None)
    BY <1>2 DEF ArriveWithBody
  <2>2. o \in Ops
    BY <2>1 DEF Enter
  <2> QED
    BY <1>1, <2>1, <2>2
<1>3. CASE ArriveWithToken(r)
  <2>1. PICK s \in Issued :
          \/ \E o \in {"refresh", "logout"}, t \in {s[1]} \cup (IF SharedSecret THEN {None} ELSE {}) :
               Enter(r, o, s[2], AccountOf(s[1]), None, t)
          \/ \E o \in {"getAccount", "updateAccount"} :
               Enter(r, o, s[2], AccountOf(s[1]), None, None)
    BY <1>3 DEF ArriveWithToken
  <2>2. s[1] \in Accounts /\ s[2] \in Logins /\ AccountOf(s[1]) \in Accounts
    BY IssuedTyped
  <2>3. Held(s[1])
    BY DEF Issued, Held
  <2>4. PICK o \in {"refresh", "logout", "getAccount", "updateAccount"}, t \in {s[1], None} :
          Enter(r, o, s[2], AccountOf(s[1]), None, t)
    BY <2>1
  <2>5. o \in Ops
    BY <2>4 DEF Enter
  <2> QED
    BY <1>1, <2>2, <2>3, <2>4, <2>5
<1>4. CASE ArriveForReset(r)
  <2>1. PICK o \in {"resetPassword", "changePassword"}, l \in Logins, p \in Passwords \cup {None} :
          Enter(r, o, l, None, p, None)
    BY <1>4 DEF ArriveForReset
  <2>2. o \in Ops
    BY <2>1 DEF Enter
  <2> QED
    BY <1>1, <2>1, <2>2
<1> QED
  BY <1>2, <1>3, <1>4 DEF Arrive

\* What a request has when it has arrived, and nothing else has changed.
Entering(r, o, l, a, p, t) ==
  /\ resp[r] = "idle"
  /\ op'[r] = o /\ login'[r] = l /\ who'[r] = a /\ given'[r] = p /\ jti'[r] = t
  /\ todo'[r] = Plan(o)
  /\ resp'[r] = IF Plan(o) = <<>> THEN "ok" ELSE "none"
  /\ (current'[r] <=> account[l] = a /\ token[l] = t)
  /\ (matched'[r] <=> account[l] # None /\ password[l] = p)
  /\ issued'[r] = {s \in Issued : o = "logout" /\ s[2] = l /\ AccountOf(s[1]) = a}
  /\ (late'[r] <=> <<t, l>> \in dead)
  /\ \A s \in Requests \ {r} :
       /\ op'[s] = op[s] /\ login'[s] = login[s] /\ who'[s] = who[s] /\ given'[s] = given[s]
       /\ jti'[s] = jti[s] /\ todo'[s] = todo[s] /\ resp'[s] = resp[s]
       /\ current'[s] = current[s] /\ matched'[s] = matched[s] /\ issued'[s] = issued[s]
       /\ late'[s] = late[s]
  /\ UNCHANGED <<storeVars, dead, threw, effectVars>>

LEMMA EnterMoves ==
  ASSUME Typed, NEW r \in Requests, NEW o \in Ops, NEW l \in Logins, NEW a \in Accounts,
         NEW p \in Passwords \cup {None}, NEW t \in Accounts, Enter(r, o, l, a, p, t)
  PROVE  Entering(r, o, l, a, p, t) /\ Typed'
<1>1. TypeOK /\ Entered /\ o \in Operations
  BY OpsAssumption DEF Typed
<1>2. resp[r] = "idle"
  BY DEF Enter, Idle
<1>3. /\ op' \in [Requests -> Operations \cup {None}] /\ op'[r] = o
      /\ login' \in [Requests -> Logins \cup {None}] /\ login'[r] = l
      /\ who' \in [Requests -> Accounts] /\ who'[r] = a
      /\ given' \in [Requests -> Passwords \cup {None}] /\ given'[r] = p
      /\ jti' \in [Requests -> Accounts] /\ jti'[r] = t
  BY <1>1 DEF Enter, TypeOK, RequestTypeOK
<1>4. todo' \in [Requests -> Seq(Steps)] /\ todo'[r] = Plan(o)
  BY <1>1, PlanTyped DEF Enter, TypeOK, RequestTypeOK
<1>5. /\ resp' \in [Requests -> Answers \cup {"idle", "none"}]
      /\ resp'[r] = IF Plan(o) = <<>> THEN "ok" ELSE "none"
  BY <1>1 DEF Enter, TypeOK, RequestTypeOK, Answers, HttpErrors
<1>6. /\ current' \in [Requests -> BOOLEAN] /\ (current'[r] <=> account[l] = a /\ token[l] = t)
      /\ matched' \in [Requests -> BOOLEAN] /\ (matched'[r] <=> account[l] # None /\ password[l] = p)
      /\ late' \in [Requests -> BOOLEAN] /\ (late'[r] <=> <<t, l>> \in dead)
  <2>1. \A f \in [Requests -> BOOLEAN], c \in BOOLEAN :
          [f EXCEPT ![r] = c] \in [Requests -> BOOLEAN] /\ [f EXCEPT ![r] = c][r] = c
    OBVIOUS
  <2>2. /\ current' = [current EXCEPT ![r] = account[l] = a /\ token[l] = t]
        /\ matched' = [matched EXCEPT ![r] = account[l] # None /\ password[l] = p]
        /\ late' = [late EXCEPT ![r] = <<t, l>> \in dead]
    BY DEF Enter
  <2>3. /\ (account[l] = a /\ token[l] = t) \in BOOLEAN
        /\ (account[l] # None /\ password[l] = p) \in BOOLEAN
        /\ (<<t, l>> \in dead) \in BOOLEAN
    OBVIOUS
  <2>4. current \in [Requests -> BOOLEAN] /\ matched \in [Requests -> BOOLEAN] /\ late \in [Requests -> BOOLEAN]
    BY <1>1 DEF TypeOK, HistoryTypeOK
  <2>5. current' \in [Requests -> BOOLEAN] /\ (current'[r] <=> account[l] = a /\ token[l] = t)
    BY <2>1, <2>2, <2>3, <2>4, Zenon
  <2>6. matched' \in [Requests -> BOOLEAN] /\ (matched'[r] <=> account[l] # None /\ password[l] = p)
    BY <2>1, <2>2, <2>3, <2>4, Zenon
  <2>7. late' \in [Requests -> BOOLEAN] /\ (late'[r] <=> <<t, l>> \in dead)
    BY <2>1, <2>2, <2>3, <2>4, Zenon
  <2> QED
    BY <2>5, <2>6, <2>7
<1>7. /\ issued' \in [Requests -> SUBSET (Accounts \X Logins)]
      /\ issued'[r] = {s \in Issued : o = "logout" /\ s[2] = l /\ AccountOf(s[1]) = a}
  <2> DEFINE I == {s \in Issued : o = "logout" /\ s[2] = l /\ AccountOf(s[1]) = a}
  <2>1. I \in SUBSET (Accounts \X Logins)
    BY IssuedTyped
  <2>2. issued' = [issued EXCEPT ![r] = I]
    BY DEF Enter
  <2> HIDE DEF I
  <2>3. issued' \in [Requests -> SUBSET (Accounts \X Logins)] /\ issued'[r] = I
    BY <1>1, <2>1, <2>2 DEF TypeOK, HistoryTypeOK
  <2> QED
    BY <2>3 DEF I
<1>8. UNCHANGED <<storeVars, dead, threw, effectVars>>
  BY DEF Enter
<1>9. ASSUME NEW s \in Requests \ {r}
      PROVE  /\ op'[s] = op[s] /\ login'[s] = login[s] /\ who'[s] = who[s] /\ given'[s] = given[s]
             /\ jti'[s] = jti[s] /\ todo'[s] = todo[s] /\ resp'[s] = resp[s]
             /\ current'[s] = current[s] /\ matched'[s] = matched[s] /\ issued'[s] = issued[s]
             /\ late'[s] = late[s]
  BY <1>1 DEF Enter, TypeOK, RequestTypeOK, HistoryTypeOK
<1>10. TypeOK'
  BY <1>1, <1>3, <1>4, <1>5, <1>6, <1>7, <1>8
     DEF TypeOK, StoreTypeOK, RequestTypeOK, HistoryTypeOK, storeVars, effectVars
<1>11. Entered'
  BY <1>1, <1>2, <1>3, <1>9 DEF Entered
<1> QED
  BY <1>2, <1>3, <1>4, <1>5, <1>6, <1>7, <1>8, <1>9, <1>10, <1>11 DEF Typed, Entering

LEMMA ServesTyped ==
  ASSUME Typed, NEW r \in Requests, Serves(r), StoreTypeOK'
  PROVE  Typed'
<1>1. TypeOK /\ Entered
  BY DEF Typed
<1>2. RequestTypeOK'
  BY <1>1 DEF Serves, Moved, TypeOK, RequestTypeOK, inputVars
<1>3. HistoryTypeOK'
  BY <1>1 DEF Serves, Moved, TypeOK, HistoryTypeOK, arrivalVars
<1>4. Entered'
  BY <1>1 DEF Entered, Serves, Moved, inputVars
<1> QED
  BY <1>2, <1>3, <1>4 DEF Typed, TypeOK

LEMMA RemoveTyped ==
  ASSUME Typed, NEW l \in Logins, RemoveAccount(l)
  PROVE  Typed'
<1>1. TypeOK /\ Entered
  BY DEF Typed
<1>2. StoreTypeOK'
  BY <1>1 DEF RemoveAccount, TypeOK, StoreTypeOK, Accounts
<1>3. RequestTypeOK' /\ HistoryTypeOK' /\ Entered'
  BY <1>1 DEF RemoveAccount, TypeOK, RequestTypeOK, HistoryTypeOK, Entered,
              inputVars, arrivalVars, effectVars
<1> QED
  BY <1>2, <1>3 DEF Typed, TypeOK

LEMMA SameTyped ==
  ASSUME Typed, UNCHANGED vars
  PROVE  Typed'
BY DEF Typed, Entered, TypeOK, StoreTypeOK, RequestTypeOK, HistoryTypeOK,
       vars, storeVars, inputVars, arrivalVars, effectVars

LEMMA TypeStep == Typed /\ [Next]_vars => Typed'
<1> SUFFICES ASSUME Typed, [Next]_vars PROVE Typed'
  OBVIOUS
<1>1. ASSUME NEW r \in Requests, Arrive(r) PROVE Typed'
  BY <1>1, Arriving, EnterMoves
<1>2. ASSUME NEW r \in Requests, Progress(r) \/ DbFail(r) PROVE Typed'
  BY <1>2, Serving, ServesTyped
<1>3. ASSUME NEW l \in Logins, RemoveAccount(l) PROVE Typed'
  BY <1>3, RemoveTyped
<1>4. CASE UNCHANGED vars
  BY <1>4, SameTyped
<1> QED
  BY <1>1, <1>2, <1>3, <1>4 DEF Next, Quiescent

LEMMA TypedAlways == Spec => []Typed
BY TypeInit, TypeStep, PTL DEF Spec

\* Every variable of the authentication service keeps values of its kind: each step leaves
\* an account, a token and a request of the kinds its code stores (base-auth.service.ts).
THEOREM TypeCorrect == Spec => []TypeOK
<1>1. Typed => TypeOK
  BY DEF Typed
<1> QED
  BY <1>1, TypedAlways, PTL

-----------------------------------------------------------------------------
(* The inductive invariant, one conjunct per part of a request's life.      *)

\* The token is stored last, and a request that has not arrived has left no trace.
LifeOK(r) ==
  /\ IssueLast(todo[r])
  /\ resp[r] = "idle" => ~late[r] /\ ~wrote[r] /\ jti[r] = None

\* A stored token belongs to the account that stores it, and its request is over.
StoredOK(l) ==
  /\ account[l] = None => token[l] = None
  /\ token[l] # None => Held(token[l]) /\ account[l] = AccountOf(token[l])

PresentedOK(r) == jti[r] = None \/ Held(jti[r])

\* A logout still to write knows what it revokes.
LogoutOK(r) ==
  op[r] = "logout" /\ resp[r] = "none" =>
    /\ todo[r] = <<"revoke">>
    /\ \A s \in issued[r] : Held(s[1]) /\ s[2] = login[r] /\ AccountOf(s[1]) = who[r]

\* A revoked token is stored nowhere, and never will be: its request is over.
DeadOK == \A s \in dead : Held(s[1]) /\ token[s[2]] # s[1]

LateOK(r) == late[r] => <<jti[r], login[r]>> \in dead

\* A token that was not the stored one when it was presented does not become it.
StaleOK(r) ==
  op[r] = "refresh" /\ resp[r] # "idle" /\ ~current[r] /\ jti[r] # None
    => ~(account[login[r]] = who[r] /\ token[login[r]] = jti[r])

RefreshOK(r) ==
  op[r] = "refresh" =>
    /\ resp[r] = "none" => \/ todo[r] = <<"check", "issue">>
                           \/ todo[r] = <<"issue">> /\ current[r] /\ ~late[r]
    /\ TokenField /\ resp[r] = "ok" => current[r] /\ ~late[r]

\* A password that is right now has been right since the request arrived.
MatchOK(r) ==
  resp[r] # "idle" /\ account[login[r]] # None /\ password[login[r]] = given[r] => matched[r]

LoginOK(r) ==
  op[r] = "login" /\ resp[r] \in {"none", "ok"}
    => matched[r] \/ (resp[r] = "none" /\ todo[r] = Plan("login"))

\* What follows the creation: a callback only if there is a registerCallback.
Finishing(q) ==
  /\ \A s : Has(q, s) => s \in {"load", "hook", "issue"}
  /\ Has(q, "hook") => "register" \in Hooks

RegisterOK(r) ==
  op[r] = "register" =>
    /\ resp[r] = "none" => \/ ~wrote[r] /\ todo[r] \in {<<"hook">> \o Creating, Creating}
                           \/ wrote[r] /\ Finishing(todo[r])
    /\ resp[r] = "ok" => wrote[r]
    /\ resp[r] \in HttpErrors \ {"failed"} => ~wrote[r] \/ (threw[r] /\ "register" \in Hooks)
    /\ resp[r] = "failed" => threw[r] \/ missed[r]

ChangeOK(r) ==
  op[r] = "changePassword" =>
    /\ resp[r] = "none" => Has(todo[r], "setPassword") \/ wrote[r] \/ threw[r] \/ missed[r]
    /\ resp[r] = "ok" => wrote[r] \/ threw[r] \/ missed[r]

LifeInv == \A r \in Requests : LifeOK(r)
TokenInv == (\A l \in Logins : StoredOK(l)) /\ (\A r \in Requests : PresentedOK(r))
RevokedInv == DeadOK /\ (\A r \in Requests : LogoutOK(r)) /\ (\A r \in Requests : LateOK(r))
StaleInv == \A r \in Requests : StaleOK(r)
RefreshInv == \A r \in Requests : RefreshOK(r)
MatchInv == \A r \in Requests : MatchOK(r)
LoginInv == \A r \in Requests : LoginOK(r)
RegisterInv == \A r \in Requests : RegisterOK(r)
ChangeInv == \A r \in Requests : ChangeOK(r)

TokensInv == LifeInv /\ TokenInv /\ RevokedInv /\ StaleInv /\ RefreshInv
IInv == Typed /\ TokensInv /\ MatchInv /\ LoginInv /\ RegisterInv /\ ChangeInv

LEMMA InvInit == Init => IInv
<1> SUFFICES ASSUME Init PROVE IInv
  OBVIOUS
<1>1. Typed
  BY TypeInit
<1>2. \A r \in Requests : resp[r] = "idle" /\ todo[r] = <<>> /\ op[r] = None /\ jti[r] = None
                          /\ ~late[r] /\ ~wrote[r]
  BY DEF Init
<1>3. \A o \in {"login", "register", "refresh", "logout", "changePassword"} :
        \A r \in Requests : resp[r] \notin {"none", "ok"} \cup HttpErrors
  BY <1>2 DEF HttpErrors
<1>4. LifeInv
  <2>1. IssueLast(<<>>)
    BY Nothing DEF IssueLast
  <2> QED
    BY <1>2, <2>1 DEF LifeInv, LifeOK
<1>5. TokenInv
  BY <1>2, NamesAssumption DEF Init, TokenInv, StoredOK, PresentedOK, Held, AccountOf
<1>6. RevokedInv
  BY <1>2, <1>3 DEF Init, RevokedInv, DeadOK, LogoutOK, LateOK
<1>7. StaleInv /\ RefreshInv /\ MatchInv /\ LoginInv /\ RegisterInv /\ ChangeInv
  BY <1>2, <1>3 DEF StaleInv, StaleOK, RefreshInv, RefreshOK, MatchInv, MatchOK, LoginInv, LoginOK,
                    RegisterInv, RegisterOK, ChangeInv, ChangeOK, HttpErrors
<1> QED
  BY <1>1, <1>4, <1>5, <1>6, <1>7 DEF IInv, TokensInv

-----------------------------------------------------------------------------
(* What a step does, whichever it is.                                       *)

\* The next await tells which action serves a request.
LEMMA WhichStep ==
  ASSUME NEW r \in Requests, Progress(r) \/ DbFail(r)
  PROVE  /\ Head(todo[r]) = "validate" => Validate(r) \/ DbFail(r)
         /\ Head(todo[r]) = "hook" /\ todo[r] # <<>> => Hook(r)
         /\ Head(todo[r]) = "load" => Load(r) \/ DbFail(r)
         /\ Head(todo[r]) = "create" => Create(r) \/ DbFail(r)
         /\ Head(todo[r]) = "check" => Check(r) \/ DbFail(r)
         /\ Head(todo[r]) = "issue" => Issue(r) \/ DbFail(r)
         /\ Head(todo[r]) = "revoke" => Revoke(r) \/ DbFail(r)
         /\ Head(todo[r]) = "setPassword" => SetPassword(r) \/ DbFail(r)
<1>1. /\ Validate(r) => Head(todo[r]) = "validate"
      /\ Load(r) => Head(todo[r]) = "load"
      /\ Hook(r) => Head(todo[r]) = "hook"
      /\ Create(r) => Head(todo[r]) = "create"
      /\ Check(r) => Head(todo[r]) = "check"
      /\ Issue(r) => Head(todo[r]) = "issue"
      /\ Revoke(r) => Head(todo[r]) = "revoke"
      /\ Update(r) => Head(todo[r]) = "update"
      /\ Lookup(r) => Head(todo[r]) = "lookup"
      /\ SetPassword(r) => Head(todo[r]) = "setPassword"
  BY DEF Validate, Load, Hook, Create, Check, Issue, Revoke, Update, Lookup, SetPassword, At
<1>2. Head(todo[r]) = "hook" /\ todo[r] # <<>> => ~DbFail(r)
  BY DEF DbFail, At
<1> QED
  BY <1>1, <1>2 DEF Progress

\* A step ends its request or goes on to the next await.
LEMMA Ends ==
  ASSUME NEW r \in Requests, Progress(r) \/ DbFail(r)
  PROVE  \/ (\E a \in Answers : Answer(r, a))
         \/ (todo[r] # <<>> /\ Proceed(r))
<1>1. CASE Validate(r) \/ Lookup(r)
  <2>1. todo[r] # <<>>
    BY <1>1 DEF Validate, Lookup, At
  <2>2. (\E a \in {"badRequest", "unauthorized", "forbidden", "ok"} : Refuse(r, a)) \/ Proceed(r)
    BY <1>1 DEF Validate, Lookup, NotAllowed
  <2> QED
    BY <2>1, <2>2 DEF Refuse, Answers, HttpErrors
<1>2. CASE Create(r) \/ Load(r) \/ Hook(r) \/ Check(r)
  <2>1. todo[r] # <<>>
    BY <1>2 DEF Create, Load, Hook, Check, At
  <2>2. (\E a \in HttpErrors : Answer(r, a)) \/ Proceed(r)
    BY <1>2, HookAnswer DEF Create, Load, Check, Refuse, DuplicateKey, Absent, HttpErrors
  <2> QED
    BY <2>1, <2>2 DEF Answers, HttpErrors
<1>3. CASE Issue(r) \/ Revoke(r) \/ Update(r) \/ SetPassword(r)
  BY <1>3 DEF Issue, Revoke, Update, SetPassword, At
<1>4. CASE DbFail(r)
  BY <1>4, DbAnswer DEF Answers
<1> QED
  BY <1>1, <1>2, <1>3, <1>4 DEF Progress

\* The answer, what is left of the plan, and the tokens revoked, after a step.
LEMMA StepEnds ==
  ASSUME Typed, NEW r \in Requests, Progress(r) \/ DbFail(r)
  PROVE  /\ resp[r] = "none"
         /\ \/ resp'[r] \in Answers /\ todo'[r] = <<>>
            \/ /\ resp'[r] = "none" /\ todo[r] # <<>>
               /\ todo'[r] = Tail(todo[r]) /\ todo'[r] # <<>>
         /\ op[r] # "logout" => dead' = dead
<1>1. TypeOK /\ resp[r] = "none"
  BY Serving DEF Typed, Serves
<1>2. CASE \E a \in Answers : Answer(r, a)
  BY <1>1, <1>2, AnswerMoved
<1>3. CASE todo[r] # <<>> /\ Proceed(r)
  <2>1. "ok" \in Answers
    BY DEF Answers, HttpErrors
  <2> QED
    BY <1>1, <1>3, <2>1, ProceedMoved
<1> QED
  BY <1>1, <1>2, <1>3, Ends

\* The rows of the request served, and those of the others.
LEMMA ServedRows ==
  ASSUME Typed, NEW r \in Requests, Serves(r), NEW x \in Requests
  PROVE  /\ op'[x] = op[x] /\ login'[x] = login[x] /\ given'[x] = given[x] /\ jti'[x] = jti[x]
         /\ current'[x] = current[x] /\ issued'[x] = issued[x] /\ late'[x] = late[x]
         /\ matched[x] => matched'[x]
         /\ resp'[x] = "idle" <=> resp[x] = "idle"
         /\ x # r => /\ todo'[x] = todo[x] /\ resp'[x] = resp[x] /\ who'[x] = who[x]
                     /\ threw'[x] = threw[x] /\ wrote'[x] = wrote[x] /\ missed'[x] = missed[x]
BY DEF Serves, Moved, inputVars, arrivalVars

\* A token whose request is over stays so, and keeps its account.
HeldStays(t) ==
  Held(t) => Held(t)' /\ AccountOf(t)' = AccountOf(t) /\ t # None

LEMMA ServesKeepsHeld ==
  ASSUME Typed, NEW r \in Requests, Serves(r), NEW t
  PROVE  HeldStays(t) /\ (Held(t) => t # r)
BY NamesAssumption DEF HeldStays, Held, AccountOf, Serves, Moved

LEMMA EnterKeepsHeld ==
  ASSUME Typed, NEW r \in Requests, NEW o \in Ops, NEW l, NEW a, NEW p, NEW u,
         Entering(r, o, l, a, p, u), NEW t
  PROVE  HeldStays(t)
BY NamesAssumption DEF HeldStays, Held, AccountOf, Entering

LEMMA RemoveKeepsHeld ==
  ASSUME NEW l \in Logins, RemoveAccount(l), NEW t
  PROVE  HeldStays(t)
BY NamesAssumption DEF HeldStays, Held, AccountOf, RemoveAccount

-----------------------------------------------------------------------------
(* The invariant is preserved: the plans.                                   *)

LEMMA LifeServed ==
  ASSUME Typed, LifeInv, NEW r \in Requests, Progress(r) \/ DbFail(r)
  PROVE  LifeInv'
<1> SUFFICES ASSUME NEW x \in Requests PROVE LifeOK(x)'
  BY DEF LifeInv
<1>1. Serves(r)
  BY Serving
<1>2. CASE x # r
  BY <1>1, <1>2, ServedRows DEF LifeInv, LifeOK
<1>3. CASE x = r
  <2>1. todo[r] \in Seq(Steps)
    BY DEF Typed, TypeOK, RequestTypeOK
  <2>2. IssueLast(<<>>)
    BY Nothing DEF IssueLast
  <2>3. IssueLast(todo'[r])
    BY <2>1, <2>2, StepEnds, Left DEF LifeInv, LifeOK
  <2>4. resp'[r] # "idle"
    BY <1>1 DEF Serves, Moved
  <2> QED
    BY <1>3, <2>3, <2>4 DEF LifeOK, IssueLast
<1> QED
  BY <1>2, <1>3

LEMMA LifeEntered ==
  ASSUME Typed, LifeInv, NEW r \in Requests, NEW o \in Ops, NEW l, NEW a, NEW p, NEW t,
         Entering(r, o, l, a, p, t)
  PROVE  LifeInv'
<1> SUFFICES ASSUME NEW x \in Requests PROVE LifeOK(x)'
  BY DEF LifeInv
<1>1. IssueLast(Plan(o)) /\ UNCHANGED effectVars
  BY OpsAssumption, PlanTyped DEF Entering
<1>2. CASE x # r
  BY <1>1, <1>2 DEF Entering, LifeInv, LifeOK, effectVars
<1>3. CASE x = r
  BY <1>1, <1>3 DEF Entering, LifeOK, IssueLast
<1> QED
  BY <1>2, <1>3

-----------------------------------------------------------------------------
(* The tokens.                                                              *)

\* The accounts and their tokens, after a step of a request.
LEMMA StoreStep ==
  ASSUME Typed, LifeInv, NEW r \in Requests, Progress(r) \/ DbFail(r)
  PROVE  \/ UNCHANGED <<account, token>>
         \/ /\ Issue(r) /\ Exists(r) /\ resp'[r] = "ok"
            /\ UNCHANGED <<account, who>>
            /\ token' = [token EXCEPT ![login[r]] = r]
         \/ /\ Revoke(r) /\ Exists(r) /\ UNCHANGED account
            /\ token' = [token EXCEPT ![login[r]] = None]
         \/ /\ Create(r) /\ account[login[r]] = None
            /\ account' = [account EXCEPT ![login[r]] = r]
            /\ token' = [token EXCEPT ![login[r]] = None]
<1>1. CASE Issue(r)
  <2>1. TypeOK /\ resp[r] = "none" /\ todo[r] # <<>> /\ Head(todo[r]) = "issue"
    BY <1>1, AtHead DEF Issue, Typed
  <2>2. todo[r] \in Seq(Steps) /\ IssueLast(todo[r])
    BY DEF Typed, TypeOK, RequestTypeOK, LifeInv, LifeOK
  <2>3. Len(todo[r]) = 1
    BY <2>1, <2>2, Left
  <2>4. resp'[r] = "ok"
    BY <1>1, <2>1, <2>3, ProceedMoved DEF Issue
  <2> QED
    BY <1>1, <2>4 DEF Issue, Owned
<1>2. CASE Revoke(r)
  BY <1>2 DEF Revoke, Owned, Cleared
<1>3. CASE Create(r)
  BY <1>3 DEF Create, storeVars
<1>4. CASE Validate(r) \/ Load(r) \/ Hook(r) \/ Check(r) \/ Lookup(r) \/ DbFail(r)
  BY <1>4 DEF Validate, Load, Hook, Check, Lookup, DbFail, storeVars
<1>5. CASE Update(r) \/ SetPassword(r)
  BY <1>5 DEF Update, SetPassword
<1> QED
  BY <1>1, <1>2, <1>3, <1>4, <1>5 DEF Progress

LEMMA TokenServed ==
  ASSUME Typed, LifeInv, TokenInv, NEW r \in Requests, Progress(r) \/ DbFail(r)
  PROVE  TokenInv'
<1>1. Serves(r) /\ login[r] \in Logins
  BY Serving DEF Serves, Typed, Entered
<1>2. ASSUME NEW x \in Requests PROVE PresentedOK(x)'
  <2>1. jti'[x] = jti[x] /\ PresentedOK(x)
    BY <1>1, ServedRows DEF TokenInv
  <2>2. HeldStays(jti[x])
    BY <1>1, ServesKeepsHeld
  <2> QED
    BY <2>1, <2>2 DEF PresentedOK, HeldStays, Held
<1>3. ASSUME NEW l \in Logins PROVE StoredOK(l)'
  <2>1. StoredOK(l) /\ HeldStays(token[l])
    BY <1>1, ServesKeepsHeld DEF TokenInv
  <2>2. account \in [Logins -> Accounts] /\ token \in [Logins -> Accounts]
    BY DEF Typed, TypeOK, StoreTypeOK
  <2>3. CASE account'[l] = account[l] /\ token'[l] = token[l]
    BY <2>1, <2>3 DEF StoredOK, HeldStays, Held, AccountOf
  <2>4. CASE token'[l] = None
    BY <2>4 DEF StoredOK
  <2>5. CASE /\ Exists(r) /\ resp'[r] = "ok" /\ l = login[r] /\ UNCHANGED <<account, who>>
             /\ token' = [token EXCEPT ![login[r]] = r]
    <3>1. token'[l] = r /\ account'[l] = who'[r] /\ account'[l] # None /\ r # Original
      BY <2>2, <2>5, NamesAssumption DEF Exists
    <3> QED
      BY <2>5, <3>1 DEF StoredOK, Held, AccountOf
  <2> QED
    BY <2>2, <2>3, <2>4, <2>5, StoreStep
<1> QED
  BY <1>2, <1>3 DEF TokenInv

LEMMA TokenEntered ==
  ASSUME Typed, TokenInv, NEW r \in Requests, NEW o \in Ops, NEW l, NEW a, NEW p, NEW t,
         Entering(r, o, l, a, p, t), t = None \/ Held(t)
  PROVE  TokenInv'
<1>1. \A u : HeldStays(u)
  BY EnterKeepsHeld
<1>2. UNCHANGED <<account, token>>
  BY DEF Entering, storeVars
<1>3. ASSUME NEW x \in Requests PROVE PresentedOK(x)'
  <2>1. PresentedOK(x) /\ HeldStays(jti[x]) /\ HeldStays(t)
    BY <1>1 DEF TokenInv
  <2>2. CASE x = r
    BY <2>1, <2>2 DEF Entering, PresentedOK, HeldStays, Held
  <2>3. CASE x # r
    BY <2>1, <2>3 DEF Entering, PresentedOK, HeldStays, Held
  <2> QED
    BY <2>2, <2>3
<1>4. ASSUME NEW m \in Logins PROVE StoredOK(m)'
  <2>1. StoredOK(m) /\ HeldStays(token[m])
    BY <1>1 DEF TokenInv
  <2> QED
    BY <1>2, <2>1 DEF StoredOK, HeldStays, Held, AccountOf
<1> QED
  BY <1>3, <1>4 DEF TokenInv

LEMMA TokenRemoved ==
  ASSUME Typed, TokenInv, NEW m \in Logins, RemoveAccount(m)
  PROVE  TokenInv'
<1>1. account \in [Logins -> Accounts] /\ token \in [Logins -> Accounts]
  BY DEF Typed, TypeOK, StoreTypeOK
<1>2. ASSUME NEW l \in Logins PROVE StoredOK(l)'
  <2>1. StoredOK(l)
    BY DEF TokenInv
  <2>2. CASE l = m
    BY <1>1, <2>2 DEF RemoveAccount, StoredOK
  <2>3. CASE l # m
    BY <1>1, <2>1, <2>3 DEF RemoveAccount, StoredOK, Held, AccountOf
  <2> QED
    BY <2>2, <2>3
<1>3. \A x \in Requests : PresentedOK(x)'
  BY DEF RemoveAccount, TokenInv, PresentedOK, Held, inputVars
<1> QED
  BY <1>2, <1>3 DEF TokenInv

\* The set of revoked tokens grows by the write of a logout only.
LEMMA DeadStep ==
  ASSUME Typed, RevokedInv, NEW r \in Requests, Progress(r) \/ DbFail(r)
  PROVE  \/ dead' = dead
         \/ op[r] = "logout" /\ Revoke(r) /\ resp'[r] # "none" /\ dead' = dead \cup issued[r]
<1>1. TypeOK /\ resp[r] = "none"
  BY StepEnds DEF Typed
<1>2. CASE op[r] # "logout"
  BY <1>2, StepEnds
<1>3. CASE op[r] = "logout"
  <2>1. todo[r] = <<"revoke">> /\ "revoke" \in Steps
    BY <1>1, <1>3 DEF RevokedInv, LogoutOK, Steps
  <2>2. Head(todo[r]) = "revoke" /\ Len(todo[r]) = 1 /\ todo[r] # <<>>
    BY <2>1, Singleton
  <2>3. Revoke(r) \/ DbFail(r)
    BY <2>2, WhichStep
  <2>4. CASE Revoke(r)
    <3>1. Proceed(r)
      BY <2>4 DEF Revoke
    <3>2. resp'[r] = "ok" /\ dead' \in {dead, dead \cup issued[r]}
      BY <1>1, <2>2, <3>1, ProceedMoved
    <3> QED
      BY <1>3, <2>4, <3>2
  <2>5. CASE DbFail(r)
    <3>1. PICK a \in HttpErrors : Answer(r, a)
      BY <2>5, DbAnswer
    <3>2. a \in Answers /\ a # "ok"
      BY <3>1 DEF Answers, HttpErrors
    <3> QED
      BY <1>1, <3>1, <3>2, AnswerMoved
  <2> QED
    BY <2>3, <2>4, <2>5
<1> QED
  BY <1>2, <1>3

\* A revoked token is not stored again: a step stores no token but the one it issues.
LEMMA RevokedServed ==
  ASSUME Typed, LifeInv, TokenInv, RevokedInv, NEW r \in Requests, Progress(r) \/ DbFail(r)
  PROVE  RevokedInv'
<1>1. Serves(r) /\ resp[r] = "none" /\ login[r] \in Logins
  BY Serving DEF Serves, Typed, Entered
<1>2. account \in [Logins -> Accounts] /\ token \in [Logins -> Accounts]
  BY DEF Typed, TypeOK, StoreTypeOK
<1>3. dead \subseteq Accounts \X Logins /\ issued[r] \subseteq Accounts \X Logins
  BY DEF Typed, TypeOK, HistoryTypeOK
<1>4. ASSUME NEW t \in Accounts, NEW l \in Logins, Held(t), token[l] # t PROVE token'[l] # t
  <2>1. t # r /\ t # None
    BY <1>1, <1>4, ServesKeepsHeld DEF HeldStays
  <2>2. token'[l] \in {token[l], r, None}
    BY <1>2, StoreStep
  <2> QED
    BY <1>4, <2>1, <2>2
<1>5. ASSUME NEW s \in dead' PROVE Held(s[1])' /\ token'[s[2]] # s[1]
  <2>1. CASE s \in dead
    <3>1. s[1] \in Accounts /\ s[2] \in Logins /\ Held(s[1]) /\ token[s[2]] # s[1]
      BY <1>3, <2>1 DEF RevokedInv, DeadOK
    <3>2. HeldStays(s[1])
      BY <1>1, ServesKeepsHeld
    <3> QED
      BY <1>4, <3>1, <3>2 DEF HeldStays
  <2>2. CASE s \notin dead
    <3>1. s \in issued[r] /\ op[r] = "logout" /\ Revoke(r)
      BY <1>5, <2>2, DeadStep
    <3>2. s[1] \in Accounts /\ s[2] = login[r] /\ Held(s[1]) /\ AccountOf(s[1]) = who[r]
      BY <1>1, <1>3, <3>1 DEF RevokedInv, LogoutOK
    <3>3. HeldStays(s[1])
      BY <1>1, ServesKeepsHeld
    <3>4. CASE Exists(r)
      <4>1. token'[login[r]] = None
        BY <1>1, <1>2, <3>1, <3>4 DEF Revoke, Owned, Cleared
      <4> QED
        BY <3>2, <3>3, <4>1 DEF HeldStays
    <3>5. CASE ~Exists(r)
      <4>1. token' = token
        BY <3>1, <3>5 DEF Revoke, Owned
      <4>2. token[login[r]] # s[1]
        BY <1>1, <3>2, <3>3, <3>5 DEF TokenInv, StoredOK, HeldStays, Exists
      <4> QED
        BY <3>2, <3>3, <4>1, <4>2 DEF HeldStays
    <3> QED
      BY <3>4, <3>5
  <2> QED
    BY <2>1, <2>2
<1>6. ASSUME NEW x \in Requests PROVE LateOK(x)'
  <2>1. dead \subseteq dead'
    BY DeadStep
  <2> QED
    BY <1>1, <2>1, ServedRows DEF RevokedInv, LateOK
<1>7. ASSUME NEW x \in Requests PROVE LogoutOK(x)'
  <2> SUFFICES ASSUME op'[x] = "logout", resp'[x] = "none"
               PROVE  /\ todo'[x] = <<"revoke">>
                      /\ \A s \in issued'[x] :
                           Held(s[1])' /\ s[2] = login'[x] /\ AccountOf(s[1])' = who'[x]
    BY DEF LogoutOK
  <2>1. CASE x = r
    <3>1. todo[r] = <<"revoke">> /\ "revoke" \in Steps
      BY <1>1, <2>1, ServedRows DEF RevokedInv, LogoutOK, Steps
    <3>2. Tail(todo[r]) = <<>>
      BY <3>1, Singleton
    <3> QED
      BY <2>1, <3>2, StepEnds DEF Answers, HttpErrors
  <2>2. CASE x # r
    <3>1. /\ op[x] = "logout" /\ resp[x] = "none" /\ todo'[x] = todo[x] /\ issued'[x] = issued[x]
          /\ login'[x] = login[x] /\ who'[x] = who[x]
      BY <1>1, <2>2, ServedRows
    <3>2. todo[x] = <<"revoke">>
      BY <3>1 DEF RevokedInv, LogoutOK
    <3>3. ASSUME NEW s \in issued[x]
          PROVE  Held(s[1])' /\ s[2] = login[x] /\ AccountOf(s[1])' = who[x]
      <4>1. Held(s[1]) /\ s[2] = login[x] /\ AccountOf(s[1]) = who[x]
        BY <3>1, <3>3 DEF RevokedInv, LogoutOK
      <4>2. HeldStays(s[1])
        BY <1>1, ServesKeepsHeld
      <4> QED
        BY <4>1, <4>2 DEF HeldStays
    <3> QED
      BY <3>1, <3>2, <3>3
  <2> QED
    BY <2>1, <2>2
<1> QED
  BY <1>5, <1>6, <1>7 DEF RevokedInv, DeadOK

LEMMA RevokedEntered ==
  ASSUME Typed, LifeInv, RevokedInv, NEW r \in Requests, NEW o \in Ops, NEW l, NEW a, NEW p, NEW t,
         Entering(r, o, l, a, p, t)
  PROVE  RevokedInv'
<1>1. \A u : HeldStays(u)
  BY EnterKeepsHeld
<1>2. dead' = dead /\ token' = token
  BY DEF Entering, storeVars
<1>3. ASSUME NEW s \in dead PROVE Held(s[1])' /\ token[s[2]] # s[1]
  <2>1. Held(s[1]) /\ token[s[2]] # s[1] /\ HeldStays(s[1])
    BY <1>1 DEF RevokedInv, DeadOK
  <2> QED
    BY <2>1 DEF HeldStays
<1>4. ASSUME NEW x \in Requests PROVE LateOK(x)'
  BY <1>2 DEF RevokedInv, LateOK, Entering
<1>5. ASSUME NEW x \in Requests PROVE LogoutOK(x)'
  <2> SUFFICES ASSUME op'[x] = "logout", resp'[x] = "none"
               PROVE  /\ todo'[x] = <<"revoke">>
                      /\ \A s \in issued'[x] :
                           Held(s[1])' /\ s[2] = login'[x] /\ AccountOf(s[1])' = who'[x]
    BY DEF LogoutOK
  <2>1. CASE x = r
    <3>1. o = "logout" /\ todo'[x] = Plan("logout") /\ Plan("logout") # <<>>
      BY <2>1 DEF Entering
    <3>2. todo'[x] = <<"revoke">>
      BY <3>1, TokenPlans DEF When
    <3>3. ASSUME NEW s \in issued'[x]
          PROVE  Held(s[1])' /\ s[2] = login'[x] /\ AccountOf(s[1])' = who'[x]
      <4>1. s \in Issued /\ s[2] = l /\ AccountOf(s[1]) = a /\ login'[x] = l /\ who'[x] = a
        BY <2>1, <3>3 DEF Entering
      <4>2. Held(s[1]) /\ HeldStays(s[1])
        BY <1>1, <4>1 DEF Issued, Held
      <4> QED
        BY <4>1, <4>2 DEF HeldStays
    <3> QED
      BY <3>2, <3>3
  <2>2. CASE x # r
    <3>1. /\ op[x] = "logout" /\ resp[x] = "none" /\ todo'[x] = todo[x] /\ issued'[x] = issued[x]
          /\ login'[x] = login[x] /\ who'[x] = who[x]
      BY <2>2 DEF Entering
    <3>2. todo[x] = <<"revoke">>
      BY <3>1 DEF RevokedInv, LogoutOK
    <3>3. ASSUME NEW s \in issued[x]
          PROVE  Held(s[1])' /\ s[2] = login[x] /\ AccountOf(s[1])' = who[x]
      <4>1. Held(s[1]) /\ s[2] = login[x] /\ AccountOf(s[1]) = who[x] /\ HeldStays(s[1])
        BY <1>1, <3>1, <3>3 DEF RevokedInv, LogoutOK
      <4> QED
        BY <4>1 DEF HeldStays
    <3> QED
      BY <3>1, <3>2, <3>3
  <2> QED
    BY <2>1, <2>2
<1> QED
  BY <1>2, <1>3, <1>4, <1>5 DEF RevokedInv, DeadOK

LEMMA RevokedRemoved ==
  ASSUME Typed, RevokedInv, NEW m \in Logins, RemoveAccount(m)
  PROVE  RevokedInv'
<1>1. /\ token' = [token EXCEPT ![m] = None]
      /\ UNCHANGED <<todo, inputVars, who, resp, arrivalVars, dead>>
  BY DEF RemoveAccount
<1>2. UNCHANGED <<op, login, jti, issued, late>>
  BY <1>1 DEF inputVars, arrivalVars
<1>3. token \in [Logins -> Accounts] /\ dead \subseteq Accounts \X Logins
  BY DEF Typed, TypeOK, StoreTypeOK, HistoryTypeOK
<1>4. ASSUME NEW s \in dead PROVE Held(s[1])' /\ token'[s[2]] # s[1]
  <2>1. Held(s[1]) /\ token[s[2]] # s[1] /\ HeldStays(s[1]) /\ s[2] \in Logins
    BY <1>3, RemoveKeepsHeld DEF RevokedInv, DeadOK
  <2>2. token'[s[2]] \in {token[s[2]], None}
    BY <1>1, <1>3, <2>1
  <2> QED
    BY <2>1, <2>2 DEF HeldStays
<1>5. \A x \in Requests : LateOK(x)' /\ LogoutOK(x)'
  BY <1>1, <1>2 DEF RevokedInv, LateOK, LogoutOK, Held, AccountOf
<1> QED
  BY <1>1, <1>4, <1>5 DEF RevokedInv, DeadOK

\* A refresh is served by the check and the write of the new token only.
LEMMA RefreshStep ==
  ASSUME Typed, RefreshInv, NEW r \in Requests, Progress(r) \/ DbFail(r), op[r] = "refresh"
  PROVE  /\ who' = who
         /\ \/ todo[r] = <<"check", "issue">> /\ Check(r)
            \/ todo[r] = <<"issue">> /\ Issue(r) /\ current[r] /\ ~late[r]
            \/ DbFail(r) /\ resp'[r] \in HttpErrors
<1>1. resp[r] = "none" /\ TypeOK
  BY StepEnds DEF Typed
<1>2. "check" \in Steps /\ "issue" \in Steps
  BY DEF Steps
<1>3. DbFail(r) => resp'[r] \in HttpErrors /\ who' = who
  BY <1>1, DbAnswer, AnswerMoved DEF DbFail, Answers
<1>4. CASE todo[r] = <<"check", "issue">>
  <2>1. Check(r) \/ DbFail(r)
    BY <1>2, <1>4, Pair, WhichStep
  <2> QED
    BY <1>3, <1>4, <2>1 DEF Check
<1>5. CASE todo[r] = <<"issue">> /\ current[r] /\ ~late[r]
  <2>1. Issue(r) \/ DbFail(r)
    BY <1>2, <1>5, Singleton, WhichStep
  <2> QED
    BY <1>3, <1>5, <2>1 DEF Issue
<1> QED
  BY <1>1, <1>4, <1>5 DEF RefreshInv, RefreshOK

LEMMA StaleServed ==
  ASSUME Typed, LifeInv, TokenInv, StaleInv, RefreshInv, NEW r \in Requests, Progress(r) \/ DbFail(r)
  PROVE  StaleInv'
<1> SUFFICES ASSUME NEW x \in Requests, op'[x] = "refresh", resp'[x] # "idle", ~current'[x], jti'[x] # None
             PROVE  ~(account'[login'[x]] = who'[x] /\ token'[login'[x]] = jti'[x])
  BY DEF StaleInv, StaleOK
<1>1. Serves(r) /\ resp[r] = "none" /\ login[r] \in Logins
  BY Serving DEF Serves, Typed, Entered
<1>2. /\ op[x] = "refresh" /\ resp[x] # "idle" /\ ~current[x] /\ jti[x] # None
      /\ login'[x] = login[x] /\ jti'[x] = jti[x]
  BY <1>1, ServedRows
<1>3. ~(account[login[x]] = who[x] /\ token[login[x]] = jti[x]) /\ Held(jti[x]) /\ login[x] \in Logins
  BY <1>2 DEF StaleInv, StaleOK, TokenInv, PresentedOK, Typed, Entered
<1>4. jti[x] # r /\ jti[x] # None
  BY <1>1, <1>2, <1>3, ServesKeepsHeld
<1>5. who'[x] = who[x]
  BY <1>1, <1>2, RefreshStep, ServedRows
<1>6. account \in [Logins -> Accounts] /\ token \in [Logins -> Accounts]
  BY DEF Typed, TypeOK, StoreTypeOK
<1>7. (account'[login[x]] = account[login[x]] /\ token'[login[x]] = token[login[x]])
      \/ token'[login[x]] \in {r, None}
  BY <1>1, <1>3, <1>6, StoreStep
<1> QED
  BY <1>2, <1>3, <1>4, <1>5, <1>7

LEMMA StaleEntered ==
  ASSUME Typed, StaleInv, NEW r \in Requests, NEW o \in Ops, NEW l, NEW a, NEW p, NEW t,
         Entering(r, o, l, a, p, t)
  PROVE  StaleInv'
<1> SUFFICES ASSUME NEW x \in Requests PROVE StaleOK(x)'
  BY DEF StaleInv
<1>1. account' = account /\ token' = token
  BY DEF Entering, storeVars
<1>2. CASE x = r
  BY <1>1, <1>2 DEF Entering, StaleOK
<1>3. CASE x # r
  BY <1>1, <1>3 DEF Entering, StaleInv, StaleOK
<1> QED
  BY <1>2, <1>3

LEMMA StaleRemoved ==
  ASSUME Typed, StaleInv, NEW m \in Logins, RemoveAccount(m)
  PROVE  StaleInv'
<1> SUFFICES ASSUME NEW x \in Requests PROVE StaleOK(x)'
  BY DEF StaleInv
<1>1. account \in [Logins -> Accounts] /\ token \in [Logins -> Accounts]
  BY DEF Typed, TypeOK, StoreTypeOK
<1>2. UNCHANGED <<op, login, jti, resp, current, who>>
  BY DEF RemoveAccount, inputVars, arrivalVars
<1>3. resp[x] # "idle" => login[x] \in Logins
  BY DEF Typed, Entered
<1>4. login[x] # m => account'[login[x]] = account[login[x]] /\ token'[login[x]] = token[login[x]]
  BY <1>1 DEF RemoveAccount
<1>5. login[x] = m => token'[login[x]] = None
  BY <1>1 DEF RemoveAccount
<1> QED
  BY <1>2, <1>4, <1>5 DEF StaleInv, StaleOK

\* A refresh that passes the check presents the token its account stores now.
LEMMA CheckPassed ==
  ASSUME Typed, RevokedInv, StaleInv, NEW r \in Requests, Check(r), TokenOK(r), op[r] = "refresh"
  PROVE  current[r] /\ ~late[r]
<1>1. /\ account[login[r]] = who[r] /\ token[login[r]] # None /\ jti[r] = token[login[r]]
      /\ resp[r] = "none"
  BY DEF TokenOK, Exists, Check, At
<1>2. current[r]
  BY <1>1 DEF StaleInv, StaleOK
<1>3. ~late[r]
  <2> SUFFICES ASSUME late[r] PROVE FALSE
    OBVIOUS
  <2>1. <<jti[r], login[r]>> \in dead
    BY DEF RevokedInv, LateOK
  <2>2. token[login[r]] # jti[r]
    BY <2>1 DEF RevokedInv, DeadOK
  <2> QED
    BY <1>1, <2>2
<1> QED
  BY <1>2, <1>3

LEMMA RefreshServed ==
  ASSUME Typed, RevokedInv, StaleInv, RefreshInv, NEW r \in Requests, Progress(r) \/ DbFail(r)
  PROVE  RefreshInv'
<1> SUFFICES ASSUME NEW x \in Requests PROVE RefreshOK(x)'
  BY DEF RefreshInv
<1>1. Serves(r) /\ TypeOK /\ resp[r] = "none"
  BY Serving DEF Typed, Serves
<1>2. CASE x # r
  BY <1>1, <1>2, ServedRows DEF RefreshInv, RefreshOK
<1>3. CASE x = r /\ op[r] = "refresh"
  <2>1. /\ op'[r] = op[r] /\ current'[r] = current[r] /\ late'[r] = late[r]
    BY <1>1, ServedRows
  <2>2. CASE todo[r] = <<"check", "issue">> /\ Check(r)
    <3>1. todo[r] # <<>> /\ Tail(todo[r]) = <<"issue">> /\ Len(todo[r]) = 2
      BY <2>2, Pair DEF Steps
    <3>2. CASE TokenOK(r)
      <4>1. Proceed(r) /\ current[r] /\ ~late[r]
        BY <1>3, <2>2, <3>2, CheckPassed DEF Check
      <4>2. Len(todo[r]) # 1
        BY <3>1
      <4>3. resp'[r] = "none" /\ todo'[r] = Tail(todo[r])
        BY <1>1, <3>1, <4>1, <4>2, ProceedMoved
      <4> QED
        BY <1>3, <2>1, <3>1, <4>1, <4>3 DEF RefreshOK
    <3>3. CASE ~TokenOK(r)
      <4>1. Answer(r, "unauthorized") /\ "unauthorized" \in Answers
        BY <2>2, <3>3 DEF Check, Answers, HttpErrors
      <4>2. resp'[r] = "unauthorized"
        BY <1>1, <4>1, AnswerMoved
      <4> QED
        BY <1>3, <4>2 DEF RefreshOK
    <3> QED
      BY <3>2, <3>3
  <2>3. CASE todo[r] = <<"issue">> /\ Issue(r) /\ current[r] /\ ~late[r]
    <3>1. todo[r] # <<>> /\ Len(todo[r]) = 1
      BY <2>3, Singleton DEF Steps
    <3>2. resp'[r] = "ok"
      BY <1>1, <2>3, <3>1, ProceedMoved DEF Issue
    <3> QED
      BY <1>3, <2>1, <2>3, <3>2 DEF RefreshOK
  <2>4. CASE resp'[r] \in HttpErrors
    BY <1>3, <2>4 DEF RefreshOK, HttpErrors
  <2> QED
    BY <1>3, <2>2, <2>3, <2>4, RefreshStep
<1>4. CASE x = r /\ op[r] # "refresh"
  BY <1>1, <1>4, ServedRows DEF RefreshOK
<1> QED
  BY <1>2, <1>3, <1>4

LEMMA RefreshEntered ==
  ASSUME Typed, RefreshInv, NEW r \in Requests, NEW o \in Ops, NEW l, NEW a, NEW p, NEW t,
         Entering(r, o, l, a, p, t)
  PROVE  RefreshInv'
<1> SUFFICES ASSUME NEW x \in Requests PROVE RefreshOK(x)'
  BY DEF RefreshInv
<1>1. CASE x # r
  BY <1>1 DEF Entering, RefreshInv, RefreshOK
<1>2. CASE x = r
  <2> SUFFICES ASSUME op'[x] = "refresh"
               PROVE  /\ resp'[x] = "none" => todo'[x] = <<"check", "issue">>
                      /\ ~(TokenField /\ resp'[x] = "ok")
    BY DEF RefreshOK
  <2>1. o = "refresh" /\ todo'[x] = Plan("refresh")
        /\ resp'[x] = IF Plan("refresh") = <<>> THEN "ok" ELSE "none"
    BY <1>2 DEF Entering
  <2>2. Plan("refresh") = IF TokenField THEN <<"check", "issue">> ELSE <<>>
    BY TokenPlans DEF When
  <2>3. <<"check", "issue">> # <<>>
    BY Pair DEF Steps
  <2> QED
    BY <2>1, <2>2, <2>3
<1> QED
  BY <1>1, <1>2

-----------------------------------------------------------------------------
(* The passwords.                                                           *)

\* An account and its password, after a step of a request.
LEMMA PasswordStep ==
  ASSUME Typed, NEW r \in Requests, Progress(r) \/ DbFail(r)
  PROVE  \/ UNCHANGED <<account, password>>
         \/ /\ account' \in {account, [account EXCEPT ![login[r]] = r]}
            /\ password' = [password EXCEPT ![login[r]] = given[r]]
            /\ matched' = [s \in Requests |->
                             matched[s] \/ (login[s] = login[r] /\ given[s] = given[r])]
<1>1. CASE Create(r)
  BY <1>1 DEF Create, storeVars
<1>2. CASE SetPassword(r)
  BY <1>2 DEF SetPassword
<1>3. CASE Validate(r) \/ Load(r) \/ Hook(r) \/ Check(r) \/ Lookup(r) \/ DbFail(r)
  BY <1>3 DEF Validate, Load, Hook, Check, Lookup, DbFail, storeVars
<1>4. CASE Issue(r) \/ Revoke(r) \/ Update(r)
  BY <1>4 DEF Issue, Revoke, Update
<1> QED
  BY <1>1, <1>2, <1>3, <1>4 DEF Progress

LEMMA MatchServed ==
  ASSUME Typed, MatchInv, NEW r \in Requests, Progress(r) \/ DbFail(r)
  PROVE  MatchInv'
<1> SUFFICES ASSUME NEW x \in Requests, resp'[x] # "idle", account'[login'[x]] # None,
                    password'[login'[x]] = given'[x]
             PROVE  matched'[x]
  BY DEF MatchInv, MatchOK
<1>1. Serves(r) /\ login[r] \in Logins
  BY Serving DEF Serves, Typed, Entered
<1>2. /\ login'[x] = login[x] /\ given'[x] = given[x] /\ resp[x] # "idle" /\ login[x] \in Logins
      /\ matched[x] => matched'[x]
  BY <1>1, ServedRows DEF Typed, Entered
<1>3. account \in [Logins -> Accounts] /\ password \in [Logins -> Passwords \cup {None}]
  BY DEF Typed, TypeOK, StoreTypeOK
<1>4. CASE account'[login[x]] = account[login[x]] /\ password'[login[x]] = password[login[x]]
  BY <1>2, <1>4 DEF MatchInv, MatchOK
<1>5. CASE /\ password' = [password EXCEPT ![login[r]] = given[r]]
           /\ matched' = [s \in Requests |->
                             matched[s] \/ (login[s] = login[r] /\ given[s] = given[r])]
           /\ login[x] = login[r]
  BY <1>2, <1>3, <1>5
<1> QED
  BY <1>2, <1>3, <1>4, <1>5, PasswordStep

LEMMA MatchEntered ==
  ASSUME Typed, MatchInv, NEW r \in Requests, NEW o \in Ops, NEW l, NEW a, NEW p, NEW t,
         Entering(r, o, l, a, p, t)
  PROVE  MatchInv'
<1> SUFFICES ASSUME NEW x \in Requests PROVE MatchOK(x)'
  BY DEF MatchInv
<1>1. account' = account /\ password' = password
  BY DEF Entering, storeVars
<1>2. CASE x = r
  BY <1>1, <1>2 DEF Entering, MatchOK
<1>3. CASE x # r
  BY <1>1, <1>3 DEF Entering, MatchInv, MatchOK
<1> QED
  BY <1>2, <1>3

LEMMA MatchRemoved ==
  ASSUME Typed, MatchInv, NEW m \in Logins, RemoveAccount(m)
  PROVE  MatchInv'
<1> SUFFICES ASSUME NEW x \in Requests PROVE MatchOK(x)'
  BY DEF MatchInv
<1>1. account \in [Logins -> Accounts] /\ password \in [Logins -> Passwords \cup {None}]
  BY DEF Typed, TypeOK, StoreTypeOK
<1>2. UNCHANGED <<login, given, resp, matched>>
  BY DEF RemoveAccount, inputVars
<1>3. login[x] = m /\ resp[x] # "idle" => account'[login[x]] = None
  BY <1>1 DEF RemoveAccount
<1>4. login[x] # m /\ resp[x] # "idle" =>
        account'[login[x]] = account[login[x]] /\ password'[login[x]] = password[login[x]]
  BY <1>1 DEF RemoveAccount, Typed, Entered
<1> QED
  BY <1>2, <1>3, <1>4 DEF MatchInv, MatchOK

LEMMA LoginServed ==
  ASSUME Typed, MatchInv, LoginInv, NEW r \in Requests, Progress(r) \/ DbFail(r)
  PROVE  LoginInv'
<1> SUFFICES ASSUME NEW x \in Requests PROVE LoginOK(x)'
  BY DEF LoginInv
<1>1. Serves(r) /\ TypeOK /\ resp[r] = "none"
  BY Serving DEF Typed, Serves
<1>2. CASE x # r
  BY <1>1, <1>2, ServedRows DEF LoginInv, LoginOK
<1>3. CASE x = r
  <2> SUFFICES ASSUME op[r] = "login", ~matched'[r], resp'[r] \in {"none", "ok"} PROVE FALSE
    BY <1>1, <1>3, ServedRows DEF LoginOK
  <2>1. ~matched[r]
    BY <1>1, ServedRows
  <2>2. todo[r] = Plan("login")
    BY <1>1, <2>1 DEF LoginInv, LoginOK
  <2>3. Validate(r) \/ DbFail(r)
    BY <2>2, LoginPlan, WhichStep
  <2>4. ~(\E a \in HttpErrors : Answer(r, a))
    BY <1>1, AnswerMoved DEF Answers, HttpErrors
  <2>5. account[login[r]] # None /\ PasswordOK(r)
    BY <2>3, <2>4, DbAnswer DEF Validate, Refuse, HttpErrors
  <2> QED
    BY <1>1, <2>1, <2>5 DEF MatchInv, MatchOK, PasswordOK
<1> QED
  BY <1>2, <1>3

LEMMA LoginEntered ==
  ASSUME Typed, LoginInv, NEW r \in Requests, NEW o \in Ops, NEW l, NEW a, NEW p, NEW t,
         Entering(r, o, l, a, p, t)
  PROVE  LoginInv'
BY LoginPlan DEF Entering, LoginInv, LoginOK

-----------------------------------------------------------------------------
(* The registrations and the changes of password.                           *)

\* What a request has recorded stays recorded.
LEMMA Recorded ==
  ASSUME Typed, NEW r \in Requests, Progress(r) \/ DbFail(r)
  PROVE  (wrote[r] => wrote'[r]) /\ (threw[r] => threw'[r]) /\ (missed[r] => missed'[r])
<1>1. TypeOK
  BY DEF Typed
<1>2. (UNCHANGED wrote \/ wrote' = [wrote EXCEPT ![r] = TRUE]) => (wrote[r] => wrote'[r])
  BY <1>1, MarkedRow
<1>3. (UNCHANGED threw \/ threw' = [threw EXCEPT ![r] = TRUE]) => (threw[r] => threw'[r])
  BY <1>1, MarkedRow
<1>4. (UNCHANGED missed \/ missed' = [missed EXCEPT ![r] = TRUE]) => (missed[r] => missed'[r])
  BY <1>1, MarkedRow
<1>5. Changed(r) => (wrote[r] => wrote'[r]) /\ (missed[r] => missed'[r])
  BY <1>1, ChangedRow
<1>6. CASE Issue(r) \/ Revoke(r) \/ Update(r) \/ SetPassword(r)
  BY <1>3, <1>5, <1>6 DEF Issue, Revoke, Update, SetPassword
<1>7. CASE Validate(r) \/ Check(r) \/ Load(r) \/ Hook(r) \/ Create(r) \/ Lookup(r) \/ DbFail(r)
  <2>1. /\ UNCHANGED wrote \/ wrote' = [wrote EXCEPT ![r] = TRUE]
        /\ UNCHANGED threw \/ threw' = [threw EXCEPT ![r] = TRUE]
        /\ UNCHANGED missed \/ missed' = [missed EXCEPT ![r] = TRUE]
    BY <1>7 DEF Validate, Check, Load, Hook, Create, Lookup, DbFail, effectVars
  <2> QED
    BY <1>2, <1>3, <1>4, <2>1
<1> QED
  BY <1>6, <1>7 DEF Progress

\* Why a request is answered as it is.
LEMMA Outcomes ==
  ASSUME Typed, NEW r \in Requests, Progress(r) \/ DbFail(r)
  PROVE  /\ resp'[r] = "failed" => threw'[r] \/ missed'[r]
         /\ resp'[r] = "ok" => Len(todo[r]) = 1 \/ threw'[r] \/ missed'[r]
<1>1. TypeOK /\ resp[r] = "none"
  BY StepEnds DEF Typed
<1>2. \A a \in Answers : Answer(r, a) => resp'[r] = a
  BY <1>1, AnswerMoved
<1>3. todo[r] # <<>> /\ Proceed(r) => resp'[r] = "none" \/ (resp'[r] = "ok" /\ Len(todo[r]) = 1)
  BY <1>1, ProceedMoved
<1>4. missed' = [missed EXCEPT ![r] = TRUE] => missed'[r]
  BY <1>1, MarkedRow
<1>5. threw' = [threw EXCEPT ![r] = TRUE] => threw'[r]
  BY <1>1, MarkedRow
<1>6. CASE Validate(r) \/ Check(r)
  <2>1. todo[r] # <<>> /\ (Answer(r, "unauthorized") \/ Answer(r, "forbidden") \/ Proceed(r))
    BY <1>6 DEF Validate, Check, At, Refuse
  <2> QED
    BY <1>2, <1>3, <2>1 DEF Answers, HttpErrors
<1>7. CASE Load(r) \/ Hook(r)
  <2>1. todo[r] # <<>>
    BY <1>7 DEF Load, Hook, At
  <2>2. \/ Proceed(r)
        \/ Answer(r, "failed") /\ missed' = [missed EXCEPT ![r] = TRUE]
        \/ (\E a \in HttpErrors : Answer(r, a)) /\ threw' = [threw EXCEPT ![r] = TRUE]
    BY <1>7, HookAnswer DEF Load, Absent
  <2> QED
    BY <1>2, <1>3, <1>4, <1>5, <2>1, <2>2 DEF Answers, HttpErrors
<1>8. CASE Create(r)
  <2>1. todo[r] # <<>> /\ (Answer(r, "conflict") \/ Proceed(r))
    BY <1>8 DEF Create, At, Refuse, DuplicateKey
  <2> QED
    BY <1>2, <1>3, <1>8, <2>1 DEF Answers, HttpErrors
<1>9. CASE Issue(r) \/ Revoke(r) \/ Update(r) \/ SetPassword(r)
  <2>1. todo[r] # <<>> /\ Proceed(r)
    BY <1>9 DEF Issue, Revoke, Update, SetPassword, At
  <2> QED
    BY <1>3, <2>1
<1>10. CASE Lookup(r)
  <2>1. todo[r] # <<>>
    BY <1>10 DEF Lookup, At
  <2>2. \/ Answer(r, "badRequest") \/ Answer(r, "unauthorized") \/ Answer(r, "forbidden") \/ Proceed(r)
        \/ Answer(r, "ok") /\ missed' = [missed EXCEPT ![r] = TRUE]
        \/ Answer(r, "ok") /\ threw' = [threw EXCEPT ![r] = TRUE]
    BY <1>10 DEF Lookup, Refuse, NotAllowed
  <2> QED
    BY <1>2, <1>3, <1>4, <1>5, <2>1, <2>2 DEF Answers, HttpErrors
<1>11. CASE DbFail(r)
  <2>1. (\E a \in HttpErrors : Answer(r, a)) /\ threw' = [threw EXCEPT ![r] = TRUE]
    BY <1>11, DbAnswer DEF DbFail
  <2> QED
    BY <1>2, <1>5, <2>1 DEF Answers, HttpErrors
<1> QED
  BY <1>6, <1>7, <1>8, <1>9, <1>10, <1>11 DEF Progress

\* After the creation only a rejecting registerCallback is answered with another error
\* than "failed".
LEMMA FinishingStep ==
  ASSUME Typed, NEW r \in Requests, Progress(r) \/ DbFail(r), Finishing(todo[r])
  PROVE  resp'[r] \in HttpErrors \ {"failed"} => threw'[r] /\ "register" \in Hooks
<1>1. TypeOK /\ resp[r] = "none" /\ todo[r] \in Seq(Steps)
  BY StepEnds DEF Typed, TypeOK, RequestTypeOK
<1>2. CASE todo[r] # <<>> /\ Proceed(r)
  BY <1>1, <1>2, ProceedMoved DEF HttpErrors
<1>3. CASE Answer(r, "failed")
  BY <1>1, <1>3, AnswerMoved DEF Answers, HttpErrors
<1>4. CASE todo[r] = <<>>
  <2>1. DbFail(r) /\ ~At(r, "create")
    BY <1>4 DEF Progress, At, Validate, Load, Hook, Create, Check, Issue, Revoke, Update, Lookup,
                SetPassword
  <2> QED
    BY <1>3, <2>1, DbAnswer
<1>5. CASE todo[r] # <<>>
  <2>1. Head(todo[r]) \in {"load", "hook", "issue"}
    BY <1>1, <1>5, Left DEF Finishing
  <2>2. CASE Head(todo[r]) = "hook"
    <3>1. Hook(r) /\ "register" \in Hooks
      BY <1>1, <1>5, <2>2, WhichStep, Left DEF Finishing
    <3> QED
      BY <1>1, <1>2, <1>5, <3>1, HookAnswer, MarkedRow
  <2>3. CASE Head(todo[r]) \in {"load", "issue"}
    <3>1. DbFail(r) => Answer(r, "failed")
      BY <2>3, DbAnswer DEF At
    <3>2. Load(r) \/ Issue(r) => Proceed(r) \/ Answer(r, "failed")
      BY DEF Load, Issue, Absent
    <3> QED
      BY <1>2, <1>3, <1>5, <2>3, <3>1, <3>2, WhichStep
  <2> QED
    BY <2>1, <2>2, <2>3
<1> QED
  BY <1>4, <1>5

LEMMA RegisterServed ==
  ASSUME Typed, RegisterInv, NEW r \in Requests, Progress(r) \/ DbFail(r)
  PROVE  RegisterInv'
<1> SUFFICES ASSUME NEW x \in Requests PROVE RegisterOK(x)'
  BY DEF RegisterInv
<1>1. Serves(r) /\ TypeOK /\ resp[r] = "none"
  BY Serving DEF Typed, Serves
<1>2. CASE x # r
  BY <1>1, <1>2, ServedRows DEF RegisterInv, RegisterOK, Has
<1>3. CASE x = r /\ op[r] # "register"
  BY <1>1, <1>3, ServedRows DEF RegisterOK
<1>4. CASE x = r /\ op[r] = "register"
  <2>1. todo[r] \in Seq(Steps) /\ "hook" \in Steps
    BY <1>1 DEF TypeOK, RequestTypeOK, Steps
  <2>2. resp'[r] = "failed" => threw'[r] \/ missed'[r]
    BY Outcomes
  <2>3. CASE ~wrote[r] /\ todo[r] = <<"hook">> \o Creating
    <3>1. todo[r] # <<>> /\ Head(todo[r]) = "hook" /\ Tail(todo[r]) = Creating
          /\ Len(todo[r]) = 1 + Len(Creating)
      BY <2>1, <2>3, RegisterParts, Prefixed
    <3>2. Hook(r)
      BY <3>1, WhichStep
    <3>3. Len(todo[r]) # 1
      BY <3>1, RegisterParts, Left
    <3>4. wrote' = wrote /\ (Proceed(r) \/ \E a \in HttpErrors : Answer(r, a))
      BY <3>2, HookAnswer DEF Hook, effectVars
    <3>5. resp'[r] \in HttpErrors \/ (resp'[r] = "none" /\ todo'[r] = Creating)
      BY <1>1, <3>1, <3>3, <3>4, ProceedMoved, AnswerMoved DEF Answers
    <3> QED
      BY <1>4, <2>2, <2>3, <3>4, <3>5 DEF RegisterOK, HttpErrors
  <2>4. CASE ~wrote[r] /\ todo[r] = Creating
    <3>1. todo[r] # <<>> /\ Head(todo[r]) = "create" /\ Finishing(Tail(todo[r]))
      BY <2>4, RegisterParts DEF Finishing
    <3>2. CASE DbFail(r)
      <4>1. resp'[r] \in HttpErrors /\ wrote' = wrote
        BY <1>1, <3>2, DbAnswer, AnswerMoved DEF DbFail, Answers, effectVars
      <4> QED
        BY <1>4, <2>2, <2>4, <4>1 DEF RegisterOK, HttpErrors
    <3>3. CASE Create(r) /\ Refuse(r, DuplicateKey(r)) /\ UNCHANGED wrote
      <4>1. resp'[r] = "conflict"
        BY <1>1, <3>3, AnswerMoved DEF Refuse, DuplicateKey, Answers, HttpErrors
      <4> QED
        BY <1>4, <2>4, <3>3, <4>1 DEF RegisterOK
    <3>4. CASE Proceed(r) /\ wrote' = [wrote EXCEPT ![r] = TRUE]
      <4>1. wrote'[r]
        BY <1>1, <3>4, MarkedRow
      <4>2. resp'[r] = "ok" \/ (resp'[r] = "none" /\ Finishing(todo'[r]))
        BY <1>1, <3>1, <3>4, ProceedMoved
      <4> QED
        BY <1>4, <4>1, <4>2 DEF RegisterOK, Finishing, Has, HttpErrors
    <3>5. Create(r) \/ DbFail(r)
      BY <3>1, WhichStep
    <3>6. Create(r) => \/ Refuse(r, DuplicateKey(r)) /\ UNCHANGED wrote
                       \/ Proceed(r) /\ wrote' = [wrote EXCEPT ![r] = TRUE]
      BY DEF Create
    <3> QED
      BY <3>2, <3>3, <3>4, <3>5, <3>6
  <2>5. CASE wrote[r] /\ Finishing(todo[r])
    <3>1. wrote'[r]
      BY <2>5, Recorded
    <3>2. resp'[r] \in HttpErrors \ {"failed"} => threw'[r] /\ "register" \in Hooks
      BY <2>1, <2>5, FinishingStep
    <3>3. resp'[r] = "none" => Finishing(todo'[r])
      BY <2>1, <2>5, StepEnds, Left DEF Answers, HttpErrors, Finishing
    <3> QED
      BY <1>4, <2>2, <3>1, <3>2, <3>3 DEF RegisterOK, Finishing, Has
  <2> QED
    BY <1>1, <1>4, <2>3, <2>4, <2>5 DEF RegisterInv, RegisterOK
<1> QED
  BY <1>2, <1>3, <1>4

LEMMA RegisterEntered ==
  ASSUME Typed, LifeInv, RegisterInv, NEW r \in Requests, NEW o \in Ops, NEW l, NEW a, NEW p, NEW t,
         Entering(r, o, l, a, p, t)
  PROVE  RegisterInv'
<1> SUFFICES ASSUME NEW x \in Requests PROVE RegisterOK(x)'
  BY DEF RegisterInv
<1>1. wrote' = wrote /\ threw' = threw /\ missed' = missed
  BY DEF Entering, effectVars
<1>2. CASE x # r
  BY <1>1, <1>2 DEF Entering, RegisterInv, RegisterOK, Has
<1>3. CASE x = r
  <2>1. ~wrote[r]
    BY DEF Entering, LifeInv, LifeOK
  <2>2. "hook" \in Steps /\ <<"hook">> \o Creating # <<>> /\ Creating # <<>>
    BY RegisterParts, Prefixed DEF Steps
  <2>3. o = "register" => resp'[r] = "none" /\ todo'[r] \in {<<"hook">> \o Creating, Creating}
    BY <2>2, RegisterPlan DEF Entering
  <2>4. op'[r] = o
    BY DEF Entering
  <2> QED
    BY <1>1, <1>3, <2>1, <2>3, <2>4 DEF RegisterOK
<1> QED
  BY <1>2, <1>3

LEMMA ChangeServed ==
  ASSUME Typed, ChangeInv, NEW r \in Requests, Progress(r) \/ DbFail(r)
  PROVE  ChangeInv'
<1> SUFFICES ASSUME NEW x \in Requests PROVE ChangeOK(x)'
  BY DEF ChangeInv
<1>1. Serves(r) /\ TypeOK /\ resp[r] = "none"
  BY Serving DEF Typed, Serves
<1>2. CASE x # r
  BY <1>1, <1>2, ServedRows DEF ChangeInv, ChangeOK, Has
<1>3. CASE x = r
  <2> SUFFICES ASSUME op[r] = "changePassword", ~wrote'[r], ~threw'[r], ~missed'[r]
               PROVE  /\ resp'[r] = "none" => Has(todo'[r], "setPassword")
                      /\ resp'[r] # "ok"
    BY <1>1, <1>3, ServedRows DEF ChangeOK, Has
  <2>1. todo[r] \in Seq(Steps) /\ Has(todo[r], "setPassword")
    BY <1>1, Recorded DEF TypeOK, RequestTypeOK, ChangeInv, ChangeOK
  <2>2. ~Has(<<>>, "setPassword")
    BY Nothing DEF Has
  <2>3. todo[r] # <<>>
    BY <2>1, <2>2
  <2>4. Head(todo[r]) # "setPassword" \/ DbFail(r)
    <3>1. SetPassword(r) => wrote'[r] \/ missed'[r]
      BY <1>1, ChangedRow DEF SetPassword
    <3> QED
      BY <3>1, WhichStep
  <2>5. DbFail(r) => resp'[r] \in HttpErrors
    BY <1>1, DbAnswer, AnswerMoved DEF Answers
  <2>6. CASE DbFail(r)
    BY <2>5, <2>6 DEF HttpErrors
  <2>7. CASE Head(todo[r]) # "setPassword" /\ ~DbFail(r)
    <3>1. Has(Tail(todo[r]), "setPassword")
      BY <2>1, <2>3, <2>7, Left
    <3>2. Len(todo[r]) # 1
      <4>1. Len(Tail(todo[r])) = Len(todo[r]) - 1
        BY <2>1, <2>3, HeadTailProperties
      <4>2. Len(Tail(todo[r])) # 0
        BY <3>1, <4>1 DEF Has
      <4> QED
        BY <4>1, <4>2
    <3>3. resp'[r] # "ok"
      BY <3>2, Outcomes
    <3>4. resp'[r] = "none" => Has(todo'[r], "setPassword")
      BY <3>1, StepEnds DEF Answers, HttpErrors
    <3> QED
      BY <3>3, <3>4
  <2> QED
    BY <2>4, <2>6, <2>7
<1> QED
  BY <1>2, <1>3

LEMMA ChangeEntered ==
  ASSUME Typed, ChangeInv, NEW r \in Requests, NEW o \in Ops, NEW l, NEW a, NEW p, NEW t,
         Entering(r, o, l, a, p, t)
  PROVE  ChangeInv'
<1> SUFFICES ASSUME NEW x \in Requests PROVE ChangeOK(x)'
  BY DEF ChangeInv
<1>1. wrote' = wrote /\ threw' = threw /\ missed' = missed
  BY DEF Entering, effectVars
<1>2. CASE x # r
  BY <1>1, <1>2 DEF Entering, ChangeInv, ChangeOK, Has
<1>3. CASE x = r
  <2>1. ~Has(<<>>, "setPassword")
    BY Nothing DEF Has
  <2>2. Plan("changePassword") # <<>>
    BY <2>1, ChangePlan
  <2>3. o = "changePassword" => resp'[r] = "none" /\ Has(todo'[r], "setPassword")
    BY <2>2, ChangePlan DEF Entering
  <2>4. op'[r] = o
    BY DEF Entering
  <2> QED
    BY <1>3, <2>3, <2>4 DEF ChangeOK, Has
<1> QED
  BY <1>2, <1>3

-----------------------------------------------------------------------------
(* The steps together.                                                      *)

LEMMA InvServed ==
  ASSUME IInv, NEW r \in Requests, Progress(r) \/ DbFail(r)
  PROVE  IInv'
<1>1. Typed'
  BY Serving, ServesTyped DEF IInv
<1>2. TokensInv'
  BY LifeServed, TokenServed, RevokedServed, StaleServed, RefreshServed DEF IInv, TokensInv
<1>3. MatchInv' /\ LoginInv' /\ RegisterInv' /\ ChangeInv'
  BY MatchServed, LoginServed, RegisterServed, ChangeServed DEF IInv
<1> QED
  BY <1>1, <1>2, <1>3 DEF IInv

LEMMA InvEntered ==
  ASSUME IInv, NEW r \in Requests, Arrive(r)
  PROVE  IInv'
<1>1. Typed
  BY DEF IInv
<1>2. PICK o \in Ops, l \in Logins, a \in Accounts, p \in Passwords \cup {None}, t \in Accounts :
        Enter(r, o, l, a, p, t) /\ (t = None \/ Held(t))
  BY <1>1, Arriving
<1>3. Entering(r, o, l, a, p, t) /\ Typed'
  BY <1>1, <1>2, EnterMoves
<1>4. TokensInv'
  BY <1>2, <1>3, LifeEntered, TokenEntered, RevokedEntered, StaleEntered, RefreshEntered
     DEF IInv, TokensInv
<1>5. MatchInv' /\ LoginInv' /\ RegisterInv' /\ ChangeInv'
  BY <1>3, MatchEntered, LoginEntered, RegisterEntered, ChangeEntered DEF IInv, TokensInv
<1> QED
  BY <1>3, <1>4, <1>5 DEF IInv

LEMMA InvRemoved ==
  ASSUME IInv, NEW m \in Logins, RemoveAccount(m)
  PROVE  IInv'
<1>1. UNCHANGED <<op, jti, resp, todo, current, late, threw, wrote, missed, matched>>
  BY DEF RemoveAccount, inputVars, arrivalVars, effectVars
<1>2. Typed'
  BY RemoveTyped DEF IInv
<1>3. LifeInv' /\ RefreshInv'
  BY <1>1 DEF IInv, TokensInv, LifeInv, LifeOK, IssueLast, RefreshInv, RefreshOK
<1>4. TokenInv' /\ RevokedInv' /\ StaleInv' /\ MatchInv'
  BY TokenRemoved, RevokedRemoved, StaleRemoved, MatchRemoved DEF IInv, TokensInv
<1>5. LoginInv' /\ RegisterInv' /\ ChangeInv'
  BY <1>1 DEF IInv, LoginInv, LoginOK, RegisterInv, RegisterOK, ChangeInv, ChangeOK, Has
<1> QED
  BY <1>2, <1>3, <1>4, <1>5 DEF IInv, TokensInv

LEMMA InvSame ==
  ASSUME IInv, UNCHANGED vars
  PROVE  IInv'
<1>1. UNCHANGED <<account, password, token, todo, op, login, who, given, jti, resp,
                  current, matched, issued, dead, late, threw, wrote, missed>>
  BY DEF vars
<1>2. Typed'
  BY SameTyped DEF IInv
<1>3. TokensInv'
  BY <1>1 DEF IInv, TokensInv, LifeInv, LifeOK, IssueLast, TokenInv, StoredOK, PresentedOK, RevokedInv,
              DeadOK, LogoutOK, LateOK, StaleInv, StaleOK, RefreshInv, RefreshOK, Held, AccountOf
<1>4. MatchInv' /\ LoginInv' /\ RegisterInv' /\ ChangeInv'
  BY <1>1 DEF IInv, MatchInv, MatchOK, LoginInv, LoginOK, RegisterInv, RegisterOK, ChangeInv, ChangeOK, Has
<1> QED
  BY <1>2, <1>3, <1>4 DEF IInv

LEMMA InvStep == IInv /\ [Next]_vars => IInv'
<1> SUFFICES ASSUME IInv, [Next]_vars PROVE IInv'
  OBVIOUS
<1>1. ASSUME NEW r \in Requests, Arrive(r) PROVE IInv'
  BY <1>1, InvEntered
<1>2. ASSUME NEW r \in Requests, Progress(r) \/ DbFail(r) PROVE IInv'
  BY <1>2, InvServed
<1>3. ASSUME NEW l \in Logins, RemoveAccount(l) PROVE IInv'
  BY <1>3, InvRemoved
<1>4. CASE UNCHANGED vars
  BY <1>4, InvSame
<1> QED
  BY <1>1, <1>2, <1>3, <1>4 DEF Next, Quiescent

LEMMA InvAlways == Spec => []IInv
BY InvInit, InvStep, PTL DEF Spec

\* However many logins, refreshes and logouts interleave, a refresh whose token was not the
\* one its account stored when it arrived is refused (refreshToken's bcrypt comparison,
\* base-auth.service.ts): no late write of another request makes an old token good again.
THEOREM OldTokensRefused == Spec => []SupersededRefused
<1>1. IInv => SupersededRefused
  BY DEF IInv, TokensInv, RefreshInv, RefreshOK, SupersededRefused, Refreshed
<1> QED
  BY <1>1, InvAlways, PTL

\* Once a logout is answered (base-auth.service.ts:329-351), every refresh token clients
\* held when it arrived is refused to all later refreshes, whatever was in flight.
THEOREM LogoutHolds == Spec => []LogoutRevokes
<1>1. IInv => LogoutRevokes
  BY DEF IInv, TokensInv, RefreshInv, RefreshOK, LogoutRevokes, Refreshed
<1> QED
  BY <1>1, InvAlways, PTL

\* A stored refresh token was issued to the account that stores it: the updates by _id of a
\* request whose account was deleted never touch an account registered again in its place.
THEOREM TokensStayHome == Spec => []TokenOfAccount
<1>1. IInv => TokenOfAccount
  BY DEF IInv, TokensInv, TokenInv, StoredOK, TokenOfAccount
<1> QED
  BY <1>1, InvAlways, PTL

\* A login that succeeds presented a password that was its account's at a moment between its
\* arrival and its answer (validateUser), whatever changes of password ran meanwhile.
THEOREM LoginsChecked == Spec => []PasswordChecked
<1>1. IInv => PasswordChecked
  BY DEF IInv, LoginInv, LoginOK, PasswordChecked
<1> QED
  BY <1>1, InvAlways, PTL

\* What the answer of a registration tells of the account, whatever the callbacks and the
\* database reject with: created when it is accepted, created and refused with a 4xx only
\* when registerCallback rejected after the creation, created and failed only when a
\* callback or the database rejected or the account was deleted meanwhile.
THEOREM RegistrationsExplained == Spec => []RegisterExplained
<1>1. IInv => RegisterExplained
  BY DEF IInv, RegisterInv, RegisterOK, RegisterExplained
<1> QED
  BY <1>1, InvAlways, PTL

\* A change of password answered without an error has written the new one, unless the find
\* rejected or the account was not there any more: nothing else is silently lost.
THEOREM ChangesExplained == Spec => []ChangeExplained
<1>1. IInv => ChangeExplained
  BY DEF IInv, ChangeInv, ChangeOK, ChangeExplained
<1> QED
  BY <1>1, InvAlways, PTL

=============================================================================
