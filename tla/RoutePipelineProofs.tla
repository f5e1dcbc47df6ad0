-------------------------- MODULE RoutePipelineProofs --------------------------
(***************************************************************************)
(* Proofs about RoutePipeline for every set of requests, documents, users,  *)
(* sockets and routes: every variable keeps its type, a request is only     *)
(* admitted on the word of a user that shared its guard, and a socket event *)
(* writes the document its guard has judged.  Then, with an invariant of    *)
(* their own, who may write, that clients are told what has been true, and  *)
(* what they have seen when all is quiet.                                   *)
(***************************************************************************)
EXTENDS RoutePipeline, TLAPS

USE DocsAssumption, UsersAssumption, TransportAssumption, RoutesAssumption

-----------------------------------------------------------------------------
(* Types.                                                                   *)

LEMMA InitType == Init => TypeOK
<1> SUFFICES ASSUME Init PROVE TypeOK
  OBVIOUS
<1>1. /\ content \in [Docs -> Users \cup {"unborn", "gone"}]
      /\ guardUser \in [Gates -> Users \cup {NoUser}]
      /\ wsServer \in BOOLEAN /\ member \in [Sockets -> SUBSET Rooms] /\ moved \in SUBSET Sockets
  BY DEF Init
<1>2. /\ view \in [Sockets -> [Docs -> Users \cup {"gone", "unknown"}]]
      /\ past \in [Docs -> SUBSET (Users \cup {"unborn", "gone"})]
      /\ rooms \in [Requests -> [Sockets -> SUBSET Rooms]]
      /\ writer \in [Docs -> Requests \cup {Nobody}]
  BY DEF Init
<1>3. InputTypeOK
  BY DEF Init, InputTypeOK
<1>4. /\ pc \in [Requests -> PCs] /\ resp \in [Requests -> Answers \cup {"none"}]
      /\ judged \in [Requests -> SUBSET Items] /\ result \in [Requests -> SUBSET Items]
  BY DEF Init, PCs
<1>5. /\ company \in [Requests -> SUBSET Requests] /\ near \in [Requests -> SUBSET Requests]
      /\ judge \in [Requests -> Users \cup {NoUser}] /\ effect \in [Requests -> SUBSET Docs]
      /\ threw \in [Requests -> BOOLEAN]
  BY DEF Init
<1> QED
  BY <1>1, <1>2, <1>3, <1>4, <1>5 DEF TypeOK

\* An answer and a step to the next await keep the types of pc and resp.
LEMMA AnswerType ==
  ASSUME NEW r \in Requests, NEW a \in Answers, TypeOK, Answer(r, a)
  PROVE  pc' \in [Requests -> PCs] /\ resp' \in [Requests -> Answers \cup {"none"}]
BY DEF TypeOK, Answer, PCs

LEMMA GotoType ==
  ASSUME NEW r \in Requests, NEW l \in PCs, TypeOK, Goto(r, l)
  PROVE  pc' \in [Requests -> PCs] /\ resp' \in [Requests -> Answers \cup {"none"}]
BY DEF TypeOK, Goto

LEMMA GateType ==
  ASSUME TypeOK, NEW r \in Requests, route[r] \in RouteTypes
  PROVE  Gate(r) \in Gates
BY DEF Gate, Gates

\* What a client may send is typed.
LEMMA InputType ==
  ASSUME NEW t \in Routes, NEW v \in Sockets \cup {Http}, NEW f \in FlawsFor(t, v),
         NEW u \in UsersFor(t, v), NEW S \in TargetsFor(t, f)
  PROVE  /\ t \in RouteTypes /\ f \in {"none", "ids", "body"}
         /\ u \in Users \cup {NoUser} /\ S \in SUBSET Docs
<1>1. t \in RouteTypes
  OBVIOUS
<1>2. f \in {"none", "ids", "body"}
  BY DEF FlawsFor
<1>3. u \in Users \cup {NoUser}
  BY DEF UsersFor
<1>4. S \in SUBSET Docs
  BY DEF TargetsFor, Unborn
<1> QED
  BY <1>1, <1>2, <1>3, <1>4

LEMMA ArriveType ==
  ASSUME TypeOK, NEW r \in Requests, Arrive(r)
  PROVE  TypeOK'
<1>1. PICK t \in Routes, v \in Sockets \cup {Http} :
      \E f \in FlawsFor(t, v), u \in UsersFor(t, v) : \E S \in TargetsFor(t, f) :
       /\ via' = [via EXCEPT ![r] = v]
       /\ route' = [route EXCEPT ![r] = t]
       /\ user' = [user EXCEPT ![r] = u]
       /\ target' = [target EXCEPT ![r] = S]
       /\ flaw' = [flaw EXCEPT ![r] = f]
       /\ IF Identified(t, u) THEN Goto(r, "guard") ELSE Answer(r, "unauthorized")
  BY Zenon DEF Arrive
<1>2. PICK f \in FlawsFor(t, v), u \in UsersFor(t, v) : \E S \in TargetsFor(t, f) :
       /\ via' = [via EXCEPT ![r] = v]
       /\ route' = [route EXCEPT ![r] = t]
       /\ user' = [user EXCEPT ![r] = u]
       /\ target' = [target EXCEPT ![r] = S]
       /\ flaw' = [flaw EXCEPT ![r] = f]
       /\ IF Identified(t, u) THEN Goto(r, "guard") ELSE Answer(r, "unauthorized")
  BY <1>1, Zenon
<1>3. PICK S \in TargetsFor(t, f) :
       /\ via' = [via EXCEPT ![r] = v]
       /\ route' = [route EXCEPT ![r] = t]
       /\ user' = [user EXCEPT ![r] = u]
       /\ target' = [target EXCEPT ![r] = S]
       /\ flaw' = [flaw EXCEPT ![r] = f]
       /\ IF Identified(t, u) THEN Goto(r, "guard") ELSE Answer(r, "unauthorized")
  BY <1>2, Zenon
<1>4. InputTypeOK'
  BY <1>3, InputType DEF TypeOK, InputTypeOK
<1>5. pc' \in [Requests -> PCs] /\ resp' \in [Requests -> Answers \cup {"none"}]
  <2>1. CASE Goto(r, "guard")
    BY <2>1, GotoType DEF PCs
  <2>2. CASE Answer(r, "unauthorized")
    BY <2>2, AnswerType DEF Answers
  <2> QED
    BY <1>3, <2>1, <2>2
<1>6. near' \in [Requests -> SUBSET Requests]
  BY DEF Arrive, TypeOK
<1> QED
  BY <1>4, <1>5, <1>6 DEF Arrive, TypeOK, storeVars, sharedVars

\* The two guards: the field and the company of the gate change together.
LEMMA GuardType ==
  ASSUME TypeOK, NEW r \in Requests, HttpGuard(r) \/ SocketGuard(r)
  PROVE  TypeOK'
<1>1. /\ pc' \in [Requests -> PCs] /\ resp' \in [Requests -> Answers \cup {"none"}]
      /\ guardUser' \in [Gates -> Users \cup {NoUser}]
      /\ company' \in [Requests -> SUBSET Requests]
  <2>1. CASE Goto(r, "handle") /\ UNCHANGED <<guardUser, company>>
    BY <2>1, GotoType DEF PCs, TypeOK
  <2>2. CASE Answer(r, "denied") /\ UNCHANGED <<guardUser, company>>
    BY <2>2, AnswerType DEF Answers, TypeOK
  <2>3. CASE EnterGuard(r)
    <3>1. pc' \in [Requests -> PCs] /\ resp' \in [Requests -> Answers \cup {"none"}]
      BY <2>3, GotoType DEF PCs, EnterGuard
    <3>2. guardUser' \in [Gates -> Users \cup {NoUser}]
      BY <2>3 DEF EnterGuard, TypeOK, InputTypeOK
    <3>3. company' \in [Requests -> SUBSET Requests]
      BY <2>3 DEF EnterGuard, TypeOK
    <3> QED
      BY <3>1, <3>2, <3>3
  <2> QED
    BY <2>1, <2>2, <2>3 DEF HttpGuard, SocketGuard
<1>2. UNCHANGED <<storeVars, wsServer, member, moved, view, rooms, inputVars, judged, result,
                  judge, near, threw>>
  BY DEF HttpGuard, SocketGuard
<1> QED
  BY <1>1, <1>2 DEF TypeOK, InputTypeOK, storeVars, inputVars

LEMMA GuardFindType ==
  ASSUME TypeOK, NEW r \in Requests, GuardFind(r)
  PROVE  TypeOK'
<1>1. PICK S \in GuardFinds(r) :
        /\ judged' = [judged EXCEPT ![r] = {Item(d, content[d]) : d \in S}]
        /\ IF S = {} /\ route[r] \in OneIdRoutes /\ flaw[r] # "ids"
             THEN Answer(r, "invalid") ELSE Goto(r, "judge")
  BY DEF GuardFind
<1>2. \A d \in S : d \in Docs /\ content[d] \in Users
  BY DEF GuardFinds, Alive
<1>3. judged' \in [Requests -> SUBSET Items]
  BY <1>1, <1>2 DEF TypeOK, Items, Item
<1>4. pc' \in [Requests -> PCs] /\ resp' \in [Requests -> Answers \cup {"none"}]
  BY <1>1, GotoType, AnswerType DEF PCs, Answers
<1> QED
  BY <1>3, <1>4 DEF GuardFind, TypeOK, InputTypeOK, storeVars, sharedVars, inputVars

LEMMA JudgeType ==
  ASSUME TypeOK, NEW r \in Requests, route[r] \in RouteTypes, Judge(r)
  PROVE  TypeOK'
<1>1. judge' \in [Requests -> Users \cup {NoUser}]
  BY GateType DEF Judge, TypeOK
<1>2. pc' \in [Requests -> PCs] /\ resp' \in [Requests -> Answers \cup {"none"}]
  BY GotoType, AnswerType DEF PCs, Answers, Judge
<1> QED
  BY <1>1, <1>2 DEF Judge, TypeOK, InputTypeOK, storeVars, sharedVars, inputVars

\* What a service writes is a set of documents.
LEMMA EffectsType ==
  ASSUME TypeOK, NEW r \in Requests, NEW E \in Effects(r)
  PROVE  E \subseteq Docs
BY DEF Effects, NewDocs, Unborn, Hit, TypeOK, InputTypeOK

LEMMA ServeType ==
  ASSUME TypeOK, NEW r \in Requests, Serve(r)
  PROVE  TypeOK'
<1>1. CASE (Answer(r, "notFound") \/ Answer(r, "failed")) /\ UNCHANGED <<storeVars, result>>
  <2>1. pc' \in [Requests -> PCs] /\ resp' \in [Requests -> Answers \cup {"none"}]
    BY <1>1, AnswerType DEF Answers
  <2> QED
    BY <1>1, <2>1 DEF Serve, TypeOK, InputTypeOK, storeVars, sharedVars, inputVars
<1>2. ASSUME NEW E \in Effects(r),
             NEW f \in IF route[r] \in DeleteRoutes THEN {[d \in E |-> "gone"]} ELSE [E -> Users],
             content' = [d \in Docs |-> IF d \in E THEN f[d] ELSE content[d]],
             effect' = [effect EXCEPT ![r] = E],
             writer' = [d \in Docs |-> IF d \in E THEN r ELSE writer[d]],
             past' = [d \in Docs |-> past[d] \cup {content'[d]}],
             result' = [result EXCEPT ![r] =
                          IF route[r] \in {"UpdateOne", "ReplaceOne"}
                            THEN {Item(d, f[d]) : d \in E} ELSE {}],
             Goto(r, IF route[r] \in RereadRoutes THEN "reread" ELSE "answer")
      PROVE  TypeOK'
  <2>1. E \subseteq Docs
    BY EffectsType
  <2>2. \A d \in E : f[d] \in Users \cup {"gone"}
    BY <1>2
  <2>3. content' \in [Docs -> Users \cup {"unborn", "gone"}]
    BY <1>2, <2>1, <2>2 DEF TypeOK
  <2>4. effect' \in [Requests -> SUBSET Docs] /\ writer' \in [Docs -> Requests \cup {Nobody}]
    BY <1>2, <2>1 DEF TypeOK
  <2>5. \A d \in E : Item(d, f[d]) \in Items
    <3> SUFFICES ASSUME NEW d \in E PROVE Item(d, f[d]) \in Items
      OBVIOUS
    <3> DEFINE o == f[d]
    <3>1. d \in Docs /\ o \in Users \cup {"gone"}
      BY <2>1, <2>2
    <3> HIDE DEF o
    <3>2. Item(d, o) \in Items
      BY <3>1 DEF Item, Items
    <3> QED
      BY <3>2 DEF o
  <2>6. {Item(d, f[d]) : d \in E} \subseteq Items
    BY <2>5, Zenon
  <2>7. result' \in [Requests -> SUBSET Items]
    BY <1>2, <2>6 DEF TypeOK
  <2>8. pc' \in [Requests -> PCs] /\ resp' \in [Requests -> Answers \cup {"none"}]
    BY <1>2, GotoType DEF PCs
  <2>9. past' \in [Docs -> SUBSET (Users \cup {"unborn", "gone"})]
    BY <1>2, <2>3 DEF TypeOK
  <2> QED
    BY <2>3, <2>4, <2>7, <2>8, <2>9 DEF Serve, TypeOK, InputTypeOK, sharedVars, inputVars
<1> QED
  BY <1>1, <1>2 DEF Serve

LEMMA RereadType ==
  ASSUME TypeOK, NEW r \in Requests, Reread(r)
  PROVE  TypeOK'
<1> DEFINE I == {Item(d, content[d]) : d \in {e \in effect[r] : Alive(e)}}
<1>1. I \subseteq Items
  BY DEF TypeOK, Items, Item, Alive
<1>2. result' \in [Requests -> SUBSET Items]
  BY <1>1 DEF Reread, TypeOK
<1>3. pc' \in [Requests -> PCs] /\ resp' \in [Requests -> Answers \cup {"none"}]
  BY GotoType, AnswerType DEF PCs, Answers, Reread
<1> QED
  BY <1>2, <1>3 DEF Reread, TypeOK, InputTypeOK, storeVars, sharedVars, inputVars

LEMMA RefuseInputType ==
  ASSUME TypeOK, NEW r \in Requests, RefuseInput(r)
  PROVE  TypeOK'
<1>1. pc' \in [Requests -> PCs] /\ resp' \in [Requests -> Answers \cup {"none"}]
  BY AnswerType DEF Answers, RefuseInput
<1> QED
  BY <1>1 DEF RefuseInput, TypeOK, InputTypeOK, storeVars, sharedVars, inputVars

LEMMA RejectType ==
  ASSUME TypeOK, NEW r \in Requests, Reject(r) \/ GuardRejects(r)
  PROVE  TypeOK'
<1>1. pc' \in [Requests -> PCs] /\ resp' \in [Requests -> Answers \cup {"none"}]
  BY AnswerType, GotoType DEF Answers, PCs, Reject, GuardRejects
<1>2. threw' \in [Requests -> BOOLEAN]
  BY DEF Reject, GuardRejects, TypeOK
<1> QED
  BY <1>1, <1>2 DEF Reject, GuardRejects, TypeOK, InputTypeOK, storeVars, sharedVars, inputVars

\* What a handler broadcasts is a set of items.
LEMMA ToldType ==
  ASSUME TypeOK, NEW r \in Requests, NEW u
  PROVE  Enabled(r, Told(r), u) \subseteq Items
<1>1. {Item(d, "gone") : d \in target[r]} \subseteq Items
  BY DEF TypeOK, InputTypeOK, Items, Item
<1>2. result[r] \subseteq Items
  BY DEF TypeOK
<1> QED
  BY <1>1, <1>2 DEF Enabled, Told

LEMMA RespondType ==
  ASSUME TypeOK, NEW r \in Requests, Respond(r)
  PROVE  TypeOK'
<1> DEFINE I == IF via[r] = Http THEN BroadcastFromHttp(r) ELSE BroadcastIfNeeded(r)
<1>1. I \subseteq Items
  BY ToldType DEF BroadcastFromHttp, BroadcastIfNeeded
<1>2. \A d \in Docs : (\E x \in I : x.id = d) =>
        (CHOOSE x \in I : x.id = d).owner \in Users \cup {"gone"}
  <2> SUFFICES ASSUME NEW d \in Docs, \E x \in I : x.id = d
               PROVE  (CHOOSE x \in I : x.id = d).owner \in Users \cup {"gone"}
    OBVIOUS
  <2> DEFINE c == CHOOSE x \in I : x.id = d
  <2>1. c \in I
    OBVIOUS
  <2> HIDE DEF c, I
  <2>2. c.owner \in Users \cup {"gone"}
    BY <1>1, <2>1 DEF Items
  <2> QED
    BY <2>2 DEF c
<1>3. Emit(r, I)
  BY DEF Respond
<1> HIDE DEF I
<1>4. view' \in [Sockets -> [Docs -> Users \cup {"gone", "unknown"}]]
  BY <1>2, <1>3 DEF Emit, TypeOK
<1>5. pc' \in [Requests -> PCs] /\ resp' \in [Requests -> Answers \cup {"none"}]
  BY AnswerType DEF Answers, Respond
<1>6. rooms' \in [Requests -> [Sockets -> SUBSET Rooms]]
  BY DEF Respond, TypeOK
<1> QED
  BY <1>4, <1>5, <1>6 DEF Respond, TypeOK, InputTypeOK, storeVars, sharedVars, inputVars

\* The steps of the broadcast gateway, and the pause when all is answered.
LEMMA OtherType ==
  ASSUME TypeOK, AfterInit \/ (\E s \in Sockets : JoinRooms(s) \/ LeaveRooms(s))
                   \/ Quiescent \/ UNCHANGED vars
  PROVE  TypeOK'
<1>1. CASE AfterInit
  BY <1>1 DEF AfterInit, TypeOK, InputTypeOK, storeVars, inputVars
<1>2. ASSUME NEW s \in Sockets, JoinRooms(s) \/ LeaveRooms(s)
      PROVE  TypeOK'
  <2>1. PICK M \in SUBSET Rooms : MoveTo(s, M)
    BY <1>2 DEF JoinRooms, LeaveRooms, TypeOK
  <2>2. member' \in [Sockets -> SUBSET Rooms] /\ moved' \in SUBSET Sockets
    BY <2>1 DEF MoveTo, TypeOK
  <2> QED
    BY <2>1, <2>2 DEF MoveTo, TypeOK, InputTypeOK, storeVars, inputVars
<1>3. CASE Quiescent \/ UNCHANGED vars
  BY <1>3 DEF Quiescent, vars, TypeOK, InputTypeOK
<1> QED
  BY <1>1, <1>2, <1>3

-----------------------------------------------------------------------------
(* The invariant of the requests.                                           *)

LEMMA InitInv == Init => IInv
<1> SUFFICES ASSUME Init PROVE IInv
  OBVIOUS
<1>1. TypeOK
  BY InitType
<1>2. ASSUME NEW r \in Requests
      PROVE  RequestInv(r)
  BY DEF Init, RequestInv, FieldInCompany, AllowedInCompany, Arrived, OneWrite, Judging,
         Admitted, MustBeJudged
<1> QED
  BY <1>1, <1>2 DEF IInv

\* A request that a step leaves alone keeps its part of the invariant.
LEMMA Bystander ==
  ASSUME NEW r \in Requests, RequestInv(r), TypeOK,
         pc'[r] = pc[r], resp'[r] = resp[r], judged'[r] = judged[r], effect'[r] = effect[r],
         company'[r] = company[r], UNCHANGED <<inputVars, guardUser>>,
         \A q \in Requests : pc[q] # "idle" => pc'[q] # "idle"
  PROVE  RequestInv(r)'
<1>1. /\ \A q \in Requests : Gate(q)' = Gate(q) /\ user'[q] = user[q]
      /\ Judging(r)' <=> Judging(r)
      /\ Admitted(r)' <=> Admitted(r)
      /\ MustBeJudged(r)' <=> MustBeJudged(r)
      /\ JudgedIds(r)' = JudgedIds(r)
  BY DEF Gate, Judging, Admitted, MustBeJudged, JudgedIds, inputVars
<1>2. company[r] \subseteq Requests
  BY DEF TypeOK
<1>3. FieldInCompany(r)'
  BY <1>1, <1>2 DEF RequestInv, FieldInCompany
<1>4. AllowedInCompany(r)'
  BY <1>1, <1>2 DEF RequestInv, AllowedInCompany
<1>5. Arrived(r)'
  BY <1>2 DEF RequestInv, Arrived, inputVars
<1>6. OneWrite(r)'
  BY <1>1 DEF RequestInv, OneWrite, inputVars
<1> QED
  BY <1>3, <1>4, <1>5, <1>6 DEF RequestInv

\* What a request past its find still needs when it moves on within its handler.
LEMMA Onward ==
  ASSUME NEW r \in Requests, RequestInv(r), TypeOK,
         pc[r] \in {"handle", "reread", "answer"}, pc'[r] \in {"reread", "answer", "done"},
         pc'[r] # "done" => resp'[r] = "none",
         UNCHANGED <<inputVars, guardUser, company, judged>>,
         \A q \in Requests : pc[q] # "idle" => pc'[q] # "idle",
         \/ effect'[r] = effect[r]
         \/ effect'[r] \subseteq target[r]
         \/ route[r] \notin {"UpdateOne", "ReplaceOne", "DeleteOne"},
         effect'[r] # effect[r] => pc[r] = "handle"
  PROVE  RequestInv(r)'
<1>1. /\ \A q \in Requests : Gate(q)' = Gate(q) /\ user'[q] = user[q]
      /\ ~Judging(r)'
      /\ Admitted(r)
      /\ MustBeJudged(r)' <=> MustBeJudged(r)
      /\ JudgedIds(r)' = JudgedIds(r)
  BY DEF Gate, Judging, Admitted, MustBeJudged, JudgedIds, inputVars
<1>2. company[r] \subseteq Requests
  BY DEF TypeOK
<1>3. FieldInCompany(r)'
  BY <1>1 DEF FieldInCompany
<1>4. AllowedInCompany(r)'
  BY <1>1, <1>2 DEF RequestInv, AllowedInCompany
<1>5. Arrived(r)'
  BY <1>2 DEF RequestInv, Arrived, inputVars
<1>6. OneWrite(r)'
  BY <1>1 DEF RequestInv, OneWrite, inputVars
<1> QED
  BY <1>3, <1>4, <1>5, <1>6 DEF RequestInv

LEMMA ArriveInv ==
  ASSUME IInv, NEW p \in Requests, Arrive(p), NEW r \in Requests
  PROVE  RequestInv(r)'
<1>1. PICK t \in Routes, v \in Sockets \cup {Http} :
      \E f \in FlawsFor(t, v), u \in UsersFor(t, v) : \E S \in TargetsFor(t, f) :
       /\ via' = [via EXCEPT ![p] = v]
       /\ route' = [route EXCEPT ![p] = t]
       /\ user' = [user EXCEPT ![p] = u]
       /\ target' = [target EXCEPT ![p] = S]
       /\ flaw' = [flaw EXCEPT ![p] = f]
       /\ IF Identified(t, u) THEN Goto(p, "guard") ELSE Answer(p, "unauthorized")
  BY Zenon DEF Arrive
<1>2. PICK f \in FlawsFor(t, v), u \in UsersFor(t, v) : \E S \in TargetsFor(t, f) :
       /\ via' = [via EXCEPT ![p] = v]
       /\ route' = [route EXCEPT ![p] = t]
       /\ user' = [user EXCEPT ![p] = u]
       /\ target' = [target EXCEPT ![p] = S]
       /\ flaw' = [flaw EXCEPT ![p] = f]
       /\ IF Identified(t, u) THEN Goto(p, "guard") ELSE Answer(p, "unauthorized")
  BY <1>1, Zenon
<1>3. PICK S \in TargetsFor(t, f) :
       /\ via' = [via EXCEPT ![p] = v]
       /\ route' = [route EXCEPT ![p] = t]
       /\ user' = [user EXCEPT ![p] = u]
       /\ target' = [target EXCEPT ![p] = S]
       /\ flaw' = [flaw EXCEPT ![p] = f]
       /\ IF Identified(t, u) THEN Goto(p, "guard") ELSE Answer(p, "unauthorized")
  BY <1>2, Zenon
<1>4. /\ pc[p] = "idle" /\ UNCHANGED <<judged, effect, company, guardUser>>
      /\ RequestInv(p) /\ RequestInv(r) /\ TypeOK
  BY DEF Arrive, storeVars, sharedVars, IInv
<1>5. /\ pc' \in [Requests -> PCs] /\ \A q \in Requests \ {p} : pc'[q] = pc[q] /\ resp'[q] = resp[q]
      /\ \/ pc'[p] = "guard" /\ resp'[p] = resp[p] /\ Identified(t, u)
         \/ pc'[p] = "done" /\ resp'[p] = "unauthorized"
  BY <1>3, <1>4 DEF Goto, Answer, TypeOK, PCs
<1>6. t \in RouteTypes /\ u \in Users \cup {NoUser}
  BY InputType
<1>7. /\ via'[p] = v /\ route'[p] = t /\ user'[p] = u /\ target'[p] = S /\ flaw'[p] = f
      /\ \A q \in Requests \ {p} : /\ via'[q] = via[q] /\ route'[q] = route[q]
                                   /\ user'[q] = user[q] /\ target'[q] = target[q]
                                   /\ flaw'[q] = flaw[q] /\ Gate(q)' = Gate(q)
  BY <1>3, <1>4 DEF TypeOK, InputTypeOK, Gate
<1>8. CASE r = p
  <2>1. FieldInCompany(r)' /\ AllowedInCompany(r)'
    BY <1>5, <1>8, <1>4 DEF FieldInCompany, AllowedInCompany, Judging, Admitted, RequestInv, Arrived
  <2>2. Arrived(r)'
    BY <1>4, <1>5, <1>6, <1>7, <1>8 DEF Arrived, RequestInv, Identified
  <2>3. OneWrite(r)'
    <3>1. effect'[r] = {}
      BY <1>4, <1>8 DEF RequestInv, Arrived
    <3>2. t \in {"UpdateOne", "ReplaceOne", "DeleteOne"} =>
            /\ S = {} \/ \E d \in Docs : S = {d}
            /\ f = "ids" => S = {}
      BY DEF TargetsFor, OneIdRoutes
    <3> QED
      BY <3>1, <3>2, <1>5, <1>7, <1>8 DEF OneWrite
  <2> QED
    BY <2>1, <2>2, <2>3 DEF RequestInv
<1>9. CASE r # p
  <2>1. p \notin company[r] /\ company[r] \subseteq Requests
    BY <1>4 DEF RequestInv, Arrived, TypeOK
  <2>2. FieldInCompany(r)'
    BY <1>4, <1>5, <1>7, <1>9, <2>1 DEF RequestInv, FieldInCompany, Judging
  <2>3. AllowedInCompany(r)'
    BY <1>4, <1>5, <1>7, <1>9, <2>1 DEF RequestInv, AllowedInCompany, Admitted, MustBeJudged
  <2>4. Arrived(r)'
    BY <1>4, <1>5, <1>7, <1>9, <2>1 DEF RequestInv, Arrived
  <2>5. OneWrite(r)'
    BY <1>4, <1>5, <1>7, <1>9 DEF RequestInv, OneWrite, MustBeJudged, JudgedIds
  <2> QED
    BY <2>2, <2>3, <2>4, <2>5 DEF RequestInv
<1> QED
  BY <1>8, <1>9

\* A guard lets a request on, answers it, or takes its user into the shared field.
LEMMA GuardInv ==
  ASSUME IInv, NEW p \in Requests, HttpGuard(p) \/ SocketGuard(p), NEW r \in Requests
  PROVE  RequestInv(r)'
<1>1. /\ RequestInv(p) /\ RequestInv(r) /\ TypeOK /\ company[r] \subseteq Requests
      /\ pc[p] = "guard" /\ UNCHANGED <<inputVars, judged, effect>>
  BY DEF IInv, TypeOK, HttpGuard, SocketGuard, storeVars
<1>2. /\ \A q \in Requests : Gate(q)' = Gate(q) /\ user'[q] = user[q]
      /\ MustBeJudged(r)' <=> MustBeJudged(r)
      /\ JudgedIds(r)' = JudgedIds(r)
  BY <1>1 DEF Gate, MustBeJudged, JudgedIds, inputVars
<1>3. ~MustBeJudged(p) \/ user[p] \in Users \/ user[p] = NoUser
  BY <1>1 DEF TypeOK, InputTypeOK
<1>4. CASE EnterGuard(p) /\ user[p] \in Users
  <2>1. /\ pc' = [pc EXCEPT ![p] = "find"] /\ resp' = resp
        /\ guardUser' = [guardUser EXCEPT ![Gate(p)] = user[p]]
        /\ company'[r] = IF Judging(r) /\ Gate(r) = Gate(p) THEN company[r] \cup {p} ELSE company[r]
    BY <1>4, <1>1 DEF EnterGuard, Goto
  <2>2. Gate(p) \in Gates /\ (pc[r] # "idle" => Gate(r) \in Gates)
    BY <1>1, GateType DEF RequestInv, Arrived
  <2>3. guardUser'[Gate(p)] = user[p] /\ \A g \in Gates \ {Gate(p)} : guardUser'[g] = guardUser[g]
    BY <2>1, <2>2, <1>1 DEF TypeOK
  <2>4. pc'[p] = "find" /\ \A q \in Requests \ {p} : pc'[q] = pc[q]
    BY <2>1, <1>1 DEF TypeOK
  <2>5. resp[p] = "none" /\ resp'[r] = resp[r]
    BY <2>1, <1>1 DEF RequestInv, Arrived
  <2>6. FieldInCompany(r)'
    <3>1. CASE r = p \/ (Judging(r) /\ Gate(r) = Gate(p))
      <4>1. p \in (company[r] \cup {r})' /\ Gate(p)' = Gate(r)' /\ user'[p] \in Users
        BY <3>1, <1>2, <1>4, <2>1
      <4>2. guardUser'[Gate(r)'] = user'[p]
        BY <3>1, <1>2, <2>3
      <4> QED
        BY <4>1, <4>2 DEF FieldInCompany
    <3>2. CASE r # p /\ ~Judging(r)
      BY <3>2, <2>4 DEF FieldInCompany, Judging
    <3>3. CASE r # p /\ Judging(r) /\ Gate(r) # Gate(p)
      <4>1. guardUser'[Gate(r)] = guardUser[Gate(r)] /\ company'[r] = company[r]
        BY <3>3, <2>1, <2>2, <2>3 DEF Judging
      <4>2. PICK q \in company[r] \cup {r} :
              user[q] \in Users /\ Gate(q) = Gate(r) /\ guardUser[Gate(r)] = user[q]
        BY <3>3, <1>1 DEF RequestInv, FieldInCompany
      <4>3. q \in Requests
        BY <1>1, <4>2
      <4> QED
        BY <4>1, <4>2, <4>3, <1>2 DEF FieldInCompany
    <3> QED
      BY <3>1, <3>2, <3>3
  <2>7. AllowedInCompany(r)'
    BY <1>1, <1>2, <2>1, <2>4, <2>5 DEF RequestInv, AllowedInCompany, Admitted
  <2>8. Arrived(r)'
    BY <1>1, <2>1, <2>4, <2>5 DEF RequestInv, Arrived, inputVars, Judging
  <2>9. OneWrite(r)'
    BY <1>1, <1>2, <2>4 DEF RequestInv, OneWrite, inputVars
  <2> QED
    BY <2>6, <2>7, <2>8, <2>9 DEF RequestInv
<1>5. CASE /\ UNCHANGED <<guardUser, company>>
           /\ Answer(p, "denied") \/ (Goto(p, "handle") /\ ~MustBeJudged(p))
  <2>1. /\ \A q \in Requests \ {p} : pc'[q] = pc[q] /\ resp'[q] = resp[q]
        /\ \/ pc'[p] = "done" /\ resp'[p] = "denied"
           \/ pc'[p] = "handle" /\ resp'[p] = resp[p] /\ ~MustBeJudged(p)
    BY <1>1, <1>5 DEF Answer, Goto, TypeOK
  <2>2. CASE r # p
    BY <2>1, <2>2, <1>1, <1>5, Bystander
  <2>3. CASE r = p
    <3>1. FieldInCompany(r)' /\ AllowedInCompany(r)'
      BY <2>1, <2>3, <1>2 DEF FieldInCompany, AllowedInCompany, Judging, Admitted
    <3>2. Arrived(r)'
      BY <2>1, <2>3, <1>1, <1>5 DEF RequestInv, Arrived, inputVars
    <3>3. OneWrite(r)'
      BY <2>1, <2>3, <1>1, <1>2 DEF RequestInv, OneWrite, inputVars
    <3> QED
      BY <3>1, <3>2, <3>3 DEF RequestInv
  <2> QED
    BY <2>2, <2>3
<1>6. user[p] \in Users \cup {NoUser} /\ (route[p] \in Public \/ user[p] \in Users)
  BY <1>1 DEF RequestInv, Arrived, TypeOK, InputTypeOK
<1> QED
  BY <1>4, <1>5, <1>6 DEF HttpGuard, SocketGuard, MustBeJudged

\* The find of a guard: what a socket event will write is among what it read.
LEMMA GuardFindInv ==
  ASSUME IInv, NEW p \in Requests, GuardFind(p), NEW r \in Requests
  PROVE  RequestInv(r)'
<1>1. /\ RequestInv(p) /\ RequestInv(r) /\ TypeOK /\ company[r] \subseteq Requests
      /\ pc[p] = "find" /\ UNCHANGED <<inputVars, effect, company, guardUser>>
  BY DEF IInv, TypeOK, GuardFind, storeVars, sharedVars
<1>2. PICK S \in GuardFinds(p) :
        /\ judged' = [judged EXCEPT ![p] = {Item(d, content[d]) : d \in S}]
        /\ IF S = {} /\ route[p] \in OneIdRoutes /\ flaw[p] # "ids"
             THEN Answer(p, "invalid") ELSE Goto(p, "judge")
  BY DEF GuardFind
<1>3. /\ \A q \in Requests \ {p} : pc'[q] = pc[q] /\ resp'[q] = resp[q] /\ judged'[q] = judged[q]
      /\ judged'[p] = {Item(d, content[d]) : d \in S}
      /\ \/ pc'[p] = "done" /\ resp'[p] = "invalid"
         \/ /\ pc'[p] = "judge" /\ resp'[p] = resp[p]
            /\ ~(S = {} /\ route[p] \in OneIdRoutes /\ flaw[p] # "ids")
  BY <1>1, <1>2 DEF Answer, Goto, TypeOK
<1>4. /\ \A q \in Requests : Gate(q)' = Gate(q) /\ user'[q] = user[q]
      /\ MustBeJudged(r)' <=> MustBeJudged(r)
  BY <1>1 DEF Gate, MustBeJudged, inputVars
<1>5. CASE r # p
  BY <1>1, <1>3, <1>5, Bystander
<1>6. CASE r = p
  <2>1. FieldInCompany(r)'
    BY <1>1, <1>3, <1>4, <1>6 DEF RequestInv, FieldInCompany, Judging
  <2>2. AllowedInCompany(r)'
    BY <1>1, <1>3, <1>6 DEF RequestInv, AllowedInCompany, Admitted, Arrived
  <2>3. Arrived(r)'
    BY <1>1, <1>3, <1>6 DEF RequestInv, Arrived, inputVars
  <2>4. ASSUME route[p] \in {"UpdateOne", "ReplaceOne", "DeleteOne"}, via[p] # Http, MustBeJudged(p),
               pc'[p] = "judge"
        PROVE  target[p] \subseteq JudgedIds(p)'
    <3>1. target[p] = {} \/ \E d \in Docs : target[p] = {d}
      BY <2>4, <1>1 DEF RequestInv, OneWrite
    <3>2. CASE flaw[p] = "ids"
      BY <3>2, <2>4, <1>1 DEF RequestInv, OneWrite
    <3>3. CASE flaw[p] # "ids"
      <4>1. route[p] \in OneIdRoutes
        BY <2>4 DEF OneIdRoutes
      <4>2. S = target[p] \cap {d \in Docs : Alive(d)} /\ S # {}
        BY <4>1, <3>3, <2>4, <1>2, <1>3 DEF GuardFinds
      <4>3. target[p] \subseteq S
        BY <4>2, <3>1
      <4>4. \A d \in S : Item(d, content[d]) \in judged'[p] /\ Item(d, content[d]).id = d
        BY <1>3 DEF Item
      <4> QED
        BY <4>3, <4>4 DEF JudgedIds
    <3> QED
      BY <3>2, <3>3
  <2>5. effect[r] = {} \/ ~(route[r] \in {"UpdateOne", "ReplaceOne", "DeleteOne"} /\ via[r] # Http /\ MustBeJudged(r))
    BY <1>1, <1>6 DEF RequestInv, OneWrite
  <2>6. OneWrite(r)'
    BY <1>1, <1>3, <1>4, <1>6, <2>4, <2>5 DEF RequestInv, OneWrite, inputVars
  <2> QED
    BY <2>1, <2>2, <2>3, <2>6 DEF RequestInv
<1> QED
  BY <1>5, <1>6

\* The verdict is that of the user whose name is in the field, one of the company.
LEMMA JudgeInv ==
  ASSUME IInv, NEW p \in Requests, Judge(p), NEW r \in Requests
  PROVE  RequestInv(r)'
<1>1. /\ RequestInv(p) /\ RequestInv(r) /\ TypeOK /\ company[r] \subseteq Requests
      /\ pc[p] = "judge" /\ UNCHANGED <<inputVars, effect, company, guardUser, judged>>
  BY DEF IInv, TypeOK, Judge, storeVars, sharedVars
<1>2. /\ \A q \in Requests \ {p} : pc'[q] = pc[q] /\ resp'[q] = resp[q]
      /\ \/ pc'[p] = "done" /\ resp'[p] = "denied"
         \/ /\ pc'[p] = "handle" /\ resp'[p] = resp[p]
            /\ \A x \in judged[p] : x.owner = guardUser[Gate(p)]
  BY <1>1 DEF Judge, Allowed, Answer, Goto, TypeOK
<1>3. /\ \A q \in Requests : Gate(q)' = Gate(q) /\ user'[q] = user[q]
      /\ MustBeJudged(r)' <=> MustBeJudged(r)
      /\ JudgedIds(r)' = JudgedIds(r)
  BY <1>1 DEF Gate, MustBeJudged, JudgedIds, inputVars
<1>4. CASE r # p
  BY <1>1, <1>2, <1>4, Bystander
<1>5. CASE r = p
  <2>1. FieldInCompany(r)'
    BY <1>2, <1>5 DEF FieldInCompany, Judging
  <2>2. AllowedInCompany(r)'
    <3>1. PICK q \in company[r] \cup {r} :
            user[q] \in Users /\ Gate(q) = Gate(r) /\ guardUser[Gate(r)] = user[q]
      BY <1>1, <1>5 DEF RequestInv, FieldInCompany, Judging
    <3> QED
      BY <3>1, <1>1, <1>2, <1>3, <1>5 DEF AllowedInCompany, Admitted
  <2>3. Arrived(r)'
    BY <1>1, <1>2, <1>5 DEF RequestInv, Arrived, inputVars
  <2>4. OneWrite(r)'
    BY <1>1, <1>2, <1>3, <1>5 DEF RequestInv, OneWrite, inputVars
  <2> QED
    BY <2>1, <2>2, <2>3, <2>4 DEF RequestInv
<1> QED
  BY <1>4, <1>5

\* A guard whose find or predicate throws admits nobody.
LEMMA GuardRejectsInv ==
  ASSUME IInv, NEW p \in Requests, GuardRejects(p), NEW r \in Requests
  PROVE  RequestInv(r)'
<1>1. /\ RequestInv(r) /\ TypeOK
      /\ UNCHANGED <<inputVars, effect, company, guardUser, judged>>
  BY DEF IInv, GuardRejects, storeVars, sharedVars
<1>2. /\ \A q \in Requests \ {p} : pc'[q] = pc[q] /\ resp'[q] = resp[q]
      /\ pc'[p] = "done" /\ resp'[p] = "failed" /\ pc[p] # "idle"
  BY <1>1 DEF GuardRejects, Judging, Answer, TypeOK
<1>3. MustBeJudged(r)' <=> MustBeJudged(r)
  BY <1>1 DEF MustBeJudged, inputVars
<1>4. CASE r # p
  BY <1>1, <1>2, <1>4, Bystander
<1>5. CASE r = p
  <2>1. FieldInCompany(r)' /\ AllowedInCompany(r)'
    BY <1>2, <1>5 DEF FieldInCompany, AllowedInCompany, Judging, Admitted
  <2>2. Arrived(r)'
    BY <1>1, <1>2, <1>5 DEF RequestInv, Arrived, inputVars, TypeOK
  <2>3. OneWrite(r)'
    BY <1>1, <1>2, <1>3, <1>5 DEF RequestInv, OneWrite, inputVars, JudgedIds
  <2> QED
    BY <2>1, <2>2, <2>3 DEF RequestInv
<1> QED
  BY <1>4, <1>5

\* A step of the handler of p other than the write of its service.
LEMMA HandlerInv ==
  ASSUME IInv, NEW p \in Requests, NEW r \in Requests,
         pc[p] \in {"handle", "reread", "answer"},
         \/ Goto(p, "answer") \/ \E a \in Answers : Answer(p, a),
         UNCHANGED <<inputVars, guardUser, company, judged, effect>>
  PROVE  RequestInv(r)'
<1>1. RequestInv(r) /\ TypeOK
  BY DEF IInv
<1>2. /\ \A q \in Requests \ {p} : pc'[q] = pc[q] /\ resp'[q] = resp[q]
      /\ \/ pc'[p] = "done"
         \/ pc'[p] = "answer" /\ resp'[p] = resp[p]
  BY <1>1 DEF Answer, Goto, TypeOK
<1>3. pc[p] # "done" => resp[p] = "none"
  BY DEF IInv, RequestInv, Arrived
<1>4. CASE r # p
  BY <1>1, <1>2, <1>4, Bystander
<1>5. CASE r = p
  BY <1>1, <1>2, <1>3, <1>5, Onward
<1> QED
  BY <1>4, <1>5

\* The write of a service hits no document but those of its request.
LEMMA ServeInv ==
  ASSUME IInv, NEW p \in Requests, Serve(p), NEW r \in Requests
  PROVE  RequestInv(r)'
<1>1. /\ RequestInv(p) /\ RequestInv(r) /\ TypeOK /\ pc[p] = "handle"
      /\ UNCHANGED <<inputVars, company, guardUser, judged>>
  BY DEF IInv, Serve, sharedVars
<1>2. CASE (Answer(p, "notFound") \/ Answer(p, "failed")) /\ UNCHANGED <<storeVars, result>>
  BY <1>1, <1>2, HandlerInv DEF storeVars, Answers
<1>3. ASSUME NEW E \in Effects(p), effect' = [effect EXCEPT ![p] = E],
             Goto(p, IF route[p] \in RereadRoutes THEN "reread" ELSE "answer")
      PROVE  RequestInv(r)'
  <2>1. /\ \A q \in Requests \ {p} : pc'[q] = pc[q] /\ resp'[q] = resp[q] /\ effect'[q] = effect[q]
        /\ pc'[p] \in {"reread", "answer"} /\ resp'[p] = resp[p] /\ effect'[p] = E
    BY <1>1, <1>3 DEF Goto, TypeOK
  <2>2. CASE r # p
    BY <1>1, <2>1, <2>2, Bystander
  <2>3. CASE r = p
    <3>1. route[p] \in {"UpdateOne", "ReplaceOne", "DeleteOne"} => E \subseteq target[p]
      BY <1>3 DEF Effects, Hit, ReadRoutes
    <3>2. resp[p] = "none"
      BY <1>1 DEF RequestInv, Arrived
    <3> QED
      BY <1>1, <2>1, <2>3, <3>1, <3>2, Onward
  <2> QED
    BY <2>2, <2>3
<1> QED
  BY <1>2, <1>3 DEF Serve

\* The other steps of a handler.
LEMMA RestInv ==
  ASSUME IInv, NEW p \in Requests, RefuseInput(p) \/ Reread(p) \/ Reject(p) \/ Respond(p),
         NEW r \in Requests
  PROVE  RequestInv(r)'
<1>1. UNCHANGED <<inputVars, guardUser, company, judged, effect>>
  BY DEF RefuseInput, Reread, Reject, Respond, storeVars, sharedVars
<1>2. pc[p] \in {"handle", "reread", "answer"}
  BY DEF RefuseInput, Reread, Reject, Respond
<1>3. Goto(p, "answer") \/ \E a \in Answers : Answer(p, a)
  BY DEF RefuseInput, Reread, Reject, Respond, Answers
<1> QED
  BY <1>1, <1>2, <1>3, HandlerInv

\* The broadcast gateway and the pause leave the requests alone.
LEMMA OtherInv ==
  ASSUME IInv, NEW r \in Requests,
         AfterInit \/ (\E s \in Sockets : JoinRooms(s) \/ LeaveRooms(s))
           \/ Quiescent \/ UNCHANGED vars
  PROVE  RequestInv(r)'
<1>1. UNCHANGED <<pc, resp, judged, effect, company, inputVars, guardUser>>
  BY DEF AfterInit, JoinRooms, LeaveRooms, MoveTo, Quiescent, vars, inputVars, storeVars
<1>2. RequestInv(r) /\ TypeOK
  BY DEF IInv
<1> QED
  BY <1>1, <1>2, Bystander

LEMMA StepInv == IInv /\ [Next]_vars => IInv'
<1> SUFFICES ASSUME IInv, [Next]_vars PROVE IInv'
  OBVIOUS
<1>1. TypeOK
  BY DEF IInv
<1>2. ASSUME NEW p \in Requests, Arrive(p)
      PROVE  IInv'
  BY <1>1, <1>2, ArriveType, ArriveInv DEF IInv
<1>3. ASSUME NEW p \in Requests, Progress(p)
      PROVE  IInv'
  <2>1. CASE HttpGuard(p) \/ SocketGuard(p)
    BY <2>1, <1>1, GuardType, GuardInv DEF IInv
  <2>2. CASE GuardFind(p)
    BY <2>2, <1>1, GuardFindType, GuardFindInv DEF IInv
  <2>3. CASE Judge(p)
    <3>1. route[p] \in RouteTypes
      BY <2>3 DEF IInv, RequestInv, Arrived, Judge
    <3> QED
      BY <2>3, <3>1, <1>1, JudgeType, JudgeInv DEF IInv
  <2>4. CASE Serve(p)
    BY <2>4, <1>1, ServeType, ServeInv DEF IInv
  <2>5. CASE RefuseInput(p) \/ Reread(p) \/ Respond(p)
    BY <2>5, <1>1, RefuseInputType, RereadType, RespondType, RestInv DEF IInv
  <2> QED
    BY <1>3, <2>1, <2>2, <2>3, <2>4, <2>5 DEF Progress
<1>4. ASSUME NEW p \in Requests, Reject(p) \/ GuardRejects(p)
      PROVE  IInv'
  BY <1>1, <1>4, RejectType, RestInv, GuardRejectsInv DEF IInv
<1>5. CASE AfterInit \/ (\E s \in Sockets : JoinRooms(s) \/ LeaveRooms(s))
             \/ Quiescent \/ UNCHANGED vars
  BY <1>1, <1>5, OtherType, OtherInv DEF IInv
<1> QED
  BY <1>2, <1>3, <1>4, <1>5 DEF Next

-----------------------------------------------------------------------------
(* The theorems.                                                            *)

\* The invariant holds in every state: the field of a judging guard names the user of the
\* request it judges or of one that entered the guard since (base-policies.guard.ts:29).
THEOREM Invariance == Spec => []IInv
BY InitInv, StepInv, PTL DEF Spec

\* Every variable keeps its type, whatever the routes, their guards and their broadcasts:
\* no request is left without a known answer.
THEOREM TypeCorrect == Spec => []TypeOK
<1>1. IInv => TypeOK
  BY DEF IInv
<1> QED
  BY <1>1, Invariance, PTL

\* No request passes a policies guard on the word of a user that did not share the guard
\* with it, for any number of requests, users and documents: what this.user holds after
\* the find (base.service.ts:228) is never older than the request.
THEOREM GuardedByCompany == Spec => []JudgedInCompany
<1>1. IInv => JudgedInCompany
  BY DEF IInv, RequestInv, AllowedInCompany, JudgedInCompany
<1> QED
  BY <1>1, Invariance, PTL

\* A socket event that updates, replaces or deletes one document writes the one its guard
\* has judged, whatever the other requests do between the find and the write.
THEOREM JudgedWritten == Spec => []JudgedIsWritten
<1>1. IInv => JudgedIsWritten
  BY DEF IInv, RequestInv, OneWrite, JudgedIsWritten, JudgedIds
<1> QED
  BY <1>1, Invariance, PTL

-----------------------------------------------------------------------------
(* What requests write and what their broadcasts tell: a second invariant,  *)
(* preserved wherever the first one holds.                                  *)

Starting == {"idle", "guard", "find", "judge", "handle"}

\* What a request has recorded by the await it is at.
RecordOK(r) ==
  /\ pc[r] \in Starting => effect[r] = {} /\ result[r] = {}
  /\ \A x \in result[r] : x.id \in effect[r]
  /\ pc[r] = "idle" => target[r] = {} /\ ~threw[r] /\ near[r] = {}
  /\ pc[r] # "idle" => flaw[r] \in FlawsFor(route[r], via[r])
  /\ pc[r] = "reread" => route[r] \in RereadRoutes
  /\ (threw[r] /\ resp[r] = "none") => pc[r] = "answer" /\ route[r] \in DeleteRoutes

\* The ids of a request are of documents that have been stored; a delete whose call has
\* not rejected leaves none of them.
TargetOK(r, d) ==
  d \in target[r] =>
    /\ content[d] # "unborn"
    /\ pc[r] = "answer" /\ route[r] \in DeleteRoutes /\ ~threw[r] => content[d] = "gone"

\* EmptyInputWritesNothing, for one request.
EmptyOK(r) ==
  \/ flaw[r] = "ids"
  \/ flaw[r] = "body" /\ via[r] # Http /\ route[r] \notin {"DuplicateOne", "DuplicateMany"}
  => effect[r] = {}

\* Two requests in flight at one moment are near each other for good, and one that comes
\* later writes over the other.
NearOK(w, q) ==
  q # w =>
    /\ InFlight(w) /\ InFlight(q) => q \in near[w]
    /\ InFlight(q) /\ q \notin near[w] => \A d \in effect[q] : writer[d] # w

\* The request that wrote d last hands the state of d to its broadcast.
FreshOK(d) ==
  writer[d] # Nobody =>
    /\ d \in effect[writer[d]]
    /\ pc[writer[d]] = "reread" => content[d] \in Users
    /\ pc[writer[d]] = "answer" =>
         /\ Item(d, content[d]) \in Told(writer[d])
         /\ \A x \in Told(writer[d]) : x.id = d => x.owner = content[d]

\* A request whose call rejected is about to announce, or has announced, a deletion of d.
Misled(q, d) == threw[q] /\ resp[q] \in {"none", "ok"} /\ About(q, d)

Disturbed(w, d) == (\E q \in near[w] : About(q, d)) \/ \E q \in Requests : Misled(q, d)

\* What the last write of d has told s is still true, unless it was disturbed.
SeenOK(s, d) ==
  writer[d] # Nobody /\ resp[writer[d]] = "ok" /\ Reaches(writer[d], s, d) =>
    view[s][d] = content[d] \/ Disturbed(writer[d], d)

\* The past of d holds what it is, and what any request is about to answer of it.
PastOK(d) ==
  /\ content[d] \in past[d]
  /\ \A r \in Requests : \A x \in result[r] : x.id = d => x.owner \in past[d]

\* The delete q has announced the end of d although its call rejected.
Lied(q, d) == route[q] \in DeleteRoutes /\ threw[q] /\ resp[q] = "ok" /\ d \in target[q]

\* HeardWasTrue, for one client and one document.
HeardOK(s, d) ==
  view[s][d] # "unknown" =>
    \/ view[s][d] \in past[d]
    \/ view[s][d] = "gone" /\ \E q \in Requests : Lied(q, d)

StoryInv ==
  /\ \A r \in Requests : RecordOK(r) /\ EmptyOK(r)
  /\ \A r \in Requests, d \in Docs : TargetOK(r, d)
  /\ \A w, q \in Requests : NearOK(w, q)
  /\ \A d \in Docs : FreshOK(d) /\ PastOK(d)
  /\ \A s \in Sockets, d \in Docs : SeenOK(s, d) /\ HeardOK(s, d)

LEMMA StoryInit == Init => StoryInv
<1> SUFFICES ASSUME Init PROVE StoryInv
  OBVIOUS
<1>1. ASSUME NEW r \in Requests
      PROVE  RecordOK(r) /\ EmptyOK(r) /\ \A d \in Docs : TargetOK(r, d)
  BY DEF Init, RecordOK, EmptyOK, TargetOK, Starting
<1>2. ASSUME NEW w \in Requests, NEW q \in Requests
      PROVE  NearOK(w, q)
  BY DEF Init, NearOK, InFlight
<1>3. ASSUME NEW s \in Sockets, NEW d \in Docs
      PROVE  SeenOK(s, d) /\ HeardOK(s, d)
  BY DEF Init, SeenOK, HeardOK, Nobody
<1>4. ASSUME NEW d \in Docs
      PROVE  FreshOK(d) /\ PastOK(d)
  BY DEF Init, FreshOK, PastOK
<1> QED
  BY <1>1, <1>2, <1>3, <1>4 DEF StoryInv

-----------------------------------------------------------------------------
(* The handlers of the routes.                                              *)

\* The routes whose services re-read and those that write one document tell the answer,
\* deletes tell the ids, and reads tell nothing.
LEMMA Tells ==
  ASSUME NEW r \in Requests, route[r] \in RouteTypes
  PROVE  /\ route[r] \in ReadRoutes => Handler(r).tells = "nothing"
         /\ route[r] \in DeleteRoutes => Handler(r).tells = "ids"
         /\ route[r] \notin ReadRoutes \cup DeleteRoutes => Handler(r).tells = "answer"
<1>1. /\ route[r] \in ReadRoutes => Controllers[route[r]].tells = "nothing"
      /\ route[r] \in DeleteRoutes => Controllers[route[r]].tells = "ids"
      /\ route[r] \notin ReadRoutes \cup DeleteRoutes => Controllers[route[r]].tells = "answer"
  BY DEF RouteTypes, ReadRoutes, DeleteRoutes, Controllers, AggregateController,
         GetManyController, GetOneController, CreateOneController, CreateManyController,
         DuplicateOneController, DuplicateManyController, UpdateOneController,
         UpdateManyController, ReplaceOneController, DeleteOneController, DeleteManyController
<1>2. /\ route[r] \in ReadRoutes => Gateways[route[r]].tells = "nothing"
      /\ route[r] \in DeleteRoutes => Gateways[route[r]].tells = "ids"
      /\ route[r] \notin ReadRoutes \cup DeleteRoutes => Gateways[route[r]].tells = "answer"
  BY DEF RouteTypes, ReadRoutes, DeleteRoutes, Gateways, AggregateGateway,
         GetManyGateway, GetOneGateway, CreateOneGateway, CreateManyGateway,
         DuplicateOneGateway, DuplicateManyGateway, UpdateOneGateway,
         UpdateManyGateway, ReplaceOneGateway, DeleteOneGateway, DeleteManyGateway
<1> QED
  BY <1>1, <1>2 DEF Handler

\* An input without the ids a route needs is refused, and one without a body by every
\* gateway that would write it.
LEMMA Refused ==
  ASSUME NEW r \in Requests, route[r] \in RouteTypes, flaw[r] \in FlawsFor(route[r], via[r]),
         flaw[r] \notin Handler(r).refuses
  PROVE  /\ flaw[r] # "ids"
         /\ flaw[r] = "body" /\ via[r] # Http =>
              route[r] \in {"Aggregate", "DuplicateOne", "DuplicateMany"}
<1>1. CASE via[r] = Http
  BY <1>1 DEF Handler, FlawsFor, OneIdRoutes, ManyIdsRoutes,
         RouteTypes, DeleteRoutes, Controllers, AggregateController,
         GetManyController, GetOneController, CreateOneController, CreateManyController,
         DuplicateOneController, DuplicateManyController, UpdateOneController,
         UpdateManyController, ReplaceOneController, DeleteOneController, DeleteManyController
<1>2. CASE via[r] # Http
  BY <1>2 DEF Handler, FlawsFor, OneIdRoutes, ManyIdsRoutes,
         RouteTypes, DeleteRoutes, Gateways, AggregateGateway,
         GetManyGateway, GetOneGateway, CreateOneGateway, CreateManyGateway,
         DuplicateOneGateway, DuplicateManyGateway, UpdateOneGateway,
         UpdateManyGateway, ReplaceOneGateway, DeleteOneGateway, DeleteManyGateway
<1> QED
  BY <1>1, <1>2

-----------------------------------------------------------------------------
(* The kinds of steps.                                                      *)

\* The documents, the server and what clients have been told stay as they are.
Still == UNCHANGED <<storeVars, wsServer, view, rooms, inputVars, near>>

\* A request goes on to its handler, or is answered without a broadcast.
Quiet(p) ==
  /\ pc[p] \in {"guard", "find", "judge", "handle", "reread", "answer"}
  /\ Still
  /\ result'[p] \subseteq result[p]
  /\ \A q \in Requests \ {p} : result'[q] = result[q]
  /\ \A q \in Requests \ {p} : pc'[q] = pc[q] /\ resp'[q] = resp[q] /\ threw'[q] = threw[q]
  /\ \/ /\ pc[p] \in {"guard", "find", "judge"} /\ pc'[p] \in {"find", "judge", "handle"}
        /\ resp'[p] = resp[p] /\ threw'[p] = threw[p]
     \/ /\ pc'[p] = "done" /\ resp'[p] \notin {"none", "ok"}
        /\ pc[p] = "answer" => ~threw[p]

\* A service writes the documents E, and may need them again.
Write(p, E) ==
  /\ pc[p] = "handle" /\ E \in Effects(p) /\ E \subseteq Docs
  /\ flaw[p] \notin Handler(p).refuses
  /\ \A d \in E : IF route[p] \in DeleteRoutes THEN content'[d] = "gone" ELSE content'[d] \in Users
  /\ \A d \in Docs \ E : content'[d] = content[d] /\ writer'[d] = writer[d]
  /\ \A d \in E : writer'[d] = p
  /\ effect' = [effect EXCEPT ![p] = E]
  /\ past' = [d \in Docs |-> past[d] \cup {content'[d]}]
  /\ result' = [result EXCEPT ![p] = IF route[p] \in {"UpdateOne", "ReplaceOne"}
                                       THEN {Item(d, content'[d]) : d \in E} ELSE {}]
  /\ pc' = [pc EXCEPT ![p] = IF route[p] \in RereadRoutes THEN "reread" ELSE "answer"]
  /\ UNCHANGED <<wsServer, view, rooms, inputVars, near, threw, resp>>

\* A re-read that goes on to the broadcast.
Found(p) ==
  /\ pc[p] = "reread" /\ Still /\ UNCHANGED <<resp, threw>>
  /\ pc' = [pc EXCEPT ![p] = "answer"]
  /\ result' = [result EXCEPT ![p] = {Item(d, content[d]) : d \in {e \in effect[p] : Alive(e)}}]

\* A delete whose call rejected goes on to the broadcast.
Denial(p) ==
  /\ pc[p] \in {"handle", "reread", "answer"} /\ route[p] \in DeleteRoutes
  /\ ~threw[p] /\ threw' = [threw EXCEPT ![p] = TRUE]
  /\ pc' = [pc EXCEPT ![p] = "answer"]
  /\ Still /\ UNCHANGED <<resp, result>>

\* A step of no request: clients move, or the sockets are ready before any request.
Elsewhere ==
  /\ UNCHANGED <<storeVars, view, rooms, inputVars, near, pc, resp, result, threw>>
  /\ UNCHANGED wsServer \/ \A r \in Requests : pc[r] = "idle"

LEMMA GuardStep ==
  ASSUME IInv, NEW p \in Requests,
         \/ HttpGuard(p) \/ SocketGuard(p) \/ GuardFind(p) \/ Judge(p) \/ GuardRejects(p)
         \/ RefuseInput(p)
  PROVE  Quiet(p)
<1>1. TypeOK
  BY DEF IInv
<1>2. /\ pc[p] \in {"guard", "find", "judge", "handle"} /\ Still /\ UNCHANGED result
      /\ \A q \in Requests \ {p} : threw'[q] = threw[q]
  BY <1>1 DEF HttpGuard, SocketGuard, GuardFind, Judge, GuardRejects, RefuseInput, Judging,
              Still, storeVars, sharedVars, inputVars, EnterGuard, TypeOK
<1>3. CASE HttpGuard(p) \/ SocketGuard(p)
  <2>1. \/ Answer(p, "denied") \/ Goto(p, "handle") \/ Goto(p, "find")
    BY <1>3 DEF HttpGuard, SocketGuard, EnterGuard
  <2> QED
    BY <2>1, <1>1, <1>2, <1>3 DEF Quiet, Answer, Goto, TypeOK, HttpGuard, SocketGuard
<1>4. CASE GuardFind(p)
  BY <1>1, <1>2, <1>4 DEF Quiet, Answer, Goto, TypeOK, GuardFind
<1>5. CASE Judge(p)
  BY <1>1, <1>2, <1>5 DEF Quiet, Answer, Goto, TypeOK, Judge
<1>6. CASE GuardRejects(p) \/ RefuseInput(p)
  BY <1>1, <1>2, <1>6 DEF Quiet, Answer, TypeOK, GuardRejects, RefuseInput, Judging
<1> QED
  BY <1>3, <1>4, <1>5, <1>6

LEMMA ServeStep ==
  ASSUME IInv, NEW p \in Requests, Serve(p)
  PROVE  Quiet(p) \/ \E E \in SUBSET Docs : Write(p, E)
<1>1. TypeOK /\ pc[p] = "handle"
  BY DEF IInv, Serve
<1>2. CASE (Answer(p, "failed") \/ Answer(p, "notFound")) /\ UNCHANGED <<storeVars, result>>
  BY <1>1, <1>2 DEF Serve, Quiet, Still, Answer, TypeOK, storeVars, sharedVars
<1>3. ASSUME NEW E \in Effects(p),
             NEW f \in IF route[p] \in DeleteRoutes THEN {[d \in E |-> "gone"]} ELSE [E -> Users],
             content' = [d \in Docs |-> IF d \in E THEN f[d] ELSE content[d]],
             effect' = [effect EXCEPT ![p] = E],
             writer' = [d \in Docs |-> IF d \in E THEN p ELSE writer[d]],
             past' = [d \in Docs |-> past[d] \cup {content'[d]}],
             result' = [result EXCEPT ![p] =
                          IF route[p] \in {"UpdateOne", "ReplaceOne"}
                            THEN {Item(d, f[d]) : d \in E} ELSE {}],
             Goto(p, IF route[p] \in RereadRoutes THEN "reread" ELSE "answer")
      PROVE  Write(p, E) /\ E \in SUBSET Docs
  <2>1. E \subseteq Docs
    BY <1>1, EffectsType
  <2>2. \A d \in E : content'[d] = f[d]
    BY <1>3, <2>1
  <2>3. \A d \in E : IF route[p] \in DeleteRoutes THEN content'[d] = "gone" ELSE content'[d] \in Users
    BY <1>3, <2>2
  <2>4. {Item(d, f[d]) : d \in E} = {Item(d, content'[d]) : d \in E}
    BY <2>2, Zenon
  <2>5. \A d \in Docs \ E : content'[d] = content[d] /\ writer'[d] = writer[d]
    BY <1>3
  <2>6. \A d \in E : writer'[d] = p
    BY <1>3, <2>1
  <2>7. flaw[p] \notin Handler(p).refuses
        /\ UNCHANGED <<wsServer, view, rooms, inputVars, near, threw>>
    BY DEF Serve, sharedVars
  <2>8. pc' = [pc EXCEPT ![p] = IF route[p] \in RereadRoutes THEN "reread" ELSE "answer"]
        /\ UNCHANGED resp
    BY <1>3 DEF Goto
  <2>9. result' = [result EXCEPT ![p] = IF route[p] \in {"UpdateOne", "ReplaceOne"}
                                          THEN {Item(d, content'[d]) : d \in E} ELSE {}]
    BY <1>3, <2>4
  <2> QED
    BY <1>1, <1>3, <2>1, <2>3, <2>5, <2>6, <2>7, <2>8, <2>9, Zenon DEF Write
<1> QED
  BY <1>2, <1>3 DEF Serve

LEMMA RestStep ==
  ASSUME IInv, NEW p \in Requests, Reread(p) \/ Reject(p)
  PROVE  Quiet(p) \/ Found(p) \/ Denial(p)
<1>1. TypeOK
  BY DEF IInv
<1>2. CASE Reread(p)
  <2>1. CASE Goto(p, "answer")
    BY <1>2, <2>1 DEF Reread, Found, Still, Goto, storeVars, sharedVars
  <2>2. CASE Answer(p, "failed") /\ result' = [result EXCEPT ![p] = {}]
    BY <1>1, <1>2, <2>2 DEF Reread, Quiet, Still, Answer, TypeOK, storeVars, sharedVars
  <2> QED
    BY <1>2, <2>1, <2>2 DEF Reread
<1>3. CASE Reject(p) /\ route[p] \in DeleteRoutes
  BY <1>3 DEF Reject, Denial, Still, Goto, storeVars, sharedVars
<1>4. CASE Reject(p) /\ route[p] \notin DeleteRoutes
  BY <1>1, <1>4 DEF Reject, Quiet, Still, Answer, TypeOK, storeVars, sharedVars
<1> QED
  BY <1>2, <1>3, <1>4

LEMMA ElsewhereStep ==
  ASSUME IInv, AfterInit \/ (\E s \in Sockets : JoinRooms(s) \/ LeaveRooms(s))
                 \/ Quiescent \/ UNCHANGED vars
  PROVE  Elsewhere
<1>1. CASE AfterInit
  BY <1>1 DEF AfterInit, Elsewhere, storeVars, inputVars
<1>2. ASSUME NEW s \in Sockets, NEW R, MoveTo(s, R)
      PROVE  Elsewhere
  BY <1>2 DEF MoveTo, Elsewhere, storeVars, inputVars
<1>3. CASE Quiescent \/ UNCHANGED vars
  BY <1>3 DEF Quiescent, vars, Elsewhere, storeVars, inputVars
<1> QED
  BY <1>1, <1>2, <1>3 DEF JoinRooms, LeaveRooms

\* Every step is of one of these kinds.
LEMMA Kinds ==
  ASSUME IInv, [Next]_vars
  PROVE  \/ \E p \in Requests : Arrive(p) \/ Quiet(p) \/ Found(p) \/ Denial(p) \/ Respond(p)
         \/ \E p \in Requests : \E E \in SUBSET Docs : Write(p, E)
         \/ Elsewhere
<1>1. ASSUME NEW p \in Requests, Progress(p) \/ GuardRejects(p) \/ Reject(p)
      PROVE  \/ Quiet(p) \/ Found(p) \/ Denial(p) \/ Respond(p)
             \/ \E E \in SUBSET Docs : Write(p, E)
  BY <1>1, GuardStep, ServeStep, RestStep DEF Progress
<1> QED
  BY <1>1, ElsewhereStep DEF Next

-----------------------------------------------------------------------------
(* What stays.                                                              *)

\* What a request has written or been sent is about the same documents for good, and an
\* answer is final.
Onwards(q) ==
  /\ pc[q] # "idle" => pc'[q] # "idle" /\ via'[q] = via[q] /\ route'[q] = route[q]
  /\ effect[q] \subseteq effect'[q] /\ target[q] \subseteq target'[q] /\ near[q] \subseteq near'[q]
  /\ pc[q] = "done" => pc'[q] = "done" /\ resp'[q] = resp[q] /\ result'[q] = result[q]
  /\ threw[q] /\ resp[q] \in {"none", "ok"} => threw'[q] /\ resp'[q] \in {"none", "ok"}

LEMMA ArriveStep ==
  ASSUME IInv, NEW p \in Requests, Arrive(p)
  PROVE  /\ pc[p] = "idle" /\ pc'[p] \in {"guard", "done"} /\ resp'[p] \in {"none", "unauthorized"}
         /\ flaw'[p] \in FlawsFor(route'[p], via'[p])
         /\ \A d \in target'[p] : d \in Docs /\ content[d] # "unborn"
         /\ \A q \in Requests \ {p} : /\ pc'[q] = pc[q] /\ resp'[q] = resp[q]
                                      /\ via'[q] = via[q] /\ route'[q] = route[q]
                                      /\ target'[q] = target[q] /\ flaw'[q] = flaw[q]
         /\ near' = [q \in Requests |->
                       IF q = p THEN {r \in Requests : InFlight(r)}
                       ELSE IF InFlight(q) THEN near[q] \cup {p} ELSE near[q]]
         /\ UNCHANGED <<storeVars, wsServer, view, rooms, result, threw>>
<1>1. TypeOK
  BY DEF IInv
<1>2. PICK t \in Routes, v \in Sockets \cup {Http} :
      \E f \in FlawsFor(t, v), u \in UsersFor(t, v) : \E S \in TargetsFor(t, f) :
       /\ via' = [via EXCEPT ![p] = v]
       /\ route' = [route EXCEPT ![p] = t]
       /\ target' = [target EXCEPT ![p] = S]
       /\ flaw' = [flaw EXCEPT ![p] = f]
       /\ Goto(p, "guard") \/ Answer(p, "unauthorized")
  BY Zenon DEF Arrive
<1>3. PICK f \in FlawsFor(t, v) : \E S \in TargetsFor(t, f) :
       /\ via' = [via EXCEPT ![p] = v]
       /\ route' = [route EXCEPT ![p] = t]
       /\ target' = [target EXCEPT ![p] = S]
       /\ flaw' = [flaw EXCEPT ![p] = f]
       /\ Goto(p, "guard") \/ Answer(p, "unauthorized")
  BY <1>2, Zenon
<1>4. PICK S \in TargetsFor(t, f) :
       /\ via' = [via EXCEPT ![p] = v]
       /\ route' = [route EXCEPT ![p] = t]
       /\ target' = [target EXCEPT ![p] = S]
       /\ flaw' = [flaw EXCEPT ![p] = f]
       /\ Goto(p, "guard") \/ Answer(p, "unauthorized")
  BY <1>3, Zenon
<1>5. \A d \in S : d \in Docs /\ content[d] # "unborn"
  BY DEF TargetsFor, Unborn
<1>6. resp[p] = "none" /\ pc[p] = "idle"
  BY DEF Arrive, IInv, RequestInv, Arrived
<1>7. /\ pc'[p] \in {"guard", "done"} /\ resp'[p] \in {"none", "unauthorized"}
      /\ \A q \in Requests \ {p} : pc'[q] = pc[q] /\ resp'[q] = resp[q]
  BY <1>1, <1>4, <1>6 DEF Goto, Answer, TypeOK
<1>8. /\ via'[p] = v /\ route'[p] = t /\ target'[p] = S /\ flaw'[p] = f
      /\ \A q \in Requests \ {p} : /\ via'[q] = via[q] /\ route'[q] = route[q]
                                   /\ target'[q] = target[q] /\ flaw'[q] = flaw[q]
  BY <1>1, <1>4 DEF TypeOK, InputTypeOK
<1> QED
  BY <1>5, <1>6, <1>7, <1>8 DEF Arrive, sharedVars

\* A broadcast is told to those who are in its rooms at that moment.
LEMMA RespondStep ==
  ASSUME IInv, NEW p \in Requests, Respond(p)
  PROVE  /\ pc[p] = "answer" /\ resp[p] = "none"
         /\ pc' = [pc EXCEPT ![p] = "done"] /\ resp' = [resp EXCEPT ![p] = "ok"]
         /\ rooms' = [rooms EXCEPT ![p] = member]
         /\ UNCHANGED <<storeVars, wsServer, inputVars, near, result, threw>>
  BY DEF Respond, Answer, sharedVars, IInv, RequestInv, Arrived

LEMMA Monotone ==
  ASSUME IInv, StoryInv, [Next]_vars, NEW q \in Requests
  PROVE  Onwards(q)
<1>1. /\ TypeOK /\ RecordOK(q)
      /\ pc[q] # "done" => resp[q] = "none"
      /\ pc[q] = "idle" => effect[q] = {}
  BY DEF IInv, StoryInv, RequestInv, Arrived
<1>2. ASSUME NEW p \in Requests, Arrive(p)
      PROVE  Onwards(q)
  BY <1>1, <1>2, ArriveStep DEF Onwards, RecordOK, storeVars
<1>3. ASSUME NEW p \in Requests, Quiet(p)
      PROVE  Onwards(q)
  BY <1>1, <1>3 DEF Onwards, Quiet, Still, RecordOK, storeVars, inputVars
<1>4. ASSUME NEW p \in Requests, Found(p) \/ Denial(p)
      PROVE  Onwards(q)
  BY <1>1, <1>4 DEF Onwards, Found, Denial, Still, TypeOK, storeVars, inputVars
<1>5. ASSUME NEW p \in Requests, Respond(p)
      PROVE  Onwards(q)
  BY <1>1, <1>5, RespondStep DEF Onwards, TypeOK, storeVars, inputVars
<1>6. ASSUME NEW p \in Requests, NEW E \in SUBSET Docs, Write(p, E)
      PROVE  Onwards(q)
  BY <1>1, <1>6 DEF Onwards, Write, TypeOK, RecordOK, Starting, inputVars
<1>7. CASE Elsewhere
  BY <1>7 DEF Onwards, Elsewhere, storeVars, inputVars
<1> QED
  BY <1>2, <1>3, <1>4, <1>5, <1>6, <1>7, Kinds

LEMMA DisturbedStays ==
  ASSUME IInv, StoryInv, [Next]_vars, NEW w \in Requests, NEW d, Disturbed(w, d)
  PROVE  Disturbed(w, d)'
<1>1. \A q \in Requests : Onwards(q)
  BY Monotone
<1>2. near[w] \subseteq Requests
  BY DEF IInv, TypeOK
<1>3. \A q \in Requests : About(q, d) => About(q, d)'
  BY <1>1 DEF Onwards, About
<1> QED
  BY <1>1, <1>2, <1>3 DEF Disturbed, Misled, Onwards

\* A document that is gone stays gone, and one that is born is never unborn again.
LEMMA GoneStays ==
  ASSUME IInv, [Next]_vars, NEW d \in Docs
  PROVE  /\ content[d] = "gone" => content'[d] = "gone"
         /\ content[d] # "unborn" => content'[d] # "unborn"
<1>1. ASSUME NEW p \in Requests, NEW E \in SUBSET Docs, Write(p, E), d \in E
      PROVE  /\ content[d] # "gone" /\ content'[d] # "unborn"
  <2>1. content[d] = "unborn" \/ content[d] \in Users
    BY <1>1 DEF Write, Effects, NewDocs, Unborn, Hit, Alive
  <2> QED
    BY <1>1, <2>1 DEF Write
<1>2. ASSUME NEW p \in Requests, Arrive(p) \/ Quiet(p) \/ Found(p) \/ Denial(p) \/ Respond(p)
      PROVE  UNCHANGED content
  BY <1>2, ArriveStep, RespondStep DEF Quiet, Found, Denial, Still, storeVars
<1>3. Elsewhere => UNCHANGED content
  BY DEF Elsewhere, storeVars
<1>4. ASSUME NEW p \in Requests, NEW E \in SUBSET Docs, Write(p, E), d \notin E
      PROVE  content'[d] = content[d]
  BY <1>4 DEF Write
<1> QED
  BY <1>1, <1>2, <1>3, <1>4, Kinds

-----------------------------------------------------------------------------
(* The second invariant is preserved, one conjunct at a time.               *)

LEMMA RecordStep ==
  ASSUME IInv, StoryInv, [Next]_vars, NEW r \in Requests
  PROVE  RecordOK(r)'
<1>1. /\ TypeOK /\ RecordOK(r) /\ result[r] \subseteq Items
      /\ pc[r] # "done" => resp[r] = "none"
      /\ pc[r] = "idle" => effect[r] = {}
  BY DEF IInv, StoryInv, RequestInv, Arrived, TypeOK
<1>2. ASSUME NEW p \in Requests, Arrive(p)
      PROVE  RecordOK(r)'
  <2>1. CASE r = p
    BY <1>1, <1>2, <2>1, ArriveStep DEF RecordOK, Starting, storeVars
  <2>2. CASE r # p
    BY <1>1, <1>2, <2>2, ArriveStep DEF RecordOK, InFlight, storeVars
  <2> QED
    BY <2>1, <2>2
<1>3. ASSUME NEW p \in Requests, Quiet(p)
      PROVE  RecordOK(r)'
  <2>1. effect' = effect /\ near' = near /\ target' = target /\ flaw' = flaw
        /\ route' = route /\ via' = via
    BY <1>3 DEF Quiet, Still, storeVars, inputVars
  <2>2. CASE r = p
    BY <1>1, <1>3, <2>1, <2>2 DEF RecordOK, Starting, Quiet
  <2>3. CASE r # p
    BY <1>1, <1>3, <2>1, <2>3 DEF RecordOK, Quiet
  <2> QED
    BY <2>2, <2>3
<1>4. ASSUME NEW p \in Requests, Found(p) \/ Denial(p)
      PROVE  RecordOK(r)'
  <2>1. effect' = effect /\ near' = near /\ target' = target /\ flaw' = flaw
        /\ route' = route /\ via' = via /\ resp' = resp
        /\ pc' = [pc EXCEPT ![p] = "answer"] /\ pc[p] \notin {"idle", "done"}
    BY <1>4 DEF Found, Denial, Still, storeVars, inputVars
  <2>2. threw' = threw \/ (threw' = [threw EXCEPT ![p] = TRUE] /\ route[p] \in DeleteRoutes)
    BY <1>4 DEF Found, Denial
  <2>3. \A x \in result'[r] : x.id \in effect[r]
    <3>1. CASE result'[r] = {Item(d, content[d]) : d \in {e \in effect[r] : Alive(e)}}
      <4>1. \A d \in effect[r] : Item(d, content[d]).id = d
        BY DEF Item
      <4> QED
        BY <3>1, <4>1
    <3>2. CASE result'[r] = result[r]
      BY <1>1, <3>2 DEF RecordOK
    <3> QED
      BY <1>1, <1>4, <3>1, <3>2 DEF Found, Denial, TypeOK
  <2>4. r # p => result'[r] = result[r]
    BY <1>1, <1>4 DEF Found, Denial, TypeOK
  <2> QED
    BY <1>1, <2>1, <2>2, <2>3, <2>4 DEF RecordOK, Starting, TypeOK
<1>5. ASSUME NEW p \in Requests, Respond(p)
      PROVE  RecordOK(r)'
  BY <1>1, <1>5, RespondStep DEF RecordOK, Starting, TypeOK, storeVars, inputVars
<1>6. ASSUME NEW p \in Requests, NEW E \in SUBSET Docs, Write(p, E)
      PROVE  RecordOK(r)'
  <2>1. near' = near /\ target' = target /\ flaw' = flaw
        /\ route' = route /\ via' = via /\ resp' = resp /\ threw' = threw
    BY <1>6 DEF Write, inputVars
  <2>2. CASE r # p
    <3>1. pc'[r] = pc[r] /\ effect'[r] = effect[r] /\ result'[r] = result[r]
      BY <1>1, <1>6, <2>2 DEF Write, TypeOK
    <3> QED
      BY <1>1, <2>1, <3>1 DEF RecordOK
  <2>3. CASE r = p
    <3>1. pc'[r] = (IF route[r] \in RereadRoutes THEN "reread" ELSE "answer") /\ pc[r] = "handle"
          /\ effect'[r] = E
      BY <1>1, <1>6, <2>3 DEF Write, TypeOK
    <3>2. \A x \in result'[r] : x.id \in E
      BY <1>1, <1>6, <2>3 DEF Write, TypeOK, Item
    <3>3. ~threw[r]
      BY <1>1, <3>1 DEF RecordOK
    <3> QED
      BY <1>1, <2>1, <3>1, <3>2, <3>3 DEF RecordOK, Starting
  <2> QED
    BY <2>2, <2>3
<1>7. CASE Elsewhere
  BY <1>1, <1>7 DEF RecordOK, Elsewhere, storeVars, inputVars
<1> QED
  BY <1>2, <1>3, <1>4, <1>5, <1>6, <1>7, Kinds

LEMMA EmptyStep ==
  ASSUME IInv, StoryInv, [Next]_vars, NEW r \in Requests
  PROVE  EmptyOK(r)'
<1>1. /\ TypeOK /\ RecordOK(r) /\ EmptyOK(r)
      /\ pc[r] = "idle" => effect[r] = {}
      /\ pc[r] # "idle" => route[r] \in RouteTypes
  BY DEF IInv, StoryInv, RequestInv, Arrived
<1>2. ASSUME NEW p \in Requests, Arrive(p)
      PROVE  EmptyOK(r)'
  BY <1>1, <1>2, ArriveStep DEF EmptyOK, storeVars
<1>3. ASSUME NEW p \in Requests, Quiet(p) \/ Found(p) \/ Denial(p) \/ Respond(p)
      PROVE  EmptyOK(r)'
  <2>1. UNCHANGED <<effect, inputVars>>
    BY <1>3, RespondStep DEF Quiet, Found, Denial, Still, storeVars
  <2> QED
    BY <1>1, <2>1 DEF EmptyOK, inputVars
<1>4. ASSUME NEW p \in Requests, NEW E \in SUBSET Docs, Write(p, E)
      PROVE  EmptyOK(r)'
  <2>1. flaw' = flaw /\ route' = route /\ via' = via
    BY <1>4 DEF Write, inputVars
  <2>2. CASE r # p
    BY <1>1, <1>4, <2>1, <2>2 DEF EmptyOK, Write, TypeOK
  <2>3. CASE r = p
    <3>1. /\ flaw[r] # "ids"
          /\ flaw[r] = "body" /\ via[r] # Http =>
               route[r] \in {"Aggregate", "DuplicateOne", "DuplicateMany"}
      BY <1>1, <1>4, <2>3, Refused DEF Write, RecordOK
    <3>2. route[r] = "Aggregate" => E = {}
      BY <1>4, <2>3 DEF Write, Effects, ReadRoutes
    <3>3. effect'[r] = E
      BY <1>1, <1>4, <2>3 DEF Write, TypeOK
    <3> QED
      BY <2>1, <3>1, <3>2, <3>3 DEF EmptyOK
  <2> QED
    BY <2>2, <2>3
<1>5. CASE Elsewhere
  BY <1>1, <1>5 DEF EmptyOK, Elsewhere, storeVars, inputVars
<1> QED
  BY <1>2, <1>3, <1>4, <1>5, Kinds

\* What a delete leaves of its documents: those that live are deleted, the others are gone.
LEMMA TargetStep ==
  ASSUME IInv, StoryInv, [Next]_vars, NEW r \in Requests, NEW d \in Docs
  PROVE  TargetOK(r, d)'
<1>1. /\ TypeOK /\ RecordOK(r) /\ TargetOK(r, d)
      /\ content[d] \in Users \cup {"unborn", "gone"}
      /\ content[d] = "gone" => content'[d] = "gone"
      /\ content[d] # "unborn" => content'[d] # "unborn"
  BY GoneStays DEF IInv, StoryInv, TypeOK
<1>2. ASSUME NEW p \in Requests, Arrive(p)
      PROVE  TargetOK(r, d)'
  BY <1>1, <1>2, ArriveStep DEF TargetOK, storeVars
<1>3. ASSUME NEW p \in Requests, Quiet(p) \/ Respond(p)
      PROVE  TargetOK(r, d)'
  <2>1. /\ UNCHANGED <<content, inputVars>>
        /\ pc'[r] = "answer" => pc[r] = "answer" /\ threw'[r] = threw[r]
    BY <1>1, <1>3, RespondStep DEF Quiet, Still, storeVars, TypeOK
  <2> QED
    BY <1>1, <2>1 DEF TargetOK, inputVars
<1>4. ASSUME NEW p \in Requests, Found(p) \/ Denial(p)
      PROVE  TargetOK(r, d)'
  <2>1. UNCHANGED <<content, inputVars>>
    BY <1>4 DEF Found, Denial, Still, storeVars
  <2>2. CASE Found(p)
    <3>1. r = p => route[r] \notin DeleteRoutes
      BY <1>1, <2>2 DEF Found, RecordOK, RereadRoutes, CreateRoutes, DeleteRoutes
    <3>2. r # p => pc'[r] = pc[r]
      BY <1>1, <2>2 DEF Found, TypeOK
    <3> QED
      BY <1>1, <2>1, <2>2, <3>1, <3>2 DEF TargetOK, Found, inputVars
  <2>3. CASE Denial(p)
    <3>1. IF r = p THEN threw'[r] ELSE pc'[r] = pc[r] /\ threw'[r] = threw[r]
      BY <1>1, <2>3 DEF Denial, TypeOK
    <3> QED
      BY <1>1, <2>1, <3>1 DEF TargetOK, inputVars
  <2> QED
    BY <1>4, <2>2, <2>3
<1>5. ASSUME NEW p \in Requests, NEW E \in SUBSET Docs, Write(p, E)
      PROVE  TargetOK(r, d)'
  <2>1. UNCHANGED <<inputVars, threw>>
    BY <1>5 DEF Write
  <2>2. CASE r # p
    <3>1. pc'[r] = pc[r]
      BY <1>1, <1>5, <2>2 DEF Write, TypeOK
    <3> QED
      BY <1>1, <2>1, <3>1 DEF TargetOK, inputVars
  <2>3. CASE r = p
    <3>1. ASSUME route[r] \in DeleteRoutes, d \in target[r], content[d] # "unborn"
          PROVE  content'[d] = "gone"
      <4>1. E = Hit(r)
        BY <3>1, <1>5, <2>3 DEF Write, Effects, DeleteRoutes, ReadRoutes
      <4>2. CASE d \in E
        BY <4>2, <3>1, <1>5, <2>3 DEF Write
      <4>3. CASE d \notin E
        BY <4>1, <4>3, <3>1, <1>1 DEF Hit, Alive
      <4> QED
        BY <4>2, <4>3
    <3> QED
      BY <1>1, <2>1, <3>1 DEF TargetOK, inputVars
  <2> QED
    BY <2>2, <2>3
<1>6. CASE Elsewhere
  BY <1>1, <1>6 DEF TargetOK, Elsewhere, storeVars, inputVars
<1> QED
  BY <1>2, <1>3, <1>4, <1>5, <1>6, Kinds

LEMMA NearStep ==
  ASSUME IInv, StoryInv, [Next]_vars, NEW w \in Requests, NEW q \in Requests
  PROVE  NearOK(w, q)'
<1>1. /\ TypeOK /\ NearOK(w, q)
      /\ pc[q] = "idle" => effect[q] = {}
      /\ effect[q] \subseteq Docs
  BY DEF IInv, StoryInv, RequestInv, Arrived, TypeOK
<1>2. ASSUME NEW p \in Requests, Arrive(p)
      PROVE  NearOK(w, q)'
  <2>1. CASE w = p
    BY <1>1, <1>2, <2>1, ArriveStep DEF NearOK, InFlight, storeVars
  <2>2. CASE q = p /\ w # p
    <3>1. InFlight(w)' <=> InFlight(w)
      BY <1>2, <2>2, ArriveStep DEF InFlight
    <3>2. InFlight(w) => q \in near'[w]
      BY <1>2, <2>2, ArriveStep
    <3>3. effect'[q] = {}
      BY <1>1, <1>2, <2>2, ArriveStep DEF storeVars
    <3> QED
      BY <3>1, <3>2, <3>3 DEF NearOK
  <2>3. CASE q # p /\ w # p
    <3>1. /\ InFlight(w)' <=> InFlight(w)
          /\ InFlight(q)' <=> InFlight(q)
          /\ near[w] \subseteq near'[w]
      BY <1>2, <2>3, ArriveStep DEF InFlight
    <3> QED
      BY <1>1, <1>2, <3>1, ArriveStep DEF NearOK, storeVars
  <2> QED
    BY <2>1, <2>2, <2>3
<1>3. ASSUME NEW p \in Requests, Quiet(p) \/ Found(p) \/ Denial(p) \/ Respond(p)
      PROVE  NearOK(w, q)'
  <2>1. UNCHANGED <<effect, writer, near>>
    BY <1>3, RespondStep DEF Quiet, Found, Denial, Still, storeVars
  <2>2. \A r \in Requests : InFlight(r)' => InFlight(r)
    BY <1>1, <1>3, RespondStep DEF Quiet, Found, Denial, TypeOK, InFlight
  <2> QED
    BY <1>1, <2>1, <2>2 DEF NearOK
<1>4. ASSUME NEW p \in Requests, NEW E \in SUBSET Docs, Write(p, E)
      PROVE  NearOK(w, q)'
  <2>1. /\ InFlight(p) /\ near' = near
        /\ \A r \in Requests : InFlight(r)' <=> InFlight(r)
        /\ effect'[q] = IF q = p THEN E ELSE effect[q]
        /\ \A d \in Docs : writer'[d] = IF d \in E THEN p ELSE writer[d]
    BY <1>1, <1>4 DEF Write, TypeOK, InFlight
  <2> QED
    BY <1>1, <2>1 DEF NearOK
<1>5. CASE Elsewhere
  BY <1>1, <1>5 DEF NearOK, InFlight, Elsewhere, storeVars
<1> QED
  BY <1>2, <1>3, <1>4, <1>5, Kinds

\* What is told of a request depends on the request alone.
LEMMA ToldSame ==
  ASSUME NEW r \in Requests, via'[r] = via[r], route'[r] = route[r], target'[r] = target[r],
         result'[r] = result[r]
  PROVE  Told(r)' = Told(r)
BY DEF Told, Handler

\* A service hands what it has just written to the re-read or to the broadcast.
LEMMA WriteFresh ==
  ASSUME IInv, NEW p \in Requests, NEW E \in SUBSET Docs, Write(p, E), NEW d \in E
  PROVE  FreshOK(d)'
<1>1. /\ TypeOK /\ route[p] \in RouteTypes
  BY DEF IInv, RequestInv, Arrived, Write
<1>2. /\ writer'[d] = p /\ effect'[p] = E
      /\ pc'[p] = IF route[p] \in RereadRoutes THEN "reread" ELSE "answer"
      /\ UNCHANGED inputVars
  BY <1>1 DEF Write, TypeOK
<1>3. route[p] \in RereadRoutes => content'[d] \in Users
  BY DEF Write, RereadRoutes, CreateRoutes, DeleteRoutes
<1>4. ASSUME route[p] \notin RereadRoutes
      PROVE  /\ Item(d, content'[d]) \in Told(p)'
             /\ \A x \in Told(p)' : x.id = d => x.owner = content'[d]
  <2>1. Handler(p)' = Handler(p)
    BY <1>2 DEF Handler, inputVars
  <2>2. CASE route[p] \in DeleteRoutes
    <3>1. E = Hit(p) /\ content'[d] = "gone"
      BY <2>2 DEF Write, Effects, DeleteRoutes, ReadRoutes
    <3>2. d \in target[p]
      BY <3>1 DEF Hit
    <3>3. Told(p)' = {Item(e, "gone") : e \in target[p]}
      BY <1>1, <1>2, <2>1, <2>2, Tells DEF Told, inputVars
    <3> QED
      BY <3>1, <3>2, <3>3 DEF Item
  <2>3. CASE route[p] \in {"UpdateOne", "ReplaceOne"}
    <3>1. result'[p] = {Item(e, content'[e]) : e \in E}
      BY <1>1, <2>3 DEF Write, TypeOK
    <3>2. Told(p)' = result'[p]
      BY <1>1, <2>1, <2>3, Tells DEF Told, ReadRoutes, DeleteRoutes
    <3>3. \A x \in result'[p] : x.id = d => x.owner = content'[d]
      <4> SUFFICES ASSUME NEW e \in E, Item(e, content'[e]).id = d
                   PROVE  Item(e, content'[e]).owner = content'[d]
        BY <3>1
      <4> QED
        BY DEF Item
    <3> QED
      BY <3>1, <3>2, <3>3
  <2>4. CASE route[p] \in ReadRoutes
    BY <2>4 DEF Write, Effects, ReadRoutes
  <2> QED
    BY <1>1, <1>4, <2>2, <2>3, <2>4
       DEF RouteTypes, ReadRoutes, RereadRoutes, CreateRoutes, DeleteRoutes
<1> QED
  BY <1>2, <1>3, <1>4, Zenon DEF FreshOK

\* A re-read tells the broadcast what the document holds now.
LEMMA FoundFresh ==
  ASSUME IInv, StoryInv, NEW p \in Requests, Found(p), NEW d \in Docs,
         writer[d] = p, p # Nobody, FreshOK(d)
  PROVE  FreshOK(d)'
<1>1. /\ TypeOK /\ route[p] \in RouteTypes /\ route[p] \in RereadRoutes
  BY DEF IInv, StoryInv, RequestInv, RecordOK, Arrived, Found
<1>2. /\ writer' = writer /\ effect' = effect /\ content' = content /\ UNCHANGED inputVars
      /\ pc'[p] = "answer"
      /\ result'[p] = {Item(e, content[e]) : e \in {e \in effect[p] : Alive(e)}}
  BY <1>1 DEF Found, Still, storeVars, TypeOK
<1>3. d \in effect[p] /\ content[d] \in Users
  BY DEF FreshOK, Found
<1>4. Told(p)' = result'[p]
  BY <1>1, <1>2, Tells
     DEF Told, Handler, inputVars, RereadRoutes, CreateRoutes, ReadRoutes, DeleteRoutes
<1>5. Item(d, content[d]) \in result'[p]
  BY <1>2, <1>3 DEF Alive
<1>6. \A x \in result'[p] : x.id = d => x.owner = content[d]
  <2> SUFFICES ASSUME NEW e \in effect[p], Item(e, content[e]).id = d
               PROVE  Item(e, content[e]).owner = content[d]
    BY <1>2
  <2> QED
    BY DEF Item
<1> QED
  BY <1>2, <1>3, <1>4, <1>5, <1>6 DEF FreshOK

LEMMA FreshStep ==
  ASSUME IInv, StoryInv, [Next]_vars, NEW d \in Docs
  PROVE  FreshOK(d)'
<1>1. /\ TypeOK /\ FreshOK(d) /\ writer[d] \in Requests \cup {Nobody}
      /\ \A r \in Requests : RecordOK(r)
      /\ \A r \in Requests : pc[r] = "idle" => effect[r] = {}
  BY DEF IInv, StoryInv, RequestInv, Arrived, TypeOK
\* A step that leaves d and its writer alone, and does not take the writer to its answer.
<1>2. ASSUME UNCHANGED <<content, writer>>, effect[writer[d]] \subseteq effect'[writer[d]],
             writer[d] # Nobody,
             pc'[writer[d]] # pc[writer[d]] => pc'[writer[d]] \notin {"reread", "answer"},
             pc'[writer[d]] = "answer" => Told(writer[d])' = Told(writer[d])
      PROVE  FreshOK(d)'
  BY <1>1, <1>2 DEF FreshOK
<1>3. ASSUME writer'[d] = Nobody
      PROVE  FreshOK(d)'
  BY <1>3 DEF FreshOK
<1>4. ASSUME NEW p \in Requests, Arrive(p), writer[d] # Nobody
      PROVE  FreshOK(d)'
  <2>1. writer[d] # p
    BY <1>1, <1>4, ArriveStep DEF FreshOK
  <2>2. Told(writer[d])' = Told(writer[d])
    <3>1. /\ via'[writer[d]] = via[writer[d]] /\ route'[writer[d]] = route[writer[d]]
          /\ target'[writer[d]] = target[writer[d]] /\ result'[writer[d]] = result[writer[d]]
          /\ writer' = writer
      BY <1>1, <1>4, <2>1, ArriveStep DEF storeVars
    <3> QED
      BY <1>1, <1>4, <3>1, ToldSame
  <2> QED
    BY <1>1, <1>2, <1>4, <2>1, <2>2, ArriveStep DEF storeVars
<1>5. ASSUME NEW p \in Requests, Quiet(p), writer[d] # Nobody
      PROVE  FreshOK(d)'
  <2>1. UNCHANGED <<content, writer, effect, inputVars>>
    BY <1>5 DEF Quiet, Still, storeVars
  <2>2. pc'[writer[d]] # pc[writer[d]] => pc'[writer[d]] \notin {"reread", "answer"}
    BY <1>1, <1>5 DEF Quiet
  <2>3. pc'[writer[d]] = "answer" => writer[d] # p
    BY <1>5 DEF Quiet
  <2>4. pc'[writer[d]] = "answer" => Told(writer[d])' = Told(writer[d])
    BY <1>1, <1>5, <2>1, <2>3, ToldSame DEF Quiet, inputVars
  <2> QED
    BY <1>2, <1>5, <2>1, <2>2, <2>4
<1>6. ASSUME NEW p \in Requests, Found(p), writer[d] # Nobody
      PROVE  FreshOK(d)'
  <2>1. CASE writer[d] = p
    BY <1>1, <1>6, <2>1, FoundFresh
  <2>2. CASE writer[d] # p
    <3>1. /\ UNCHANGED <<content, writer, effect, inputVars>>
          /\ pc'[writer[d]] = pc[writer[d]] /\ result'[writer[d]] = result[writer[d]]
      BY <1>1, <1>6, <2>2 DEF Found, Still, storeVars, TypeOK
    <3>2. Told(writer[d])' = Told(writer[d])
      BY <1>1, <1>6, <3>1, ToldSame DEF inputVars
    <3> QED
      BY <1>2, <1>6, <3>1, <3>2
  <2> QED
    BY <2>1, <2>2
<1>7. ASSUME NEW p \in Requests, Denial(p) \/ Respond(p), writer[d] # Nobody
      PROVE  FreshOK(d)'
  <2>1. UNCHANGED <<content, writer, effect, inputVars, result>>
    BY <1>7, RespondStep DEF Denial, Still, storeVars
  <2>2. Told(writer[d])' = Told(writer[d])
    BY <1>1, <1>7, <2>1, ToldSame DEF inputVars
  <2>3. writer[d] = p => pc[p] = "answer" \/ ~Denial(p)
    BY <1>1, <1>7
       DEF FreshOK, RecordOK, Starting, Denial, RereadRoutes, CreateRoutes, DeleteRoutes
  <2>4. pc'[writer[d]] # pc[writer[d]] => pc'[writer[d]] \notin {"reread", "answer"}
    BY <1>1, <1>7, <2>3, RespondStep DEF Denial, TypeOK
  <2> QED
    BY <1>2, <1>7, <2>1, <2>2, <2>4
<1>8. ASSUME NEW p \in Requests, NEW E \in SUBSET Docs, Write(p, E)
      PROVE  FreshOK(d)'
  <2>1. CASE d \in E
    BY <1>8, <2>1, WriteFresh
  <2>2. CASE d \notin E /\ writer[d] # Nobody
    <3>1. content'[d] = content[d] /\ writer'[d] = writer[d] /\ UNCHANGED inputVars
      BY <1>8, <2>2 DEF Write
    <3>2. writer[d] # p
      BY <1>1, <1>8, <2>2 DEF Write, FreshOK, RecordOK, Starting
    <3>3. /\ effect'[writer[d]] = effect[writer[d]] /\ pc'[writer[d]] = pc[writer[d]]
          /\ result'[writer[d]] = result[writer[d]]
      BY <1>1, <1>8, <2>2, <3>2 DEF Write, TypeOK
    <3>4. Told(writer[d])' = Told(writer[d])
      BY <1>1, <2>2, <3>1, <3>3, ToldSame DEF inputVars
    <3> QED
      BY <1>1, <3>1, <3>3, <3>4 DEF FreshOK
  <2>3. CASE d \notin E /\ writer[d] = Nobody
    BY <1>3, <1>8, <2>3 DEF Write
  <2> QED
    BY <2>1, <2>2, <2>3
<1>9. CASE Elsewhere /\ writer[d] # Nobody
  <2>1. UNCHANGED <<content, writer, effect, inputVars, result, pc>>
    BY <1>9 DEF Elsewhere, storeVars
  <2>2. Told(writer[d])' = Told(writer[d])
    BY <1>1, <1>9, <2>1, ToldSame DEF inputVars
  <2> QED
    BY <1>2, <1>9, <2>1, <2>2
<1>10. ASSUME NEW p \in Requests,
              Arrive(p) \/ Quiet(p) \/ Found(p) \/ Denial(p) \/ Respond(p)
       PROVE  UNCHANGED writer
  BY <1>10, ArriveStep, RespondStep DEF Quiet, Found, Denial, Still, storeVars
<1>11. Elsewhere => UNCHANGED writer
  BY DEF Elsewhere, storeVars
<1> QED
  BY <1>3, <1>4, <1>5, <1>6, <1>7, <1>8, <1>9, <1>10, <1>11, Kinds

\* The broadcast of p tells socket s of document d by the items I.
Says(p, s, d, I) ==
  /\ I \subseteq Told(p) \cap Items
  /\ IF s \in Listeners(p, I) /\ \E x \in I : x.id = d
       THEN \E x \in I : x.id = d /\ view'[s][d] = x.owner
       ELSE view'[s][d] = view[s][d]
  /\ I # {} => Audiences[route[p]] # "off"
  /\ (via[p] = Http => wsServer) /\ route[p] \notin Filtered /\ Audiences[route[p]] # "off"
       => I = Told(p)

LEMMA EmitStep ==
  ASSUME IInv, NEW p \in Requests, Respond(p), NEW s \in Sockets, NEW d \in Docs
  PROVE  \E I : Says(p, s, d, I)
<1> DEFINE I == IF via[p] = Http THEN BroadcastFromHttp(p) ELSE BroadcastIfNeeded(p)
<1>1. TypeOK /\ Emit(p, I)
  BY DEF Respond, IInv
<1>2. /\ I \subseteq Told(p)
      /\ I # {} => Audiences[route[p]] # "off"
      /\ (via[p] = Http => wsServer) /\ route[p] \notin Filtered /\ Audiences[route[p]] # "off"
            => I = Told(p)
  BY DEF BroadcastFromHttp, BroadcastIfNeeded, Enabled
<1>3. \A x \in I : x \in Items
  BY <1>1, ToldType DEF BroadcastFromHttp, BroadcastIfNeeded
<1> HIDE DEF I
<1>4. view'[s] = IF s \in Listeners(p, I)
                   THEN [e \in Docs |-> IF \E x \in I : x.id = e
                                          THEN (CHOOSE x \in I : x.id = e).owner ELSE view[s][e]]
                   ELSE view[s]
  BY <1>1 DEF Emit
<1>5. ASSUME s \in Listeners(p, I), \E x \in I : x.id = d
      PROVE  \E x \in I : x.id = d /\ view'[s][d] = x.owner
  <2> DEFINE c == CHOOSE x \in I : x.id = d
  <2>1. c \in I /\ c.id = d
    BY <1>5
  <2>2. view'[s][d] = c.owner
    BY <1>4, <1>5
  <2> QED
    BY <2>1, <2>2
<1>6. ASSUME ~(s \in Listeners(p, I) /\ \E x \in I : x.id = d)
      PROVE  view'[s][d] = view[s][d]
  BY <1>4, <1>6
<1>7. Says(p, s, d, I)
  BY <1>2, <1>3, <1>5, <1>6 DEF Says
<1> QED
  BY <1>7

\* What a handler tells is about what its request wrote or asked for.
LEMMA ToldAbout ==
  ASSUME IInv, StoryInv, NEW p \in Requests, pc[p] = "answer", NEW x \in Told(p)
  PROVE  /\ About(p, x.id) /\ x.id \in effect[p] \cup target[p]
         /\ \/ x \in result[p] /\ x.id \in effect[p]
            \/ route[p] \in DeleteRoutes /\ x.owner = "gone" /\ x.id \in target[p]
<1>1. route[p] \in RouteTypes /\ RecordOK(p)
  BY DEF IInv, StoryInv, RequestInv, Arrived
<1>2. CASE route[p] \in DeleteRoutes
  <2>1. \E d \in target[p] : x = Item(d, "gone")
    BY <1>1, <1>2, Tells DEF Told
  <2> QED
    BY <1>2, <2>1 DEF Item, About
<1>3. CASE route[p] \in ReadRoutes
  BY <1>1, <1>3, Tells DEF Told
<1>4. CASE route[p] \notin ReadRoutes \cup DeleteRoutes
  BY <1>1, <1>4, Tells DEF Told, RecordOK, About
<1> QED
  BY <1>2, <1>3, <1>4

\* A socket that the last write of d, answered before, reaches after a step was reached
\* before it: neither d nor the rooms at the time of the broadcast have changed.
LEMMA ReachedBefore ==
  ASSUME IInv, StoryInv, [Next]_vars, NEW w \in Requests, resp[w] = "ok",
         NEW s \in Sockets, NEW d \in Docs, content'[d] = content[d], Reaches(w, s, d)'
  PROVE  Reaches(w, s, d)
<1>1. /\ TypeOK /\ pc[w] = "done"
      /\ via'[w] = via[w] /\ route'[w] = route[w]
  BY Monotone DEF Onwards, IInv, RequestInv, Arrived
<1>2. wsServer' = wsServer /\ rooms'[w] = rooms[w]
  <2>1. ASSUME NEW p \in Requests, Arrive(p) \/ Quiet(p) \/ Found(p) \/ Denial(p)
        PROVE  UNCHANGED <<wsServer, rooms>>
    BY <2>1, ArriveStep DEF Quiet, Found, Denial, Still
  <2>2. ASSUME NEW p \in Requests, NEW E \in SUBSET Docs, Write(p, E)
        PROVE  UNCHANGED <<wsServer, rooms>>
    BY <2>2 DEF Write
  <2>3. ASSUME NEW p \in Requests, Respond(p)
        PROVE  wsServer' = wsServer /\ rooms'[w] = rooms[w]
    BY <1>1, <2>3, RespondStep DEF TypeOK
  <2>4. CASE Elsewhere
    BY <1>1, <2>4 DEF Elsewhere
  <2> QED
    BY <2>1, <2>2, <2>3, <2>4, Kinds
<1> QED
  BY <1>1, <1>2 DEF Reaches

\* The broadcast of the last write itself tells every socket it reaches.
LEMMA OwnBroadcast ==
  ASSUME IInv, StoryInv, NEW p \in Requests, Respond(p), NEW s \in Sockets, NEW d \in Docs,
         writer[d] = p, p # Nobody, Reaches(p, s, d)'
  PROVE  view'[s][d] = content[d]
<1>1. /\ route[p] \in RouteTypes /\ TypeOK /\ FreshOK(d) /\ pc[p] = "answer"
  BY RespondStep DEF IInv, StoryInv, RequestInv, Arrived
<1>2. /\ Item(d, content[d]) \in Told(p)
      /\ \A x \in Told(p) : x.id = d => x.owner = content[d]
  BY <1>1 DEF FreshOK
<1>3. PICK I : Says(p, s, d, I)
  BY EmitStep
<1>4. /\ rooms'[p] = member
      /\ UNCHANGED <<content, wsServer, via, route>>
  BY <1>1, RespondStep DEF TypeOK, storeVars, inputVars
<1>5. /\ via[p] = Http => wsServer
      /\ route[p] \notin Filtered
      /\ \/ Audiences[route[p]] = "everyone" /\ via[p] # s
         \/ Audiences[route[p]] = "lobby" /\ Lobby \in member[s]
         \/ Audiences[route[p]] = "owner" /\ content[d] \in member[s]
  BY <1>4 DEF Reaches
<1>6. I = Told(p)
  BY <1>3, <1>5 DEF Says
<1>7. PICK y \in I : y.id = d /\ y.owner = content[d]
  BY <1>2, <1>6 DEF Item
<1>8. s \in Listeners(p, I)
  <2>1. CASE Audiences[route[p]] = "everyone" /\ via[p] # s
    BY <2>1 DEF Listeners
  <2>2. ASSUME NEW o \in member[s], o \in ResolveRooms(p, I), Audiences[route[p]] # "everyone"
        PROVE  s \in Listeners(p, I)
    BY <2>2 DEF Listeners
  <2>3. CASE Audiences[route[p]] = "lobby" /\ Lobby \in member[s]
    <3>1. Lobby \in ResolveRooms(p, I)
      BY <2>3 DEF ResolveRooms
    <3> QED
      BY <2>2, <2>3, <3>1
  <2>4. CASE Audiences[route[p]] = "owner" /\ content[d] \in member[s]
    <3>1. content[d] \in ResolveRooms(p, I)
      BY <1>7, <2>4 DEF ResolveRooms
    <3> QED
      BY <2>2, <2>4, <3>1
  <2> QED
    BY <1>5, <2>1, <2>3, <2>4
<1> QED
  BY <1>2, <1>3, <1>6, <1>7, <1>8 DEF Says

\* The broadcast of another request leaves what s knows of d as true as it was, unless it
\* disturbs it: it either wrote d and was in flight with the last write, or deleted nothing.
LEMMA OtherBroadcast ==
  ASSUME IInv, StoryInv, NEW p \in Requests, Respond(p), NEW s \in Sockets, NEW d \in Docs,
         writer[d] # p, writer[d] # Nobody, view'[s][d] # view[s][d],
         ~Disturbed(writer[d], d)
  PROVE  view'[s][d] = content[d]
<1>1. /\ TypeOK /\ pc[p] = "answer" /\ resp[p] = "none" /\ writer[d] \in Requests
      /\ NearOK(writer[d], p) /\ TargetOK(p, d)
  BY RespondStep DEF IInv, StoryInv, TypeOK
<1>2. PICK I : Says(p, s, d, I)
  BY EmitStep
<1>3. PICK x \in Told(p) : x.id = d /\ view'[s][d] = x.owner
  BY <1>2 DEF Says
<1>4. /\ About(p, d)
      /\ \/ d \in effect[p]
         \/ route[p] \in DeleteRoutes /\ x.owner = "gone" /\ d \in target[p]
  BY <1>1, <1>3, ToldAbout
<1>5. p \notin near[writer[d]] /\ ~threw[p]
  BY <1>1, <1>4 DEF Disturbed, Misled
<1>6. d \notin effect[p]
  BY <1>1, <1>5 DEF NearOK, InFlight
<1>7. content[d] = "gone"
  BY <1>1, <1>4, <1>5, <1>6 DEF TargetOK
<1> QED
  BY <1>3, <1>4, <1>6, <1>7

LEMMA SeenStep ==
  ASSUME IInv, StoryInv, [Next]_vars, NEW s \in Sockets, NEW d \in Docs
  PROVE  SeenOK(s, d)'
<1> SUFFICES ASSUME writer'[d] # Nobody, resp'[writer'[d]] = "ok", Reaches(writer[d], s, d)'
             PROVE  view'[s][d] = content'[d] \/ Disturbed(writer[d], d)'
  BY DEF SeenOK
<1>1. /\ TypeOK /\ SeenOK(s, d) /\ writer[d] \in Requests \cup {Nobody} /\ FreshOK(d)
      /\ \A r \in Requests : pc[r] # "done" => resp[r] = "none"
      /\ \A r \in Requests : pc[r] = "idle" => effect[r] = {}
  BY DEF IInv, StoryInv, RequestInv, Arrived, TypeOK
\* The write itself is not answered yet.
<1>2. ASSUME NEW p \in Requests, NEW E \in SUBSET Docs, Write(p, E), d \in E
      PROVE  FALSE
  BY <1>1, <1>2 DEF Write
<1>3. writer'[d] = writer[d]
  <2>1. ASSUME NEW p \in Requests, Arrive(p) \/ Quiet(p) \/ Found(p) \/ Denial(p) \/ Respond(p)
        PROVE  writer' = writer
    BY <2>1, ArriveStep, RespondStep DEF Quiet, Found, Denial, Still, storeVars
  <2>2. ASSUME NEW p \in Requests, NEW E \in SUBSET Docs, Write(p, E), d \notin E
        PROVE  writer'[d] = writer[d]
    BY <2>2 DEF Write
  <2>3. Elsewhere => writer' = writer
    BY DEF Elsewhere, storeVars
  <2> QED
    BY <1>2, <2>1, <2>2, <2>3, Kinds
<1>4. PICK w \in Requests : writer[d] = w /\ w # Nobody /\ pc[w] # "idle"
  BY <1>1, <1>3 DEF FreshOK
<1>5. Reaches(w, s, d)' /\ resp'[w] = "ok"
  BY <1>3, <1>4 DEF Reaches
<1>6. resp[w] = "ok" /\ content'[d] = content[d] => Reaches(w, s, d)
  BY <1>5, ReachedBefore
<1>7. Disturbed(w, d) => Disturbed(w, d)'
  BY <1>4, DisturbedStays
<1>8. Disturbed(w, d)' => Disturbed(writer[d], d)'
  BY <1>3, <1>4 DEF Disturbed, Misled, About
<1>9. ASSUME resp[w] = "ok", content'[d] = content[d], view'[s][d] = view[s][d]
      PROVE  view'[s][d] = content'[d] \/ Disturbed(w, d)'
  BY <1>1, <1>4, <1>6, <1>7, <1>9 DEF SeenOK
<1>10. ASSUME NEW p \in Requests, Arrive(p) \/ Quiet(p) \/ Found(p) \/ Denial(p)
       PROVE  resp[w] = "ok" /\ content'[d] = content[d] /\ view'[s][d] = view[s][d]
  BY <1>4, <1>5, <1>10, ArriveStep DEF Quiet, Found, Denial, Still, storeVars
<1>11. ASSUME NEW p \in Requests, NEW E \in SUBSET Docs, Write(p, E)
       PROVE  resp[w] = "ok" /\ content'[d] = content[d] /\ view'[s][d] = view[s][d]
  BY <1>2, <1>4, <1>5, <1>11 DEF Write
<1>12. CASE Elsewhere
  BY <1>5, <1>8, <1>9, <1>12 DEF Elsewhere, storeVars
<1>13. ASSUME NEW p \in Requests, Respond(p)
       PROVE  view'[s][d] = content'[d] \/ Disturbed(w, d)'
  <2>1. content' = content
    BY <1>13, RespondStep DEF storeVars
  <2>2. CASE w = p
    BY <1>4, <1>5, <1>13, <2>1, <2>2, OwnBroadcast
  <2>3. CASE w # p
    <3>1. resp[w] = "ok"
      BY <1>1, <1>4, <1>5, <1>13, <2>3, RespondStep DEF TypeOK
    <3>2. CASE view'[s][d] = view[s][d]
      BY <1>9, <2>1, <3>1, <3>2
    <3>3. CASE view'[s][d] # view[s][d]
      BY <1>4, <1>7, <1>13, <2>1, <2>3, <3>3, OtherBroadcast
    <3> QED
      BY <3>2, <3>3
  <2> QED
    BY <2>2, <2>3
<1> QED
  BY <1>8, <1>9, <1>10, <1>11, <1>12, <1>13, Kinds

\* The past of a document grows with it, and what a service finds or writes is of it.
LEMMA PastStep ==
  ASSUME IInv, StoryInv, [Next]_vars, NEW d \in Docs
  PROVE  PastOK(d)' /\ past[d] \subseteq past'[d]
<1>1. /\ TypeOK /\ PastOK(d)
      /\ \A r \in Requests : effect[r] \subseteq Docs
  BY DEF IInv, StoryInv, TypeOK
<1>2. ASSUME UNCHANGED <<content, past>>, \A r \in Requests : result'[r] \subseteq result[r]
      PROVE  PastOK(d)' /\ past[d] \subseteq past'[d]
  BY <1>1, <1>2 DEF PastOK
<1>3. ASSUME NEW p \in Requests, Arrive(p) \/ Quiet(p) \/ Denial(p) \/ Respond(p)
      PROVE  UNCHANGED <<content, past>> /\ \A r \in Requests : result'[r] \subseteq result[r]
  BY <1>3, ArriveStep, RespondStep DEF Quiet, Denial, Still, storeVars
<1>4. Elsewhere => UNCHANGED <<content, past, result>>
  BY DEF Elsewhere, storeVars
<1>5. ASSUME NEW p \in Requests, Found(p)
      PROVE  PastOK(d)' /\ past[d] \subseteq past'[d]
  <2>1. UNCHANGED <<content, past>>
    BY <1>5 DEF Found, Still, storeVars
  <2>2. \A r \in Requests \ {p} : result'[r] = result[r]
    BY <1>1, <1>5 DEF Found, TypeOK
  <2>3. \A x \in result'[p] : x.id = d => x.owner = content[d]
    <3>1. result'[p] = {Item(e, content[e]) : e \in {e \in effect[p] : Alive(e)}}
      BY <1>1, <1>5 DEF Found, TypeOK
    <3> QED
      BY <3>1 DEF Item
  <2> QED
    BY <1>1, <2>1, <2>2, <2>3 DEF PastOK
<1>6. ASSUME NEW p \in Requests, NEW E \in SUBSET Docs, Write(p, E)
      PROVE  PastOK(d)' /\ past[d] \subseteq past'[d]
  <2>1. past'[d] = past[d] \cup {content'[d]}
    BY <1>6 DEF Write
  <2>2. \A r \in Requests \ {p} : result'[r] = result[r]
    BY <1>1, <1>6 DEF Write, TypeOK
  <2>3. \A x \in result'[p] : x.id = d => x.owner = content'[d]
    <3>1. result'[p] = {Item(e, content'[e]) : e \in E} \/ result'[p] = {}
      BY <1>1, <1>6 DEF Write, TypeOK
    <3>2. \A e \in E : Item(e, content'[e]).id = e /\ Item(e, content'[e]).owner = content'[e]
      BY DEF Item
    <3> QED
      BY <3>1, <3>2
  <2> QED
    BY <1>1, <2>1, <2>2, <2>3 DEF PastOK
<1> QED
  BY <1>2, <1>3, <1>4, <1>5, <1>6, Kinds

\* What a broadcast tells is what its service has answered, or the end of a document that
\* its delete has left gone, unless the call of the delete rejected.
LEMMA HeardStep ==
  ASSUME IInv, StoryInv, [Next]_vars, NEW s \in Sockets, NEW d \in Docs
  PROVE  HeardOK(s, d)'
<1>1. /\ TypeOK /\ HeardOK(s, d) /\ PastOK(d) /\ past[d] \subseteq past'[d]
      /\ \A r \in Requests : pc[r] # "done" => resp[r] = "none"
  BY PastStep DEF IInv, StoryInv, RequestInv, Arrived
<1> SUFFICES ASSUME view'[s][d] # "unknown"
             PROVE  \/ view'[s][d] \in past'[d]
                    \/ view'[s][d] = "gone" /\ \E q \in Requests : Lied(q, d)'
  BY DEF HeardOK
<1>2. ASSUME NEW q \in Requests, Lied(q, d)
      PROVE  Lied(q, d)'
  BY <1>1, <1>2, Monotone DEF Onwards, Lied
<1>3. CASE view'[s][d] = view[s][d]
  BY <1>1, <1>2, <1>3 DEF HeardOK
<1>4. CASE view'[s][d] # view[s][d]
  <2>1. PICK p \in Requests : Respond(p)
    <3>1. ASSUME NEW p \in Requests, Arrive(p) \/ Quiet(p) \/ Found(p) \/ Denial(p)
          PROVE  UNCHANGED view
      BY <3>1, ArriveStep DEF Quiet, Found, Denial, Still
    <3>2. ASSUME NEW p \in Requests, NEW E \in SUBSET Docs, Write(p, E)
          PROVE  UNCHANGED view
      BY <3>2 DEF Write
    <3>3. Elsewhere => UNCHANGED view
      BY DEF Elsewhere
    <3> QED
      BY <1>4, <3>1, <3>2, <3>3, Kinds
  <2>2. PICK I : Says(p, s, d, I)
    BY <2>1, EmitStep
  <2>3. PICK x \in Told(p) : x.id = d /\ view'[s][d] = x.owner
    BY <1>4, <2>2 DEF Says
  <2>4. /\ resp'[p] = "ok" /\ UNCHANGED <<target, route, threw>> /\ pc[p] = "answer"
    BY <1>1, <2>1, RespondStep DEF TypeOK, inputVars
  <2>5. CASE x \in result[p]
    BY <1>1, <2>3, <2>5 DEF PastOK
  <2>6. CASE route[p] \in DeleteRoutes /\ x.owner = "gone" /\ d \in target[p]
    <3>1. CASE threw[p]
      BY <2>3, <2>4, <2>6, <3>1 DEF Lied
    <3>2. CASE ~threw[p]
      <4>1. TargetOK(p, d)
        BY DEF StoryInv
      <4>2. content[d] = "gone"
        BY <2>4, <2>6, <3>2, <4>1 DEF TargetOK
      <4> QED
        BY <1>1, <2>3, <2>6, <4>2 DEF PastOK
    <3> QED
      BY <3>1, <3>2
  <2> QED
    BY <2>3, <2>4, <2>5, <2>6, ToldAbout
<1> QED
  BY <1>3, <1>4

LEMMA StoryStep == IInv /\ StoryInv /\ [Next]_vars => StoryInv'
<1> SUFFICES ASSUME IInv, StoryInv, [Next]_vars PROVE StoryInv'
  OBVIOUS
<1> QED
  BY RecordStep, EmptyStep, TargetStep, NearStep, FreshStep, PastStep, SeenStep,
     HeardStep DEF StoryInv

\* The second invariant holds in every state: a write that nobody else is near hands its
\* state to the broadcast, and a delete that has not rejected leaves nothing of its documents.
THEOREM StoryInvariance == Spec => []StoryInv
BY StoryInit, StoryStep, Invariance, PTL DEF Spec

\* Whatever the handler, the transport and the routes, a request without the ids its route
\* needs, and a socket event without a body, writes nothing.
THEOREM EmptyInputHarmless == Spec => []EmptyInputWritesNothing
<1>1. StoryInv => EmptyInputWritesNothing
  BY DEF StoryInv, EmptyOK, EmptyInputWritesNothing
<1> QED
  BY <1>1, StoryInvariance, PTL

\* For any number of requests, clients and documents: what a client was last told of a
\* document was once true of it, unless a delete told it whose call had rejected.
THEOREM HeardThingsWereTrue == Spec => []HeardWasTrue
<1>1. StoryInv => HeardWasTrue
  BY DEF StoryInv, HeardOK, Lied, HeardWasTrue
<1> QED
  BY <1>1, StoryInvariance, PTL

\* When all requests are answered a client knows the last state of a document it is told
\* of, unless another request about it overlapped the last write, or a delete answered ok
\* although its call rejected (websockets.md, "Live dashboards").
THEOREM ViewsCatchUp == Spec => []ViewCurrent
<1>1. ASSUME IInv, StoryInv, \A r \in Requests : pc[r] = "done",
             NEW s \in Sockets, NEW d \in Docs, writer[d] # Nobody,
             resp[writer[d]] = "ok", Reaches(writer[d], s, d), view[s][d] # content[d]
      PROVE  \/ \E q \in near[writer[d]] : About(q, d)
             \/ \E q \in Requests : threw[q] /\ resp[q] = "ok" /\ About(q, d)
  <2>1. Disturbed(writer[d], d)
    BY <1>1 DEF StoryInv, SeenOK
  <2>2. \A q \in Requests : ~(threw[q] /\ resp[q] = "none")
    BY <1>1 DEF StoryInv, RecordOK
  <2> QED
    BY <2>1, <2>2 DEF Disturbed, Misled
<1>2. IInv /\ StoryInv => ViewCurrent
  BY <1>1 DEF ViewCurrent
<1> QED
  BY <1>2, Invariance, StoryInvariance, PTL

=============================================================================
