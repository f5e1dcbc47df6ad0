---------------------------- MODULE RoutePipeline ----------------------------
(***************************************************************************)
(* The way of a request through a route of mongodb-dynamic-api, over HTTP   *)
(* (routes/<route>/<route>-controller.mixin.ts) or as a socket event        *)
(* (routes/<route>/<route>-gateway.mixin.ts): the token guards, the policies *)
(* guard with its ability predicate, the handler, the service and the       *)
(* broadcast of the result.  Nest keeps ONE instance of a policies guard     *)
(* per route and transport; its user field is shared by all the requests it  *)
(* is judging.  The services are those of CrudService, reduced to one write  *)
(* and one re-read on an entity without soft deletion.                      *)
(***************************************************************************)
EXTENDS Naturals, FiniteSets

CONSTANTS
  Requests,     \* the requests of a run
  Docs,         \* ObjectIds, generated in increasing order
  Existing,     \* the ids stored initially
  Users,        \* the users; what a document holds is its owner
  NoUser,       \* the user of a request without one
  Sockets,      \* connected socket.io clients
  SocketUser,   \* the user in the token of a socket's handshake, or NoUser
  Http,         \* the transport that is no socket
  Lobby,        \* a static room; the other rooms are named after the owners
  Rooms,        \* bound: the rooms clients join
  MaxBatch,     \* bound: the most ids or documents of a request
  MaxMoves,     \* bound: the sockets that join or leave rooms, once each
  Routes,       \* the route types requests are sent to
  Public,       \* the routes with isPublic
  Predicates,   \* the routes with an abilityPredicate: the document is the user's own
  Audiences,    \* the routes with a broadcast, and its rooms: everyone, lobby or owner
  Filtered      \* the routes whose broadcast.enabled is a predicate: the user's own

RouteTypes == {"Aggregate", "GetMany", "GetOne", "CreateOne", "CreateMany",
               "DuplicateOne", "DuplicateMany", "UpdateOne", "UpdateMany",
               "ReplaceOne", "DeleteOne", "DeleteMany"}
ReadRoutes == {"Aggregate", "GetMany", "GetOne"}
CreateRoutes == {"CreateOne", "CreateMany"}
DeleteRoutes == {"DeleteOne", "DeleteMany"}
OneIdRoutes == {"GetOne", "DuplicateOne", "UpdateOne", "ReplaceOne", "DeleteOne"}
ManyIdsRoutes == {"DuplicateMany", "UpdateMany", "DeleteMany"}
RereadRoutes == CreateRoutes \cup {"DuplicateOne", "DuplicateMany", "UpdateMany"}

ASSUME DocsAssumption == Docs \subseteq Nat /\ Existing \subseteq Docs
ASSUME UsersAssumption ==
  /\ NoUser \notin Users
  /\ (Users \cup {Lobby}) \cap {"unborn", "gone", "unknown"} = {}
  /\ SocketUser \in [Sockets -> Users \cup {NoUser}]
ASSUME TransportAssumption == Http \notin Sockets
ASSUME RoutesAssumption ==
  /\ Routes \subseteq RouteTypes
  /\ Rooms \subseteq Users \cup {Lobby}
  /\ Audiences \in [RouteTypes -> {"off", "everyone", "lobby", "owner"}]

VARIABLES
  content,    \* content[d]: the owner of d, or unborn, or gone
  guardUser,  \* guardUser[g]: this.user of the policies guard g
  wsServer,   \* DynamicApiBroadcastService.wsServer is set
  member,     \* member[s]: the rooms socket s is in
  view,       \* view[s][d]: what the broadcasts have told s of d last
  pc,         \* pc[r]: the await request r is at
  via,        \* via[r]: Http, or the socket it came from
  route,      \* route[r]: its route
  user,       \* user[r]: request.user or socket.user
  target,     \* target[r]: the ids in its path, query or body
  flaw,       \* flaw[r]: what is missing in its input: none, ids or body
  judged,     \* judged[r]: the documents the find of its policies guard has read
  result,     \* result[r]: the items its service returns
  resp        \* resp[r]: none, ok, unauthorized, denied, notFound, failed, or
              \* invalid: refused for its input by the guard or the handler

\* History, read by the properties only.
VARIABLES
  company,    \* company[r]: requests that entered r's policies guard while it judged r
  judge,      \* judge[r]: the user the predicate was called with for r
  near,       \* near[r]: requests in flight at some moment while r was
  effect,     \* effect[r]: the documents r wrote
  writer,     \* writer[d]: the last request that wrote d
  threw,      \* threw[r]: a call awaited by the service of r rejected
  past,       \* past[d]: everything content[d] has been
  rooms,      \* rooms[r][s]: the rooms s was in when r broadcast
  moved       \* the sockets that have joined or left rooms

inputVars == <<via, route, user, target, flaw>>
sharedVars == <<guardUser, wsServer, member, moved>>
storeVars == <<content, effect, writer, past>>
vars == <<content, guardUser, wsServer, member, view, pc, via, route, user, target, flaw,
          judged, result, resp, company, judge, near, effect, writer, threw, past, rooms,
          moved>>

Nobody == "nobody"
Alive(d) == content[d] \in Users
Unborn == {d \in Docs : content[d] = "unborn"}
Item(d, o) == [id |-> d, owner |-> o]
InFlight(r) == pc[r] \notin {"idle", "done"}

\* Variant: an error of a socket event misses the exception filter.
Answer_Unfiltered(r, a) ==
  /\ pc' = [pc EXCEPT ![r] = "done"]
  /\ resp' = [resp EXCEPT ![r] = IF a = "failed" /\ via[r] # Http THEN "error" ELSE a]

Answer(r, a) == pc' = [pc EXCEPT ![r] = "done"] /\ resp' = [resp EXCEPT ![r] = a]

Goto(r, l) == pc' = [pc EXCEPT ![r] = l] /\ UNCHANGED resp

-----------------------------------------------------------------------------
(* The handlers: what each one refuses in its input, and what it broadcasts *)
(* after its service has returned: the items of the answer or, the document *)
(* being gone, the ids of the request.                                       *)

AggregateController == [refuses |-> {"body"}, tells |-> "nothing"]

GetManyController == [refuses |-> {}, tells |-> "nothing"]

GetOneController == [refuses |-> {}, tells |-> "nothing"]

CreateOneController == [refuses |-> {}, tells |-> "answer"]

CreateManyController == [refuses |-> {"body"}, tells |-> "answer"]

DuplicateOneController == [refuses |-> {}, tells |-> "answer"]

DuplicateManyController == [refuses |-> {"ids"}, tells |-> "answer"]

UpdateOneController == [refuses |-> {"body"}, tells |-> "answer"]

UpdateManyController == [refuses |-> {"ids", "body"}, tells |-> "answer"]

ReplaceOneController == [refuses |-> {}, tells |-> "answer"]

\* Variant: the result of the deletion is broadcast.
DeleteOneController_Answer == [refuses |-> {}, tells |-> "answer"]

DeleteOneController == [refuses |-> {}, tells |-> "ids"]

DeleteManyController == [refuses |-> {"ids"}, tells |-> "ids"]

AggregateGateway == [refuses |-> {}, tells |-> "nothing"]

GetManyGateway == [refuses |-> {}, tells |-> "nothing"]

GetOneGateway == [refuses |-> {"ids"}, tells |-> "nothing"]

CreateOneGateway == [refuses |-> {"body"}, tells |-> "answer"]

CreateManyGateway == [refuses |-> {"body"}, tells |-> "answer"]

DuplicateOneGateway == [refuses |-> {"ids"}, tells |-> "answer"]

DuplicateManyGateway == [refuses |-> {"ids"}, tells |-> "answer"]

UpdateOneGateway == [refuses |-> {"ids", "body"}, tells |-> "answer"]

UpdateManyGateway == [refuses |-> {"ids", "body"}, tells |-> "answer"]

\* Variant: an empty replacement passes.
ReplaceOneGateway_NoBody == [refuses |-> {"ids"}, tells |-> "answer"]

ReplaceOneGateway == [refuses |-> {"ids", "body"}, tells |-> "answer"]

DeleteOneGateway == [refuses |-> {"ids"}, tells |-> "ids"]

DeleteManyGateway == [refuses |-> {"ids"}, tells |-> "ids"]

Controllers ==
  [Aggregate |-> AggregateController, GetMany |-> GetManyController,
   GetOne |-> GetOneController, CreateOne |-> CreateOneController,
   CreateMany |-> CreateManyController, DuplicateOne |-> DuplicateOneController,
   DuplicateMany |-> DuplicateManyController, UpdateOne |-> UpdateOneController,
   UpdateMany |-> UpdateManyController, ReplaceOne |-> ReplaceOneController,
   DeleteOne |-> DeleteOneController, DeleteMany |-> DeleteManyController]

Gateways ==
  [Aggregate |-> AggregateGateway, GetMany |-> GetManyGateway,
   GetOne |-> GetOneGateway, CreateOne |-> CreateOneGateway,
   CreateMany |-> CreateManyGateway, DuplicateOne |-> DuplicateOneGateway,
   DuplicateMany |-> DuplicateManyGateway, UpdateOne |-> UpdateOneGateway,
   UpdateMany |-> UpdateManyGateway, ReplaceOne |-> ReplaceOneGateway,
   DeleteOne |-> DeleteOneGateway, DeleteMany |-> DeleteManyGateway]

Handler(r) == IF via[r] = Http THEN Controllers[route[r]] ELSE Gateways[route[r]]

-----------------------------------------------------------------------------
(* Arrival, and the guard of the access token.                             *)

\* The ids a client may send with a request to route t; no ids is a flaw.
TargetsFor(t, f) ==
  LET known == Docs \ Unborn
  IN IF f = "ids" THEN {{}}
     ELSE IF t \in OneIdRoutes THEN {{d} : d \in known}
     ELSE IF t \in ManyIdsRoutes THEN {S \in SUBSET known : S # {} /\ Cardinality(S) <= MaxBatch}
     ELSE {{}}

\* An id in a path is never missing, and a read has no body but the query of Aggregate.
FlawsFor(t, v) ==
  {"none"} \cup (IF t \in ManyIdsRoutes \/ (t \in OneIdRoutes /\ v # Http)
                   THEN {"ids"} ELSE {})
           \cup (IF t \in {"GetMany", "GetOne"} \cup DeleteRoutes THEN {} ELSE {"body"})

\* DynamicApiJwtAuthGuard and JwtSocketGuard let anybody in on a public route.
Identified(t, u) == t \in Public \/ u # NoUser

\* A public route looks for no user: request.user stays undefined, and socket.user is
\* what other events of the socket have left there, if there were any.
UsersFor(t, v) ==
  IF v = Http THEN (IF t \in Public THEN {NoUser} ELSE Users \cup {NoUser})
  ELSE {SocketUser[v]} \cup (IF t \in Public THEN {NoUser} ELSE {})

Arrive(r) ==
  /\ pc[r] = "idle"
  /\ \E t \in Routes, v \in Sockets \cup {Http} :
     \E f \in FlawsFor(t, v), u \in UsersFor(t, v) : \E S \in TargetsFor(t, f) :
       /\ via' = [via EXCEPT ![r] = v]
       /\ route' = [route EXCEPT ![r] = t]
       /\ user' = [user EXCEPT ![r] = u]
       /\ target' = [target EXCEPT ![r] = S]
       /\ flaw' = [flaw EXCEPT ![r] = f]
       /\ IF Identified(t, u) THEN Goto(r, "guard") ELSE Answer(r, "unauthorized")
  /\ near' = [q \in Requests |->
                IF q = r THEN {p \in Requests : InFlight(p)}
                ELSE IF InFlight(q) THEN near[q] \cup {r} ELSE near[q]]
  /\ UNCHANGED <<storeVars, sharedVars, view, rooms, judged, result, company, judge, threw>>

-----------------------------------------------------------------------------
(* The policies guard.  It stores the user in a field, finds the documents  *)
(* the request is about, and calls the predicate with the field it reads    *)
(* AFTER the find.                                                          *)

Gates == {"controller", "gateway"} \X RouteTypes
Gate(r) == <<IF via[r] = Http THEN "controller" ELSE "gateway", route[r]>>
Judging(r) == pc[r] \in {"find", "judge"}

\* Variant: the guard keeps the first user it has seen.
EnterGuard_FirstUser(r) ==
  /\ guardUser' = [guardUser EXCEPT ![Gate(r)] = IF @ = NoUser THEN user[r] ELSE @]
  /\ company' = [q \in Requests |->
                   IF Judging(q) /\ Gate(q) = Gate(r) THEN company[q] \cup {r}
                   ELSE company[q]]
  /\ Goto(r, "find")

EnterGuard(r) ==
  /\ guardUser' = [guardUser EXCEPT ![Gate(r)] = user[r]]
  /\ company' = [q \in Requests |->
                   IF Judging(q) /\ Gate(q) = Gate(r) THEN company[q] \cup {r}
                   ELSE company[q]]
  /\ Goto(r, "find")

\* Over HTTP a public route with a predicate denies everybody: nobody has a user.
HttpGuard(r) ==
  /\ pc[r] = "guard" /\ via[r] = Http
  /\ \/ route[r] \notin Predicates /\ Goto(r, "handle") /\ UNCHANGED <<guardUser, company>>
     \/ /\ route[r] \in Predicates /\ user[r] = NoUser
        /\ Answer(r, "denied")
        /\ UNCHANGED <<guardUser, company>>
     \/ route[r] \in Predicates /\ user[r] # NoUser /\ EnterGuard(r)
  /\ UNCHANGED <<storeVars, wsServer, member, moved, view, rooms, inputVars, judged, result, judge,
                 near, threw>>

\* As a socket event a public route is not judged at all.
SocketGuard(r) ==
  /\ pc[r] = "guard" /\ via[r] # Http
  /\ \/ /\ route[r] \notin Predicates \ Public
        /\ Goto(r, "handle")
        /\ UNCHANGED <<guardUser, company>>
     \/ route[r] \in Predicates \ Public /\ EnterGuard(r)
  /\ UNCHANGED <<storeVars, wsServer, member, moved, view, rooms, inputVars, judged, result, judge,
                 near, threw>>

\* Variant: the id is missing from the conditions of the find.
GuardFinds_NoId(r) == {{d} : d \in {e \in Docs : Alive(e)}} \cup {{}}

\* What the find may read.  A socket event with an id reads that document.  Over HTTP
\* the conditions of the query are added to the id of the path and come last; without
\* an id, the query or the body is the filter and may match any documents.
GuardFinds(r) ==
  LET living == {d \in Docs : Alive(d)}
  IN IF route[r] \in OneIdRoutes /\ flaw[r] # "ids"
       THEN IF via[r] = Http THEN {{d} : d \in living} \cup {{}} ELSE {target[r] \cap living}
       ELSE SUBSET living

GuardFind(r) ==
  /\ pc[r] = "find"
  /\ \E S \in GuardFinds(r) :
       /\ judged' = [judged EXCEPT ![r] = {Item(d, content[d]) : d \in S}]
       /\ IF S = {} /\ route[r] \in OneIdRoutes /\ flaw[r] # "ids"
            THEN Answer(r, "invalid") ELSE Goto(r, "judge")
  /\ UNCHANGED <<storeVars, sharedVars, view, rooms, inputVars, result, company, judge, near, threw>>

\* The predicate of every document found must hold.
Allowed(I, u) == \A x \in I : x.owner = u

Judge(r) ==
  /\ pc[r] = "judge"
  /\ judge' = [judge EXCEPT ![r] = guardUser[Gate(r)]]
  /\ IF Allowed(judged[r], guardUser[Gate(r)]) THEN Goto(r, "handle") ELSE Answer(r, "denied")
  /\ UNCHANGED <<storeVars, sharedVars, view, rooms, inputVars, judged, result, company, near, threw>>

\* The find of the guard rejects (the database, an id that is none), or the predicate throws.
GuardRejects(r) ==
  /\ Judging(r)
  /\ threw' = [threw EXCEPT ![r] = TRUE]
  /\ Answer(r, "failed")
  /\ UNCHANGED <<storeVars, sharedVars, view, rooms, inputVars, judged, result, company, judge, near>>

-----------------------------------------------------------------------------
(* The handler: its checks, its service, the broadcast and the answer.      *)

RefuseInput(r) ==
  /\ pc[r] = "handle"
  /\ flaw[r] \in Handler(r).refuses
  /\ Answer(r, "invalid")
  /\ UNCHANGED <<storeVars, sharedVars, view, rooms, inputVars, judged, result, company, judge, near,
                 threw>>

\* New documents get the smallest free ids.
NewDocs(n) == {E \in SUBSET Unborn : Cardinality(E) = n /\ \A d \in E, e \in Unborn \ E : d < e}

Hit(r) == {d \in target[r] : Alive(d)}

\* The 404 check of the services on the documents they look for.
Refuses(r) ==
  /\ route[r] \in (OneIdRoutes \cup ManyIdsRoutes) \ DeleteRoutes
  /\ Hit(r) = {} \/ (route[r] = "UpdateMany" /\ Hit(r) # target[r])

\* The gateway of Aggregate, unlike its controller, lets an empty pipeline through to the
\* service, which fails on its first stage.
EmptyPipeline(r) == route[r] = "Aggregate" /\ flaw[r] = "body"

\* Variant: DeleteMany deletes one of its documents only.
Effects_DeletesOne(r) ==
  CASE route[r] \in ReadRoutes -> {{}}
    [] route[r] = "CreateOne" -> NewDocs(1)
    [] route[r] = "CreateMany" -> UNION {NewDocs(n) : n \in 1..MaxBatch}
    [] route[r] \in {"DuplicateOne", "DuplicateMany"} -> NewDocs(Cardinality(Hit(r)))
    [] route[r] = "DeleteMany" -> IF Hit(r) = {} THEN {{}} ELSE {{d} : d \in Hit(r)}
    [] OTHER -> {Hit(r)}

\* The sets of documents the service of r may write.
Effects(r) ==
  CASE route[r] \in ReadRoutes -> {{}}
    [] route[r] = "CreateOne" -> NewDocs(1)
    [] route[r] = "CreateMany" -> UNION {NewDocs(n) : n \in 1..MaxBatch}
    [] route[r] \in {"DuplicateOne", "DuplicateMany"} -> NewDocs(Cardinality(Hit(r)))
    [] OTHER -> {Hit(r)}

Serve(r) ==
  /\ pc[r] = "handle"
  /\ flaw[r] \notin Handler(r).refuses
  /\ \/ EmptyPipeline(r) /\ Answer(r, "failed") /\ UNCHANGED <<storeVars, result>>
     \/ Refuses(r) /\ Answer(r, "notFound") /\ UNCHANGED <<storeVars, result>>
     \/ ~EmptyPipeline(r) /\ ~Refuses(r) /\ \E E \in Effects(r) :
        \E f \in IF route[r] \in DeleteRoutes THEN {[d \in E |-> "gone"]} ELSE [E -> Users] :
          /\ content' = [d \in Docs |-> IF d \in E THEN f[d] ELSE content[d]]
          /\ effect' = [effect EXCEPT ![r] = E]
          /\ writer' = [d \in Docs |-> IF d \in E THEN r ELSE writer[d]]
          /\ past' = [d \in Docs |-> past[d] \cup {content'[d]}]
          /\ result' = [result EXCEPT ![r] =
                          IF route[r] \in {"UpdateOne", "ReplaceOne"}
                            THEN {Item(d, f[d]) : d \in E} ELSE {}]
          /\ Goto(r, IF route[r] \in RereadRoutes THEN "reread" ELSE "answer")
  /\ UNCHANGED <<sharedVars, view, rooms, inputVars, judged, company, judge, near, threw>>

\* The re-read of the services that answer with a find of what they wrote.
Reread(r) ==
  /\ pc[r] = "reread"
  /\ LET I == {Item(d, content[d]) : d \in {e \in effect[r] : Alive(e)}}
     IN /\ result' = [result EXCEPT ![r] = I]
        /\ IF I = {} /\ route[r] \in {"CreateOne", "DuplicateOne"}
             THEN Answer(r, "failed") ELSE Goto(r, "answer")
  /\ UNCHANGED <<storeVars, sharedVars, view, rooms, inputVars, judged, company, judge, near, threw>>

\* A call the service awaits rejects: the database, or a callback before or after the
\* write.  A delete answers { deletedCount: 0 } instead.
Reject(r) ==
  /\ pc[r] \in {"handle", "reread", "answer"}
  /\ flaw[r] \notin Handler(r).refuses
  /\ ~threw[r]
  /\ threw' = [threw EXCEPT ![r] = TRUE]
  /\ IF route[r] \in DeleteRoutes THEN Goto(r, "answer") ELSE Answer(r, "failed")
  /\ UNCHANGED <<storeVars, sharedVars, view, rooms, inputVars, judged, result, company, judge, near>>

\* The items a handler hands to the broadcast.
Told(r) ==
  IF Handler(r).tells = "nothing" THEN {}
  ELSE IF Handler(r).tells = "answer" THEN result[r]
  ELSE {Item(d, "gone") : d \in target[r]}

Enabled(r, I, u) ==
  IF Audiences[route[r]] = "off" THEN {}
  ELSE IF route[r] \in Filtered THEN {x \in I : x.owner = u} ELSE I

\* Over HTTP the predicate of broadcast.enabled gets no user.
BroadcastFromHttp(r) == IF wsServer THEN Enabled(r, Told(r), NoUser) ELSE {}

BroadcastIfNeeded(r) == Enabled(r, Told(r), user[r])

\* Variant: the rooms of a batch are those of its first item.
ResolveRooms_First(r, I) ==
  IF Audiences[route[r]] = "lobby" THEN {Lobby}
  ELSE {x.owner : x \in {y \in I : \A z \in I : y.id <= z.id}}

\* The rooms of a broadcast: a static one, or those of all its items together.
ResolveRooms(r, I) ==
  IF Audiences[route[r]] = "lobby" THEN {Lobby} ELSE {x.owner : x \in I}

\* Everybody but the sender, or the members of the rooms, the sender among them.
Listeners(r, I) ==
  IF Audiences[route[r]] = "everyone" THEN Sockets \ {via[r]}
  ELSE {s \in Sockets : member[s] \cap ResolveRooms(r, I) # {}}

Emit(r, I) ==
  view' = [s \in Sockets |->
             IF s \in Listeners(r, I)
               THEN [d \in Docs |-> IF \E x \in I : x.id = d
                                      THEN (CHOOSE x \in I : x.id = d).owner ELSE view[s][d]]
               ELSE view[s]]

Respond(r) ==
  /\ pc[r] = "answer"
  /\ Emit(r, IF via[r] = Http THEN BroadcastFromHttp(r) ELSE BroadcastIfNeeded(r))
  /\ rooms' = [rooms EXCEPT ![r] = member]
  /\ Answer(r, "ok")
  /\ UNCHANGED <<storeVars, sharedVars, inputVars, judged, result, company, judge, near, threw>>

-----------------------------------------------------------------------------
(* The broadcast gateway.                                                   *)

\* afterInit runs while the application starts, before it listens.
AfterInit ==
  /\ ~wsServer
  /\ \A r \in Requests : pc[r] = "idle"
  /\ wsServer' = TRUE
  /\ UNCHANGED <<storeVars, guardUser, member, moved, view, rooms, pc, inputVars, judged, result, resp,
                 company, judge, near, threw>>

\* The handlers of join-rooms and leave-rooms, behind JwtSocketGuard.
MoveTo(s, R) ==
  /\ SocketUser[s] # NoUser
  /\ s \notin moved /\ Cardinality(moved) < MaxMoves
  /\ member' = [member EXCEPT ![s] = R]
  /\ moved' = moved \cup {s}
  /\ UNCHANGED <<storeVars, guardUser, wsServer, view, rooms, pc, inputVars, judged, result, resp,
                 company, judge, near, threw>>

JoinRooms(s) == \E R \in SUBSET Rooms \ {{}} : MoveTo(s, member[s] \cup R)
LeaveRooms(s) == \E R \in SUBSET Rooms \ {{}} : MoveTo(s, member[s] \ R)

-----------------------------------------------------------------------------
Init ==
  /\ content \in [Docs -> Users \cup {"unborn"}]
  /\ \A d \in Docs : content[d] = "unborn" <=> d \notin Existing
  /\ guardUser = [g \in Gates |-> NoUser]
  /\ wsServer = FALSE
  /\ member \in [Sockets -> SUBSET Rooms]
  /\ view = [s \in Sockets |-> [d \in Docs |-> "unknown"]]
  /\ pc = [r \in Requests |-> "idle"]
  /\ via = [r \in Requests |-> Http]
  /\ route = [r \in Requests |-> "none"]
  /\ user = [r \in Requests |-> NoUser]
  /\ target = [r \in Requests |-> {}]
  /\ flaw = [r \in Requests |-> "none"]
  /\ judged = [r \in Requests |-> {}]
  /\ result = [r \in Requests |-> {}]
  /\ resp = [r \in Requests |-> "none"]
  /\ company = [r \in Requests |-> {}]
  /\ judge = [r \in Requests |-> NoUser]
  /\ near = [r \in Requests |-> {}]
  /\ effect = [r \in Requests |-> {}]
  /\ writer = [d \in Docs |-> Nobody]
  /\ threw = [r \in Requests |-> FALSE]
  /\ past = [d \in Docs |-> {content[d]}]
  /\ rooms = [r \in Requests |-> [s \in Sockets |-> {}]]
  /\ moved = {}

\* What Nest, the database and the application do for a request that has arrived.
Progress(r) ==
  \/ HttpGuard(r) \/ SocketGuard(r) \/ GuardFind(r) \/ Judge(r)
  \/ RefuseInput(r) \/ Serve(r) \/ Reread(r) \/ Respond(r)

Quiescent == (\A r \in Requests : pc[r] = "done") /\ UNCHANGED vars

Next ==
  \/ AfterInit
  \/ \E r \in Requests : Arrive(r) \/ Progress(r) \/ GuardRejects(r) \/ Reject(r)
  \/ \E s \in Sockets : JoinRooms(s) \/ LeaveRooms(s)
  \/ Quiescent

Spec == Init /\ [][Next]_vars

-----------------------------------------------------------------------------
(* Properties.                                                              *)

PCs == {"idle", "guard", "find", "judge", "handle", "reread", "answer", "done"}
Answers == {"ok", "unauthorized", "denied", "invalid", "notFound", "failed"}
Items == [id : Docs, owner : Users \cup {"gone"}]

InputTypeOK ==
  /\ via \in [Requests -> Sockets \cup {Http}]
  /\ route \in [Requests -> RouteTypes \cup {"none"}]
  /\ user \in [Requests -> Users \cup {NoUser}]
  /\ target \in [Requests -> SUBSET Docs]
  /\ flaw \in [Requests -> {"none", "ids", "body"}]

\* Every variable holds values of its kind.
TypeOK ==
  /\ content \in [Docs -> Users \cup {"unborn", "gone"}]
  /\ guardUser \in [Gates -> Users \cup {NoUser}]
  /\ wsServer \in BOOLEAN
  /\ member \in [Sockets -> SUBSET Rooms]
  /\ view \in [Sockets -> [Docs -> Users \cup {"gone", "unknown"}]]
  /\ pc \in [Requests -> PCs]
  /\ InputTypeOK
  /\ judged \in [Requests -> SUBSET Items]
  /\ result \in [Requests -> SUBSET Items]
  /\ resp \in [Requests -> Answers \cup {"none"}]
  /\ company \in [Requests -> SUBSET Requests]
  /\ judge \in [Requests -> Users \cup {NoUser}]
  /\ near \in [Requests -> SUBSET Requests]
  /\ effect \in [Requests -> SUBSET Docs]
  /\ writer \in [Docs -> Requests \cup {Nobody}]
  /\ threw \in [Requests -> BOOLEAN]
  /\ past \in [Docs -> SUBSET (Users \cup {"unborn", "gone"})]
  /\ rooms \in [Requests -> [Sockets -> SUBSET Rooms]]
  /\ moved \in SUBSET Sockets

\* A request that must be judged: its route has a predicate and is not public on a socket.
MustBeJudged(r) ==
  route[r] \in Predicates /\ (via[r] = Http \/ route[r] \notin Public)

\* A request past its guard; a failed one was so before, or never.
Admitted(r) ==
  pc[r] \in {"handle", "reread", "answer"} \/ resp[r] \in {"ok", "notFound"}

\* A request passes the policies guard only if every document its find read is allowed to
\* its own user or to the user of a request that entered the same guard while it was being
\* judged: the field this.user is shared, and set before the find is awaited
\* (base-policies.guard.ts:29, base.service.ts:228), so an older user never lingers in it.
JudgedInCompany ==
  \A r \in Requests :
    Admitted(r) /\ MustBeJudged(r) =>
      \E q \in company[r] \cup {r} :
        /\ user[q] \in Users
        /\ Gate(q) = Gate(r)
        /\ \A x \in judged[r] : x.owner = user[q]

\* On a socket, what a route over one id writes is the document its guard has judged.
JudgedIsWritten ==
  \A r \in Requests :
    route[r] \in {"UpdateOne", "ReplaceOne", "DeleteOne"} /\ via[r] # Http /\ MustBeJudged(r)
      => effect[r] \subseteq {x.id : x \in judged[r]}

\* Without the ids it needs no request writes anything, nor does a socket event without a
\* body, whichever of the twelve handlers it is for: the controllers of CreateOne and
\* ReplaceOne leave an empty body to the validation pipe, no gateway does.  A duplication
\* needs no body.
EmptyInputWritesNothing ==
  \A r \in Requests :
    \/ flaw[r] = "ids"
    \/ flaw[r] = "body" /\ via[r] # Http /\ route[r] \notin {"DuplicateOne", "DuplicateMany"}
    => effect[r] = {}

\* The broadcast of request w about document d reaches socket s: somebody listens, and the
\* route tells everybody but the sender, or a room s was in at that moment, the static one
\* or that of the owner d has now.
Reaches(w, s, d) ==
  /\ via[w] = Http => wsServer
  /\ route[w] \notin Filtered
  /\ \/ Audiences[route[w]] = "everyone" /\ via[w] # s
     \/ Audiences[route[w]] = "lobby" /\ Lobby \in rooms[w][s]
     \/ Audiences[route[w]] = "owner" /\ content[d] \in rooms[w][s]

\* Requests whose broadcasts or writes concern document d.
About(q, d) == d \in effect[q] \cup target[q]

\* When all requests are answered, a client the broadcast of the last write of a document
\* has reached, in whichever of its rooms, has seen the state that write left, unless
\* another request about that document was in flight at the same time, or a delete whose
\* call rejected announced a deletion that did not happen: nothing else lets a live view
\* lag (websockets.md:439).  The items of a batch go together to the rooms of all of them
\* (resolve-rooms.helper.ts:22), and clients join and leave rooms meanwhile.
ViewCurrent ==
  (\A r \in Requests : pc[r] = "done") =>
    \A s \in Sockets, d \in Docs : writer[d] # Nobody =>
      LET w == writer[d]
      IN \/ resp[w] # "ok" \/ ~Reaches(w, s, d)
         \/ view[s][d] = content[d]
         \/ \E q \in near[w] : About(q, d)
         \/ \E q \in Requests : threw[q] /\ resp[q] = "ok" /\ About(q, d)

\* What a client was last told of a document was true of it at some moment, however old
\* the broadcast and whoever wrote since, but for the end of a document announced by a
\* delete whose call rejected: its handler broadcasts the ids it was sent and not what was
\* deleted (delete-many-controller.mixin.ts:84).
HeardWasTrue ==
  \A s \in Sockets, d \in Docs : view[s][d] # "unknown" =>
    \/ view[s][d] \in past[d]
    \/ /\ view[s][d] = "gone"
       /\ \E q \in Requests :
            route[q] \in DeleteRoutes /\ threw[q] /\ resp[q] = "ok" /\ d \in target[q]

\* authorization.md:116 says that user is the authenticated user: the predicate is called
\* with the user of the request it decides on.
JudgedForItsUser ==
  \A r \in Requests :
    Admitted(r) /\ MustBeJudged(r) => \A x \in judged[r] : x.owner = user[r]

-----------------------------------------------------------------------------
(* The inductive invariant behind the theorems of RoutePipelineProofs.      *)

\* The field of a guard that is judging a request holds the user of that request, or of
\* one that has entered the guard since.
FieldInCompany(r) ==
  Judging(r) =>
    \E q \in company[r] \cup {r} :
      user[q] \in Users /\ Gate(q) = Gate(r) /\ guardUser[Gate(r)] = user[q]

AllowedInCompany(r) ==
  Admitted(r) /\ MustBeJudged(r) =>
    \E q \in company[r] \cup {r} :
      user[q] \in Users /\ Gate(q) = Gate(r) /\ \A x \in judged[r] : x.owner = user[q]

\* Only requests that have arrived keep company, and nothing has happened before.
Arrived(r) ==
  /\ \A q \in company[r] : pc[q] # "idle"
  /\ pc[r] = "idle" => company[r] = {} /\ effect[r] = {} /\ judged[r] = {}
  /\ pc[r] # "idle" => route[r] \in RouteTypes
  /\ pc[r] # "done" => resp[r] = "none"
  /\ pc[r] = "guard" => route[r] \in Public \/ user[r] \in Users

JudgedIds(r) == {x.id : x \in judged[r]}

\* A write of one document over a socket: its target is judged before it is written.
OneWrite(r) ==
  route[r] \in {"UpdateOne", "ReplaceOne", "DeleteOne"} /\ via[r] # Http /\ MustBeJudged(r) =>
    /\ target[r] = {} \/ \E d \in Docs : target[r] = {d}
    /\ flaw[r] = "ids" => target[r] = {}
    /\ pc[r] \in {"judge", "handle"} => target[r] \subseteq JudgedIds(r)
    /\ effect[r] \subseteq JudgedIds(r)
    /\ pc[r] \in {"guard", "find"} => effect[r] = {}

RequestInv(r) == FieldInCompany(r) /\ AllowedInCompany(r) /\ Arrived(r) /\ OneWrite(r)

IInv == TypeOK /\ \A r \in Requests : RequestInv(r)

=============================================================================
