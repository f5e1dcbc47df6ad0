# A TLA+ verification project for mongodb-dynamic-api

mongodb-dynamic-api generates, for a NestJS application, a REST and WebSocket API over
Mongoose collections: twelve route types per entity, authentication, a response cache,
ability predicates, broadcasts. All paths below are relative to
`src/libs/dynamic-api/src/` unless they begin with `README`, which stands for `src/README`.

Node runs one thread, so the program has no data races; what it has is *awaits*. A service,
guard, interceptor or gateway runs alone between two of them, and at every one any other
request may run. The database makes a write to one document atomic and nothing more. Almost
every module here has the same shape for that reason: a request is a chain of awaits, and
an action is what runs from one await to the next.

## 1. Inventory

| part | state | operations | interacts with | what is hard |
|---|---|---|---|---|
| Route services `routes/*/base-*.service.ts`, `services/base` | the collection; per request what its finds returned | Aggregate, GetMany, GetOne, CreateOne, CreateMany, DuplicateOne, DuplicateMany, UpdateOne, UpdateMany, ReplaceOne, DeleteOne, DeleteMany | database, user callbacks | find-then-write without a transaction, parallel writes under `Promise.all`, errors after a commit |
| Authentication `modules/auth/services/base-auth.service.ts`, `auth.helper.ts` | accounts, password hash, one refresh-token hash per account; tokens at the clients | login, register, refreshToken, logout, getAccount, updateAccount, resetPassword, changePassword | bcrypt, database, callbacks, the routes of the user entity | compare-then-store of the refresh token, late writes, accounts deleted under a request |
| Response cache `interceptors/dynamic-api-cache.interceptor.ts`, `routes/cache-purge` | one cache for all features | read through, clear after a write, purge | route services, gateways | a GET that overtakes or is overtaken by a clear that nobody awaits |
| Policies guards `guards/base-policies.guard.ts` | `this.user` of one guard instance per route | canActivate | database finds, ability predicates | one field shared by concurrent requests across an await |
| JWT guards, socket guards `guards/*`, `modules/auth/guards` | `socket.user` | canActivate | JWT library | a socket is shared by its concurrent events |
| Auth gateway `modules/auth/mixins/auth-gateway.mixin.ts` | `socket.user` | the nine auth events | authentication service, broadcasts | `socket.user` is written after one await and read after the next |
| Auth controller, strategies `modules/auth/mixins/auth-controller.mixin.ts`, `strategies` | the cookie of the client | the nine auth routes | authentication service | which token is whose |
| Route controllers and gateways `routes/*/*-controller.mixin.ts`, `*-gateway.mixin.ts` | none | one handler per route | guards, services, presenters, broadcasts | what is broadcast for which outcome |
| Broadcast `services/dynamic-api-broadcast`, `gateways/` | static `wsServer`, rooms | broadcastFromHttp, broadcastIfNeeded, join, leave | Socket.IO | nothing is sent before a gateway is initialized |
| Global state, module `dynamic-api.module.ts`, `services/dynamic-api-global-state` | static state, entity schemas, lazy connection | forRoot, forFeature, getEntityModel | Mongoose | a 5 s timer racing the initialization, promises nothing settles, a connection opened twice |
| Socket adapter `adapters/`, `helpers/socket-config.helper.ts` | IO server, onConnection hook | enable, createIOServer, handleConnection | Socket.IO | the user a socket starts with |
| Route configuration `dynamic-api.module.ts`, `builders/`, `routes/*/*.module.ts`, `*.helper.ts`, `helpers/mixin-data.helper.ts` | none | setDefaultRoutes, paths, providers, getMixinData | module bootstrap | listed, default and excluded routes of two levels; routes that hide each other |
| Schemas, DTO mixins, Swagger, presenters, logger, filters | none at run time | decorators, formatting | all | not modelled: metadata and wording |

What makes each part correct is stated by the properties of section 4; what is hard to test
is listed, line by line, in `PROJECT.json` under `hazards`.

## 2. Modules

| module | models | lines of argument |
|---|---|---|
| `ServiceErrors` | how BaseService classifies an error a service has caught | sections 3.1, 3.2 |
| `CrudService` | the twelve services | section 3.1 |
| `DocumentLifecycle` | the abstract promise about each document | implemented by `CrudService` |
| `CrudServiceProofs`, `CrudServiceSafety`, `CrudServiceRefinement` | - | types; the inductive invariants and five theorems; the refinement |
| `AuthService` | the authentication service behind its controller | section 3.2 |
| `AuthServiceProofs` | - | types, six safety theorems |
| `ResponseCache` | the interceptors of all features over one cache | section 3.3 |
| `ResponseCacheProofs` | - | types, two safety theorems |
| `RoutePipeline` | the twelve controllers and gateways: token guards, policies guards, handlers, broadcasts | section 3.4 |
| `RoutePipelineProofs` | - | types, five safety theorems and the invariant three of them rest on |
| `SocketSession` | the events of one socket: its guards, the auth gateway, `socket.user` | section 3.5 |
| `SocketSessionProofs` | - | types, five safety theorems |
| `RouteConfig` | the routes of a feature: which, in which order, where, made of what | section 3.6 |
| `Bootstrap` | forRoot, forFeature, the start of the application, getEntityModel; extends `RouteConfig` | section 3.6 |
| `BootstrapProofs` | - | types, six safety theorems, lemmas about `RouteConfig` |
| `MCCrudService`, `MCAuthService`, `MCResponseCache`, `MCRoutePipeline`, `MCSocketSession`, `MCBootstrap` | instances for TLC | section 4 |

A definition called `X_Something` is a *variant*: a form of `X` that a plausible mistake in
the code would give. No behaviour of a model uses it; it is there to show that a property
would notice (`PROJECT.json`, `mutants`).

## 3. How state and actions correspond to the code

### 3.1 CrudService

`status`/`content` are the collection: an id is free, live, softly deleted or gone. For every
request `pc` is the await it is at: `find` (ReadDoc, RejectIds), `before` (the
beforeSaveCallback), `build` (the `_id` of a new document is chosen before it is saved),
`write` (InsertDoc, UpdateOneDoc, ReplaceDoc, UpdateManyDoc, RemoveDoc), `refetch`, `after`
(callback and answer). `todo[r]` holds the documents that the call the request is waiting for
has yet to reach, so that calls over several documents go document by document. The filters
(`isDeleted: false` on this call and not on that) are those of each service:
`Matches`, `UpdateManyTargets`, `Removable`. `Throw` is the catch: a delete answers
`{ deletedCount: 0 }`, any other service the HTTP error that `handleMongoErrors` and
`handleDuplicateKeyError` (`ServiceErrors`) make of what it caught (`Caught`; getMany has no
catch). Whatever a user callback rejects with (`Rejections`) goes through the same catch: a
CastError, a duplicate key or an HttpException of a callback that runs after the write is the
client's 404, 409 or 4xx, with the write committed. A database call rejects with a connection
error, or before a write with a CastError or ValidationError of its fields (`DbErrors`); the
clashes of keys are decided by the writes. `Malformed` is an id or query that does not cast, or
the pipeline without a first stage (`RejectIds`). Under `Promise.all` the answer leaves at the first rejection and
the other writes land later (`Parallel`, `AfterClash`).

Of Mongoose and MongoDB it is assumed: `model.create(list)` saves in parallel; ObjectIds are
made by the client, in increasing order, before the save; calls over several documents visit
them in `_id` order; a unique index counts soft-deleted documents;
`findOneAndReplace` applies the schema's defaults (`isDeleted: false`); a call that rejects
has had no effect. Callbacks do not write this collection and a hook over a list returns a
list as long. DTO validation and repeated ids are left out.

### 3.2 AuthService

`account`, `password`, `token`, `profile` are the user documents, by the unique login field;
`account[l]` names the document, so that a login deleted and registered again is another
account. Every token is named by the request that issued it, which is its `jti`. `Plan(o)` is
the list of awaits of operation `o`, given the callbacks configured; each await is an action:
`Validate` (LocalStrategy, validateUser, ability predicate), `Load` (each `findOne` by `_id`
before a callback or an answer), `Hook`, `Create`, `Check` and `Issue` (refreshToken's
comparison, and the `updateOne` that ends login, register and refreshToken), `Revoke`
(logout), `Update`, `Lookup` and `SetPassword` (changePassword). bcrypt's comparison depends
on nothing but the values its find returned and is merged with it. `Caught` is the catch of register,
which covers its callbacks too; the other operations have none. changePassword only decodes its
token, so it may name any address, have no address or expiry, or be expired (`ArriveForReset`,
`Lookup`). A request arrives once
its guard has let it pass: its token is signed and has not expired; an access token passes the
refresh guard only without a `refreshSecret` (`SharedSecret`). `RemoveAccount` is a DeleteOne
route on the user entity.

Assumed: the e-mail field identifies the account as the login field does; callbacks write no
field the service uses; the expiry of a reset token is a refusal that may happen. Not modelled:
`customValidate` and `useStrategy` (user code in the place of the local strategy), cookies,
the 400s of `checkFieldsValidity`.

### 3.3 ResponseCache

`db` counts the commits of the application; a response is the number of commits its handler
had seen, so that "stale" is a comparison of numbers. Every feature registers its interceptor
as an APP_INTERCEPTOR (`dynamic-api.module.ts:218`), so a GET goes in through `Layers` of
them (`Lookup`), is handled (`Read`, `Reply`) and set by each on the way out (`fills`); an
answer found in an inner one is set again by the outer ones (`Outer`). The success of any
other method clears the cache in every layer (`Clears`): neither sets nor clears are awaited,
they land later (`FillLands`, `ClearLands`). A failure clears nothing, and a write through a
WebSocket gateway passes no interceptor. The history `settled` keeps the three ways in which a
client is told of a write apart (`Ways`): a success over HTTP, after which all that is committed
should be visible, a success over a socket, and an error. `NotCached` are the URLs that `isRequestCacheable`
refuses. Assumed: `isGlobalCacheEnabled`; a TTL may end at any time.

### 3.4 RoutePipeline

A request (`via[r] = Http`) or a socket event (`via[r]` is its socket) goes through the token
guard (merged with `Arrive`: the verification awaits, but nothing else reads what it finds), the
policies guard, the handler, its service and the broadcast. `Controllers` and `Gateways` give for
each of the twelve routes what the handler refuses (`flaw[r]`: no ids, or an empty body or
pipeline) and what it hands to the broadcast: the items of the answer or the ids of the request.
The two differ by transport, and not always on purpose: the controllers of CreateOne and
ReplaceOne check no body, the gateway of Aggregate no pipeline.

Nest keeps one instance of a policies guard per route and transport (`Gate(r)`), and
`guardUser[g]` is its field `this.user`: `HttpGuard` and `SocketGuard` set it, `GuardFind` is the
find they await, `Judge` calls the predicate with what the field holds *then*, `GuardRejects` is a
find that fails or a predicate that throws. The predicate modelled is "the document is the
user's own"; what a find over the query of an HTTP request may return is left open
(`GuardFinds`), since the conditions of the query come after the id and replace it.

The service is reduced to one write and one re-read (`Serve`, `Reread`, `Reject`); `CrudService`
has it in full. `view[s][d]` is what socket `s` was told of `d` last: `Enabled` is
`broadcast.enabled`, `Listeners` and `ResolveRooms` say who hears it, `wsServer` is the static
server that `afterInit` sets before the application listens. Rooms are the static one and one per
owner; a client joins or leaves them at any moment. `company`, `judge`, `near`, `effect`, `writer`,
`threw`, `past` (what a document has been), `rooms` (who was where when a request broadcast) and
`moved` are history.

Assumed: authentication is enabled; the token of a socket's handshake does not change and does
not expire (`SocketSession` has the expiry, and what the await of a token does to `socket.user`);
messages to one client arrive in the order they are sent. Left out: DTO validation, presenters,
several broadcast gateways.

### 3.5 SocketSession

Socket.IO gives every client one socket, Nest serves its events concurrently, and guards and
handlers pass the requester on in `socket.user` (`socketUser[s]`). A request `r` is one event:
`Guards(kind[r])` are its guards in the order of the decorators, `left[r]` those still ahead.
`VerifyToken` runs up to the await of `verifyAsync` (all four guards that verify a token),
`AssignUser` from there: it assigns `socket.user` and, in the policies guard of the auth gateway,
asks the predicate at once. `CheckGuard` is a guard without a token. `HandleForUser` is the test
of `socket.user` in getAccount, updateAccount, refreshToken and logout; `HandleLogin` and
`ValidateLogin` are login before and after `validateUser`; `HandleRegister` contains
`addUserToSocket`. `Finish` reads `socket.user` once more for the broadcast. `served[r]` and
`told[r]` are what the service and the broadcast were given, `company[r]` the events that ran on
the socket at the same time as `r`.

A handshake carries an access and a refresh token, each of some user, missing or not verifying,
and not necessarily of the same user. `expired` grows at any time. `ConnectionUser` is
`SocketAdapter.handleConnection`; `Hooked` leaves out sockets of other namespaces (the adapter
listens to `/` only) and applications whose secret was not set when the sockets were enabled.
The services are one step that succeeds or fails: what they do is `AuthService`'s and
`CrudService`'s. The documents a route predicate judges and the clients a broadcast reaches are
`RoutePipeline`'s.

### 3.6 RouteConfig and Bootstrap

`RouteConfig` has no variables. `setDefaultRoutes` is the function of that name. `Filter` is the
`SelectSeq` of the standard library (`MCBootstrap` compares them on all sequences of up to four of
three types) by a definition without recursion, the k-th element being the one at the index that
has k of the picked indices up to it, so that proofs can tell what it returns. An empty subPath is
none, as in the code. `Method` and `Path` are `getRouteDecorators`; `Mount` is the `forFeature` of a route's module (twelve files that
differ in the type only), `Provides` and `Injects` its helper. A path is the sequence of its
segments, so `Covers` is Express's match of one path against another.

In `Bootstrap` the static fields are `state`, `initialized`, `schemas` and `connection`. `phase[f]` is
the promise that `forFeature` has returned: `waiting` with its timer running, `timedOut`,
`resolved`, `rejected` (a bad version), or `stuck` when the build of a module threw inside the
subscriber, so that neither `resolve` nor `reject` was reached. `ForRoot` tells the subscribers
from inside the setter of the state (`Notify`), `ForFeature` calls `Notify` at once when the state
is there; of later calls of `forRoot` nobody is told. What a subscriber throws, rxjs
rethrows from a timer (`uncaught`), and Node ends the process (`Crash`). `Start` is Nest making the
instances: it refuses what it cannot inject (`Resolvable`). `GetEntityModel` and
`ConnectionOpened` are getEntityModel before and after its await. `company` is history here too.

Assumed: an error thrown by `forRoot` is caught by the application, which may go on; the timer may
fire whenever nothing else runs; `createConnection` may reject. Left out: the cache and broadcast
providers of a feature, the connection name, `MongooseModule`'s own connection.

## 4. Runs

| run | instance | shows |
|---|---|---|
| `crud_soft` | 2 requests to any of the 12 routes, 2 old and 4 new ids, 2 contents, soft deletion, unique index, all faults | `ImplementsLifecycle`, `DeletedOnce`, `CountReported`, `QuietAfterAnswer`, `TypeOK` |
| `crud_hard` | the same, deletion for good, other hooks | `HiddenWriteExplained`, `FailureExplained` |
| `auth_sessions` | 4 requests (login, refresh, logout, reset and change of password), 1 login, 2 passwords, one secret for both kinds of token | `SupersededRefused`, `LogoutRevokes`, `PasswordChecked`, `TypeOK` |
| `auth_accounts` | 2 requests to any of the 8 operations, all callbacks, predicates, rejections, deletion of the account, fair | `TokenOfAccount`, `RegisterExplained`, `ChangeExplained`, `EveryRequestServed` |
| `auth_rotation` | 2 requests, login and refresh, fair | `RotationRevokes` fails: see section 7 |
| `cache_races` | 3 requests, a cached and an uncached URL, 2 interceptors, 2 writes per request | `UncachedFresh`, `StaleReadExplained`, `TypeOK` |
| `cache_latest` | 3 requests, 1 interceptor, 1 URL | `AlwaysLatest` fails: see section 7 |
| `pipeline_routes` | 2 requests to any of the 12 routes over HTTP or from a socket, 1 old and 1 new id, 2 owners, a public route, predicates on UpdateOne and DeleteOne, a filtered broadcast, rejections | `JudgedInCompany`, `JudgedIsWritten`, `EmptyInputWritesNothing`, `ViewCurrent`, `TypeOK` |
| `pipeline_batches` | 2 requests to UpdateMany or DeleteMany over 2 documents, a client that joins or leaves a room of theirs | `HeardWasTrue`, `ViewCurrent` |
| `pipeline_user` | 2 requests to one guarded UpdateOne | `JudgedForItsUser` fails: see section 7 |
| `socket_events` | 3 events of 6 kinds on 1 socket, 2 users, 4 handshakes, predicates on login and updateAccount, broadcasts | `ServedExplained`, `ToldExplained`, `SessionIsOwn`, `UpdateJudged`, `NobodyExplained`, `TypeOK` |
| `bootstrap` | 2 features (208 and 5 sets of options), 3 calls of forRoot, 2 of getEntityModel, fair | `NobodyWaits`, `SelectionExplained`, `ShadowExplained`, `BuiltAlike`, `RefusalExplained`, `StrayExplained`, `EveryFeatureSettles`, `TypeOK` |

Why these bounds are enough to be interesting. Two requests reach every interleaving of a
find and a write; a third one is there where a property needs two that act and one that
undoes (a write, a GET that overtakes its clear and the
GET that is answered from it; two logins around an event of the same socket), a fourth in `auth_sessions` for a login, a refresh, a logout and
the refresh that arrives after it. Two documents make a call over several documents
partial, four fresh ids let both requests create or duplicate two. One login is enough because
no operation relates two accounts. In the pipeline one socket is enough: it is the sender or a
bystander, in the room or not, and two owners make a document somebody else's. One
socket is enough in `socket_events`, since sockets share nothing; `refreshToken` takes the actions of `logout`, and
`resetPassword`, `changePassword` and `publicRoute` those of a route, without its user; the proofs cover
them. In
`bootstrap` the first feature lists one route of any type, or two of those whose paths can hide each
other, under four configurations; the second brings versions, gateways and a missing query; the
three `forRoot` calls are a complete one, one that reconfigures the routes and one that throws. `Requests`, `Vals` and `Passwords` are symmetric and
permuted in the runs that check no liveness.

Fairness. In `AuthService` `FairSpec` is weak fairness of `Progress(r)` for each request: Node's event
loop runs every continuation that is ready, and bcrypt, the database and the callbacks are supposed
to settle. The services of the routes are chains of the same kind and no liveness is stated of them:
Nest answers whatever escapes a handler. `DbFail` is not part of `Progress`: no property counts on a rejection. Clients
owe nothing: `Arrive` has no fairness. In `Bootstrap` timers fire, an uncaught error ends the process
and Nest goes on when it can; that `forRoot` is ever called, or a connection ever opened, is not
assumed.

## 5. Proofs

Each theorem holds for every value of the constants that satisfies the named assumptions
(`IdsAssumption`, `NoneAssumption`, ...), which only separate model values from one another and
type the flags.

* `CrudServiceProofs!TypeCorrect`: one lemma per action.
* `CrudServiceSafety`: `IInv` is `TypeOK`, `RequestInv(r)` for each request, and `MadeFresh`,
  `Claimed` and `DeletedOnce`, which relate requests to each other and to the collection. The
  four properties are not inductive: `DeletedOnce` needs that a document a delete has counted is
  not live any more unless it was revived (`Claimed`), and that new ids belong to one request
  and are free until it saves them (`MadeFresh`); `CountReported`
  that the documents counted are not visited again (`Counted`); `HiddenWriteExplained` that a
  route over one id has one target, found live, and has written nothing until that write succeeds
  (`OneFind`, `OneTarget`, `OneWrite`), so that a refusal after it is a rejection's (`RefusalOK`); `QuietAfterAnswer` that nothing is left to do after an
  answer (`NothingLeft`). `Others` lemmas show that a request's step leaves the others' part alone,
  `Keeps` lemmas that it keeps its own, `Store` lemmas the rest.
  `FailureExplained` has an invariant of its own, `FailureInv`: a request that failed without a
  rejection, or will, has missed a document that it found or made (`FailOK`), and a document that is
  gone was removed by a delete that is among the requests (`GoneOK`).
* `CrudServiceRefinement!LifecycleImplemented`: under `readers <- OpenReaders` each step of the
  services is a step of `DocumentLifecycle` or a stutter, from `IInv`.
* `AuthServiceProofs`: `IInv` is the types and one invariant per theorem. The theorems about tokens
  rest on the life of a token (`TokensInv`): it is stored by the last await of the request that
  issued it (`IssueLast`), so a token that a client holds, that a refresh presents or that was
  replaced or revoked is *held*: it was there at the start or its request has been answered
  (`LifeInv`, `TokenInv`). Only requests in flight store tokens, and only their own, so what was
  replaced never comes back (`StaleInv`, `RevokedInv`), and a refresh that found its token current
  when it arrived is the only one that can be accepted (`RefreshInv`). `MatchInv` and `LoginInv`: a
  login that was let in compared a password that was the account's at a moment since it arrived.
  `RegisterInv` and `ChangeInv` say at which await the account is written and what an error after it
  leaves behind.
* `ResponseCacheProofs`: the invariant is `TypeOK` and `Rest`: what a client was told is
  committed (`Behind`); while no clear is in flight, every entry of the cache and every response
  that may still be set is as new as the last success answered over HTTP, unless a clear overtook it (`Settled`),
  and remains so for the writes answered before a request that came at such a time (`Fresh`);
  `Response` and `Uncached` are the two theorems as they hold while the request runs.

* `RoutePipelineProofs`: `IInv` is `TypeOK` and `RequestInv(r)` for each request. `JudgedInCompany`
  speaks of the moment a request is admitted; that it holds then needs that, while a guard judges a
  request, its field names the user of that request or of one that entered since
  (`FieldInCompany`), which in turn needs that a request in the company has arrived, so that its
  user and route stay what they are (`Arrived`). `JudgedIsWritten` needs that the one target of the
  event is among what its guard's find returned once that find is over (`OneWrite`).
  The other three need to know who wrote last and who was told, `StoryInv`: only the step of a
  service changes a document and its writer (`TargetOK`, `EmptyOK`); the request that wrote last
  hands the state it left to its broadcast (`FreshOK`); requests in flight together stay in each
  other's `near` (`NearOK`), so that a broadcast that comes after that of the last writer is in its
  `near` or announces a deletion of what is already gone, and what is gone stays so (`SeenOK`);
  what a service answers is of the past of the document, which grows with it, and a delete whose
  call did not reject leaves nothing of its ids, so that what a client was told was true (`PastOK`,
  `HeardOK`). Who a broadcast has reached is decided by the rooms of that moment, which later moves do
  not change (`ReachedBefore`, `OwnBroadcast`). Each kind of
  step (`Quiet`, `Write`, `Found`, `Denial`, `Respond`, `Elsewhere`) has its lemmas, and `Kinds` says
  that every action is one of them.

* `SocketSessionProofs`: `Inv` is `TypeOK`, `Together` (of two events served at once on a socket each is
  in the other's company) and `Local(r)` for each event. The properties speak of what a service call or
  a broadcast was given; what makes them inductive is `HoldsFor`: from the guard on that makes an
  event rely on `socket.user` (`Relies`), its value is the event's own user or one that an event of
  its company may have put there (`Displaced`), and before that it may also be what the event found
  there when it was sent (`before`). `Ordered`, `OwnFor`, `JudgedFor` and `OpenFor` say where an event is in
  its guards and what they have established.
* `BootstrapProofs`: `PromiseInv` ties the phase of a feature to its subscription and to
  `initialized`; `BuiltInv` adds that, as long as one forRoot was called, every feature built is
  `Mounted` from its options and the state of now; `ModelInv` that two calls which are opening, or
  have opened, a connection and did not follow one another are in each other's company (`Overlap`).
  These three do not depend on what `setDefaultRoutes` selects; the others do. The lemmas about
  `Filter` say that it returns the elements at the chosen indices and no others (`Picked`): the place
  of an index is the number of chosen ones up to it, which is injective because it increases, and
  onto because it maps the chosen indices into as many numbers; a least index (`LeastIndex`, for
  `routes.find`) is the one whose place is 1. `SelectedRoutes` is what `setDefaultRoutes` returns, from
  which `TypeCorrect` and, with `BuiltInv`, `SelectionExplained` follow. For `ShadowExplained`
  `OrderInv` says that the routes with a subPath come first in every module that was built, and
  `HiddenBare` that a route without one has one of five paths, which only the same path or a
  parameter in a subPath covers. For `RefusalExplained` `RefusedInv` keeps what made Nest refuse: a
  later forRoot changes the state, but then there are two.

All safety properties of the passing runs, `QuietAfterAnswer` and the refinement are proved. Only
model-checked: liveness (`EveryRequestServed`, `EveryFeatureSettles`), which needs
fairness and `ENABLED`. The four properties that fail have counterexamples. What the runs check on
small instances of the proved properties is still worth its time: they are what the mutants of the
code are tried on, and what shows that the interesting cases happen.

Assumptions on the constants that do more than tell values apart: `OptionsAssumption` gives the
options of forRoot and forFeature their types; `UsersAssumption` (`RoutePipeline`) also keeps the
static room apart from the markers that stand for a document that is not there.

## 6. Not modelled, and the plan

In this order:

1. `RoutePipeline` with the services of `CrudService` in the place of `Serve` and `Reread`.
2. An abstract specification of a session (who may refresh) that `AuthService` implements.
3. The cookies of the auth controller.

Not modelled: which of route, controller and global options `isPublic`, `disableCache`, the predicate
and the event name come from (`helpers/mixin-data.helper.ts`, one conditional each; a model would
repeat it); that event names carry no version, so that two versions of a route, or two features with
one apiTag, answer the same event (`mixin-data.helper.ts:66`); the callback methods of BaseService,
which act where user callbacks want; the `onConnection` hook, which is user code; `customValidate`
and `useStrategy`.

Left out for good: schemas, DTO mixins, Swagger, presenters, logger and filters (metadata and
formatting), the libraries (Mongoose, NestJS, Passport, Socket.IO), which appear as the code uses
them.

## 7. Where documentation and code disagree

* `auth_rotation`: README/authentication.md:1507 says that each refresh revokes the previous token; two
  refreshes that present one token at once both succeed, since refreshToken compares and stores in two
  calls. `SupersededRefused` is what does hold: a token replaced *before* a refresh arrives is
  refused.
* `cache_latest`: README/caching.md:286 says that the purge of every write *ensures that cached GET
  responses always reflect the latest data*; a GET that read before the write and is set after the
  clear stays. `StaleReadExplained` is what does hold.
* `pipeline_user`: README/authorization.md:116 says that the `user` of an ability predicate *is the
  authenticated user*; the guard calls it with the field `this.user` it reads after its find, which a
  second request may have set in the meantime. `JudgedInCompany` is what does hold.

Met while modelling, without a run of their own:

* README/caching.md:286 also says that *every write operation* purges the entire cache after success;
  the purge is an HTTP interceptor's (`dynamic-api-cache.interceptor.ts:36`), and a write served by a
  gateway purges nothing, so that later GETs are answered with what it replaced, with no clear in
  flight and no fill overtaken. `StaleReadExplained` names it as the third way to a stale answer, and
  what ends it.
* README/route-config.md:629 promises a callback *after a successful operation*; `deleteOne` runs it
  whenever its first find returned the document, also when a concurrent deletion won
  (`base-delete-one.service.ts:64`).
* README/websockets.md:208 says that DeleteOne broadcasts *the deleted entity's id*; the handlers of
  the deletions broadcast the ids of the request also when the service answers
  `{ deletedCount: 0 }` to an error. `HeardWasTrue` and `ViewCurrent` excuse exactly that.
* A broadcast with dynamic rooms goes to the rooms of the document as it is *after* the write
  (`helpers/resolve-rooms.helper.ts:23`, called with the answer): the clients in the room of its former
  owner are not told that it left, nor of its deletion, whose broadcast carries an id and no owner.
  `ViewCurrent` speaks of the room the document is in, `HeardWasTrue` of what the others are left with.
* README/controller-config.md:437 says that *routes explicitly listed* are always included; a listed
  route without a subPath is dropped when its type is a default and excluded, and so is the second one
  of a type. `SelectionExplained` says exactly when.
* README/websockets.md:68-80 enables gateways with `webSocket: true` in forRoot, without useAuth; the
  gateways inject JwtService, which only AuthModule's global JwtModule provides
  (`modules/auth/auth.module.ts:135`), so Nest refuses to start unless the application provides it.
  `RefusalExplained` states it.
* A `:id` in the subPath of a CreateOne (its path is the subPath alone, `builders/route-decorators/route-decorators.builder.ts:76`) hides the
  `many` and `duplicate` paths of the same feature, since routes with a subPath come first
  (`dynamic-api.module.ts:326`). `ShadowExplained` names it as the one way a route without a subPath is
  hidden.
* README/websockets.md:1674 lets a route opt out with `webSocket: false`; under a global gateway the
  route has one all the same (`routes/delete-one/delete-one.module.ts:42`). `Mount` is the code.
* README/route-config.md:52-65 gives UpdateMany, DeleteMany, DuplicateMany and Aggregate other paths
  than `builders/route-decorators/route-decorators.builder.ts:66-103`.
* AuthModule hands `broadcastGatewayOptions ?? {}` to its broadcast gateway (`auth.module.ts:94`),
  forFeature falls back to `gatewayOptions` first (`dynamic-api.module.ts:234`).
