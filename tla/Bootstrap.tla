----------------------------- MODULE Bootstrap -----------------------------
(***************************************************************************)
(* The start of an application.  forFeature returns a promise that builds  *)
(* the module of a feature once forRoot has set the global state, and      *)
(* rejects it if that takes five seconds; Nest starts the application when *)
(* every module is there; then callbacks ask getEntityModel for models,    *)
(* over a connection of its own that the first of them opens.              *)
(*                                                                         *)
(* State and initialized$ are static: they outlive a second forRoot.  What *)
(* a module is made of is RouteConfig's.  The five seconds may pass        *)
(* whenever nothing else runs.                                             *)
(***************************************************************************)
EXTENDS RouteConfig, FiniteSets

CONSTANTS
  Features,        \* the forFeature calls of the application
  FeatureOptions,  \* what each may be called with
  RootOptions,     \* what forRoot may be called with, once each
  Callers,         \* the calls of getEntityModel
  Entities, Uris

\* The configuration of routes in forFeature and in forRoot, and the options of both.
PartialConfig == [defaults : Seq(Types) \cup {None}, excluded : Seq(Types) \cup {None}]

FeatureOption ==
  [entity : Entities, routesConfig : PartialConfig, version : Versions \cup {None},
   webSocket : {"unset", "on", "off"}, routes : Seq(Route)]

RootOption ==
  [uri : Uris \cup {None}, auth : BOOLEAN, webSocket : BOOLEAN, routesConfig : PartialConfig \cup {None}]

ASSUME DistinctAssumption == None \notin Uris \cup Callers \cup Features

\* The entity of AuthModule is one of the entities.
ASSUME OptionsAssumption ==
  /\ \A f \in Features : FeatureOptions[f] \subseteq FeatureOption
  /\ RootOptions \subseteq RootOption
  /\ \A o \in RootOptions : o.auth => "User" \in Entities

VARIABLES
  state,        \* the global state: uri, auth, webSocket, routesConfig
  initialized,  \* initialized$
  rooted,       \* the options forRoot has been called with
  schemas,      \* entitySchemas$: the entities it has a schema of
  options,      \* what each feature was called with
  phase,        \* the promise of each feature, and its timer
  modules,      \* what it was resolved with
  subscribed,   \* the subscribers of initialized$
  uncaught,     \* an error that rxjs is about to throw where nobody catches it
  process,      \* the process: loading, started, refused by Nest, down
  call,         \* each call of getEntityModel
  database,     \* the uri it opened a connection to
  connection,   \* the call that opened the connection all calls use from now on
  model         \* the connection of the model it answered

\* Kept for the properties only: the other calls that were opening a connection while a call was.
VARIABLE company

configVars == <<state, initialized, rooted>>
bootVars   == <<schemas, options, phase, modules, subscribed, uncaught>>
modelVars  == <<call, database, connection, model, company>>
vars       == <<configVars, bootVars, process, modelVars>>

-----------------------------------------------------------------------------
\* defaultGlobalState.
DefaultState ==
  [uri |-> None, auth |-> FALSE, webSocket |-> FALSE,
   routesConfig |-> [defaults |-> DefaultTypes, excluded |-> <<>>]]

Init ==
  /\ state = DefaultState
  /\ initialized = FALSE
  /\ rooted = {}
  /\ schemas = {}
  /\ options = [f \in Features |-> None]
  /\ phase = [f \in Features |-> "idle"]
  /\ modules = [f \in Features |-> <<>>]
  /\ subscribed = {}
  /\ uncaught = FALSE
  /\ process = "loading"
  /\ call = [c \in Callers |-> "none"]
  /\ database = [c \in Callers |-> None]
  /\ connection = None
  /\ model = [c \in Callers |-> None]
  /\ company = [c \in Callers |-> {}]

Alive == process # "down"

-----------------------------------------------------------------------------
(* The subscriber of a feature. *)

Mounted(o, s) ==
  LET routes == setDefaultRoutes(s.routesConfig, o.routesConfig, o.routes)
  IN [i \in DOMAIN routes |-> Mount(routes[i], o, s)]

\* Building the modules of the routes stops at the first that throws; a bad version rejects the
\* promise and the rest is still built.
Thrown(ms) == \E i \in DOMAIN ms : Throws(ms[i])
Rejected(ms) ==
  \E i \in DOMAIN ms : BadVersion(ms[i]) /\ \A j \in 1 .. i - 1 : ~Throws(ms[j])

Outcome(ms) == IF Rejected(ms) THEN "rejected" ELSE IF Thrown(ms) THEN "stuck" ELSE "resolved"

\* The subscribers of F are told.  Their timers are cleared and each promise is settled, unless
\* it is already or the build throws; what a subscriber throws, rxjs throws again later.
Notify(F, o, s) ==
  LET ms == [f \in F |-> Mounted(o[f], s)]
      open == {f \in F : phase[f] \in {"idle", "waiting"}}
  IN /\ phase' = [f \in Features |-> IF f \in open THEN Outcome(ms[f]) ELSE phase[f]]
     /\ modules' = [f \in Features |-> IF f \in open /\ Outcome(ms[f]) = "resolved"
                                       THEN ms[f] ELSE modules[f]]
     /\ uncaught' = (uncaught \/ \E f \in F : Thrown(ms[f]))

\* forFeature: the schema is registered at once, unless the entity has one; initialized$ calls
\* a new subscriber with its current value.
ForFeature(f, o) ==
  /\ Alive /\ phase[f] = "idle"
  /\ schemas' = schemas \cup {o.entity}
  /\ options' = [options EXCEPT ![f] = o]
  /\ subscribed' = subscribed \cup {f}
  /\ IF initialized
     THEN Notify({f}, options', state)
     ELSE /\ phase' = [phase EXCEPT ![f] = "waiting"]
          /\ UNCHANGED <<modules, uncaught>>
  /\ UNCHANGED <<configVars, process, modelVars>>

\* Variant: the subscriber clears the timer before it looks at the value it is called with.
TimerFires_Cleared(f) ==
  /\ Alive /\ phase[f] = "waiting" /\ initialized
  /\ phase' = [phase EXCEPT ![f] = "timedOut"]
  /\ UNCHANGED <<configVars, schemas, options, modules, subscribed, uncaught, process, modelVars>>

\* The timer of a feature that still waits.
TimerFires(f) ==
  /\ Alive /\ phase[f] = "waiting"
  /\ phase' = [phase EXCEPT ![f] = "timedOut"]
  /\ UNCHANGED <<configVars, schemas, options, modules, subscribed, uncaught, process, modelVars>>

-----------------------------------------------------------------------------
(* forRoot. *)

\* Without a uri it throws; so does buildStateFromOptions for a routesConfig that excludes
\* nothing and has no defaults.
RootThrows(o) ==
  \/ o.uri = None
  \/ /\ o.routesConfig # None
     /\ OrElse(o.routesConfig.excluded, <<>>) = <<>>
     /\ o.routesConfig.defaults = None

\* buildStateFromOptions, merged: what these options leave out stays as an earlier call set it.
Merged(o) ==
  LET config   == OrElse(o.routesConfig, [defaults |-> <<>>, excluded |-> <<>>])
      defaults == OrElse(config.defaults, <<>>)
      excluded == OrElse(config.excluded, <<>>)
  IN [uri          |-> o.uri,
      auth         |-> state.auth \/ o.auth,
      webSocket    |-> o.webSocket,
      routesConfig |->
        IF defaults = <<>> /\ excluded = <<>>
        THEN state.routesConfig
        ELSE [defaults |-> IF defaults = <<>> THEN state.routesConfig.defaults ELSE defaults,
              excluded |-> excluded]]

\* Variant: the subscribers are told before the state is merged.
ForRoot_Early(o) ==
  /\ Alive /\ o \notin rooted
  /\ rooted' = rooted \cup {o}
  /\ IF RootThrows(o)
     THEN UNCHANGED <<state, initialized, bootVars>>
     ELSE /\ state' = Merged(o)
          /\ initialized' = TRUE
          /\ schemas' = schemas \cup (IF o.auth THEN {"User"} ELSE {})
          /\ UNCHANGED <<options, subscribed>>
          /\ IF initialized
             THEN UNCHANGED <<phase, modules, uncaught>>
             ELSE Notify(subscribed, options, state)
  /\ UNCHANGED <<process, modelVars>>

\* Variant: nobody is told.
ForRoot_Silent(o) ==
  /\ Alive /\ o \notin rooted
  /\ rooted' = rooted \cup {o}
  /\ IF RootThrows(o)
     THEN UNCHANGED <<state, initialized, schemas>>
     ELSE /\ state' = Merged(o)
          /\ initialized' = TRUE
          /\ schemas' = schemas \cup (IF o.auth THEN {"User"} ELSE {})
  /\ UNCHANGED <<options, phase, modules, subscribed, uncaught, process, modelVars>>

\* The first forRoot that gets as far tells every subscriber, from inside the setter of the
\* state; a later one changes the state for those to come.  AuthModule registers its entity.
ForRoot(o) ==
  /\ Alive /\ o \notin rooted
  /\ rooted' = rooted \cup {o}
  /\ IF RootThrows(o)
     THEN UNCHANGED <<state, initialized, bootVars>>
     ELSE /\ state' = Merged(o)
          /\ initialized' = TRUE
          /\ schemas' = schemas \cup (IF o.auth THEN {"User"} ELSE {})
          /\ UNCHANGED <<options, subscribed>>
          /\ IF initialized
             THEN UNCHANGED <<phase, modules, uncaught>>
             ELSE Notify(subscribed, options, state')
  /\ UNCHANGED <<process, modelVars>>

-----------------------------------------------------------------------------
(* Node and Nest. *)

\* An error nobody catches ends the process.
Crash ==
  /\ Alive /\ uncaught
  /\ process' = "down"
  /\ UNCHANGED <<configVars, bootVars, modelVars>>

\* What controllers and gateways can inject: the services of their module, and what AuthModule
\* makes global.
Resolvable(m) == Injects(m) \subseteq Provides(m) \cup (IF state.auth THEN {<<"JwtService">>} ELSE {})

\* Nest has every module it was given, and makes their instances.
Start ==
  /\ process = "loading" /\ initialized /\ ~uncaught
  /\ \A f \in Features : phase[f] = "resolved"
  /\ process' = IF \A f \in Features : \A i \in DOMAIN modules[f] : Resolvable(modules[f][i])
                THEN "started" ELSE "refused"
  /\ UNCHANGED <<configVars, bootVars, modelVars>>

-----------------------------------------------------------------------------
(* getEntityModel. *)

Opening == {d \in Callers : call[d] = "opening"}

\* Variant: every call opens a connection.
GetEntityModel_AlwaysOpens(c, e) ==
  /\ process = "started" /\ call[c] = "none" /\ e \in schemas
  /\ call' = [call EXCEPT ![c] = "opening"]
  /\ database' = [database EXCEPT ![c] = state.uri]
  /\ company' = [d \in Callers |-> IF d = c THEN Opening
                                   ELSE IF d \in Opening THEN company[d] \cup {c}
                                   ELSE company[d]]
  /\ UNCHANGED <<configVars, bootVars, process, connection, model>>

\* Up to the await of createConnection, if there is no connection.
GetEntityModel(c, e) ==
  /\ process = "started" /\ call[c] = "none"
  /\ IF e \notin schemas
     THEN /\ call' = [call EXCEPT ![c] = "failed"]
          /\ UNCHANGED <<database, model, company>>
     ELSE IF connection # None
     THEN /\ call' = [call EXCEPT ![c] = "answered"]
          /\ model' = [model EXCEPT ![c] = connection]
          /\ UNCHANGED <<database, company>>
     ELSE /\ call' = [call EXCEPT ![c] = "opening"]
          /\ database' = [database EXCEPT ![c] = state.uri]
          /\ company' = [d \in Callers |-> IF d = c THEN Opening
                                           ELSE IF d \in Opening THEN company[d] \cup {c}
                                           ELSE company[d]]
          /\ UNCHANGED model
  /\ UNCHANGED <<configVars, bootVars, process, connection>>

\* Variant: the address is kept, not the connection.
ConnectionOpened_Address(c) ==
  /\ Alive /\ call[c] = "opening"
  /\ connection' = database[c]
  /\ call' = [call EXCEPT ![c] = "answered"]
  /\ model' = [model EXCEPT ![c] = c]
  /\ UNCHANGED <<configVars, bootVars, process, database, company>>

\* The connection is open, and replaces the one there may be by now.
ConnectionOpened(c) ==
  /\ Alive /\ call[c] = "opening"
  /\ connection' = c
  /\ call' = [call EXCEPT ![c] = "answered"]
  /\ model' = [model EXCEPT ![c] = c]
  /\ UNCHANGED <<configVars, bootVars, process, database, company>>

ConnectionFailed(c) ==
  /\ Alive /\ call[c] = "opening"
  /\ call' = [call EXCEPT ![c] = "failed"]
  /\ UNCHANGED <<configVars, bootVars, process, database, connection, model, company>>

-----------------------------------------------------------------------------
\* Nothing is left to happen, or the application has stopped.
Stopped ==
  /\ \/ ~Alive
     \/ /\ rooted = RootOptions
        /\ \A f \in Features : phase[f] \notin {"idle", "waiting"}
        /\ \A c \in Callers : call[c] \in {"answered", "failed"} \/ process # "started"
  /\ UNCHANGED vars

Next ==
  \/ \E f \in Features : \E o \in FeatureOptions[f] : ForFeature(f, o)
  \/ \E f \in Features : TimerFires(f)
  \/ \E o \in RootOptions : ForRoot(o)
  \/ Crash \/ Start
  \/ \E c \in Callers, e \in Entities : GetEntityModel(c, e)
  \/ \E c \in Callers : ConnectionOpened(c) \/ ConnectionFailed(c)
  \/ Stopped

Spec == Init /\ [][Next]_vars

\* Timers fire, uncaught errors end the process, Nest goes on when it can.
FairSpec ==
  /\ Spec
  /\ \A f \in Features : WF_vars(TimerFires(f))
  /\ WF_vars(Crash)
  /\ WF_vars(Start)

-----------------------------------------------------------------------------
(* Properties. *)

RoutesConfig == [defaults : Seq(Types), excluded : Seq(Types)]
Module == [route : Route, version : Versions \cup {None}, gateway : BOOLEAN]

\* Every variable has its type.
TypeOK ==
  /\ state \in [uri : Uris \cup {None}, auth : BOOLEAN, webSocket : BOOLEAN, routesConfig : RoutesConfig]
  /\ initialized \in BOOLEAN
  /\ rooted \subseteq RootOptions
  /\ schemas \subseteq Entities
  /\ \A f \in Features : options[f] \in FeatureOptions[f] \cup {None}
  /\ phase \in [Features -> {"idle", "waiting", "timedOut", "rejected", "stuck", "resolved"}]
  /\ modules \in [Features -> Seq(Module)]
  /\ subscribed \subseteq Features
  /\ uncaught \in BOOLEAN
  /\ process \in {"loading", "started", "refused", "down"}
  /\ call \in [Callers -> {"none", "opening", "answered", "failed"}]
  /\ database \in [Callers -> Uris \cup {None}]
  /\ connection \in Callers \cup {None}
  /\ model \in [Callers -> Callers \cup {None}]
  /\ company \in [Callers -> SUBSET Callers]

\* forFeature and forRoot may come in either order (dynamic-api.module.ts:121-133): once the
\* state is there no feature waits, a feature is built or refused only from then on, and one
\* whose promise will never settle takes the process with it.
NobodyWaits ==
  \A f \in Features :
    /\ (initialized => phase[f] # "waiting")
    /\ (phase[f] \in {"rejected", "stuck", "resolved"} => initialized)
    /\ (phase[f] = "stuck" => uncaught)

RoutesOf(f) == {modules[f][i].route : i \in DOMAIN modules[f]}

\* Listed routes and defaults are merged by type and subPath (dynamic-api.module.ts:315-334).
\* With one forRoot: a listed route is left out only if it has no subPath and is one of the
\* defaults, excluded or listed before; a default that is excluded is not mounted, listed or
\* not; every other default is.
SelectionExplained ==
  \A f \in Features : phase[f] = "resolved" /\ Cardinality(rooted) = 1 =>
    LET o        == options[f]
        defaults == ToSet(OrElse(o.routesConfig.defaults, state.routesConfig.defaults))
        excluded == ToSet(OrElse(o.routesConfig.excluded, state.routesConfig.excluded))
    IN /\ \A i \in DOMAIN o.routes : o.routes[i] \notin RoutesOf(f) =>
            /\ o.routes[i].subPath = None
            /\ o.routes[i].type \in defaults
            /\ \/ o.routes[i].type \in excluded
               \/ \E j \in 1 .. i - 1 : o.routes[j].type = o.routes[i].type /\ o.routes[j].subPath = None
       /\ \A t \in defaults :
            (\E r \in RoutesOf(f) : r.type = t /\ r.subPath = None) <=> t \notin excluded

\* Requests go to the first route whose path covers theirs (the order of
\* dynamic-api.module.ts:326): a route is hidden by another of the feature only if both have
\* the same path, or the other has a subPath and either this one has one too or the other's
\* brings a parameter of its own; no ":id" of a route without a subPath hides a subPath.
ShadowExplained ==
  \A f \in Features : \A j \in DOMAIN modules[f] : \A i \in 1 .. j - 1 :
    LET m == modules[f][i]
        n == modules[f][j]
    IN /\ Method(m.route.type) = Method(n.route.type)
       /\ m.version = n.version
       /\ Covers(Path(m.route), Path(n.route))
       => \/ Path(m.route) = Path(n.route)
          \/ /\ m.route.subPath # None
             /\ n.route.subPath # None \/ ":id" \in ToSet(m.route.subPath)

\* Features built by forRoot and features built as they are called read the same state
\* (service.ts:77-103, dynamic-api.module.ts:160-243): called alike they are built alike,
\* unless forRoot was called again in between.
BuiltAlike ==
  \A f, g \in Features :
    /\ phase[f] = "resolved" /\ phase[g] = "resolved"
    /\ options[f] = options[g]
    /\ Cardinality(rooted) = 1
    => modules[f] = modules[g]

\* An application whose modules are all built is refused by Nest only for a gateway without
\* JwtService (auth.module.ts:135): some route has one, and the forRoot there was did not ask
\* for authentication.
RefusalExplained ==
  process = "refused" =>
    /\ \E f \in Features : \E i \in DOMAIN modules[f] : modules[f][i].gateway
    /\ (Cardinality(rooted) = 1 => ~state.auth)

\* getEntityModel checks and replaces the connection on either side of an await
\* (dynamic-api-global-state.service.ts:69-72): a connection that models were made from and
\* that is no longer the one in use was opened at the same time as another.
StrayExplained ==
  \A c \in Callers : model[c] # None /\ model[c] # connection => company[model[c]] # {}

\* The promise of every feature settles, or the process ends.
EveryFeatureSettles ==
  \A f \in Features :
    phase[f] # "idle" ~> phase[f] \in {"timedOut", "rejected", "resolved"} \/ process = "down"

=============================================================================
