---------------------------- MODULE BootstrapProofs ----------------------------
(***************************************************************************)
(* Proofs about Bootstrap, for every application: any features, options,   *)
(* calls of forRoot and of getEntityModel.  First how promises settle, how *)
(* features are built and how connections are opened; then what            *)
(* setDefaultRoutes selects, the types, which routes a feature gets, when  *)
(* Nest refuses an application and which routes hide each other.           *)
(***************************************************************************)
EXTENDS Bootstrap, FiniteSetTheorems, SequenceTheorems, TLAPS

USE DistinctAssumption

-----------------------------------------------------------------------------
(* The promises of the features.                                            *)

Outcomes == {"rejected", "stuck", "resolved"}

PhaseTypeOK ==
  /\ phase \in [Features -> {"idle", "waiting", "timedOut"} \cup Outcomes]
  /\ DOMAIN modules = Features
  /\ DOMAIN options = Features

\* A feature has subscribed once it was called; the others are idle.
PromiseFor(f) ==
  /\ f \notin subscribed => phase[f] = "idle"
  /\ f \in subscribed => phase[f] # "idle"
  /\ initialized => phase[f] # "waiting"
  /\ phase[f] \in Outcomes => initialized
  /\ phase[f] = "stuck" => uncaught

PromiseInv ==
  /\ PhaseTypeOK
  /\ subscribed \subseteq Features
  /\ \A f \in Features : PromiseFor(f)

\* Building a module has one of three outcomes, and one that never settles throws.
LEMMA OutcomeOf == ASSUME NEW ms PROVE Outcome(ms) \in Outcomes /\ (Outcome(ms) = "stuck" => Thrown(ms))
BY DEF Outcome, Outcomes

\* What a notification does to the promises.
LEMMA Notified ==
  ASSUME PhaseTypeOK, NEW F \in SUBSET Features, NEW o, NEW s, Notify(F, o, s)
  PROVE  /\ PhaseTypeOK' \/ DOMAIN options' # Features
         /\ \A f \in Features \ F : phase'[f] = phase[f] /\ modules'[f] = modules[f]
         /\ \A f \in F : phase[f] \notin {"idle", "waiting"} =>
              phase'[f] = phase[f] /\ modules'[f] = modules[f]
         /\ \A f \in F : phase[f] \in {"idle", "waiting"} =>
              /\ phase'[f] \in Outcomes
              /\ phase'[f] = "stuck" => uncaught'
              /\ phase'[f] = "resolved" => modules'[f] = Mounted(o[f], s)
         /\ uncaught => uncaught'
<1> DEFINE ms == [f \in F |-> Mounted(o[f], s)]
           open == {f \in F : phase[f] \in {"idle", "waiting"}}
<1>1. /\ phase' = [f \in Features |-> IF f \in open THEN Outcome(ms[f]) ELSE phase[f]]
      /\ modules' = [f \in Features |-> IF f \in open /\ Outcome(ms[f]) = "resolved" THEN ms[f] ELSE modules[f]]
      /\ uncaught' = (uncaught \/ \E f \in F : Thrown(ms[f]))
  BY DEF Notify
<1>2. \A f \in F : ms[f] = Mounted(o[f], s)
  OBVIOUS
<1> HIDE DEF ms
<1>3. \A f \in F : Outcome(ms[f]) \in Outcomes /\ (Outcome(ms[f]) = "stuck" => Thrown(ms[f]))
  BY OutcomeOf
<1>4. \A f \in Features \ F : phase'[f] = phase[f] /\ modules'[f] = modules[f]
  BY <1>1
<1>5. \A f \in F : phase[f] \notin {"idle", "waiting"} => phase'[f] = phase[f] /\ modules'[f] = modules[f]
  BY <1>1
<1>6. ASSUME NEW f \in F, phase[f] \in {"idle", "waiting"}
      PROVE  /\ phase'[f] \in Outcomes
             /\ phase'[f] = "stuck" => uncaught'
             /\ phase'[f] = "resolved" => modules'[f] = Mounted(o[f], s)
  <2>1. phase'[f] = Outcome(ms[f])
    BY <1>1, <1>6
  <2>2. phase'[f] = "resolved" => modules'[f] = ms[f]
    BY <1>1, <1>6, <2>1
  <2>3. Thrown(ms[f]) => uncaught'
    BY <1>1
  <2> QED
    BY <1>2, <1>3, <2>1, <2>2, <2>3
<1>7. PhaseTypeOK' \/ DOMAIN options' # Features
  BY <1>1, <1>3 DEF PhaseTypeOK
<1>8. uncaught => uncaught'
  BY <1>1
<1> QED
  BY <1>4, <1>5, <1>6, <1>7, <1>8

\* The same, for a feature that is told as it subscribes.
LEMMA NotifiedOne ==
  ASSUME PhaseTypeOK, NEW f \in Features, phase[f] = "idle", NEW o, NEW s, Notify({f}, o, s)
  PROVE  /\ PhaseTypeOK' \/ DOMAIN options' # Features
         /\ \A g \in Features \ {f} : phase'[g] = phase[g] /\ modules'[g] = modules[g]
         /\ phase'[f] \in Outcomes
         /\ phase'[f] = "stuck" => uncaught'
         /\ phase'[f] = "resolved" => modules'[f] = Mounted(o[f], s)
         /\ uncaught => uncaught'
<1> DEFINE F == {f}
<1>1. F \in SUBSET Features /\ f \in F /\ phase[f] \in {"idle", "waiting"} /\ Notify(F, o, s)
  OBVIOUS
<1>2. Features \ {f} = Features \ F
  OBVIOUS
<1> HIDE DEF F
<1> QED
  BY <1>1, <1>2, Notified

LEMMA PromiseInit == Init => PromiseInv
BY DEF Init, PromiseInv, PhaseTypeOK, PromiseFor, Outcomes

LEMMA ForFeaturePromise ==
  ASSUME PromiseInv, NEW f \in Features, NEW o \in FeatureOptions[f], ForFeature(f, o)
  PROVE  PromiseInv'
<1>1. /\ phase[f] = "idle" /\ subscribed' = subscribed \cup {f} /\ UNCHANGED initialized
      /\ options' = [options EXCEPT ![f] = o] /\ DOMAIN options' = Features
  BY DEF ForFeature, configVars, PromiseInv, PhaseTypeOK
<1>2. f \notin subscribed
  BY <1>1 DEF PromiseInv, PromiseFor
<1>3. CASE initialized
  <2>1. Notify({f}, options', state)
    BY <1>3 DEF ForFeature
  <2>2. /\ PhaseTypeOK'
        /\ \A g \in Features \ {f} : phase'[g] = phase[g]
        /\ phase'[f] \in Outcomes /\ (phase'[f] = "stuck" => uncaught')
        /\ uncaught => uncaught'
    BY <1>1, <2>1, NotifiedOne DEF PromiseInv
  <2> QED
    BY <1>1, <1>2, <1>3, <2>2 DEF PromiseInv, PromiseFor, Outcomes
<1>4. CASE ~initialized
  <2>1. phase' = [phase EXCEPT ![f] = "waiting"] /\ UNCHANGED <<modules, uncaught>>
    BY <1>4 DEF ForFeature
  <2> QED
    BY <1>1, <1>2, <1>4, <2>1 DEF PromiseInv, PhaseTypeOK, PromiseFor, Outcomes
<1> QED
  BY <1>3, <1>4

LEMMA TimerFiresPromise ==
  ASSUME PromiseInv, NEW f \in Features, TimerFires(f)
  PROVE  PromiseInv'
BY DEF PromiseInv, PhaseTypeOK, PromiseFor, TimerFires, Outcomes, configVars

\* What forRoot does to the promises.
LEMMA RootCases ==
  ASSUME PromiseInv, NEW o, ForRoot(o)
  PROVE  /\ UNCHANGED <<options, subscribed>>
         /\ \/ UNCHANGED <<state, initialized, phase, modules, uncaught>>
            \/ initialized /\ UNCHANGED <<initialized, phase, modules, uncaught>>
            \/ ~initialized /\ initialized' /\ Notify(subscribed, options, state')
<1>1. CASE RootThrows(o)
  BY <1>1 DEF ForRoot, bootVars
<1>2. CASE ~RootThrows(o) /\ initialized
  <2>1. initialized' = TRUE /\ UNCHANGED <<options, subscribed, phase, modules, uncaught>>
    BY <1>2 DEF ForRoot
  <2> QED
    BY <1>2, <2>1
<1>3. CASE ~RootThrows(o) /\ ~initialized
  BY <1>3 DEF ForRoot
<1> QED
  BY <1>1, <1>2, <1>3

LEMMA ForRootPromise == ASSUME PromiseInv, NEW o, ForRoot(o) PROVE PromiseInv'
<1>1. UNCHANGED <<options, subscribed>>
  BY RootCases
<1>2. CASE UNCHANGED <<initialized, phase, modules, uncaught>>
  BY <1>1, <1>2 DEF PromiseInv, PhaseTypeOK, PromiseFor
<1>3. CASE ~initialized /\ initialized' /\ Notify(subscribed, options, state')
  <2>1. /\ PhaseTypeOK'
        /\ \A g \in Features \ subscribed : phase'[g] = phase[g]
        /\ \A g \in subscribed : phase[g] \notin {"idle", "waiting"} => phase'[g] = phase[g]
        /\ \A g \in subscribed : phase[g] \in {"idle", "waiting"} =>
             phase'[g] \in Outcomes /\ (phase'[g] = "stuck" => uncaught')
        /\ uncaught => uncaught'
    BY <1>1, <1>3, Notified DEF PromiseInv, PhaseTypeOK
  <2>2. ASSUME NEW g \in Features PROVE PromiseFor(g)'
    <3>1. PromiseFor(g)
      BY DEF PromiseInv
    <3>2. CASE g \notin subscribed
      BY <1>1, <1>3, <2>1, <3>1, <3>2 DEF PromiseFor, Outcomes
    <3>3. CASE g \in subscribed /\ phase[g] \in {"idle", "waiting"}
      BY <1>1, <1>3, <2>1, <3>3 DEF PromiseFor, Outcomes
    <3>4. CASE g \in subscribed /\ phase[g] \notin {"idle", "waiting"}
      BY <1>1, <1>3, <2>1, <3>1, <3>4 DEF PromiseFor, Outcomes
    <3> QED
      BY <3>2, <3>3, <3>4
  <2> QED
    BY <1>1, <2>1, <2>2 DEF PromiseInv
<1> QED
  BY <1>2, <1>3, RootCases

\* The other steps leave the promises and the global state alone.
LEMMA OtherSteps ==
  ASSUME Next, \A f \in Features : \A o \in FeatureOptions[f] : ~ForFeature(f, o),
         \A f \in Features : ~TimerFires(f), \A o \in RootOptions : ~ForRoot(o)
  PROVE  UNCHANGED <<configVars, bootVars>>
BY DEF Next, Crash, Start, GetEntityModel, ConnectionOpened, ConnectionFailed, Stopped, vars

LEMMA PromiseNext == PromiseInv /\ [Next]_vars => PromiseInv'
<1> SUFFICES ASSUME PromiseInv, [Next]_vars PROVE PromiseInv'
  OBVIOUS
<1>1. CASE UNCHANGED <<configVars, bootVars>>
  BY <1>1 DEF PromiseInv, PhaseTypeOK, PromiseFor, configVars, bootVars
<1> QED
  BY <1>1, ForFeaturePromise, TimerFiresPromise, ForRootPromise, OtherSteps DEF vars

LEMMA PromiseInvariant == Spec => []PromiseInv
  BY PromiseInit, PromiseNext, PTL DEF Spec

\* Whatever the order of forRoot and forFeature, no feature waits once the state is there, and a
\* promise that will never settle is taken down with the process (dynamic-api.module.ts:121-133).
THEOREM NobodyWaitsHolds == Spec => []NobodyWaits
<1>1. PromiseInv => NobodyWaits
  BY DEF PromiseInv, PromiseFor, NobodyWaits, Outcomes
<1> QED
  BY PromiseInvariant, <1>1, PTL

-----------------------------------------------------------------------------
(* What the features are built from.                                        *)

AtMostOneRoot == \A x, y \in rooted : x = y

BuiltFor(f) == phase[f] = "resolved" /\ AtMostOneRoot => modules[f] = Mounted(options[f], state)

BuiltInv ==
  /\ PromiseInv
  /\ IsFiniteSet(rooted)
  /\ initialized => rooted # {}
  /\ \A f \in Features : BuiltFor(f)

LEMMA BuiltInit == Init => BuiltInv
BY PromiseInit, FS_EmptySet DEF Init, BuiltInv, BuiltFor

LEMMA BuiltForFeature ==
  ASSUME BuiltInv, NEW f \in Features, NEW o \in FeatureOptions[f], ForFeature(f, o)
  PROVE  BuiltInv'
<1>1. /\ phase[f] = "idle" /\ UNCHANGED <<state, initialized, rooted>>
      /\ options' = [options EXCEPT ![f] = o]
  BY DEF ForFeature, configVars
<1>2. PromiseInv /\ PromiseInv'
  BY ForFeaturePromise DEF BuiltInv
<1>3. ASSUME NEW g \in Features PROVE BuiltFor(g)'
  <2>1. /\ g # f => phase'[g] = phase[g] /\ modules'[g] = modules[g] /\ options'[g] = options[g]
        /\ phase'[f] = "resolved" => modules'[f] = Mounted(options'[f], state)
    <3>1. CASE initialized
      <4>1. Notify({f}, options', state)
        BY <3>1 DEF ForFeature
      <4>2. PhaseTypeOK
        BY <1>2 DEF PromiseInv
      <4>3. /\ \A h \in Features \ {f} : phase'[h] = phase[h] /\ modules'[h] = modules[h]
            /\ phase'[f] = "resolved" => modules'[f] = Mounted(options'[f], state)
        BY <1>1, <4>1, <4>2, NotifiedOne
      <4> QED
        BY <1>1, <4>3
    <3>2. CASE ~initialized
      BY <1>1, <1>2, <3>2 DEF ForFeature, PromiseInv, PhaseTypeOK
    <3> QED
      BY <3>1, <3>2
  <2>2. BuiltFor(g)
    BY DEF BuiltInv
  <2>3. AtMostOneRoot' <=> AtMostOneRoot
    BY <1>1 DEF AtMostOneRoot
  <2> QED
    BY <1>1, <2>1, <2>2, <2>3 DEF BuiltFor
<1> QED
  BY <1>1, <1>2, <1>3 DEF BuiltInv

LEMMA BuiltForRoot == ASSUME BuiltInv, NEW o, ForRoot(o) PROVE BuiltInv'
<1>1. o \notin rooted /\ rooted' = rooted \cup {o} /\ UNCHANGED <<options, subscribed>>
  BY RootCases DEF ForRoot, BuiltInv
<1>2. PromiseInv /\ PromiseInv'
  BY ForRootPromise DEF BuiltInv
<1>3. IsFiniteSet(rooted')
  BY <1>1, FS_AddElement DEF BuiltInv
<1>4. ASSUME NEW g \in Features, phase'[g] = "resolved", AtMostOneRoot'
      PROVE  modules'[g] = Mounted(options[g], state')
  <2>1. ~initialized
    BY <1>1, <1>4 DEF AtMostOneRoot, BuiltInv
  <2>2. phase[g] \notin Outcomes
    BY <1>2, <2>1 DEF PromiseInv, PromiseFor
  <2>3. phase'[g] # phase[g]
    BY <1>4, <2>2 DEF Outcomes
  <2>4. Notify(subscribed, options, state')
    BY <1>2, <2>1, <2>3, RootCases
  <2>5. PhaseTypeOK /\ subscribed \subseteq Features
    BY <1>2 DEF PromiseInv
  <2>6. g \in subscribed /\ phase[g] \in {"idle", "waiting"}
    BY <1>4, <2>3, <2>4, <2>5, Notified
  <2> QED
    BY <1>4, <2>4, <2>5, <2>6, Notified
<1>5. \A g \in Features : BuiltFor(g)'
  BY <1>1, <1>4 DEF BuiltFor
<1> QED
  BY <1>1, <1>2, <1>3, <1>5 DEF BuiltInv

LEMMA BuiltNext == BuiltInv /\ [Next]_vars => BuiltInv'
<1> SUFFICES ASSUME BuiltInv, [Next]_vars PROVE BuiltInv'
  OBVIOUS
<1>1. PromiseInv /\ PromiseInv'
  BY PromiseNext DEF BuiltInv
<1>2. ASSUME NEW f \in Features, TimerFires(f) PROVE BuiltInv'
  <2>1. UNCHANGED <<state, initialized, rooted, options, modules>>
    BY <1>2 DEF TimerFires, configVars
  <2>2. \A g \in Features : phase'[g] = "resolved" => phase[g] = "resolved"
    BY <1>1, <1>2 DEF TimerFires, PromiseInv, PhaseTypeOK
  <2> QED
    BY <1>1, <2>1, <2>2 DEF BuiltInv, BuiltFor, AtMostOneRoot
<1>3. CASE UNCHANGED <<configVars, bootVars>>
  BY <1>1, <1>3 DEF BuiltInv, BuiltFor, AtMostOneRoot, configVars, bootVars
<1> QED
  BY <1>2, <1>3, BuiltForFeature, BuiltForRoot, OtherSteps DEF vars

LEMMA BuiltInvariant == Spec => []BuiltInv
  BY BuiltInit, BuiltNext, PTL DEF Spec

\* With one forRoot, features that are called alike are built alike, whichever of the two came
\* first (dynamic-api-global-state.service.ts:77-103, dynamic-api.module.ts:160-243).
THEOREM BuiltAlikeHolds == Spec => []BuiltAlike
<1>1. ASSUME BuiltInv PROVE BuiltAlike
  <2> SUFFICES ASSUME NEW f \in Features, NEW g \in Features, phase[f] = "resolved", phase[g] = "resolved",
                      options[f] = options[g], Cardinality(rooted) = 1
               PROVE  modules[f] = modules[g]
    BY DEF BuiltAlike
  <2>1. AtMostOneRoot
    BY <1>1, FS_Singleton DEF BuiltInv, AtMostOneRoot
  <2> QED
    BY <1>1, <2>1 DEF BuiltInv, BuiltFor
<1> QED
  BY BuiltInvariant, <1>1, PTL

-----------------------------------------------------------------------------
(* The connection of getEntityModel.                                        *)

Calls == {"none", "opening", "answered", "failed"}

\* The call has opened a connection, and answered with a model of it.
Opened(c) == model[c] = c

ModelTypeOK ==
  /\ call \in [Callers -> Calls]
  /\ model \in [Callers -> Callers \cup {None}]
  /\ company \in [Callers -> SUBSET Callers]
  /\ connection \in Callers \cup {None}

\* Two calls that have begun to open a connection, and have not failed, did so at the same time.
Overlap(c, d) ==
  c # d /\ call[c] = "opening" /\ (call[d] = "opening" \/ Opened(d)) => c \in company[d] /\ d \in company[c]

ModelInv ==
  /\ ModelTypeOK
  /\ connection = None => \A c \in Callers : model[c] = None
  /\ connection # None => Opened(connection)
  /\ \A c \in Callers : call[c] \in {"none", "opening"} => model[c] = None
  /\ \A c \in Callers : model[c] # None => model[model[c]] = model[c]
  /\ \A c, d \in Callers : Overlap(c, d)
  /\ \A c \in Callers : Opened(c) /\ connection # c => company[c] # {}

LEMMA ModelInit == Init => ModelInv
BY DEF Init, ModelInv, ModelTypeOK, Calls, Overlap, Opened

LEMMA GetEntityModelKeeps ==
  ASSUME ModelInv, NEW c \in Callers, NEW e, GetEntityModel(c, e)
  PROVE  ModelInv'
<1>1. call[c] = "none" /\ model[c] = None /\ UNCHANGED connection
  BY DEF GetEntityModel, ModelInv
<1>2. CASE call' = [call EXCEPT ![c] = "failed"] /\ UNCHANGED <<model, company>>
  BY <1>1, <1>2 DEF ModelInv, ModelTypeOK, Calls, Overlap, Opened
<1>3. CASE /\ connection # None /\ call' = [call EXCEPT ![c] = "answered"]
           /\ model' = [model EXCEPT ![c] = connection] /\ UNCHANGED company
  <2>1. connection # c /\ Opened(connection) /\ connection \in Callers
    BY <1>1, <1>3 DEF ModelInv, Opened, ModelTypeOK
  <2>2. \A d \in Callers : Opened(d)' <=> Opened(d)
    BY <1>1, <1>3, <2>1 DEF ModelInv, ModelTypeOK, Opened
  <2>3. ModelTypeOK'
    BY <1>1, <1>3 DEF ModelInv, ModelTypeOK, Calls
  <2>4. \A d, g \in Callers : Overlap(d, g)'
    BY <1>1, <1>3, <2>2 DEF ModelInv, ModelTypeOK, Overlap
  <2>5. ASSUME NEW d \in Callers, model'[d] # None PROVE model'[model'[d]] = model'[d]
    <3>1. model'[connection] = connection
      BY <1>3, <2>1 DEF Opened, ModelInv, ModelTypeOK
    <3>2. CASE d = c
      BY <1>3, <3>1, <3>2 DEF ModelInv, ModelTypeOK
    <3>3. CASE d # c
      <4>1. model'[d] = model[d] /\ model[d] \in Callers /\ Opened(model[d])
        BY <1>3, <2>5, <3>3 DEF ModelInv, ModelTypeOK, Opened
      <4> QED
        BY <2>2, <4>1 DEF Opened
    <3> QED
      BY <3>2, <3>3
  <2>6. \A d \in Callers : call'[d] \in {"none", "opening"} => model'[d] = None
    BY <1>3 DEF ModelInv, ModelTypeOK
  <2> QED
    BY <1>1, <1>3, <2>1, <2>2, <2>3, <2>4, <2>5, <2>6 DEF ModelInv, Opened
<1>4. CASE /\ connection = None /\ call' = [call EXCEPT ![c] = "opening"] /\ UNCHANGED model
           /\ company' = [d \in Callers |-> IF d = c THEN Opening
                                            ELSE IF d \in Opening THEN company[d] \cup {c}
                                            ELSE company[d]]
  <2>1. \A d \in Callers : model[d] = None
    BY <1>4 DEF ModelInv
  <2>2. Opening \subseteq Callers
    BY DEF Opening
  <2>3. ModelTypeOK'
    BY <1>1, <1>4, <2>2 DEF ModelInv, ModelTypeOK, Calls
  <2>4. ASSUME NEW d \in Callers, NEW g \in Callers PROVE Overlap(d, g)'
    <3>1. ~Opened(g)'
      BY <1>4, <2>1 DEF Opened
    <3> SUFFICES ASSUME d # g, call'[d] = "opening", call'[g] = "opening"
                 PROVE  d \in company'[g] /\ g \in company'[d]
      BY <3>1 DEF Overlap
    <3>2. CASE d = c
      BY <1>4, <3>2 DEF Opening, ModelInv, ModelTypeOK
    <3>3. CASE g = c
      BY <1>4, <3>3 DEF Opening, ModelInv, ModelTypeOK
    <3>4. CASE d # c /\ g # c
      <4>1. d \in company[g] /\ g \in company[d]
        BY <1>4, <3>4 DEF ModelInv, Overlap, ModelTypeOK
      <4> QED
        BY <1>4, <3>4, <4>1
    <3> QED
      BY <3>2, <3>3, <3>4
  <2> QED
    BY <1>1, <1>4, <2>1, <2>3, <2>4 DEF ModelInv, Opened
<1> QED
  BY <1>2, <1>3, <1>4 DEF GetEntityModel

LEMMA ConnectionOpenedKeeps ==
  ASSUME ModelInv, NEW c \in Callers, ConnectionOpened(c)
  PROVE  ModelInv'
<1>1. /\ call[c] = "opening" /\ connection' = c /\ UNCHANGED company
      /\ call' = [call EXCEPT ![c] = "answered"] /\ model' = [model EXCEPT ![c] = c]
  BY DEF ConnectionOpened
<1>2. model[c] = None /\ c # None
  BY <1>1 DEF ModelInv
<1>3. ModelTypeOK'
  BY <1>1 DEF ModelInv, ModelTypeOK, Calls
<1>4. \A d \in Callers : Opened(d)' <=> (d = c \/ Opened(d))
  BY <1>1 DEF ModelInv, ModelTypeOK, Opened
<1>5. ASSUME NEW d \in Callers, model'[d] # None PROVE model'[model'[d]] = model'[d]
  <2>1. CASE d = c
    BY <1>1, <2>1 DEF ModelInv, ModelTypeOK
  <2>2. CASE d # c
    <3>1. model'[d] = model[d] /\ model[d] \in Callers /\ Opened(model[d])
      BY <1>1, <1>5, <2>2 DEF ModelInv, ModelTypeOK, Opened
    <3> QED
      BY <1>4, <3>1 DEF Opened
  <2> QED
    BY <2>1, <2>2
<1>6. \A d \in Callers : call'[d] \in {"none", "opening"} => model'[d] = None
  BY <1>1 DEF ModelInv, ModelTypeOK
<1>7. ASSUME NEW d \in Callers, NEW g \in Callers PROVE Overlap(d, g)'
  BY <1>1, <1>4 DEF ModelInv, ModelTypeOK, Overlap
<1>8. ASSUME NEW d \in Callers, Opened(d)', d # c PROVE company[d] # {}
  <2>1. Opened(d)
    BY <1>4, <1>8
  <2>2. c \in company[d]
    BY <1>1, <1>8, <2>1 DEF ModelInv, Overlap
  <2> QED
    BY <2>2
<1> QED
  <2>1. connection' # None /\ Opened(connection)'
    BY <1>1, <1>2, <1>3 DEF Opened, ModelTypeOK
  <2> QED
    BY <1>1, <1>3, <1>5, <1>6, <1>7, <1>8, <2>1 DEF ModelInv

LEMMA ModelNext == ModelInv /\ [Next]_vars => ModelInv'
<1> SUFFICES ASSUME ModelInv, [Next]_vars PROVE ModelInv'
  OBVIOUS
<1>1. CASE UNCHANGED modelVars
  BY <1>1 DEF ModelInv, ModelTypeOK, Overlap, Opened, modelVars
<1>2. ASSUME NEW c \in Callers, ConnectionFailed(c) PROVE ModelInv'
  BY <1>2 DEF ConnectionFailed, ModelInv, ModelTypeOK, Calls, Overlap, Opened
<1>3. ASSUME Next, ~UNCHANGED modelVars
      PROVE  \E c \in Callers : (\E e \in Entities : GetEntityModel(c, e)) \/ ConnectionOpened(c)
                                \/ ConnectionFailed(c)
  BY <1>3 DEF Next, ForFeature, TimerFires, ForRoot, Crash, Start, Stopped, vars
<1> QED
  BY <1>1, <1>2, <1>3, GetEntityModelKeeps, ConnectionOpenedKeeps DEF vars

LEMMA ModelInvariant == Spec => []ModelInv
  BY ModelInit, ModelNext, PTL DEF Spec

\* A connection that models were made from and that was replaced was opened at the same time as
\* another (dynamic-api-global-state.service.ts:69-72).
THEOREM StrayExplainedHolds == Spec => []StrayExplained
<1>1. ASSUME ModelInv PROVE StrayExplained
  <2> SUFFICES ASSUME NEW c \in Callers, model[c] # None, model[c] # connection
               PROVE  company[model[c]] # {}
    BY DEF StrayExplained
  <2>1. model[c] \in Callers /\ Opened(model[c])
    BY <1>1 DEF ModelInv, ModelTypeOK, Opened
  <2> QED
    BY <1>1, <2>1 DEF ModelInv
<1> QED
  BY ModelInvariant, <1>1, PTL

-----------------------------------------------------------------------------
(* What a filter picks.  The place of an index among those picked is the     *)
(* number of them up to it: a strictly increasing map into 1 .. their number *)
(* and, the two sets being as large as one another, onto it.                 *)

UpTo(I, i) == {j \in I : j <= i}

LEMMA RankType ==
  ASSUME NEW n \in Nat, NEW I \in SUBSET (1 .. n)
  PROVE  /\ IsFiniteSet(I) /\ Cardinality(I) \in Nat
         /\ \A i \in I : IsFiniteSet(UpTo(I, i)) /\ Cardinality(UpTo(I, i)) \in 1 .. Cardinality(I)
<1>1. IsFiniteSet(I) /\ Cardinality(I) \in Nat
  <2>1. IsFiniteSet(1 .. n)
    BY FS_Interval
  <2>2. IsFiniteSet(I)
    BY <2>1, FS_Subset
  <2> QED
    BY <2>2, FS_CardinalityType
<1>2. ASSUME NEW i \in I PROVE IsFiniteSet(UpTo(I, i)) /\ Cardinality(UpTo(I, i)) \in 1 .. Cardinality(I)
  <2>1. UpTo(I, i) \in SUBSET I /\ i \in UpTo(I, i)
    BY DEF UpTo
  <2>2. /\ IsFiniteSet(UpTo(I, i)) /\ Cardinality(UpTo(I, i)) \in Nat
        /\ Cardinality(UpTo(I, i)) <= Cardinality(I)
    BY <1>1, <2>1, FS_Subset, FS_CardinalityType
  <2>3. Cardinality(UpTo(I, i)) # 0
    BY <2>1, <2>2, FS_EmptySet
  <2> QED
    BY <1>1, <2>2, <2>3
<1> QED
  BY <1>1, <1>2

LEMMA RankIncreases ==
  ASSUME NEW n \in Nat, NEW I \in SUBSET (1 .. n), NEW i \in I, NEW k \in I, i < k
  PROVE  Cardinality(UpTo(I, i)) # Cardinality(UpTo(I, k))
<1>1. UpTo(I, i) \in SUBSET UpTo(I, k) /\ k \in UpTo(I, k) /\ k \notin UpTo(I, i)
  <2>1. \A j \in I : j \in Int /\ (j <= i => j <= k)
    OBVIOUS
  <2>2. k <= k /\ ~(k <= i)
    OBVIOUS
  <2> QED
    BY <2>1, <2>2, Zenon DEF UpTo
<1>2. IsFiniteSet(UpTo(I, k))
  BY RankType
<1> QED
  BY <1>1, <1>2, FS_Subset

LEMMA RankOnce ==
  ASSUME NEW n \in Nat, NEW I \in SUBSET (1 .. n), NEW i \in I, NEW k \in I,
         Cardinality(UpTo(I, i)) = Cardinality(UpTo(I, k))
  PROVE  i = k
<1>1. i \in Int /\ k \in Int
  OBVIOUS
<1>2. ~(i < k) /\ ~(k < i)
  BY RankIncreases
<1> QED
  BY <1>1, <1>2

LEMMA RankOnto ==
  ASSUME NEW n \in Nat, NEW I \in SUBSET (1 .. n), NEW k \in 1 .. Cardinality(I)
  PROVE  \E i \in I : Cardinality(UpTo(I, i)) = k
<1> DEFINE T == 1 .. Cardinality(I)
           f == [i \in I |-> Cardinality(UpTo(I, i))]
<1>1. IsFiniteSet(I) /\ Cardinality(I) \in Nat /\ \A i \in I : Cardinality(UpTo(I, i)) \in T
  BY RankType
<1>2. IsFiniteSet(T) /\ Cardinality(T) = Cardinality(I)
  BY <1>1, FS_Interval
<1>3. f \in [I -> T] /\ \A i \in I : f[i] = Cardinality(UpTo(I, i))
  BY <1>1
<1>4. \A i, j \in I : f[i] = f[j] => i = j
  BY <1>3, RankOnce
<1> HIDE DEF f, T
<1>5. f \in Injection(I, T)
  BY <1>3, <1>4 DEF Injection, IsInjective
<1>6. f \in Surjection(I, T)
  BY <1>2, <1>5, FS_Injection
<1>7. k \in T
  BY DEF T
<1> QED
  BY <1>3, <1>6, <1>7 DEF Surjection

\* Every index of I is picked, and nothing else.
LEMMA Picked ==
  ASSUME NEW S, NEW s \in Seq(S), NEW I \in SUBSET DOMAIN s
  PROVE  /\ Pick(s, I) \in Seq(S)
         /\ \A k \in DOMAIN Pick(s, I) : \E i \in I : Pick(s, I)[k] = s[i]
         /\ \A i \in I : \E k \in DOMAIN Pick(s, I) : Pick(s, I)[k] = s[i]
<1> DEFINE At(k) == CHOOSE i \in I : Cardinality(UpTo(I, i)) = k
<1>1. Len(s) \in Nat /\ DOMAIN s = 1 .. Len(s) /\ \A i \in DOMAIN s : s[i] \in S
  OBVIOUS
<1>2. I \in SUBSET (1 .. Len(s)) /\ Cardinality(I) \in Nat
  BY <1>1, RankType
<1>3. Pick(s, I) = [k \in 1 .. Cardinality(I) |-> s[At(k)]]
  BY DEF Pick, UpTo
<1>4. \A k \in 1 .. Cardinality(I) : At(k) \in I /\ Cardinality(UpTo(I, At(k))) = k
  BY <1>1, <1>2, RankOnto
<1>5. \A i \in I : Cardinality(UpTo(I, i)) \in 1 .. Cardinality(I)
  BY <1>1, <1>2, RankType
<1>6. ASSUME NEW i \in I PROVE At(Cardinality(UpTo(I, i))) = i
  BY <1>1, <1>2, <1>4, <1>5, RankOnce
<1> HIDE DEF At
<1>7. \A k \in 1 .. Cardinality(I) : s[At(k)] \in S
  BY <1>1, <1>4
<1>8. Pick(s, I) \in Seq(S)
  BY <1>2, <1>3, <1>7
<1> QED
  BY <1>2, <1>3, <1>4, <1>5, <1>6, <1>8

\* A set of indices has a least one.
LEMMA LeastIndex ==
  ASSUME NEW n \in Nat, NEW I \in SUBSET (1 .. n), I # {}
  PROVE  Min(I) \in I /\ \A j \in I : Min(I) <= j
<1>1. Cardinality(I) \in Nat /\ Cardinality(I) # 0
  BY RankType, FS_EmptySet
<1>2. PICK i \in I : Cardinality(UpTo(I, i)) = 1
  BY <1>1, RankOnto
<1>3. i \in UpTo(I, i) /\ IsFiniteSet(UpTo(I, i))
  <2>1. i <= i
    OBVIOUS
  <2> QED
    BY <2>1, RankType DEF UpTo
<1>4. \A j \in UpTo(I, i) : j = i
  BY <1>2, <1>3, FS_Singleton
<1>5. \A j \in I : i <= j
  <2>1. \A j \in I : j \in Int /\ i \in Int /\ (j <= i \/ i <= j)
    OBVIOUS
  <2>2. \A j \in I : j <= i => j = i
    BY <1>4 DEF UpTo
  <2> QED
    BY <2>1, <2>2
<1> QED
  BY <1>5 DEF Min
-----------------------------------------------------------------------------
(* What setDefaultRoutes selects.                                            *)

InARow(a, b, c) == a \o b \o c

\* Three sequences in a row, element by element.
LEMMA ThreeParts ==
  ASSUME NEW S, NEW a \in Seq(S), NEW b \in Seq(S), NEW c \in Seq(S),
         NEW r, r = InARow(a, b, c)
  PROVE  /\ r \in Seq(S)
         /\ \A k \in DOMAIN r :
              \/ k \in DOMAIN a /\ r[k] = a[k]
              \/ k > Len(a) /\ \E i \in DOMAIN b : r[k] = b[i]
              \/ k > Len(a) /\ \E i \in DOMAIN c : r[k] = c[i]
         /\ \A i \in DOMAIN a : \E k \in DOMAIN r : r[k] = a[i]
         /\ \A i \in DOMAIN b : \E k \in DOMAIN r : r[k] = b[i]
         /\ \A i \in DOMAIN c : \E k \in DOMAIN r : r[k] = c[i]
<1> DEFINE ab == a \o b
<1>1. /\ ab \in Seq(S) /\ Len(ab) = Len(a) + Len(b) /\ Len(a) \in Nat /\ Len(b) \in Nat /\ Len(c) \in Nat
      /\ DOMAIN a = 1 .. Len(a) /\ DOMAIN b = 1 .. Len(b) /\ DOMAIN c = 1 .. Len(c)
      /\ DOMAIN ab = 1 .. Len(a) + Len(b)
  OBVIOUS
<1>2. \A k \in 1 .. Len(a) : ab[k] = a[k]
  OBVIOUS
<1>3. \A k \in 1 .. Len(b) : ab[k + Len(a)] = b[k]
  OBVIOUS
<1>0. r = ab \o c
  BY DEF InARow
<1> HIDE DEF ab
<1>4. r \in Seq(S) /\ Len(r) = Len(ab) + Len(c) /\ DOMAIN r = 1 .. Len(ab) + Len(c)
  <2>1. ab \in Seq(S)
    BY <1>1
  <2>2. r \in Seq(S)
    BY <1>0, <2>1
  <2>3. Len(r) = Len(ab) + Len(c)
    BY <1>0, <2>1
  <2>4. DOMAIN r = 1 .. Len(r)
    BY <2>2
  <2> QED
    BY <2>2, <2>3, <2>4
<1>5. \A k \in 1 .. Len(ab) : r[k] = ab[k]
  BY <1>0, <1>1
<1>6. \A k \in 1 .. Len(c) : r[k + Len(ab)] = c[k]
  <2>1. \A k \in 1 .. Len(c) : (ab \o c)[k + Len(ab)] = c[k]
    BY <1>1
  <2> QED
    BY <1>0, <2>1
<1>7. ASSUME NEW k \in DOMAIN r
      PROVE  \/ k \in DOMAIN a /\ r[k] = a[k]
             \/ k > Len(a) /\ \E i \in DOMAIN b : r[k] = b[i]
             \/ k > Len(a) /\ \E i \in DOMAIN c : r[k] = c[i]
  <2>1. k \in Int
    BY <1>4
  <2>2. CASE k <= Len(a)
    BY <1>1, <1>2, <1>4, <1>5, <2>2
  <2>3. CASE k > Len(a) /\ k <= Len(ab)
    <3>1. k - Len(a) \in 1 .. Len(b) /\ k \in 1 .. Len(ab) /\ (k - Len(a)) + Len(a) = k
      BY <1>1, <2>1, <2>3
    <3> QED
      BY <1>1, <1>3, <1>5, <2>3, <3>1
  <2>4. CASE k > Len(ab)
    <3>1. k - Len(ab) \in 1 .. Len(c) /\ k > Len(a) /\ (k - Len(ab)) + Len(ab) = k
      BY <1>1, <1>4, <2>1, <2>4
    <3> QED
      BY <1>1, <1>6, <3>1
  <2> QED
    BY <1>1, <2>1, <2>2, <2>3, <2>4
<1>8. \A i \in DOMAIN a : \E k \in DOMAIN r : r[k] = a[i]
  BY <1>1, <1>2, <1>4, <1>5
<1>9. ASSUME NEW i \in DOMAIN b PROVE \E k \in DOMAIN r : r[k] = b[i]
  <2>1. i + Len(a) \in 1 .. Len(ab) /\ i + Len(a) \in DOMAIN r
    BY <1>1, <1>4
  <2> QED
    BY <1>1, <1>3, <1>5, <2>1
<1>10. ASSUME NEW i \in DOMAIN c PROVE \E k \in DOMAIN r : r[k] = c[i]
  <2>1. i + Len(ab) \in DOMAIN r
    BY <1>1, <1>4
  <2> QED
    BY <1>1, <1>6, <2>1
<1> QED
  BY <1>4, <1>7, <1>8, <1>9, <1>10

IsListed(r, t) == r.type = t /\ r.subPath = None

\* The route of a default type: the first listed one without a subPath, or a bare one.
LEMMA ConfiguredRoute ==
  ASSUME NEW listed \in Seq(Route), NEW t \in Types
  PROVE  /\ Configured(listed, t) \in Route
         /\ IsListed(Configured(listed, t), t)
         /\ \A i \in DOMAIN listed : IsListed(listed[i], t) =>
              \/ Configured(listed, t) = listed[i]
              \/ \E j \in 1 .. i - 1 : IsListed(listed[j], t)
<1> DEFINE I == {i \in 1 .. Len(listed) : IsListed(listed[i], t)}
           first == IF I # {} THEN Min(I) ELSE 0
<1>1. Configured(listed, t) = IF first = 0 THEN Bare(t) ELSE listed[first]
  BY DEF Configured, SelectInSeq, IsListed
<1>2. Len(listed) \in Nat /\ DOMAIN listed = 1 .. Len(listed) /\ \A i \in DOMAIN listed : listed[i] \in Route
  OBVIOUS
<1>3. CASE I = {}
  <2>1. Configured(listed, t) = Bare(t)
    BY <1>1, <1>3
  <2>2. Bare(t) \in Route /\ IsListed(Bare(t), t)
    BY DEF Bare, Route, IsListed
  <2> QED
    BY <1>2, <1>3, <2>1, <2>2
<1>4. CASE I # {}
  <2>1. I \in SUBSET (1 .. Len(listed))
    OBVIOUS
  <2>2. Min(I) \in I /\ \A j \in I : Min(I) <= j
    BY <1>2, <1>4, <2>1, LeastIndex, Zenon
  <2>3. Configured(listed, t) = listed[Min(I)]
    BY <1>1, <1>2, <1>4, <2>1, <2>2
  <2>4. ASSUME NEW i \in DOMAIN listed, IsListed(listed[i], t)
        PROVE  Configured(listed, t) = listed[i] \/ \E j \in 1 .. i - 1 : IsListed(listed[j], t)
    <3>1. i \in I /\ i \in Int /\ Min(I) \in 1 .. Len(listed) /\ Min(I) <= i
      BY <1>2, <2>2, <2>4
    <3>2. IsListed(listed[Min(I)], t)
      BY <2>2
    <3> HIDE DEF I
    <3>3. Min(I) = i \/ Min(I) \in 1 .. i - 1
      BY <1>2, <3>1
    <3> QED
      BY <2>3, <3>2, <3>3
  <2>5. Configured(listed, t) \in Route /\ IsListed(Configured(listed, t), t)
    BY <1>2, <2>2, <2>3
  <2> QED
    BY <2>4, <2>5
<1> QED
  BY <1>3, <1>4

\* Where each of the routes comes from, which are not left out, and that those with a subPath
\* come first.
Selects(routes, listed, defaults, excluded) ==
  /\ routes \in Seq(Route)
  /\ \A k \in DOMAIN routes :
       \/ routes[k].subPath # None
       \/ routes[k].subPath = None /\ routes[k].type \notin ToSet(defaults)
       \/ \E t \in ToSet(defaults) \ ToSet(excluded) : routes[k] = Configured(listed, t)
  /\ \A i \in DOMAIN listed :
       listed[i].subPath # None \/ listed[i].type \notin ToSet(defaults) =>
         \E k \in DOMAIN routes : routes[k] = listed[i]
  /\ \A t \in ToSet(defaults) \ ToSet(excluded) : \E k \in DOMAIN routes : routes[k] = Configured(listed, t)
  /\ \A k \in DOMAIN routes : \A j \in 1 .. k - 1 : routes[k].subPath # None => routes[j].subPath # None

LEMMA SelectedRoutes ==
  ASSUME NEW s \in RoutesConfig, NEW c \in PartialConfig, NEW listed \in Seq(Route)
  PROVE  Selects(setDefaultRoutes(s, c, listed), listed,
                 OrElse(c.defaults, s.defaults), OrElse(c.excluded, s.excluded))
<1> SUFFICES ASSUME NEW defaults, defaults = OrElse(c.defaults, s.defaults),
                    NEW excluded, excluded = OrElse(c.excluded, s.excluded),
                    NEW routes, routes = setDefaultRoutes(s, c, listed)
             PROVE  Selects(routes, listed, defaults, excluded)
  OBVIOUS
<1> DEFINE I == {i \in DOMAIN listed : listed[i].subPath # None}
           J == {i \in DOMAIN listed : listed[i].subPath = None /\ ~Contains(defaults, listed[i].type)}
           K == {i \in DOMAIN defaults : ~Contains(excluded, defaults[i])}
           kept == Pick(defaults, K)
           first == Pick(listed, I)
           second == Pick(listed, J)
           third == [i \in DOMAIN kept |-> Configured(listed, kept[i])]
<1>1. defaults \in Seq(Types) /\ excluded \in Seq(Types)
  BY DEF RoutesConfig, PartialConfig, OrElse
<1>2. routes = InARow(first, second, third)
  BY DEF setDefaultRoutes, Filter, InARow
<1>3. /\ \A e : Contains(defaults, e) <=> e \in ToSet(defaults)
      /\ \A e : Contains(excluded, e) <=> e \in ToSet(excluded)
  BY <1>1 DEF Contains, ToSet
<1>4. /\ first \in Seq(Route)
      /\ \A k \in DOMAIN first : \E i \in I : first[k] = listed[i]
      /\ \A i \in I : \E k \in DOMAIN first : first[k] = listed[i]
  <2>1. I \in SUBSET DOMAIN listed
    OBVIOUS
  <2> HIDE DEF I
  <2> QED
    BY <2>1, Picked
<1>5. /\ second \in Seq(Route)
      /\ \A k \in DOMAIN second : \E i \in J : second[k] = listed[i]
      /\ \A i \in J : \E k \in DOMAIN second : second[k] = listed[i]
  <2>1. J \in SUBSET DOMAIN listed
    OBVIOUS
  <2> HIDE DEF J
  <2> QED
    BY <2>1, Picked
<1>6. /\ kept \in Seq(Types)
      /\ \A k \in DOMAIN kept : \E i \in K : kept[k] = defaults[i]
      /\ \A i \in K : \E k \in DOMAIN kept : kept[k] = defaults[i]
  <2>1. K \in SUBSET DOMAIN defaults
    OBVIOUS
  <2> HIDE DEF K
  <2> QED
    BY <1>1, <2>1, Picked
<1> HIDE DEF kept
<1>7. ASSUME NEW k \in DOMAIN kept PROVE kept[k] \in Types /\ kept[k] \in ToSet(defaults) \ ToSet(excluded)
  <2>1. PICK i \in K : kept[k] = defaults[i]
    BY <1>6
  <2>2. defaults[i] \in ToSet(defaults) /\ ~Contains(excluded, defaults[i])
    BY <2>1 DEF ToSet
  <2>3. kept[k] \in Types
    BY <1>6
  <2> QED
    BY <1>3, <2>1, <2>2, <2>3
<1>8. \A t \in ToSet(defaults) \ ToSet(excluded) : \E k \in DOMAIN kept : kept[k] = t
  BY <1>3, <1>6 DEF ToSet
<1> HIDE DEF first, second
<1>9. /\ third \in Seq(Route) /\ DOMAIN third = DOMAIN kept
      /\ \A k \in DOMAIN third : third[k] = Configured(listed, kept[k]) /\ third[k].subPath = None
  <2>1. \A k \in DOMAIN kept : Configured(listed, kept[k]) \in Route /\ Configured(listed, kept[k]).subPath = None
    BY <1>7, ConfiguredRoute DEF IsListed
  <2>2. Len(kept) \in Nat /\ DOMAIN kept = 1 .. Len(kept)
    BY <1>6
  <2> QED
    BY <2>1, <2>2
<1> HIDE DEF third
<1>10. /\ \A k \in DOMAIN first : first[k].subPath # None
       /\ \A k \in DOMAIN second : second[k].subPath = None /\ second[k].type \notin ToSet(defaults)
  BY <1>3, <1>4, <1>5
<1> HIDE DEF I, J, K
<1>11. /\ routes \in Seq(Route)
       /\ \A k \in DOMAIN routes : \/ k \in DOMAIN first /\ routes[k] = first[k]
                                   \/ k > Len(first) /\ \E i \in DOMAIN second : routes[k] = second[i]
                                   \/ k > Len(first) /\ \E i \in DOMAIN third : routes[k] = third[i]
       /\ \A i \in DOMAIN first : \E k \in DOMAIN routes : routes[k] = first[i]
       /\ \A i \in DOMAIN second : \E k \in DOMAIN routes : routes[k] = second[i]
       /\ \A i \in DOMAIN third : \E k \in DOMAIN routes : routes[k] = third[i]
  <2>1. first \in Seq(Route) /\ second \in Seq(Route) /\ third \in Seq(Route)
    BY <1>4, <1>5, <1>9
  <2> QED
    BY <1>2, <2>1, ThreeParts
<1>12. ASSUME NEW k \in DOMAIN routes
       PROVE  \/ routes[k].subPath # None
              \/ routes[k].subPath = None /\ routes[k].type \notin ToSet(defaults)
              \/ \E t \in ToSet(defaults) \ ToSet(excluded) : routes[k] = Configured(listed, t)
  <2>1. CASE \E i \in DOMAIN third : routes[k] = third[i]
    BY <1>7, <1>9, <2>1
  <2> QED
    BY <1>10, <1>11, <2>1
<1>13. ASSUME NEW i \in DOMAIN listed, listed[i].subPath # None \/ listed[i].type \notin ToSet(defaults)
       PROVE  \E k \in DOMAIN routes : routes[k] = listed[i]
  <2>1. i \in I \/ i \in J
    BY <1>3, <1>13 DEF I, J
  <2> QED
    BY <1>4, <1>5, <1>11, <2>1
<1>14. \A t \in ToSet(defaults) \ ToSet(excluded) : \E k \in DOMAIN routes : routes[k] = Configured(listed, t)
  BY <1>8, <1>9, <1>11
<1>15. ASSUME NEW k \in DOMAIN routes, NEW j \in 1 .. k - 1, routes[k].subPath # None
       PROVE  routes[j].subPath # None
  <2>1. DOMAIN routes = 1 .. Len(routes) /\ Len(routes) \in Nat /\ Len(first) \in Nat /\ DOMAIN first = 1 .. Len(first)
    <3>1. first \in Seq(Route) /\ routes \in Seq(Route)
      BY <1>4, <1>11
    <3> QED
      BY <3>1
  <2>2. k \in DOMAIN first
    <3>1. \A i \in DOMAIN second : routes[k] # second[i]
      BY <1>10, <1>15
    <3>2. \A i \in DOMAIN third : routes[k] # third[i]
      BY <1>9, <1>15
    <3> QED
      BY <1>11, <3>1, <3>2
  <2>3. j \in DOMAIN routes /\ ~(j > Len(first))
    BY <2>1, <2>2
  <2> QED
    BY <1>10, <1>11, <2>3
<1> QED
  BY <1>11, <1>12, <1>13, <1>14, <1>15 DEF Selects

\* They are routes, and so are those of a module.
LEMMA MountedRoutes ==
  ASSUME NEW s, s.routesConfig \in RoutesConfig, s.webSocket \in BOOLEAN, NEW o \in FeatureOption
  PROVE  LET routes == setDefaultRoutes(s.routesConfig, o.routesConfig, o.routes)
         IN  /\ routes \in Seq(Route)
             /\ Mounted(o, s) \in Seq(Module) /\ DOMAIN Mounted(o, s) = DOMAIN routes
             /\ \A i \in DOMAIN routes : Mounted(o, s)[i].route = routes[i]
<1> DEFINE routes == setDefaultRoutes(s.routesConfig, o.routesConfig, o.routes)
<1>1. o.routesConfig \in PartialConfig /\ o.routes \in Seq(Route) /\ o.version \in Versions \cup {None}
  BY DEF FeatureOption
<1>2. routes \in Seq(Route)
  BY <1>1, SelectedRoutes DEF Selects
<1>3. Mounted(o, s) = [i \in DOMAIN routes |-> Mount(routes[i], o, s)]
  BY DEF Mounted
<1> HIDE DEF routes
<1>4. Len(routes) \in Nat /\ DOMAIN routes = 1 .. Len(routes) /\ \A i \in DOMAIN routes : routes[i] \in Route
  BY <1>2
<1>5. ASSUME NEW r \in Route PROVE Mount(r, o, s) \in Module /\ Mount(r, o, s).route = r
  <2>1. OrElse(r.version, o.version) \in Versions \cup {None}
    BY <1>1 DEF OrElse, Route
  <2> QED
    BY <2>1 DEF Mount, Module
<1> QED
  BY <1>2, <1>3, <1>4, <1>5 DEF routes

-----------------------------------------------------------------------------
(* The types.                                                                *)

GlobalState == [uri : Uris \cup {None}, auth : BOOLEAN, webSocket : BOOLEAN, routesConfig : RoutesConfig]

TypeInv ==
  /\ TypeOK
  /\ DOMAIN options = Features
  /\ \A f \in subscribed : options[f] \in FeatureOptions[f]

LEMMA TypeInit == Init => TypeInv
<1> SUFFICES ASSUME Init PROVE TypeInv
  OBVIOUS
<1>1. DefaultTypes \in Seq(Types) /\ <<>> \in Seq(Types)
  BY DEF DefaultTypes, Types
<1>2. state \in GlobalState
  BY <1>1 DEF Init, DefaultState, GlobalState, RoutesConfig
<1>3. modules \in [Features -> Seq(Module)]
  BY DEF Init
<1> QED
  BY <1>2, <1>3 DEF Init, TypeInv, TypeOK, GlobalState

LEMMA NotifyType ==
  ASSUME TypeOK, NEW F \in SUBSET Features, NEW o, \A f \in F : o[f] \in FeatureOption,
         NEW s \in GlobalState, Notify(F, o, s)
  PROVE  /\ phase' \in [Features -> {"idle", "waiting", "timedOut", "rejected", "stuck", "resolved"}]
         /\ modules' \in [Features -> Seq(Module)]
         /\ uncaught' \in BOOLEAN
<1> DEFINE ms == [f \in F |-> Mounted(o[f], s)]
<1>1. s.routesConfig \in RoutesConfig /\ s.webSocket \in BOOLEAN
  BY DEF GlobalState
<1>2. ASSUME NEW f \in F PROVE ms[f] \in Seq(Module) /\ Outcome(ms[f]) \in {"rejected", "stuck", "resolved"}
  <2>1. ms[f] = Mounted(o[f], s)
    OBVIOUS
  <2>2. Mounted(o[f], s) \in Seq(Module)
    BY <1>1, MountedRoutes
  <2> QED
    BY <2>1, <2>2 DEF Outcome
<1>3. \E open \in SUBSET F :
        /\ phase' = [f \in Features |-> IF f \in open THEN Outcome(ms[f]) ELSE phase[f]]
        /\ modules' = [f \in Features |-> IF f \in open /\ Outcome(ms[f]) = "resolved"
                                          THEN ms[f] ELSE modules[f]]
        /\ uncaught' = (uncaught \/ \E f \in F : Thrown(ms[f]))
  <2>1. {f \in F : phase[f] \in {"idle", "waiting"}} \in SUBSET F
    OBVIOUS
  <2> QED
    BY <2>1 DEF Notify
<1> HIDE DEF ms
<1> QED
  BY <1>2, <1>3 DEF TypeOK

LEMMA MergedType ==
  ASSUME TypeOK, NEW o \in RootOptions
  PROVE  Merged(o) \in GlobalState
<1> DEFINE config == OrElse(o.routesConfig, [defaults |-> <<>>, excluded |-> <<>>])
           defaults == OrElse(config.defaults, <<>>)
           excluded == OrElse(config.excluded, <<>>)
           merged == IF defaults = <<>> /\ excluded = <<>>
                     THEN state.routesConfig
                     ELSE [defaults |-> IF defaults = <<>> THEN state.routesConfig.defaults ELSE defaults,
                           excluded |-> excluded]
<1>1. o \in RootOption /\ state \in GlobalState
  BY OptionsAssumption DEF TypeOK, GlobalState
<1>2. config \in PartialConfig
  <2>1. [defaults |-> <<>>, excluded |-> <<>>] \in PartialConfig
    BY DEF PartialConfig
  <2> QED
    BY <1>1, <2>1 DEF OrElse, RootOption
<1>3. Merged(o) = [uri |-> o.uri, auth |-> state.auth \/ o.auth, webSocket |-> o.webSocket, routesConfig |-> merged]
  BY DEF Merged
<1> HIDE DEF config
<1>4. defaults \in Seq(Types) /\ excluded \in Seq(Types)
  BY <1>2 DEF OrElse, PartialConfig
<1> HIDE DEF defaults, excluded
<1>5. merged \in RoutesConfig
  BY <1>1, <1>4 DEF RoutesConfig, GlobalState
<1> HIDE DEF merged
<1>6. o.uri \in Uris \cup {None} /\ (state.auth \/ o.auth) \in BOOLEAN /\ o.webSocket \in BOOLEAN
  BY <1>1 DEF RootOption, GlobalState
<1> QED
  BY <1>3, <1>5, <1>6 DEF GlobalState

LEMMA ForFeatureType ==
  ASSUME TypeInv, NEW f \in Features, NEW o \in FeatureOptions[f], ForFeature(f, o)
  PROVE  TypeInv'
<1>1. /\ schemas' = schemas \cup {o.entity} /\ options' = [options EXCEPT ![f] = o]
      /\ subscribed' = subscribed \cup {f}
      /\ UNCHANGED <<state, initialized, rooted, process, call, database, connection, model, company>>
  BY DEF ForFeature, configVars, modelVars
<1>2. o \in FeatureOption /\ o.entity \in Entities
  BY OptionsAssumption DEF FeatureOption
<1>3. /\ DOMAIN options' = Features /\ options'[f] = o
      /\ \A g \in Features \ {f} : options'[g] = options[g]
  BY <1>1 DEF TypeInv
<1>4. /\ phase' \in [Features -> {"idle", "waiting", "timedOut", "rejected", "stuck", "resolved"}]
      /\ modules' \in [Features -> Seq(Module)]
      /\ uncaught' \in BOOLEAN
  <2>1. CASE initialized
    <3>1. Notify({f}, options', state)
      BY <2>1 DEF ForFeature
    <3>2. \A g \in {f} : options'[g] \in FeatureOption
      BY <1>2, <1>3
    <3>3. state \in GlobalState /\ {f} \in SUBSET Features
      BY DEF TypeInv, TypeOK, GlobalState
    <3> QED
      BY <3>1, <3>2, <3>3, NotifyType DEF TypeInv
  <2>2. CASE ~initialized
    BY <2>2 DEF ForFeature, TypeInv, TypeOK
  <2> QED
    BY <2>1, <2>2
<1> QED
  BY <1>1, <1>2, <1>3, <1>4 DEF TypeInv, TypeOK

LEMMA ForRootType ==
  ASSUME TypeInv, NEW o \in RootOptions, ForRoot(o)
  PROVE  TypeInv'
<1>1. /\ rooted' = rooted \cup {o}
      /\ UNCHANGED <<options, subscribed, process, call, database, connection, model, company>>
  BY DEF ForRoot, bootVars, modelVars
<1>2. CASE RootThrows(o)
  <2>1. UNCHANGED <<state, initialized, schemas, phase, modules, uncaught>>
    BY <1>2 DEF ForRoot, bootVars
  <2> QED
    BY <1>1, <2>1 DEF TypeInv, TypeOK
<1>3. CASE ~RootThrows(o)
  <2>1. /\ state' = Merged(o) /\ initialized' = TRUE
        /\ schemas' = schemas \cup (IF o.auth THEN {"User"} ELSE {})
    BY <1>3 DEF ForRoot
  <2>2. state' \in GlobalState
    BY <2>1, MergedType DEF TypeInv
  <2>3. schemas' \subseteq Entities
    BY <2>1, OptionsAssumption DEF TypeInv, TypeOK
  <2>4. /\ phase' \in [Features -> {"idle", "waiting", "timedOut", "rejected", "stuck", "resolved"}]
        /\ modules' \in [Features -> Seq(Module)]
        /\ uncaught' \in BOOLEAN
    <3>1. CASE initialized
      BY <1>3, <3>1 DEF ForRoot, TypeInv, TypeOK
    <3>2. CASE ~initialized
      <4>1. Notify(subscribed, options, state')
        BY <1>3, <3>2 DEF ForRoot
      <4>2. subscribed \in SUBSET Features /\ \A g \in subscribed : options[g] \in FeatureOption
        BY OptionsAssumption DEF TypeInv, TypeOK
      <4> QED
        BY <2>2, <4>1, <4>2, NotifyType DEF TypeInv
    <3> QED
      BY <3>1, <3>2
  <2> QED
    BY <1>1, <2>1, <2>2, <2>3, <2>4 DEF TypeInv, TypeOK, GlobalState
<1> QED
  BY <1>2, <1>3

LEMMA CallsType ==
  ASSUME TypeInv, NEW c \in Callers,
         (\E e \in Entities : GetEntityModel(c, e)) \/ ConnectionOpened(c) \/ ConnectionFailed(c)
  PROVE  TypeInv'
<1>1. UNCHANGED <<configVars, bootVars, process>>
  BY DEF GetEntityModel, ConnectionOpened, ConnectionFailed
<1>2. Opening \subseteq Callers
  BY DEF Opening
<1>3. /\ call' \in [Callers -> {"none", "opening", "answered", "failed"}]
      /\ database' \in [Callers -> Uris \cup {None}]
      /\ connection' \in Callers \cup {None}
      /\ model' \in [Callers -> Callers \cup {None}]
      /\ company' \in [Callers -> SUBSET Callers]
  <2>1. ASSUME NEW e \in Entities, GetEntityModel(c, e) PROVE <1>3!:
    <3>1. state.uri \in Uris \cup {None}
      BY DEF TypeInv, TypeOK
    <3>2. CASE e \notin schemas
      BY <2>1, <3>2 DEF GetEntityModel, TypeInv, TypeOK
    <3>3. CASE e \in schemas /\ connection # None
      <4>1. /\ call' = [call EXCEPT ![c] = "answered"] /\ model' = [model EXCEPT ![c] = connection]
            /\ UNCHANGED <<database, company, connection>>
        BY <2>1, <3>3 DEF GetEntityModel
      <4> QED
        BY <4>1 DEF TypeInv, TypeOK
    <3>4. CASE e \in schemas /\ connection = None
      <4>1. /\ call' = [call EXCEPT ![c] = "opening"]
            /\ database' = [database EXCEPT ![c] = state.uri]
            /\ company' = [d \in Callers |-> IF d = c THEN Opening
                                             ELSE IF d \in Opening THEN company[d] \cup {c}
                                             ELSE company[d]]
            /\ UNCHANGED <<model, connection>>
        BY <2>1, <3>4 DEF GetEntityModel
      <4>2. company' \in [Callers -> SUBSET Callers]
        BY <1>2, <4>1 DEF TypeInv, TypeOK
      <4> QED
        BY <3>1, <4>1, <4>2 DEF TypeInv, TypeOK
    <3> QED
      BY <3>2, <3>3, <3>4
  <2>2. CASE ConnectionOpened(c)
    BY <2>2 DEF ConnectionOpened, TypeInv, TypeOK
  <2>3. CASE ConnectionFailed(c)
    BY <2>3 DEF ConnectionFailed, TypeInv, TypeOK
  <2> QED
    BY <2>1, <2>2, <2>3
<1> QED
  BY <1>1, <1>3 DEF TypeInv, TypeOK, configVars, bootVars

LEMMA TypeNext == TypeInv /\ [Next]_vars => TypeInv'
<1> SUFFICES ASSUME TypeInv, [Next]_vars PROVE TypeInv'
  OBVIOUS
<1>1. ASSUME NEW f \in Features, TimerFires(f) PROVE TypeInv'
  BY <1>1 DEF TimerFires, TypeInv, TypeOK, configVars, modelVars
<1>2. CASE Crash
  BY <1>2 DEF Crash, TypeInv, TypeOK, configVars, bootVars, modelVars
<1>3. CASE Start
  BY <1>3 DEF Start, TypeInv, TypeOK, configVars, bootVars, modelVars
<1>4. CASE UNCHANGED vars
  BY <1>4 DEF TypeInv, TypeOK, vars, configVars, bootVars, modelVars
<1> QED
  BY <1>1, <1>2, <1>3, <1>4, ForFeatureType, ForRootType, CallsType DEF Next, Stopped

LEMMA TypeInvariant == Spec => []TypeInv
  BY TypeInit, TypeNext, PTL DEF Spec

\* Every variable has its type, whatever the options of forRoot and of the features: what
\* setDefaultRoutes selects are routes, and what is built of them modules.
THEOREM TypeCorrect == Spec => []TypeOK
<1>1. TypeInv => TypeOK
  BY DEF TypeInv
<1> QED
  BY TypeInvariant, <1>1, PTL

-----------------------------------------------------------------------------
(* Which routes a feature gets, and why Nest refuses an application.         *)

AllInv == TypeInv /\ BuiltInv

LEMMA AllInvariant == Spec => []AllInv
<1>1. TypeInv /\ BuiltInv => AllInv
  BY DEF AllInv
<1> QED
  BY TypeInvariant, BuiltInvariant, <1>1, PTL

\* A feature that is resolved was called.
LEMMA ResolvedCalled ==
  ASSUME AllInv, NEW f \in Features, phase[f] = "resolved"
  PROVE  options[f] \in FeatureOption
<1>1. f \in subscribed
  BY DEF AllInv, BuiltInv, PromiseInv, PromiseFor
<1> QED
  BY <1>1, OptionsAssumption DEF AllInv, TypeInv

\* Listed routes and defaults are merged by type and subPath (dynamic-api.module.ts:315-334):
\* with one forRoot a listed route is left out only if it has no subPath and is one of the
\* defaults, excluded or listed before; of the defaults those not excluded are mounted.
THEOREM SelectionExplainedHolds == Spec => []SelectionExplained
<1>1. ASSUME AllInv PROVE SelectionExplained
  <2> SUFFICES ASSUME NEW f \in Features, phase[f] = "resolved", Cardinality(rooted) = 1,
                      NEW o, o = options[f],
                      NEW D, D = OrElse(o.routesConfig.defaults, state.routesConfig.defaults),
                      NEW X, X = OrElse(o.routesConfig.excluded, state.routesConfig.excluded)
               PROVE  /\ \A i \in DOMAIN o.routes : o.routes[i] \notin RoutesOf(f) =>
                            /\ o.routes[i].subPath = None
                            /\ o.routes[i].type \in ToSet(D)
                            /\ \/ o.routes[i].type \in ToSet(X)
                               \/ \E j \in 1 .. i - 1 : IsListed(o.routes[j], o.routes[i].type)
                      /\ \A t \in ToSet(D) :
                            (\E r \in RoutesOf(f) : IsListed(r, t)) <=> t \notin ToSet(X)
    BY DEF SelectionExplained, IsListed
  <2> DEFINE L == o.routes
             routes == setDefaultRoutes(state.routesConfig, o.routesConfig, L)
  <2>1. AtMostOneRoot
    BY <1>1, FS_Singleton DEF AllInv, BuiltInv, AtMostOneRoot
  <2>2. modules[f] = Mounted(o, state)
    BY <1>1, <2>1 DEF AllInv, BuiltInv, BuiltFor
  <2>3. /\ o \in FeatureOption /\ L \in Seq(Route) /\ o.routesConfig \in PartialConfig
        /\ state.routesConfig \in RoutesConfig /\ state.webSocket \in BOOLEAN
    BY <1>1, ResolvedCalled DEF FeatureOption, AllInv, TypeInv, TypeOK
  <2>4. D \in Seq(Types)
    BY <2>3 DEF OrElse, RoutesConfig, PartialConfig
  <2>5. RoutesOf(f) = {routes[k] : k \in DOMAIN routes}
    <3>1. /\ DOMAIN Mounted(o, state) = DOMAIN routes
          /\ \A k \in DOMAIN routes : Mounted(o, state)[k].route = routes[k]
      BY <2>3, MountedRoutes
    <3> HIDE DEF routes
    <3> QED
      BY <2>2, <3>1 DEF RoutesOf
  <2>6. Selects(routes, L, D, X)
    BY <2>3, SelectedRoutes
  <2> HIDE DEF routes, L
  <2>7. ToSet(D) \subseteq Types
    BY <2>4 DEF ToSet
  <2>8. \A t \in ToSet(D) \ ToSet(X) : Configured(L, t) \in RoutesOf(f) /\ IsListed(Configured(L, t), t)
    BY <2>3, <2>5, <2>6, <2>7, ConfiguredRoute DEF Selects
  <2>9. ASSUME NEW i \in DOMAIN L, L[i] \notin RoutesOf(f)
        PROVE  /\ L[i].subPath = None
               /\ L[i].type \in ToSet(D)
               /\ L[i].type \in ToSet(X) \/ \E j \in 1 .. i - 1 : IsListed(L[j], L[i].type)
    <3>1. L[i].subPath = None /\ L[i].type \in ToSet(D)
      BY <2>5, <2>6, <2>9 DEF Selects
    <3>2. CASE L[i].type \notin ToSet(X)
      <4>1. Configured(L, L[i].type) # L[i]
        BY <2>8, <2>9, <3>1, <3>2
      <4>2. IsListed(L[i], L[i].type) /\ L[i].type \in Types
        BY <2>7, <3>1 DEF IsListed
      <4> QED
        BY <2>3, <3>1, <4>1, <4>2, ConfiguredRoute
    <3> QED
      BY <3>1, <3>2
  <2>10. ASSUME NEW t \in ToSet(D) PROVE (\E r \in RoutesOf(f) : IsListed(r, t)) <=> t \notin ToSet(X)
    <3>1. CASE t \notin ToSet(X)
      BY <2>8, <3>1
    <3>2. ASSUME NEW k \in DOMAIN routes, IsListed(routes[k], t) PROVE t \notin ToSet(X)
      <4>1. PICK u \in ToSet(D) \ ToSet(X) : routes[k] = Configured(L, u)
        BY <2>6, <3>2 DEF Selects, IsListed
      <4>2. u = t
        BY <2>8, <3>2, <4>1 DEF IsListed
      <4> QED
        BY <4>1, <4>2
    <3> QED
      BY <2>5, <3>1, <3>2
  <2> QED
    BY <2>9, <2>10 DEF L
<1> QED
  BY AllInvariant, <1>1, PTL

\* What a module without a gateway injects, it provides; with one, JwtService is missing unless
\* there is authentication.
LEMMA ResolvableModule ==
  ASSUME NEW m \in Module, ~Resolvable(m)
  PROVE  m.gateway /\ ~state.auth
<1>1. moduleByRouteType[m.route.type] = m.route.type
  BY DEF Module, Route, moduleByRouteType
<1>2. m.gateway \in BOOLEAN
  BY DEF Module
<1> QED
  BY <1>1, <1>2 DEF Resolvable, Injects, Provides

RefusedInv ==
  process = "refused" =>
    /\ initialized
    /\ \A f \in Features : phase[f] = "resolved"
    /\ \E f \in Features : \E i \in DOMAIN modules[f] : modules[f][i].gateway
    /\ AtMostOneRoot => ~state.auth

LEMMA RefusedStart == ASSUME AllInv, Start PROVE RefusedInv'
<1> SUFFICES ASSUME process' = "refused" PROVE RefusedInv'
  BY DEF RefusedInv
<1>1. UNCHANGED <<initialized, phase, modules, state, rooted>>
  BY DEF Start, configVars, bootVars
<1>2. initialized /\ \A f \in Features : phase[f] = "resolved"
  BY DEF Start
<1>3. PICK f \in Features : \E i \in DOMAIN modules[f] : ~Resolvable(modules[f][i])
  BY DEF Start
<1>4. PICK i \in DOMAIN modules[f] : ~Resolvable(modules[f][i])
  BY <1>3
<1>5. modules[f][i] \in Module
  <2>1. modules[f] \in Seq(Module)
    BY DEF AllInv, TypeInv, TypeOK
  <2> QED
    BY <2>1
<1>6. modules[f][i].gateway /\ ~state.auth
  BY <1>4, <1>5, ResolvableModule
<1> QED
  BY <1>1, <1>2, <1>6 DEF RefusedInv, AtMostOneRoot

LEMMA RefusedRoot == ASSUME AllInv, RefusedInv, NEW o, ForRoot(o) PROVE RefusedInv'
<1> SUFFICES ASSUME process' = "refused" PROVE RefusedInv'
  BY DEF RefusedInv
<1>1. process = "refused" /\ o \notin rooted /\ rooted' = rooted \cup {o}
  BY DEF ForRoot
<1>2. initialized /\ rooted # {}
  BY <1>1 DEF RefusedInv, AllInv, BuiltInv
<1>3. UNCHANGED <<initialized, phase, modules>>
  BY <1>2, RootCases DEF AllInv, BuiltInv
<1>4. ~AtMostOneRoot'
  BY <1>1, <1>2 DEF AtMostOneRoot
<1> QED
  BY <1>1, <1>3, <1>4 DEF RefusedInv

LEMMA RefusedNext == AllInv /\ RefusedInv /\ [Next]_vars => RefusedInv'
<1> SUFFICES ASSUME AllInv, RefusedInv, [Next]_vars PROVE RefusedInv'
  OBVIOUS
<1>1. ASSUME NEW f \in Features, NEW o, ForFeature(f, o) PROVE RefusedInv'
  BY <1>1 DEF ForFeature, RefusedInv
<1>2. ASSUME NEW f \in Features, TimerFires(f) PROVE RefusedInv'
  BY <1>2 DEF TimerFires, RefusedInv
<1>3. CASE Crash
  BY <1>3 DEF Crash, RefusedInv
<1>4. CASE UNCHANGED <<configVars, bootVars, process>>
  BY <1>4 DEF RefusedInv, AtMostOneRoot, configVars, bootVars
<1>5. ASSUME NEW c \in Callers,
             (\E e \in Entities : GetEntityModel(c, e)) \/ ConnectionOpened(c) \/ ConnectionFailed(c)
      PROVE  RefusedInv'
  BY <1>4, <1>5 DEF GetEntityModel, ConnectionOpened, ConnectionFailed
<1> QED
  BY <1>1, <1>2, <1>3, <1>4, <1>5, RefusedStart, RefusedRoot DEF Next, Stopped, vars

LEMMA RefusedInvariant == Spec => []RefusedInv
<1>1. Init => RefusedInv
  BY DEF Init, RefusedInv
<1> QED
  BY <1>1, RefusedNext, AllInvariant, PTL DEF Spec

\* Nest refuses an application only for a gateway without JwtService (auth.module.ts:135):
\* everything else that the routes inject their modules provide.
THEOREM RefusalExplainedHolds == Spec => []RefusalExplained
<1>1. ASSUME AllInv, RefusedInv PROVE RefusalExplained
  <2>1. Cardinality(rooted) = 1 => AtMostOneRoot
    BY <1>1, FS_Singleton DEF AllInv, BuiltInv, AtMostOneRoot
  <2> QED
    BY <1>1, <2>1 DEF RefusedInv, RefusalExplained
<1> QED
  BY AllInvariant, RefusedInvariant, <1>1, PTL

-----------------------------------------------------------------------------
(* Which routes hide each other.                                             *)

Segment == Segments \cup {":id", "many", "duplicate"}

LEMMA PathType == ASSUME NEW r \in Route PROVE Sub(r) \in Seq(Segment) /\ Path(r) \in Seq(Segment)
<1>1. Sub(r) \in Seq(Segment)
  <2>1. \A x \in Seq(Segments) : x \in Seq(Segment)
    BY DEF Segment
  <2> QED
    BY <2>1 DEF Sub, OrElse, Route
<1>2. /\ <<":id">> \in Seq(Segment) /\ <<"many">> \in Seq(Segment) /\ <<"duplicate">> \in Seq(Segment)
      /\ <<"duplicate", ":id">> \in Seq(Segment)
  BY DEF Segment
<1>3. \A x, y \in Seq(Segment) : x \o y \in Seq(Segment)
  OBVIOUS
<1> QED
  BY <1>1, <1>2, <1>3 DEF Path

\* The five paths without a subPath.
LEMMA BarePath ==
  ASSUME NEW r \in Route, r.subPath = None
  PROVE  \/ Path(r) = <<>>
         \/ Path(r) = <<":id">>
         \/ Method(r.type) = "POST" /\ Path(r) \in {<<"many">>, <<"duplicate">>, <<"duplicate", ":id">>}
<1>1. Sub(r) = <<>> /\ r.type \in Types
  BY DEF Sub, OrElse, Route
<1>2. /\ <<":id">> \o <<>> = <<":id">> /\ <<>> \o <<":id">> = <<":id">> /\ <<"many">> \o <<>> = <<"many">>
      /\ <<"duplicate">> \o <<>> = <<"duplicate">> /\ <<"duplicate", ":id">> \o <<>> = <<"duplicate", ":id">>
  OBVIOUS
<1> QED
  BY <1>1, <1>2 DEF Path, Method, Types

\* The path of a route that creates begins with a parameter only if its subPath has one.
LEMMA OwnPath ==
  ASSUME NEW r \in Route, Method(r.type) = "POST", ":id" \notin ToSet(Sub(r)), Path(r) # <<>>
  PROVE  Path(r)[1] # ":id"
<1>1. r.type \in {"CreateMany", "CreateOne", "DuplicateMany", "DuplicateOne"}
  BY DEF Method, Route, Types
<1>2. Sub(r) \in Seq(Segment)
  BY PathType
<1>3. CASE r.type = "CreateOne"
  <2>1. Path(r) = Sub(r)
    BY <1>3 DEF Path
  <2>2. 1 \in DOMAIN Sub(r)
    BY <1>2, <2>1
  <2> QED
    BY <2>1, <2>2 DEF ToSet
<1>4. ASSUME NEW a \in Seq(Segment), a # <<>>, Path(r) = a \o Sub(r) PROVE Path(r)[1] = a[1]
  BY <1>2, <1>4
<1>5. CASE r.type = "CreateMany"
  <2>1. Path(r) = <<"many">> \o Sub(r) /\ <<"many">> \in Seq(Segment)
    BY <1>5 DEF Path, Segment
  <2> QED
    BY <1>4, <2>1
<1>6. CASE r.type = "DuplicateMany"
  <2>1. Path(r) = <<"duplicate">> \o Sub(r) /\ <<"duplicate">> \in Seq(Segment)
    BY <1>6 DEF Path, Segment
  <2> QED
    BY <1>4, <2>1
<1>7. CASE r.type = "DuplicateOne"
  <2>1. Path(r) = <<"duplicate", ":id">> \o Sub(r) /\ <<"duplicate", ":id">> \in Seq(Segment)
    BY <1>7 DEF Path, Segment
  <2> QED
    BY <1>4, <2>1
<1> QED
  BY <1>1, <1>3, <1>5, <1>6, <1>7

\* A route without a subPath is hidden only by one with its own path, or by a parameter in the
\* subPath of the other.
LEMMA HiddenBare ==
  ASSUME NEW r \in Route, NEW b \in Route, b.subPath = None, Method(r.type) = Method(b.type),
         Covers(Path(r), Path(b)), ":id" \notin ToSet(Sub(r))
  PROVE  Path(r) = Path(b)
<1> DEFINE p == Path(r)
           q == Path(b)
<1> SUFFICES p = q
  OBVIOUS
<1>1. p \in Seq(Segment) /\ q \in Seq(Segment) /\ Len(p) = Len(q)
      /\ \A i \in 1 .. Len(p) : p[i] \in {":id", q[i]}
  BY PathType DEF Covers
<1>2. \/ q = <<>>
      \/ q = <<":id">>
      \/ Method(r.type) = "POST" /\ q \in {<<"many">>, <<"duplicate">>, <<"duplicate", ":id">>}
  BY BarePath
<1>3. Method(r.type) = "POST" /\ p # <<>> => p[1] # ":id"
  BY OwnPath
<1> HIDE DEF p, q
<1>4. (\A i \in 1 .. Len(p) : p[i] = q[i]) => p = q
  BY <1>1, SeqEqual
<1>5. CASE q = <<>>
  <2>1. Len(p) = 0
    BY <1>1, <1>5
  <2> QED
    BY <1>4, <2>1
<1>6. CASE q = <<":id">>
  <2>1. Len(p) = 1 /\ q[1] = ":id"
    BY <1>1, <1>6
  <2>2. p[1] = q[1]
    BY <1>1, <2>1
  <2> QED
    BY <1>4, <2>1, <2>2
<1>7. CASE Method(r.type) = "POST" /\ q \in {<<"many">>, <<"duplicate">>}
  <2>1. Len(p) = 1
    BY <1>1, <1>7
  <2>2. p # <<>>
    <3>1. Len(p) # 0
      BY <2>1
    <3>2. Len(<<>>) = 0
      OBVIOUS
    <3> QED
      BY <3>1, <3>2, Zenon
  <2>3. p[1] = q[1]
    BY <1>1, <1>3, <1>7, <2>1, <2>2
  <2> QED
    BY <1>4, <2>1, <2>3
<1>8. CASE Method(r.type) = "POST" /\ q = <<"duplicate", ":id">>
  <2>1. Len(p) = 2 /\ q[2] = ":id"
    BY <1>1, <1>8
  <2>2. p # <<>>
    <3>1. Len(p) # 0
      BY <2>1
    <3>2. Len(<<>>) = 0
      OBVIOUS
    <3> QED
      BY <3>1, <3>2, Zenon
  <2>3. p[1] = q[1] /\ p[2] = q[2]
    BY <1>1, <1>3, <1>8, <2>1, <2>2
  <2>4. \A i \in 1 .. Len(p) : i = 1 \/ i = 2
    BY <2>1
  <2> QED
    BY <1>4, <2>3, <2>4
<1> QED
  BY <1>2, <1>5, <1>6, <1>7, <1>8

SubPathsFirst(ms) ==
  \A k \in DOMAIN ms : \A j \in 1 .. k - 1 : ms[k].route.subPath # None => ms[j].route.subPath # None

\* The routes with a subPath are built first.
LEMMA MountedOrder ==
  ASSUME NEW s, s.routesConfig \in RoutesConfig, s.webSocket \in BOOLEAN, NEW o \in FeatureOption
  PROVE  SubPathsFirst(Mounted(o, s))
<1> DEFINE routes == setDefaultRoutes(s.routesConfig, o.routesConfig, o.routes)
<1>1. o.routesConfig \in PartialConfig /\ o.routes \in Seq(Route)
  BY DEF FeatureOption
<1>2. /\ routes \in Seq(Route)
      /\ \A k \in DOMAIN routes : \A j \in 1 .. k - 1 : routes[k].subPath # None => routes[j].subPath # None
  BY <1>1, SelectedRoutes DEF Selects
<1>3. /\ DOMAIN Mounted(o, s) = DOMAIN routes
      /\ \A i \in DOMAIN routes : Mounted(o, s)[i].route = routes[i]
  BY MountedRoutes
<1> HIDE DEF routes
<1>4. \A k \in DOMAIN routes : \A j \in 1 .. k - 1 : j \in DOMAIN routes
  BY <1>2
<1> QED
  BY <1>2, <1>3, <1>4 DEF SubPathsFirst

OrderInv == \A f \in Features : SubPathsFirst(modules[f])

\* What is built in a step is built from the options of a feature and from a state.
LEMMA NotifyOrder ==
  ASSUME OrderInv, NEW F \in SUBSET Features, NEW o, \A f \in F : o[f] \in FeatureOption,
         NEW s \in GlobalState, Notify(F, o, s)
  PROVE  OrderInv'
<1> DEFINE ms == [f \in F |-> Mounted(o[f], s)]
<1>1. s.routesConfig \in RoutesConfig /\ s.webSocket \in BOOLEAN
  BY DEF GlobalState
<1>2. \A f \in F : SubPathsFirst(ms[f])
  BY <1>1, MountedOrder
<1>3. \A f \in Features : modules'[f] = modules[f] \/ (f \in F /\ modules'[f] = ms[f])
  <2>1. modules' = [f \in Features |->
          IF f \in {g \in F : phase[g] \in {"idle", "waiting"}} /\ Outcome(ms[f]) = "resolved"
          THEN ms[f] ELSE modules[f]]
    BY DEF Notify
  <2> SUFFICES ASSUME NEW f \in Features
               PROVE  modules'[f] = modules[f] \/ (f \in F /\ modules'[f] = ms[f])
    OBVIOUS
  <2> HIDE DEF ms
  <2>2. CASE f \in F
    BY <2>1, <2>2
  <2>3. CASE f \notin F
    BY <2>1, <2>3
  <2> QED
    BY <2>2, <2>3
<1> HIDE DEF ms
<1> QED
  BY <1>2, <1>3 DEF OrderInv

LEMMA OrderNext == TypeInv /\ TypeInv' /\ OrderInv /\ [Next]_vars => OrderInv'
<1> SUFFICES ASSUME TypeInv, TypeInv', OrderInv, [Next]_vars PROVE OrderInv'
  OBVIOUS
<1>1. CASE UNCHANGED modules
  BY <1>1 DEF OrderInv
<1>2. /\ state \in GlobalState /\ state' \in GlobalState
      /\ subscribed \subseteq Features
      /\ \A f \in subscribed : options[f] \in FeatureOption
      /\ \A f \in subscribed' : options'[f] \in FeatureOption
  BY OptionsAssumption DEF TypeInv, TypeOK, GlobalState
<1>3. ASSUME NEW f \in Features, NEW o, ForFeature(f, o) PROVE OrderInv'
  <2>1. CASE initialized
    <3>1. Notify({f}, options', state) /\ f \in subscribed'
      BY <1>3, <2>1 DEF ForFeature
    <3>2. {f} \in SUBSET Features /\ \A g \in {f} : options'[g] \in FeatureOption
      BY <1>2, <3>1
    <3> QED
      BY <1>2, <3>1, <3>2, NotifyOrder
  <2>2. CASE ~initialized
    BY <1>1, <1>3, <2>2 DEF ForFeature
  <2> QED
    BY <2>1, <2>2
<1>4. ASSUME NEW o, ForRoot(o) PROVE OrderInv'
  <2>1. CASE RootThrows(o) \/ initialized
    BY <1>1, <1>4, <2>1 DEF ForRoot, bootVars
  <2>2. CASE ~RootThrows(o) /\ ~initialized
    <3>1. Notify(subscribed, options, state')
      BY <1>4, <2>2 DEF ForRoot
    <3> QED
      BY <1>2, <3>1, NotifyOrder
  <2> QED
    BY <2>1, <2>2
<1>5. ASSUME NEW f \in Features, TimerFires(f) PROVE OrderInv'
  BY <1>1, <1>5 DEF TimerFires
<1> QED
  BY <1>1, <1>3, <1>4, <1>5, OtherSteps DEF vars, bootVars

LEMMA OrderInvariant == Spec => []OrderInv
<1>1. Init => OrderInv
  BY DEF Init, OrderInv, SubPathsFirst
<1> QED
  BY <1>1, OrderNext, TypeInvariant, PTL DEF Spec

\* The order of the merged routes (dynamic-api.module.ts:326) hides a route only behind one of
\* the same path, or, where the other has a subPath, behind a parameter of that subPath or if
\* both have one.
THEOREM ShadowExplainedHolds == Spec => []ShadowExplained
<1>1. ASSUME TypeInv, OrderInv PROVE ShadowExplained
  <2> SUFFICES ASSUME NEW f \in Features, NEW j \in DOMAIN modules[f], NEW i \in 1 .. j - 1,
                      NEW r, r = modules[f][i].route, NEW b, b = modules[f][j].route,
                      Method(r.type) = Method(b.type), Covers(Path(r), Path(b)), Path(r) # Path(b)
               PROVE  r.subPath # None /\ (b.subPath # None \/ ":id" \in ToSet(r.subPath))
    BY DEF ShadowExplained
  <2>1. modules[f] \in Seq(Module)
    BY <1>1 DEF TypeInv, TypeOK
  <2>2. i \in DOMAIN modules[f]
    BY <2>1
  <2>3. r \in Route /\ b \in Route
    <3>1. modules[f][i] \in Module /\ modules[f][j] \in Module
      BY <2>1, <2>2
    <3> QED
      BY <3>1 DEF Module
  <2>4. b.subPath # None => r.subPath # None
    BY <1>1 DEF OrderInv, SubPathsFirst
  <2>5. CASE b.subPath = None
    <3>1. ":id" \in ToSet(Sub(r))
      BY <2>3, <2>5, HiddenBare
    <3>2. r.subPath # None
      BY <3>1 DEF Sub, OrElse, ToSet
    <3> QED
      BY <3>1, <3>2 DEF Sub, OrElse
  <2> QED
    BY <2>4, <2>5
<1> QED
  BY TypeInvariant, OrderInvariant, <1>1, PTL
=============================================================================
