---------------------------- MODULE RouteConfig ----------------------------
(***************************************************************************)
(* From the options of forRoot and forFeature to the routes of a module:   *)
(* which of the listed and of the default routes are mounted, in which     *)
(* order, under which paths, with which gateways, and what their           *)
(* controllers and gateways inject.                                        *)
(*                                                                         *)
(* A subPath is the sequence of its segments, none if it is empty; ":id"   *)
(* is the segment of a parameter, whatever its name.  A version is one of  *)
(* a few values, and of a DTO bundle only the presence of its query        *)
(* matters.                                                                *)
(***************************************************************************)
EXTENDS Naturals, Sequences, FiniteSets, SequencesExt

CONSTANTS
  None,            \* an option that is not given
  Segments,        \* what subPaths are made of
  Versions,        \* the versions an option can name
  ValidVersions    \* those of digits only

ASSUME VersionsAssumption == ValidVersions \subseteq Versions /\ None \notin Versions

Types == {"CreateMany", "CreateOne", "DeleteMany", "DeleteOne", "DuplicateMany", "DuplicateOne",
          "GetMany", "GetOne", "ReplaceOne", "UpdateMany", "UpdateOne", "Aggregate"}

Route == [type : Types, subPath : (Seq(Segments) \ {<<>>}) \cup {None}, version : Versions \cup {None},
          query : BOOLEAN, webSocket : {"unset", "on", "off"}]

\* The route of a default type that is not listed.
Bare(t) == [type |-> t, subPath |-> None, version |-> None, query |-> FALSE, webSocket |-> "unset"]

OrElse(option, default) == IF option = None THEN default ELSE option

Sub(r) == OrElse(r.subPath, <<>>)

-----------------------------------------------------------------------------
(* Which routes are mounted. *)

\* The elements of s at the indices I, in their order.
Pick(s, I) == [k \in 1 .. Cardinality(I) |-> s[CHOOSE i \in I : Cardinality({j \in I : j <= i}) = k]]

\* What SelectSeq computes, by a definition that has no recursion in it.
Filter(s, Test(_)) == Pick(s, {i \in DOMAIN s : Test(s[i])})

\* The types each feature starts from, unless told otherwise.
DefaultTypes == <<"GetMany", "GetOne", "CreateMany", "CreateOne", "UpdateMany", "UpdateOne",
                  "ReplaceOne", "DuplicateMany", "DuplicateOne", "DeleteMany", "DeleteOne">>

\* Listed routes without a subPath whose type is a default stay in the place of the default.
Configured(listed, t) ==
  LET i == SelectInSeq(listed, LAMBDA r : r.type = t /\ r.subPath = None)
  IN IF i = 0 THEN Bare(t) ELSE listed[i]

\* Variant: the defaults come first.
setDefaultRoutes_DefaultsFirst(stateConfig, controllerConfig, listed) ==
  LET defaults == OrElse(controllerConfig.defaults, stateConfig.defaults)
      excluded == OrElse(controllerConfig.excluded, stateConfig.excluded)
      kept     == Filter(defaults, LAMBDA t : ~Contains(excluded, t))
  IN [i \in DOMAIN kept |-> Configured(listed, kept[i])]
     \o Filter(listed, LAMBDA r : r.subPath # None)
     \o Filter(listed, LAMBDA r : r.subPath = None /\ ~Contains(defaults, r.type))

\* Variant: what is excluded is no default either.
setDefaultRoutes_ExcludedListed(stateConfig, controllerConfig, listed) ==
  LET excluded == OrElse(controllerConfig.excluded, stateConfig.excluded)
      defaults == Filter(OrElse(controllerConfig.defaults, stateConfig.defaults),
                            LAMBDA t : ~Contains(excluded, t))
  IN Filter(listed, LAMBDA r : r.subPath # None)
     \o Filter(listed, LAMBDA r : r.subPath = None /\ ~Contains(defaults, r.type))
     \o [i \in DOMAIN defaults |-> Configured(listed, defaults[i])]

setDefaultRoutes(stateConfig, controllerConfig, listed) ==
  LET defaults == OrElse(controllerConfig.defaults, stateConfig.defaults)
      excluded == OrElse(controllerConfig.excluded, stateConfig.excluded)
      kept     == Filter(defaults, LAMBDA t : ~Contains(excluded, t))
  IN Filter(listed, LAMBDA r : r.subPath # None)
     \o Filter(listed, LAMBDA r : r.subPath = None /\ ~Contains(defaults, r.type))
     \o [i \in DOMAIN kept |-> Configured(listed, kept[i])]

-----------------------------------------------------------------------------
(* Under which paths. *)

Method(t) ==
  IF t \in {"GetMany", "GetOne", "Aggregate"} THEN "GET"
  ELSE IF t \in {"CreateMany", "CreateOne", "DuplicateMany", "DuplicateOne"} THEN "POST"
  ELSE IF t \in {"UpdateMany", "UpdateOne"} THEN "PATCH"
  ELSE IF t = "ReplaceOne" THEN "PUT"
  ELSE "DELETE"

Path(r) ==
  IF r.type = "GetOne" THEN Sub(r) \o <<":id">>
  ELSE IF r.type \in {"UpdateOne", "ReplaceOne", "DeleteOne"} THEN <<":id">> \o Sub(r)
  ELSE IF r.type = "CreateMany" THEN <<"many">> \o Sub(r)
  ELSE IF r.type = "DuplicateMany" THEN <<"duplicate">> \o Sub(r)
  ELSE IF r.type = "DuplicateOne" THEN <<"duplicate", ":id">> \o Sub(r)
  ELSE Sub(r)

\* Whether requests for path q are requests for path p as well.
Covers(p, q) == Len(p) = Len(q) /\ \A i \in DOMAIN p : p[i] \in {":id", q[i]}

-----------------------------------------------------------------------------
(* What a mounted route is made of. *)

\* provideName: the token of a route's service.
Service(t, r, version) == <<"Service", t, Sub(r), version>>

\* Variant: the modules of two types are swapped.
moduleByRouteType_Swapped ==
  [t \in Types |-> CASE t = "UpdateOne" -> "UpdateMany" [] t = "UpdateMany" -> "UpdateOne" [] OTHER -> t]

\* The module of a type: its helper provides and injects the service of type t by name.
moduleByRouteType == [t \in Types |-> t]

\* A route of a feature, mounted: its version, and whether it has a gateway besides.
Mount(r, feature, state) ==
  LET webSocket == IF r.webSocket # "unset" THEN r.webSocket ELSE feature.webSocket
  IN [route   |-> r,
      version |-> OrElse(r.version, feature.version),
      gateway |-> webSocket = "on" \/ state.webSocket]

\* The service is provided, and injected by the controller, under the name of the module's type;
\* the gateway asks for it under the type of the route.
Provides(m) == {Service(moduleByRouteType[m.route.type], m.route, m.version)}

Injects(m) ==
  {Service(moduleByRouteType[m.route.type], m.route, m.version)}
  \cup IF m.gateway THEN {Service(m.route.type, m.route, m.version), <<"JwtService">>} ELSE {}

\* What the module of a route refuses while it is being built: a version that is no number
\* (forFeature rejects), an Aggregate without a query (its mixin throws).
BadVersion(m) == m.version \notin ValidVersions \cup {None}
Throws(m) == m.route.type = "Aggregate" /\ ~m.route.query /\ ~BadVersion(m)

=============================================================================
