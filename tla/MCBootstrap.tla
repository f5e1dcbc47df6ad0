---- MODULE MCBootstrap ----
(* The instance of Bootstrap the run checks. *)
EXTENDS Bootstrap, TLC

CONSTANTS f1, f2, c1, c2, db1, db2

R(t, sub, v, q, ws) == [type |-> t, subPath |-> sub, version |-> v, query |-> q, webSocket |-> ws]
Plain(t, sub) == R(t, sub, None, TRUE, "unset")
Config(d, e) == [defaults |-> d, excluded |-> e]
Feature(e, c, v, ws, rs) ==
  [entity |-> e, routesConfig |-> c, version |-> v, webSocket |-> ws, routes |-> rs]

\* One listed route of any type, with or without a subPath, or two of those that can hide each
\* other, under four configurations of the feature.
Listed == {Plain(t, sub) : t \in Types, sub \in {None, <<"a">>}} \cup {Plain("CreateOne", <<s>>) : s \in {"many", ":id"}}
Pairs == {Plain(t, sub) : t \in {"GetMany", "GetOne"}, sub \in {None, <<"a">>}} \cup {Plain("Aggregate", None)}
Lists == {<<>>} \cup {<<r>> : r \in Listed} \cup {<<r, q>> : r \in Pairs, q \in Pairs}
Configs == {Config(None, None), Config(None, <<"GetMany">>),
            Config(<<"GetOne", "CreateOne", "Aggregate">>, None), Config(<<>>, <<>>)}
Selections == {Feature("Item", c, None, "unset", l) : c \in Configs, l \in Lists}

ASSUME FilterIsSelectSeq ==
  \A s \in SeqOf({"GetOne", "GetMany", "Aggregate"}, 4), E \in SUBSET {"GetOne", "GetMany", "Aggregate"} :
    Filter(s, LAMBDA t : t \notin E) = SelectSeq(s, LAMBDA t : t \notin E)

\* Versions, sockets and a missing query.
Small ==
  LET none == Config(None, None)
  IN {Feature("Item", none, None, "unset", <<>>),
      Feature("Item", none, "1", "on", <<>>),
      Feature("User", none, "1", "unset", <<R("UpdateOne", None, "x", FALSE, "on")>>),
      Feature("User", none, None, "unset", <<R("Aggregate", <<"a">>, None, FALSE, "off")>>),
      Feature("User", none, "x", "unset", <<R("Aggregate", None, "1", FALSE, "off")>>)}

MCFeatureOptions == (f1 :> Selections) @@ (f2 :> Small)

Root(uri, auth, ws, c) == [uri |-> uri, auth |-> auth, webSocket |-> ws, routesConfig |-> c]
MCRootOptions ==
  {Root(db1, TRUE, TRUE, None),
   Root(db2, FALSE, FALSE, Config(None, <<"CreateOne", "DeleteMany">>)),
   Root(db1, FALSE, FALSE, Config(None, <<>>))}
====
