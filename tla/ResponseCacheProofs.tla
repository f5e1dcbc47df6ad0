------------------------- MODULE ResponseCacheProofs -------------------------
(***************************************************************************)
(* Proofs about ResponseCache, for any number of requests, URLs, features   *)
(* and writes: types, freshness of uncached routes, causes of stale reads.  *)
(***************************************************************************)
EXTENDS ResponseCache, TLAPS

\* A request that has a response the cache may still be given.
InFlight(s) == pc[s] = "reply" \/ fills[s] > 0

\* The requests that arrived while no clear was in flight.
Calm(r) == pc[r] # "idle" /\ ~clearing[r]

NoClears == \A s \in Requests : ~(clears[s] > 0)

\* No response, and no write known to a client, is ahead of the database.
Behind ==
  /\ \A w \in Ways : settled[w] <= db
  /\ \A r \in Requests : got[r] <= db /\ \A w \in Ways : least[r][w] <= db
  /\ \A u \in Urls : cache[u] # None => cache[u] <= db

\* With no clear in flight, what the cache holds or may be given is as new as what the last
\* success answered over HTTP has settled, races excepted ...
Settled ==
  NoClears =>
    /\ \A u \in Urls : cache[u] # None /\ ~tainted[u] => settled["http"] <= cache[u]
    /\ \A s \in Requests : InFlight(s) /\ ~raced[s] => settled["http"] <= got[s]

\* ... and so it stays for what was settled before a request that came at such a time.
Fresh(r) ==
  Calm(r) =>
    /\ \A u \in Urls : cache[u] # None /\ ~tainted[u] => least[r]["http"] <= cache[u]
    /\ \A s \in Requests : InFlight(s) /\ ~raced[s] => least[r]["http"] <= got[s]

\* The response of a GET.
Response(r) ==
  kind[r] = "get" /\ pc[r] \in {"reply", "done"} =>
    least[r]["http"] <= got[r] \/ clearing[r] \/ raced[r]

\* A GET to a route that is not cached goes to its handler.
Uncached(r) ==
  kind[r] = "get" /\ url[r] \in NotCached =>
    /\ pc[r] # "lookup"
    /\ pc[r] \in {"reply", "done"} => \A w \in Ways : least[r][w] <= got[r]

\* A layer is entered from the first on, and only by a GET of some URL; the rest sets and
\* asks for nothing before it arrives.
Shape(r) ==
  /\ layer[r] > 0
  /\ pc[r] \in {"lookup", "reply"} => kind[r] = "get"
  /\ kind[r] = "get" => url[r] \in Urls
  /\ fills[r] > 0 => kind[r] = "get" /\ pc[r] = "done"
  /\ pc[r] = "idle" => kind[r] = None
  /\ clears[r] > 0 => pc[r] = "done"

\* What holds beside the types; only TypeOK /\ Rest is inductive.
Rest ==
  /\ Behind /\ Settled
  /\ \A r \in Requests : Fresh(r) /\ Response(r) /\ Uncached(r) /\ Shape(r)

USE DEF Kinds, Ways

\* The types hold initially.
LEMMA TypeInit == Init => TypeOK
  BY BoundsAssumption DEF Init, TypeOK, Empty

\* Every step keeps the type of every variable.
LEMMA TypeStep ==
  ASSUME TypeOK, \A r \in Requests : Shape(r), [Next]_vars PROVE TypeOK'
<1> USE BoundsAssumption DEF TypeOK
<1>1. ASSUME NEW r \in Requests, Arrive(r) PROVE TypeOK'
  BY <1>1 DEF Arrive, IsRequestCacheable
<1>2. ASSUME NEW r \in Requests, Lookup(r) PROVE TypeOK'
  <2>1. url[r] \in Urls /\ layer[r] > 0
    BY <1>2 DEF Lookup, Shape
  <2>2. CASE cache[url[r]] # None
    <3>1. cache[url[r]] \in Nat /\ Outer(r) \in Nat /\ tainted[url[r]] \in BOOLEAN
      BY <2>1, <2>2 DEF Outer
    <3>2. /\ got' = [got EXCEPT ![r] = cache[url[r]]]
          /\ raced' = [raced EXCEPT ![r] = @ \/ tainted[url[r]]]
          /\ fills' = [fills EXCEPT ![r] = Outer(r)]
          /\ pc' = [pc EXCEPT ![r] = "done"]
          /\ UNCHANGED <<db, cache, kind, url, layer, writes, clears, settled, least, clearing, tainted>>
      BY <1>2, <2>2 DEF Lookup
    <3> HIDE DEF Outer
    <3> QED BY <3>1, <3>2
  <2>3. CASE cache[url[r]] = None
    <3>1. /\ layer' = [layer EXCEPT ![r] = @ + 1]
          /\ pc' = [pc EXCEPT ![r] = IF layer[r] = Layers THEN "handle" ELSE "lookup"]
          /\ UNCHANGED <<db, cache, kind, url, got, raced, fills, writes, clears, settled, least,
                         clearing, tainted>>
      BY <1>2, <2>3 DEF Lookup
    <3> QED BY <3>1
  <2> QED BY <2>2, <2>3
<1>3. ASSUME NEW r \in Requests, Read(r) PROVE TypeOK'
  BY <1>3 DEF Read, histVars
<1>4. ASSUME NEW r \in Requests, Reply(r) PROVE TypeOK'
  <2>1. Outer(r) \in Nat
    BY DEF Shape, Outer
  <2> QED BY <1>4, <2>1 DEF Reply, histVars
<1>5. ASSUME NEW r \in Requests, Commit(r) PROVE TypeOK'
  <2>1. settled' \in [Ways -> Nat]
    BY <1>5 DEF Commit
  <2> QED BY <1>5, <2>1 DEF Commit
<1>6. ASSUME NEW r \in Requests, HandlePurge(r) PROVE TypeOK'
  BY <1>6 DEF HandlePurge, Cleared, Empty
<1>7. ASSUME NEW r \in Requests, Succeed(r) PROVE TypeOK'
  <2>1. Clears(r) \in Nat /\ settled' \in [Ways -> Nat]
    BY <1>7 DEF Succeed, Clears, Bigger
  <2>2. /\ pc' = [pc EXCEPT ![r] = "done"]
        /\ clears' = [clears EXCEPT ![r] = Clears(r)]
        /\ UNCHANGED <<db, cache, kind, url, layer, got, writes, fills, least, clearing, raced, tainted>>
    BY <1>7 DEF Succeed
  <2> HIDE DEF Clears
  <2> QED BY <2>1, <2>2
<1>8. ASSUME NEW r \in Requests, Fail(r) PROVE TypeOK'
  <2>1. settled' \in [Ways -> Nat]
    BY <1>8 DEF Fail, Bigger
  <2> QED BY <1>8, <2>1 DEF Fail
<1>9. ASSUME NEW r \in Requests, FillLands(r) PROVE TypeOK'
  BY <1>9 DEF FillLands, Shape
<1>10. ASSUME NEW r \in Requests, ClearLands(r) PROVE TypeOK'
  BY <1>10 DEF ClearLands, Cleared, Empty
<1>11. ASSUME NEW u \in Urls, Expire(u) PROVE TypeOK'
  BY <1>11 DEF Expire, histVars
<1>12. CASE UNCHANGED vars
  BY <1>12 DEF vars, histVars
<1> QED
  BY <1>1, <1>2, <1>3, <1>4, <1>5, <1>6, <1>7, <1>8, <1>9, <1>10, <1>11, <1>12
     DEF Next, Serve, Quiescent


\* The invariant holds initially.
LEMMA RestInit == Init => Rest
  BY BoundsAssumption, NoneAssumption
     DEF Init, Rest, Behind, Settled, Fresh, Calm, Response, Uncached, Shape, InFlight, Empty

\* Every step keeps the invariant: one step per action, one per part of the invariant.
LEMMA RestStep ==
  ASSUME TypeOK, TypeOK', Rest, [Next]_vars PROVE Rest'
<1> USE BoundsAssumption, UrlsAssumption DEF TypeOK, Rest
<1>1. ASSUME NEW r \in Requests, Arrive(r) PROVE Rest'
  <2>1. Behind'
    BY <1>1 DEF Arrive, IsRequestCacheable, Behind
  <2>2. Settled'
    BY <1>1 DEF Arrive, IsRequestCacheable, Behind, Settled, NoClears, InFlight, Shape
  <2>3. ASSUME NEW s \in Requests PROVE Shape(s)'
    BY <1>1 DEF Arrive, IsRequestCacheable, Shape
  <2>4. ASSUME NEW s \in Requests PROVE Fresh(s)'
    BY <1>1 DEF Arrive, IsRequestCacheable, Behind, Settled, NoClears, InFlight, Shape, Fresh, Calm
  <2>5. ASSUME NEW s \in Requests PROVE Response(s)'
    BY <1>1 DEF Arrive, IsRequestCacheable, Behind, Shape, Fresh, Calm, Response
  <2>6. ASSUME NEW s \in Requests PROVE Uncached(s)'
    BY <1>1 DEF Arrive, IsRequestCacheable, Behind, Shape, Uncached, IsRequestCacheable
  <2> QED BY <2>1, <2>2, <2>3, <2>4, <2>5, <2>6
<1>2. ASSUME NEW r \in Requests, Lookup(r) PROVE Rest'
  <2>1. Behind'
    BY <1>2 DEF Lookup, Outer, Behind, Shape
  <2>2. Settled'
    <3>1. url[r] \in Urls /\ pc[r] = "lookup"
      BY <1>2 DEF Lookup, Shape
    <3>2. UNCHANGED <<cache, tainted, clears, settled>>
      BY <1>2 DEF Lookup
    <3>3. NoClears' <=> NoClears
      BY <3>2 DEF NoClears
    <3>4. ASSUME NoClears, NEW s \in Requests, InFlight(s)', ~raced'[s] PROVE settled["http"] <= got'[s]
      <4>1. CASE s = r
        BY <1>2, <3>1, <3>4, <4>1 DEF Lookup, InFlight, Settled, Shape
      <4>2. CASE s # r
        BY <1>2, <3>4, <4>2 DEF Lookup, InFlight, Settled
      <4> QED BY <4>1, <4>2
    <3> QED BY <3>2, <3>3, <3>4 DEF Settled
  <2>3. ASSUME NEW s \in Requests PROVE Shape(s)'
    BY <1>2 DEF Lookup, Outer, Shape
  <2>4. ASSUME NEW s \in Requests PROVE Fresh(s)'
    <3>1. url[r] \in Urls /\ pc[r] = "lookup" /\ ~InFlight(r)
      BY <1>2 DEF Lookup, Shape, InFlight
    <3>2. UNCHANGED <<cache, tainted, least, clearing>> /\ (Calm(s)' => Calm(s))
      BY <1>2 DEF Lookup, Calm
    <3>3. ASSUME Calm(s), NEW x \in Requests, InFlight(x)', ~raced'[x]
          PROVE  least[s]["http"] <= got'[x]
      <4>1. CASE x = r
        BY <1>2, <3>1, <3>3, <4>1 DEF Lookup, InFlight, Fresh
      <4>2. CASE x # r
        BY <1>2, <3>3, <4>2 DEF Lookup, InFlight, Fresh
      <4> QED BY <4>1, <4>2
    <3> QED BY <3>2, <3>3 DEF Fresh
  <2>5. ASSUME NEW s \in Requests PROVE Response(s)'
    BY <1>2 DEF Lookup, Outer, Behind, Shape, Fresh, Calm, Response
  <2>6. ASSUME NEW s \in Requests PROVE Uncached(s)'
    BY <1>2 DEF Lookup, Outer, Behind, Shape, Uncached, IsRequestCacheable
  <2> QED BY <2>1, <2>2, <2>3, <2>4, <2>5, <2>6
<1>3. ASSUME NEW r \in Requests, Read(r) PROVE Rest'
  <2>1. Behind'
    BY <1>3 DEF Read, histVars, Behind
  <2>2. Settled'
    BY <1>3 DEF Read, histVars, Behind, Settled, NoClears, InFlight, Shape
  <2>3. ASSUME NEW s \in Requests PROVE Shape(s)'
    BY <1>3 DEF Read, histVars, Shape
  <2>4. ASSUME NEW s \in Requests PROVE Fresh(s)'
    BY <1>3 DEF Read, histVars, Behind, Settled, NoClears, InFlight, Shape, Fresh, Calm
  <2>5. ASSUME NEW s \in Requests PROVE Response(s)'
    BY <1>3 DEF Read, histVars, Behind, Shape, Fresh, Calm, Response
  <2>6. ASSUME NEW s \in Requests PROVE Uncached(s)'
    BY <1>3 DEF Read, histVars, Behind, Shape, Uncached, IsRequestCacheable
  <2> QED BY <2>1, <2>2, <2>3, <2>4, <2>5, <2>6
<1>4. ASSUME NEW r \in Requests, Reply(r) PROVE Rest'
  <2>1. Behind'
    BY <1>4 DEF Reply, Outer, histVars, Behind
  <2>2. Settled'
    BY <1>4 DEF Reply, Outer, histVars, Behind, Settled, NoClears, InFlight, Shape
  <2>3. ASSUME NEW s \in Requests PROVE Shape(s)'
    BY <1>4 DEF Reply, Outer, histVars, Shape
  <2>4. ASSUME NEW s \in Requests PROVE Fresh(s)'
    BY <1>4 DEF Reply, Outer, histVars, Behind, Settled, NoClears, InFlight, Shape, Fresh, Calm
  <2>5. ASSUME NEW s \in Requests PROVE Response(s)'
    BY <1>4 DEF Reply, Outer, histVars, Behind, Shape, Fresh, Calm, Response
  <2>6. ASSUME NEW s \in Requests PROVE Uncached(s)'
    BY <1>4 DEF Reply, Outer, histVars, Behind, Shape, Uncached, IsRequestCacheable
  <2> QED BY <2>1, <2>2, <2>3, <2>4, <2>5, <2>6
<1>5. ASSUME NEW r \in Requests, Commit(r) PROVE Rest'
  <2>1. Behind'
    BY <1>5 DEF Commit, Behind
  <2>2. Settled'
    BY <1>5 DEF Commit, Behind, Settled, NoClears, InFlight, Shape
  <2>3. ASSUME NEW s \in Requests PROVE Shape(s)'
    BY <1>5 DEF Commit, Shape
  <2>4. ASSUME NEW s \in Requests PROVE Fresh(s)'
    BY <1>5 DEF Commit, Behind, Settled, NoClears, InFlight, Shape, Fresh, Calm
  <2>5. ASSUME NEW s \in Requests PROVE Response(s)'
    BY <1>5 DEF Commit, Behind, Shape, Fresh, Calm, Response
  <2>6. ASSUME NEW s \in Requests PROVE Uncached(s)'
    BY <1>5 DEF Commit, Behind, Shape, Uncached, IsRequestCacheable
  <2> QED BY <2>1, <2>2, <2>3, <2>4, <2>5, <2>6
<1>6. ASSUME NEW r \in Requests, HandlePurge(r) PROVE Rest'
  <2>1. Behind'
    BY <1>6 DEF HandlePurge, Cleared, Empty, Behind
  <2>2. Settled'
    BY <1>6 DEF HandlePurge, Cleared, Empty, Behind, Settled, NoClears, InFlight, Shape
  <2>3. ASSUME NEW s \in Requests PROVE Shape(s)'
    BY <1>6 DEF HandlePurge, Cleared, Empty, Shape
  <2>4. ASSUME NEW s \in Requests PROVE Fresh(s)'
    BY <1>6 DEF HandlePurge, Cleared, Empty, Behind, Settled, NoClears, InFlight, Shape, Fresh, Calm
  <2>5. ASSUME NEW s \in Requests PROVE Response(s)'
    BY <1>6 DEF HandlePurge, Cleared, Empty, Behind, Shape, Fresh, Calm, Response
  <2>6. ASSUME NEW s \in Requests PROVE Uncached(s)'
    BY <1>6 DEF HandlePurge, Cleared, Empty, Behind, Shape, Uncached, IsRequestCacheable
  <2> QED BY <2>1, <2>2, <2>3, <2>4, <2>5, <2>6
<1>7. ASSUME NEW r \in Requests, Succeed(r) PROVE Rest'
  <2>1. Behind'
    BY <1>7 DEF Succeed, Clears, Bigger, Behind
  <2>2. Settled'
    <3>1. UNCHANGED <<cache, tainted, got, raced>> /\ \A s \in Requests : InFlight(s)' => InFlight(s)
      BY <1>7 DEF Succeed, InFlight
    <3>2. CASE kind[r] = "event"
      <4>1. clears'[r] = 0 /\ settled'["http"] = settled["http"]
        BY <1>7, <3>2 DEF Succeed, Clears
      <4>2. ~(clears[r] > 0)
        BY <1>7 DEF Succeed, Shape
      <4> QED
        BY <1>7, <3>1, <4>1, <4>2 DEF Succeed, Settled, NoClears
    <3>3. CASE kind[r] # "event"
      BY <1>7, <3>3 DEF Succeed, Clears, Settled, NoClears
    <3> QED BY <3>2, <3>3
  <2>3. ASSUME NEW s \in Requests PROVE Shape(s)'
    BY <1>7 DEF Succeed, Clears, Bigger, Shape
  <2>4. ASSUME NEW s \in Requests PROVE Fresh(s)'
    BY <1>7 DEF Succeed, Clears, Bigger, Behind, Settled, NoClears, InFlight, Shape, Fresh, Calm
  <2>5. ASSUME NEW s \in Requests PROVE Response(s)'
    BY <1>7 DEF Succeed, Clears, Bigger, Behind, Shape, Fresh, Calm, Response
  <2>6. ASSUME NEW s \in Requests PROVE Uncached(s)'
    BY <1>7 DEF Succeed, Clears, Bigger, Behind, Shape, Uncached, IsRequestCacheable
  <2> QED BY <2>1, <2>2, <2>3, <2>4, <2>5, <2>6
<1>8. ASSUME NEW r \in Requests, Fail(r) PROVE Rest'
  <2>1. Behind'
    BY <1>8 DEF Fail, Bigger, Behind
  <2>2. Settled'
    BY <1>8 DEF Fail, Bigger, Behind, Settled, NoClears, InFlight, Shape
  <2>3. ASSUME NEW s \in Requests PROVE Shape(s)'
    BY <1>8 DEF Fail, Bigger, Shape
  <2>4. ASSUME NEW s \in Requests PROVE Fresh(s)'
    BY <1>8 DEF Fail, Bigger, Behind, Settled, NoClears, InFlight, Shape, Fresh, Calm
  <2>5. ASSUME NEW s \in Requests PROVE Response(s)'
    BY <1>8 DEF Fail, Bigger, Behind, Shape, Fresh, Calm, Response
  <2>6. ASSUME NEW s \in Requests PROVE Uncached(s)'
    BY <1>8 DEF Fail, Bigger, Behind, Shape, Uncached, IsRequestCacheable
  <2> QED BY <2>1, <2>2, <2>3, <2>4, <2>5, <2>6
<1>9. ASSUME NEW r \in Requests, FillLands(r) PROVE Rest'
  <2>1. Behind'
    BY <1>9 DEF FillLands, Behind, Shape
  <2>2. Settled'
    BY <1>9 DEF FillLands, Behind, Settled, NoClears, InFlight, Shape
  <2>3. ASSUME NEW s \in Requests PROVE Shape(s)'
    BY <1>9 DEF FillLands, Shape
  <2>4. ASSUME NEW s \in Requests PROVE Fresh(s)'
    BY <1>9 DEF FillLands, Behind, Settled, NoClears, InFlight, Shape, Fresh, Calm
  <2>5. ASSUME NEW s \in Requests PROVE Response(s)'
    BY <1>9 DEF FillLands, Behind, Shape, Fresh, Calm, Response
  <2>6. ASSUME NEW s \in Requests PROVE Uncached(s)'
    BY <1>9 DEF FillLands, Behind, Shape, Uncached, IsRequestCacheable
  <2> QED BY <2>1, <2>2, <2>3, <2>4, <2>5, <2>6
<1>10. ASSUME NEW r \in Requests, ClearLands(r) PROVE Rest'
  <2>1. Behind'
    BY <1>10 DEF ClearLands, Cleared, Empty, Behind
  <2>2. Settled'
    BY <1>10 DEF ClearLands, Cleared, Empty, Behind, Settled, NoClears, InFlight, Shape
  <2>3. ASSUME NEW s \in Requests PROVE Shape(s)'
    BY <1>10 DEF ClearLands, Cleared, Empty, Shape
  <2>4. ASSUME NEW s \in Requests PROVE Fresh(s)'
    BY <1>10 DEF ClearLands, Cleared, Empty, Behind, Settled, NoClears, InFlight, Shape, Fresh, Calm
  <2>5. ASSUME NEW s \in Requests PROVE Response(s)'
    BY <1>10 DEF ClearLands, Cleared, Empty, Behind, Shape, Fresh, Calm, Response
  <2>6. ASSUME NEW s \in Requests PROVE Uncached(s)'
    BY <1>10 DEF ClearLands, Cleared, Empty, Behind, Shape, Uncached, IsRequestCacheable
  <2> QED BY <2>1, <2>2, <2>3, <2>4, <2>5, <2>6
<1>11. ASSUME NEW u \in Urls, Expire(u) PROVE Rest'
  <2>1. Behind'
    BY <1>11 DEF Expire, histVars, Behind
  <2>2. Settled'
    BY <1>11 DEF Expire, histVars, Behind, Settled, NoClears, InFlight, Shape
  <2>3. ASSUME NEW s \in Requests PROVE Shape(s)'
    BY <1>11 DEF Expire, histVars, Shape
  <2>4. ASSUME NEW s \in Requests PROVE Fresh(s)'
    BY <1>11 DEF Expire, histVars, Behind, Settled, NoClears, InFlight, Shape, Fresh, Calm
  <2>5. ASSUME NEW s \in Requests PROVE Response(s)'
    BY <1>11 DEF Expire, histVars, Behind, Shape, Fresh, Calm, Response
  <2>6. ASSUME NEW s \in Requests PROVE Uncached(s)'
    BY <1>11 DEF Expire, histVars, Behind, Shape, Uncached, IsRequestCacheable
  <2> QED BY <2>1, <2>2, <2>3, <2>4, <2>5, <2>6
<1>12. CASE UNCHANGED vars
  BY <1>12 DEF vars, histVars, Behind, Settled, NoClears, InFlight, Fresh, Calm, Response,
     Uncached, Shape
<1> QED
  BY <1>1, <1>2, <1>3, <1>4, <1>5, <1>6, <1>7, <1>8, <1>9, <1>10, <1>11, <1>12 DEF Next, Serve, Quiescent

\* TypeOK /\ Rest holds of every state of every execution.
LEMMA Invariance == Spec => [](TypeOK /\ Rest)
<1>1. Init => TypeOK /\ Rest
  BY TypeInit, RestInit
<1>2. TypeOK /\ Rest /\ [Next]_vars => (TypeOK /\ Rest)'
  <2>1. SUFFICES ASSUME TypeOK, Rest, [Next]_vars PROVE TypeOK' /\ Rest'
    OBVIOUS
  <2>2. TypeOK'
    BY <2>1, TypeStep DEF Rest
  <2> QED BY <2>1, <2>2, RestStep
<1> QED BY <1>1, <1>2, PTL DEF Spec

\* The variables of the interceptors and the cache keep their types.
THEOREM TypeCorrect == Spec => []TypeOK
  BY Invariance, PTL

\* A GET to a route with disableCache shows every write answered before it, for any
\* number of interceptors, URLs and requests.
THEOREM UncachedFreshHolds == Spec => []UncachedFresh
<1>1. TypeOK /\ Rest => UncachedFresh
  BY DEF TypeOK, Rest, Uncached, UncachedFresh, Answered
<1> QED BY <1>1, Invariance, PTL

\* The interceptor answers a stale response only while a clear is in flight or after a
\* GET that had read before the clear set it, for any nesting of interceptors.
THEOREM StaleReadExplainedHolds == Spec => []StaleReadExplained
<1>1. TypeOK /\ Rest => StaleReadExplained
  BY DEF TypeOK, Rest, Response, StaleReadExplained, Answered
<1> QED BY <1>1, Invariance, PTL

=============================================================================
