---------------------------- MODULE ResponseCache ----------------------------
(***************************************************************************)
(* The HTTP response cache (interceptors/dynamic-api-cache.interceptor.ts). *)
(* Every feature registers one interceptor for the whole application        *)
(* (dynamic-api.module.ts:219-230), all over one cache: a request goes in   *)
(* through all of them and its response comes back out through all of them. *)
(* The cache may be remote: a set or a clear is sent, and lands later.      *)
(***************************************************************************)
EXTENDS Naturals

CONSTANTS
  Requests,     \* the requests of a run, each served once
  Urls,         \* the URLs of GET routes; the URL is the cache key
  NotCached,    \* the URLs of routes with disableCache, of excluded and of auth paths
  Layers,       \* the features, hence the interceptors
  MaxCommits,   \* bound: the writes one request makes
  None

\* An event is a write that comes through a WebSocket gateway: no interceptor sees it.
Kinds == {"get", "write", "event", "purge"}

\* How a client is told of a write.
Ways == {"http", "socket", "failed"}

ASSUME NoneAssumption == None \notin Kinds
ASSUME UrlsAssumption == NotCached \subseteq Urls /\ None \notin Urls
ASSUME BoundsAssumption == Layers \in Nat \ {0} /\ MaxCommits \in Nat \ {0}

VARIABLES
  db,      \* the number of writes committed: what a GET that reaches its handler returns
  cache,   \* cache[u]: the response cached for u
  pc,      \* pc[r]: idle, lookup, handle, reply, done or failed
  kind,    \* kind[r]
  url,     \* url[r]: the URL of a GET
  layer,   \* layer[r]: the interceptor a GET is in
  got,     \* got[r]: the response of a GET; the last write of another request
  writes,  \* writes[r]: the writes request r has made
  fills,   \* fills[r]: cacheManager.set calls of r in flight
  clears   \* clears[r]: cacheManager.clear calls of r in flight

\* History, read by the properties only.
VARIABLES
  settled,  \* settled["http"]: what was committed when a success was last answered over
            \* HTTP; ["socket"]: the last write a gateway has answered with a success;
            \* ["failed"]: the last write of a request that is answered with an error
  least,    \* least[r]: settled, when r arrived
  clearing, \* clearing[r]: a clear was in flight when r arrived
  raced,    \* raced[r]: a clear landed after r had its response and before it was set,
            \* or that response is tainted
  tainted   \* tainted[u]: the response cached for u was set by a raced request

histVars == <<settled, least, clearing, raced, tainted>>
vars == <<db, cache, pc, kind, url, layer, got, writes, fills, clears, histVars>>

Bigger(a, b) == IF a < b THEN b ELSE a

\* Variant: disableCache and the excluded paths are forgotten.
IsRequestCacheable_Always(r) == kind[r] = "get"

IsRequestCacheable(r) == kind[r] = "get" /\ url[r] \notin NotCached

-----------------------------------------------------------------------------
Arrive(r) ==
  /\ pc[r] = "idle"
  /\ \E k \in Kinds, u \in Urls \cup {None} :
       /\ k = "get" <=> u # None
       /\ kind' = [kind EXCEPT ![r] = k]
       /\ url' = [url EXCEPT ![r] = u]
  /\ pc' = [pc EXCEPT ![r] = IF IsRequestCacheable(r)' THEN "lookup" ELSE "handle"]
  /\ least' = [least EXCEPT ![r] = settled]
  /\ clearing' = [clearing EXCEPT ![r] = \E s \in Requests : clears[s] > 0]
  /\ UNCHANGED <<db, cache, layer, got, writes, fills, clears, settled, raced, tainted>>

\* Variant: the interceptor that finds the response counts itself out twice.
Outer_OffByOne(r) == layer[r] - 2

\* A response found in this layer, or computed behind the last one, is set again by
\* every layer it comes back through.
Outer(r) == layer[r] - 1

\* CacheInterceptor.intercept: a response found is the answer, else the next layer.
Lookup(r) ==
  /\ pc[r] = "lookup"
  /\ \/ /\ cache[url[r]] # None
        /\ got' = [got EXCEPT ![r] = cache[url[r]]]
        /\ raced' = [raced EXCEPT ![r] = @ \/ tainted[url[r]]]
        /\ fills' = [fills EXCEPT ![r] = Outer(r)]
        /\ pc' = [pc EXCEPT ![r] = "done"]
        /\ UNCHANGED layer
     \/ /\ cache[url[r]] = None
        /\ layer' = [layer EXCEPT ![r] = @ + 1]
        /\ pc' = [pc EXCEPT ![r] = IF layer[r] = Layers THEN "handle" ELSE "lookup"]
        /\ UNCHANGED <<got, raced, fills>>
  /\ UNCHANGED <<db, cache, kind, url, writes, clears, settled, least, clearing, tainted>>

\* The handler of a GET reads the database ...
Read(r) ==
  /\ pc[r] = "handle" /\ kind[r] = "get"
  /\ got' = [got EXCEPT ![r] = db]
  /\ pc' = [pc EXCEPT ![r] = "reply"]
  /\ UNCHANGED <<db, cache, kind, url, layer, writes, fills, clears, histVars>>

\* ... and some awaits later its response is sent, while the layers set it.
Reply(r) ==
  /\ pc[r] = "reply"
  /\ fills' = [fills EXCEPT ![r] = IF IsRequestCacheable(r) THEN Outer(r) ELSE 0]
  /\ pc' = [pc EXCEPT ![r] = "done"]
  /\ UNCHANGED <<db, cache, kind, url, layer, got, writes, clears, histVars>>

\* A write of a service.  Parallel writes go on after an error has been answered.
Commit(r) ==
  /\ pc[r] \in {"handle", "failed"} /\ kind[r] \in {"write", "event"}
  /\ writes[r] < MaxCommits
  /\ db' = db + 1
  /\ got' = [got EXCEPT ![r] = db + 1]
  /\ writes' = [writes EXCEPT ![r] = @ + 1]
  /\ settled' = [settled EXCEPT !["failed"] = IF pc[r] = "failed" THEN db + 1 ELSE @]
  /\ UNCHANGED <<cache, pc, kind, url, layer, fills, clears, least, clearing, raced, tainted>>

Empty == [u \in Urls |-> None]

Cleared ==
  /\ cache' = Empty
  /\ tainted' = [u \in Urls |-> FALSE]
  /\ raced' = [s \in Requests |-> raced[s] \/ pc[s] = "reply" \/ fills[s] > 0]

\* The handler of DELETE /<path>/cache waits for its clear.
HandlePurge(r) ==
  /\ pc[r] = "handle" /\ kind[r] = "purge" /\ writes[r] = 0
  /\ writes' = [writes EXCEPT ![r] = 1]
  /\ got' = [got EXCEPT ![r] = db]
  /\ Cleared
  /\ UNCHANGED <<db, pc, kind, url, layer, fills, clears, settled, least, clearing>>

\* Variant: only the purge route clears.
Clears_OnPurge(r) == IF kind[r] = "write" THEN 0 ELSE Layers

\* tap() runs in every layer when the response of a method other than GET is emitted.
Clears(r) == IF kind[r] = "event" THEN 0 ELSE Layers

\* A success is answered, and the clears sent.
Succeed(r) ==
  /\ pc[r] = "handle" /\ kind[r] # "get"
  /\ kind[r] = "purge" => writes[r] = 1
  /\ pc' = [pc EXCEPT ![r] = "done"]
  /\ clears' = [clears EXCEPT ![r] = Clears(r)]
  /\ settled' = IF kind[r] = "event" THEN [settled EXCEPT !["socket"] = Bigger(@, got[r])]
                ELSE [settled EXCEPT !["http"] = db]
  /\ UNCHANGED <<db, cache, kind, url, layer, got, writes, fills, least, clearing, raced, tainted>>

\* An error passes every layer: nothing is set, nothing is cleared.
Fail(r) ==
  /\ pc[r] \in {"handle", "reply"}
  /\ pc' = [pc EXCEPT ![r] = "failed"]
  /\ settled' = IF kind[r] \in {"write", "event"}
                THEN [settled EXCEPT !["failed"] = Bigger(@, got[r])] ELSE settled
  /\ UNCHANGED <<db, cache, kind, url, layer, got, writes, fills, clears,
                 least, clearing, raced, tainted>>

\* cacheManager.set lands.
FillLands(r) ==
  /\ fills[r] > 0
  /\ fills' = [fills EXCEPT ![r] = @ - 1]
  /\ cache' = [cache EXCEPT ![url[r]] = got[r]]
  /\ tainted' = [tainted EXCEPT ![url[r]] = raced[r]]
  /\ UNCHANGED <<db, pc, kind, url, layer, got, writes, clears, settled, least, clearing, raced>>

\* cacheManager.clear lands.
ClearLands(r) ==
  /\ clears[r] > 0
  /\ clears' = [clears EXCEPT ![r] = @ - 1]
  /\ Cleared
  /\ UNCHANGED <<db, pc, kind, url, layer, got, writes, fills, settled, least, clearing>>

\* The time to live of an entry ends.
Expire(u) ==
  /\ cache[u] # None
  /\ cache' = [cache EXCEPT ![u] = None]
  /\ UNCHANGED <<db, pc, kind, url, layer, got, writes, fills, clears, histVars>>

-----------------------------------------------------------------------------
Init ==
  /\ db = 0
  /\ cache = Empty
  /\ pc = [r \in Requests |-> "idle"]
  /\ kind = [r \in Requests |-> None]
  /\ url = [r \in Requests |-> None]
  /\ layer = [r \in Requests |-> 1]
  /\ got = [r \in Requests |-> 0]
  /\ writes = [r \in Requests |-> 0]
  /\ fills = [r \in Requests |-> 0]
  /\ clears = [r \in Requests |-> 0]
  /\ settled = [w \in Ways |-> 0]
  /\ least = [r \in Requests |-> [w \in Ways |-> 0]]
  /\ clearing = [r \in Requests |-> FALSE]
  /\ raced = [r \in Requests |-> FALSE]
  /\ tainted = [u \in Urls |-> FALSE]

Serve(r) ==
  \/ Lookup(r) \/ Read(r) \/ Reply(r) \/ Commit(r) \/ HandlePurge(r)
  \/ Succeed(r) \/ Fail(r) \/ FillLands(r) \/ ClearLands(r)

Quiescent ==
  /\ \A r \in Requests : pc[r] \in {"done", "failed"} /\ fills[r] = 0 /\ clears[r] = 0
  /\ UNCHANGED vars

Next ==
  \/ \E r \in Requests : Arrive(r) \/ Serve(r)
  \/ \E u \in Urls : Expire(u)
  \/ Quiescent

Spec == Init /\ [][Next]_vars

-----------------------------------------------------------------------------
(* Properties.                                                             *)

\* Every variable holds values of its kind.
TypeOK ==
  /\ db \in Nat
  /\ cache \in [Urls -> Nat \cup {None}]
  /\ pc \in [Requests -> {"idle", "lookup", "handle", "reply", "done", "failed"}]
  /\ kind \in [Requests -> Kinds \cup {None}]
  /\ url \in [Requests -> Urls \cup {None}]
  /\ layer \in [Requests -> Nat]
  /\ got \in [Requests -> Nat]
  /\ writes \in [Requests -> Nat]
  /\ fills \in [Requests -> Nat]
  /\ clears \in [Requests -> Nat]
  /\ settled \in [Ways -> Nat]
  /\ least \in [Requests -> [Ways -> Nat]]
  /\ clearing \in [Requests -> BOOLEAN]
  /\ raced \in [Requests -> BOOLEAN]
  /\ tainted \in [Urls -> BOOLEAN]

Answered(r) == kind[r] = "get" /\ pc[r] = "done"

\* A route with disableCache, or an excluded or auth path, shows every write that was
\* answered before its request, over HTTP or a socket and with a success or an error,
\* whatever the other routes have cached.
UncachedFresh ==
  \A r \in Requests : Answered(r) /\ url[r] \in NotCached =>
    \A w \in Ways : got[r] >= least[r][w]

\* A cached response may be older than a write answered before its GET for three reasons
\* only: a clear was still in flight; the entry was set after the last clear by a GET that
\* had read the database before it; or the write clears nothing (it was made over a socket,
\* or its request failed) and no success has been answered over HTTP since.  Such a success
\* brings to light all that was committed by then, whoever wrote it.
StaleReadExplained ==
  \A r \in Requests, w \in Ways : Answered(r) /\ got[r] < least[r][w] =>
    \/ clearing[r]
    \/ raced[r]
    \/ w # "http" /\ got[r] >= least[r]["http"]

\* caching.md:286 says that the purge of every write ensures that cached GET responses
\* always reflect the latest data: a GET shows the writes answered before it over HTTP,
\* once their clears have landed.
AlwaysLatest ==
  \A r \in Requests : Answered(r) /\ ~clearing[r] => got[r] >= least[r]["http"]

=============================================================================
