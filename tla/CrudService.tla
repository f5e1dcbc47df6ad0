----------------------------- MODULE CrudService -----------------------------
(***************************************************************************)
(* The twelve route services of mongodb-dynamic-api                        *)
(* (routes/<route>/base-<route>.service.ts) serving concurrent requests    *)
(* over one Mongoose collection.  Node runs one thread, so a service runs   *)
(* atomically between two awaits; every await (a database call, a          *)
(* beforeSaveCallback, a callback) is a point where other requests run.    *)
(* MongoDB makes a write to ONE document atomic and nothing more: the      *)
(* calls over several documents go document by document.                   *)
(***************************************************************************)
EXTENDS Naturals, FiniteSets, ServiceErrors

CONSTANTS
  Requests,     \* the requests of a run, each served once
  Ids,          \* ObjectIds, generated in increasing order
  Existing,     \* the ids clients may know initially
  Vals,         \* document contents, as far as the properties tell them apart
  NoContent,    \* the content of no document
  MaxBatch,     \* bound: the longest list of documents or ids in a request
  Malformed,    \* what does not cast in a request: an id, a query, an empty pipeline
  Routes,       \* the route types the feature enables
  Soft,         \* the entity has isDeleted and deletedAt (isSoftDeletable)
  Unique,       \* a unique index covers the content
  BeforeHooks,  \* the routes with a beforeSaveCallback
  Callbacks,    \* the routes with a callback (after save)
  Faults,       \* which awaited calls may reject: "db", "before", "after"
  Rejections    \* what they may reject with

RouteTypes == {"Aggregate", "GetMany", "GetOne", "CreateOne", "CreateMany",
               "DuplicateOne", "DuplicateMany", "UpdateOne", "UpdateMany",
               "ReplaceOne", "DeleteOne", "DeleteMany"}
ReadRoutes == {"Aggregate", "GetMany", "GetOne"}
CreateRoutes == {"CreateOne", "CreateMany"}
DuplicateRoutes == {"DuplicateOne", "DuplicateMany"}
DeleteRoutes == {"DeleteOne", "DeleteMany"}
OneIdRoutes == {"GetOne", "DuplicateOne", "UpdateOne", "ReplaceOne", "DeleteOne"}
SingleWriteRoutes == {"CreateOne", "DuplicateOne", "UpdateOne", "ReplaceOne"}

ASSUME IdsAssumption == Ids \subseteq Nat /\ Existing \subseteq Ids
ASSUME ValsAssumption == NoContent \notin Vals
ASSUME MalformedAssumption == Malformed \notin Ids
ASSUME FlagsAssumption == Soft \in BOOLEAN /\ Unique \in BOOLEAN
ASSUME RoutesAssumption == Routes \subseteq RouteTypes
ASSUME RejectionsAssumption == Rejections \subseteq Errors

VARIABLES
  status,   \* status[i]: free (never saved), live, deleted (soft), gone
  content,  \* content[i]: the fields of document i
  pc,       \* pc[r]: the await request r is at
  route,    \* route[r]: the route r was sent to
  ids,      \* ids[r]: the ids in its path, query or body
  wide,     \* wide[r]: its find carries no isDeleted filter
  todo,     \* todo[r]: documents the call r is waiting for has yet to reach
  found,    \* found[r]: documents its find has returned
  seen,     \* seen[r][i]: content a duplicate route has read from i
  draft,    \* draft[r][i]: content r is about to store in i
  made,     \* made[r]: the _ids of the documents r creates
  docs,     \* docs[r]: documents r hands to its callback and its answer
  count,    \* count[r]: deletedCount of the delete call so far
  resp,     \* resp[r]: the answer: ok or the HTTP error
  rep       \* rep[r]: the deletedCount answered

\* History, read by the properties only.
VARIABLES
  effect,   \* effect[r]: documents a write of r changed
  sawLive,  \* sawLive[r]: documents the find of r read as live
  threw,    \* threw[r]: a call awaited by r rejected
  revived   \* documents that went from deleted back to live

collVars == <<status, content>>
reqVars == <<route, ids, wide>>
histVars == <<effect, sawLive, threw, revived>>
vars == <<status, content, pc, route, ids, wide, todo, found, seen, draft, made,
          docs, count, resp, rep, effect, sawLive, threw, revived>>

Stored == {"live", "deleted"}
Fresh == {i \in Ids : status[i] = "free" /\ \A r \in Requests : i \notin made[r]}

\* Duplicate key (code 11000): another stored document holds v, soft-deleted or not.
Conflict(i, v) == Unique /\ \E j \in Ids \ {i} : status[j] \in Stored /\ content[j] = v

-----------------------------------------------------------------------------
(* Control.  An error ends a delete with { deletedCount: 0 } and any other *)
(* service with the HTTP error its catch makes of it.                      *)

Reply(r, a, n) ==
  /\ pc' = [pc EXCEPT ![r] = "done"]
  /\ resp' = [resp EXCEPT ![r] = a]
  /\ rep' = [rep EXCEPT ![r] = n]

Advance(r, l) ==
  /\ pc' = [pc EXCEPT ![r] = l]
  /\ UNCHANGED <<resp, rep>>

\* GetMany has no catch: what escapes it is answered by Nest's exception layer.
Caught(r, e) ==
  CASE route[r] = "GetMany" -> RethrowOrWrap(e)
    [] route[r] = "GetOne" -> HandleMongoErrors(e)
    [] route[r] = "CreateOne" -> HandleDuplicateKeyError(e)
    [] OTHER -> HandleBoth(e)

\* Variant: the catch of a delete has no return.
Throw_NoReturn(r, e) ==
  Reply(r, IF route[r] \in DeleteRoutes THEN "undefined" ELSE Caught(r, e), 0)

Throw(r, e) == Reply(r, IF route[r] \in DeleteRoutes THEN "ok" ELSE Caught(r, e), 0)

\* Promise.all (and model.create of a list): the first rejection answers the
\* request, the other writes are already under way and still land.
Parallel(r) ==
  route[r] \in {"CreateMany", "DuplicateMany"}
    \/ (route[r] = "UpdateMany" /\ "UpdateMany" \in BeforeHooks)

\* A call over several documents visits them in the order of the _id index.
Visits(r, i) == i \in todo[r] /\ \A j \in todo[r] : i <= j

Wrote(r, i) == effect' = [effect EXCEPT ![r] = @ \cup {i}]
SetTodo(r, S) == todo' = [todo EXCEPT ![r] = S]

\* The lists of ids a client of route t may send (the DTOs refuse an empty list); a
\* creation and a scan name no document, but a scan's query may not cast.
IdsFor(t) ==
  {S \in SUBSET ({i \in Ids : status[i] # "free"} \cup {Malformed}) :
     /\ t \in OneIdRoutes => \E i \in Ids \cup {Malformed} : S = {i}
     /\ t \in {"UpdateMany", "DeleteMany", "DuplicateMany"} => S # {}
     /\ t \in CreateRoutes => S = {}
     /\ t \in {"GetMany", "Aggregate"} => S \subseteq {Malformed}
     /\ Cardinality(S) <= MaxBatch}

\* UpdateMany and a pipeline never filter isDeleted; a GetMany query may override it.
WideFor(t) ==
  IF t = "GetMany" /\ Soft THEN BOOLEAN ELSE {t \in {"UpdateMany", "Aggregate"}}

Arrive(r) ==
  /\ pc[r] = "idle"
  /\ \E t \in Routes, v \in Vals : \E S \in IdsFor(t), w \in WideFor(t) :
       /\ route' = [route EXCEPT ![r] = t]
       /\ draft' = IF t \in {"UpdateOne", "UpdateMany", "ReplaceOne"} \ BeforeHooks
                     THEN [draft EXCEPT ![r] = [i \in Ids |-> v]] ELSE draft
       /\ ids' = [ids EXCEPT ![r] = S]
       /\ SetTodo(r, IF t \in {"GetMany", "Aggregate"} THEN Ids ELSE S)
       /\ wide' = [wide EXCEPT ![r] = w]
       /\ Advance(r, IF t \notin CreateRoutes THEN "find"
                     ELSE IF t \in BeforeHooks THEN "before" ELSE "build")
  /\ UNCHANGED <<collVars, found, seen, made, docs, count, histVars>>

\* CastError while the query is built, or the TypeError of a pipeline with no first
\* stage: nothing has been sent to the database.
RejectIds(r) ==
  /\ pc[r] = "find"
  /\ Malformed \in ids[r]
  /\ Throw(r, IF route[r] = "Aggregate" THEN "error" ELSE "CastError")
  /\ SetTodo(r, {})
  /\ UNCHANGED <<collVars, reqVars, found, seen, draft, made, docs, count, histVars>>

-----------------------------------------------------------------------------
(* The find every service but the creations starts with.                   *)

\* Variant: the find forgets isDeleted: false.
Matches_NoFilter(r, i) == status[i] \in Stored

Matches(r, i) == status[i] = "live" \/ (status[i] = "deleted" /\ wide[r])

\* Variant: the 404 check of UpdateOne is missing.
FoundEnough_NoCheck(r, f) ==
  /\ route[r] \in {"GetOne", "ReplaceOne", "DuplicateOne", "DuplicateMany"} => f # {}
  /\ route[r] = "UpdateMany" => f = ids[r]

\* The 404 check on what the find returned.
FoundEnough(r, f) ==
  /\ route[r] \in {"GetOne", "UpdateOne", "ReplaceOne", "DuplicateOne", "DuplicateMany"}
       => f # {}
  /\ route[r] = "UpdateMany" => f = ids[r]

AfterFind(r) ==
  IF route[r] \in ReadRoutes THEN "after"
  ELSE IF route[r] \in BeforeHooks THEN "before"
  ELSE IF route[r] \in DuplicateRoutes THEN "build" ELSE "write"

ReadDoc(r, i) ==
  /\ pc[r] = "find"
  /\ Malformed \notin ids[r]
  /\ Visits(r, i)
  /\ LET hit == Matches(r, i)
         f == IF hit THEN found[r] \cup {i} ELSE found[r]
         rest == todo[r] \ {i}
     IN /\ found' = [found EXCEPT ![r] = f]
        /\ seen' = IF hit /\ route[r] \in DuplicateRoutes
                     THEN [seen EXCEPT ![r][i] = content[i]] ELSE seen
        /\ sawLive' = IF status[i] = "live"
                        THEN [sawLive EXCEPT ![r] = @ \cup {i}] ELSE sawLive
        /\ \/ rest # {} /\ SetTodo(r, rest) /\ Advance(r, "find") /\ UNCHANGED docs
           \/ /\ rest = {}
              /\ ~FoundEnough(r, f)
              /\ SetTodo(r, {})
              /\ Throw(r, "notFound")
              /\ UNCHANGED docs
           \/ /\ rest = {}
              /\ FoundEnough(r, f)
              /\ SetTodo(r, IF route[r] \in ReadRoutes \cup DuplicateRoutes THEN {} ELSE ids[r])
              /\ docs' = [docs EXCEPT ![r] = f]
              /\ Advance(r, AfterFind(r))
  /\ UNCHANGED <<collVars, reqVars, draft, made, count, effect, threw, revived>>

\* The beforeSaveCallback of an update or a replacement returns what to store; a
\* creation's is chosen in Build.  It may reject.
Before(r) ==
  /\ pc[r] = "before"
  /\ \/ /\ \E d \in [IF route[r] \in {"UpdateOne", "ReplaceOne", "UpdateMany"}
                       THEN ids[r] ELSE {} -> Vals] :
             draft' = [draft EXCEPT ![r] =
                         [i \in Ids |-> IF i \in DOMAIN d THEN d[i] ELSE draft[r][i]]]
        /\ Advance(r, IF route[r] \in CreateRoutes \cup DuplicateRoutes
                        THEN "build" ELSE "write")
        /\ UNCHANGED <<todo, threw>>
     \/ /\ "before" \in Faults
        /\ threw' = [threw EXCEPT ![r] = TRUE]
        /\ SetTodo(r, {})
        /\ \E e \in Rejections : Throw(r, e)
        /\ UNCHANGED draft
  /\ UNCHANGED <<collVars, reqVars, found, seen, made, docs, count,
                 effect, sawLive, revived>>

-----------------------------------------------------------------------------
(* Creations and duplications.                                             *)

\* d gives every new document the content of its source, or the request's override.
CopiesOf(r, d) ==
  \E o \in Vals : \E src \in [DOMAIN d -> found[r]] :
    /\ \A i, j \in DOMAIN d : src[i] = src[j] => i = j
    /\ \/ \A i \in DOMAIN d : d[i] = o
       \/ \A i \in DOMAIN d : d[i] = seen[r][src[i]]

\* Mongoose builds the documents, and with them their _ids, before it saves any.
Build(r) ==
  /\ pc[r] = "build"
  /\ \E M \in SUBSET Fresh \ {{}} :
       /\ \A i \in M, j \in Fresh \ M : i < j
       /\ route[r] \in {"CreateOne", "DuplicateOne"} => \E i \in Fresh : M = {i}
       /\ route[r] = "CreateMany" => Cardinality(M) <= MaxBatch
       /\ route[r] = "DuplicateMany" => Cardinality(M) = Cardinality(found[r])
       /\ \E d \in [M -> Vals] :
            /\ route[r] \in DuplicateRoutes \ BeforeHooks => CopiesOf(r, d)
            /\ draft' = [draft EXCEPT ![r] =
                           [i \in Ids |-> IF i \in M THEN d[i] ELSE draft[r][i]]]
       /\ made' = [made EXCEPT ![r] = M]
       /\ SetTodo(r, M)
  /\ Advance(r, "write")
  /\ docs' = [docs EXCEPT ![r] = {}]
  /\ UNCHANGED <<collVars, reqVars, found, seen, count, histVars>>

InsertDoc(r, i) ==
  /\ pc[r] \in {"write", "done"}
  /\ i \in todo[r] \cap made[r]
  /\ LET rest == todo[r] \ {i}
     IN \/ /\ Conflict(i, draft[r][i])
           /\ SetTodo(r, rest)
           /\ IF pc[r] = "write" THEN Reply(r, "conflict", 0) ELSE UNCHANGED <<pc, resp, rep>>
           /\ UNCHANGED <<collVars, effect>>
        \/ /\ ~Conflict(i, draft[r][i])
           /\ status' = [status EXCEPT ![i] = "live"]
           /\ content' = [content EXCEPT ![i] = draft[r][i]]
           /\ Wrote(r, i)
           /\ IF pc[r] = "write" /\ rest = {}
                THEN SetTodo(r, made[r]) /\ Advance(r, "refetch")
                ELSE SetTodo(r, rest) /\ UNCHANGED <<pc, resp, rep>>
  /\ UNCHANGED <<reqVars, found, seen, draft, made, docs, count,
                 sawLive, threw, revived>>

-----------------------------------------------------------------------------
(* Updates and replacements.                                               *)

\* findOneAndUpdate({ _id }): the isDeleted filter of the find is not repeated.
UpdateOneDoc(r, i) ==
  /\ pc[r] = "write"
  /\ route[r] = "UpdateOne"
  /\ i \in todo[r]
  /\ SetTodo(r, {})
  /\ \/ /\ status[i] \notin Stored          \* null document: TypeError, 503
        /\ Reply(r, "failed", 0)
        /\ UNCHANGED <<content, effect>>
     \/ /\ status[i] \in Stored /\ Conflict(i, draft[r][i])
        /\ Reply(r, "conflict", 0)
        /\ UNCHANGED <<content, effect>>
     \/ /\ status[i] \in Stored /\ ~Conflict(i, draft[r][i])
        /\ content' = [content EXCEPT ![i] = draft[r][i]]
        /\ Wrote(r, i)
        /\ Advance(r, "after")
  /\ UNCHANGED <<status, reqVars, found, seen, draft, made, docs, count,
                 sawLive, threw, revived>>

\* findOneAndReplace({ _id }): the replacement carries the schema defaults, so a
\* document soft-deleted meanwhile comes back with isDeleted = false.
ReplaceDoc(r, i) ==
  /\ pc[r] = "write"
  /\ route[r] = "ReplaceOne"
  /\ i \in todo[r]
  /\ SetTodo(r, {})
  /\ \/ /\ status[i] \notin Stored
        /\ Reply(r, "notFound", 0)
        /\ UNCHANGED <<collVars, effect, revived>>
     \/ /\ status[i] \in Stored /\ Conflict(i, draft[r][i])
        /\ Reply(r, "conflict", 0)
        /\ UNCHANGED <<collVars, effect, revived>>
     \/ /\ status[i] \in Stored /\ ~Conflict(i, draft[r][i])
        /\ content' = [content EXCEPT ![i] = draft[r][i]]
        /\ status' = [status EXCEPT ![i] = "live"]
        /\ revived' = IF status[i] = "deleted" THEN revived \cup {i} ELSE revived
        /\ Wrote(r, i)
        /\ Advance(r, "after")
  /\ UNCHANGED <<reqVars, found, seen, draft, made, docs, count, sawLive, threw>>

\* Without a hook, one updateMany (isDeleted: false on a soft-deletable entity)
\* that stops at its first error; with one, parallel findByIdAndUpdate calls with
\* no filter, which go on after one of them has failed.
UpdateManyTargets(r) ==
  {i \in todo[r] : status[i] = "live" \/ (status[i] = "deleted" /\ Parallel(r))}

\* Variant: the rest of the ids is still written after the error.
AfterClash_GoesOn(r, rest) == rest

AfterClash(r, rest) == IF Parallel(r) THEN rest ELSE {}

UpdateManyDoc(r, i) ==
  /\ pc[r] \in {"write", "done"}
  /\ route[r] = "UpdateMany"
  /\ i \in todo[r]
  /\ Parallel(r) \/ Visits(r, i)
  /\ LET target == i \in UpdateManyTargets(r)
         clash == target /\ Conflict(i, draft[r][i])
         rest == todo[r] \ {i}
     IN \/ /\ clash
           /\ SetTodo(r, AfterClash(r, rest))
           /\ IF pc[r] = "write" THEN Reply(r, "conflict", 0) ELSE UNCHANGED <<pc, resp, rep>>
           /\ UNCHANGED <<content, effect, docs>>
        \/ /\ ~clash
           /\ IF target
                THEN content' = [content EXCEPT ![i] = draft[r][i]] /\ Wrote(r, i)
                ELSE UNCHANGED <<content, effect>>
           /\ IF pc[r] = "write" /\ rest = {}
                THEN /\ SetTodo(r, ids[r])
                     /\ Advance(r, "refetch")
                     /\ docs' = [docs EXCEPT ![r] = {}]
                ELSE SetTodo(r, rest) /\ UNCHANGED <<pc, resp, rep, docs>>
  /\ UNCHANGED <<status, reqVars, found, seen, draft, made, count,
                 sawLive, threw, revived>>

-----------------------------------------------------------------------------
(* Deletions: updateOne/updateMany with isDeleted: false in the filter, or *)
(* deleteOne/deleteMany.                                                   *)

\* Variant: the soft delete forgets isDeleted: false.
Removable_NoFilter(i) == status[i] \in Stored

Removable(i) == status[i] = "live"

RemoveDoc(r, i) ==
  /\ pc[r] = "write"
  /\ route[r] \in DeleteRoutes
  /\ Visits(r, i)
  /\ SetTodo(r, todo[r] \ {i})
  /\ Advance(r, IF todo[r] = {i} THEN "after" ELSE "write")
  /\ IF Removable(i)
       THEN /\ status' = [status EXCEPT ![i] = IF Soft THEN "deleted" ELSE "gone"]
            /\ count' = [count EXCEPT ![r] = @ + 1]
            /\ Wrote(r, i)
       ELSE UNCHANGED <<status, count, effect>>
  /\ UNCHANGED <<content, reqVars, found, seen, draft, made, docs,
                 sawLive, threw, revived>>

-----------------------------------------------------------------------------
(* The re-read after a write, the callback and the answer.                 *)

\* Variant: the re-read filters soft-deleted documents out.
Reread_Filtered(i) == status[i] = "live"

\* find({ _id }) with no isDeleted filter.
Reread(i) == status[i] \in Stored

\* Variant: UpdateMany compares the length of the re-read with the ids again.
RereadAnswer_ChecksAgain(r, D) ==
  IF D = {} /\ route[r] \in {"CreateOne", "DuplicateOne"} THEN "failed"
  ELSE IF route[r] = "UpdateMany" /\ D # ids[r] THEN "notFound" ELSE "none"

\* A creation of one document cannot answer without it: buildInstance(null) throws.
RereadAnswer(r, D) ==
  IF D = {} /\ route[r] \in {"CreateOne", "DuplicateOne"} THEN "failed" ELSE "none"

Refetch(r, i) ==
  /\ pc[r] = "refetch"
  /\ Visits(r, i)
  /\ LET D == IF Reread(i) THEN docs[r] \cup {i} ELSE docs[r]
         rest == todo[r] \ {i}
     IN /\ docs' = [docs EXCEPT ![r] = D]
        /\ SetTodo(r, rest)
        /\ IF rest # {} THEN Advance(r, "refetch")
           ELSE IF RereadAnswer(r, D) = "none" THEN Advance(r, "after")
           ELSE Reply(r, RereadAnswer(r, D), 0)
  /\ UNCHANGED <<collVars, reqVars, found, seen, draft, made, count, histVars>>

\* Variant: a delete counts the documents its find returned.
DeletedCount_Found(r) == Cardinality(docs[r])

DeletedCount(r) == count[r]

After(r) ==
  /\ pc[r] = "after"
  /\ \/ Reply(r, "ok", DeletedCount(r)) /\ UNCHANGED threw
     \/ /\ "after" \in Faults /\ route[r] \in Callbacks /\ docs[r] # {}
        /\ threw' = [threw EXCEPT ![r] = TRUE]
        /\ \E e \in Rejections : Throw(r, e)
  /\ UNCHANGED <<collVars, reqVars, todo, found, seen, draft, made, docs, count,
                 effect, sawLive, revived>>

\* What a database call rejects with besides its clashes of keys, which the writes
\* decide: a connection error, or a write whose fields do not cast or validate, which
\* Mongoose refuses before it sends anything.
DbErrors(r) ==
  {"error"} \cup
    IF pc[r] = "write" /\ route[r] \notin DeleteRoutes /\ (Parallel(r) \/ effect[r] = {})
      THEN Rejections \cap {"CastError", "ValidationError"} ELSE {}

\* A database call rejects without effect; parallel writes lose one document each.
DbFail(r) ==
  /\ "db" \in Faults
  /\ pc[r] \in {"find", "write", "refetch"}
  /\ Malformed \notin ids[r]
  /\ \E i \in todo[r] :
       SetTodo(r, IF pc[r] = "write" /\ Parallel(r) THEN todo[r] \ {i} ELSE {})
  /\ threw' = [threw EXCEPT ![r] = TRUE]
  /\ \E e \in DbErrors(r) : Throw(r, e)
  /\ UNCHANGED <<collVars, reqVars, found, seen, draft, made, docs, count,
                 effect, sawLive, revived>>

-----------------------------------------------------------------------------
Init ==
  /\ status \in [Ids -> {"free", "live", "deleted", "gone"}]
  /\ \A i \in Ids : status[i] = "free" <=> i \notin Existing
  /\ Soft \/ \A i \in Ids : status[i] # "deleted"
  /\ content \in [Ids -> Vals \cup {NoContent}]
  /\ \A i \in Ids : content[i] = NoContent <=> status[i] \notin Stored
  /\ \A i \in Ids : status[i] \in Stored => ~Conflict(i, content[i])
  /\ pc = [r \in Requests |-> "idle"]
  /\ route = [r \in Requests |-> "none"]
  /\ ids = [r \in Requests |-> {}]
  /\ wide = [r \in Requests |-> FALSE]
  /\ todo = [r \in Requests |-> {}]
  /\ found = [r \in Requests |-> {}]
  /\ seen = [r \in Requests |-> [i \in Ids |-> NoContent]]
  /\ draft = [r \in Requests |-> [i \in Ids |-> NoContent]]
  /\ made = [r \in Requests |-> {}]
  /\ docs = [r \in Requests |-> {}]
  /\ count = [r \in Requests |-> 0]
  /\ resp = [r \in Requests |-> "none"]
  /\ rep = [r \in Requests |-> 0]
  /\ effect = [r \in Requests |-> {}]
  /\ sawLive = [r \in Requests |-> {}]
  /\ threw = [r \in Requests |-> FALSE]
  /\ revived = {}

WriteDoc(r, i) ==
  InsertDoc(r, i) \/ UpdateOneDoc(r, i) \/ ReplaceDoc(r, i)
    \/ UpdateManyDoc(r, i) \/ RemoveDoc(r, i)

\* What the server, the database and the callbacks do for an arrived request.
Progress(r) ==
  \/ RejectIds(r) \/ Before(r) \/ Build(r) \/ After(r)
  \/ \E i \in Ids : ReadDoc(r, i) \/ WriteDoc(r, i) \/ Refetch(r, i)

Serve(r) == Progress(r) \/ DbFail(r)

\* Every request is answered and every write has landed: nothing is left to do.
Quiescent ==
  /\ \A r \in Requests : pc[r] = "done" /\ todo[r] = {}
  /\ UNCHANGED vars

Next == (\E r \in Requests : Arrive(r) \/ Serve(r)) \/ Quiescent

Spec == Init /\ [][Next]_vars

-----------------------------------------------------------------------------
(* Properties.                                                             *)

PCs == {"idle", "find", "before", "build", "write", "refetch", "after", "done"}
Answers == {"ok"} \cup HttpErrors

StoreTypeOK ==
  /\ status \in [Ids -> {"free", "live", "deleted", "gone"}]
  /\ content \in [Ids -> Vals \cup {NoContent}]

ControlTypeOK ==
  /\ pc \in [Requests -> PCs]
  /\ resp \in [Requests -> Answers \cup {"none"}]
  /\ rep \in [Requests -> Nat]

InputTypeOK ==
  /\ route \in [Requests -> RouteTypes \cup {"none"}]
  /\ ids \in [Requests -> SUBSET (Ids \cup {Malformed})]
  /\ wide \in [Requests -> BOOLEAN]

WorkTypeOK ==
  /\ todo \in [Requests -> SUBSET (Ids \cup {Malformed})]
  /\ found \in [Requests -> SUBSET Ids]
  /\ seen \in [Requests -> [Ids -> Vals \cup {NoContent}]]
  /\ draft \in [Requests -> [Ids -> Vals \cup {NoContent}]]
  /\ made \in [Requests -> SUBSET Ids]
  /\ docs \in [Requests -> SUBSET Ids]
  /\ count \in [Requests -> Nat]

HistoryTypeOK ==
  /\ effect \in [Requests -> SUBSET Ids]
  /\ sawLive \in [Requests -> SUBSET Ids]
  /\ threw \in [Requests -> BOOLEAN]
  /\ revived \in SUBSET Ids

\* Every variable holds values of its kind.
TypeOK == StoreTypeOK /\ ControlTypeOK /\ InputTypeOK /\ WorkTypeOK /\ HistoryTypeOK

\* However deletions of one document interleave, at most one of them deletes it and
\* counts it, unless a replacement brought it back in between (the isDeleted: false
\* of the soft delete's filter, base-delete-one.service.ts:52).
DeletedOnce ==
  \A r, s \in Requests :
    r # s /\ route[r] \in DeleteRoutes /\ route[s] \in DeleteRoutes
      => effect[r] \cap effect[s] \subseteq revived

\* The deletedCount a client gets is the number of documents its request removed; it
\* is an underestimate (0) only when a callback or the database rejected, the catch of
\* deleteOne and deleteMany answering 0 for a deletion that may be committed.
CountReported ==
  \A r \in Requests :
    pc[r] = "done" /\ route[r] \in DeleteRoutes
      => \/ rep[r] = Cardinality(effect[r])
         \/ rep[r] = 0 /\ threw[r]

\* Answers that say nothing was done: a 4xx, except the 409 of a route that writes
\* several documents.
Refused(r) ==
  \/ resp[r] \in HttpErrors \ {"conflict", "failed"}
  \/ resp[r] = "conflict" /\ route[r] \in SingleWriteRoutes

\* A 4xx hides a write in two cases only, whatever other requests did between the find and
\* the write: the callback rejected after the write, or one of several parallel writes
\* rejected while the others landed, and the catch classified that error (a callback's
\* CastError is the client's 404, base-update-one.service.ts:57-64).
HiddenWriteExplained ==
  \A r \in Requests :
    Refused(r) /\ effect[r] # {} => threw[r] /\ (route[r] \in Callbacks \/ Parallel(r))

\* A 5xx with no rejected call has two causes: a scan whose query does not cast or whose
\* pipeline is empty, and another request that hard-deleted the document between two calls
\* of this one (the null document UpdateOne builds its answer from, the null re-read of
\* CreateOne and DuplicateOne).  Soft deletion never causes it.
FailureExplained ==
  \A r \in Requests :
    resp[r] = "failed" /\ ~threw[r]
      => \/ route[r] \in {"GetMany", "Aggregate"} /\ Malformed \in ids[r]
         \/ /\ ~Soft
            /\ \E s \in Requests :
                 route[s] \in DeleteRoutes /\ effect[s] \cap (found[r] \cup made[r]) # {}

\* Once answered, a request writes nothing more: true of every answer but the early
\* rejection of writes that Promise.all (or model.create of a list) runs in parallel.
QuietAfterAnswer ==
  [][\A r \in Requests :
       pc[r] = "done" /\ ~(Parallel(r) /\ resp[r] # "ok")
         => effect'[r] = effect[r]]_vars

\* The requests that read a document while it was live and are not answered yet.
OpenReaders ==
  [i \in Ids |-> {r \in Requests : pc[r] # "done" /\ i \in sawLive[r]}]

Lifecycle == INSTANCE DocumentLifecycle WITH
               readers <- OpenReaders, Vals <- Vals \cup {NoContent},
               HookedUpdateMany <- "UpdateMany" \in BeforeHooks

\* The services implement the life of a document: created once under a fresh id, removed
\* only while it is live; after its soft deletion brought back only by a request that had
\* read it live and was still running, and changed only while there is such a request,
\* unless UpdateMany has a beforeSaveCallback (DocumentLifecycle).
ImplementsLifecycle == Lifecycle!Spec

-----------------------------------------------------------------------------
(* The inductive invariant behind the theorems of CrudServiceProofs: what   *)
(* holds of one request, and what relates the requests and the store.      *)

\* Before its write, a request has changed nothing and created nothing.
StartedClean(r) ==
  /\ pc[r] \in {"idle", "find", "before", "build"} => effect[r] = {} /\ made[r] = {}
  /\ pc[r] = "idle" => todo[r] = {} /\ found[r] = {} /\ sawLive[r] = {} /\ count[r] = 0

AnsweredOnce(r) == pc[r] # "done" => resp[r] = "none"

\* Only creations and duplications create, and a creation looks for nothing.
Creates(r) ==
  /\ pc[r] = "build" \/ made[r] # {} => route[r] \in CreateRoutes \cup DuplicateRoutes
  /\ pc[r] = "find" => route[r] \notin CreateRoutes

\* A request that is answered, or has only its callback left, writes nothing more.
NothingLeft(r) ==
  \/ pc[r] = "after"
  \/ pc[r] = "done" /\ ~(Parallel(r) /\ resp[r] # "ok")
  => todo[r] = {}

\* A route over one id looks for that id, with the isDeleted filter ...
OneFind(r) ==
  pc[r] = "find" /\ route[r] \in OneIdRoutes =>
    /\ found[r] = {}
    /\ todo[r] = ids[r]
    /\ ~wide[r]
    /\ \E i \in Ids \cup {Malformed} : ids[r] = {i}

\* ... and goes on to its write only if it read that document as live.
OneTarget(r) ==
  pc[r] \in {"before", "write"} /\ route[r] \in {"UpdateOne", "ReplaceOne"} =>
    \E i \in sawLive[r] : ids[r] = {i} /\ todo[r] = {i}

\* A route that writes one document has written nothing until that write succeeds.
OneWrite(r) ==
  pc[r] = "write" /\ route[r] \in SingleWriteRoutes =>
    effect[r] = {} /\ \E i \in Ids : todo[r] = {i}

\* A refused request has written, and has yet to write, only what a call rejected after
\* or beside a write hides.
RefusalOK(r) ==
  Refused(r) /\ effect[r] \cup todo[r] # {}
    => threw[r] /\ (route[r] \in Callbacks \/ Parallel(r))

\* A delete counts each document it removes once, and answers that count.
Counted(r) ==
  route[r] \in DeleteRoutes =>
    /\ IsFiniteSet(effect[r])
    /\ count[r] = Cardinality(effect[r])
    /\ effect[r] \cap todo[r] = {}
    /\ pc[r] = "done" => rep[r] = count[r] \/ (rep[r] = 0 /\ threw[r])

RequestInv(r) ==
  /\ StartedClean(r) /\ AnsweredOnce(r) /\ Creates(r) /\ NothingLeft(r)
  /\ OneFind(r) /\ OneTarget(r) /\ OneWrite(r) /\ Counted(r)
  /\ RefusalOK(r)

\* The ids of new documents belong to one request, and are free until it saves them.
MadeFresh ==
  /\ \A r, s \in Requests : r # s => made[r] \cap made[s] = {}
  /\ \A r \in Requests : pc[r] \in {"write", "done"} =>
       \A i \in todo[r] \cap made[r] : status[i] = "free"

\* A document a request counted as deleted is not live, unless it was brought back.
Claimed ==
  \A r \in Requests : route[r] \in DeleteRoutes =>
    \A i \in effect[r] : status[i] \in {"deleted", "gone"} \/ i \in revived

IInv ==
  /\ TypeOK
  /\ \A r \in Requests : RequestInv(r)
  /\ MadeFresh /\ Claimed /\ DeletedOnce

=============================================================================
