--------------------------- MODULE CrudServiceSafety ---------------------------
(***************************************************************************)
(* The inductive invariant of CrudService and the safety theorems that     *)
(* follow from it.                                                         *)
(***************************************************************************)
EXTENDS CrudServiceProofs, FiniteSetTheorems

-----------------------------------------------------------------------------
(* A step serves one request and leaves the others where they are.         *)

\* What the invariant says of request s is as it was.
Untouched(s) ==
  /\ pc'[s] = pc[s] /\ resp'[s] = resp[s] /\ rep'[s] = rep[s]
  /\ route'[s] = route[s] /\ ids'[s] = ids[s] /\ wide'[s] = wide[s]
  /\ todo'[s] = todo[s] /\ found'[s] = found[s] /\ made'[s] = made[s]
  /\ count'[s] = count[s] /\ effect'[s] = effect[s] /\ sawLive'[s] = sawLive[s]
  /\ threw'[s] = threw[s]

LEMMA UntouchedKeeps ==
  ASSUME NEW s \in Requests, RequestInv(s), Untouched(s)
  PROVE  RequestInv(s)'
  BY DEF RequestInv, Untouched, StartedClean, AnsweredOnce, Creates, NothingLeft, Parallel,
         OneFind, OneTarget, OneWrite, Counted, Refused, RefusalOK

LEMMA ControlUntouched ==
  ASSUME ControlTypeOK, NEW r \in Requests, NEW s \in Requests \ {r},
         NEW l, NEW a, NEW n,
         \/ UNCHANGED <<pc, resp, rep>>
         \/ Advance(r, l)
         \/ Reply(r, a, n)
  PROVE  pc'[s] = pc[s] /\ resp'[s] = resp[s] /\ rep'[s] = rep[s]
  BY DEF ControlTypeOK, Advance, Reply

LEMMA TodoUntouched ==
  ASSUME WorkTypeOK, NEW r \in Requests, NEW s \in Requests \ {r}, NEW S, SetTodo(r, S)
  PROVE  todo'[s] = todo[s]
  BY DEF WorkTypeOK, SetTodo

LEMMA ArriveOthers ==
  ASSUME TypeOK, NEW r \in Requests, Arrive(r), NEW s \in Requests \ {r}
  PROVE  Untouched(s)
  BY ControlUntouched, TodoUntouched
     DEF TypeOK, InputTypeOK, Arrive, Untouched, histVars

LEMMA RejectIdsOthers ==
  ASSUME TypeOK, NEW r \in Requests, RejectIds(r), NEW s \in Requests \ {r}
  PROVE  Untouched(s)
  BY ControlUntouched, TodoUntouched
     DEF TypeOK, RejectIds, Throw, Untouched, reqVars, histVars

LEMMA BeforeOthers ==
  ASSUME TypeOK, NEW r \in Requests, Before(r), NEW s \in Requests \ {r}
  PROVE  Untouched(s)
<1>1. pc'[s] = pc[s] /\ resp'[s] = resp[s] /\ rep'[s] = rep[s]
  BY ControlUntouched DEF TypeOK, Before, Throw
<1>2. todo'[s] = todo[s]
  BY TodoUntouched DEF TypeOK, Before
<1>3. threw'[s] = threw[s]
  BY DEF TypeOK, HistoryTypeOK, Before
<1> QED
  BY <1>1, <1>2, <1>3 DEF Before, Untouched, reqVars

LEMMA BuildOthers ==
  ASSUME TypeOK, NEW r \in Requests, Build(r), NEW s \in Requests \ {r}
  PROVE  Untouched(s)
<1>1. pc'[s] = pc[s] /\ resp'[s] = resp[s] /\ rep'[s] = rep[s]
  BY ControlUntouched DEF TypeOK, Build
<1>2. todo'[s] = todo[s] /\ made'[s] = made[s]
  BY TodoUntouched DEF TypeOK, WorkTypeOK, Build
<1> QED
  BY <1>1, <1>2 DEF Build, Untouched, reqVars, histVars

LEMMA AfterOthers ==
  ASSUME TypeOK, NEW r \in Requests, After(r), NEW s \in Requests \ {r}
  PROVE  Untouched(s)
<1>1. pc'[s] = pc[s] /\ resp'[s] = resp[s] /\ rep'[s] = rep[s]
  BY ControlUntouched DEF TypeOK, After, Throw
<1>2. threw'[s] = threw[s]
  BY DEF TypeOK, HistoryTypeOK, After
<1> QED
  BY <1>1, <1>2 DEF After, Untouched, reqVars

LEMMA DbFailOthers ==
  ASSUME TypeOK, NEW r \in Requests, DbFail(r), NEW s \in Requests \ {r}
  PROVE  Untouched(s)
<1>1. pc'[s] = pc[s] /\ resp'[s] = resp[s] /\ rep'[s] = rep[s]
  BY ControlUntouched DEF TypeOK, DbFail, Throw
<1>2. todo'[s] = todo[s] /\ threw'[s] = threw[s]
  BY TodoUntouched DEF TypeOK, HistoryTypeOK, DbFail
<1> QED
  BY <1>1, <1>2 DEF DbFail, Untouched, reqVars

LEMMA ReadDocOthers ==
  ASSUME TypeOK, NEW r \in Requests, NEW i \in Ids, ReadDoc(r, i), NEW s \in Requests \ {r}
  PROVE  Untouched(s)
<1>1. pc'[s] = pc[s] /\ resp'[s] = resp[s] /\ rep'[s] = rep[s]
  BY ControlUntouched DEF TypeOK, ReadDoc, Throw
<1>2. todo'[s] = todo[s]
  BY TodoUntouched DEF TypeOK, ReadDoc
<1>3. found'[s] = found[s] /\ sawLive'[s] = sawLive[s]
  BY DEF TypeOK, WorkTypeOK, HistoryTypeOK, ReadDoc
<1> QED
  BY <1>1, <1>2, <1>3 DEF ReadDoc, Untouched, reqVars

LEMMA RefetchOthers ==
  ASSUME TypeOK, NEW r \in Requests, NEW i \in Ids, Refetch(r, i), NEW s \in Requests \ {r}
  PROVE  Untouched(s)
<1>1. pc'[s] = pc[s] /\ resp'[s] = resp[s] /\ rep'[s] = rep[s]
  BY ControlUntouched DEF TypeOK, Refetch
<1>2. todo'[s] = todo[s]
  BY TodoUntouched DEF TypeOK, Refetch
<1> QED
  BY <1>1, <1>2 DEF Refetch, Untouched, reqVars, histVars

LEMMA WriteOthers ==
  ASSUME TypeOK, NEW r \in Requests, NEW i \in Ids, WriteDoc(r, i), NEW s \in Requests \ {r}
  PROVE  Untouched(s)
<1>1. CASE InsertDoc(r, i)
  <2>1. pc'[s] = pc[s] /\ resp'[s] = resp[s] /\ rep'[s] = rep[s]
    BY <1>1, ControlUntouched DEF TypeOK, InsertDoc
  <2>2. todo'[s] = todo[s] /\ effect'[s] = effect[s]
    BY <1>1, TodoUntouched DEF TypeOK, HistoryTypeOK, InsertDoc, Wrote
  <2> QED
    BY <1>1, <2>1, <2>2 DEF InsertDoc, Untouched, reqVars
<1>2. CASE UpdateOneDoc(r, i)
  <2>1. pc'[s] = pc[s] /\ resp'[s] = resp[s] /\ rep'[s] = rep[s]
    BY <1>2, ControlUntouched DEF TypeOK, UpdateOneDoc
  <2>2. todo'[s] = todo[s] /\ effect'[s] = effect[s]
    BY <1>2, TodoUntouched DEF TypeOK, HistoryTypeOK, UpdateOneDoc, Wrote
  <2> QED
    BY <1>2, <2>1, <2>2 DEF UpdateOneDoc, Untouched, reqVars
<1>3. CASE ReplaceDoc(r, i)
  <2>1. pc'[s] = pc[s] /\ resp'[s] = resp[s] /\ rep'[s] = rep[s]
    BY <1>3, ControlUntouched DEF TypeOK, ReplaceDoc
  <2>2. todo'[s] = todo[s] /\ effect'[s] = effect[s]
    BY <1>3, TodoUntouched DEF TypeOK, HistoryTypeOK, ReplaceDoc, Wrote
  <2> QED
    BY <1>3, <2>1, <2>2 DEF ReplaceDoc, Untouched, reqVars
<1>4. CASE UpdateManyDoc(r, i)
  <2>1. pc'[s] = pc[s] /\ resp'[s] = resp[s] /\ rep'[s] = rep[s]
    BY <1>4, ControlUntouched DEF TypeOK, UpdateManyDoc
  <2>2. todo'[s] = todo[s] /\ effect'[s] = effect[s]
    BY <1>4, TodoUntouched DEF TypeOK, HistoryTypeOK, UpdateManyDoc, Wrote
  <2> QED
    BY <1>4, <2>1, <2>2 DEF UpdateManyDoc, Untouched, reqVars
<1>5. CASE RemoveDoc(r, i)
  <2>1. pc'[s] = pc[s] /\ resp'[s] = resp[s] /\ rep'[s] = rep[s]
    BY <1>5, ControlUntouched DEF TypeOK, RemoveDoc
  <2>2. todo'[s] = todo[s] /\ effect'[s] = effect[s] /\ count'[s] = count[s]
    BY <1>5, TodoUntouched DEF TypeOK, WorkTypeOK, HistoryTypeOK, RemoveDoc, Wrote
  <2> QED
    BY <1>5, <2>1, <2>2 DEF RemoveDoc, Untouched, reqVars
<1> QED
  BY <1>1, <1>2, <1>3, <1>4, <1>5 DEF WriteDoc

-----------------------------------------------------------------------------
(* A step keeps the invariant of the request it serves.                    *)

LEMMA ReplyAt ==
  ASSUME ControlTypeOK, NEW r \in Requests, NEW a, NEW n, Reply(r, a, n)
  PROVE  pc'[r] = "done" /\ resp'[r] = a /\ rep'[r] = n
  BY DEF ControlTypeOK, Reply

\* An exception: answered, and a delete answers "ok" with deletedCount 0.
LEMMA ThrowAt ==
  ASSUME ControlTypeOK, NEW r \in Requests, NEW e, Throw(r, e)
  PROVE  /\ pc'[r] = "done" /\ rep'[r] = 0
         /\ resp'[r] = IF route[r] \in DeleteRoutes THEN "ok" ELSE Caught(r, e)
  BY DEF ControlTypeOK, Throw, Reply

\* An error no handler knows is a 5xx.
LEMMA CaughtError ==
  ASSUME NEW r \in Requests
  PROVE  Caught(r, "error") = "failed"
  BY DEF Caught, HandleBoth, HandleMongoErrors, HandleDuplicateKeyError, RethrowOrWrap,
         HttpErrors

LEMMA AdvanceAt ==
  ASSUME ControlTypeOK, NEW r \in Requests, NEW l, Advance(r, l)
  PROVE  pc'[r] = l /\ resp'[r] = resp[r] /\ rep'[r] = rep[r]
  BY DEF ControlTypeOK, Advance

LEMMA TodoAt ==
  ASSUME WorkTypeOK, NEW r \in Requests, NEW S, SetTodo(r, S)
  PROVE  todo'[r] = S
  BY DEF WorkTypeOK, SetTodo

LEMMA ArriveKeeps ==
  ASSUME TypeOK, NEW r \in Requests, RequestInv(r), Arrive(r)
  PROVE  RequestInv(r)'
<1>1. PICK t \in Routes, v \in Vals : \E S \in IdsFor(t), w \in WideFor(t) :
        /\ route' = [route EXCEPT ![r] = t]
        /\ ids' = [ids EXCEPT ![r] = S]
        /\ SetTodo(r, IF t \in {"GetMany", "Aggregate"} THEN Ids ELSE S)
        /\ wide' = [wide EXCEPT ![r] = w]
        /\ Advance(r, IF t \notin CreateRoutes THEN "find"
                      ELSE IF t \in BeforeHooks THEN "before" ELSE "build")
  BY DEF Arrive
<1>2. PICK S \in IdsFor(t), w \in WideFor(t) :
        /\ route'[r] = t /\ ids'[r] = S /\ wide'[r] = w
        /\ todo'[r] = IF t \in {"GetMany", "Aggregate"} THEN Ids ELSE S
        /\ pc'[r] = IF t \notin CreateRoutes THEN "find"
                     ELSE IF t \in BeforeHooks THEN "before" ELSE "build"
        /\ resp'[r] = resp[r] /\ rep'[r] = rep[r]
  BY <1>1, AdvanceAt, TodoAt DEF TypeOK, InputTypeOK
<1>3. /\ pc[r] = "idle"
      /\ UNCHANGED <<found, made, count, effect, sawLive, threw>>
  BY DEF Arrive, histVars
<1>4. /\ effect[r] = {} /\ made[r] = {} /\ found[r] = {} /\ sawLive[r] = {}
      /\ count[r] = 0 /\ resp[r] = "none"
  BY <1>3 DEF RequestInv, StartedClean, AnsweredOnce
<1>5. OneFind(r)'
  <2> SUFFICES ASSUME t \in OneIdRoutes, pc'[r] = "find"
               PROVE  /\ todo'[r] = ids'[r] /\ ~wide'[r]
                      /\ \E i \in Ids \cup {Malformed} : ids'[r] = {i}
    BY <1>2, <1>3, <1>4 DEF OneFind
  <2>1. todo'[r] = S /\ ids'[r] = S /\ \E i \in Ids \cup {Malformed} : S = {i}
    BY <1>2 DEF OneIdRoutes, IdsFor
  <2>2. ~w
    BY DEF OneIdRoutes, WideFor
  <2> QED
    BY <1>2, <2>1, <2>2
<1>6. Counted(r)'
  BY <1>2, <1>3, <1>4, FS_EmptySet DEF Counted
<1> QED
  BY <1>2, <1>3, <1>4, <1>5, <1>6
     DEF RequestInv, StartedClean, AnsweredOnce, Creates, NothingLeft, OneTarget, OneWrite,
         Refused, RefusalOK, HttpErrors, CreateRoutes, DeleteRoutes

LEMMA RejectIdsKeeps ==
  ASSUME TypeOK, NEW r \in Requests, RequestInv(r), RejectIds(r)
  PROVE  RequestInv(r)'
<1>1. /\ pc[r] = "find" /\ todo'[r] = {} /\ pc'[r] = "done" /\ rep'[r] = 0
      /\ UNCHANGED <<reqVars, found, made, count, effect, sawLive, threw>>
  BY TodoAt, ThrowAt DEF TypeOK, RejectIds, histVars
<1>2. effect[r] = {} /\ made[r] = {}
  BY <1>1 DEF RequestInv, StartedClean
<1>3. Counted(r)'
  BY <1>1, <1>2, FS_EmptySet DEF Counted, RequestInv, reqVars
<1> QED
  BY <1>1, <1>2, <1>3
     DEF RequestInv, StartedClean, AnsweredOnce, Creates, NothingLeft, OneFind, OneTarget,
         OneWrite, RefusalOK, reqVars

LEMMA BeforeKeeps ==
  ASSUME TypeOK, NEW r \in Requests, RequestInv(r), Before(r)
  PROVE  RequestInv(r)'
<1>1. /\ pc[r] = "before"
      /\ UNCHANGED <<reqVars, found, made, count, effect, sawLive>>
      /\ \/ /\ pc'[r] = IF route[r] \in CreateRoutes \cup DuplicateRoutes
                          THEN "build" ELSE "write"
            /\ resp'[r] = resp[r] /\ rep'[r] = rep[r]
            /\ todo'[r] = todo[r] /\ threw'[r] = threw[r]
         \/ /\ todo'[r] = {} /\ pc'[r] = "done" /\ rep'[r] = 0 /\ threw'[r]
  BY TodoAt, ThrowAt, AdvanceAt DEF TypeOK, HistoryTypeOK, Before
<1>2. effect[r] = {} /\ made[r] = {} /\ resp[r] = "none"
  BY <1>1 DEF RequestInv, StartedClean, AnsweredOnce
<1>3. Counted(r)'
  BY <1>1, <1>2 DEF Counted, RequestInv, reqVars
<1>4. OneTarget(r)' /\ OneWrite(r)'
  <2>1. sawLive[r] \in SUBSET Ids
    BY DEF TypeOK, HistoryTypeOK
  <2> QED
    BY <1>1, <1>2, <2>1 DEF OneTarget, OneWrite, RequestInv, reqVars, SingleWriteRoutes,
                            CreateRoutes, DuplicateRoutes
<1> QED
  BY <1>1, <1>2, <1>3, <1>4
     DEF RequestInv, StartedClean, AnsweredOnce, Creates, NothingLeft, OneFind,
         Refused, RefusalOK, HttpErrors, reqVars

LEMMA BuildKeeps ==
  ASSUME TypeOK, NEW r \in Requests, RequestInv(r), Build(r)
  PROVE  RequestInv(r)'
<1>1. /\ pc[r] = "build" /\ pc'[r] = "write" /\ resp'[r] = resp[r]
      /\ UNCHANGED <<reqVars, found, count, effect, sawLive, threw>>
  BY AdvanceAt DEF TypeOK, Build, histVars
<1>2. effect[r] = {} /\ made[r] = {} /\ resp[r] = "none"
        /\ route[r] \in CreateRoutes \cup DuplicateRoutes
  BY <1>1 DEF RequestInv, StartedClean, AnsweredOnce, Creates
<1>3. OneWrite(r)'
  <2> SUFFICES ASSUME route[r] \in {"CreateOne", "DuplicateOne"}
               PROVE  \E i \in Ids : todo'[r] = {i}
    BY <1>1, <1>2 DEF OneWrite, reqVars, SingleWriteRoutes, CreateRoutes, DuplicateRoutes
  <2>1. PICK i \in Fresh : SetTodo(r, {i})
    BY DEF Build
  <2> QED
    BY <2>1, TodoAt DEF TypeOK, Fresh
<1> QED
  BY <1>1, <1>2, <1>3
     DEF RequestInv, StartedClean, AnsweredOnce, Creates, NothingLeft, OneFind, OneTarget,
         Counted, Refused, RefusalOK, HttpErrors, reqVars, CreateRoutes, DuplicateRoutes,
         DeleteRoutes

LEMMA AfterKeeps ==
  ASSUME TypeOK, NEW r \in Requests, RequestInv(r), After(r)
  PROVE  RequestInv(r)'
<1>1. /\ pc[r] = "after" /\ pc'[r] = "done"
      /\ \/ resp'[r] = "ok" /\ rep'[r] = count[r] /\ threw'[r] = threw[r]
         \/ rep'[r] = 0 /\ threw'[r] /\ route[r] \in Callbacks
      /\ UNCHANGED <<reqVars, todo, found, made, count, effect, sawLive>>
  BY ReplyAt, ThrowAt DEF TypeOK, HistoryTypeOK, After, DeletedCount
<1>2. todo[r] = {}
  BY <1>1 DEF RequestInv, NothingLeft
<1> QED
  BY <1>1, <1>2
     DEF RequestInv, StartedClean, AnsweredOnce, Creates, NothingLeft, OneFind, OneTarget,
         OneWrite, Counted, Refused, RefusalOK, SingleWriteRoutes, HttpErrors, reqVars

LEMMA DbFailKeeps ==
  ASSUME TypeOK, NEW r \in Requests, RequestInv(r), DbFail(r)
  PROVE  RequestInv(r)'
<1>1. /\ pc[r] \in {"find", "write", "refetch"} /\ pc'[r] = "done" /\ rep'[r] = 0
      /\ \/ route[r] \in DeleteRoutes /\ resp'[r] = "ok"
         \/ /\ route[r] \notin DeleteRoutes
            /\ \E e \in DbErrors(r) : resp'[r] = Caught(r, e)
      /\ threw'[r] = TRUE
      /\ todo'[r] \subseteq todo[r]
      /\ Parallel(r) \/ todo'[r] = {}
      /\ UNCHANGED <<reqVars, found, made, count, effect, sawLive>>
  BY TodoAt, ThrowAt DEF TypeOK, HistoryTypeOK, DbFail
<1>2. NothingLeft(r)'
  <2>1. Parallel(r) => route[r] \notin DeleteRoutes
    BY DEF Parallel, DeleteRoutes
  <2>2. Parallel(r)' = Parallel(r)
    BY <1>1 DEF Parallel, reqVars
  <2> QED
    BY <1>1, <2>1, <2>2, CaughtTyped DEF NothingLeft, DbErrors, Errors, HttpErrors
<1>3. RefusalOK(r)'
  <2>1. CASE Parallel(r)
    BY <1>1, <2>1 DEF RefusalOK, Parallel, reqVars
  <2>2. CASE ~Parallel(r) /\ effect[r] = {}
    BY <1>1, <2>2 DEF RefusalOK
  <2>3. CASE ~Parallel(r) /\ effect[r] # {}
    <3>1. resp'[r] \in {"ok", "failed"}
      BY <1>1, <2>3, CaughtError DEF DbErrors
    <3> QED
      BY <3>1 DEF RefusalOK, Refused, HttpErrors
  <2> QED
    BY <2>1, <2>2, <2>3
<1> QED
  BY <1>1, <1>2, <1>3
     DEF RequestInv, StartedClean, AnsweredOnce, Creates, OneFind, OneTarget,
         OneWrite, Counted, reqVars

LEMMA ReadDocKeeps ==
  ASSUME TypeOK, NEW r \in Requests, NEW i \in Ids, RequestInv(r), ReadDoc(r, i)
  PROVE  RequestInv(r)'
<1> DEFINE f == IF Matches(r, i) THEN found[r] \cup {i} ELSE found[r]
           rest == todo[r] \ {i}
<1>1. /\ pc[r] = "find" /\ i \in todo[r]
      /\ UNCHANGED <<reqVars, made, count, effect, threw>>
      /\ sawLive'[r] = IF status[i] = "live" THEN sawLive[r] \cup {i} ELSE sawLive[r]
  BY DEF TypeOK, HistoryTypeOK, ReadDoc, Visits
<1>2. \/ /\ rest # {} /\ todo'[r] = rest
         /\ pc'[r] = "find" /\ resp'[r] = resp[r]
      \/ /\ rest = {} /\ ~FoundEnough(r, f)
         /\ todo'[r] = {} /\ pc'[r] = "done"
      \/ /\ rest = {} /\ FoundEnough(r, f)
         /\ todo'[r] = IF route[r] \in ReadRoutes \cup DuplicateRoutes THEN {} ELSE ids[r]
         /\ pc'[r] = AfterFind(r) /\ resp'[r] = resp[r]
  BY TodoAt, ThrowAt, AdvanceAt DEF TypeOK, ReadDoc
<1>3. effect[r] = {} /\ made[r] = {} /\ resp[r] = "none" /\ route[r] \notin CreateRoutes
  BY <1>1 DEF RequestInv, StartedClean, AnsweredOnce, Creates
<1>4. AfterFind(r) \in {"after", "before", "build", "write"}
        /\ (AfterFind(r) = "after" <=> route[r] \in ReadRoutes)
        /\ (AfterFind(r) = "build" => route[r] \in DuplicateRoutes)
        /\ (AfterFind(r) = "write" => route[r] \notin DuplicateRoutes)
  BY DEF AfterFind
<1>5. StartedClean(r)' /\ AnsweredOnce(r)' /\ Creates(r)' /\ RefusalOK(r)'
  BY <1>1, <1>2, <1>3, <1>4
     DEF StartedClean, AnsweredOnce, Creates, Refused, RefusalOK, HttpErrors, reqVars
<1>6. NothingLeft(r)'
  BY <1>1, <1>2, <1>4 DEF NothingLeft
<1>7. OneFind(r)'
  BY <1>1, <1>2, <1>4 DEF RequestInv, OneFind, reqVars
<1>8. OneTarget(r)'
  <2> SUFFICES ASSUME pc'[r] \in {"before", "write"}, route[r] \in {"UpdateOne", "ReplaceOne"}
               PROVE  \E j \in sawLive'[r] : ids[r] = {j} /\ todo'[r] = {j}
    BY <1>1 DEF OneTarget, reqVars
  <2>1. /\ rest = {} /\ FoundEnough(r, f) /\ todo'[r] = ids[r]
    BY <1>2 DEF ReadRoutes, DuplicateRoutes
  <2>2. /\ found[r] = {} /\ ~wide[r] /\ ids[r] = {i}
    BY <1>1, <2>1 DEF RequestInv, OneFind, OneIdRoutes
  <2>3. f # {}
    BY <2>1 DEF FoundEnough
  <2>4. status[i] = "live"
    BY <2>2, <2>3 DEF Matches
  <2> QED
    BY <1>1, <2>1, <2>2, <2>4
<1>9. OneWrite(r)'
  <2>1. sawLive'[r] \in SUBSET Ids
    BY <1>1 DEF TypeOK, HistoryTypeOK
  <2>2. route[r] \in {"CreateOne", "DuplicateOne"} => pc'[r] # "write"
    BY <1>2, <1>3, <1>4 DEF DuplicateRoutes, CreateRoutes
  <2> QED
    BY <1>1, <1>3, <1>8, <2>1, <2>2 DEF OneWrite, OneTarget, SingleWriteRoutes, reqVars
<1>10. Counted(r)'
  <2>1. route[r] \in DeleteRoutes => FoundEnough(r, f) \/ rest # {}
    BY DEF FoundEnough, DeleteRoutes
  <2> QED
    BY <1>1, <1>2, <1>3, <1>4, <2>1 DEF RequestInv, Counted, reqVars
<1> QED
  BY <1>5, <1>6, <1>7, <1>8, <1>9, <1>10 DEF RequestInv

LEMMA RefetchKeeps ==
  ASSUME TypeOK, NEW r \in Requests, NEW i \in Ids, RequestInv(r), Refetch(r, i)
  PROVE  RequestInv(r)'
<1>1. /\ pc[r] = "refetch" /\ i \in todo[r]
      /\ todo'[r] = todo[r] \ {i}
      /\ UNCHANGED <<reqVars, found, made, count, effect, sawLive, threw>>
      /\ \/ pc'[r] = "refetch" /\ resp'[r] = resp[r]
         \/ pc'[r] = "after" /\ resp'[r] = resp[r] /\ todo'[r] = {}
         \/ /\ pc'[r] = "done" /\ resp'[r] = "failed" /\ todo'[r] = {}
            /\ route[r] \in {"CreateOne", "DuplicateOne"}
  BY TodoAt, ReplyAt, AdvanceAt DEF TypeOK, Refetch, Visits, RereadAnswer, histVars
<1> QED
  BY <1>1
     DEF RequestInv, StartedClean, AnsweredOnce, Creates, NothingLeft, OneFind, OneTarget,
         OneWrite, Counted, Refused, RefusalOK, HttpErrors, reqVars, DeleteRoutes

LEMMA InsertDocKeeps ==
  ASSUME TypeOK, NEW r \in Requests, NEW i \in Ids, RequestInv(r), InsertDoc(r, i)
  PROVE  RequestInv(r)'
<1> DEFINE rest == todo[r] \ {i}
<1>1. /\ pc[r] \in {"write", "done"} /\ i \in todo[r] \cap made[r]
      /\ UNCHANGED <<reqVars, found, made, count, sawLive, threw>>
      /\ effect'[r] = effect[r] \/ effect'[r] = effect[r] \cup {i}
  BY DEF TypeOK, HistoryTypeOK, InsertDoc, Wrote
<1>2. \/ /\ pc[r] = "write" /\ pc'[r] = "done" /\ resp'[r] = "conflict"
         /\ effect'[r] = effect[r] /\ todo'[r] = rest
      \/ /\ pc[r] = "write" /\ rest = {} /\ pc'[r] = "refetch" /\ resp'[r] = resp[r]
      \/ /\ pc[r] = "write" => rest # {}
         /\ pc'[r] = pc[r] /\ resp'[r] = resp[r] /\ rep'[r] = rep[r]
         /\ todo'[r] = rest
      \/ /\ pc[r] = "done"
         /\ pc'[r] = pc[r] /\ resp'[r] = resp[r] /\ rep'[r] = rep[r]
         /\ todo'[r] = rest
  BY TodoAt, ReplyAt, AdvanceAt DEF TypeOK, InsertDoc
<1>3. /\ route[r] \in CreateRoutes \cup DuplicateRoutes /\ route[r] \notin DeleteRoutes
      /\ Parallel(r)' = Parallel(r)
      /\ Parallel(r) \/ route[r] \in {"CreateOne", "DuplicateOne"}
  BY <1>1 DEF RequestInv, Creates, CreateRoutes, DuplicateRoutes, DeleteRoutes, Parallel, reqVars
<1>4. pc[r] = "done" => Parallel(r) /\ resp[r] # "ok"
  BY <1>1 DEF RequestInv, NothingLeft
<1>5. pc[r] = "write" /\ ~Parallel(r) => rest = {} /\ effect[r] = {}
  BY <1>1, <1>3 DEF RequestInv, OneWrite, SingleWriteRoutes
<1>6. Parallel(r) => route[r] \notin SingleWriteRoutes
  BY <1>3 DEF Parallel, SingleWriteRoutes
<1>7. pc[r] = "write" => resp[r] = "none"
  BY DEF RequestInv, AnsweredOnce
<1>8. NothingLeft(r)' /\ OneWrite(r)' /\ RefusalOK(r)'
  BY <1>1, <1>2, <1>3, <1>4, <1>5, <1>6, <1>7
     DEF RequestInv, NothingLeft, OneWrite, Refused, RefusalOK, HttpErrors, reqVars
<1> QED
  BY <1>1, <1>2, <1>3, <1>7, <1>8
     DEF RequestInv, StartedClean, AnsweredOnce, Creates, OneFind, OneTarget, Counted,
         reqVars, CreateRoutes, DuplicateRoutes

LEMMA UpdateOneDocKeeps ==
  ASSUME TypeOK, NEW r \in Requests, NEW i \in Ids, RequestInv(r), UpdateOneDoc(r, i)
  PROVE  RequestInv(r)'
<1>1. /\ pc[r] = "write" /\ route[r] = "UpdateOne" /\ todo'[r] = {}
      /\ UNCHANGED <<reqVars, found, made, count, sawLive, threw>>
      /\ \/ pc'[r] = "done" /\ effect'[r] = effect[r]
         \/ pc'[r] = "after" /\ resp'[r] = resp[r]
  BY TodoAt, ReplyAt, AdvanceAt DEF TypeOK, UpdateOneDoc
<1>2. effect[r] = {} /\ resp[r] = "none"
  BY <1>1 DEF RequestInv, OneWrite, AnsweredOnce, SingleWriteRoutes
<1> QED
  BY <1>1, <1>2
     DEF RequestInv, StartedClean, AnsweredOnce, Creates, NothingLeft, OneFind, OneTarget,
         OneWrite, Counted, Refused, RefusalOK, HttpErrors, reqVars, DeleteRoutes

LEMMA ReplaceDocKeeps ==
  ASSUME TypeOK, NEW r \in Requests, NEW i \in Ids, RequestInv(r), ReplaceDoc(r, i)
  PROVE  RequestInv(r)'
<1>1. /\ pc[r] = "write" /\ route[r] = "ReplaceOne" /\ todo'[r] = {}
      /\ UNCHANGED <<reqVars, found, made, count, sawLive, threw>>
      /\ \/ pc'[r] = "done" /\ effect'[r] = effect[r]
         \/ pc'[r] = "after" /\ resp'[r] = resp[r]
  BY TodoAt, ReplyAt, AdvanceAt DEF TypeOK, ReplaceDoc
<1>2. effect[r] = {} /\ resp[r] = "none"
  BY <1>1 DEF RequestInv, OneWrite, AnsweredOnce, SingleWriteRoutes
<1> QED
  BY <1>1, <1>2
     DEF RequestInv, StartedClean, AnsweredOnce, Creates, NothingLeft, OneFind, OneTarget,
         OneWrite, Counted, Refused, RefusalOK, HttpErrors, reqVars, DeleteRoutes

LEMMA UpdateManyDocKeeps ==
  ASSUME TypeOK, NEW r \in Requests, NEW i \in Ids, RequestInv(r), UpdateManyDoc(r, i)
  PROVE  RequestInv(r)'
<1> DEFINE rest == todo[r] \ {i}
<1>1. /\ pc[r] \in {"write", "done"} /\ route[r] = "UpdateMany" /\ i \in todo[r]
      /\ UNCHANGED <<reqVars, found, made, count, sawLive, threw>>
      /\ Parallel(r)' = Parallel(r)
  BY DEF UpdateManyDoc, Parallel, reqVars
<1>2. \/ /\ pc[r] = "write" /\ pc'[r] = "done" /\ resp'[r] = "conflict"
         /\ Parallel(r) \/ todo'[r] = {}
      \/ pc[r] = "write" /\ pc'[r] = "refetch" /\ resp'[r] = resp[r]
      \/ pc'[r] = pc[r] /\ resp'[r] = resp[r]
  BY TodoAt, ReplyAt, AdvanceAt DEF TypeOK, UpdateManyDoc, AfterClash
<1>3. pc[r] = "done" => Parallel(r) /\ resp[r] # "ok"
  BY <1>1 DEF RequestInv, NothingLeft
<1>4. pc[r] = "write" => resp[r] = "none"
  BY DEF RequestInv, AnsweredOnce
<1>5. NothingLeft(r)' /\ AnsweredOnce(r)' /\ RefusalOK(r)'
  BY <1>1, <1>2, <1>3, <1>4 
     DEF RequestInv, NothingLeft, AnsweredOnce, Refused, RefusalOK, HttpErrors, reqVars,
         SingleWriteRoutes
<1> QED
  BY <1>1, <1>2, <1>5
     DEF RequestInv, StartedClean, Creates, OneFind, OneTarget, OneWrite, Counted,
         reqVars, DeleteRoutes, SingleWriteRoutes

LEMMA RemoveDocKeeps ==
  ASSUME TypeOK, NEW r \in Requests, NEW i \in Ids, RequestInv(r), RemoveDoc(r, i)
  PROVE  RequestInv(r)'
<1>1. /\ pc[r] = "write" /\ route[r] \in DeleteRoutes /\ i \in todo[r]
      /\ todo'[r] = todo[r] \ {i}
      /\ UNCHANGED <<reqVars, found, made, sawLive, threw>>
      /\ \/ pc'[r] = "after" /\ todo'[r] = {}
         \/ pc'[r] = "write"
      /\ resp'[r] = resp[r]
  BY TodoAt, AdvanceAt DEF TypeOK, RemoveDoc, Visits
<1>2. \/ effect'[r] = effect[r] \cup {i} /\ count'[r] = count[r] + 1
      \/ effect'[r] = effect[r] /\ count'[r] = count[r]
  BY DEF TypeOK, HistoryTypeOK, WorkTypeOK, RemoveDoc, Wrote
<1>3. Counted(r)'
  <2>1. /\ IsFiniteSet(effect[r]) /\ count[r] = Cardinality(effect[r])
        /\ effect[r] \cap todo[r] = {}
    BY <1>1 DEF RequestInv, Counted
  <2>2. /\ IsFiniteSet(effect[r] \cup {i})
        /\ Cardinality(effect[r] \cup {i}) = Cardinality(effect[r]) + 1
    BY <1>1, <2>1, FS_AddElement
  <2> QED
    BY <1>1, <1>2, <2>1, <2>2 DEF Counted
<1>4. resp[r] = "none"
  BY <1>1 DEF RequestInv, AnsweredOnce
<1> QED
  BY <1>1, <1>3, <1>4
     DEF RequestInv, StartedClean, AnsweredOnce, Creates, NothingLeft, OneFind, OneTarget,
         OneWrite, Refused, RefusalOK, HttpErrors, reqVars, DeleteRoutes, SingleWriteRoutes

-----------------------------------------------------------------------------
(* What relates the requests and the store.                                *)

StoreInv == MadeFresh /\ Claimed /\ DeletedOnce

Others(r) == Requests \ {r}

LEMMA QuietStore ==
  ASSUME TypeOK, StoreInv, NEW r \in Requests, \A s \in Others(r) : Untouched(s),
         UNCHANGED <<status, made, effect, revived>>,
         route'[r] = route[r] \/ effect[r] = {},
         pc'[r] \in {"write", "done"} =>
           \/ todo'[r] \cap made[r] = {}
           \/ pc[r] \in {"write", "done"} /\ todo'[r] \subseteq todo[r]
  PROVE  StoreInv'
<1>1. MadeFresh'
  BY DEF StoreInv, MadeFresh, Untouched, Others
<1>2. \A s \in Requests : route'[s] = route[s] \/ effect[s] = {}
  BY DEF Untouched, Others
<1>3. Claimed'
  BY <1>2 DEF StoreInv, Claimed
<1>4. DeletedOnce'
  BY <1>2 DEF StoreInv, DeletedOnce
<1> QED
  BY <1>1, <1>3, <1>4 DEF StoreInv

LEMMA ArriveStore ==
  ASSUME TypeOK, StoreInv, NEW r \in Requests, RequestInv(r), Arrive(r)
  PROVE  StoreInv'
<1>1. effect[r] = {} /\ made[r] = {}
  BY DEF RequestInv, StartedClean, Arrive
<1> QED
  BY <1>1, ArriveOthers, QuietStore DEF Arrive, collVars, histVars, Others

LEMMA RejectIdsStore ==
  ASSUME TypeOK, StoreInv, NEW r \in Requests, RequestInv(r), RejectIds(r)
  PROVE  StoreInv'
<1>1. todo'[r] = {}
  BY TodoAt DEF TypeOK, RejectIds
<1> QED
  BY <1>1, RejectIdsOthers, QuietStore DEF RejectIds, collVars, reqVars, histVars, Others

LEMMA BeforeStore ==
  ASSUME TypeOK, StoreInv, NEW r \in Requests, RequestInv(r), Before(r)
  PROVE  StoreInv'
<1>1. made[r] = {}
  BY DEF RequestInv, StartedClean, Before
<1> QED
  BY <1>1, BeforeOthers, QuietStore DEF Before, collVars, reqVars, Others

LEMMA AfterStore ==
  ASSUME TypeOK, StoreInv, NEW r \in Requests, RequestInv(r), After(r)
  PROVE  StoreInv'
<1>1. todo'[r] = {}
  BY DEF RequestInv, NothingLeft, After
<1> QED
  BY <1>1, AfterOthers, QuietStore DEF After, collVars, reqVars, Others

LEMMA DbFailStore ==
  ASSUME TypeOK, StoreInv, NEW r \in Requests, RequestInv(r), DbFail(r)
  PROVE  StoreInv'
<1>1. todo'[r] = {} \/ (pc[r] = "write" /\ todo'[r] \subseteq todo[r])
  BY TodoAt DEF TypeOK, DbFail
<1> QED
  BY <1>1, DbFailOthers, QuietStore DEF DbFail, collVars, reqVars, Others

LEMMA ReadDocStore ==
  ASSUME TypeOK, StoreInv, NEW r \in Requests, NEW i \in Ids, RequestInv(r), ReadDoc(r, i)
  PROVE  StoreInv'
<1>1. made[r] = {}
  BY DEF RequestInv, StartedClean, ReadDoc
<1> QED
  BY <1>1, ReadDocOthers, QuietStore DEF ReadDoc, collVars, reqVars, Others

LEMMA RefetchStore ==
  ASSUME TypeOK, StoreInv, NEW r \in Requests, NEW i \in Ids, RequestInv(r), Refetch(r, i)
  PROVE  StoreInv'
<1>1. todo'[r] = {} \/ pc'[r] = "refetch"
  BY TodoAt, AdvanceAt DEF TypeOK, Refetch
<1> QED
  BY <1>1, RefetchOthers, QuietStore DEF Refetch, collVars, reqVars, histVars, Others

LEMMA BuildStore ==
  ASSUME TypeOK, StoreInv, NEW r \in Requests, RequestInv(r), Build(r)
  PROVE  StoreInv'
<1>1. PICK M \in SUBSET Fresh : made' = [made EXCEPT ![r] = M] /\ SetTodo(r, M)
  BY DEF Build
<1>2. made'[r] = M /\ todo'[r] = M
  BY <1>1, TodoAt DEF TypeOK, WorkTypeOK
<1>3. \A s \in Others(r) : Untouched(s)
  BY BuildOthers DEF Others
<1>4. UNCHANGED <<status, content, route, effect, revived>>
  BY DEF Build, collVars, reqVars, histVars
<1>5. M \subseteq Ids /\ \A i \in M : status[i] = "free" /\ \A s \in Requests : i \notin made[s]
  BY DEF Fresh
<1>6. MadeFresh'
  <2>1. \A q, s \in Requests : q # s => made'[q] \cap made'[s] = {}
    BY <1>2, <1>3, <1>5 DEF StoreInv, MadeFresh, Untouched, Others
  <2>2. \A s \in Requests : pc'[s] \in {"write", "done"} =>
          \A i \in todo'[s] \cap made'[s] : status[i] = "free"
    BY <1>2, <1>3, <1>5 DEF StoreInv, MadeFresh, Untouched, Others
  <2> QED
    BY <2>1, <2>2, <1>4 DEF MadeFresh
<1> QED
  BY <1>4, <1>6 DEF StoreInv, Claimed, DeletedOnce

-----------------------------------------------------------------------------
(* The writes.                                                             *)

\* A route that deletes nothing makes no claim, and a free document nobody claims.
LEMMA InsertDocStore ==
  ASSUME TypeOK, StoreInv, NEW r \in Requests, NEW i \in Ids, RequestInv(r), InsertDoc(r, i)
  PROVE  StoreInv'
<1>1. \A s \in Others(r) : Untouched(s)
  BY WriteOthers DEF WriteDoc, Others
<1>2. /\ pc[r] \in {"write", "done"} /\ i \in todo[r] \cap made[r] /\ status[i] = "free"
      /\ UNCHANGED <<route, made, revived>>
      /\ pc'[r] \in {"write", "done"} => todo'[r] = todo[r] \ {i}
  <2>1. pc[r] \in {"write", "done"} /\ i \in todo[r] \cap made[r]
          /\ UNCHANGED <<route, made, revived>>
    BY DEF InsertDoc, reqVars
  <2>2. status[i] = "free"
    BY <2>1 DEF StoreInv, MadeFresh
  <2>3. pc'[r] \in {"write", "done"} => todo'[r] = todo[r] \ {i}
    BY TodoAt, AdvanceAt DEF TypeOK, InsertDoc
  <2> QED
    BY <2>1, <2>2, <2>3
<1>3. \A j \in Ids \ {i} : status'[j] = status[j]
  BY DEF InsertDoc, TypeOK, StoreTypeOK, collVars
<1>4. route[r] \notin DeleteRoutes
  BY <1>2 DEF RequestInv, Creates, CreateRoutes, DuplicateRoutes, DeleteRoutes
<1>5. \A s \in Requests : made[s] \subseteq Ids /\ effect[s] \subseteq Ids
  BY DEF TypeOK, WorkTypeOK, HistoryTypeOK
<1>6. MadeFresh'
  <2>1. \A s \in Others(r) : i \notin made[s]
    BY <1>2 DEF StoreInv, MadeFresh, Others
  <2>2. ASSUME NEW s \in Requests, pc'[s] \in {"write", "done"},
               NEW j \in todo'[s] \cap made[s]
        PROVE  status'[j] = "free"
    <3>1. j \in Ids \ {i} /\ j \in todo[s] /\ pc[s] \in {"write", "done"}
      BY <1>1, <1>2, <1>5, <2>1, <2>2 DEF Untouched, Others
    <3> QED
      BY <1>3, <2>2, <3>1 DEF StoreInv, MadeFresh
  <2> QED
    BY <1>2, <2>2 DEF StoreInv, MadeFresh
<1>7. \A s \in Requests : route[s] \in DeleteRoutes => effect'[s] = effect[s]
  BY <1>1, <1>4 DEF Untouched, Others
<1>8. Claimed'
  <2> SUFFICES ASSUME NEW s \in Requests, route[s] \in DeleteRoutes, NEW j \in effect[s]
               PROVE  status'[j] \in {"deleted", "gone"} \/ j \in revived
    BY <1>2, <1>7 DEF Claimed
  <2>1. status[j] \in {"deleted", "gone"} \/ j \in revived
    BY DEF StoreInv, Claimed
  <2>2. j \in Ids
    BY <1>5
  <2> QED
    BY <1>2, <1>3, <2>1, <2>2
<1>9. DeletedOnce'
  BY <1>2, <1>7 DEF StoreInv, DeletedOnce
<1> QED
  BY <1>6, <1>8, <1>9 DEF StoreInv

\* The writes of a request that neither creates nor deletes leave a document's status
\* alone, or bring a deleted document back and record it.
Kept(j) ==
  \/ status'[j] = status[j]
  \/ status[j] \notin {"free", "gone"} /\ (status[j] = "deleted" => j \in revived')

LEMMA RewriteStore ==
  ASSUME TypeOK, StoreInv, NEW r \in Requests, \A s \in Others(r) : Untouched(s),
         route[r] \notin DeleteRoutes, made[r] = {},
         UNCHANGED <<route, made>>,
         revived \subseteq revived',
         \A j \in Ids : Kept(j)
  PROVE  StoreInv'
<1>1. \A s \in Requests : made[s] \subseteq Ids /\ effect[s] \subseteq Ids
  BY DEF TypeOK, WorkTypeOK, HistoryTypeOK
<1>2. \A s \in Requests : route[s] \in DeleteRoutes => effect'[s] = effect[s]
  BY DEF Untouched, Others
<1>3. MadeFresh'
  <2> SUFFICES ASSUME NEW s \in Requests, pc'[s] \in {"write", "done"},
                      NEW j \in todo'[s] \cap made[s]
               PROVE  status'[j] = "free"
    BY DEF StoreInv, MadeFresh
  <2>1. pc[s] \in {"write", "done"} /\ j \in todo[s] \cap made[s] /\ j \in Ids
    BY <1>1 DEF Untouched, Others
  <2> QED
    BY <2>1 DEF StoreInv, MadeFresh, Kept
<1>4. Claimed'
  <2> SUFFICES ASSUME NEW s \in Requests, route[s] \in DeleteRoutes, NEW j \in effect[s]
               PROVE  status'[j] \in {"deleted", "gone"} \/ j \in revived'
    BY <1>2 DEF Claimed
  <2>1. (status[j] \in {"deleted", "gone"} \/ j \in revived) /\ j \in Ids
    BY <1>1 DEF StoreInv, Claimed
  <2> QED
    BY <2>1 DEF Kept
<1>5. DeletedOnce'
  BY <1>2 DEF StoreInv, DeletedOnce
<1> QED
  BY <1>3, <1>4, <1>5 DEF StoreInv

LEMMA UpdateOneDocStore ==
  ASSUME TypeOK, StoreInv, NEW r \in Requests, NEW i \in Ids, RequestInv(r), UpdateOneDoc(r, i)
  PROVE  StoreInv'
<1>1. route[r] \notin DeleteRoutes /\ made[r] = {}
  BY DEF UpdateOneDoc, RequestInv, Creates, DeleteRoutes, CreateRoutes, DuplicateRoutes
<1>2. \A s \in Others(r) : Untouched(s)
  BY WriteOthers DEF WriteDoc, Others
<1>3. UNCHANGED <<route, made, revived>> /\ \A j \in Ids : Kept(j)
  BY DEF UpdateOneDoc, reqVars, Kept
<1> QED
  BY <1>1, <1>2, <1>3, RewriteStore

LEMMA UpdateManyDocStore ==
  ASSUME TypeOK, StoreInv, NEW r \in Requests, NEW i \in Ids, RequestInv(r),
         UpdateManyDoc(r, i)
  PROVE  StoreInv'
<1>1. route[r] \notin DeleteRoutes /\ made[r] = {}
  BY DEF UpdateManyDoc, RequestInv, Creates, DeleteRoutes, CreateRoutes, DuplicateRoutes
<1>2. \A s \in Others(r) : Untouched(s)
  BY WriteOthers DEF WriteDoc, Others
<1>3. UNCHANGED <<route, made, revived>> /\ \A j \in Ids : Kept(j)
  BY DEF UpdateManyDoc, reqVars, Kept
<1> QED
  BY <1>1, <1>2, <1>3, RewriteStore

LEMMA ReplaceDocStore ==
  ASSUME TypeOK, StoreInv, NEW r \in Requests, NEW i \in Ids, RequestInv(r), ReplaceDoc(r, i)
  PROVE  StoreInv'
<1>1. route[r] \notin DeleteRoutes /\ made[r] = {}
  BY DEF ReplaceDoc, RequestInv, Creates, DeleteRoutes, CreateRoutes, DuplicateRoutes
<1>2. \A s \in Others(r) : Untouched(s)
  BY WriteOthers DEF WriteDoc, Others
<1>3. revived \subseteq revived'
  BY DEF ReplaceDoc
<1>4. UNCHANGED <<route, made>> /\ \A j \in Ids : Kept(j)
  BY DEF ReplaceDoc, TypeOK, StoreTypeOK, Stored, collVars, reqVars, Kept
<1> QED
  BY <1>1, <1>2, <1>3, <1>4, RewriteStore

\* Whoever removes a document finds it live, so nobody has a claim on it unless it came
\* back after an earlier deletion.
LEMMA RemoveDocStore ==
  ASSUME TypeOK, StoreInv, NEW r \in Requests, NEW i \in Ids, RequestInv(r), RemoveDoc(r, i)
  PROVE  StoreInv'
<1>1. /\ pc[r] = "write" /\ route[r] \in DeleteRoutes /\ made[r] = {}
      /\ UNCHANGED <<route, made, revived>>
  BY DEF RemoveDoc, RequestInv, Creates, DeleteRoutes, CreateRoutes, DuplicateRoutes, reqVars
<1>2. \A s \in Others(r) : Untouched(s)
  BY WriteOthers DEF WriteDoc, Others
<1>3. \/ UNCHANGED <<status, effect>>
      \/ /\ status[i] = "live" /\ status'[i] \in {"deleted", "gone"}
         /\ \A j \in Ids \ {i} : status'[j] = status[j]
         /\ effect'[r] = effect[r] \cup {i}
  BY DEF RemoveDoc, Removable, Wrote, TypeOK, StoreTypeOK, HistoryTypeOK
<1>4. \A s \in Requests : made[s] \subseteq Ids /\ effect[s] \subseteq Ids
  BY DEF TypeOK, WorkTypeOK, HistoryTypeOK
<1>5. CASE UNCHANGED <<status, effect>>
  BY <1>1, <1>2, <1>5, QuietStore
<1>6. CASE ~UNCHANGED <<status, effect>>
  <2>1. MadeFresh'
    <3> SUFFICES ASSUME NEW s \in Requests, pc'[s] \in {"write", "done"},
                        NEW j \in todo'[s] \cap made[s]
                 PROVE  status'[j] = "free"
      BY <1>1 DEF StoreInv, MadeFresh
    <3>1. pc[s] \in {"write", "done"} /\ j \in todo[s] \cap made[s] /\ j \in Ids
      BY <1>1, <1>2, <1>4 DEF Untouched, Others
    <3> QED
      BY <1>3, <1>6, <3>1 DEF StoreInv, MadeFresh
  <2>2. \A s \in Requests \ {r} : route[s] \in DeleteRoutes /\ i \in effect[s] => i \in revived
    BY <1>3, <1>6 DEF StoreInv, Claimed
  <2>3. \A s \in Requests \ {r} : effect'[s] = effect[s]
    BY <1>2 DEF Untouched, Others
  <2>4. Claimed'
    <3> SUFFICES ASSUME NEW s \in Requests, route[s] \in DeleteRoutes, NEW j \in effect'[s]
                 PROVE  status'[j] \in {"deleted", "gone"} \/ j \in revived
      BY <1>1 DEF Claimed
    <3>1. CASE j = i
      BY <1>3, <1>6, <3>1
    <3>2. CASE j # i
      <4>1. j \in effect[s] /\ j \in Ids
        BY <1>3, <1>4, <1>6, <2>3, <3>2
      <4> QED
        BY <1>3, <1>6, <3>2, <4>1 DEF StoreInv, Claimed
    <3> QED
      BY <3>1, <3>2
  <2>5. DeletedOnce'
    BY <1>1, <1>3, <1>6, <2>2, <2>3 DEF StoreInv, DeletedOnce
  <2> QED
    BY <2>1, <2>4, <2>5 DEF StoreInv
<1> QED
  BY <1>5, <1>6

-----------------------------------------------------------------------------
(* The invariant.                                                          *)

LEMMA InvInit == Init => IInv
<1> SUFFICES ASSUME Init PROVE IInv
  OBVIOUS
<1>1. \A r \in Requests : RequestInv(r)
  BY DEF Init, RequestInv, StartedClean, AnsweredOnce, Creates, NothingLeft, OneFind,
         OneTarget, OneWrite, Counted, Refused, RefusalOK, HttpErrors, DeleteRoutes
<1>2. MadeFresh /\ Claimed /\ DeletedOnce
  BY DEF Init, MadeFresh, Claimed, DeletedOnce
<1> QED
  BY <1>1, <1>2, TypeInit DEF IInv

LEMMA InvStep == IInv /\ [Next]_vars => IInv'
<1> SUFFICES ASSUME IInv, [Next]_vars PROVE IInv'
  OBVIOUS
<1>1. TypeOK'
  BY TypeStep DEF IInv
<1>2. CASE UNCHANGED vars
  <2>1. \A s \in Requests : Untouched(s)
    BY <1>2 DEF vars, Untouched
  <2>2. \A s \in Requests : RequestInv(s)'
    BY <2>1, UntouchedKeeps DEF IInv
  <2> QED
    BY <1>1, <1>2, <2>2 DEF IInv, vars, MadeFresh, Claimed, DeletedOnce
<1>3. CASE Next /\ ~UNCHANGED vars
  <2>1. PICK r \in Requests :
          \/ Arrive(r) \/ RejectIds(r) \/ Before(r) \/ Build(r) \/ After(r) \/ DbFail(r)
          \/ \E i \in Ids : ReadDoc(r, i) \/ Refetch(r, i) \/ WriteDoc(r, i)
    BY <1>3, NextCases DEF WriteDoc
  <2>2. TypeOK /\ RequestInv(r) /\ StoreInv
    BY DEF IInv, StoreInv
  <2>3. \A s \in Requests \ {r} : Untouched(s)
    BY <2>1, <2>2, ArriveOthers, RejectIdsOthers, BeforeOthers, BuildOthers,
       AfterOthers, DbFailOthers, ReadDocOthers, RefetchOthers, WriteOthers
  <2>4. \A s \in Requests \ {r} : RequestInv(s)'
    BY <2>3, UntouchedKeeps DEF IInv
  <2>5. RequestInv(r)'
    BY <2>1, <2>2, ArriveKeeps, RejectIdsKeeps, BeforeKeeps, BuildKeeps, AfterKeeps,
       DbFailKeeps, ReadDocKeeps, RefetchKeeps, InsertDocKeeps, UpdateOneDocKeeps,
       ReplaceDocKeeps, UpdateManyDocKeeps, RemoveDocKeeps DEF WriteDoc
  <2>6. StoreInv'
    BY <2>1, <2>2, ArriveStore, RejectIdsStore, BeforeStore, BuildStore, AfterStore,
       DbFailStore, ReadDocStore, RefetchStore, InsertDocStore, UpdateOneDocStore,
       ReplaceDocStore, UpdateManyDocStore, RemoveDocStore DEF WriteDoc
  <2> QED
    BY <1>1, <2>4, <2>5, <2>6 DEF IInv, StoreInv
<1> QED
  BY <1>2, <1>3

LEMMA Invariance == Spec => []IInv
  BY InvInit, InvStep, PTL DEF Spec

\* Of any number of interleaved deletions of a document one removes and counts it, as
\* long as no replacement brings it back: the soft delete's isDeleted: false filter
\* (base-delete-one.service.ts:52) is what Claimed rests on.
THEOREM DeletedOnceHolds == Spec => []DeletedOnce
<1>1. IInv => DeletedOnce
  BY DEF IInv
<1> QED
  BY <1>1, Invariance, PTL

\* The deletedCount of an answer is the number of documents the request removed, or 0
\* after a rejected call.
THEOREM CountReportedHolds == Spec => []CountReported
<1>1. IInv => CountReported
  BY DEF IInv, RequestInv, Counted, CountReported
<1> QED
  BY <1>1, Invariance, PTL

\* Under every interleaving, a 4xx hides a write only where a callback rejected after the
\* write or one of several parallel writes rejected, and the catch classified its error.
THEOREM HiddenWriteExplainedHolds == Spec => []HiddenWriteExplained
<1>1. IInv => HiddenWriteExplained
  BY DEF IInv, RequestInv, RefusalOK, HiddenWriteExplained
<1> QED
  BY <1>1, Invariance, PTL

\* No step of any request makes an answered request write, parallel writes whose first
\* rejection was answered excepted.
THEOREM QuietAfterAnswerHolds == Spec => QuietAfterAnswer
<1> DEFINE Quiet ==
      \A r \in Requests :
        pc[r] = "done" /\ ~(Parallel(r) /\ resp[r] # "ok")
          => effect'[r] = effect[r]
<1>1. IInv /\ [Next]_vars => Quiet
  <2> SUFFICES ASSUME IInv, [Next]_vars, NEW s \in Requests, pc[s] = "done",
                      ~(Parallel(s) /\ resp[s] # "ok")
               PROVE  effect'[s] = effect[s]
    OBVIOUS
  <2>1. todo[s] = {}
    BY DEF IInv, RequestInv, NothingLeft
  <2>2. CASE UNCHANGED vars
    BY <2>2 DEF vars
  <2>3. CASE \E i \in Ids : WriteDoc(s, i)
    BY <2>1, <2>3 DEF WriteDoc, InsertDoc, UpdateOneDoc, ReplaceDoc, UpdateManyDoc,
                      RemoveDoc
  <2>4. CASE \E r \in Requests \ {s}, i \in Ids : WriteDoc(r, i)
    BY <2>4, WriteOthers DEF IInv, Untouched
  <2>5. CASE \E r \in Requests, i \in Ids : ReadDoc(r, i) \/ Refetch(r, i)
    BY <2>5 DEF ReadDoc, Refetch, histVars
  <2>6. CASE \E r \in Requests : \/ Arrive(r) \/ RejectIds(r) \/ Before(r) \/ Build(r)
                                 \/ After(r) \/ DbFail(r)
    BY <2>6 DEF Arrive, RejectIds, Before, Build, After, DbFail, histVars
  <2> QED
    BY <2>2, <2>3, <2>4, <2>5, <2>6, NextCases DEF WriteDoc
<1>2. IInv /\ [Next]_vars => [Quiet]_vars
  BY <1>1
<1> QED
  BY <1>2, Invariance, PTL DEF Spec, QuietAfterAnswer

-----------------------------------------------------------------------------
(* Answers 5xx: a second invariant, preserved wherever the first one holds. *)

Blamed(i) == \E s \in Requests : route[s] \in DeleteRoutes /\ i \in effect[s]

\* A document that a request has found or written is gone by a hard deletion only.
GoneOK(r, i) ==
  i \in found[r] \cup effect[r] /\ status[i] \notin Stored => ~Soft /\ Blamed(i)

\* What a request that fails on a missing document has found or created before.
FailOK(r) ==
  /\ pc[r] \in {"before", "write"} /\ route[r] = "UpdateOne" => todo[r] \subseteq found[r]
  /\ pc[r] = "write" /\ route[r] \in {"CreateOne", "DuplicateOne"} => made[r] \subseteq todo[r]
  /\ pc[r] = "refetch" /\ route[r] \in {"CreateOne", "DuplicateOne"} =>
       todo[r] \subseteq effect[r] \cap made[r]
  /\ resp[r] = "failed" /\ ~threw[r] =>
       \/ route[r] \in {"GetMany", "Aggregate"} /\ Malformed \in ids[r]
       \/ ~Soft /\ \E i \in found[r] \cup made[r] : Blamed(i)

FailureInv == \A r \in Requests : FailOK(r) /\ \A i \in Ids : GoneOK(r, i)

\* What a step may change of the documents requests have found or written: their status
\* only by a deletion.
Change(r, j) ==
  \/ status'[j] \in Stored
  \/ /\ status'[j] = status[j]
     /\ \A s \in Requests : j \in found'[s] \cup effect'[s] => j \in found[s] \cup effect[s]
  \/ ~Soft /\ route'[r] \in DeleteRoutes /\ j \in effect'[r]

LEMMA ReadDocChange ==
  ASSUME TypeOK, NEW r \in Requests, NEW i \in Ids, ReadDoc(r, i), NEW j \in Ids
  PROVE  Change(r, j)
<1>1. UNCHANGED <<status, effect>>
  BY DEF ReadDoc, collVars
<1>2. found' = [found EXCEPT ![r] = IF Matches(r, i) THEN found[r] \cup {i} ELSE found[r]]
  BY DEF ReadDoc
<1>3. Matches(r, i) => status[i] \in Stored
  BY DEF Matches, Stored
<1> QED
  BY <1>1, <1>2, <1>3 DEF Change, TypeOK, WorkTypeOK

LEMMA WriteChange ==
  ASSUME TypeOK, NEW r \in Requests, NEW i \in Ids, WriteDoc(r, i), NEW j \in Ids
  PROVE  Change(r, j)
<1>1. CASE InsertDoc(r, i)
  BY <1>1 DEF InsertDoc, Wrote, Change, Stored, TypeOK, StoreTypeOK, HistoryTypeOK, collVars
<1>2. CASE UpdateOneDoc(r, i)
  BY <1>2 DEF UpdateOneDoc, Wrote, Change, TypeOK, StoreTypeOK, HistoryTypeOK
<1>3. CASE ReplaceDoc(r, i)
  BY <1>3 DEF ReplaceDoc, Wrote, Change, Stored, TypeOK, StoreTypeOK, HistoryTypeOK, collVars
<1>4. CASE UpdateManyDoc(r, i)
  <2>1. UNCHANGED <<status, found>>
    BY <1>4 DEF UpdateManyDoc
  <2>2. \/ UNCHANGED effect
        \/ Wrote(r, i) /\ i \in UpdateManyTargets(r)
    BY <1>4 DEF UpdateManyDoc
  <2>3. i \in UpdateManyTargets(r) => status[i] \in Stored
    BY DEF UpdateManyTargets, Stored
  <2> QED
    BY <2>1, <2>2, <2>3 DEF Wrote, Change, TypeOK, HistoryTypeOK
<1>5. CASE RemoveDoc(r, i)
  <2>1. route'[r] \in DeleteRoutes /\ UNCHANGED found
    BY <1>5 DEF RemoveDoc, reqVars
  <2>2. CASE Removable(i)
    BY <1>5, <2>1, <2>2
       DEF RemoveDoc, Wrote, Change, Stored, TypeOK, StoreTypeOK, HistoryTypeOK
  <2>3. CASE ~Removable(i)
    BY <1>5, <2>1, <2>3 DEF RemoveDoc, Change
  <2> QED
    BY <2>2, <2>3
<1> QED
  BY <1>1, <1>2, <1>3, <1>4, <1>5 DEF WriteDoc

LEMMA QuietChange ==
  ASSUME NEW r \in Requests, NEW j \in Ids,
         \/ Arrive(r) \/ RejectIds(r) \/ Before(r) \/ Build(r) \/ After(r) \/ DbFail(r)
         \/ \E i \in Ids : Refetch(r, i)
  PROVE  Change(r, j)
<1>1. UNCHANGED <<status, found, effect>>
  BY DEF Arrive, RejectIds, Before, Build, After, DbFail, Refetch, collVars, histVars
<1> QED
  BY <1>1 DEF Change

\* A request keeps its route and what it has written.
LEMMA Serving ==
  ASSUME TypeOK, NEW r \in Requests, RequestInv(r),
         \/ Arrive(r) \/ RejectIds(r) \/ Before(r) \/ Build(r) \/ After(r) \/ DbFail(r)
         \/ \E i \in Ids : ReadDoc(r, i) \/ Refetch(r, i) \/ WriteDoc(r, i)
  PROVE  effect[r] \subseteq effect'[r] /\ (effect[r] # {} => route'[r] = route[r])
<1>1. CASE Arrive(r)
  BY <1>1 DEF Arrive, RequestInv, StartedClean
<1>2. CASE RejectIds(r) \/ Before(r) \/ Build(r) \/ After(r) \/ DbFail(r)
             \/ \E i \in Ids : ReadDoc(r, i) \/ Refetch(r, i)
  BY <1>2 DEF RejectIds, Before, Build, After, DbFail, ReadDoc, Refetch, reqVars, histVars
<1>3. ASSUME NEW i \in Ids, WriteDoc(r, i)
      PROVE  UNCHANGED reqVars /\ (UNCHANGED effect \/ Wrote(r, i))
  BY <1>3 DEF WriteDoc, InsertDoc, UpdateOneDoc, ReplaceDoc, UpdateManyDoc, RemoveDoc
<1>4. ASSUME NEW i \in Ids, WriteDoc(r, i)
      PROVE  effect[r] \subseteq effect'[r] /\ route'[r] = route[r]
  BY <1>3, <1>4 DEF Wrote, TypeOK, HistoryTypeOK, reqVars
<1> QED
  BY <1>1, <1>2, <1>4

LEMMA BlamedStays ==
  ASSUME NEW r \in Requests, \A s \in Requests \ {r} : Untouched(s),
         effect[r] \subseteq effect'[r], effect[r] # {} => route'[r] = route[r],
         NEW i, Blamed(i)
  PROVE  Blamed(i)'
BY DEF Blamed, Untouched

LEMMA GoneKeeps ==
  ASSUME NEW r \in Requests, \A s \in Requests \ {r} : Untouched(s),
         effect[r] \subseteq effect'[r], effect[r] # {} => route'[r] = route[r],
         NEW i \in Ids, Change(r, i), NEW s \in Requests, GoneOK(s, i)
  PROVE  GoneOK(s, i)'
<1>1. Blamed(i) => Blamed(i)'
  BY BlamedStays
<1> QED
  BY <1>1 DEF GoneOK, Change, Blamed

\* The request served: no step but the answers of UpdateOneDoc and Refetch fails without
\* a rejected call.
LEMMA ControlFail ==
  ASSUME TypeOK, NEW r \in Requests, RequestInv(r), FailOK(r),
         \/ Arrive(r) \/ RejectIds(r) \/ Before(r) \/ Build(r) \/ After(r) \/ DbFail(r)
  PROVE  FailOK(r)'
<1>1. CASE Arrive(r)
  <2>1. /\ resp'[r] = "none" /\ pc'[r] \in {"find", "before", "build"}
        /\ pc'[r] = "before" => route'[r] \in CreateRoutes
    <3>1. PICK t \in Routes : /\ route' = [route EXCEPT ![r] = t]
                              /\ Advance(r, IF t \notin CreateRoutes THEN "find"
                                            ELSE IF t \in BeforeHooks THEN "before" ELSE "build")
      BY <1>1 DEF Arrive
    <3> QED
      BY <3>1, <1>1, AdvanceAt
         DEF Arrive, TypeOK, InputTypeOK, RequestInv, AnsweredOnce
  <2> QED
    BY <2>1 DEF FailOK, CreateRoutes
<1>2. CASE RejectIds(r)
  <2>1. /\ pc'[r] = "done" /\ Malformed \in ids[r] /\ UNCHANGED <<route, ids>>
        /\ \/ resp'[r] \in {"ok", "notFound"}
           \/ route[r] \in {"GetMany", "Aggregate"}
    <3>1. /\ pc[r] = "find" /\ Malformed \in ids[r] /\ UNCHANGED <<route, ids>>
          /\ Throw(r, IF route[r] = "Aggregate" THEN "error" ELSE "CastError")
      BY <1>2 DEF RejectIds, reqVars
    <3>2. route[r] \notin {"GetMany", "Aggregate", "CreateOne"}
            => Caught(r, "CastError") = "notFound"
      BY DEF Caught, HandleBoth, HandleMongoErrors
    <3>3. route[r] # "CreateOne"
      BY <3>1 DEF RequestInv, Creates, CreateRoutes
    <3> QED
      BY <3>1, <3>2, <3>3, ThrowAt DEF TypeOK
  <2> QED
    BY <2>1 DEF FailOK
<1>3. CASE Before(r)
  <2>1. \/ /\ pc[r] = "before" /\ resp'[r] = resp[r] /\ UNCHANGED todo
           /\ pc'[r] = IF route[r] \in CreateRoutes \cup DuplicateRoutes THEN "build" ELSE "write"
        \/ pc'[r] = "done" /\ threw'[r]
    BY <1>3, AdvanceAt, ThrowAt DEF Before, TypeOK, HistoryTypeOK
  <2>2. UNCHANGED <<route, found>>
    BY <1>3 DEF Before, reqVars
  <2>3. resp[r] = "none" \/ pc'[r] = "done"
    BY <2>1 DEF RequestInv, AnsweredOnce
  <2> QED
    BY <2>1, <2>2, <2>3 DEF FailOK, CreateRoutes, DuplicateRoutes
<1>4. CASE Build(r)
  <2>1. /\ pc[r] = "build" /\ pc'[r] = "write" /\ resp'[r] = resp[r] /\ todo'[r] = made'[r]
        /\ UNCHANGED route
    BY <1>4, AdvanceAt, TodoAt DEF Build, reqVars, TypeOK, WorkTypeOK
  <2>2. resp[r] = "none" /\ route[r] # "UpdateOne"
    BY <2>1 DEF RequestInv, AnsweredOnce, Creates, CreateRoutes, DuplicateRoutes
  <2> QED
    BY <2>1, <2>2 DEF FailOK
<1>5. CASE After(r) \/ DbFail(r)
  <2>1. pc'[r] = "done" /\ (resp'[r] = "ok" \/ threw'[r])
    BY <1>5, ReplyAt, ThrowAt DEF After, DbFail, TypeOK, HistoryTypeOK
  <2> QED
    BY <2>1 DEF FailOK
<1> QED
  BY <1>1, <1>2, <1>3, <1>4, <1>5

\* UpdateOne goes on to its write only if its find returned the document.
LEMMA ReadDocFail ==
  ASSUME TypeOK, NEW r \in Requests, NEW i \in Ids, RequestInv(r), FailOK(r), ReadDoc(r, i)
  PROVE  FailOK(r)'
<1> DEFINE f == IF Matches(r, i) THEN found[r] \cup {i} ELSE found[r]
           rest == todo[r] \ {i}
<1>1. /\ pc[r] = "find" /\ i \in todo[r] /\ UNCHANGED route /\ found'[r] = f
  BY DEF TypeOK, WorkTypeOK, ReadDoc, Visits, reqVars
<1>2. \/ pc'[r] = "find" /\ resp'[r] = resp[r]
      \/ pc'[r] = "done" /\ resp'[r] \in {"ok", "notFound"}
      \/ /\ rest = {} /\ FoundEnough(r, f)
         /\ todo'[r] = IF route[r] \in ReadRoutes \cup DuplicateRoutes THEN {} ELSE ids[r]
         /\ pc'[r] = AfterFind(r) /\ resp'[r] = resp[r]
  BY TodoAt, ThrowAt, AdvanceAt, CaughtTyped DEF TypeOK, ReadDoc, Errors, HttpErrors
<1>3. resp[r] = "none" /\ route[r] \notin CreateRoutes
  BY <1>1 DEF RequestInv, AnsweredOnce, Creates
<1>4. /\ AfterFind(r) \in {"after", "before", "build", "write"}
      /\ AfterFind(r) = "write" => route[r] \notin DuplicateRoutes
  BY DEF AfterFind
<1>5. ASSUME route[r] = "UpdateOne", pc'[r] \in {"before", "write"}
      PROVE  todo'[r] \subseteq found'[r]
  <2>1. rest = {} /\ FoundEnough(r, f) /\ todo'[r] = ids[r]
    BY <1>2, <1>5 DEF ReadRoutes, DuplicateRoutes
  <2>2. found[r] = {} /\ ids[r] = {i}
    BY <1>1, <1>5, <2>1 DEF RequestInv, OneFind, OneIdRoutes
  <2>3. f # {}
    BY <1>5, <2>1 DEF FoundEnough
  <2> QED
    BY <1>1, <2>1, <2>2, <2>3
<1> QED
  BY <1>1, <1>2, <1>3, <1>4, <1>5 DEF FailOK, CreateRoutes, DuplicateRoutes

\* The re-read of a document just created finds nothing only if it has been deleted.
LEMMA RefetchFail ==
  ASSUME TypeOK, NEW r \in Requests, NEW i \in Ids, RequestInv(r), FailOK(r), GoneOK(r, i),
         Blamed(i) => Blamed(i)', Refetch(r, i)
  PROVE  FailOK(r)'
<1>1. /\ pc[r] = "refetch" /\ i \in todo[r] /\ todo'[r] = todo[r] \ {i}
      /\ UNCHANGED <<route, found, made, effect, threw>> /\ resp[r] = "none"
  BY TodoAt DEF TypeOK, Refetch, Visits, histVars, reqVars, RequestInv, AnsweredOnce
<1>2. \/ pc'[r] \in {"refetch", "after"} /\ resp'[r] = resp[r]
      \/ /\ pc'[r] = "done" /\ resp'[r] = "failed" /\ ~Reread(i)
         /\ route[r] \in {"CreateOne", "DuplicateOne"}
  BY ReplyAt, AdvanceAt DEF TypeOK, Refetch, RereadAnswer
<1>3. CASE pc'[r] = "done"
  <2>1. i \in effect[r] \cap made[r]
    BY <1>1, <1>2, <1>3 DEF FailOK
  <2>2. ~Soft /\ Blamed(i)'
    BY <1>2, <1>3, <2>1 DEF GoneOK, Reread
  <2> QED
    BY <1>1, <1>3, <2>1, <2>2 DEF FailOK
<1>4. CASE pc'[r] # "done"
  BY <1>1, <1>2, <1>4 DEF FailOK
<1> QED
  BY <1>3, <1>4

LEMMA InsertDocFail ==
  ASSUME TypeOK, NEW r \in Requests, NEW i \in Ids, RequestInv(r), FailOK(r), InsertDoc(r, i),
         \A j \in Ids : Blamed(j) => Blamed(j)'
  PROVE  FailOK(r)'
<1>1. /\ pc[r] \in {"write", "done"} /\ i \in todo[r] \cap made[r]
      /\ UNCHANGED <<route, ids, found, made, threw>>
      /\ made[r] \subseteq Ids /\ found[r] \subseteq Ids
  BY DEF TypeOK, WorkTypeOK, InsertDoc, reqVars
<1>2. \/ pc'[r] = "done" /\ resp'[r] = "conflict"
      \/ /\ pc[r] = "write" /\ todo[r] \ {i} = {} /\ pc'[r] = "refetch" /\ resp'[r] = resp[r]
         /\ todo'[r] = made[r] /\ effect'[r] = effect[r] \cup {i}
      \/ /\ pc[r] = "write" => todo[r] \ {i} # {}
         /\ pc'[r] = pc[r] /\ resp'[r] = resp[r]
  BY TodoAt, ReplyAt, AdvanceAt DEF TypeOK, HistoryTypeOK, InsertDoc, Wrote
<1>3. route[r] \in CreateRoutes \cup DuplicateRoutes
  BY <1>1 DEF RequestInv, Creates
<1>4. pc[r] = "write" => resp[r] = "none"
  BY DEF RequestInv, AnsweredOnce
<1>5. CASE pc[r] = "write" /\ pc'[r] = "refetch"
  BY <1>1, <1>2, <1>4, <1>5 DEF FailOK
<1>6. CASE pc[r] = "write" /\ pc'[r] = "write"
  <2>1. route[r] \notin SingleWriteRoutes
    BY <1>1, <1>2, <1>6 DEF RequestInv, OneWrite
  <2> QED
    BY <1>1, <1>2, <1>3, <1>4, <1>6, <2>1
       DEF FailOK, SingleWriteRoutes, CreateRoutes, DuplicateRoutes
<1>7. CASE pc'[r] = "done"
  BY <1>1, <1>2, <1>7 DEF FailOK
<1> QED
  BY <1>1, <1>2, <1>5, <1>6, <1>7

\* The answers of the other writes: the document of UpdateOne is missing only if it has
\* been deleted since its find.
LEMMA WriteFail ==
  ASSUME TypeOK, NEW r \in Requests, NEW i \in Ids, RequestInv(r), FailOK(r), GoneOK(r, i),
         \A j \in Ids : Blamed(j) => Blamed(j)',
         UpdateOneDoc(r, i) \/ ReplaceDoc(r, i) \/ UpdateManyDoc(r, i) \/ RemoveDoc(r, i)
  PROVE  FailOK(r)'
<1>1. /\ UNCHANGED <<route, ids, found, made, threw>> /\ i \in todo[r]
      /\ made[r] \subseteq Ids /\ found[r] \subseteq Ids
      /\ route[r] \notin {"CreateOne", "DuplicateOne"}
  BY DEF TypeOK, WorkTypeOK, UpdateOneDoc, ReplaceDoc, UpdateManyDoc, RemoveDoc, reqVars,
         Visits, DeleteRoutes
<1>2. pc[r] = "write" => resp[r] = "none"
  BY DEF RequestInv, AnsweredOnce
<1>3. CASE UpdateOneDoc(r, i)
  <2>1. /\ pc[r] = "write" /\ route[r] = "UpdateOne"
        /\ \/ pc'[r] = "done" /\ resp'[r] = "failed" /\ status[i] \notin Stored
           \/ pc'[r] = "done" /\ resp'[r] = "conflict"
           \/ pc'[r] = "after" /\ resp'[r] = resp[r]
    BY <1>3, ReplyAt, AdvanceAt DEF TypeOK, UpdateOneDoc
  <2>2. i \in found[r]
    BY <1>1, <2>1 DEF FailOK
  <2>3. status[i] \notin Stored => ~Soft /\ Blamed(i)'
    BY <2>2 DEF GoneOK
  <2> QED
    BY <1>1, <1>2, <2>1, <2>2, <2>3 DEF FailOK
<1>4. CASE ReplaceDoc(r, i) \/ RemoveDoc(r, i)
  <2>1. /\ route[r] # "UpdateOne"
        /\ \/ pc'[r] = "done" /\ resp'[r] \in {"notFound", "conflict"}
           \/ pc[r] = "write" /\ resp'[r] = resp[r] /\ pc'[r] \in {"write", "after"}
    BY <1>4, ReplyAt, AdvanceAt DEF TypeOK, ReplaceDoc, RemoveDoc, DeleteRoutes
  <2> QED
    BY <1>1, <1>2, <2>1 DEF FailOK
<1>5. CASE UpdateManyDoc(r, i)
  <2>1. /\ route[r] = "UpdateMany"
        /\ \/ pc'[r] = "done" /\ resp'[r] = "conflict"
           \/ pc[r] = "write" /\ resp'[r] = resp[r]
           \/ pc[r] = "done" /\ pc'[r] = "done" /\ resp'[r] = resp[r]
    BY <1>5, ReplyAt, AdvanceAt DEF TypeOK, UpdateManyDoc
  <2> QED
    BY <1>1, <1>2, <2>1 DEF FailOK
<1> QED
  BY <1>3, <1>4, <1>5

LEMMA FailureStep == IInv /\ FailureInv /\ [Next]_vars => FailureInv'
<1> SUFFICES ASSUME IInv, FailureInv, [Next]_vars PROVE FailureInv'
  OBVIOUS
<1>1. CASE UNCHANGED vars
  BY <1>1 DEF vars, FailureInv, FailOK, GoneOK, Blamed
<1>2. CASE Next /\ ~UNCHANGED vars
  <2>1. PICK r \in Requests :
          \/ Arrive(r) \/ RejectIds(r) \/ Before(r) \/ Build(r) \/ After(r) \/ DbFail(r)
          \/ \E i \in Ids : ReadDoc(r, i) \/ Refetch(r, i) \/ WriteDoc(r, i)
    BY <1>2, NextCases DEF WriteDoc
  <2>2. TypeOK /\ RequestInv(r) /\ FailOK(r) /\ \A i \in Ids : GoneOK(r, i)
    BY DEF IInv, FailureInv
  <2>3. \A s \in Requests \ {r} : Untouched(s)
    BY <2>1, <2>2, ArriveOthers, RejectIdsOthers, BeforeOthers, BuildOthers,
       AfterOthers, DbFailOthers, ReadDocOthers, RefetchOthers, WriteOthers
  <2>4. effect[r] \subseteq effect'[r] /\ (effect[r] # {} => route'[r] = route[r])
    BY <2>1, <2>2, Serving
  <2>5. \A i \in Ids : Blamed(i) => Blamed(i)'
    BY <2>3, <2>4, BlamedStays
  <2>6. ASSUME NEW s \in Requests, NEW i \in Ids
        PROVE  GoneOK(s, i)'
    <3>1. Change(r, i)
      BY <2>1, <2>2, ReadDocChange, WriteChange, QuietChange
    <3> QED
      BY <2>2, <2>3, <2>4, <3>1, GoneKeeps DEF FailureInv
  <2>7. FailOK(r)'
    BY <2>1, <2>2, <2>5, ControlFail, ReadDocFail, RefetchFail, InsertDocFail, WriteFail
       DEF WriteDoc
  <2>8. ASSUME NEW s \in Requests \ {r}
        PROVE  FailOK(s)'
    <3>1. FailOK(s) /\ found[s] \subseteq Ids /\ made[s] \subseteq Ids
      BY <2>2 DEF FailureInv, TypeOK, WorkTypeOK
    <3> QED
      BY <2>3, <2>5, <3>1 DEF FailOK, Untouched
  <2> QED
    BY <2>6, <2>7, <2>8 DEF FailureInv
<1> QED
  BY <1>1, <1>2

LEMMA FailureInvariance == Spec => []FailureInv
<1>1. Init => FailureInv
  BY DEF Init, FailureInv, FailOK, GoneOK
<1> QED
  BY <1>1, FailureStep, Invariance, PTL DEF Spec

\* A 5xx without a rejected call has two causes for any number of requests: the query or
\* the empty pipeline of a scan (base-aggregate.service.ts:54), and a document the request
\* had found or created that another route hard-deleted before its next call (the null
\* document of base-update-one.service.ts and base-create-one.service.ts).
THEOREM FailureExplainedHolds == Spec => []FailureExplained
<1>1. IInv /\ FailureInv => FailureExplained
  BY DEF FailureInv, FailOK, Blamed, FailureExplained
<1> QED
  BY <1>1, Invariance, FailureInvariance, PTL

=============================================================================
