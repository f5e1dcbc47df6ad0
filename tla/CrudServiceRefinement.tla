------------------------- MODULE CrudServiceRefinement -------------------------
(***************************************************************************)
(* The route services implement DocumentLifecycle: its readers are the     *)
(* requests that read a document live and are not answered yet.            *)
(***************************************************************************)
EXTENDS CrudServiceSafety

\* A step of the abstract specification, or a stutter.
LifeStep == [Lifecycle!LifeNext]_(Lifecycle!lifeVars)

-----------------------------------------------------------------------------
(* What a step of request r does to the readers.                           *)

LEMMA ReadersKept ==
  ASSUME TypeOK, NEW r \in Requests, \A s \in Requests \ {r} : Untouched(s),
         pc'[r] = "done" <=> pc[r] = "done", sawLive' = sawLive
  PROVE  OpenReaders' = OpenReaders
  BY DEF OpenReaders, Untouched

LEMMA ReadersClosed ==
  ASSUME TypeOK, NEW r \in Requests, \A s \in Requests \ {r} : Untouched(s),
         pc'[r] = "done"
  PROVE  OpenReaders' = [i \in Ids |-> OpenReaders[i] \ {r}]
  BY DEF OpenReaders, Untouched

LEMMA AnswerCloses ==
  ASSUME TypeOK, NEW r \in Requests, \A s \in Requests \ {r} : Untouched(s),
         pc'[r] = "done", UNCHANGED collVars
  PROVE  LifeStep
<1>1. Lifecycle!Close(r)
  BY ReadersClosed DEF Lifecycle!Close, collVars
<1> QED
  BY <1>1 DEF LifeStep, Lifecycle!LifeNext

LEMMA NothingVisible ==
  ASSUME TypeOK, NEW r \in Requests, \A s \in Requests \ {r} : Untouched(s),
         pc[r] # "done", pc'[r] # "done", sawLive' = sawLive, UNCHANGED collVars
  PROVE  LifeStep
<1>1. OpenReaders' = OpenReaders
  BY ReadersKept
<1> QED
  BY <1>1 DEF LifeStep, Lifecycle!lifeVars, collVars

-----------------------------------------------------------------------------
(* Each await maps to a step of the abstract specification or to a stutter. *)

LEMMA ControlSteps ==
  ASSUME TypeOK, NEW r \in Requests, \A s \in Requests \ {r} : Untouched(s),
         Arrive(r) \/ RejectIds(r) \/ Before(r) \/ Build(r) \/ After(r) \/ DbFail(r)
  PROVE  LifeStep
<1>1. CASE Arrive(r)
  <2>1. pc[r] = "idle" /\ pc'[r] \in {"find", "before", "build"}
    <3>1. \E l \in {"find", "before", "build"} : Advance(r, l)
      BY <1>1 DEF Arrive
    <3> QED
      BY <1>1, <3>1, AdvanceAt DEF Arrive, TypeOK
  <2> QED
    BY <1>1, <2>1, NothingVisible DEF Arrive, histVars
<1>2. CASE RejectIds(r)
  BY <1>2, ThrowAt, AnswerCloses DEF RejectIds, TypeOK
<1>3. CASE Before(r)
  <2>1. pc'[r] = "done" \/ pc'[r] \in {"build", "write"}
    BY <1>3, ThrowAt, AdvanceAt DEF Before, TypeOK
  <2> QED
    BY <1>3, <2>1, AnswerCloses, NothingVisible DEF Before
<1>4. CASE Build(r)
  BY <1>4, AdvanceAt, NothingVisible DEF Build, TypeOK, histVars
<1>5. CASE After(r)
  BY <1>5, ReplyAt, ThrowAt, AnswerCloses DEF After, TypeOK
<1>6. CASE DbFail(r)
  BY <1>6, ThrowAt, AnswerCloses DEF DbFail, TypeOK
<1> QED
  BY <1>1, <1>2, <1>3, <1>4, <1>5, <1>6

\* A find that returns a live document to a request it does not answer opens a reader.
LEMMA ReadSteps ==
  ASSUME TypeOK, NEW r \in Requests, \A s \in Requests \ {r} : Untouched(s),
         NEW i \in Ids, ReadDoc(r, i) \/ Refetch(r, i)
  PROVE  LifeStep
<1>1. CASE Refetch(r, i)
  <2>1. pc'[r] = "done" \/ pc'[r] \in {"refetch", "after"}
    BY <1>1, ReplyAt, AdvanceAt DEF Refetch, TypeOK
  <2> QED
    BY <1>1, <2>1, AnswerCloses, NothingVisible DEF Refetch, histVars
<1>2. CASE ReadDoc(r, i) /\ pc'[r] = "done"
  BY <1>2, AnswerCloses DEF ReadDoc
<1>3. CASE ReadDoc(r, i) /\ pc'[r] # "done" /\ status[i] # "live"
  BY <1>3, NothingVisible DEF ReadDoc
<1>4. CASE ReadDoc(r, i) /\ pc'[r] # "done" /\ status[i] = "live"
  <2>1. /\ pc[r] = "find" /\ UNCHANGED <<status, content>>
        /\ sawLive' = [sawLive EXCEPT ![r] = @ \cup {i}]
    BY <1>4 DEF ReadDoc, collVars
  <2>2. \A s \in Requests : pc'[s] = "done" <=> pc[s] = "done"
    BY <1>4, <2>1 DEF Untouched
  <2>3. OpenReaders' = [OpenReaders EXCEPT ![i] = @ \cup {r}]
    BY <1>4, <2>1, <2>2 DEF OpenReaders, TypeOK, HistoryTypeOK
  <2>4. Lifecycle!Open(r, i)
    BY <1>4, <2>1, <2>3 DEF Lifecycle!Open
  <2> QED
    BY <2>4 DEF LifeStep, Lifecycle!LifeNext
<1> QED
  BY <1>1, <1>2, <1>3, <1>4

LEMMA StoreOne ==
  ASSUME TypeOK, TypeOK', NEW i \in Ids, NEW v, content' = [content EXCEPT ![i] = v]
  PROVE  Lifecycle!Store({i})
<1>1. content' \in [Ids -> Vals \cup {NoContent}]
  BY DEF TypeOK, StoreTypeOK
<1>2. \A j \in Ids \ {i} : content'[j] = content[j]
  BY DEF TypeOK, StoreTypeOK
<1> QED
  BY <1>1, <1>2 DEF Lifecycle!Store

LEMMA ChangeStep ==
  ASSUME NEW r \in Requests, NEW i \in Ids,
         \/ Lifecycle!Create(i) \/ Lifecycle!Modify(i) \/ Lifecycle!Remove(i)
         \/ Lifecycle!Revive(r, i)
  PROVE  LifeStep
  BY DEF LifeStep, Lifecycle!LifeNext

LEMMA InsertSteps ==
  ASSUME IInv, TypeOK', NEW r \in Requests, \A s \in Requests \ {r} : Untouched(s),
         NEW i \in Ids, InsertDoc(r, i)
  PROVE  LifeStep
<1>1. status[i] = "free" /\ pc[r] \in {"write", "done"} /\ UNCHANGED sawLive
  BY DEF InsertDoc, IInv, MadeFresh
<1>2. CASE UNCHANGED collVars
  <2>1. pc'[r] = "done" \/ (pc[r] # "done" /\ pc'[r] # "done")
    BY <1>1, ReplyAt, AdvanceAt DEF InsertDoc, IInv, TypeOK
  <2> QED
    BY <1>1, <1>2, <2>1, AnswerCloses, NothingVisible DEF IInv
<1>3. CASE ~UNCHANGED collVars
  <2>1. /\ status' = [status EXCEPT ![i] = "live"]
        /\ content' = [content EXCEPT ![i] = draft[r][i]]
    BY <1>3 DEF InsertDoc
  <2>2. pc'[r] = "done" <=> pc[r] = "done"
    BY <1>1, <1>3, AdvanceAt DEF InsertDoc, IInv, TypeOK
  <2>3. OpenReaders' = OpenReaders
    BY <1>1, <2>2, ReadersKept DEF IInv
  <2>4. Lifecycle!Create(i)
    BY <1>1, <2>1, <2>3, StoreOne DEF Lifecycle!Create, IInv
  <2> QED
    BY <2>4, ChangeStep
<1> QED
  BY <1>2, <1>3

\* The request that updates or replaces a document is one of its readers.
LEMMA TargetRead ==
  ASSUME IInv, NEW r \in Requests, NEW i \in Ids, pc[r] = "write", i \in todo[r],
         route[r] \in {"UpdateOne", "ReplaceOne"}
  PROVE  r \in OpenReaders[i]
  BY DEF IInv, RequestInv, OneTarget, OpenReaders

LEMMA UpdateOneSteps ==
  ASSUME IInv, TypeOK', NEW r \in Requests, \A s \in Requests \ {r} : Untouched(s),
         NEW i \in Ids, UpdateOneDoc(r, i)
  PROVE  LifeStep
<1>1. CASE pc'[r] = "done"
  <2>1. UNCHANGED collVars
    BY <1>1, AdvanceAt DEF UpdateOneDoc, collVars, IInv, TypeOK
  <2> QED
    BY <1>1, <2>1, AnswerCloses DEF IInv
<1>2. CASE pc'[r] # "done"
  <2>1. /\ pc[r] = "write" /\ i \in todo[r] /\ route[r] = "UpdateOne"
        /\ status[i] \in Stored /\ UNCHANGED <<status, sawLive>>
        /\ content' = [content EXCEPT ![i] = draft[r][i]]
    BY <1>2, ReplyAt DEF UpdateOneDoc, IInv, TypeOK
  <2>2. OpenReaders' = OpenReaders
    BY <1>2, <2>1, ReadersKept DEF IInv
  <2>3. OpenReaders[i] # {}
    BY <2>1, TargetRead
  <2>4. Lifecycle!Modify(i)
    BY <2>1, <2>2, <2>3, StoreOne DEF Lifecycle!Modify, Stored, IInv
  <2> QED
    BY <2>4, ChangeStep
<1> QED
  BY <1>1, <1>2

LEMMA ReplaceSteps ==
  ASSUME IInv, TypeOK', NEW r \in Requests, \A s \in Requests \ {r} : Untouched(s),
         NEW i \in Ids, ReplaceDoc(r, i)
  PROVE  LifeStep
<1>1. CASE pc'[r] = "done"
  <2>1. UNCHANGED collVars
    BY <1>1, AdvanceAt DEF ReplaceDoc, collVars, IInv, TypeOK
  <2> QED
    BY <1>1, <2>1, AnswerCloses DEF IInv
<1>2. CASE pc'[r] # "done"
  <2>1. /\ pc[r] = "write" /\ i \in todo[r] /\ route[r] = "ReplaceOne"
        /\ status[i] \in Stored /\ UNCHANGED sawLive
        /\ content' = [content EXCEPT ![i] = draft[r][i]]
        /\ status' = [status EXCEPT ![i] = "live"]
    BY <1>2, ReplyAt DEF ReplaceDoc, IInv, TypeOK
  <2>2. OpenReaders' = OpenReaders
    BY <1>2, <2>1, ReadersKept DEF IInv
  <2>3. r \in OpenReaders[i]
    BY <2>1, TargetRead
  <2>4. CASE status[i] = "deleted"
    <3>1. Lifecycle!Revive(r, i)
      BY <2>1, <2>2, <2>3, <2>4, StoreOne DEF Lifecycle!Revive, IInv
    <3> QED
      BY <3>1, ChangeStep
  <2>5. CASE status[i] = "live"
    <3>1. status' = status
      BY <2>1, <2>5 DEF IInv, TypeOK, StoreTypeOK
    <3>2. Lifecycle!Modify(i)
      BY <2>1, <2>2, <2>5, <3>1, StoreOne DEF Lifecycle!Modify, IInv
    <3> QED
      BY <3>2, ChangeStep
  <2> QED
    BY <2>1, <2>4, <2>5 DEF Stored
<1> QED
  BY <1>1, <1>2

LEMMA UpdateManySteps ==
  ASSUME IInv, TypeOK', NEW r \in Requests, \A s \in Requests \ {r} : Untouched(s),
         NEW i \in Ids, UpdateManyDoc(r, i)
  PROVE  LifeStep
<1>1. /\ pc[r] \in {"write", "done"} /\ route[r] = "UpdateMany"
      /\ UNCHANGED <<status, sawLive>>
  BY DEF UpdateManyDoc
<1>2. CASE content' = content
  <2>1. pc'[r] = "done" \/ (pc[r] # "done" /\ pc'[r] # "done")
    BY <1>1, ReplyAt, AdvanceAt DEF UpdateManyDoc, IInv, TypeOK
  <2> QED
    BY <1>1, <1>2, <2>1, AnswerCloses, NothingVisible DEF IInv, collVars
<1>3. CASE content' # content
  <2>1. /\ content' = [content EXCEPT ![i] = draft[r][i]]
        /\ i \in UpdateManyTargets(r)
    BY <1>3 DEF UpdateManyDoc
  <2>2. status[i] = "live" \/ (status[i] = "deleted" /\ "UpdateMany" \in BeforeHooks)
    BY <1>1, <2>1 DEF UpdateManyTargets, Parallel
  <2>3. pc'[r] = "done" <=> pc[r] = "done"
    BY <1>1, <1>3, AdvanceAt DEF UpdateManyDoc, IInv, TypeOK
  <2>4. OpenReaders' = OpenReaders
    BY <1>1, <2>3, ReadersKept DEF IInv
  <2>5. Lifecycle!Modify(i)
    BY <1>1, <2>1, <2>2, <2>4, StoreOne DEF Lifecycle!Modify, IInv
  <2> QED
    BY <2>5, ChangeStep
<1> QED
  BY <1>2, <1>3

LEMMA RemoveSteps ==
  ASSUME IInv, NEW r \in Requests, \A s \in Requests \ {r} : Untouched(s),
         NEW i \in Ids, RemoveDoc(r, i)
  PROVE  LifeStep
<1>1. /\ pc[r] = "write" /\ pc'[r] \in {"write", "after"}
      /\ UNCHANGED <<content, sawLive>>
  BY AdvanceAt DEF RemoveDoc, IInv, TypeOK
<1>2. CASE status' = status
  BY <1>1, <1>2, NothingVisible DEF IInv, collVars
<1>3. CASE status' # status
  <2>1. /\ status[i] = "live"
        /\ status' = [status EXCEPT ![i] = IF Soft THEN "deleted" ELSE "gone"]
    BY <1>3 DEF RemoveDoc, Removable
  <2>2. OpenReaders' = OpenReaders
    BY <1>1, ReadersKept DEF IInv
  <2>3. Lifecycle!Remove(i)
    BY <1>1, <2>1, <2>2 DEF Lifecycle!Remove
  <2> QED
    BY <2>3, ChangeStep
<1> QED
  BY <1>2, <1>3

-----------------------------------------------------------------------------
LEMMA LifecycleInit == Init => Lifecycle!LifeInit
  BY DEF Init, Lifecycle!LifeInit, OpenReaders

LEMMA LifecycleStep == IInv /\ [Next]_vars => LifeStep
<1> SUFFICES ASSUME IInv, [Next]_vars PROVE LifeStep
  OBVIOUS
<1>1. TypeOK /\ TypeOK'
  BY TypeStep DEF IInv
<1>2. CASE UNCHANGED vars
  BY <1>2 DEF vars, LifeStep, Lifecycle!lifeVars, OpenReaders
<1>3. CASE Next /\ ~UNCHANGED vars
  <2>1. PICK r \in Requests :
          \/ Arrive(r) \/ RejectIds(r) \/ Before(r) \/ Build(r) \/ After(r) \/ DbFail(r)
          \/ \E i \in Ids : ReadDoc(r, i) \/ Refetch(r, i) \/ WriteDoc(r, i)
    BY <1>3, NextCases DEF WriteDoc
  <2>2. \A s \in Requests \ {r} : Untouched(s)
    BY <1>1, <2>1, ArriveOthers, RejectIdsOthers, BeforeOthers, BuildOthers,
       AfterOthers, DbFailOthers, ReadDocOthers, RefetchOthers, WriteOthers
  <2> QED
    BY <1>1, <2>1, <2>2, ControlSteps, ReadSteps, InsertSteps, UpdateOneSteps, ReplaceSteps,
       UpdateManySteps, RemoveSteps DEF WriteDoc
<1> QED
  BY <1>2, <1>3

\* For every number of requests and documents, the twelve services together keep to the
\* life of a document: no id is used twice, a removal starts from a live document, and
\* what happens to a soft-deleted one is the work of a request that had read it live
\* (or of an UpdateMany with a beforeSaveCallback, whose writes filter nothing).
THEOREM LifecycleImplemented == Spec => ImplementsLifecycle
  BY LifecycleInit, LifecycleStep, Invariance, PTL
     DEF Spec, ImplementsLifecycle, Lifecycle!Spec, LifeStep

=============================================================================
