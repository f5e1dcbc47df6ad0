--------------------------- MODULE CrudServiceProofs ---------------------------
(***************************************************************************)
(* Theorems about CrudService, for every number of requests and documents, *)
(* every set of enabled routes, hooks, callbacks and faults, soft-deletable *)
(* or not.                                                                 *)
(***************************************************************************)
EXTENDS CrudService, TLAPS

\* Every step of a service is one of its awaits, or serves no request at all.
LEMMA NextCases ==
  ASSUME Next
  PROVE  \/ \E r \in Requests : Arrive(r) \/ RejectIds(r) \/ Before(r) \/ Build(r)
                                  \/ After(r) \/ DbFail(r)
         \/ \E r \in Requests, i \in Ids : ReadDoc(r, i) \/ Refetch(r, i)
         \/ \E r \in Requests, i \in Ids : InsertDoc(r, i) \/ UpdateOneDoc(r, i)
              \/ ReplaceDoc(r, i) \/ UpdateManyDoc(r, i) \/ RemoveDoc(r, i)
         \/ UNCHANGED vars
  BY DEF Next, Serve, Progress, WriteDoc, Quiescent

-----------------------------------------------------------------------------
(* Types.  Control moves by Reply, Throw and Advance only.                 *)

LEMMA ReplyTyped ==
  ASSUME ControlTypeOK, NEW r \in Requests, NEW a \in Answers, NEW n \in Nat, Reply(r, a, n)
  PROVE  ControlTypeOK'
  BY DEF ControlTypeOK, Reply, Answers, HttpErrors, PCs

\* What a catch makes of an error is an HTTP error, and of a 404 a 404.
LEMMA CaughtTyped ==
  ASSUME NEW r \in Requests, NEW e \in Errors
  PROVE  Caught(r, e) \in HttpErrors /\ (e = "notFound" => Caught(r, e) = "notFound")
  BY DEF Caught, HandleBoth, HandleMongoErrors, HandleDuplicateKeyError, RethrowOrWrap,
         Errors, HttpErrors

LEMMA ThrowTyped ==
  ASSUME ControlTypeOK, NEW r \in Requests, NEW e \in Errors, Throw(r, e)
  PROVE  ControlTypeOK'
  BY ReplyTyped, CaughtTyped DEF Throw, Answers

LEMMA AdvanceTyped ==
  ASSUME ControlTypeOK, NEW r \in Requests, NEW l \in PCs, Advance(r, l)
  PROVE  ControlTypeOK'
  BY DEF ControlTypeOK, Advance

LEMMA TypeInit == Init => TypeOK
  BY DEF Init, TypeOK, StoreTypeOK, ControlTypeOK, InputTypeOK, WorkTypeOK, HistoryTypeOK,
         PCs

LEMMA ArriveTyped ==
  ASSUME TypeOK, NEW r \in Requests, Arrive(r)
  PROVE  TypeOK'
<1>1. StoreTypeOK' /\ HistoryTypeOK'
  BY DEF TypeOK, Arrive, StoreTypeOK, HistoryTypeOK, collVars, histVars
<1>2. PICK t \in Routes, v \in Vals : \E S \in IdsFor(t), w \in WideFor(t) :
        /\ route' = [route EXCEPT ![r] = t]
        /\ draft' = IF t \in {"UpdateOne", "UpdateMany", "ReplaceOne"} \ BeforeHooks
                      THEN [draft EXCEPT ![r] = [i \in Ids |-> v]] ELSE draft
        /\ ids' = [ids EXCEPT ![r] = S]
        /\ todo' = [todo EXCEPT ![r] = IF t \in {"GetMany", "Aggregate"} THEN Ids ELSE S]
        /\ wide' = [wide EXCEPT ![r] = w]
        /\ Advance(r, IF t \notin CreateRoutes THEN "find"
                      ELSE IF t \in BeforeHooks THEN "before" ELSE "build")
  BY DEF Arrive, SetTodo
<1>5. IdsFor(t) \subseteq SUBSET (Ids \cup {Malformed}) /\ WideFor(t) \subseteq BOOLEAN
  BY DEF IdsFor, WideFor
<1>3. ControlTypeOK'
  BY <1>2, AdvanceTyped DEF TypeOK, PCs
<1>4. InputTypeOK'
  BY <1>2, <1>5, RoutesAssumption DEF TypeOK, InputTypeOK
<1>6. WorkTypeOK'
  <2>1. todo' \in [Requests -> SUBSET (Ids \cup {Malformed})]
    BY <1>2, <1>5 DEF TypeOK, WorkTypeOK
  <2>2. draft' \in [Requests -> [Ids -> Vals \cup {NoContent}]]
    BY <1>2 DEF TypeOK, WorkTypeOK
  <2> QED
    BY <2>1, <2>2 DEF TypeOK, WorkTypeOK, Arrive
<1> QED
  BY <1>1, <1>3, <1>4, <1>6 DEF TypeOK

LEMMA RejectIdsTyped ==
  ASSUME TypeOK, NEW r \in Requests, RejectIds(r)
  PROVE  TypeOK'
<1>1. ControlTypeOK'
  BY ThrowTyped DEF TypeOK, RejectIds, Errors
<1>2. WorkTypeOK'
  BY DEF TypeOK, RejectIds, WorkTypeOK, SetTodo
<1> QED
  BY <1>1, <1>2 DEF TypeOK, RejectIds, StoreTypeOK, InputTypeOK, HistoryTypeOK,
                    collVars, reqVars, histVars

LEMMA BeforeTyped ==
  ASSUME TypeOK, NEW r \in Requests, Before(r)
  PROVE  TypeOK'
<1>1. ControlTypeOK'
  BY ThrowTyped, AdvanceTyped, RejectionsAssumption DEF TypeOK, Before, PCs
<1>2. WorkTypeOK'
  <2>1. todo' \in [Requests -> SUBSET (Ids \cup {Malformed})]
    BY DEF TypeOK, Before, WorkTypeOK, SetTodo
  <2>2. draft' \in [Requests -> [Ids -> Vals \cup {NoContent}]]
    <3>1. CASE draft' = draft
      BY <3>1 DEF TypeOK, WorkTypeOK
    <3>2. CASE draft' # draft
      <4>1. PICK D \in SUBSET (Ids \cup {Malformed}) : \E d \in [D -> Vals] :
              draft' = [draft EXCEPT ![r] =
                          [i \in Ids |-> IF i \in DOMAIN d THEN d[i] ELSE draft[r][i]]]
        BY <3>2 DEF Before, TypeOK, InputTypeOK
      <4> QED
        BY <4>1 DEF TypeOK, WorkTypeOK
    <3> QED
      BY <3>1, <3>2
  <2> QED
    BY <2>1, <2>2 DEF TypeOK, Before, WorkTypeOK
<1>3. HistoryTypeOK'
  BY DEF TypeOK, Before, HistoryTypeOK
<1> QED
  BY <1>1, <1>2, <1>3 DEF TypeOK, Before, StoreTypeOK, InputTypeOK, collVars, reqVars

LEMMA BuildTyped ==
  ASSUME TypeOK, NEW r \in Requests, Build(r)
  PROVE  TypeOK'
<1>1. ControlTypeOK'
  BY AdvanceTyped DEF TypeOK, Build, PCs
<1>2. WorkTypeOK'
  <2>1. PICK M \in SUBSET Fresh :
          /\ \E d \in [M -> Vals] :
               draft' = [draft EXCEPT ![r] =
                           [i \in Ids |-> IF i \in M THEN d[i] ELSE draft[r][i]]]
          /\ made' = [made EXCEPT ![r] = M]
          /\ todo' = [todo EXCEPT ![r] = M]
    BY DEF Build, SetTodo
  <2>2. M \in SUBSET Ids
    BY DEF Fresh
  <2>3. made' \in [Requests -> SUBSET Ids]
    BY <2>1, <2>2 DEF TypeOK, WorkTypeOK
  <2>4. todo' \in [Requests -> SUBSET (Ids \cup {Malformed})]
    BY <2>1, <2>2 DEF TypeOK, WorkTypeOK
  <2>5. draft' \in [Requests -> [Ids -> Vals \cup {NoContent}]]
    BY <2>1, <2>2 DEF TypeOK, WorkTypeOK
  <2>6. docs' \in [Requests -> SUBSET Ids]
    BY DEF TypeOK, WorkTypeOK, Build
  <2> QED
    BY <2>3, <2>4, <2>5, <2>6 DEF TypeOK, WorkTypeOK, Build
<1> QED
  BY <1>1, <1>2 DEF TypeOK, Build, StoreTypeOK, InputTypeOK, HistoryTypeOK,
                    collVars, reqVars, histVars

LEMMA AfterTyped ==
  ASSUME TypeOK, NEW r \in Requests, After(r)
  PROVE  TypeOK'
<1>1. count[r] \in Nat /\ docs[r] \in SUBSET Ids
  BY DEF TypeOK, WorkTypeOK
<1>2. ControlTypeOK'
  BY <1>1, ThrowTyped, ReplyTyped, RejectionsAssumption DEF TypeOK, After, DeletedCount, Answers
<1>3. HistoryTypeOK'
  BY <1>1 DEF TypeOK, After, HistoryTypeOK
<1> QED
  BY <1>2, <1>3 DEF TypeOK, After, StoreTypeOK, InputTypeOK, WorkTypeOK, collVars, reqVars

LEMMA DbFailTyped ==
  ASSUME TypeOK, NEW r \in Requests, DbFail(r)
  PROVE  TypeOK'
<1>1. ControlTypeOK'
  BY ThrowTyped DEF TypeOK, DbFail, DbErrors, Errors
<1>2. todo' \in [Requests -> SUBSET (Ids \cup {Malformed})]
  <2>1. PICK i \in todo[r] :
          todo' = [todo EXCEPT ![r] =
                     IF pc[r] = "write" /\ Parallel(r) THEN todo[r] \ {i} ELSE {}]
    BY DEF DbFail, SetTodo
  <2> QED
    BY <2>1 DEF TypeOK, WorkTypeOK
<1>3. HistoryTypeOK'
  BY DEF TypeOK, DbFail, HistoryTypeOK
<1> QED
  BY <1>1, <1>2, <1>3 DEF TypeOK, DbFail, StoreTypeOK, InputTypeOK, WorkTypeOK,
                          collVars, reqVars

LEMMA ReadDocTyped ==
  ASSUME TypeOK, NEW r \in Requests, NEW i \in Ids, ReadDoc(r, i)
  PROVE  TypeOK'
<1> DEFINE f == IF Matches(r, i) THEN found[r] \cup {i} ELSE found[r]
<1>1. f \in SUBSET Ids /\ todo[r] \in SUBSET (Ids \cup {Malformed})
        /\ ids[r] \in SUBSET (Ids \cup {Malformed})
  BY DEF TypeOK, WorkTypeOK, InputTypeOK
<1>2. ControlTypeOK'
  <2>1. AfterFind(r) \in PCs
    BY DEF AfterFind, PCs
  <2> QED
    BY <2>1, ThrowTyped, AdvanceTyped DEF TypeOK, ReadDoc, Errors, HttpErrors, PCs
<1>3. WorkTypeOK'
  <2>1. todo' \in [Requests -> SUBSET (Ids \cup {Malformed})]
    <3>1. \E S \in SUBSET (Ids \cup {Malformed}) : todo' = [todo EXCEPT ![r] = S]
      BY <1>1, Zenon DEF ReadDoc, SetTodo
    <3> QED
      BY <3>1 DEF TypeOK, WorkTypeOK
  <2>2. found' = [found EXCEPT ![r] = f] /\ (docs' = docs \/ docs' = [docs EXCEPT ![r] = f])
    BY DEF ReadDoc
  <2>3. seen' \in [Requests -> [Ids -> Vals \cup {NoContent}]]
    BY DEF TypeOK, WorkTypeOK, StoreTypeOK, ReadDoc
  <2>4. UNCHANGED <<draft, made, count>>
    BY DEF ReadDoc
  <2> HIDE DEF f
  <2> QED
    BY <1>1, <2>1, <2>2, <2>3, <2>4 DEF TypeOK, WorkTypeOK
<1>4. HistoryTypeOK'
  BY DEF TypeOK, ReadDoc, HistoryTypeOK
<1> QED
  BY <1>2, <1>3, <1>4 DEF TypeOK, ReadDoc, StoreTypeOK, InputTypeOK, collVars, reqVars

\* What a write and a re-read do to the working sets of a request.
LEMMA SetTodoTyped ==
  ASSUME WorkTypeOK, NEW r \in Requests, NEW S \in SUBSET (Ids \cup {Malformed}),
         SetTodo(r, S)
  PROVE  todo' \in [Requests -> SUBSET (Ids \cup {Malformed})]
  BY DEF WorkTypeOK, SetTodo

LEMMA RefetchTyped ==
  ASSUME TypeOK, NEW r \in Requests, NEW i \in Ids, Refetch(r, i)
  PROVE  TypeOK'
<1>1. ControlTypeOK'
  BY ReplyTyped, AdvanceTyped DEF TypeOK, Refetch, RereadAnswer, Answers, HttpErrors, PCs
<1>2. WorkTypeOK'
  <2>1. todo[r] \ {i} \in SUBSET (Ids \cup {Malformed})
    BY DEF TypeOK, WorkTypeOK
  <2>2. todo' \in [Requests -> SUBSET (Ids \cup {Malformed})]
    BY <2>1, SetTodoTyped DEF TypeOK, Refetch
  <2>3. docs' \in [Requests -> SUBSET Ids]
    BY DEF TypeOK, WorkTypeOK, Refetch
  <2> QED
    BY <2>2, <2>3 DEF TypeOK, WorkTypeOK, Refetch
<1> QED
  BY <1>1, <1>2 DEF TypeOK, Refetch, StoreTypeOK, InputTypeOK, HistoryTypeOK,
                    collVars, reqVars, histVars

LEMMA DraftTyped ==
  ASSUME TypeOK, NEW r \in Requests, NEW i \in Ids
  PROVE  draft[r][i] \in Vals \cup {NoContent}
<1>1. draft[r] \in [Ids -> Vals \cup {NoContent}]
  BY DEF TypeOK, WorkTypeOK
<1> QED
  BY <1>1

LEMMA InsertDocTyped ==
  ASSUME TypeOK, NEW r \in Requests, NEW i \in Ids, InsertDoc(r, i)
  PROVE  TypeOK'
<1>1. StoreTypeOK'
  BY DraftTyped DEF TypeOK, StoreTypeOK, InsertDoc, collVars
<1>2. ControlTypeOK'
  <2>1. CASE UNCHANGED <<pc, resp, rep>>
    BY <2>1 DEF TypeOK, ControlTypeOK
  <2>2. CASE ~UNCHANGED <<pc, resp, rep>>
    BY <2>2, ReplyTyped, AdvanceTyped DEF TypeOK, InsertDoc, Answers, HttpErrors, PCs
  <2> QED
    BY <2>1, <2>2
<1>3. WorkTypeOK'
  <2>1. /\ todo[r] \ {i} \in SUBSET (Ids \cup {Malformed})
        /\ made[r] \in SUBSET (Ids \cup {Malformed})
    BY DEF TypeOK, WorkTypeOK
  <2>2. todo' \in [Requests -> SUBSET (Ids \cup {Malformed})]
    BY <2>1, SetTodoTyped DEF TypeOK, InsertDoc
  <2> QED
    BY <2>2 DEF TypeOK, WorkTypeOK, InsertDoc
<1>4. HistoryTypeOK'
  BY DEF TypeOK, InsertDoc, HistoryTypeOK, Wrote
<1> QED
  BY <1>1, <1>2, <1>3, <1>4 DEF TypeOK, InsertDoc, InputTypeOK, reqVars

LEMMA UpdateOneDocTyped ==
  ASSUME TypeOK, NEW r \in Requests, NEW i \in Ids, UpdateOneDoc(r, i)
  PROVE  TypeOK'
<1>1. StoreTypeOK'
  BY DraftTyped DEF TypeOK, StoreTypeOK, UpdateOneDoc
<1>2. ControlTypeOK'
  BY ReplyTyped, AdvanceTyped DEF TypeOK, UpdateOneDoc, Answers, HttpErrors, PCs
<1>3. todo' \in [Requests -> SUBSET (Ids \cup {Malformed})]
  BY SetTodoTyped DEF TypeOK, UpdateOneDoc
<1>4. HistoryTypeOK'
  BY DEF TypeOK, UpdateOneDoc, HistoryTypeOK, Wrote
<1> QED
  BY <1>1, <1>2, <1>3, <1>4 DEF TypeOK, UpdateOneDoc, WorkTypeOK, InputTypeOK, reqVars

LEMMA ReplaceDocTyped ==
  ASSUME TypeOK, NEW r \in Requests, NEW i \in Ids, ReplaceDoc(r, i)
  PROVE  TypeOK'
<1>1. StoreTypeOK'
  BY DraftTyped DEF TypeOK, StoreTypeOK, ReplaceDoc, collVars
<1>2. ControlTypeOK'
  BY ReplyTyped, AdvanceTyped DEF TypeOK, ReplaceDoc, Answers, HttpErrors, PCs
<1>3. todo' \in [Requests -> SUBSET (Ids \cup {Malformed})]
  BY SetTodoTyped DEF TypeOK, ReplaceDoc
<1>4. HistoryTypeOK'
  BY DEF TypeOK, ReplaceDoc, HistoryTypeOK, Wrote
<1> QED
  BY <1>1, <1>2, <1>3, <1>4 DEF TypeOK, ReplaceDoc, WorkTypeOK, InputTypeOK, reqVars

LEMMA UpdateManyDocTyped ==
  ASSUME TypeOK, NEW r \in Requests, NEW i \in Ids, UpdateManyDoc(r, i)
  PROVE  TypeOK'
<1>1. StoreTypeOK'
  BY DraftTyped DEF TypeOK, StoreTypeOK, UpdateManyDoc
<1>2. ControlTypeOK'
  <2>1. CASE UNCHANGED <<pc, resp, rep>>
    BY <2>1 DEF TypeOK, ControlTypeOK
  <2>2. CASE ~UNCHANGED <<pc, resp, rep>>
    BY <2>2, ReplyTyped, AdvanceTyped DEF TypeOK, UpdateManyDoc, Answers, HttpErrors, PCs
  <2> QED
    BY <2>1, <2>2
<1>3. WorkTypeOK'
  <2>1. /\ todo[r] \ {i} \in SUBSET (Ids \cup {Malformed})
        /\ ids[r] \in SUBSET (Ids \cup {Malformed})
        /\ AfterClash(r, todo[r] \ {i}) \in SUBSET (Ids \cup {Malformed})
    BY DEF TypeOK, WorkTypeOK, InputTypeOK, AfterClash
  <2>2. todo' \in [Requests -> SUBSET (Ids \cup {Malformed})]
    BY <2>1, SetTodoTyped DEF TypeOK, UpdateManyDoc
  <2>3. docs' \in [Requests -> SUBSET Ids]
    BY DEF TypeOK, WorkTypeOK, UpdateManyDoc
  <2> QED
    BY <2>2, <2>3 DEF TypeOK, WorkTypeOK, UpdateManyDoc
<1>4. HistoryTypeOK'
  BY DEF TypeOK, UpdateManyDoc, HistoryTypeOK, Wrote
<1> QED
  BY <1>1, <1>2, <1>3, <1>4 DEF TypeOK, UpdateManyDoc, InputTypeOK, reqVars

LEMMA RemoveDocTyped ==
  ASSUME TypeOK, NEW r \in Requests, NEW i \in Ids, RemoveDoc(r, i)
  PROVE  TypeOK'
<1>1. StoreTypeOK'
  BY DEF TypeOK, StoreTypeOK, RemoveDoc
<1>2. ControlTypeOK'
  BY AdvanceTyped DEF TypeOK, RemoveDoc, PCs
<1>3. WorkTypeOK'
  <2>1. todo[r] \ {i} \in SUBSET (Ids \cup {Malformed})
    BY DEF TypeOK, WorkTypeOK
  <2>2. todo' \in [Requests -> SUBSET (Ids \cup {Malformed})]
    BY <2>1, SetTodoTyped DEF TypeOK, RemoveDoc
  <2>3. count' \in [Requests -> Nat]
    BY DEF TypeOK, WorkTypeOK, RemoveDoc
  <2> QED
    BY <2>2, <2>3 DEF TypeOK, WorkTypeOK, RemoveDoc
<1>4. HistoryTypeOK'
  BY DEF TypeOK, RemoveDoc, HistoryTypeOK, Wrote
<1> QED
  BY <1>1, <1>2, <1>3, <1>4 DEF TypeOK, RemoveDoc, InputTypeOK, reqVars

LEMMA TypeStep == TypeOK /\ [Next]_vars => TypeOK'
<1> SUFFICES ASSUME TypeOK, [Next]_vars PROVE TypeOK'
  OBVIOUS
<1>1. CASE UNCHANGED vars
  BY <1>1 DEF vars, TypeOK, StoreTypeOK, ControlTypeOK, InputTypeOK, WorkTypeOK, HistoryTypeOK
<1>2. CASE Next
  BY <1>1, <1>2, NextCases, ArriveTyped, RejectIdsTyped, BeforeTyped, BuildTyped, AfterTyped,
     DbFailTyped, ReadDocTyped, RefetchTyped, InsertDocTyped, UpdateOneDocTyped,
     ReplaceDocTyped, UpdateManyDocTyped, RemoveDocTyped
<1> QED
  BY <1>1, <1>2

\* Every variable keeps its type, whatever the requests, hooks and faults: TypeOK holds
\* throughout every behaviour of the services.
THEOREM TypeCorrect == Spec => []TypeOK
  BY TypeInit, TypeStep, PTL DEF Spec

=============================================================================
