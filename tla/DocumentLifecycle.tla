--------------------------- MODULE DocumentLifecycle ---------------------------
(***************************************************************************)
(* What the route services promise about each document of a collection,    *)
(* with no word of how: which changes of its state may happen, and which    *)
(* requests may still touch it once it is soft-deleted.                    *)
(***************************************************************************)

CONSTANTS
  Requests,
  Ids,
  Vals,
  Soft,              \* the entity is soft-deletable
  HookedUpdateMany   \* UpdateMany has a beforeSaveCallback: its writes filter nothing

VARIABLES
  status,    \* free, live, deleted (soft) or gone
  content,   \* the document's fields
  readers    \* readers[i]: unanswered requests that have read i live

lifeVars == <<status, content, readers>>

LifeInit ==
  /\ status \in [Ids -> {"free", "live", "deleted", "gone"}]
  /\ Soft \/ \A i \in Ids : status[i] # "deleted"
  /\ content \in [Ids -> Vals]
  /\ readers = [i \in Ids |-> {}]

\* Some contents change, those of the documents in S only.
Store(S) ==
  \E c \in [Ids -> Vals] :
    /\ \A i \in Ids \ S : c[i] = content[i]
    /\ content' = c

\* A find returns a live document to a request.
Open(r, i) ==
  /\ status[i] = "live"
  /\ readers' = [readers EXCEPT ![i] = @ \cup {r}]
  /\ UNCHANGED <<status, content>>

\* A request is answered.
Close(r) ==
  /\ readers' = [i \in Ids |-> readers[i] \ {r}]
  /\ UNCHANGED <<status, content>>

\* An id is used once.
Create(i) ==
  /\ status[i] = "free"
  /\ status' = [status EXCEPT ![i] = "live"]
  /\ Store({i})
  /\ UNCHANGED readers

\* A deleted document changes only while a request that had read it live is running; the
\* writes of a hooked UpdateMany filter nothing and may land after its answer, so with one
\* a deleted document may change at any time.
Modify(i) ==
  /\ \/ status[i] = "live"
     \/ status[i] = "deleted" /\ (readers[i] # {} \/ HookedUpdateMany)
  /\ Store({i})
  /\ UNCHANGED <<status, readers>>

Remove(i) ==
  /\ status[i] = "live"
  /\ status' = [status EXCEPT ![i] = IF Soft THEN "deleted" ELSE "gone"]
  /\ UNCHANGED <<content, readers>>

\* Only a request that had read the document before its deletion brings it back.
Revive(r, i) ==
  /\ status[i] = "deleted"
  /\ r \in readers[i]
  /\ status' = [status EXCEPT ![i] = "live"]
  /\ Store({i})
  /\ UNCHANGED readers

LifeNext ==
  \/ \E r \in Requests : Close(r)
  \/ \E r \in Requests, i \in Ids : Open(r, i) \/ Revive(r, i)
  \/ \E i \in Ids : Create(i) \/ Modify(i) \/ Remove(i)

Spec == LifeInit /\ [][LifeNext]_lifeVars

=============================================================================
