------------------------- MODULE IdempotencyProofs -------------------------
(***************************************************************************)
(* Theorems about requests that share something.  Those with one key share *)
(* its row (Idempotency): whatever the requests, their order and the       *)
(* failures, entries posted for a key are paid for by its row, and by the  *)
(* deletions of that row.  All share the pool (Connections): while it is   *)
(* not exhausted by transactions that need more than one connection, some  *)
(* task can go on.  The two modules share no state.                        *)
(***************************************************************************)
EXTENDS Idempotency, Connections, SumTheorems, TLAPS

(* The steps of a request, one by one, and the others. *)
LEMMA StepCases ==
  ASSUME [Next]_vars
  PROVE  \/ \E r \in Request :
              \/ Arrive(r) \/ Insert(r) \/ HandlerReturns(r) \/ HandlerRejects(r)
              \/ HandlerFails(r) \/ Finalize(r) \/ FinalizeFails(r) \/ CleanUp(r)
              \/ Select(r) \/ Reclaim(r) \/ StatementFails(r) \/ Crash(r)
         \/ Age
         \/ UNCHANGED vars
  BY DEF Next, Step, Finished

LEMMA InitTypeOK == Init => TypeOK
  BY RequestAssumption DEF Init, TypeOK, NoRow

(* The UPDATE that completes the row keeps it, and its payload. *)
LEMMA CompleteKeepsRow ==
  ASSUME TypeOK, NEW r \in Request, Complete(r)
  PROVE  /\ row = NoRow => row' = NoRow
         /\ row # NoRow =>
              /\ row' \in Rows /\ row' # NoRow /\ row'.hash = row.hash
              /\ row'.status = "completed" /\ row'.response = r
<1>1. CASE row = NoRow
  BY <1>1 DEF Complete
<1>2. CASE row # NoRow
  <2>1. row \in Rows /\ row' = [row EXCEPT !.status = "completed", !.response = r]
    BY <1>2 DEF Complete, TypeOK
  <2>2. /\ row' \in Rows /\ row'.hash = row.hash
        /\ row'.status = "completed" /\ row'.response = r
    BY <2>1 DEF Rows
  <2> QED
    BY <1>2, <2>2 DEF NoRow
<1> QED
  BY <1>1, <1>2

LEMMA TypeStep ==
  ASSUME TypeOK, [Next]_vars
  PROVE  TypeOK'
<1> USE RequestAssumption DEF TypeOK
<1>1. ASSUME NEW r \in Request, Arrive(r)
      PROVE  TypeOK'
  BY <1>1 DEF Arrive, GoTo, InHandler
<1>2. ASSUME NEW r \in Request, Insert(r)
      PROVE  TypeOK'
  <2>1. NewRow(r) \in Rows /\ NewRow(r).status = "processing" /\ NewRow(r).response = None
    BY DEF NewRow, Rows
  <2>2. CASE row = NoRow
    BY <1>2, <2>1, <2>2 DEF Insert, GoTo, InHandler
  <2>3. CASE row # NoRow
    BY <1>2, <2>3 DEF Insert, GoTo, InHandler
  <2> QED
    BY <2>2, <2>3
<1>3. ASSUME NEW r \in Request, HandlerReturns(r)
      PROVE  TypeOK'
  BY <1>3 DEF HandlerReturns, GoTo, InHandler
<1>4. ASSUME NEW r \in Request, HandlerRejects(r)
      PROVE  TypeOK'
  BY <1>4 DEF HandlerRejects, GoTo, InHandler
<1>5. ASSUME NEW r \in Request, HandlerFails(r)
      PROVE  TypeOK'
  BY <1>5 DEF HandlerFails, GoTo, InHandler
<1>a. ASSUME NEW r \in Request, Complete(r) \/ UNCHANGED row
      PROVE  row' \in {NoRow} \cup Rows /\ (row'.status = "completed") = (row'.response # None)
  <2>1. CASE UNCHANGED row
    BY <2>1
  <2>2. CASE Complete(r) /\ row = NoRow
    BY <2>2, CompleteKeepsRow
  <2>3. CASE Complete(r) /\ row # NoRow
    BY <2>3, CompleteKeepsRow
  <2> QED
    BY <1>a, <2>1, <2>2, <2>3
<1>6. ASSUME NEW r \in Request, Finalize(r)
      PROVE  TypeOK'
  <2>1. row' \in {NoRow} \cup Rows /\ (row'.status = "completed") = (row'.response # None)
    BY <1>6, <1>a DEF Finalize
  <2> QED
    BY <1>6, <2>1 DEF Finalize, Answer, InHandler, Errors
<1>7. ASSUME NEW r \in Request, FinalizeFails(r)
      PROVE  TypeOK'
  <2>1. row' \in {NoRow} \cup Rows /\ (row'.status = "completed") = (row'.response # None)
    BY <1>7, <1>a DEF FinalizeFails
  <2> QED
    BY <1>7, <2>1 DEF FinalizeFails, GoTo, InHandler
<1>8. ASSUME NEW r \in Request, CleanUp(r)
      PROVE  TypeOK'
  BY <1>8 DEF CleanUp, Remove, Answer, InHandler, Errors, NoRow
<1>9. ASSUME NEW r \in Request, Select(r)
      PROVE  TypeOK'
  <2>1. CASE row = NoRow
    BY <1>9, <2>1 DEF Select, SameRequest, GoTo, InHandler, NoRow
  <2>2. CASE row # NoRow
    <3>1. row \in Rows
      BY <2>2
    <3> QED
      BY <1>9, <2>2, <3>1 DEF Select, SameRequest, GoTo, Answer, InHandler, Errors, Rows
  <2> QED
    BY <2>1, <2>2
<1>10. ASSUME NEW r \in Request, Reclaim(r)
       PROVE  TypeOK'
  BY <1>10 DEF Reclaim, Remove, GoTo, InHandler, NoRow
<1>11. ASSUME NEW r \in Request, StatementFails(r)
       PROVE  TypeOK'
  <2>1. row' \in {NoRow} \cup Rows /\ (row'.status = "completed") = (row'.response # None)
    BY <1>11, <1>a DEF StatementFails
  <2> QED
    BY <1>11, <2>1 DEF StatementFails, Answer, InHandler, Errors
<1>12. ASSUME NEW r \in Request, Crash(r)
       PROVE  TypeOK'
  BY <1>12 DEF Crash, Answer, InHandler, Errors
<1>13. CASE Age
  <2>1. row \in Rows
    BY <1>13 DEF Age, NoRow
  <2>2. row' \in Rows /\ row'.status = row.status /\ row'.response = row.response
    BY <1>13, <2>1 DEF Age, Rows
  <2> QED
    BY <1>13, <2>2 DEF Age
<1>14. CASE UNCHANGED vars
  BY <1>14 DEF vars
<1> QED
  BY <1>1, <1>2, <1>3, <1>4, <1>5, <1>6, <1>7, <1>8, <1>9, <1>10, <1>11, <1>12,
     <1>13, <1>14, StepCases

(* Every value of every variable stays in its type, and an answer is given *)
(* exactly when the request ends (IdempotencyService, whole file).         *)
THEOREM TypeCorrect == Spec => []TypeOK
  BY InitTypeOK, TypeStep, PTL DEF Spec

---------------------------------------------------------------------------

(* The counters of the two charges are sets of requests, so finite. *)
LEMMA FiniteCharges ==
  ASSUME TypeOK
  PROVE  /\ IsFiniteSet(Posters) /\ Cardinality(Posters) \in Nat
         /\ IsFiniteSet(Runners) /\ Cardinality(Runners) \in Nat
         /\ Claims \in {0, 1} /\ removals \in Nat /\ reclaims \in Nat
<1>1. Posters \subseteq Request /\ Runners \subseteq Request
  BY DEF TypeOK, Posters, Runners
<1>2. IsFiniteSet(Posters) /\ IsFiniteSet(Runners)
  BY <1>1, RequestAssumption, FS_Subset
<1> QED
  BY <1>2, FS_CardinalityType DEF TypeOK, Claims

(* The one step that takes the row, and what it adds to either set. *)
LEMMA ClaimingInsert ==
  ASSUME TypeOK, NEW r \in Request, Insert(r), row = NoRow
  PROVE  /\ Posters' = Posters \cup {r} /\ Runners' = Runners \cup {r}
         /\ Claims = 0 /\ Claims' = 1
         /\ removals' = removals /\ reclaims' = reclaims
<1>1. /\ pc' = [pc EXCEPT ![r] = "handling"] /\ row' = NewRow(r)
      /\ UNCHANGED <<postings, removals, reclaims>>
  BY DEF Insert, GoTo
<1>2. NewRow(r) # NoRow
  BY DEF NewRow, NoRow
<1>3. Posters' = Posters \cup {r} /\ Runners' = Runners \cup {r}
  BY <1>1 DEF TypeOK, Posters, Runners, InHandler
<1> QED
  BY <1>1, <1>2, <1>3 DEF Claims

(* Neither completing a row, which may fail, nor the passing of time makes *)
(* one or removes the one there is.                                        *)
LEMMA MayCompleteKeepsRow ==
  ASSUME TypeOK, NEW r \in Request, Complete(r) \/ UNCHANGED row
  PROVE  (row' = NoRow) = (row = NoRow)
  BY CompleteKeepsRow

LEMMA AgeKeepsRow ==
  ASSUME TypeOK, Age
  PROVE  row # NoRow /\ row' # NoRow
<1>1. row # NoRow /\ row \in Rows
  BY DEF Age, TypeOK, NoRow
<1>2. row'.status = "processing"
  BY <1>1 DEF Age, Rows
<1> QED
  BY <1>1, <1>2 DEF NoRow

(* No other step adds to the requests that post, or changes the sum that   *)
(* pays for them: deleting the row moves its 1 to the deletions.           *)
LEMMA PostersStep ==
  ASSUME TypeOK, [Next]_vars, ~ \E r \in Request : Insert(r) /\ row = NoRow
  PROVE  Posters' \subseteq Posters /\ removals' + Claims' = removals + Claims
<1> USE DEF TypeOK, Posters, Claims, GoTo, Answer
<1>1. ASSUME NEW r \in Request, Arrive(r) \/ HandlerRejects(r) \/ FinalizeFails(r)
                                \/ StatementFails(r) \/ Crash(r) \/ Select(r)
      PROVE  Posters' \subseteq Posters /\ removals' + Claims' = removals + Claims
  <2>1. UNCHANGED <<postings, removals>> /\ (row' = NoRow) = (row = NoRow)
    BY <1>1, MayCompleteKeepsRow
    DEF Arrive, HandlerRejects, FinalizeFails, StatementFails, Crash, Select
  <2>2. \E label \in {"inserting", "rejecting", "cleaning", "answered", "reclaiming"} :
          pc' = [pc EXCEPT ![r] = label]
    BY <1>1 DEF Arrive, HandlerRejects, FinalizeFails, StatementFails, Crash, Select
  <2> QED
    BY <2>1, <2>2
<1>2. ASSUME NEW r \in Request, Insert(r)
      PROVE  Posters' \subseteq Posters /\ removals' + Claims' = removals + Claims
  BY <1>2 DEF Insert
<1>3. ASSUME NEW r \in Request, HandlerReturns(r) \/ HandlerFails(r)
      PROVE  Posters' \subseteq Posters /\ removals' + Claims' = removals + Claims
  <2>1. pc[r] = "handling" /\ postings' \subseteq postings \cup {r} /\ UNCHANGED <<row, removals>>
    BY <1>3 DEF HandlerReturns, HandlerFails
  <2>2. pc' = [pc EXCEPT ![r] = "finalizing"] \/ pc' = [pc EXCEPT ![r] = "cleaning"]
    BY <1>3 DEF HandlerReturns, HandlerFails
  <2> QED
    BY <2>1, <2>2
<1>4. ASSUME NEW r \in Request, Finalize(r)
      PROVE  Posters' \subseteq Posters /\ removals' + Claims' = removals + Claims
  BY <1>4, MayCompleteKeepsRow DEF Finalize
<1>5. ASSUME NEW r \in Request, CleanUp(r) \/ Reclaim(r)
      PROVE  Posters' \subseteq Posters /\ removals' + Claims' = removals + Claims
  <2>1. postings' = postings
    BY <1>5 DEF CleanUp, Reclaim
  <2>2. \E label \in {"answered", "inserting", "selecting"} : pc' = [pc EXCEPT ![r] = label]
    BY <1>5 DEF CleanUp, Reclaim
  <2>3. Remove \/ UNCHANGED <<row, removals>>
    BY <1>5 DEF CleanUp, Reclaim
  <2> QED
    BY <2>1, <2>2, <2>3 DEF Remove
<1>6. CASE Age
  BY <1>6, AgeKeepsRow DEF Age
<1>7. CASE UNCHANGED vars
  BY <1>7 DEF vars
<1> QED
  BY <1>1, <1>2, <1>3, <1>4, <1>5, <1>6, <1>7, StepCases

(* One entry per key, plus at most one for each deletion of its row:       *)
(* whatever the number of duplicates, retries, failures and crashes        *)
(* (idempotency.service.ts, run and handleExistingKey).                    *)
THEOREM EntriesAreCharged == Spec => []PostingsAreCharged
<1>1. Init => TypeOK /\ PostingsAreCharged
  <2> SUFFICES ASSUME Init PROVE PostingsAreCharged
    BY InitTypeOK
  <2>1. Posters = {}
    BY DEF Init, Posters
  <2> QED
    BY <2>1, FS_EmptySet DEF Init, Claims, PostingsAreCharged
<1>2. TypeOK /\ PostingsAreCharged /\ [Next]_vars => TypeOK' /\ PostingsAreCharged'
  <2> SUFFICES ASSUME TypeOK, PostingsAreCharged, [Next]_vars
               PROVE  PostingsAreCharged'
    BY TypeStep
  <2>1. CASE \E r \in Request : Insert(r) /\ row = NoRow
    <3>1. PICK r \in Request : Insert(r) /\ row = NoRow
      BY <2>1
    <3>2. IsFiniteSet(Posters) /\ Cardinality(Posters) \in Nat
      BY FiniteCharges
    <3>3. Cardinality(Posters \cup {r})
             = IF r \in Posters THEN Cardinality(Posters) ELSE Cardinality(Posters) + 1
      BY <3>2, FS_AddElement
    <3>4. Cardinality(Posters \cup {r}) <= Cardinality(Posters) + 1
      BY <3>2, <3>3
    <3>5. /\ Posters' = Posters \cup {r}
          /\ Claims = 0 /\ Claims' = 1 /\ removals' = removals
      BY <3>1, ClaimingInsert
    <3>6. Cardinality(Posters) <= removals /\ removals \in Nat
      BY <3>5, FiniteCharges DEF PostingsAreCharged
    <3>7. Cardinality(Posters') = Cardinality(Posters \cup {r})
      BY <3>5
    <3>8. Cardinality(Posters') \in Int /\ Cardinality(Posters') <= removals' + Claims'
      BY <3>2, <3>3, <3>4, <3>5, <3>6, <3>7
    <3> QED
      BY <3>8 DEF PostingsAreCharged
  <2>2. CASE ~ \E r \in Request : Insert(r) /\ row = NoRow
    <3>1. Posters' \subseteq Posters /\ removals' + Claims' = removals + Claims
      BY <2>2, PostersStep
    <3>2. Cardinality(Posters') \in Nat /\ Cardinality(Posters') <= Cardinality(Posters)
      BY <3>1, FiniteCharges, FS_Subset, FS_CardinalityType
    <3> QED
      BY <3>1, <3>2, FiniteCharges DEF PostingsAreCharged
  <2> QED
    BY <2>1, <2>2
<1> QED
  BY <1>1, <1>2, PTL DEF Spec

---------------------------------------------------------------------------

(* A handler that cleans up takes its own charge with it when it deletes   *)
(* the row; every other step but a claiming insert keeps or removes        *)
(* runners and keeps the sum that pays for them.                           *)
LEMMA RunnersStep ==
  ASSUME TypeOK, [Next]_vars,
         ~ \E r \in Request : Insert(r) /\ row = NoRow,
         ~ \E r \in Request : CleanUp(r)
  PROVE  Runners' \subseteq Runners /\ reclaims' + Claims' = reclaims + Claims
<1> USE DEF TypeOK, Runners, InHandler, Claims, GoTo, Answer
<1>1. ASSUME NEW r \in Request, Arrive(r) \/ StatementFails(r) \/ Crash(r) \/ Select(r)
      PROVE  Runners' \subseteq Runners /\ reclaims' + Claims' = reclaims + Claims
  <2>1. reclaims' = reclaims /\ (row' = NoRow) = (row = NoRow)
    BY <1>1, MayCompleteKeepsRow DEF Arrive, StatementFails, Crash, Select
  <2>2. \E label \in {"inserting", "answered", "reclaiming"} : pc' = [pc EXCEPT ![r] = label]
    BY <1>1 DEF Arrive, StatementFails, Crash, Select
  <2> QED
    BY <2>1, <2>2
<1>2. ASSUME NEW r \in Request, Insert(r)
      PROVE  Runners' \subseteq Runners /\ reclaims' + Claims' = reclaims + Claims
  BY <1>2 DEF Insert
<1>3. ASSUME NEW r \in Request, HandlerReturns(r) \/ HandlerRejects(r) \/ HandlerFails(r)
                                \/ FinalizeFails(r)
      PROVE  Runners' \subseteq Runners /\ reclaims' + Claims' = reclaims + Claims
  <2>1. pc[r] \in InHandler /\ reclaims' = reclaims /\ (row' = NoRow) = (row = NoRow)
    BY <1>3, MayCompleteKeepsRow DEF HandlerReturns, HandlerRejects, HandlerFails, FinalizeFails
  <2>2. \E label \in InHandler : pc' = [pc EXCEPT ![r] = label]
    BY <1>3 DEF HandlerReturns, HandlerRejects, HandlerFails, FinalizeFails
  <2> QED
    BY <2>1, <2>2
<1>4. ASSUME NEW r \in Request, Finalize(r)
      PROVE  Runners' \subseteq Runners /\ reclaims' + Claims' = reclaims + Claims
  BY <1>4, MayCompleteKeepsRow DEF Finalize
<1>5. ASSUME NEW r \in Request, Reclaim(r)
      PROVE  Runners' \subseteq Runners /\ reclaims' + Claims' = reclaims + Claims
  <2>1. \E label \in {"inserting", "selecting"} : pc' = [pc EXCEPT ![r] = label]
    BY <1>5 DEF Reclaim
  <2>2. CASE row.status = "processing"
    <3>1. row # NoRow /\ row' = NoRow /\ reclaims' = reclaims + 1
      BY <1>5, <2>2 DEF Reclaim, Remove, NoRow
    <3> QED
      BY <2>1, <3>1
  <2>3. CASE row.status # "processing"
    BY <1>5, <2>1, <2>3 DEF Reclaim
  <2> QED
    BY <2>2, <2>3
<1>6. CASE Age
  BY <1>6, AgeKeepsRow DEF Age
<1>7. CASE UNCHANGED vars
  BY <1>7 DEF vars
<1> QED
  BY <1>1, <1>2, <1>3, <1>4, <1>5, <1>6, <1>7, StepCases

(* Handlers of one key overlap at most once for each row that was          *)
(* reclaimed from under a slow one (idempotency.service.ts,                *)
(* handleExistingKey): without that, one at a time.                        *)
THEOREM HandlersAreCharged == Spec => []RunnersAreCharged
<1>1. Init => TypeOK /\ RunnersAreCharged
  <2> SUFFICES ASSUME Init PROVE RunnersAreCharged
    BY InitTypeOK
  <2>1. Runners = {}
    BY DEF Init, Runners, InHandler
  <2> QED
    BY <2>1, FS_EmptySet DEF Init, Claims, RunnersAreCharged
<1>2. TypeOK /\ RunnersAreCharged /\ [Next]_vars => TypeOK' /\ RunnersAreCharged'
  <2> SUFFICES ASSUME TypeOK, RunnersAreCharged, [Next]_vars
               PROVE  RunnersAreCharged'
    BY TypeStep
  <2>0. /\ IsFiniteSet(Runners) /\ Cardinality(Runners) \in Nat
        /\ Claims \in {0, 1} /\ reclaims \in Nat
        /\ Cardinality(Runners) <= reclaims + Claims
    BY FiniteCharges DEF RunnersAreCharged
  <2>1. CASE \E r \in Request : Insert(r) /\ row = NoRow
    <3>1. PICK r \in Request : Insert(r) /\ row = NoRow
      BY <2>1
    <3>2. Cardinality(Runners \cup {r})
             = IF r \in Runners THEN Cardinality(Runners) ELSE Cardinality(Runners) + 1
      BY <2>0, FS_AddElement
    <3>3. /\ Runners' = Runners \cup {r}
          /\ Claims = 0 /\ Claims' = 1 /\ reclaims' = reclaims
      BY <3>1, ClaimingInsert
    <3>4. Cardinality(Runners') = Cardinality(Runners \cup {r})
      BY <3>3
    <3>5. Cardinality(Runners') <= reclaims' + Claims'
      BY <2>0, <3>2, <3>3, <3>4
    <3> QED
      BY <3>5 DEF RunnersAreCharged
  <2>2. CASE \E r \in Request : CleanUp(r)
    <3>1. PICK r \in Request : CleanUp(r)
      BY <2>2
    <3>2. r \in Runners /\ Runners' = Runners \ {r} /\ Claims' = 0 /\ reclaims' = reclaims
      BY <3>1 DEF CleanUp, Remove, Answer, Runners, InHandler, Claims, TypeOK
    <3>3. Cardinality(Runners \ {r}) = Cardinality(Runners) - 1
      BY <2>0, <3>2, FS_RemoveElement
    <3>4. Cardinality(Runners') = Cardinality(Runners \ {r})
      BY <3>2
    <3>5. Cardinality(Runners') <= reclaims' + Claims'
      BY <2>0, <3>2, <3>3, <3>4
    <3> QED
      BY <3>5 DEF RunnersAreCharged
  <2>3. CASE /\ ~ \E r \in Request : Insert(r) /\ row = NoRow
             /\ ~ \E r \in Request : CleanUp(r)
    <3>1. Runners' \subseteq Runners /\ reclaims' + Claims' = reclaims + Claims
      BY <2>3, RunnersStep
    <3>2. IsFiniteSet(Runners') /\ Cardinality(Runners') <= Cardinality(Runners)
      BY <2>0, <3>1, FS_Subset
    <3>3. Cardinality(Runners') \in Nat
      BY <3>2, FS_CardinalityType
    <3>4. Cardinality(Runners') <= reclaims + Claims
      BY <2>0, <3>2, <3>3
    <3>5. Cardinality(Runners') <= reclaims' + Claims'
      BY <3>1, <3>4
    <3> QED
      BY <3>5 DEF RunnersAreCharged
  <2> QED
    BY <2>1, <2>2, <2>3
<1> QED
  BY <1>1, <1>2, PTL DEF Spec

---------------------------------------------------------------------------
(* What answers have to do with the row *)

(* The outcome that the row keeps.                                          *)
Kept == IF row.status = "completed" THEN {row.response} ELSE {}

(* The outcomes that were given out, and those that may yet be: the row's   *)
(* and those of the handlers that run.                                      *)
Sources == Outcomes \cup Kept \cup Runners

(* Whose the row may be: when it was deleted, nobody's.  It is not known    *)
(* who inserted it, but only by whose payload.                              *)
Owners ==
  {o \in Request \cup {None} :
     IF row = NoRow THEN o = None ELSE o \in Request /\ payloadOf[o] = row.hash}

(* What is, or may become, an outcome for another payload, when the row is  *)
(* o's: any handler that runs but o's may complete a row not its own.       *)
Astray(o) == Strays \cup {x \in Kept : payloadOf[x] # row.hash} \cup (Runners \ {o})

(* The deletions, and the row, pay for all outcomes; the deletions alone    *)
(* for the ones astray, of which there are none before a row is reclaimed.  *)
SourcesInv == Cardinality(Sources) <= removals + Claims

AstrayInv ==
  \E o \in Owners :
    /\ Cardinality(Astray(o)) <= removals
    /\ reclaims = 0 => Astray(o) = {}

(* What most steps do to them: no outcome becomes possible, or goes astray. *)
NothingNew ==
  /\ Sources' \subseteq Sources
  /\ Owners' = Owners
  /\ \A o \in Owners : Astray(o)' \subseteq Astray(o)

(* What the errors are not: outcomes of a handler. *)
LEMMA ErrorsAreNoOutcomes == "refused" \notin Request /\ "failed" \notin Request /\ None \notin Request
  BY RequestAssumption

(* A row is either absent or one of Rows. *)
LEMMA RowFields ==
  ASSUME TypeOK
  PROVE  /\ row # NoRow => row \in Rows
         /\ row = NoRow <=> row.status = "absent"
         /\ row.status = "processing" => row \in Rows
         /\ row.status = "completed" => row \in Rows /\ row.response \in Request
  BY DEF TypeOK, NoRow, Rows

(* All of them are sets of requests, so finite. *)
LEMMA FiniteSources ==
  ASSUME TypeOK
  PROVE  /\ Outcomes \subseteq Request /\ Strays \subseteq Request /\ Kept \subseteq Request
         /\ Runners \subseteq Request
         /\ IsFiniteSet(Sources) /\ Cardinality(Sources) \in Nat
         /\ \A o : IsFiniteSet(Astray(o)) /\ Cardinality(Astray(o)) \in Nat
<1>1. /\ Outcomes \subseteq Request /\ Strays \subseteq Request /\ Runners \subseteq Request
  BY DEF Outcomes, Answered, Strays, Runners
<1>2. Kept \subseteq Request
  BY RowFields DEF Kept
<1>3. Sources \subseteq Request /\ \A o : Astray(o) \subseteq Request
  BY <1>1, <1>2 DEF Sources, Astray
<1>4. IsFiniteSet(Request)
  BY RequestAssumption
<1>5. IsFiniteSet(Sources) /\ \A o : IsFiniteSet(Astray(o))
  BY <1>3, <1>4, FS_Subset
<1>. QED
  BY <1>1, <1>2, <1>5, FS_CardinalityType

(* A request that gets no answer yet, or an error, makes no outcome known.  *)
LEMMA NoOutcome ==
  ASSUME TypeOK, NEW r \in Request,
         \/ UNCHANGED answer
         \/ \E a \in Errors : answer' = [answer EXCEPT ![r] = a]
  PROVE  Outcomes' \subseteq Outcomes /\ Strays' \subseteq Strays
<1>1. \A s \in Request : Answered(s)' => Answered(s) /\ answer'[s] = answer[s]
  BY ErrorsAreNoOutcomes DEF TypeOK, Answered, Errors
<1>2. Outcomes' \subseteq Outcomes
  BY <1>1 DEF Outcomes
<1>3. \A x \in Outcomes', s \in Request : answer'[s] = x => answer[s] = x
  BY <1>1 DEF Outcomes, Answered
<1>. QED
  BY <1>2, <1>3 DEF Strays

(* A request that gets an outcome.                                          *)
LEMMA GivenOutcome ==
  ASSUME TypeOK, NEW r \in Request, NEW x \in Request,
         answer' = [answer EXCEPT ![r] = x]
  PROVE  /\ Outcomes' \subseteq Outcomes \cup {x}
         /\ \A y \in Strays' : y \in Strays \/ (y = x /\ payloadOf[x] # payloadOf[r])
<1>1. answer'[r] = x /\ \A s \in Request : s # r => answer'[s] = answer[s]
  BY DEF TypeOK
<1>2. \A s \in Request : Answered(s)' => answer'[s] = x \/ (Answered(s) /\ answer'[s] = answer[s])
  BY <1>1 DEF Answered
<1>3. Outcomes' \subseteq Outcomes \cup {x}
  BY <1>2 DEF Outcomes
<1>4. ASSUME NEW y \in Strays'
      PROVE  y \in Strays \/ (y = x /\ payloadOf[x] # payloadOf[r])
  <2>1. PICK s \in Request : answer'[s] = y /\ payloadOf[s] # payloadOf[y]
    BY <1>4 DEF Strays
  <2>2. y \in Request
    BY <1>4 DEF Strays, Outcomes, Answered
  <2>3. CASE s = r
    BY <1>1, <2>1, <2>3
  <2>4. CASE s # r
    <3>1. answer[s] = y
      BY <1>1, <2>1, <2>4
    <3>2. y \in Outcomes
      BY <2>2, <3>1 DEF Outcomes, Answered
    <3>. QED
      BY <2>1, <3>1, <3>2 DEF Strays
  <2>. QED
    BY <2>3, <2>4
<1>. QED
  BY <1>3, <1>4

(* A request that moves on within the service, or out of it with an error,  *)
(* leaving the row alone and not starting to run, adds nothing.             *)
LEMMA MovingOn ==
  ASSUME TypeOK, NEW r \in Request, UNCHANGED row,
         NEW label, label \in InHandler => pc[r] \in InHandler,
         pc' = [pc EXCEPT ![r] = label],
         \/ UNCHANGED answer
         \/ \E a \in Errors : answer' = [answer EXCEPT ![r] = a]
  PROVE  NothingNew
<1>1. Runners' \subseteq Runners
  BY DEF TypeOK, Runners
<1>2. Outcomes' \subseteq Outcomes /\ Strays' \subseteq Strays
  BY NoOutcome
<1>3. Kept' = Kept /\ Owners' = Owners
  BY DEF Kept, Owners
<1>. QED
  BY <1>1, <1>2, <1>3 DEF NothingNew, Sources, Astray

(* A handler that completes the row leaves its own outcome there, which was *)
(* possible before, and is astray if the row is another payload's.          *)
LEMMA Completing ==
  ASSUME TypeOK, NEW r \in Runners, Complete(r), Runners' \subseteq Runners,
         \/ UNCHANGED answer
         \/ \E a \in Errors \cup {r} : answer' = [answer EXCEPT ![r] = a]
  PROVE  NothingNew
<1>0. r \in Request
  BY DEF Runners
<1>1. Outcomes' \subseteq Outcomes \cup {r} /\ Strays' \subseteq Strays
  <2>1. CASE answer' = [answer EXCEPT ![r] = r]
    BY <1>0, <2>1, GivenOutcome
  <2>2. CASE \/ UNCHANGED answer
             \/ \E a \in Errors : answer' = [answer EXCEPT ![r] = a]
    BY <1>0, <2>2, NoOutcome
  <2>. QED
    BY <2>1, <2>2
<1>2. CASE row = NoRow
  <2>1. row' = row
    BY <1>0, <1>2, CompleteKeepsRow
  <2>2. Kept' = Kept /\ Owners' = Owners
    BY <2>1 DEF Kept, Owners
  <2>. QED
    BY <1>1, <2>1, <2>2 DEF NothingNew, Sources, Astray
<1>3. CASE row # NoRow
  <2>1. /\ row' # NoRow /\ row'.hash = row.hash
        /\ row'.status = "completed" /\ row'.response = r
    BY <1>0, <1>3, CompleteKeepsRow
  <2>2. Kept' = {r} /\ Owners' = Owners
    BY <1>3, <2>1 DEF Kept, Owners
  <2>3. \A o \in Owners : payloadOf[o] = row.hash
    BY <1>3 DEF Owners
  <2>4. ASSUME NEW o \in Owners, NEW x \in Astray(o)'
        PROVE  x \in Astray(o)
    <3>1. \/ x \in Strays \/ x \in Runners \ {o}
          \/ x = r /\ payloadOf[r] # row.hash
      BY <1>1, <2>1, <2>2, <2>4 DEF Astray
    <3>2. x \in Strays \/ x \in Runners \ {o}
      BY <2>3, <3>1
    <3>. QED
      BY <3>2 DEF Astray
  <2>5. Sources' \subseteq Sources
    BY <1>1, <2>2 DEF Sources
  <2>. QED
    BY <2>2, <2>4, <2>5 DEF NothingNew
<1>. QED
  BY <1>2, <1>3

(* What is replayed is the outcome that the row keeps, and astray only if   *)
(* it was so there: the row is of the request's own payload.                *)
LEMMA Replaying ==
  ASSUME TypeOK, NEW r \in Request, pc[r] = "selecting", UNCHANGED row,
         SameRequest(r), row.status = "completed", Answer(r, row.response)
  PROVE  NothingNew
<1>1. row.response \in Request /\ row.hash = payloadOf[r]
  BY RowFields DEF SameRequest
<1>2. /\ Outcomes' \subseteq Outcomes \cup {row.response}
      /\ \A y \in Strays' : y \in Strays \/ (y = row.response /\ payloadOf[y] # row.hash)
  BY <1>1, GivenOutcome DEF Answer
<1>3. Runners' = Runners
  BY DEF Answer, TypeOK, Runners, InHandler
<1>4. Kept = {row.response} /\ Kept' = Kept /\ Owners' = Owners
  BY DEF Kept, Owners
<1>. QED
  BY <1>2, <1>3, <1>4 DEF NothingNew, Sources, Astray

(* Time passes for a row that is being processed, and keeps its payload.    *)
LEMMA Ageing ==
  ASSUME TypeOK, Age
  PROVE  NothingNew
<1>1. /\ row # NoRow /\ row' # NoRow /\ row \in Rows
  BY AgeKeepsRow, RowFields
<1>2. /\ row'.hash = row.hash /\ row'.status = "processing" /\ row.status = "processing"
      /\ UNCHANGED <<pc, answer>>
  BY <1>1 DEF Age, Rows
<1>3. /\ Runners' = Runners /\ Outcomes' = Outcomes /\ Strays' = Strays
      /\ Kept' = Kept /\ Owners' = Owners
  BY <1>1, <1>2 DEF Runners, Outcomes, Answered, Strays, Kept, Owners
<1>. QED
  BY <1>2, <1>3 DEF NothingNew, Sources, Astray

(* The deletions never fall, and all but three kinds of steps add nothing:  *)
(* a claim, a handler that cleans up and the reclaim of a row.              *)
LEMMA OrdinaryStep ==
  ASSUME TypeOK, [Next]_vars,
         ~ \E r \in Request : Insert(r) /\ row = NoRow,
         ~ \E r \in Request : CleanUp(r),
         ~ \E r \in Request : Reclaim(r) /\ row.status = "processing"
  PROVE  NothingNew /\ UNCHANGED <<removals, reclaims>>
<1>1. ASSUME NEW r \in Request, Arrive(r) \/ Insert(r)
      PROVE  NothingNew /\ UNCHANGED <<removals, reclaims>>
  BY <1>1, MovingOn DEF Arrive, Insert, GoTo, InHandler
<1>2. ASSUME NEW r \in Request, HandlerReturns(r) \/ HandlerRejects(r) \/ HandlerFails(r)
      PROVE  NothingNew /\ UNCHANGED <<removals, reclaims>>
  BY <1>2, MovingOn DEF HandlerReturns, HandlerRejects, HandlerFails, GoTo, InHandler
<1>3. ASSUME NEW r \in Request, Finalize(r)
      PROVE  NothingNew /\ UNCHANGED <<removals, reclaims>>
  <2>1. r \in Runners /\ Runners' \subseteq Runners
    BY <1>3 DEF Finalize, Answer, Runners, InHandler, TypeOK
  <2>. QED
    BY <1>3, <2>1, Completing DEF Finalize, Answer
<1>4. ASSUME NEW r \in Request, FinalizeFails(r)
      PROVE  NothingNew /\ UNCHANGED <<removals, reclaims>>
  <2>1. CASE UNCHANGED row
    BY <1>4, <2>1, MovingOn DEF FinalizeFails, GoTo, InHandler
  <2>2. CASE Complete(r)
    <3>1. r \in Runners /\ Runners' \subseteq Runners
      BY <1>4 DEF FinalizeFails, GoTo, Runners, InHandler, TypeOK
    <3>. QED
      BY <1>4, <2>2, <3>1, Completing DEF FinalizeFails, GoTo
  <2>. QED
    BY <1>4, <2>1, <2>2 DEF FinalizeFails
<1>5. ASSUME NEW r \in Request, StatementFails(r) \/ Crash(r)
      PROVE  NothingNew /\ UNCHANGED <<removals, reclaims>>
  <2>1. CASE UNCHANGED row
    BY <1>5, <2>1, MovingOn DEF StatementFails, Crash, Answer, InHandler, Errors
  <2>2. CASE StatementFails(r) /\ pc[r] = "rejecting" /\ Complete(r)
    <3>1. r \in Runners /\ Runners' \subseteq Runners
      BY <2>2 DEF StatementFails, Answer, Runners, InHandler, TypeOK
    <3>. QED
      BY <2>2, <3>1, Completing DEF StatementFails, Answer, Errors
  <2>. QED
    BY <1>5, <2>1, <2>2 DEF StatementFails, Crash
<1>6. ASSUME NEW r \in Request, Select(r)
      PROVE  NothingNew /\ UNCHANGED <<removals, reclaims>>
  <2>1. CASE SameRequest(r) /\ row.status = "completed" /\ Answer(r, row.response)
    BY <1>6, <2>1, Replaying DEF Select
  <2>2. CASE GoTo(r, "inserting") \/ GoTo(r, "reclaiming") \/ Answer(r, "refused")
    BY <1>6, <2>2, MovingOn DEF Select, GoTo, Answer, InHandler, Errors
  <2>. QED
    BY <1>6, <2>1, <2>2 DEF Select
<1>7. ASSUME NEW r \in Request, Reclaim(r)
      PROVE  NothingNew /\ UNCHANGED <<removals, reclaims>>
  BY <1>7, MovingOn DEF Reclaim, GoTo, InHandler
<1>8. CASE Age
  BY <1>8, Ageing DEF Age
<1>9. CASE UNCHANGED vars
  BY <1>9 DEF vars, NothingNew, Sources, Owners, Astray, Outcomes, Answered, Strays, Kept, Runners
<1>. QED
  BY <1>1, <1>2, <1>3, <1>4, <1>5, <1>6, <1>7, <1>8, <1>9, StepCases

(* A claim adds the one that claims, and makes the row its own.             *)
LEMMA Claiming ==
  ASSUME TypeOK, NEW r \in Request, Insert(r), row = NoRow
  PROVE  /\ Sources' \subseteq Sources \cup {r} /\ r \in Owners'
         /\ \A o \in Owners : Astray(r)' \subseteq Astray(o)
         /\ UNCHANGED <<removals, reclaims>> /\ Claims = 0 /\ Claims' = 1
<1>1. /\ Runners' = Runners \cup {r} /\ UNCHANGED <<removals, reclaims>>
      /\ Claims = 0 /\ Claims' = 1
  BY ClaimingInsert
<1>2. row' = NewRow(r) /\ UNCHANGED answer
  BY DEF Insert, GoTo
<1>3. row'.status = "processing" /\ row'.hash = payloadOf[r] /\ row' # NoRow
  BY <1>2 DEF NewRow, NoRow
<1>4. Outcomes' = Outcomes /\ Strays' = Strays /\ Kept' = {}
  BY <1>2, <1>3 DEF Outcomes, Strays, Answered, Kept
<1>5. r \in Owners'
  BY <1>3 DEF Owners
<1>6. \A o \in Owners : o = None
  BY DEF Owners
<1>7. Runners' \ {r} \subseteq Runners \ {None}
  BY <1>1, ErrorsAreNoOutcomes DEF Runners
<1>. QED
  BY <1>1, <1>4, <1>5, <1>6, <1>7 DEF Sources, Astray

(* When the row is deleted it is nobody's any more, and its former owner    *)
(* may go astray.                                                           *)
LEMMA Deleting ==
  ASSUME TypeOK, row' = NoRow, Runners' \subseteq Runners, UNCHANGED Outcomes, UNCHANGED Strays
  PROVE  /\ Sources' \subseteq Sources /\ None \in Owners' /\ Kept' = {}
         /\ Astray(None)' = Strays \cup (Runners' \ {None})
         /\ \A o \in Owners : Astray(None)' \subseteq Astray(o) \cup {o}
         /\ row = NoRow => \A o \in Owners : Astray(None)' \subseteq Astray(o)
<1>1. Kept' = {} /\ None \in Owners'
  BY DEF Kept, Owners, NoRow
<1>2. Astray(None)' = Strays \cup (Runners' \ {None})
  BY <1>1 DEF Astray
<1>3. row = NoRow => \A o \in Owners : o = None
  BY DEF Owners
<1>. QED
  BY <1>1, <1>2, <1>3 DEF Sources, Astray

(* A handler that cleans up takes itself away.                              *)
LEMMA CleaningUp ==
  ASSUME TypeOK, NEW r \in Request, CleanUp(r)
  PROVE  /\ row' = NoRow /\ r \in Runners /\ Runners' = Runners \ {r}
         /\ UNCHANGED reclaims
         /\ removals' = IF row = NoRow THEN removals ELSE removals + 1
         /\ UNCHANGED Outcomes /\ UNCHANGED Strays
<1>1. /\ row' = NoRow /\ r \in Runners /\ Runners' = Runners \ {r}
      /\ UNCHANGED reclaims
      /\ removals' = IF row = NoRow THEN removals ELSE removals + 1
      /\ pc[r] = "cleaning" /\ answer' = [answer EXCEPT ![r] = "failed"]
  BY DEF CleanUp, Remove, Answer, Runners, InHandler, TypeOK
<1>2. answer[r] \notin Request
  BY <1>1, RequestAssumption DEF TypeOK
<1>3. \A s \in Request : (answer'[s] \in Request \/ answer[s] \in Request) => answer'[s] = answer[s]
  BY <1>1, <1>2, ErrorsAreNoOutcomes DEF TypeOK
<1>4. Outcomes' = Outcomes
  BY <1>3 DEF Outcomes, Answered
<1>5. Strays' = Strays
  BY <1>3, <1>4 DEF Strays, Outcomes, Answered
<1>. QED
  BY <1>1, <1>4, <1>5

(* A request that reclaims the row deletes it and is back at the insert.    *)
LEMMA Reclaiming ==
  ASSUME TypeOK, NEW r \in Request, Reclaim(r), row.status = "processing"
  PROVE  /\ row # NoRow /\ row' = NoRow /\ Runners' = Runners
         /\ removals' = removals + 1 /\ reclaims' = reclaims + 1
         /\ UNCHANGED Outcomes /\ UNCHANGED Strays
<1>1. row # NoRow
  BY DEF NoRow
<1>2. /\ row' = NoRow /\ removals' = removals + 1 /\ reclaims' = reclaims + 1
      /\ pc[r] = "reclaiming" /\ pc' = [pc EXCEPT ![r] = "inserting"] /\ UNCHANGED answer
  BY <1>1 DEF Reclaim, Remove, GoTo
<1>. QED
  BY <1>1, <1>2 DEF Runners, InHandler, TypeOK, Outcomes, Answered, Strays

(* Every outcome is paid for.                                               *)
LEMMA SourcesStep == TypeOK /\ SourcesInv /\ [Next]_vars => SourcesInv'
<1> SUFFICES ASSUME TypeOK, SourcesInv, [Next]_vars PROVE SourcesInv'
  OBVIOUS
<1>0. /\ IsFiniteSet(Sources) /\ Cardinality(Sources) \in Nat
      /\ Cardinality(Sources) <= removals + Claims
      /\ removals \in Nat /\ Claims \in {0, 1}
  BY FiniteSources, FiniteCharges DEF SourcesInv
<1>1. ASSUME IsFiniteSet(Sources')
      PROVE  Cardinality(Sources') \in Nat
  BY <1>1, FS_CardinalityType
<1>2. CASE \E r \in Request : Insert(r) /\ row = NoRow
  <2>1. PICK r \in Request : Insert(r) /\ row = NoRow
    BY <1>2
  <2>2. /\ Sources' \subseteq Sources \cup {r}
        /\ removals' = removals /\ Claims = 0 /\ Claims' = 1
    BY <2>1, Claiming
  <2>3. PICK S : S = Sources \cup {r}
    OBVIOUS
  <2>4. IsFiniteSet(S) /\ (Cardinality(S) = Cardinality(Sources) \/ Cardinality(S) = Cardinality(Sources) + 1)
    BY ONLY <1>0, <2>3, FS_AddElement
  <2>5. IsFiniteSet(Sources') /\ Cardinality(Sources') <= Cardinality(S)
    BY <2>2, <2>3, <2>4, FS_Subset
  <2>6. Cardinality(Sources') <= removals' + Claims'
    BY ONLY <1>0, <1>1, <2>2, <2>4, <2>5
  <2>. QED
    BY <2>6 DEF SourcesInv
<1>3. CASE ~ \E r \in Request : Insert(r) /\ row = NoRow
  <2>1. removals' + Claims' = removals + Claims
    BY <1>3, PostersStep
  <2>2. Sources' \subseteq Sources
    <3>1. CASE \E r \in Request : CleanUp(r)
      <4>1. PICK r \in Request : CleanUp(r)
        BY <3>1
      <4>2. row' = NoRow /\ Runners' \subseteq Runners /\ UNCHANGED Outcomes /\ UNCHANGED Strays
        BY <4>1, CleaningUp
      <4>. QED
        BY <4>2, Deleting
    <3>2. CASE \E r \in Request : Reclaim(r) /\ row.status = "processing"
      <4>1. PICK r \in Request : Reclaim(r) /\ row.status = "processing"
        BY <3>2
      <4>2. row' = NoRow /\ Runners' \subseteq Runners /\ UNCHANGED Outcomes /\ UNCHANGED Strays
        BY <4>1, Reclaiming
      <4>. QED
        BY <4>2, Deleting
    <3>. QED
      BY <1>3, <3>1, <3>2, OrdinaryStep DEF NothingNew
  <2>3. IsFiniteSet(Sources') /\ Cardinality(Sources') <= Cardinality(Sources)
    BY <1>0, <2>2, FS_Subset
  <2>4. Cardinality(Sources') <= removals' + Claims'
    BY ONLY <1>0, <1>1, <2>1, <2>3
  <2>. QED
    BY <2>4 DEF SourcesInv
<1>. QED
  BY <1>2, <1>3

(* A deletion pays for the owner it makes go astray, if it is alive.        *)
LEMMA AstrayStep == TypeOK /\ AstrayInv /\ [Next]_vars => AstrayInv'
<1> SUFFICES ASSUME TypeOK, AstrayInv, [Next]_vars PROVE AstrayInv'
  OBVIOUS
<1>1. PICK o \in Owners : /\ Cardinality(Astray(o)) <= removals
                          /\ reclaims = 0 => Astray(o) = {}
  BY DEF AstrayInv
<1>2. /\ IsFiniteSet(Astray(o)) /\ Cardinality(Astray(o)) \in Nat
      /\ removals \in Nat /\ reclaims \in Nat
  BY FiniteSources, FiniteCharges
<1>3. ASSUME NEW p, p \in Owners', Astray(p)' \subseteq Astray(o),
             removals' = removals, reclaims' = reclaims
      PROVE  AstrayInv'
  <2>1. IsFiniteSet(Astray(p)') /\ Cardinality(Astray(p)') <= Cardinality(Astray(o))
    BY <1>2, <1>3, FS_Subset
  <2>2. Cardinality(Astray(p)') \in Nat
    BY <2>1, FS_CardinalityType
  <2>3. Cardinality(Astray(p)') <= removals'
    BY ONLY <1>1, <1>2, <1>3, <2>1, <2>2
  <2>4. reclaims' = 0 => Astray(p)' = {}
    BY <1>1, <1>3
  <2>. QED
    BY <1>3, <2>3, <2>4 DEF AstrayInv
<1>4. ASSUME None \in Owners', Astray(None)' \subseteq Astray(o) \cup {o},
             removals' = removals + 1, reclaims' = 0 => Astray(None)' = {}
      PROVE  AstrayInv'
  <2>1. PICK S : S = Astray(o) \cup {o}
    OBVIOUS
  <2>2. IsFiniteSet(S) /\ (Cardinality(S) = Cardinality(Astray(o)) \/ Cardinality(S) = Cardinality(Astray(o)) + 1)
    BY ONLY <1>2, <2>1, FS_AddElement
  <2>3. IsFiniteSet(Astray(None)') /\ Cardinality(Astray(None)') <= Cardinality(S)
    BY <1>4, <2>1, <2>2, FS_Subset
  <2>4. Cardinality(Astray(None)') \in Nat
    BY <2>3, FS_CardinalityType
  <2>5. Cardinality(Astray(None)') <= removals'
    BY ONLY <1>1, <1>2, <1>4, <2>2, <2>3, <2>4
  <2>. QED
    BY <1>4, <2>5 DEF AstrayInv
<1>5. CASE \E r \in Request : Insert(r) /\ row = NoRow
  <2>1. PICK r \in Request : Insert(r) /\ row = NoRow
    BY <1>5
  <2>. QED
    BY <1>3, <2>1, Claiming
<1>6. CASE \E r \in Request : CleanUp(r)
  <2>1. PICK r \in Request : CleanUp(r)
    BY <1>6
  <2>2. /\ row' = NoRow /\ r \in Runners /\ Runners' = Runners \ {r} /\ reclaims' = reclaims
        /\ removals' = IF row = NoRow THEN removals ELSE removals + 1
        /\ UNCHANGED Outcomes /\ UNCHANGED Strays
    BY <2>1, CleaningUp
  <2>3. /\ None \in Owners' /\ Astray(None)' = Strays \cup (Runners' \ {None})
        /\ Astray(None)' \subseteq Astray(o) \cup {o}
        /\ row = NoRow => Astray(None)' \subseteq Astray(o)
    BY <2>2, Deleting
  <2>4. reclaims' = 0 => Astray(None)' = {}
    BY <1>1, <2>2, <2>3 DEF Astray
  <2>5. CASE row = NoRow
    BY <1>3, <2>2, <2>3, <2>5
  <2>6. CASE row # NoRow
    BY <1>4, <2>2, <2>3, <2>4, <2>6
  <2>. QED
    BY <2>5, <2>6
<1>7. CASE \E r \in Request : Reclaim(r) /\ row.status = "processing"
  <2>1. PICK r \in Request : Reclaim(r) /\ row.status = "processing"
    BY <1>7
  <2>2. /\ row' = NoRow /\ Runners' \subseteq Runners
        /\ removals' = removals + 1 /\ reclaims' = reclaims + 1
        /\ UNCHANGED Outcomes /\ UNCHANGED Strays
    BY <2>1, Reclaiming
  <2>3. None \in Owners' /\ Astray(None)' \subseteq Astray(o) \cup {o}
    BY <2>2, Deleting
  <2>4. reclaims' # 0
    BY <1>2, <2>2
  <2>. QED
    BY <1>4, <2>2, <2>3, <2>4
<1>8. CASE /\ ~ \E r \in Request : Insert(r) /\ row = NoRow
           /\ ~ \E r \in Request : CleanUp(r)
           /\ ~ \E r \in Request : Reclaim(r) /\ row.status = "processing"
  BY <1>3, <1>8, OrdinaryStep DEF NothingNew
<1>. QED
  BY <1>5, <1>6, <1>7, <1>8

(* Requests of one key get the same outcome, but for one more each time its *)
(* row was deleted, whether by a handler that cleans up or as stale; and    *)
(* one of another payload at most as often, and not before a row was        *)
(* reclaimed (idempotency.service.ts: run, handleExistingKey).              *)
THEOREM AnswersAgree == Spec => []AnswersConsistent
<1>1. Init => SourcesInv /\ AstrayInv
  <2> SUFFICES ASSUME Init PROVE SourcesInv /\ AstrayInv
    OBVIOUS
  <2>1. Runners = {} /\ Outcomes = {} /\ Strays = {} /\ Kept = {}
    BY ErrorsAreNoOutcomes DEF Init, Runners, InHandler, Outcomes, Strays, Answered, Kept, NoRow
  <2>2. Sources = {} /\ Astray(None) = {} /\ None \in Owners
    BY <2>1 DEF Sources, Astray, Owners, Init
  <2>3. Cardinality(Sources) = 0 /\ Cardinality(Astray(None)) = 0 /\ removals = 0 /\ Claims = 0
    BY <2>2, FS_EmptySet DEF Init, Claims
  <2>. QED
    BY <2>2, <2>3 DEF SourcesInv, AstrayInv
<1>2. TypeOK /\ SourcesInv /\ AstrayInv => AnswersConsistent
  <2> SUFFICES ASSUME TypeOK, SourcesInv, AstrayInv PROVE AnswersConsistent
    OBVIOUS
  <2>1. PICK o \in Owners : /\ Cardinality(Astray(o)) <= removals
                            /\ reclaims = 0 => Astray(o) = {}
    BY DEF AstrayInv
  <2>2. Outcomes \subseteq Sources /\ Strays \subseteq Astray(o)
    BY DEF Sources, Astray
  <2>3. /\ IsFiniteSet(Outcomes) /\ Cardinality(Outcomes) <= Cardinality(Sources)
        /\ IsFiniteSet(Strays) /\ Cardinality(Strays) <= Cardinality(Astray(o))
    BY <2>2, FiniteSources, FS_Subset
  <2>4. /\ Cardinality(Outcomes) \in Nat /\ Cardinality(Strays) \in Nat
        /\ Cardinality(Sources) \in Nat /\ Cardinality(Astray(o)) \in Nat
        /\ removals \in Nat /\ Claims \in {0, 1}
    BY <2>3, FiniteSources, FiniteCharges, FS_CardinalityType
  <2>5. Cardinality(Sources) <= removals + Claims
    BY DEF SourcesInv
  <2>6. Cardinality(Outcomes) <= removals + Claims /\ Cardinality(Strays) <= removals
    BY ONLY <2>1, <2>3, <2>4, <2>5
  <2>. QED
    BY <2>1, <2>2, <2>6 DEF AnswersConsistent
<1>. QED
  BY <1>1, <1>2, SourcesStep, AstrayStep, TypeCorrect, PTL DEF Spec

---------------------------------------------------------------------------
(* The pool: what all handlers have in common *)

Begins(p) == {i \in DOMAIN p : p[i].do = "begin"}
Commits(p) == {i \in DOMAIN p : p[i].do = "commit"}
Locks(p) == {i \in DOMAIN p : p[i].do = "lock"}

(* What all handlers have in common: at most one transaction, every row     *)
(* locked inside it, and the ledger's balances after any other row.         *)
Orderly(p) ==
  /\ Len(p) \in Nat /\ DOMAIN p = 1..Len(p)
  /\ \A i \in DOMAIN p :
       /\ p[i].do \in {"query", "begin", "lock", "commit"}
       /\ p[i].n \in 0..5 /\ (p[i].do = "query" <=> p[i].n > 0)
  /\ \A b, c \in Begins(p) : b = c
  /\ \A b, c \in Commits(p) : b = c
  /\ \A b \in Begins(p) : \E c \in Commits(p) : b < c
  /\ \A l \in Locks(p) :
       /\ p[l].row \in Tables
       /\ \E b \in Begins(p) : b < l
       /\ \E c \in Commits(p) : l < c
  /\ \A l, k \in Locks(p) :
       l < k => p[k].row = "account_balances" /\ p[l].row # "account_balances"

(* So they are written.                                                     *)
LEMMA HandlersAreOrderly == \A h \in DOMAIN Program : Orderly(Program[h])
<1> USE DEF Orderly, Begins, Commits, Locks, Tables, Action, Query, Begin, Lock, Commit
<1>1. Orderly(getBalances) /\ Orderly(getTransactions)
  BY DEF getBalances, getTransactions
<1>2. Orderly(listHistory) /\ Orderly(listForUser) /\ Orderly(listForAdmin)
  BY DEF listHistory, listForUser, listForAdmin
<1>3. Orderly(getQuote)
  BY DEF getQuote
<1>4. Orderly(deposit)
  BY DEF deposit, PostEntry
<1>5. Orderly(transfer) /\ Orderly(transferWithFee)
  BY DEF transfer, transferWithFee, PostEntry
<1>6. Orderly(convert)
  BY DEF convert, PostEntry, SwapAccounts
<1>7. Orderly(requestWithdrawal)
  BY DEF requestWithdrawal, PostEntry
<1>8. Orderly(decide)
  BY DEF decide, PostEntry
<1>9. Orderly(executeMarketOrder)
  BY DEF executeMarketOrder, PostEntry, SwapAccounts
<1>10. Orderly(placeLimitOrder)
  BY DEF placeLimitOrder, PostEntry
<1>11. Orderly(cancelOrder)
  BY DEF cancelOrder, PostEntry
<1>12. Orderly(tryFill)
  BY DEF tryFill, PostEntry, SwapAccounts
<1>13. Orderly(publishOne)
  BY DEF publishOne
<1> HIDE DEF Orderly
<1>. QED
  BY <1>1, <1>2, <1>3, <1>4, <1>5, <1>6, <1>7, <1>8, <1>9, <1>10, <1>11, <1>12, <1>13
  DEF Program


---------------------------------------------------------------------------
(* The pool: the inductive invariant *)

Prog(t) == Program[handler[t]]

(* Between t's BEGIN and its COMMIT.                                        *)
InTransaction(t) ==
  /\ \E b \in Begins(Prog(t)) : b < step[t]
  /\ \E c \in Commits(Prog(t)) : step[t] <= c

(* t has passed the lock of r.                                              *)
HasLocked(t, r) == \E l \in Locks(Prog(t)) : l < step[t] /\ Prog(t)[l].row = r

(* A connection is held from BEGIN to COMMIT, a row by one that locked it;  *)
(* who is at its queries has some to wait for, and who is elsewhere has     *)
(* none, unless it failed and left them to the pool.                        *)
TaskInv(t) ==
  /\ t \in open <=> InTransaction(t)
  /\ \A r \in Tables : holder[r] = t => HasLocked(t, r)
  /\ todo[t] + running[t] <= 5
  /\ At(t, "query") => todo[t] + running[t] > 0
  /\ At(t, "query") \/ TaskEnded(t) \/ (todo[t] = 0 /\ running[t] = 0)

PoolInv == PoolTypeOK /\ \A t \in Task : TaskInv(t)

(* Everything about the state that is not a sum.                            *)
LEMMA PoolTypes ==
  ASSUME PoolTypeOK
  PROVE  /\ handler \in [Task -> Handlers]
         /\ step \in [Task -> Nat] /\ \A t \in Task : step[t] \in 0..End(t)
         /\ todo \in [Task -> 0..5] /\ running \in [Task -> 0..5]
         /\ open \subseteq Task
         /\ holder \in [Tables -> open \cup {None}]
         /\ \A t \in Task : Orderly(Prog(t)) /\ End(t) = Len(Prog(t)) + 1
         /\ \A t \in Task : Len(Prog(t)) \in Nat
<1>1. \A t \in Task : handler[t] \in DOMAIN Program
  BY ConnectionsAssumption DEF PoolTypeOK
<1>2. \A t \in Task : Orderly(Prog(t))
  BY <1>1, HandlersAreOrderly DEF Prog
<1>3. \A t \in Task : Len(Prog(t)) \in Nat /\ End(t) = Len(Prog(t)) + 1
  BY <1>2 DEF Orderly, End, Prog
<1>. QED
  BY <1>2, <1>3 DEF PoolTypeOK, End, Prog

(* Where t is in its program, said in terms of Prog. *)
LEMMA PoolAt ==
  ASSUME PoolTypeOK, NEW t \in Task, NEW do
  PROVE  /\ At(t, do) <=> step[t] \in DOMAIN Prog(t) /\ Prog(t)[step[t]].do = do
         /\ RowWanted(t) = Prog(t)[step[t]].row
  BY PoolTypes DEF At, Prog, RowWanted, Orderly

(* What happens to one task leaves the others where they are. *)
LEMMA PoolOthers ==
  ASSUME NEW u, TaskInv(u), handler' = handler,
         step'[u] = step[u], todo'[u] = todo[u], running'[u] = running[u],
         u \in open' <=> u \in open,
         \A r \in Tables : holder'[r] = u => holder[r] = u
  PROVE  TaskInv(u)'
  BY DEF TaskInv, InTransaction, HasLocked, At, TaskEnded, End, Prog, Begins, Commits, Locks

(* A task that goes on, having no more queries running. *)
LEMMA PoolAdvance ==
  ASSUME PoolTypeOK, NEW t \in Task, Advance(t), handler' = handler, ~TaskEnded(t)
  PROVE  /\ step' = [step EXCEPT ![t] = step[t] + 1]
         /\ step' \in [Task -> Nat] /\ \A u \in Task : step'[u] <= Len(Program[handler'[u]]) + 1
         /\ todo' \in [Task -> 0..5] /\ \A u \in Task : u # t => todo'[u] = todo[u]
         /\ At(t, "query")' <=> todo'[t] > 0
         /\ At(t, "begin") => InTransaction(t)'
         /\ At(t, "commit") => ~InTransaction(t)'
         /\ ~At(t, "begin") /\ ~At(t, "commit") => (InTransaction(t)' <=> InTransaction(t))
         /\ \A r \in Tables : HasLocked(t, r) => HasLocked(t, r)'
         /\ At(t, "lock") => \A r \in Tables : r = RowWanted(t) => HasLocked(t, r)'
<1>1. /\ Orderly(Prog(t)) /\ Len(Prog(t)) \in Nat /\ End(t) = Len(Prog(t)) + 1
      /\ step \in [Task -> Nat] /\ step[t] \in 0..End(t) /\ step[t] # End(t)
      /\ todo \in [Task -> 0..5]
  BY PoolTypes DEF TaskEnded
<1>2. Prog(t)' = Prog(t) /\ End(t)' = End(t)
  BY DEF Prog, End
<1>3. step' = [step EXCEPT ![t] = step[t] + 1]
  BY DEF Advance
<1>4. step'[t] = step[t] + 1 /\ step'[t] \in 1..End(t)
  BY <1>1, <1>3
<1>5. DOMAIN Prog(t) = 1..Len(Prog(t))
  BY <1>1 DEF Orderly
<1>6. todo'[t] = IF step'[t] = End(t) THEN 0 ELSE Prog(t)[step'[t]].n
  BY <1>1, <1>3, <1>4 DEF Advance, Prog
<1>7. At(t, "query")' <=> step'[t] \in DOMAIN Prog(t) /\ Prog(t)[step'[t]].do = "query"
  BY <1>1, <1>2, <1>5 DEF At, Prog
<1>8. todo'[t] \in 0..5 /\ (At(t, "query")' <=> todo'[t] > 0)
  BY <1>1, <1>4, <1>5, <1>6, <1>7 DEF Orderly
<1>9. todo' \in [Task -> 0..5] /\ \A u \in Task : u # t => todo'[u] = todo[u]
  BY <1>1, <1>8 DEF Advance
<1>10. step' \in [Task -> Nat] /\ \A u \in Task : step'[u] <= Len(Program[handler'[u]]) + 1
  BY <1>1, <1>3, <1>4 DEF PoolTypeOK, End
<1>11. \A do : At(t, do) <=> step[t] \in DOMAIN Prog(t) /\ Prog(t)[step[t]].do = do
  BY PoolAt
<1>12. At(t, "begin") => InTransaction(t)'
  <2> SUFFICES ASSUME At(t, "begin") PROVE InTransaction(t)'
    OBVIOUS
  <2>1. step[t] \in Begins(Prog(t))
    BY <1>11 DEF Begins
  <2>2. PICK c \in Commits(Prog(t)) : step[t] < c
    BY <1>1, <2>1 DEF Orderly
  <2>3. c \in Nat
    BY <1>5, <2>2 DEF Commits
  <2>. QED
    BY <1>1, <1>2, <1>4, <2>1, <2>2, <2>3 DEF InTransaction
<1>13. At(t, "commit") => ~InTransaction(t)'
  <2> SUFFICES ASSUME At(t, "commit"), InTransaction(t)' PROVE FALSE
    OBVIOUS
  <2>1. step[t] \in Commits(Prog(t))
    BY <1>11 DEF Commits
  <2>2. PICK c \in Commits(Prog(t)) : step'[t] <= c
    BY <1>2 DEF InTransaction
  <2>3. c = step[t]
    BY <1>1, <2>1, <2>2 DEF Orderly
  <2>. QED
    BY <1>1, <1>4, <2>2, <2>3
<1>14. ~At(t, "begin") /\ ~At(t, "commit") => (InTransaction(t)' <=> InTransaction(t))
  <2> SUFFICES ASSUME ~At(t, "begin"), ~At(t, "commit")
               PROVE  InTransaction(t)' <=> InTransaction(t)
    OBVIOUS
  <2>1. step[t] \notin Begins(Prog(t)) /\ step[t] \notin Commits(Prog(t))
    BY <1>11 DEF Begins, Commits
  <2>2. \A i \in Begins(Prog(t)) \cup Commits(Prog(t)) : i \in Nat /\ i # step[t]
    BY <1>5, <2>1 DEF Begins, Commits
  <2>3. \A i \in Begins(Prog(t)) : i < step'[t] <=> i < step[t]
    BY <1>1, <1>4, <2>2
  <2>4. \A i \in Commits(Prog(t)) : step'[t] <= i <=> step[t] <= i
    BY <1>1, <1>4, <2>2
  <2>. QED
    BY <1>2, <2>3, <2>4 DEF InTransaction
<1>15. \A l \in Locks(Prog(t)) : l \in Nat
  BY <1>5 DEF Locks
<1>16. \A r \in Tables : HasLocked(t, r) => HasLocked(t, r)'
  BY <1>1, <1>2, <1>4, <1>15 DEF HasLocked
<1>17. At(t, "lock") => \A r \in Tables : r = RowWanted(t) => HasLocked(t, r)'
  <2> SUFFICES ASSUME At(t, "lock"), NEW r \in Tables, r = RowWanted(t)
               PROVE  HasLocked(t, r)'
    OBVIOUS
  <2>1. step[t] \in Locks(Prog(t)) /\ step[t] < step'[t]
    BY <1>1, <1>4, <1>11 DEF Locks
  <2>. QED
    BY <1>2, <2>1, PoolAt DEF HasLocked
<1>. QED
  BY <1>3, <1>8, <1>9, <1>10, <1>12, <1>13, <1>14, <1>16, <1>17

(* Who is in a transaction is under way, at no BEGIN, and locks rows only   *)
(* there.                                                                   *)
LEMMA PoolInside ==
  ASSUME PoolTypeOK, NEW t \in Task
  PROVE  /\ InTransaction(t) => /\ step[t] \in DOMAIN Prog(t) /\ ~TaskEnded(t)
                                /\ ~At(t, "begin")
                                /\ At(t, "query") => Nests(t)
         /\ At(t, "lock") => InTransaction(t) /\ RowWanted(t) \in Tables
<1>1. /\ Orderly(Prog(t)) /\ Len(Prog(t)) \in Nat /\ End(t) = Len(Prog(t)) + 1
      /\ step[t] \in Nat /\ DOMAIN Prog(t) = 1..Len(Prog(t))
  BY PoolTypes DEF Orderly
<1>2. \A do : At(t, do) <=> step[t] \in DOMAIN Prog(t) /\ Prog(t)[step[t]].do = do
  BY PoolAt
<1>3. ASSUME InTransaction(t)
      PROVE  /\ step[t] \in DOMAIN Prog(t) /\ ~TaskEnded(t)
             /\ ~At(t, "begin")
             /\ At(t, "query") => Nests(t)
  <2>1. PICK b \in Begins(Prog(t)), c \in Commits(Prog(t)) : b < step[t] /\ step[t] <= c
    BY <1>3 DEF InTransaction
  <2>2. b \in 1..Len(Prog(t)) /\ c \in 1..Len(Prog(t))
    BY <1>1 DEF Begins, Commits
  <2>3. step[t] \in DOMAIN Prog(t) /\ ~TaskEnded(t)
    BY <1>1, <2>1, <2>2 DEF TaskEnded
  <2>4. ~At(t, "begin")
    <3>1. step[t] \notin Begins(Prog(t))
      BY <1>1, <2>1, <2>2 DEF Orderly
    <3>. QED
      BY <1>2, <3>1 DEF Begins
  <2>5. At(t, "query") => Nests(t)
    <3> SUFFICES ASSUME At(t, "query") PROVE Nests(t)
      OBVIOUS
    <3>1. Prog(t)[step[t]].do = "query" /\ Prog(t)[c].do = "commit"
      BY <1>2 DEF Commits
    <3>2. step[t] < c
      BY <1>1, <2>1, <2>2, <3>1
    <3>. QED
      BY <2>1, <2>2, <2>3, <3>1, <3>2, <1>1 DEF Nests, Prog, Begins, Commits
  <2>. QED
    BY <2>3, <2>4, <2>5
<1>4. ASSUME At(t, "lock")
      PROVE  InTransaction(t) /\ RowWanted(t) \in Tables
  <2>1. step[t] \in Locks(Prog(t))
    BY <1>2, <1>4 DEF Locks
  <2>2. PICK b \in Begins(Prog(t)), c \in Commits(Prog(t)) : b < step[t] /\ step[t] < c
    BY <1>1, <2>1 DEF Orderly
  <2>3. c \in Nat
    BY <1>1 DEF Commits
  <2>4. InTransaction(t)
    BY <1>1, <2>2, <2>3 DEF InTransaction
  <2>. QED
    BY <1>1, <2>1, <2>4, PoolAt DEF Orderly
<1>. QED
  BY <1>3, <1>4

(* The queries that run are counted one more or one fewer.                  *)
LEMMA RunningSum ==
  ASSUME running \in [Task -> 0..5], running' \in [Task -> 0..5], NEW t \in Task,
         \A u \in Task : u # t => running'[u] = running[u]
  PROVE  SumFunctionOnSet(running', Task)
           = SumFunctionOnSet(running, Task) + (running'[t] - running[t])
<1> DEFINE Rest == Task \ {t}
<1>1. IsFiniteSet(Task) /\ IsFiniteSet(Rest)
  BY ConnectionsAssumption, FS_Subset
<1>2. \A u \in Task : running[u] \in Int
  OBVIOUS
<1>3. \A u \in Task : running'[u] \in Int
  OBVIOUS
<1>4. \A u \in Rest : running[u] = running'[u]
  OBVIOUS
<1>5. running[t] \in Int /\ running'[t] \in Int
  OBVIOUS
<1>6. SumFunctionOnSet(running, Task) = running[t] + SumFunctionOnSet(running, Rest)
  BY ONLY <1>1, <1>2, t \in Task, SumTakeOut
<1>7. SumFunctionOnSet(running', Task) = running'[t] + SumFunctionOnSet(running', Rest)
  BY ONLY <1>1, <1>3, t \in Task, SumTakeOut
<1>8. SumFunctionOnSet(running, Rest) = SumFunctionOnSet(running', Rest)
  BY ONLY <1>1, <1>4, SumSame
<1>9. SumFunctionOnSet(running, Task) \in Int /\ SumFunctionOnSet(running, Rest) \in Int
  <2>1. SumFunctionOnSet(running, Task) \in Int
    BY ONLY <1>1, <1>2, SumType
  <2>2. \A u \in Rest : running[u] \in Int
    BY <1>2
  <2>3. SumFunctionOnSet(running, Rest) \in Int
    BY ONLY <1>1, <2>2, SumType
  <2>. QED
    BY <2>1, <2>3
<1>. QED
  BY <1>2, <1>5, <1>6, <1>7, <1>8, <1>9

(* Transactions are finitely many, and one more or fewer is counted so.     *)
LEMMA OpenCount ==
  ASSUME open \subseteq Task
  PROVE  /\ IsFiniteSet(open) /\ Cardinality(open) \in Nat
         /\ \A t : Cardinality(open \cup {t})
                   = IF t \in open THEN Cardinality(open) ELSE Cardinality(open) + 1
         /\ \A t : Cardinality(open \ {t})
                   = IF t \in open THEN Cardinality(open) - 1 ELSE Cardinality(open)
<1>1. IsFiniteSet(open)
  BY ConnectionsAssumption, FS_Subset
<1>2. Cardinality(open) \in Nat
  BY <1>1, FS_CardinalityType
<1>3. \A t : Cardinality(open \cup {t})
              = IF t \in open THEN Cardinality(open) ELSE Cardinality(open) + 1
  BY <1>1, FS_AddElement
<1>4. \A t : Cardinality(open \ {t})
              = IF t \in open THEN Cardinality(open) - 1 ELSE Cardinality(open)
  BY <1>1, FS_RemoveElement
<1>. QED
  BY <1>1, <1>2, <1>3, <1>4

(* What is used is a number, and there is a connection or there is none.    *)
LEMMA UsedType ==
  ASSUME PoolTypeOK
  PROVE  /\ Cardinality(open) \in Nat /\ SumFunctionOnSet(running, Task) \in Int
         /\ Used \in Int /\ Free \in Nat /\ PoolSize \in Nat /\ Used <= PoolSize
<1>1. \A t \in Task : running[t] \in Int
  BY DEF PoolTypeOK
<1>2. SumFunctionOnSet(running, Task) \in Int
  BY <1>1, ConnectionsAssumption, SumType
<1>3. Cardinality(open) \in Nat
  BY OpenCount DEF PoolTypeOK
<1>4. PoolSize \in Nat /\ Used <= PoolSize
  BY ConnectionsAssumption DEF PoolTypeOK
<1>. QED
  BY <1>2, <1>3, <1>4 DEF Used, Free

(* Queries that get or give back connections change what is used.           *)
LEMMA UsedByQueries ==
  ASSUME PoolTypeOK, running' \in [Task -> 0..5], open' = open, NEW t \in Task,
         \A u \in Task : u # t => running'[u] = running[u]
  PROVE  Used' = Used + (running'[t] - running[t])
<1>1. running \in [Task -> 0..5]
  BY DEF PoolTypeOK
<1>2. SumFunctionOnSet(running', Task)
        = SumFunctionOnSet(running, Task) + (running'[t] - running[t])
  BY <1>1, RunningSum
<1>3. Cardinality(open) \in Nat /\ SumFunctionOnSet(running, Task) \in Int
  BY UsedType
<1>. QED
  BY <1>1, <1>2, <1>3 DEF Used

---------------------------------------------------------------------------
(* The pool: every step *)

(* Tasks without a query in flight use none of the pool.                    *)
LEMMA NothingRuns ==
  ASSUME \A t \in Task : running[t] = 0
  PROVE  SumFunctionOnSet(running, Task) = 0
<1> DEFINE total == SumFunctionOnSet(running, Task)
<1>1. \A t \in Task : running[t] \in Int /\ running[t] = running[t] + running[t]
  OBVIOUS
<1>2. total = total + total
  BY ONLY <1>1, ConnectionsAssumption, SumPlus
<1>3. total \in Int
  BY ONLY <1>1, ConnectionsAssumption, SumType
<1>. HIDE DEF total
<1>4. total = 0
  BY ONLY <1>2, <1>3
<1>. QED
  BY ONLY <1>4 DEF total

(* At first nobody has anything.                                            *)
LEMMA InitPoolInv == PoolInit => PoolInv
<1> SUFFICES ASSUME PoolInit PROVE PoolInv
  OBVIOUS
<1>1. \A t \in Task : running[t] = 0
  BY DEF PoolInit
<1>2. SumFunctionOnSet(running, Task) = 0
  BY ONLY <1>1, NothingRuns
<1>3. Cardinality(open) = 0
  BY FS_EmptySet DEF PoolInit
<1>4. Used = 0
  BY ONLY <1>2, <1>3 DEF Used
<1>5. \A h \in Handlers : Len(Program[h]) \in Nat
  BY HandlersAreOrderly, ConnectionsAssumption DEF Orderly
<1>6. PoolTypeOK
  BY <1>4, <1>5, ConnectionsAssumption DEF PoolInit, PoolTypeOK
<1>7. ASSUME NEW t \in Task PROVE TaskInv(t)
  <2>1. DOMAIN Prog(t) = 1..Len(Prog(t)) /\ Len(Prog(t)) \in Nat /\ step[t] = 0
    BY <1>6, PoolTypes DEF Orderly, PoolInit
  <2>2. ~InTransaction(t)
    BY <2>1 DEF InTransaction, Begins
  <2>3. \A do : ~At(t, do)
    BY <1>6, <2>1, PoolAt
  <2>4. todo[t] = 0 /\ running[t] = 0 /\ t \notin open
    BY DEF PoolInit
  <2>5. \A r \in Tables : holder[r] # t
    BY ConnectionsAssumption DEF PoolInit
  <2>. QED
    BY <2>2, <2>3, <2>4, <2>5 DEF TaskInv
<1>. QED
  BY <1>6, <1>7 DEF PoolInv

(* What is left to show of a task that goes on: its transaction, its rows   *)
(* and what it uses.                                                        *)
LEMMA PoolGoesOn ==
  ASSUME PoolInv, NEW t \in Task, Advance(t), handler' = handler, ~TaskEnded(t),
         running' \in [Task -> 0..5], running'[t] = 0,
         open' \subseteq Task, holder' \in [Tables -> open' \cup {None}],
         \A u \in Task : u # t =>
            /\ running'[u] = running[u]
            /\ u \in open' <=> u \in open
            /\ \A r \in Tables : holder'[r] = u => holder[r] = u,
         t \in open' <=> InTransaction(t)',
         \A r \in Tables : holder'[r] = t => HasLocked(t, r)',
         Used' <= PoolSize
  PROVE  PoolInv'
<1>1. /\ step' = [step EXCEPT ![t] = step[t] + 1]
      /\ step' \in [Task -> Nat] /\ \A u \in Task : step'[u] <= Len(Program[handler'[u]]) + 1
      /\ todo' \in [Task -> 0..5] /\ \A u \in Task : u # t => todo'[u] = todo[u]
      /\ At(t, "query")' <=> todo'[t] > 0
  BY PoolAdvance DEF PoolInv
<1>2. PoolTypeOK'
  BY <1>1 DEF PoolInv, PoolTypeOK
<1>3. TaskInv(t)'
  <2>1. todo'[t] \in 0..5
    BY <1>1
  <2>. QED
    BY <1>1, <2>1 DEF TaskInv
<1>4. ASSUME NEW u \in Task, u # t PROVE TaskInv(u)'
  <2>1. step'[u] = step[u]
    BY <1>1, <1>4 DEF PoolInv, PoolTypeOK
  <2>. QED
    BY <1>1, <1>4, <2>1, PoolOthers DEF PoolInv
<1>. QED
  BY <1>2, <1>3, <1>4 DEF PoolInv

(* Outside its queries a task that has not ended has none.                  *)
LEMMA NoQueries ==
  ASSUME PoolInv, NEW t \in Task
  PROVE  /\ step[t] = 0 => ~TaskEnded(t) /\ \A do : ~At(t, do)
         /\ \A do : At(t, do) => ~TaskEnded(t)
         /\ \A do, other : At(t, do) /\ At(t, other) => do = other
         /\ ~At(t, "query") /\ ~TaskEnded(t) => todo[t] = 0 /\ running[t] = 0
<1>1. /\ DOMAIN Prog(t) = 1..Len(Prog(t)) /\ Len(Prog(t)) \in Nat /\ End(t) = Len(Prog(t)) + 1
      /\ step[t] \in Nat
  BY PoolTypes DEF PoolInv, Orderly
<1>2. \A do : At(t, do) <=> step[t] \in DOMAIN Prog(t) /\ Prog(t)[step[t]].do = do
  BY PoolAt DEF PoolInv
<1>3. step[t] = 0 => ~TaskEnded(t) /\ \A do : ~At(t, do)
  BY <1>1, <1>2 DEF TaskEnded
<1>4. \A do : At(t, do) => ~TaskEnded(t)
  BY <1>1, <1>2 DEF TaskEnded
<1>. QED
  BY <1>2, <1>3, <1>4 DEF PoolInv, TaskInv

(* A handler begins.                                                        *)
LEMMA StartKeepsPool ==
  ASSUME PoolInv, NEW t \in Task, Start(t)
  PROVE  PoolInv'
<1>1. /\ Advance(t) /\ handler' = handler /\ running' = running /\ open' = open
      /\ holder' = holder /\ PoolTypeOK /\ TaskInv(t)
  BY DEF Start, PoolInv
<1>2. ~TaskEnded(t) /\ running[t] = 0 /\ ~At(t, "begin") /\ ~At(t, "commit")
  BY NoQueries DEF Start
<1>3. /\ InTransaction(t)' <=> InTransaction(t)
      /\ \A r \in Tables : HasLocked(t, r) => HasLocked(t, r)'
  BY <1>1, <1>2, PoolAdvance
<1>4. Used' <= PoolSize
  BY <1>1 DEF PoolTypeOK, Used
<1>5. /\ t \in open' <=> InTransaction(t)'
      /\ \A r \in Tables : holder'[r] = t => HasLocked(t, r)'
  BY <1>1, <1>3 DEF TaskInv
<1>6. /\ running' \in [Task -> 0..5] /\ open' \subseteq Task
      /\ holder' \in [Tables -> open' \cup {None}]
  BY <1>1 DEF PoolTypeOK
<1>. QED
  BY <1>1, <1>2, <1>4, <1>5, <1>6, PoolGoesOn

(* A query that waited gets a connection.                                   *)
LEMMA ConnectKeepsPool ==
  ASSUME PoolInv, NEW t \in Task, Connect(t)
  PROVE  PoolInv'
<1>1. /\ todo' = [todo EXCEPT ![t] = @ - 1] /\ running' = [running EXCEPT ![t] = @ + 1]
      /\ todo[t] > 0 /\ Free > 0 /\ handler' = handler /\ step' = step
      /\ open' = open /\ holder' = holder /\ PoolTypeOK /\ TaskInv(t)
  BY DEF Connect, PoolInv
<1>2. /\ todo \in [Task -> 0..5] /\ running \in [Task -> 0..5]
      /\ todo[t] + running[t] <= 5
  BY <1>1 DEF PoolTypeOK, TaskInv
<1>3. /\ todo'[t] = todo[t] - 1 /\ running'[t] = running[t] + 1
      /\ todo'[t] \in 0..5 /\ running'[t] \in 0..5
  BY <1>1, <1>2
<1>4. todo' \in [Task -> 0..5] /\ running' \in [Task -> 0..5]
  BY <1>1, <1>2, <1>3
<1>5. Used' <= PoolSize
  <2>1. \A u \in Task : u # t => running'[u] = running[u]
    BY <1>1, <1>2
  <2>2. Used' = Used + (running'[t] - running[t])
    BY <1>1, <1>4, <2>1, UsedByQueries
  <2>3. Used \in Int /\ PoolSize - Used > 0 /\ PoolSize \in Nat
    BY <1>1, UsedType DEF Free
  <2>. QED
    BY <1>2, <1>3, <2>2, <2>3
<1>6. PoolTypeOK'
  BY <1>1, <1>4, <1>5 DEF PoolTypeOK
<1>7. TaskInv(t)'
  <2>1. At(t, "query")' <=> At(t, "query")
    BY <1>1 DEF At, End
  <2>2. /\ InTransaction(t)' <=> InTransaction(t)
        /\ \A r \in Tables : HasLocked(t, r) => HasLocked(t, r)'
        /\ TaskEnded(t)' <=> TaskEnded(t)
    BY <1>1 DEF InTransaction, HasLocked, TaskEnded, End, Prog
  <2>3. todo[t] # 0
    BY <1>1
  <2>. QED
    BY <1>1, <1>2, <1>3, <2>1, <2>2, <2>3 DEF TaskInv
<1>8. ASSUME NEW u \in Task, u # t PROVE TaskInv(u)'
  <2>1. todo'[u] = todo[u] /\ running'[u] = running[u]
    BY <1>1, <1>2, <1>8
  <2>. QED
    BY <1>1, <2>1, PoolOthers DEF PoolInv
<1>. QED
  BY <1>6, <1>7, <1>8 DEF PoolInv

(* A query is answered, the last one or not.                                *)
LEMMA AnswerKeepsPool ==
  ASSUME PoolInv, NEW t \in Task, QueryAnswered(t)
  PROVE  PoolInv'
<1>1. /\ running' = [running EXCEPT ![t] = @ - 1] /\ running[t] > 0
      /\ handler' = handler /\ open' = open /\ holder' = holder /\ PoolTypeOK /\ TaskInv(t)
  BY DEF QueryAnswered, PoolInv
<1>2. todo \in [Task -> 0..5] /\ running \in [Task -> 0..5] /\ todo[t] + running[t] <= 5
  BY <1>1 DEF PoolTypeOK, TaskInv
<1>3. /\ running'[t] = running[t] - 1 /\ running' \in [Task -> 0..5]
      /\ \A u \in Task : u # t => running'[u] = running[u]
  BY <1>1, <1>2
<1>4. Used' <= PoolSize
  <2>1. Used' = Used + (running'[t] - running[t])
    BY <1>1, <1>3, UsedByQueries
  <2>2. Used \in Int /\ PoolSize \in Nat /\ Used <= PoolSize
    BY <1>1, UsedType
  <2>. QED
    BY <1>2, <1>3, <2>1, <2>2
<1>5. CASE At(t, "query") /\ todo[t] = 0 /\ running[t] = 1
  <2>1. Advance(t) /\ running'[t] = 0
    BY <1>3, <1>5 DEF QueryAnswered
  <2>2. ~TaskEnded(t) /\ ~At(t, "begin") /\ ~At(t, "commit")
    BY <1>5, NoQueries
  <2>3. /\ InTransaction(t)' <=> InTransaction(t)
        /\ \A r \in Tables : HasLocked(t, r) => HasLocked(t, r)'
    BY <1>1, <2>1, <2>2, PoolAdvance
  <2>4. /\ t \in open' <=> InTransaction(t)'
        /\ \A r \in Tables : holder'[r] = t => HasLocked(t, r)'
    BY <1>1, <2>3 DEF TaskInv
  <2>5. open' \subseteq Task /\ holder' \in [Tables -> open' \cup {None}]
    BY <1>1 DEF PoolTypeOK
  <2>. QED
    BY <1>1, <1>3, <1>4, <2>1, <2>2, <2>4, <2>5, PoolGoesOn
<1>6. CASE ~(At(t, "query") /\ todo[t] = 0 /\ running[t] = 1)
  <2>1. step' = step /\ todo' = todo
    BY <1>6 DEF QueryAnswered
  <2>2. PoolTypeOK'
    BY <1>1, <1>3, <1>4, <2>1 DEF PoolTypeOK
  <2>3. /\ At(t, "query")' <=> At(t, "query")
        /\ InTransaction(t)' <=> InTransaction(t)
        /\ \A r \in Tables : HasLocked(t, r) => HasLocked(t, r)'
        /\ TaskEnded(t)' <=> TaskEnded(t)
    BY <1>1, <2>1 DEF At, InTransaction, HasLocked, TaskEnded, End, Prog
  <2>4. TaskInv(t)'
    BY <1>1, <1>2, <1>3, <1>6, <2>1, <2>3 DEF TaskInv
  <2>5. ASSUME NEW u \in Task, u # t PROVE TaskInv(u)'
    BY <1>1, <1>3, <2>1, <2>5, PoolOthers DEF PoolInv
  <2>. QED
    BY <2>2, <2>4, <2>5 DEF PoolInv
<1>. QED
  BY <1>5, <1>6

(* A transaction gets a connection.                                         *)
LEMMA BeginKeepsPool ==
  ASSUME PoolInv, NEW t \in Task, BeginTransaction(t)
  PROVE  PoolInv'
<1>1. /\ Advance(t) /\ handler' = handler /\ running' = running /\ open' = open \cup {t}
      /\ holder' = holder /\ At(t, "begin") /\ Free > 0 /\ PoolTypeOK /\ TaskInv(t)
  BY DEF BeginTransaction, PoolInv
<1>2. ~TaskEnded(t) /\ running[t] = 0
  BY <1>1, NoQueries
<1>3. t \notin open /\ InTransaction(t)' /\ \A r \in Tables : HasLocked(t, r) => HasLocked(t, r)'
  BY <1>1, <1>2, PoolAdvance, PoolInside DEF TaskInv
<1>4. Used' <= PoolSize
  <2>1. Cardinality(open') = Cardinality(open) + 1
    BY <1>1, <1>3, OpenCount DEF PoolTypeOK
  <2>2. /\ Cardinality(open) \in Nat /\ SumFunctionOnSet(running, Task) \in Int
        /\ PoolSize \in Nat
    BY <1>1, UsedType
  <2>. QED
    BY <1>1, <2>1, <2>2 DEF Used, Free
<1>5. /\ t \in open' /\ \A u \in Task : u # t => (u \in open' <=> u \in open)
      /\ \A r \in Tables : holder'[r] = t => HasLocked(t, r)'
      /\ open' \subseteq Task /\ holder' \in [Tables -> open' \cup {None}]
      /\ running' \in [Task -> 0..5]
  BY <1>1, <1>3 DEF TaskInv, PoolTypeOK
<1>. QED
  BY <1>1, <1>2, <1>3, <1>4, <1>5, PoolGoesOn

(* A transaction gets the row it wants.                                     *)
LEMMA LockKeepsPool ==
  ASSUME PoolInv, NEW t \in Task, LockRow(t)
  PROVE  PoolInv'
<1>1. /\ Advance(t) /\ handler' = handler /\ running' = running /\ open' = open
      /\ holder' = [holder EXCEPT ![RowWanted(t)] = t]
      /\ At(t, "lock") /\ PoolTypeOK /\ TaskInv(t)
  BY DEF LockRow, PoolInv
<1>2. ~TaskEnded(t) /\ running[t] = 0 /\ ~At(t, "begin") /\ ~At(t, "commit")
  BY <1>1, NoQueries
<1>3. /\ InTransaction(t)' <=> InTransaction(t)
      /\ \A r \in Tables : HasLocked(t, r) => HasLocked(t, r)'
      /\ \A r \in Tables : r = RowWanted(t) => HasLocked(t, r)'
      /\ InTransaction(t) /\ RowWanted(t) \in Tables
  BY <1>1, <1>2, PoolAdvance, PoolInside
<1>4. t \in open /\ Used' <= PoolSize
  BY <1>1, <1>3 DEF PoolTypeOK, Used, TaskInv
<1>5. holder \in [Tables -> open \cup {None}] /\ open \subseteq Task /\ running \in [Task -> 0..5]
  BY <1>1 DEF PoolTypeOK
<1>6. /\ holder' \in [Tables -> open' \cup {None}]
      /\ \A r \in Tables : holder'[r] = IF r = RowWanted(t) THEN t ELSE holder[r]
  BY <1>1, <1>3, <1>4, <1>5
<1>7. \A r \in Tables : holder'[r] = t => HasLocked(t, r)'
  BY <1>1, <1>3, <1>6 DEF TaskInv
<1>8. \A u \in Task : u # t => \A r \in Tables : holder'[r] = u => holder[r] = u
  BY <1>6
<1>. QED
  BY <1>1, <1>2, <1>3, <1>4, <1>5, <1>6, <1>7, <1>8, PoolGoesOn

(* The end of t's transaction: its rows are free, its connection too.       *)
LEMMA CloseFacts ==
  ASSUME PoolTypeOK, NEW t \in Task, Close(t)
  PROVE  /\ open' \subseteq Task /\ holder' \in [Tables -> open' \cup {None}]
         /\ t \notin open' /\ \A r \in Tables : holder'[r] # t
         /\ \A u \in Task : u # t =>
              /\ u \in open' <=> u \in open
              /\ \A r \in Tables : holder'[r] = u => holder[r] = u
         /\ Cardinality(open') \in Nat /\ Cardinality(open') <= Cardinality(open)
<1>1. /\ open' = open \ {t}
      /\ holder' = [r \in Tables |-> IF holder[r] = t THEN None ELSE holder[r]]
      /\ holder \in [Tables -> open \cup {None}] /\ open \subseteq Task
      /\ None \notin Task
  BY ConnectionsAssumption DEF Close, PoolTypeOK
<1>2. /\ open' \subseteq Task /\ holder' \in [Tables -> open' \cup {None}]
      /\ t \notin open' /\ \A r \in Tables : holder'[r] # t
  BY <1>1
<1>3. ASSUME NEW u \in Task, u # t
      PROVE  /\ u \in open' <=> u \in open
             /\ \A r \in Tables : holder'[r] = u => holder[r] = u
  BY <1>1, <1>3
<1>4. Cardinality(open') = IF t \in open THEN Cardinality(open) - 1 ELSE Cardinality(open)
  BY <1>1, OpenCount
<1>5. Cardinality(open) \in Nat /\ (t \in open => Cardinality(open) # 0)
  <2>1. IsFiniteSet(open) /\ Cardinality(open) \in Nat
    BY <1>1, OpenCount
  <2>. QED
    BY <2>1, FS_EmptySet
<1>. QED
  BY <1>2, <1>3, <1>4, <1>5

(* A transaction ends.                                                      *)
LEMMA CommitKeepsPool ==
  ASSUME PoolInv, NEW t \in Task, CommitTransaction(t)
  PROVE  PoolInv'
<1>1. /\ Advance(t) /\ handler' = handler /\ running' = running /\ Close(t)
      /\ At(t, "commit") /\ PoolTypeOK /\ TaskInv(t)
  BY DEF CommitTransaction, PoolInv
<1>2. ~TaskEnded(t) /\ running[t] = 0
  BY <1>1, NoQueries
<1>3. ~InTransaction(t)'
  BY <1>1, <1>2, PoolAdvance
<1>4. /\ open' \subseteq Task /\ holder' \in [Tables -> open' \cup {None}]
      /\ t \notin open' /\ \A r \in Tables : holder'[r] # t
      /\ \A u \in Task : u # t =>
           /\ u \in open' <=> u \in open
           /\ \A r \in Tables : holder'[r] = u => holder[r] = u
      /\ Cardinality(open') \in Nat /\ Cardinality(open') <= Cardinality(open)
  BY <1>1, CloseFacts
<1>5. Used' <= PoolSize
  BY <1>1, <1>4, UsedType DEF Used
<1>6. running' \in [Task -> 0..5]
  BY <1>1 DEF PoolTypeOK
<1>. QED
  BY <1>1, <1>2, <1>3, <1>4, <1>5, <1>6, PoolGoesOn

(* A task ends early, and may leave queries behind.                         *)
LEMMA FailKeepsPool ==
  ASSUME PoolInv, NEW t \in Task, Fail(t)
  PROVE  PoolInv'
<1>1. /\ step' = [step EXCEPT ![t] = End(t)] /\ handler' = handler /\ todo' = todo
      /\ Close(t) /\ PoolTypeOK /\ TaskInv(t)
  BY DEF Fail, PoolInv
<1>2. /\ running \in [Task -> 0..5] /\ todo \in [Task -> 0..5]
      /\ step \in [Task -> Nat] /\ End(t) = Len(Prog(t)) + 1 /\ Len(Prog(t)) \in Nat
      /\ DOMAIN Prog(t) = 1..Len(Prog(t)) /\ todo[t] + running[t] <= 5
      /\ \A u \in Task : step[u] <= Len(Program[handler[u]]) + 1
  BY <1>1, PoolTypes DEF PoolTypeOK, TaskInv, Orderly
<1>3. /\ running' \in [Task -> 0..5] /\ running'[t] <= running[t]
      /\ \A u \in Task : u # t => running'[u] = running[u]
  <2>0. running[t] \in Int
    BY <1>2
  <2>1. CASE running' = running
    <3>1. running'[t] = running[t]
      BY <2>1
    <3>. QED
      BY <1>2, <2>0, <2>1, <3>1
  <2>2. CASE running[t] > 0 /\ running' = [running EXCEPT ![t] = running[t] - 1]
    <3>1. running'[t] = running[t] - 1 /\ running[t] \in 0..5
      BY <1>2, <2>2
    <3>. QED
      BY <1>2, <2>2, <3>1
  <2>. QED
    BY <2>1, <2>2 DEF Fail
<1>4. /\ open' \subseteq Task /\ holder' \in [Tables -> open' \cup {None}]
      /\ t \notin open' /\ \A r \in Tables : holder'[r] # t
      /\ \A u \in Task : u # t =>
           /\ u \in open' <=> u \in open
           /\ \A r \in Tables : holder'[r] = u => holder[r] = u
      /\ Cardinality(open') \in Nat /\ Cardinality(open') <= Cardinality(open)
  BY <1>1, CloseFacts
<1>5. Used' <= PoolSize
  <2>1. SumFunctionOnSet(running', Task)
          = SumFunctionOnSet(running, Task) + (running'[t] - running[t])
    BY <1>2, <1>3, RunningSum
  <2>2. running'[t] \in Int /\ running[t] \in Int
    BY <1>2, <1>3
  <2>. QED
    BY <1>1, <1>3, <1>4, <2>1, <2>2, UsedType DEF Used
<1>6. /\ step'[t] = End(t) /\ step' \in [Task -> Nat]
      /\ \A u \in Task : u # t => step'[u] = step[u]
  BY <1>1, <1>2
<1>7. \A u \in Task : step'[u] <= Len(Program[handler'[u]]) + 1
  BY <1>1, <1>2, <1>6 DEF End
<1>8. PoolTypeOK'
  BY <1>1, <1>3, <1>4, <1>5, <1>6, <1>7 DEF PoolTypeOK
<1>9. TaskInv(t)'
  <2>1. Prog(t)' = Prog(t) /\ End(t)' = End(t) /\ TaskEnded(t)'
    BY <1>1, <1>6 DEF Prog, End, TaskEnded
  <2>2. ~InTransaction(t)'
    BY <1>2, <1>6, <2>1 DEF InTransaction, Commits
  <2>3. ~At(t, "query")'
    BY <1>2, <1>6, <2>1 DEF At
  <2>4. todo'[t] + running'[t] <= 5
    <3>1. running'[t] \in 0..5 /\ running[t] \in 0..5 /\ todo[t] \in 0..5
      BY <1>2, <1>3
    <3>. QED
      BY <1>1, <1>2, <1>3, <3>1
  <2>. QED
    BY <1>4, <2>1, <2>2, <2>3, <2>4 DEF TaskInv
<1>10. ASSUME NEW u \in Task, u # t PROVE TaskInv(u)'
  BY <1>1, <1>3, <1>4, <1>6, <1>10, PoolOthers DEF PoolInv
<1>. QED
  BY <1>8, <1>9, <1>10 DEF PoolInv

---------------------------------------------------------------------------
(* The pool: the theorems *)

(* The inductive invariant of the pool: a connection is held from BEGIN to  *)
(* COMMIT, whatever fails, a row by a transaction that has locked it, and   *)
(* no query is forgotten.                                                   *)
THEOREM PoolInductive == PoolSpec => []PoolInv
<1>1. PoolInv /\ [PoolNext]_poolVars => PoolInv'
  <2> SUFFICES ASSUME PoolInv, [PoolNext]_poolVars PROVE PoolInv'
    OBVIOUS
  <2>1. CASE \E t \in Task : Start(t) \/ TaskStep(t) \/ Fail(t)
    BY <2>1, StartKeepsPool, ConnectKeepsPool, AnswerKeepsPool, BeginKeepsPool,
       LockKeepsPool, CommitKeepsPool, FailKeepsPool DEF TaskStep
  <2>2. CASE UNCHANGED poolVars
    BY <2>2 DEF poolVars, PoolInv, PoolTypeOK, Used, TaskInv, InTransaction, HasLocked,
       At, TaskEnded, End, Prog
  <2>. QED
    BY <2>1, <2>2 DEF PoolNext
<1>. QED
  BY InitPoolInv, <1>1, PTL DEF PoolSpec

(* The pool never hands out more connections than it has, and only open     *)
(* transactions hold rows.                                                  *)
THEOREM PoolTypeCorrect == PoolSpec => []PoolTypeOK
  BY PoolInductive, PTL DEF PoolInv

(* Somebody who waits for a row waits for one who waits for no row: two     *)
(* locks in a row are the ledger's balances last.                           *)
LEMMA HolderWaitsForNoRow ==
  ASSUME PoolInv, NEW t \in Task, At(t, "lock"), ~RowFree(t)
  PROVE  \E u \in open : ~At(u, "lock") \/ RowFree(u)
<1>1. \A u \in Task : TaskInv(u) /\ Orderly(Prog(u)) /\ step[u] \in Nat
  BY PoolTypes DEF PoolInv
<1>2. holder \in [Tables -> open \cup {None}] /\ open \subseteq Task
  BY DEF PoolInv, PoolTypeOK
<1>3. \A u \in Task : At(u, "lock") => RowWanted(u) \in Tables
  BY PoolInside DEF PoolInv
<1>4. \A u \in Task : At(u, "lock") /\ ~RowFree(u) =>
        /\ holder[RowWanted(u)] \in open
        /\ HasLocked(holder[RowWanted(u)], RowWanted(u))
  BY <1>1, <1>2, <1>3 DEF RowFree, TaskInv
<1>5. ASSUME NEW u \in Task, At(u, "lock"), NEW r \in Tables, HasLocked(u, r)
      PROVE  RowWanted(u) = "account_balances" /\ r # "account_balances"
  <2>1. PICK l \in Locks(Prog(u)) : l < step[u] /\ Prog(u)[l].row = r
    BY <1>5 DEF HasLocked
  <2>2. step[u] \in Locks(Prog(u)) /\ RowWanted(u) = Prog(u)[step[u]].row
    BY <1>5, PoolAt DEF Locks, PoolInv
  <2>. QED
    BY <1>1, <2>1, <2>2 DEF Orderly
<1> DEFINE u == holder[RowWanted(t)]
           w == holder[RowWanted(u)]
<1>6. u \in open /\ u \in Task /\ HasLocked(u, RowWanted(t)) /\ RowWanted(t) \in Tables
  BY <1>2, <1>3, <1>4
<1>7. SUFFICES ASSUME At(u, "lock"), ~RowFree(u) PROVE \E x \in open : ~At(x, "lock")
  BY <1>6
<1>8. RowWanted(u) = "account_balances"
  BY <1>5, <1>6, <1>7
<1>9. w \in open /\ w \in Task /\ HasLocked(w, RowWanted(u)) /\ RowWanted(u) \in Tables
  BY <1>2, <1>3, <1>4, <1>6, <1>7
<1>10. ~At(w, "lock")
  BY <1>5, <1>8, <1>9
<1>. QED
  BY <1>9, <1>10

(* A connection left over, or transactions that need no other: then some    *)
(* task can go on.  Any number of tasks, any pool.                          *)
THEOREM SomebodyMoves == PoolSpec => []MovesUnlessExhausted
<1>1. PoolInv => MovesUnlessExhausted
  <2> SUFFICES ASSUME PoolInv, ~Exhausted,
                      NEW t \in Task, step[t] > 0, ~TaskEnded(t),
                      \A u \in Task : ~CanMove(u)
               PROVE  FALSE
    BY DEF MovesUnlessExhausted, NeverAllWaiting
  <2>1. /\ PoolTypeOK /\ \A u \in Task : TaskInv(u)
        /\ running \in [Task -> 0..5] /\ todo \in [Task -> 0..5] /\ open \subseteq Task
    BY DEF PoolInv, PoolTypeOK
  <2>2. \A u \in Task : running[u] = 0
    BY <2>1 DEF CanMove
  <2>3. Used = Cardinality(open) /\ Cardinality(open) \in Nat /\ PoolSize \in Nat \ {0}
    <3>1. SumFunctionOnSet(running, Task) = 0
      BY ONLY <2>2, NothingRuns
    <3>2. Cardinality(open) \in Nat
      BY <2>1, UsedType
    <3>3. Used = Cardinality(open)
      BY ONLY <3>1, <3>2 DEF Used
    <3>. QED
      BY ONLY <3>2, <3>3, ConnectionsAssumption
  (* Nobody in a transaction is elsewhere than at a row that is taken.      *)
  <2>4. \A u \in open : At(u, "lock") /\ ~RowFree(u)
    <3> SUFFICES ASSUME NEW u \in open, ~(At(u, "lock") /\ ~RowFree(u)) PROVE FALSE
      OBVIOUS
    <3>1. u \in Task /\ InTransaction(u)
      BY <2>1 DEF TaskInv
    <3>2. /\ step[u] \in DOMAIN Prog(u) /\ ~At(u, "begin")
          /\ At(u, "query") => Nests(u)
      BY <2>1, <3>1, PoolInside
    <3>3. At(u, "query") \/ At(u, "lock") \/ At(u, "commit")
      BY <2>1, <3>1, <3>2, PoolTypes, PoolAt DEF Orderly
    <3>4. At(u, "query")
      BY <3>1, <3>3 DEF CanMove
    <3>5. todo[u] > 0
      BY <2>1, <2>2, <3>1, <3>4 DEF TaskInv
    <3>6. ~(Free > 0)
      BY <3>1, <3>5 DEF CanMove
    <3>7. Cardinality(open) >= PoolSize
      BY <2>3, <3>6 DEF Free
    <3>. QED
      BY <3>2, <3>4, <3>7 DEF Exhausted
  <2>5. open = {}
    <3> SUFFICES ASSUME NEW u \in open PROVE FALSE
      OBVIOUS
    <3>1. u \in Task /\ At(u, "lock") /\ ~RowFree(u)
      BY <2>1, <2>4
    <3>. QED
      BY <2>4, <3>1, HolderWaitsForNoRow
  <2>6. Free > 0
    <3>1. Cardinality(open) = 0
      BY <2>5, FS_EmptySet
    <3>. QED
      BY <2>3, <3>1 DEF Free
  (* So t is at queries that nobody takes, or at a BEGIN.                   *)
  <2>7. At(t, "query") \/ At(t, "begin")
    <3>1. step[t] \in DOMAIN Prog(t)
      BY <2>1, PoolTypes DEF Orderly, TaskEnded
    <3>2. At(t, "query") \/ At(t, "begin") \/ At(t, "lock") \/ At(t, "commit")
      BY <2>1, <3>1, PoolTypes, PoolAt DEF Orderly
    <3>3. ~At(t, "lock")
      BY <2>1, <2>5, PoolInside DEF TaskInv
    <3>. QED
      BY <3>2, <3>3 DEF CanMove
  <2>8. todo[t] > 0 \/ At(t, "begin")
    BY <2>1, <2>2, <2>7 DEF TaskInv
  <2>. QED
    BY <2>6, <2>8 DEF CanMove
<1>. QED
  BY PoolInductive, <1>1, PTL
============================================================================
