---------------------------- MODULE Idempotency ----------------------------
(***************************************************************************)
(* IdempotencyService (backend/src/common/idempotency/                     *)
(* idempotency.service.ts): requests that carry the same key of the same   *)
(* user, from concurrent duplicates and from retries, meet at one row of   *)
(* idempotency_keys.  Each statement commits on its own: the row is        *)
(* claimed before the handler's transaction and completed after it.        *)
(*                                                                         *)
(* The handler is executeTransfer or executeConvert: its one transaction   *)
(* posts an entry, or it throws.                                           *)
(***************************************************************************)
EXTENDS Absence, Integers, FiniteSets

CONSTANTS
  Request,    \* requests with the key, retries included
  Payload,    \* their possible payloads
  payloadOf   \* the payload of each request

ASSUME RequestAssumption ==
  /\ IsFiniteSet(Request)
  /\ payloadOf \in [Request -> Payload]
  /\ None \notin Request \cup Payload \cup {"refused", "failed"}
  /\ Request \cap {"refused", "failed"} = {}

VARIABLES
  row,        \* the row of the key: [status, hash, response, stale]
  pc,         \* the statement each request is about to run
  answer,     \* what each request was answered with
  postings,   \* the requests whose handler committed an entry
  removals,   \* how often the row was deleted
  reclaims    \* how many of those were by handleExistingKey

vars == <<row, pc, answer, postings, removals, reclaims>>

NoRow == [status |-> "absent", hash |-> None, response |-> None, stale |-> FALSE]
NewRow(r) == [status |-> "processing", hash |-> payloadOf[r], response |-> None,
              stale |-> FALSE]

Rows == [status : {"processing", "completed"}, hash : Payload,
         response : Request \cup {None}, stale : BOOLEAN]

(* A stored response is known by the request whose handler produced it.    *)
(* That is also the answer of a request that ran or replayed it; the other *)
(* answers are a 409 or 422, "refused", and no usable answer, "failed".    *)
Errors == {"refused", "failed"}
InHandler == {"handling", "finalizing", "rejecting", "cleaning"}

TypeOK ==
  /\ row \in {NoRow} \cup Rows
  /\ (row.status = "completed") = (row.response # None)
  /\ pc \in [Request -> {"sent", "inserting", "selecting", "reclaiming", "answered"}
                          \cup InHandler]
  /\ answer \in [Request -> Request \cup Errors \cup {None}]
  /\ \A r \in Request : (pc[r] = "answered") = (answer[r] # None)
  /\ postings \subseteq Request
  /\ removals \in Nat
  /\ reclaims \in 0..removals

Init ==
  /\ row = NoRow
  /\ pc = [r \in Request |-> "sent"]
  /\ answer = [r \in Request |-> None]
  /\ postings = {}
  /\ removals = 0
  /\ reclaims = 0

---------------------------------------------------------------------------

GoTo(r, label) == pc' = [pc EXCEPT ![r] = label] /\ UNCHANGED answer

Answer(r, a) ==
  /\ pc' = [pc EXCEPT ![r] = "answered"]
  /\ answer' = [answer EXCEPT ![r] = a]

Arrive(r) ==
  /\ pc[r] = "sent"
  /\ GoTo(r, "inserting")
  /\ UNCHANGED <<row, postings, removals, reclaims>>

InsertOverwriting(r) ==
  /\ pc[r] = "inserting"
  /\ row' = NewRow(r)
  /\ GoTo(r, "handling")
  /\ UNCHANGED <<postings, removals, reclaims>>

(* run: INSERT ... ON CONFLICT (user_id, key) DO NOTHING RETURNING. *)
Insert(r) ==
  /\ pc[r] = "inserting"
  /\ IF row = NoRow
       THEN row' = NewRow(r) /\ GoTo(r, "handling")
       ELSE UNCHANGED row /\ GoTo(r, "selecting")
  /\ UNCHANGED <<postings, removals, reclaims>>

(* The handler's transaction commits and it returns. *)
HandlerReturns(r) ==
  /\ pc[r] = "handling"
  /\ postings' = postings \cup {r}
  /\ GoTo(r, "finalizing")
  /\ UNCHANGED <<row, removals, reclaims>>

(* The handler throws an HttpException: nothing has been posted. *)
HandlerRejects(r) ==
  /\ pc[r] = "handling"
  /\ GoTo(r, "rejecting")
  /\ UNCHANGED <<row, postings, removals, reclaims>>

(* The handler throws anything else.  When the connection is lost during   *)
(* the COMMIT, the entry may have been posted.                             *)
HandlerFails(r) ==
  /\ pc[r] = "handling"
  /\ postings' \in {postings, postings \cup {r}}
  /\ GoTo(r, "cleaning")
  /\ UNCHANGED <<row, removals, reclaims>>

(* UPDATE ... SET status = 'completed' of whatever row the key has now. *)
Complete(r) ==
  row' = IF row = NoRow THEN NoRow
                        ELSE [row EXCEPT !.status = "completed", !.response = r]

(* The outcome, an entry or a rejection, is cached and returned. *)
Finalize(r) ==
  /\ pc[r] \in {"finalizing", "rejecting"}
  /\ Complete(r)
  /\ Answer(r, r)
  /\ UNCHANGED <<postings, removals, reclaims>>

(* The UPDATE after a successful handler throws, inside the try block; it  *)
(* may have been carried out.                                              *)
FinalizeFails(r) ==
  /\ pc[r] = "finalizing"
  /\ Complete(r) \/ UNCHANGED row
  /\ GoTo(r, "cleaning")
  /\ UNCHANGED <<postings, removals, reclaims>>

Remove ==
  /\ row' = NoRow
  /\ removals' = IF row = NoRow THEN removals ELSE removals + 1

(* DELETE of whatever row the key has now; the error is rethrown. *)
CleanUp(r) ==
  /\ pc[r] = "cleaning"
  /\ Remove
  /\ Answer(r, "failed")
  /\ UNCHANGED <<postings, reclaims>>

SelectIgnoringHash(r) ==
  /\ pc[r] = "selecting"
  /\ \/ row = NoRow /\ GoTo(r, "inserting")
     \/ row.status = "completed" /\ Answer(r, row.response)
     \/ row.status = "processing" /\ ~row.stale /\ Answer(r, "refused")
     \/ row.status = "processing" /\ row.stale /\ GoTo(r, "reclaiming")
  /\ UNCHANGED <<row, postings, removals, reclaims>>

(* The row is of the request's own payload. *)
SameRequest(r) == row # NoRow /\ row.hash = payloadOf[r]

SelectPolling(r) ==
  /\ pc[r] = "selecting"
  /\ \/ row = NoRow /\ GoTo(r, "inserting")
     \/ row # NoRow /\ ~SameRequest(r) /\ Answer(r, "refused")
     \/ SameRequest(r) /\ row.status = "completed" /\ Answer(r, row.response)
     \/ SameRequest(r) /\ row.status = "processing" /\ row.stale /\ GoTo(r, "reclaiming")
  /\ UNCHANGED <<row, postings, removals, reclaims>>

(* handleExistingKey: SELECT, and what it leads to. *)
Select(r) ==
  /\ pc[r] = "selecting"
  /\ \/ row = NoRow /\ GoTo(r, "inserting")
     \/ row # NoRow /\ ~SameRequest(r) /\ Answer(r, "refused")
     \/ SameRequest(r) /\ row.status = "completed" /\ Answer(r, row.response)
     \/ SameRequest(r) /\ row.status = "processing" /\ ~row.stale /\ Answer(r, "refused")
     \/ SameRequest(r) /\ row.status = "processing" /\ row.stale /\ GoTo(r, "reclaiming")
  /\ UNCHANGED <<row, postings, removals, reclaims>>

(* DELETE ... AND status = 'processing' RETURNING key. *)
Reclaim(r) ==
  /\ pc[r] = "reclaiming"
  /\ IF row.status = "processing"
       THEN Remove /\ reclaims' = reclaims + 1 /\ GoTo(r, "inserting")
       ELSE UNCHANGED <<row, removals, reclaims>> /\ GoTo(r, "selecting")
  /\ UNCHANGED postings

(* A statement outside the try block, or in the catch block, throws; the   *)
(* UPDATE of a rejection may have been carried out.                        *)
StatementFails(r) ==
  /\ pc[r] \in {"inserting", "selecting", "reclaiming", "rejecting", "cleaning"}
  /\ \/ pc[r] = "rejecting" /\ Complete(r)
     \/ UNCHANGED row
  /\ Answer(r, "failed")
  /\ UNCHANGED <<postings, removals, reclaims>>

(* The server dies under the request. *)
Crash(r) ==
  /\ pc[r] \notin {"sent", "answered"}
  /\ Answer(r, "failed")
  /\ UNCHANGED <<row, postings, removals, reclaims>>

(* The row turns older than IDEMPOTENCY_STALE_MS. *)
Age ==
  /\ row.status = "processing"
  /\ ~row.stale
  /\ row' = [row EXCEPT !.stale = TRUE]
  /\ UNCHANGED <<pc, answer, postings, removals, reclaims>>

Finished ==
  /\ \A r \in Request : pc[r] = "answered"
  /\ UNCHANGED vars

(* What the server does next for r when no statement fails. *)
Step(r) ==
  \/ Insert(r)
  \/ HandlerReturns(r)
  \/ HandlerRejects(r)
  \/ HandlerFails(r)
  \/ Finalize(r)
  \/ CleanUp(r)
  \/ Select(r)
  \/ Reclaim(r)

Next ==
  \/ \E r \in Request :
       Arrive(r) \/ Step(r) \/ FinalizeFails(r) \/ StatementFails(r) \/ Crash(r)
  \/ Age
  \/ Finished

Spec == Init /\ [][Next]_vars

(* The server works on a request that has arrived. *)
Fairness == \A r \in Request : WF_vars(Step(r))

FairSpec == Spec /\ Fairness

---------------------------------------------------------------------------

(* 1 while the key has a row. *)
Claims == IF row = NoRow THEN 0 ELSE 1

(* The requests that posted an entry or may yet. *)
Posters == postings \cup {r \in Request : pc[r] = "handling"}

Runners == {r \in Request : pc[r] \in InHandler}

(* Duplicates and retries post one entry between them, plus at most one    *)
(* for each time the row was deleted: the row is the only thing that       *)
(* stands between a key and a second posting, and it suffices while it     *)
(* stands (README.md, "How a key is claimed": "a real mutual-exclusion     *)
(* lock").                                                                 *)
PostingsAreCharged == Cardinality(Posters) <= removals + Claims

(* Handlers for one key never overlap, but for one more after each time    *)
(* the row of a slow one was reclaimed.                                    *)
RunnersAreCharged == Cardinality(Runners) <= reclaims + Claims

Answered(r) == answer[r] \in Request

(* The different outcomes that requests were answered with, and those that *)
(* were given to a request of another payload.                             *)
Outcomes == {answer[r] : r \in {q \in Request : Answered(q)}}
Strays == {x \in Outcomes : \E r \in Request : answer[r] = x /\ payloadOf[r] # payloadOf[x]}

(* Requests of one key get the same outcome ("returns the identical cached *)
(* response"), but for one more at most each time the row was deleted.  An *)
(* outcome of another payload is given out only after a row was reclaimed: *)
(* a slow handler then completes whatever row the key has by now.  There   *)
(* are no more of those than deletions.                                    *)
AnswersConsistent ==
  /\ Cardinality(Outcomes) <= removals + Claims
  /\ Cardinality(Strays) <= removals
  /\ reclaims = 0 => Strays = {}

(* Every request that arrived is answered: nobody waits for a runner that  *)
(* may have died.                                                          *)
EveryRequestAnswered == \A r \in Request : pc[r] = "inserting" ~> pc[r] = "answered"

(* Only "a processing row older than that is treated as abandoned and      *)
(* reclaimed" (README.md, Payments).                                       *)
OnlyStaleReclaimed == [][reclaims' > reclaims => row.stale]_vars
============================================================================
