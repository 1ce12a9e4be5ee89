----------------------------- MODULE KeyedPages -----------------------------
(***************************************************************************)
(* The two pages of the console whose requests carry an idempotency key    *)
(* (frontend/src/app/features/convert/convert.ts and transfer/transfer.ts) *)
(* and the server behind them.  Both keep a key over retries after network *)
(* errors, until a definitive answer.  The convert page shows quotes, that *)
(* may be answered late, and asks for a confirmation in a dialog, once;    *)
(* the transfer page sends what its form says at each click.               *)
(*                                                                         *)
(* The server's side of a key is that of Idempotency.tla, for many keys:   *)
(* the row is claimed before the handler's transaction and completed after *)
(* it, and turns stale; any of its statements may fail, and it may die     *)
(* between two of them.  An INSERT that finds a row is one step with the   *)
(* SELECT that follows, and an error with the statement that it leads to.  *)
(*                                                                         *)
(* A key is known by the first request that carries it, a row by the one   *)
(* that inserted it, and what a user means by the form's content, until    *)
(* the next edit, by the first request with it.                            *)
(***************************************************************************)
EXTENDS Pages, Integers, Sequences, FiniteSets

CONSTANTS
  Payload,      \* what a valid form may ask for
  Blank,        \* the content of a form that cannot be quoted
  MaxQuotes,    \* bounds the quotes of one payload that are on their way
  MaxRequests   \* bounds the requests that the page sends

ASSUME PageAssumption ==
  /\ MaxQuotes \in Nat /\ MaxRequests \in Nat
  /\ {Blank, None} \cap Payload = {}
  /\ Blank # None
  /\ None \notin Int

VARIABLES
  form,          \* what the form says
  quote,         \* the payload that the displayed quote is for
  asked,         \* how many quotes of each payload are on their way
  dialog,        \* the payload that the open dialog shows
  networkError,
  key,           \* pendingIdempotencyKey
  sent,          \* requests: [key, payload, intent, at, reply]
  awaited,       \* the request whose response the page is waiting for
  rows,          \* the server's row of each key
  posted,        \* requests whose handler posted an entry
  ran,           \* requests whose handler was started
  abandoned,     \* requests whose row was deleted though they may post: as
                 \* stale, or by a handler that had committed
  intent,        \* the first request with what the form says
  confirmations, \* how often the user has confirmed a dialog
  reported       \* [request, entry]: successes that the page has shown

inputs == <<form, quote, asked, dialog, confirmations>>
history == <<ran, abandoned>>
server == <<rows, posted, history>>
keyedVars == <<inputs, intent, networkError, key, sent, awaited, server, reported>>

KeyedPage == {"convert", "transfer"}

Request == 1..MaxRequests

(* A reply is known by the request whose handler posted, or it is an error *)
(* that says this key will not post, or one that leaves that open: 409, an *)
(* attempt is in progress, or 500, something failed.                       *)
Refused == 0
InProgress == -1
Failed == -2
Errors == {Refused, InProgress, Failed}
Replies == Request \cup Errors
NoRow == [status |-> "absent", by |-> None, reply |-> None]

KeyedTypeOK ==
  /\ form \in Payload \cup {Blank}
  /\ quote \in Payload \cup {None}
  /\ asked \in [Payload -> 0..MaxQuotes]
  /\ dialog \in Payload \cup {None}
  /\ networkError \in BOOLEAN
  /\ key \in Request \cup {None}
  /\ sent \in Seq([key : Request, payload : Payload \cup {Blank}, intent : Request,
                    at : {"travelling", "reclaiming", "rerunning", "handling",
                          "committed", "answered"},
                    reply : Replies \cup {None}])
  /\ Len(sent) <= MaxRequests
  /\ awaited \in DOMAIN sent \cup {None}
  /\ rows \in [Request -> [status : {"absent", "processing", "stale", "completed"},
                           by : Request \cup {None}, reply : Replies \cup {None}]]
  /\ abandoned \subseteq ran /\ posted \subseteq ran /\ ran \subseteq DOMAIN sent
  /\ intent \in Request \cup {None}
  /\ confirmations \in 0..MaxRequests
  /\ reported \subseteq Request \X Request
  (* A key is pending while, and only while, its fate is open. *)
  /\ (key # None) = (awaited # None \/ networkError)

KeyedInit ==
  /\ form = Blank
  /\ quote = None
  /\ asked = [p \in Payload |-> 0]
  /\ dialog = None
  /\ networkError = FALSE
  /\ key = None
  /\ sent = <<>>
  /\ awaited = None
  /\ rows = [k \in Request |-> NoRow]
  /\ posted = {} /\ ran = {} /\ abandoned = {}
  /\ intent = None
  /\ confirmations = 0
  /\ reported = {}

---------------------------------------------------------------------------
(* Quotes of the convert page *)

canQuote == form \in Payload

(* The subscription to form.valueChanges, by scheduleQuoteRefresh. *)
FormBecomes(f) ==
  /\ form' = f
  /\ quote' = None
  /\ intent' = None

(* The user edits the form; a dialog is modal. *)
Edit(f) ==
  /\ dialog = None
  /\ f # form
  /\ FormBecomes(f)
  /\ UNCHANGED <<asked, dialog, confirmations, networkError, key, sent, awaited,
                 server, reported>>

(* refreshTimer fires, at any moment, or debounceTimer: fetchQuote. *)
FetchQuote ==
  /\ page = "convert"
  /\ canQuote
  /\ asked[form] < MaxQuotes
  /\ asked' = [asked EXCEPT ![form] = @ + 1]
  /\ UNCHANGED <<form, quote, dialog, confirmations, intent, networkError, key, sent,
                 awaited, server, reported>>

(* A quote for p or an error comes back, whatever the form says by now. *)
QuoteAnswered(p) ==
  /\ asked[p] > 0
  /\ asked' = [asked EXCEPT ![p] = @ - 1]
  /\ quote' \in {p, None}
  /\ UNCHANGED <<form, dialog, confirmations, intent, networkError, key, sent, awaited,
                 server, reported>>

---------------------------------------------------------------------------
(* Submitting *)

submitting == awaited # None

(* The convert page's submit button is enabled. *)
CanClick == page = "convert" /\ dialog = None /\ ~submitting /\ quote # None

(* A request under key k with the form's present values. *)
Post(k) ==
  LET i == Len(sent) + 1
      meant == IF intent = None THEN i ELSE intent IN
  /\ i <= MaxRequests
  /\ sent' = Append(sent, [key |-> k, payload |-> form, intent |-> meant,
                           at |-> "travelling", reply |-> None])
  /\ intent' = meant
  /\ awaited' = i

SubmitFreshKey ==
  /\ key' = Len(sent) + 1
  /\ Post(key')

(* The pending key is used again, or a fresh one becomes pending. *)
Submit ==
  /\ key' = IF key = None THEN Len(sent) + 1 ELSE key
  /\ Post(key')

(* A click opens the dialog, about the quote, when no retry is due. *)
Confirm ==
  /\ CanClick
  /\ ~networkError
  /\ form # Blank
  /\ dialog' = quote
  /\ UNCHANGED <<form, quote, asked, confirmations, intent, networkError, key, sent,
                 awaited, server, reported>>

DialogConfirmed ==
  /\ dialog # None
  /\ dialog' = None
  /\ confirmations' = confirmations + 1
  /\ Submit
  /\ UNCHANGED <<form, quote, asked, networkError, server, reported>>

DialogDismissed ==
  /\ dialog # None
  /\ dialog' = None
  /\ UNCHANGED <<form, quote, asked, confirmations, intent, networkError, key, sent,
                 awaited, server, reported>>

(* After a network error a click submits without asking again. *)
Retry ==
  /\ CanClick
  /\ networkError
  /\ Submit
  /\ UNCHANGED <<inputs, networkError, server, reported>>

(* A click on Send or Retry of the transfer page, whose form is valid. *)
SubmitTransfer ==
  /\ page = "transfer"
  /\ ~submitting
  /\ form # Blank
  /\ Submit
  /\ UNCHANGED <<inputs, networkError, server, reported>>

(* The response of success: form, quote and key are cleared. *)
Succeeds(i) ==
  /\ awaited = i
  /\ sent[i].reply \in Request
  /\ reported' = reported \cup {<<i, sent[i].reply>>}
  /\ awaited' = None
  /\ networkError' = FALSE
  /\ key' = None
  /\ FormBecomes(Blank)
  /\ UNCHANGED <<asked, dialog, confirmations, sent, server>>

IsRefusedStillRetrying(i) ==
  /\ awaited = i
  /\ sent[i].reply \in Errors
  /\ awaited' = None
  /\ key' = None
  /\ UNCHANGED <<inputs, intent, networkError, sent, server, reported>>

(* Any other status but 0: the key is done with. *)
IsRefused(i) ==
  /\ awaited = i
  /\ sent[i].reply \in Errors
  /\ awaited' = None
  /\ networkError' = FALSE
  /\ key' = None
  /\ UNCHANGED <<inputs, intent, sent, server, reported>>

NetworkFailsDroppingKey(i) ==
  /\ awaited = i
  /\ awaited' = None
  /\ networkError' = FALSE
  /\ key' = None
  /\ UNCHANGED <<inputs, intent, sent, server, reported>>

(* Status 0: no response, though the request may be anywhere.  Unless it   *)
(* has reached the server it may yet, or never.                            *)
NetworkFails(i) ==
  /\ awaited = i
  /\ awaited' = None
  /\ networkError' = TRUE
  /\ sent' \in {sent} \cup
       (IF sent[i].at = "travelling" THEN {[sent EXCEPT ![i].at = "answered"]} ELSE {})
  /\ UNCHANGED <<inputs, intent, key, server, reported>>

---------------------------------------------------------------------------
(* The server *)

client == <<inputs, intent, networkError, key, awaited, reported>>

Reply(i, r) == sent' = [sent EXCEPT ![i].at = "answered", ![i].reply = r]

Row(i) == rows[sent[i].key]

(* The row is there and of the same content, by its request_hash. *)
SameRequest(i) ==
  Row(i).status # "absent" /\ sent[Row(i).by].payload = sent[i].payload

GoesTo(i, label) == sent' = [sent EXCEPT ![i].at = label]

Claim(i) ==
  /\ Row(i).status = "absent"
  /\ rows' = [rows EXCEPT ![sent[i].key] =
                [status |-> "processing", by |-> i, reply |-> None]]
  /\ ran' = ran \cup {i}
  /\ GoesTo(i, "handling")

(* The row answers: 409 while it is in progress, the cached outcome when   *)
(* it is completed; a stale one is to be reclaimed.                        *)
AnswerFromRow(i) ==
  \/ Row(i).status = "processing" /\ Reply(i, InProgress)
  \/ Row(i).status = "completed" /\ Reply(i, Row(i).reply)
  \/ Row(i).status = "stale" /\ GoesTo(i, "reclaiming")

ArriveIgnoringPayload(i) ==
  /\ sent[i].at \in {"travelling", "rerunning"}
  /\ \/ Claim(i)
     \/ AnswerFromRow(i) /\ UNCHANGED <<rows, ran>>
  /\ UNCHANGED <<client, posted, abandoned>>

(* IdempotencyService.run claims the key or, with handleExistingKey, goes  *)
(* by its row, and refuses another payload with 422.  The ValidationPipe   *)
(* may have refused a blank form before.                                   *)
Arrive(i) ==
  /\ sent[i].at \in {"travelling", "rerunning"}
  /\ \/ Claim(i)
     \/ /\ \/ sent[i].at = "travelling" /\ sent[i].payload = Blank
           \/ Row(i).status # "absent" /\ ~SameRequest(i)
        /\ Reply(i, Refused) /\ UNCHANGED <<rows, ran>>
     \/ SameRequest(i) /\ AnswerFromRow(i) /\ UNCHANGED <<rows, ran>>
  /\ UNCHANGED <<client, posted, abandoned>>

(* DELETE of the key's row if it is at processing, be it the stale one or  *)
(* not; in any case the request then goes by what it finds.                *)
Reclaim(i) ==
  /\ sent[i].at = "reclaiming"
  /\ IF Row(i).status \in {"processing", "stale"}
       THEN /\ rows' = [rows EXCEPT ![sent[i].key] = NoRow]
            /\ abandoned' = abandoned \cup {Row(i).by}
       ELSE UNCHANGED <<rows, abandoned>>
  /\ GoesTo(i, "rerunning")
  /\ UNCHANGED <<client, posted, ran>>

(* executeConvert or executeTransfer commits an entry. *)
HandlerReturns(i) ==
  /\ sent[i].at = "handling"
  /\ sent[i].payload # Blank
  /\ posted' = posted \cup {i}
  /\ GoesTo(i, "committed")
  /\ UNCHANGED <<client, rows, history>>

(* UPDATE of whatever row the key has now. *)
Complete(i, outcome) ==
  rows' = IF Row(i).status = "absent" THEN rows
          ELSE [rows EXCEPT ![sent[i].key].status = "completed",
                            ![sent[i].key].reply = outcome]

(* The outcome is cached and returned, or the UPDATE fails after all: the  *)
(* request then goes on as one whose UPDATE was not carried out.           *)
Finalize(i) ==
  /\ sent[i].at = "committed"
  /\ Complete(i, i)
  /\ Reply(i, i) \/ UNCHANGED sent
  /\ UNCHANGED <<client, posted, history>>

(* It throws an HttpException, insufficient funds say, which is cached. *)
HandlerRejects(i) ==
  /\ sent[i].at = "handling"
  /\ Complete(i, Refused)
  /\ Reply(i, Refused) \/ Reply(i, Failed)
  /\ UNCHANGED <<client, posted, history>>

(* It, or the UPDATE after it, throws anything else: DELETE of whatever    *)
(* row the key has now, and 500.                                           *)
CleanUp(i) ==
  /\ sent[i].at \in {"handling", "committed"}
  /\ rows' = [rows EXCEPT ![sent[i].key] = NoRow]
  /\ abandoned' = IF sent[i].at = "committed" /\ Row(i).status # "absent"
                    THEN abandoned \cup {Row(i).by} ELSE abandoned
  /\ Reply(i, Failed)
  /\ UNCHANGED <<client, posted, ran>>

(* A statement fails for good, or the server dies under the request. *)
GiveUp(i) ==
  /\ sent[i].at # "answered"
  /\ Reply(i, Failed) \/ Reply(i, None)
  /\ UNCHANGED <<client, server>>

(* A row turns older than IDEMPOTENCY_STALE_MS. *)
Age(k) ==
  /\ rows[k].status = "processing"
  /\ rows' = [rows EXCEPT ![k].status = "stale"]
  /\ UNCHANGED <<client, sent, posted, history>>

---------------------------------------------------------------------------

ServerStep(i) ==
  \/ Arrive(i) \/ Reclaim(i) \/ Finalize(i)
  \/ HandlerRejects(i) \/ CleanUp(i) \/ GiveUp(i)

(* All but a success and a posting, which the history of the transfer page *)
(* takes note of; when every request is spent, editing and quoting go on.  *)
KeyedStep ==
  \/ \E f \in Payload \cup {Blank} : Edit(f)
  \/ FetchQuote
  \/ \E p \in Payload : QuoteAnswered(p)
  \/ Confirm \/ DialogConfirmed \/ DialogDismissed \/ Retry
  \/ SubmitTransfer
  \/ \E i \in DOMAIN sent :
       IsRefused(i) \/ NetworkFails(i) \/ ServerStep(i)
  \/ \E k \in Request : Age(k)

(* The pages and the server on their own, without what the history of the  *)
(* transfer page shows.                                                    *)
KeyedNext ==
  /\ KeyedStep \/ \E i \in DOMAIN sent : HandlerReturns(i) \/ Succeeds(i)
  /\ UNCHANGED page

KeyedSpec == KeyedInit /\ [][KeyedNext]_<<page, keyedVars>>

---------------------------------------------------------------------------

(* However network errors, retries, deaths and answers fall, the convert   *)
(* page's clicks that skip the dialog reuse a key that may have posted: to *)
(* one confirmation there is one entry, and one more at most for each      *)
(* attempt that the server gave up on though it may have posted            *)
(* (convert.ts: "Already confirmed once; a network-error retry should not  *)
(* re-prompt the user").                                                   *)
OneEntryPerConfirmation ==
  page = "convert" => Cardinality(posted) <= confirmations + Cardinality(abandoned)

(* A success that the page shows is of an entry that was posted under the  *)
(* key it sent and, unless the server gave up on an attempt with that key, *)
(* with the values it sent, also when it is the replay of an earlier       *)
(* attempt and the form was edited in between.                             *)
ReportedIsPosted ==
  \A r \in reported :
    /\ r[2] \in posted
    /\ sent[r[2]].key = sent[r[1]].key
    /\ \/ sent[r[2]].payload = sent[r[1]].payload
       \/ \E a \in abandoned : sent[a].key = sent[r[1]].key

Meaning(i) == {j \in DOMAIN sent : sent[j].intent = i}

KeysOf(i) == {sent[j].key : j \in Meaning(i)}

(* Answers that left open what had become of a key which was sent with the *)
(* content that request i is of, be it with other content.                 *)
LeftOpen(i) ==
  {j \in DOMAIN sent : sent[j].reply \in {InProgress, Failed} /\ sent[j].key \in KeysOf(i)}

(* Attempts under such a key that the server gave up on. *)
GivenUp(i) == {j \in abandoned : sent[j].key \in KeysOf(i)}

(* What the user filled in once is posted once, however often it is sent   *)
(* and whatever becomes of the requests, and once more at most for each    *)
(* answer, 409 or 500, that leaves open whether an earlier attempt with    *)
(* the same key will post, and for each attempt that the server gave up on *)
(* though it may have posted.  Such an answer makes the page drop the key, *)
(* or, after an edit, another attempt has been refused for what this one   *)
(* asked for and has made the page drop it (transfer.ts: "either it        *)
(* replays the original result, or it performs the operation exactly       *)
(* once").                                                                 *)
RepeatsAreCharged ==
  \A i \in DOMAIN sent :
    Cardinality(posted \cap Meaning(i))
      <= 1 + Cardinality(LeftOpen(i)) + Cardinality(GivenUp(i))

NothingFails == \A j \in DOMAIN sent : sent[j].reply # Failed

(* "Retrying is safe: it reuses the same request id, so the transfer will  *)
(* never be sent twice" (transfer.html): as long as nothing in the form    *)
(* changes, clicks on Send and Retry send one transfer between them.  Here *)
(* only for a server that neither fails nor gives up on any attempt.       *)
NeverSentTwice ==
  page = "transfer" /\ NothingFails /\ abandoned = {} =>
    \A i \in DOMAIN sent : Cardinality(posted \cap Meaning(i)) <= 1
=============================================================================
