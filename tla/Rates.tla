-------------------------------- MODULE Rates --------------------------------
(***************************************************************************)
(* The cache of exchange rates (backend/src/rates/) and the quotes and     *)
(* conversions that read it (backend/src/fx/fx.service.ts).  Nothing keeps *)
(* calls that find the cache expired from fetching at the same time, and   *)
(* each caches what it got when it gets it.                                *)
(*                                                                         *)
(* There is no clock: time passes in ticks that make everything older, and *)
(* an age stops growing when nothing depends on it any more.  A snapshot   *)
(* is known by the call that fetched it.                                   *)
(***************************************************************************)
EXTENDS Absence, Integers

CONSTANTS
  Quoting,     \* calls of getQuote
  Converting,  \* calls of convert, or orders that read the rate
  TTL,         \* RATE_CACHE_TTL_MS, in ticks
  Timeout      \* REQUEST_TIMEOUT_MS, in ticks

Call == Quoting \cup Converting

ASSUME RatesAssumption ==
  /\ TTL \in Nat \ {0} /\ Timeout \in Nat \ {0}
  /\ Quoting \cap Converting = {}
  /\ None \notin Call \cup Nat /\ None \notin {"coingecko", "static-fallback"}

VARIABLES
  cache,      \* the cached snapshot
  snapshots,  \* what each call fetched: [source, age, price, rivals], where
              \* price is the age of the prices themselves
  pc,         \* where each call is
  fetch,      \* its request to the provider: [age, price]
  answer,     \* [from, price, quotes]: the snapshot a call got, how old its
              \* prices were, and the quotes that had not expired then
  displaced   \* snapshots replaced by a fetch that had begun before they
              \* were cached, or lost in a restart

vars == <<cache, snapshots, pc, fetch, answer, displaced>>

NoSnapshot == [source |-> None, age |-> 0, price |-> 0, rivals |-> {}]
NoFetch == [age |-> 0, price |-> None]
NoAnswer == [from |-> None, price |-> 0, quotes |-> {}]

TypeOK ==
  /\ cache \in Call \cup {None}
  /\ snapshots \in [Call -> [source : {"coingecko", "static-fallback", None},
                             age : 0..TTL + 1, price : 0..TTL + Timeout,
                             rivals : SUBSET Call]]
  /\ pc \in [Call -> {"idle", "fetching", "fallingBack", "answered", "lost"}]
  /\ fetch \in [Call -> [age : 0..Timeout, price : 0..Timeout \cup {None}]]
  /\ answer \in [Call -> [from : Call \cup {None}, price : 0..TTL + Timeout,
                          quotes : SUBSET Quoting]]
  /\ displaced \subseteq Call

Init ==
  /\ cache = None
  /\ snapshots = [c \in Call |-> NoSnapshot]
  /\ pc = [c \in Call |-> "idle"]
  /\ fetch = [c \in Call |-> NoFetch]
  /\ answer = [c \in Call |-> NoAnswer]
  /\ displaced = {}

---------------------------------------------------------------------------
(* fx.service.ts *)

(* getQuote: quoteExpiresAt is the time of its snapshot and the TTL. *)
Unexpired(q) == pc[q] = "answered" /\ snapshots[answer[q].from].age < TTL

(* The call continues with snapshot s, as computeConversion does. *)
Answer(c, s) ==
  /\ pc' = [pc EXCEPT ![c] = "answered"]
  /\ answer' = [answer EXCEPT ![c] =
                  [from |-> s, price |-> snapshots'[s].price,
                   quotes |-> {q \in Quoting : Unexpired(q)}]]

---------------------------------------------------------------------------
(* rates.service.ts *)

FreshOnceMore == cache # None /\ snapshots[cache].age <= TTL

Fresh == cache # None /\ snapshots[cache].age < TTL

AskToConvertAnew(c) ==
  /\ pc[c] = "idle"
  /\ IF Fresh /\ c \in Quoting
       THEN UNCHANGED <<snapshots, fetch>> /\ Answer(c, cache)
       ELSE /\ pc' = [pc EXCEPT ![c] = "fetching"]
            /\ fetch' = [fetch EXCEPT ![c] = NoFetch]
            /\ UNCHANGED <<snapshots, answer>>
  /\ UNCHANGED <<cache, displaced>>

(* getSnapshot: from the cache, or on to the provider. *)
Ask(c) ==
  /\ pc[c] = "idle"
  /\ IF Fresh
       THEN UNCHANGED <<snapshots, fetch>> /\ Answer(c, cache)
       ELSE /\ pc' = [pc EXCEPT ![c] = "fetching"]
            /\ fetch' = [fetch EXCEPT ![c] = NoFetch]
            /\ UNCHANGED <<snapshots, answer>>
  /\ UNCHANGED <<cache, displaced>>

Fetching == {c \in Call : pc[c] \in {"fetching", "fallingBack"}}

(* The cache is overwritten, without another look at it. *)
Store(c, source, price) ==
  /\ snapshots' = [snapshots EXCEPT ![c] =
                     [source |-> source, age |-> 0, price |-> price,
                      rivals |-> Fetching \ {c}]]
  /\ cache' = c
  /\ displaced' = displaced \cup
       (IF cache # None /\ c \in snapshots[cache].rivals THEN {cache} ELSE {})
  /\ Answer(c, c)

(* CoinGecko's prices as they are when it answers the request. *)
ProviderAnswers(c) ==
  /\ pc[c] = "fetching"
  /\ fetch[c].price = None
  /\ fetch' = [fetch EXCEPT ![c].price = 0]
  /\ UNCHANGED <<cache, snapshots, pc, answer, displaced>>

(* The response has come in whole and has all the prices. *)
FetchSucceeds(c) ==
  /\ pc[c] = "fetching"
  /\ fetch[c].price # None
  /\ Store(c, "coingecko", fetch[c].price)
  /\ UNCHANGED fetch

FallsBack(c) == pc' = [pc EXCEPT ![c] = "fallingBack"]

(* No connection, a status that is not ok, or a price is missing. *)
FetchFails(c) ==
  /\ pc[c] = "fetching"
  /\ FallsBack(c)
  /\ UNCHANGED <<cache, snapshots, fetch, answer, displaced>>

NeverTimesOut(c) == FALSE

(* AbortSignal.timeout, for the request as for reading its response. *)
TimesOut(c) ==
  /\ pc[c] = "fetching"
  /\ fetch[c].age = Timeout
  /\ FallsBack(c)
  /\ UNCHANGED <<cache, snapshots, fetch, answer, displaced>>

(* The static prices, after an await of their own. *)
FallBack(c) ==
  /\ pc[c] = "fallingBack"
  /\ Store(c, "static-fallback", 0)
  /\ UNCHANGED fetch

(* The server restarts: its memory is lost, and so are calls under way. *)
Restart ==
  /\ cache' = None
  /\ displaced' = displaced \cup (IF cache = None THEN {} ELSE {cache})
  /\ pc' = [c \in Call |-> IF c \in Fetching THEN "lost" ELSE pc[c]]
  /\ UNCHANGED <<snapshots, fetch, answer>>

(* Age a, a tick later, of which only values up to `top` matter. *)
Older(a, top) == IF a = None \/ a = top THEN a ELSE a + 1

(* A tick passes, but not before a timer that is due has fired and the     *)
(* static prices, which wait for nothing, have been read.                  *)
Tick ==
  /\ \A c \in Fetching : pc[c] = "fetching" /\ fetch[c].age < Timeout
  /\ snapshots' = [c \in Call |->
                     IF snapshots[c].source = None THEN snapshots[c]
                     ELSE [snapshots[c] EXCEPT !.age = Older(@, TTL + 1),
                                               !.price = Older(@, TTL + Timeout)]]
  /\ fetch' = [c \in Call |->
                 IF pc[c] # "fetching" THEN fetch[c]
                 ELSE [age |-> fetch[c].age + 1, price |-> Older(fetch[c].price, Timeout)]]
  /\ UNCHANGED <<cache, pc, answer, displaced>>

---------------------------------------------------------------------------

Next ==
  \/ \E c \in Call :
       \/ Ask(c) \/ ProviderAnswers(c) \/ FetchSucceeds(c)
       \/ FetchFails(c) \/ TimesOut(c) \/ FallBack(c)
  \/ Restart
  \/ Tick

Spec == Init /\ [][Next]_vars

(* Time passes and the event loop runs what is due; nothing makes the      *)
(* provider answer.                                                        *)
Fairness ==
  /\ WF_vars(Tick)
  /\ \A c \in Call : WF_vars(TimesOut(c)) /\ WF_vars(FallBack(c))

FairSpec == Spec /\ Fairness

---------------------------------------------------------------------------

(* No quote and no conversion is priced from the market of longer ago than *)
(* the cache's time to live and one request's timeout together, although   *)
(* a snapshot is dated when its response is processed, not when its prices *)
(* were true (rates.service.ts: "served for its full TTL").                *)
PricesAreRecent ==
  \A c \in Call :
    pc[c] = "answered" /\ snapshots[answer[c].from].source = "coingecko"
      => answer[c].price < TTL + Timeout

(* Until its quoteExpiresAt a quote is what a conversion gets, "modulo     *)
(* rate drift if the cache refreshes between the two calls" (README): and  *)
(* before that time only two things refresh it, a restart and a fetch that *)
(* had already begun when the quote's snapshot was cached.                 *)
QuoteIsKept ==
  \A c \in Converting : \A q \in answer[c].quotes :
    answer[c].from = answer[q].from \/ answer[q].from \in displaced

(* Whoever needs a rate gets one in the end, though the provider may never *)
(* answer and others may be fetching all the time.                         *)
EveryCallEnds ==
  \A c \in Call : pc[c] = "fetching" ~> pc[c] \in {"answered", "lost"}
=============================================================================
