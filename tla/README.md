# FlowPay in TLA+

Specifications of the parts of FlowPay where concurrency, failure and rounding
decide whether money is right: the double-entry ledger, withdrawals, trading,
idempotency keys, exchange rates, the creation of users and accounts, the
connection pool, the road from a committed transaction to an email, and the pages
of the console that start all this. TLC checks them on small instances; TLAPS
proves every safety property among those checks for instances of any size.

Paths below are relative to `src/`; `B/` is `backend/src/`, `C/` is
`frontend/src/app/`. `PROJECT.json` maps every definition to the lines it models.

## 1. The system

FlowPay is one NestJS process over PostgreSQL, with Kafka and SMTP behind it and
an Angular console in front. The process may be killed and started again at any
moment, and several requests, cron ticks and consumer callbacks are always in
flight; they meet only in the database and in a few fields of the process.

| Component | State | Operations | Talks to |
|---|---|---|---|
| Ledger (`B/ledger`) | `accounts`, `account_balances`, `journal_entries`, `journal_lines` | `postEntry`, `ensureAccount`, reads | everybody who moves money calls it, usually inside their own transaction |
| Deposits, transfers, FX (`B/deposits`, `B/transfers`, `B/fx`, `B/common/trade-execution`) | none | one entry and one event per request | ledger, outbox, idempotency, rates |
| Withdrawals (`B/withdrawals`) | `withdrawal_requests` | `requestWithdrawal`, `approve`, `reject` | ledger, outbox |
| Trading (`B/trading`) | `orders` | market and limit orders, `cancelOrder`, the 10-second fill worker | ledger, rates, outbox |
| Idempotency (`B/common/idempotency`) | `idempotency_keys` | `run` around the handlers of transfers and conversions | the client's retries |
| Outbox (`B/common/outbox`) | `outbox_events` | `append` in the caller's transaction, the 5-second publisher | Kafka |
| Kafka clients (`B/common/kafka`) | connection state, the group's offset | send, subscribe, resubscribe | the broker |
| Notifications (`B/notifications`) | `processed_events` | claim, mail | Kafka, SMTP |
| Rates (`B/rates`) | a cached snapshot in the process | `getSnapshot` | CoinGecko or static rates |
| Connection pool (`B/database`) | free connections, waiting queries | taken by every transaction, and by every statement outside one | PostgreSQL |
| Users and auth (`B/users`, `B/auth`) | `users` | register, log in | - |
| Seed (`B/scripts/seed.ts`) | writes `users`, `currencies`, system accounts | a script of its own, run at any time | `ensureAccount` |
| Accounts read API, health, HTTP layer | none | request in, answer out | ledger |
| Console (`C/`) | forms, pending idempotency keys, quotes, lists with their filters | submit, retry, confirm, cancel, decide, look around | the HTTP API |

What is hard, and what makes each part correct:

* **Ledger.** Any number of transactions post at once to overlapping accounts at
  READ COMMITTED. A cached balance must stay the total of its journal lines, a
  wallet must not go negative, money must be conserved per currency, no set of
  transactions may deadlock, and a posting is all or nothing whenever it dies.
  First-touch creation of an account must give everyone the same account.
* **Withdrawals.** Two admins decide the same request; money is in a pooled
  account that says nothing about whose it is.
* **Trading.** Ticks overlap with each other and with the owner's cancellation;
  the held amount is recomputed at each use; one order that always throws is
  retried for ever next to healthy ones.
* **Idempotency.** Claim, handler and completion are three transactions. Rows are
  reclaimed by age, and `UPDATE` and `DELETE` name the key rather than the row
  they mean.
* **Events.** The publisher may fail between Kafka's acknowledgement and its own
  commit, batches overlap, the consumer is killed between claim and mail, and
  Kafka delivers again.
* **Rates.** Nothing keeps requests that find the cache expired from fetching
  together, each overwrites the cache when it is done, and a quote promises a rate
  until a time that the cache does not know of.
* **Users, seed, first touches.** Registration checks, hashes for a while, and then
  inserts; the seed does the same with the admin, is killed and run again, and
  creates accounts that requests create as well.
* **Pages with a key (convert, transfer).** A network error says nothing of what the
  server did; quotes are answered late; the form can be edited between an attempt
  and its retry. One confirmation must not convert twice, and what a page reports
  must have happened.
* **Pages with lists.** Loads overtake each other, rows change elsewhere, orders and
  withdrawals are sent without a key, and spinners and disabled buttons depend on
  callbacks.
* **Connection pool.** Many handlers hold a connection (their transaction) and
  ask for a second one (repositories, `ensureAccount`). PostgreSQL sees waits for
  rows but not waits for connections.

The hazards are listed one by one, at their lines, in `PROJECT.json`.

## 2. Modules

| Module | Models | Composes |
|---|---|---|
| `Absence` | the one value that stands for null in several modules | |
| `Rounding` | half-even rounding to the smallest unit | |
| `LedgerEntry` | entries, accounts, `validateEntryLines`, `deltasByAccountId` | |
| `AtomicLedger` | the promise: each request posts its entry in one step, or is refused | |
| `Ledger` | `postEntry` row by row, with locks, commit and rollback | extends `LedgerEntry`; refines `AtomicLedger` |
| `ServiceEntries` | the lines that deposits, transfers, withdrawals, orders and conversions post | instantiated with `Ledger` in `MCLedger` |
| `EnsureAccount` | `ensureAccount` statement by statement | |
| `Onboarding` | registration, login, the seed, first touches by requests | extends `EnsureAccount`, and refines it |
| `Rates` | the cache of rates, quotes and conversions that read it | `Absence` |
| `Withdrawals` | request, approve, reject | |
| `Orders` | orders, cancellation, worker ticks | `Rounding` |
| `Idempotency` | all requests with one key | `Absence` |
| `Events` | outbox, publisher, topic, consumer, mailer | |
| `Pages` | which page the user is on | `Absence` |
| `KeyedPages` | `convert.ts`, the form of `transfer.ts`, and the server's side of their keys | `Pages` |
| `ListPages` | `trade.ts`, `withdrawals.ts`, `admin-withdrawals.ts`, `transactions.ts`, the history of `transfer.ts` | `Pages` |
| `Console` | a user on any one of these pages | `KeyedPages` and `ListPages`, which meet on the transfer page |
| `Connections` | what each handler asks of the pool and which rows it locks | `Absence` |
| `SumTheorems` | lemmas about sums over finite sets, for any set and function | |
| `WithdrawalsProofs`, `OrdersProofs`, `EventsProofs`, `OnboardingProofs` | theorems about the module each is named after | |
| `LedgerProofs` | theorems about `Ledger` and `ServiceEntries` | |
| `IdempotencyProofs` | theorems about `Idempotency` and `Connections`, which share no state | |
| `ConsoleProofs` | theorems about `Console` and `Rates`, which share no state | |

How state and steps correspond to the code:

* **PostgreSQL** is external. A transaction's writes appear at its commit; a lock
  taken by `FOR UPDATE` (`lock: { mode: 'pessimistic_write' }`) is held until the
  transaction ends; a statement sees the newest committed row once it has the
  lock; a lost connection rolls back. Each module has one action per statement
  whose position relative to other transactions matters: taking a row lock,
  reading, committing, failing. Statements between two such points that only the
  own transaction can see are one action.
* **Ledger.** `seen` is what `SELECT ... FOR UPDATE` returned, `balance` the
  committed `account_balances`, `total` the sum of the committed
  `journal_lines`. Amounts are integers in the smallest unit.
* **Withdrawals, Orders.** The ledger's part of a transaction is one step with
  its commit: that is what `Ledger` refining `AtomicLedger` licenses. `hold`
  and `pending` are the pooled system accounts.
* **Idempotency.** `row` is the key's row. `stale` abstracts the clock: a row
  becomes stale at any time. `removals` and `reclaims` count deletions of the
  row; nothing in the code counts them, and they appear only in properties. A
  statement that fails may have been carried out, when only its answer was lost: of the
  INSERT and the DELETEs these are the behaviours where the request dies after them,
  and the UPDATE has both outcomes in `FinalizeFails` and `StatementFails`.
  The code reads `reclaimed.length === 0` off the DELETE's result
  (`idempotency.service.ts:133`) and the model follows that reading: a request
  whose DELETE removed nothing selects again. A driver that reports the
  deletion in another shape would send it to the INSERT instead, which then
  conflicts and selects: one more step to the same place.
* **Events.** `topic` is the sequence of acknowledged messages, `offset` the
  committed group offset, `position` where the running consumer reads.
  Messages of different keys may be reordered by Kafka; no property depends on
  their order. A message's key partitions nothing that matters here.
* **Rates.** There is no clock: `Tick` makes all ages older, up to the age from
  which nothing depends on them. A snapshot is known by the call that fetched it and
  has two ages, that of the snapshot (`asOf`, the time its response was processed)
  and that of the prices in it (when the provider answered). `displaced` and
  `rivals` appear only in `QuoteIsKept`.
* **Onboarding.** A password is known by who chose it. `signup` is where a
  registration is between its SELECT, its hashing and its INSERT; `seeding` is where
  a run of the seed is; the calls that the seed and the requests make of
  `ensureAccount` are those of `EnsureAccount`, one after another for a run.
* **KeyedPages.** A request is known by its position in `sent`, a key by the
  first request that carries it, a reply by the request whose handler posted (or
  `Refused`, `InProgress` for a 409, `Failed` for a 500). `refreshTimer` may fire at any
  moment, which leaves nothing for `debounceTimer` to add. The server's side of a key is
  that of `Idempotency`, for many keys: `rows` has a row for each, claimed by `Claim`,
  completed by `Finalize` after the handler's own commit (`HandlerReturns`), deleted by
  `CleanUp`, turned stale by `Age` and reclaimed by `Reclaim`, which like the code's
  statements name the key and not the row they mean; `GiveUp` is the death of a request
  between any two of its statements, or the failure of one. Two things are coarser than
  in `Idempotency`: an INSERT that conflicts is one step with the SELECT after it (a row
  that goes or comes between the two is found so by the SELECT, and the INSERT has done
  nothing), and a rejection or an error of the handler is one step with the UPDATE or
  DELETE it leads to (before that it has done nothing either). `confirmations`, `intent`,
  `posted`, `ran`, `abandoned` and `reported` appear only in properties; `abandoned` has
  the attempts whose row was deleted though they may post, or have posted: as stale, or
  by the clean-up of an attempt that had committed.
* **ListPages.** A load carries the view (filter, page) it was asked for and, once
  the server has read its rows, what they were then. `latest` and `told` appear
  only in properties. A row is open or closed; which rows fit on which page of a
  list is left open. `ConsoleNext` adds what the transfer page does to both halves:
  a success clears the form and loads the history anew.
* **Connections.** A handler is the tuple of its actions: *n* queries at once,
  BEGIN, a row lock, COMMIT. The handlers of all services but `auth` are written
  down, most as one line; `Program` puts them side by side. Tasks that lock rows of one table
  lock the same row, the treasury's balance or one order, which is the worst case.

## 3. Runs

Deadlock is checked in every run but those of `MCConnections`, whose system
really can stop (its properties say when). Elsewhere, where a system may come to
rest, a `Finished` step says when.

| Run | Instance | Shows |
|---|---|---|
| `ledger` | 3 transactions, 7 accounts in 2 currencies, 9 entries (7 built by `ServiceEntries`, 2 malformed) | no lost update, no overdraft, conservation per currency, no deadlock, every posting ends, refinement of `AtomicLedger` |
| `onboarding` | 2 runs of the seed with 2 system accounts each, a first touch of one of these, 2 people with one address in two spellings, the admin's | one account per key, answers can be posted to, registrations hold, a seed that ends well is complete, everyone is answered |
| `withdrawals` | 2 users, 2 requests, 3 decisions, amounts 1 and 2 | wallets, pool and treasury follow the decisions, one entry and one event per decision, all decisions end |
| `orders` | 2 orders, 2 overlapping ticks, 1 canceller, 2 rates, 1 fault | books and `trade_hold` follow the orders, one resolution per order, no starvation, cancellations end |
| `idempotency` | 4 requests with one key, one of them with another payload | postings, handlers and different outcomes are charged to deletions of the row, outcomes of another payload to reclaims, every request answered |
| `idempotency_fresh` | same | finding: a fresh row is reclaimed |
| `events` | 2 events (one without a recipient), 2 overlapping batches, 2 faults | neither lost nor phantom, duplicates only by faults, emails only for claims and once, everything published, everything behind the offset claimed |
| `console` | any page; 2 requests with a key, 2 payloads and a blank form, 1 late quote of each payload; 3 loads and 2 cancellations or decisions on their way | pages and server are typed and keys pending while their fate is open; one entry per confirmation, and one more at most per abandoned attempt; reported successes were posted under the key that was sent, with the values sent unless an attempt was abandoned; repeats are charged to 409, 500 and abandoned attempts; repeats without a key are charged to lost responses, lists show the newest view and all that was reported, spinners have requests |
| `transfer_twice` | the transfer page; 3 requests, 2 payloads | finding: an unchanged transfer form is sent twice |
| `connections` | 3 tasks, 3 connections, 4 handlers | while nested transactions leave a connection over, tasks are never all waiting for each other, and every task ends |
| `connections_stuck` | 3 tasks, 2 connections, 4 handlers | finding: all connections held by transactions that wait for each other |
| `rates` | 1 quote, 2 conversions, time to live 2 ticks, timeout 1 | prices are recent, quotes are kept until they expire, every call ends |

**Bounds.** Three transactions on a ledger are enough for every cycle through two
locked rows with a third waiting, and the entries share accounts pairwise in
both orders; TLAPS takes over where the instance ends. Two orders with two
ticks and a canceller give each lock a holder, a waiter and a bystander, and
prices 2 and 4 with four base units to the whole reach a tie that rounds down to
nothing and one that rounds up. Four requests with one key allow a slow runner, a
reclaimer, a second reclaimer and a stranger at once. Two faults in `events`
allow a duplicate publication followed by a crash of the consumer. In `console`
two requests with two payloads are a first attempt and its retry, with the same form or
an edited one, under the pending key or a new one: enough for a refused payload, a
409 or 500, a reclaim of the first attempt's row and the two entries that come of it. What
takes more is the theorems' business, which hold for any number: a third, edited request
whose row a slow first attempt completes, an attempt whose row is deleted by another
that failed, or the four requests of `RepeatsAreCharged` below. `transfer_twice` needs
three: a first attempt, the retry that gets the 409, and the click after it.
Three loads are one overtaking another with a third asked for meanwhile; two rows
exist where users request them (withdrawals), one elsewhere, as rows of a list do
not interact; the histories of orders and transfers fit on one page, the other
lists are paged. In `rates` a snapshot outlives a slow fetch by one tick, so that
what is displaced may still be fresh. In `onboarding` all wants meet: both seeds and
a deposit want one treasury account, both people and both seeds one address.
Three connections and three tasks let two transactions wait for each other's rows
with a connection left over, or exhaust the pool; with two connections they do so
with a task left outside. Four of the handlers cover the kinds there are: no nested
query (`deposit`), around the lock of a balance (`convert`), after the lock of
an order (`cancelOrder`), and both (`tryFill`). `MaxFaults`
bounds failures only, never retries: ticks run for ever.

**Fairness.** Weak fairness of the steps of a transaction or handler that has
begun: the server and PostgreSQL keep running what they were given. Weak
fairness of ticks: `@Cron` starts them every 5 or 10 seconds. Strong fairness
of one thing only, a cancellation waiting for an order's row (`Orders`):
PostgreSQL queues waiters of a row lock, while ticks that lock and release it for
ever would let a weakly fair waiter starve. In `Connections` the pool and
PostgreSQL serve a task whenever they can serve it; that a task fails is never
assumed. Calls by users, failures, crashes
and the ageing of a row are never assumed to happen. Nothing is assumed about
subscriptions succeeding: `Events` lets a resubscription fail for good and
`EveryMessageClaimed` says what remains true. `Rates` assumes that time passes, that
timers fire and that static rates are read, and nothing of the provider.
`Onboarding` assumes that what has begun goes on; the insert of one key waits for
another's, and a waiting insert is not enabled until that ends. The console has no
fairness: users and networks do as they like, and its properties are invariants.

**Findings.** Each `violation` run is a sentence of the documentation or of a
comment that the code does not keep:

1. `connections_stuck`: README.md "deadlock-safe concurrent locking". With all
   connections of the pool in transactions, one of them has locked a row and
   needs another connection (`getCurrency`, `ensureAccount` or `findById` inside
   the transaction), and the others wait for the row. Neither node-postgres (no
   timeout by default) nor PostgreSQL (which sees no cycle) ends that.
2. `idempotency_fresh`: README.md "a `processing` row older than that is treated
   as abandoned and reclaimed". Two retries select the same stale row; the first
   deletes it and inserts its own; the second's DELETE asks only for `processing`.
3. `transfer_twice`: transfer.html:51-52 "Retrying is safe: it reuses the same request
   id, so the transfer will never be sent twice". A retry that meets the first attempt
   in progress is answered 409; the page takes that for definitive and drops the key;
   the next click sends the unchanged form under a new one. No statement fails in this
   run and no row is reclaimed. `RepeatsAreCharged` bounds what it costs: one entry more
   for each 409 or 500 under a key that was sent with what the user filled in (and for
   each abandoned attempt, as below). The answer need not be to that form: an
   edited form sent under the pending key is refused with a 422, the page drops the
   key, and if then the attempt in progress fails with a 500 the key's row is gone
   and an older attempt still on its way may post.

**Observations** without a run of their own, which the models show:

* convert.html:71-72 says "Retrying is safe: it reuses the same request id, so the
  conversion will never be applied twice". A retry under the same key may find the
  row of its first attempt at `processing` and older than `IDEMPOTENCY_STALE_MS`; it deletes
  it, claims the key and converts, and the first attempt, if it was only slow or died
  after its commit, has converted as well. README.md:297-301 takes every stale row for
  that of a server that has died. What holds is `OneEntryPerConfirmation`, one entry more
  at most for each attempt whose row was deleted though it might post (`abandoned`), and
  without that term the run `console` fails. After a reclaim a slow attempt may also
  complete the row of an edited retry, whose replay then reports the other content:
  `ReportedIsPosted` and `AnswersConsistent` promise the payload only without it.
* README.md:269-271 says that a retry under the same key "never posts a second ledger
  entry". If the handler commits and the `UPDATE` that completes the key throws
  inside the `try` block, `catch` deletes the row and the retry posts again. What
  holds is `PostingsAreCharged`: one posting more for each deletion of the row.
* README.md:518-519 says that a message delivered twice "still sends exactly one
  email". The claim commits before the mail is sent; if sending fails, the
  redelivery loses the claim and no mail is sent. At most one holds
  (`EmailsFollowClaims`).
* `auth.controller.ts:22` documents 409 for an address that is taken; of two
  registrations at the same time the second gets the unique index's error, a 500.
* The seed skips the admin when the address exists, whatever that row's role:
  if somebody registered it first, the seed ends well without an admin
  (`SeededIsComplete` names this case).
* A sell limit order worth less than half a quote unit is accepted and held, but
  `validateEntryLines` refuses its fill at every tick; it stays open until it is
  cancelled, and `CrossedOrdersResolved` is about orders that the ledger accepts.
* The convert page's dialog may show another amount than `submit` sends (a late
  quote), and a retry after an edit sends values that no dialog has shown.
* A list of the console that is loaded twice shows whichever response comes last,
  and hides its spinner at the first; an older response may stay on display until
  the next load. `ShownIsLatest` says that nothing else makes a list wrong.

## 4. Proofs

Every invariant and action property of the passing runs is a theorem, and so is
the refinement of `AtomicLedger`; the runs show them on an instance, the theorems for
every value of the constants that satisfies the assumptions stated beside them.

**Sums** (`SumTheorems`). Money is a sum over accounts, lines, orders or requests.
The library's fold is a recursive function chosen by its equation; that there is one
and only one is shown by induction over the subsets of a finite set
(`SubsetInduction`, by the well-foundedness of strict inclusion: there is no smallest
exception; it is stated for a set `F` of subsets, as the provers cannot take a predicate
for a parameter). From the equation follow the facts the other proofs cite: taking an
element out, adding one, sums of sums by key (`SumGrouped`), replacing one term.

**The ledger** (`LedgerProofs`), for any finite or infinite set of transactions, from
the assumptions of `LedgerEntry`: accounts are numbered and have currencies, an entry is
a list of lines with integer amounts (nothing else is asked of it, as entries may be
malformed), no wallet starts overdrawn, and the balances of a currency start at zero
together, as they do in an empty ledger.

* `InductiveInvariant`, `Spec => []IInv`. What the safety properties need is that
  a transaction's reads stay true until it commits: `SeenIsCurrent` (a row I hold
  has the balance I read), which is inductive only with `LocksExclusive` (a row has
  one holder) and `StageInv` (a transaction that is about to commit holds all
  rows of a valid, accepted entry). `LockedInOrder` (all rows held are below all
  rows wanted) is for the deadlock theorem.
* `TypeCorrect`, `NoLostUpdate`, `NeverOverdrawn` follow from `IInv`.
* `MoneyConserved`: a commit adds to the balances of a currency the sum of the entry's
  lines on its accounts, which is that of the lines in that currency by the check of
  currencies, and zero by that of `validateEntryLines`.
* `NeverDeadlocked`: in a set of transactions that wait for each other take one
  whose wanted row is greatest (`LastAccount`); it is held by a member that wants a
  still greater one by `LockedInOrder`, a contradiction.
* `AtomicPostings`, `Spec => Atomic!Spec`: `Commit` maps to `Post`, endings to
  `Refuse`, all else stutters. `Commit` needs `SeenIsCurrent` for the balances and
  `StageInv` for admissibility and the overdraft guard.
* `ServiceEntriesBalance`: whatever the amounts, fee and accounts, an entry built by a
  service is refused by the validation exactly if an amount in it is zero.
  `ConversionsAreFair`: `HalfEven` is within half a unit of what rate and spread say, so
  a customer never gets more than half a unit above the rate, and a conversion is
  refused exactly if at most half a unit is left (for a spread of at most 10000 basis
  points; the code's configuration bounds it only from below).

**Idempotency** (`IdempotencyProofs`), for any finite set of requests. `TypeCorrect`,
`EntriesAreCharged` and `HandlersAreCharged`: the number of requests that have posted or
may yet post is at most the deletions of the row plus one while the row stands. Each is
inductive together with the type invariant; only a claiming INSERT adds to the left
side, and it adds the row to the right. `AnswersAgree` (`AnswersConsistent`)
counts two more sets. `SourcesInv`: the outcomes given out, the one that the row keeps and
the handlers that run are at most the deletions plus one while the row stands; again only
a claim adds one. `AstrayInv`: for some owner of the row (of its payload; nobody when there
is no row), the outcomes given or kept for another payload, and the handlers other than the
owner's, which may complete a row that is not theirs, are at most the deletions, and there
are none before a row was reclaimed. A deletion, by a reclaim or by a handler that cleans
up, makes the owner go astray if it is alive, and pays for it.

**The pool** (`IdempotencyProofs`), for any finite set of tasks, any size of the pool and
any of the handlers. `HandlersAreOrderly` reads off the programs what they have
in common: one transaction at most, rows locked only inside it, the ledger's balances
after any other row. `PoolInductive`: a task holds a connection exactly between its
BEGIN and its COMMIT, whoever holds a row has passed its lock, and a task at its
queries has some that wait or run. `SomebodyMoves` (`MovesUnlessExhausted`): with the pool
not exhausted, a holder of the row that somebody waits for is at no BEGIN and at no
query that cannot get a connection; if it waits for a row, that is the ledger's
balances, whose holder waits for none. That this is enough for every task to *end* is
`EveryTaskEndsUnlessExhausted`, which TLC checks.

**Withdrawals** (`WithdrawalsProofs`), for any users, requests and decisions.
`DecidedOnce` rests on `LockInv`: whoever is past `lockPendingRequest` holds the row, and
a locked row's request is pending; without it, the status seen before the ledger's
entry could be stale when the status is written. `MoneyFollows` (`MoneyFollowsDecision`)
follows with it: every step that moves money changes one request's status and, by
`SumReplace`, the sums over requests by that request's amount.

**Orders** (`OrdersProofs`), for any orders, ticks and cancellations. `ResolvedOnce` is along
the same argument for three kinds of actors; that a tick's list of open orders is
old matters not, because `tryFill` looks again under the lock. `MoneyFollows`
(`MoneyFollowsOrders`) adds the sums over what was held, released and swapped; amounts are
recomputed at each use and rounded, and the proof shows that they are the same each time.

**Events** (`EventsProofs`): `TypeCorrect`, `OutboxFaithful`, `DuplicatesBounded` and
`EmailsOnce` for any number of events, overlapping batches of any size and failures.
`TickInv` says that a run past its lock is alone with a row not yet marked, and one past
its send has put the row's message into the topic. `CopiesInv` counts: the messages of an
event are at most the failures, plus one while somebody still accounts for it, the row
by being marked or a run by being between the send and the mark; a send adds a
message only when nobody does. `MailInv` counts the claimed events without a mail
other than the one being sent, which only a failure makes one more.

**The console** (`ConsoleProofs`), for any number of requests, payloads, quotes, rows,
loads and decisions. Requests with keys stand alone (`KeyedSpec`), and
`ConsoleImplementsKeyed` carries what is proved of them to the console, whose invariant
(`ConsoleInductive`) has `ListInv` as its other half.

* `KeyedInv` (`KeyedInductive`), with rows turning stale, handlers and completing UPDATEs
  that fail, and the server dying between any two commits. `RanInv` says which attempts
  have run and posted; `RowsInv` that a row is of a request that inserted it and caches
  an entry with its key, or a refusal of an attempt that never posts. `OwnersInv`: until
  an attempt under a key is abandoned only the request that inserted the row is at work,
  and it is its entry that is cached; after that the UPDATE, which names the key only, may
  complete the row of another payload. Hence `RepliesInv` and `ReportsAreTrue`
  (`ReportedIsPosted`): what is reported was posted under its key, and with its values
  unless an attempt was abandoned.
* `ConfirmationsBound` (`OneEntryPerConfirmation`) counts. The convert page makes a key
  only at a confirmation (`KeysInv`), so it remains that a key has no more entries than one
  and the attempts abandoned. An attempt that has lost its row without being abandoned
  (`Displaced`) lost it to a handler that failed after an earlier reclaim and deleted the
  row by key. `ChargeInv` is an injection from those attempts to such handlers
  (`Cleaners`), which ran and did not post; the entry an attempt may have made is thus
  balanced by one that was not made.
* `RepeatsBound` (`RepeatsAreCharged`) needs to know what becomes of a key the page has
  dropped: it is `Settled` for the content it was sent with, being used up by another
  payload or a refusal, or having been left open by a 409 or 500 once (`SettledInv`). So of
  the keys one content was sent with at most one posts that is not charged to an answer
  of its own or to an abandoned attempt. Charging only answers to the same content holds
  for three requests and fails for four, as `SettledInv` would not go through.
* `ListInv`, for lists. `LoadsInv`: the newest load, once its rows are read, has all that
  the page has been told of, and nothing read is ahead of the server; `ListsShowLatest`
  (`ShownIsLatest`) is kept by it. `SpinnersInv` is `SpinnersEnd` (`SpinnersHaveRequests`)
  with a list's filter. `CreatesInv`: of the rows requested with one content at most one is
  `Alive`, there or possibly still to come and with no response lost, which bounds
  them by the lost responses (`CreatesBound`, `CreatesAreCharged`). `TransfersInv` links the
  halves: the history is what was posted.

**Rates** (`ConsoleProofs`): `PricesStayRecent` and `QuotesAreKept` for any calls, time to
live and timeout. `AgeInv` bounds the age of prices by that of their snapshot and
one timeout, and is inductive because a fetch is cut off at its timeout;
`FetchInv` says that a fetch under way began before the cached snapshot was cached or
after it expired, which is what `rivals` records.

**Accounts and users** (`OnboardingProofs`): `ImplementsEnsureAccount`
(`OnboardingSpec => Spec`) and the invariant of `EnsureAccount` (`IInv`), so that what holds
of `ensureAccount` alone holds in the whole: `OneAccount`, `AnswersAccount`. `UniqueInv` (one
row per key, committed or not) comes from the unique index, `FoundInv` says that whoever
lost a race finds a committed row and that nobody throws. `OnboardingInv`
(`OnboardingInductive`) puts beside it `RegInv`, how registrations were answered and whose
rows there are, and `SeedInv`, what each run of the seed has seen to by where it is;
`OnboardingTypeCorrect` follows. `RegistrationsAreKept` rests on the unique index on
lower-cased addresses; `SeededStaysComplete` on the order of the script's steps and on rows
never being deleted.

**Only model-checked:** the liveness properties (`EveryPostingEnds`, `EveryoneIsAnswered`,
`EveryDecisionEnds`, `CrossedOrdersResolved`, `EveryCancelEnds`, `EveryRequestAnswered`,
`EveryEventPublished`, `EveryMessageClaimed`, `EveryCallEnds`,
`EveryTaskEndsUnlessExhausted`). They need fairness, hence ENABLED, which is out of TLAPS'
reach.

## 5. Not modelled

Tokens, role checks and throttling; request validation and DTOs; error
formatting; health probes; what migrations do beyond the tables, constraints and
indexes that the modules use; deployment; of the console the login, registration
and dashboard pages, guards, interceptors and the live price of the trade page,
which read and show; the wording of mails. The connect loop of the Kafka producer.
The scale check of `validateEntryLines` (at most 8 decimals) and decimal.js's
20-digit precision are below the model's integers.

## 6. Plan

1. The progress of each task in `Connections` as a measure: each step of a task other than
   a failure makes what it has left smaller, which together with `SomebodyMoves` is the
   safety half of `EveryTaskEndsUnlessExhausted`. The same for postings and decisions.
2. `Ledger` under several services at once: `Withdrawals` and `Orders` over `AtomicLedger`,
   with one balance per wallet, rather than each with its own.
