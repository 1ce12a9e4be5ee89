------------------------------- MODULE Orders -------------------------------
(***************************************************************************)
(* Orders on one pair (backend/src/trading/): placing a limit order holds  *)
(* its funds in the pooled trade_hold account, and from then on ticks of   *)
(* the worker, which fill it once its limit is crossed, race with the      *)
(* owner's cancellation.  Both lock the row of the order.                  *)
(*                                                                         *)
(* Quantities count the smallest unit of the base currency, amounts the    *)
(* smallest unit of the quote currency, prices that unit per whole base    *)
(* unit; an order is given as it is after rounding to those units.         *)
(* Ledger entries take effect with their transaction's commit, as          *)
(* Ledger.tla establishes.                                                 *)
(***************************************************************************)
EXTENDS Rounding, FiniteSets, Functions

CONSTANTS
  User,
  Order,          \* identities of orders rows
  Tick,           \* runs of scanAndFillOpenOrders that may overlap
  Cancel,         \* calls of cancelOrder
  Offers,         \* [quantity, price] of the orders users place
  Rates,          \* values of the cached market rate
  BaseScale,      \* smallest units in one whole unit of the base currency
  InitialWallet,  \* [base, quote] balances of the wallets to start from
  MaxFaults,      \* how often a call fails for reasons outside this module
  None

ASSUME OrderAssumption ==
  /\ Offers \subseteq [quantity : Nat, price : Nat]
  /\ Rates \subseteq Nat
  /\ BaseScale \in Nat \ {0}
  /\ InitialWallet \in [User -> [{"base", "quote"} -> Nat]]
  /\ MaxFaults \in Nat
  /\ None \notin User \cup Order \cup Tick \cup Cancel
  /\ Tick \cap Cancel = {}

VARIABLES
  orders,    \* [status, user, side, quantity, price] of each row
  wallet,    \* balances of the user wallets
  hold,      \* balances of the pooled trade_hold accounts
  treasury,  \* what orders have added to the treasury accounts
  rate,      \* the cached market rate
  ticks,     \* each run of the worker: [pc, todo, at]
  cancels,   \* each cancelOrder: [pc, user, order]
  lockedBy,  \* the run or call whose transaction has locked an order's row
  resolutions,  \* TRADE and TRADE_RELEASE entries posted for each order
  events,    \* order.filled events in the outbox for each order
  faults

vars == <<orders, wallet, hold, treasury, rate, ticks, cancels, lockedBy,
          resolutions, events, faults>>
money == <<wallet, hold, treasury>>
effects == <<orders, wallet, hold, treasury, resolutions, events>>

Sides == {"buy", "sell"}
Currencies == {"base", "quote"}

NoOrder == [status |-> "none", user |-> None, side |-> "buy", quantity |-> 0, price |-> 0]
IdleCancel == [pc |-> "idle", user |-> None, order |-> None]
IdleTick == [pc |-> "idle", todo |-> {}, at |-> None]

TypeOK ==
  /\ orders \in [Order -> [status : {"none", "open", "filled", "cancelled"},
                           user : User \cup {None}, side : Sides,
                           quantity : Nat, price : Nat]]
  /\ wallet \in [User -> [Currencies -> Nat]]
  /\ hold \in [Currencies -> Int]
  /\ treasury \in [Currencies -> Int]
  /\ rate \in Rates
  /\ ticks \in [Tick -> [pc : {"idle", "scanning", "locking", "locked", "crossed"},
                         todo : SUBSET Order, at : Order \cup {None}]]
  /\ cancels \in [Cancel -> [pc : {"idle", "locking", "releasing"},
                             user : User \cup {None}, order : Order \cup {None}]]
  /\ lockedBy \in [Order -> Tick \cup Cancel \cup {None}]
  /\ resolutions \in [Order -> Nat]
  /\ events \in [Order -> Nat]
  /\ faults \in 0..MaxFaults

Init ==
  /\ orders = [o \in Order |-> NoOrder]
  /\ wallet = InitialWallet
  /\ hold = [c \in Currencies |-> 0]
  /\ treasury = [c \in Currencies |-> 0]
  /\ rate \in Rates
  /\ ticks = [k \in Tick |-> IdleTick]
  /\ cancels = [c \in Cancel |-> IdleCancel]
  /\ lockedBy = [o \in Order |-> None]
  /\ resolutions = [o \in Order |-> 0]
  /\ events = [o \in Order |-> 0]
  /\ faults = 0

---------------------------------------------------------------------------
(* order-math.util.ts *)

QuoteAmount(o) == HalfEven(o.quantity * o.price, BaseScale)

HoldCurrency(o) == IF o.side = "buy" THEN "quote" ELSE "base"
BoughtCurrency(o) == IF o.side = "buy" THEN "base" ELSE "quote"

(* computeHoldAmount: what a buy may cost at most, what a sell gives. *)
HoldAmount(o) == IF o.side = "buy" THEN QuoteAmount(o) ELSE o.quantity
BoughtAmount(o) == IF o.side = "buy" THEN o.quantity ELSE QuoteAmount(o)

Crossed(o) == IF o.side = "buy" THEN rate <= o.price ELSE rate >= o.price

(* postEntry takes the lines of a swap: all of their amounts are positive. *)
Swappable(o) == HoldAmount(o) > 0 /\ BoughtAmount(o) > 0

Open(o) == orders[o].status = "open"

(* executeSwap's lines on the treasury accounts. *)
TreasurySwap(o) ==
  treasury' = [treasury EXCEPT ![HoldCurrency(o)] = @ + HoldAmount(o),
                               ![BoughtCurrency(o)] = @ - BoughtAmount(o)]

---------------------------------------------------------------------------
(* orders.service.ts *)

NewOrder(u, s, q, p, status) ==
  [status |-> status, user |-> u, side |-> s, quantity |-> q, price |-> p]

(* The CHECK constraints of the orders table. *)
Storable(o) == o.quantity > 0 /\ o.price > 0

(* placeLimitOrder: the TRADE_HOLD entry and the order in one transaction. *)
PlaceLimitOrder(u, o, s, q, p) ==
  LET new == NewOrder(u, s, q, p, "open") IN
  /\ orders[o] = NoOrder
  /\ Storable(new)
  /\ HoldAmount(new) > 0
  /\ wallet[u][HoldCurrency(new)] >= HoldAmount(new)
  /\ wallet' = [wallet EXCEPT ![u][HoldCurrency(new)] = @ - HoldAmount(new)]
  /\ hold' = [hold EXCEPT ![HoldCurrency(new)] = @ + HoldAmount(new)]
  /\ orders' = [orders EXCEPT ![o] = new]
  /\ UNCHANGED <<treasury, rate, ticks, cancels, lockedBy, resolutions, events, faults>>

(* executeMarketOrder: filled at once from the wallet, at a rate p that it *)
(* read before its transaction, hence at any earlier one.                  *)
ExecuteMarketOrder(u, o, s, q, p) ==
  LET new == NewOrder(u, s, q, p, "filled") IN
  /\ orders[o] = NoOrder
  /\ Swappable(new)
  /\ wallet[u][HoldCurrency(new)] >= HoldAmount(new)
  /\ wallet' = [wallet EXCEPT ![u][HoldCurrency(new)] = @ - HoldAmount(new),
                              ![u][BoughtCurrency(new)] = @ + BoughtAmount(new)]
  /\ TreasurySwap(new)
  /\ orders' = [orders EXCEPT ![o] = new]
  /\ resolutions' = [resolutions EXCEPT ![o] = @ + 1]
  /\ events' = [events EXCEPT ![o] = @ + 1]
  /\ UNCHANGED <<hold, rate, ticks, cancels, lockedBy, faults>>

(* The call has answered. *)
CancelEnds(c) == cancels' = [cancels EXCEPT ![c] = IdleCancel]

(* u asks to cancel order o. *)
BeginCancel(c, u, o) ==
  /\ cancels[c].pc = "idle"
  /\ cancels' = [cancels EXCEPT ![c] = [pc |-> "locking", user |-> u, order |-> o]]
  /\ UNCHANGED <<effects, rate, ticks, lockedBy, faults>>

RowFreeUnlocked(o) == TRUE

(* Nobody has locked the row of order o. *)
RowFree(o) == lockedBy[o] = None

(* findOne with a pessimistic_write lock, and the checks of its result: an *)
(* order of somebody else or one that is not open any more is refused.     *)
LockForCancel(c) ==
  LET o == cancels[c].order
      row == orders[o] IN
  /\ cancels[c].pc = "locking"
  /\ RowFree(o)
  /\ IF row.user = cancels[c].user /\ Open(o)
       THEN /\ cancels' = [cancels EXCEPT ![c].pc = "releasing"]
            /\ lockedBy' = [lockedBy EXCEPT ![o] = c]
       ELSE CancelEnds(c) /\ UNCHANGED lockedBy
  /\ UNCHANGED <<effects, rate, ticks, faults>>

Unlock(o) == lockedBy' = [lockedBy EXCEPT ![o] = None]

(* The rest of cancelOrder up to the commit: the TRADE_RELEASE entry and   *)
(* the new status.                                                         *)
CommitCancel(c) ==
  LET o == cancels[c].order
      row == orders[o] IN
  /\ cancels[c].pc = "releasing"
  /\ wallet' = [wallet EXCEPT ![row.user][HoldCurrency(row)] = @ + HoldAmount(row)]
  /\ hold' = [hold EXCEPT ![HoldCurrency(row)] = @ - HoldAmount(row)]
  /\ orders' = [orders EXCEPT ![o].status = "cancelled"]
  /\ resolutions' = [resolutions EXCEPT ![o] = @ + 1]
  /\ Unlock(o)
  /\ CancelEnds(c)
  /\ UNCHANGED <<treasury, rate, ticks, events, faults>>

(* A statement of cancelOrder fails and its transaction is rolled back. *)
FailCancel(c) ==
  /\ cancels[c].pc = "releasing"
  /\ faults < MaxFaults
  /\ faults' = faults + 1
  /\ Unlock(cancels[c].order)
  /\ CancelEnds(c)
  /\ UNCHANGED <<effects, rate, ticks>>

---------------------------------------------------------------------------
(* orders-worker.service.ts *)

(* scanAndFillOpenOrders starts: it reads which limit orders are open. *)
Scan(k) ==
  /\ ticks[k].pc = "idle"
  /\ ticks' = [ticks EXCEPT ![k].pc = "scanning", ![k].todo = {o \in Order : Open(o)}]
  /\ UNCHANGED <<effects, rate, cancels, lockedBy, faults>>

(* The loop takes its next order, in the order the query returned them,    *)
(* which nothing specifies.                                                *)
NextOrder(k) ==
  /\ ticks[k].pc = "scanning"
  /\ IF ticks[k].todo = {}
       THEN ticks' = [ticks EXCEPT ![k] = IdleTick]
       ELSE \E o \in ticks[k].todo :
              ticks' = [ticks EXCEPT ![k] = [pc |-> "locking", todo |-> @.todo \ {o}, at |-> o]]
  /\ UNCHANGED <<effects, rate, cancels, lockedBy, faults>>

(* tryFill is over: the loop goes on, after an error as after a result. *)
GoOn(k) == ticks' = [ticks EXCEPT ![k].pc = "scanning", ![k].at = None]

(* tryFill locks the order and looks again whether it is open. *)
LockForFill(k) ==
  LET o == ticks[k].at IN
  /\ ticks[k].pc = "locking"
  /\ RowFree(o)
  /\ IF Open(o)
       THEN /\ ticks' = [ticks EXCEPT ![k].pc = "locked"]
            /\ lockedBy' = [lockedBy EXCEPT ![o] = k]
       ELSE GoOn(k) /\ UNCHANGED lockedBy
  /\ UNCHANGED <<effects, rate, cancels, faults>>

CheckRateKeepingLock(k) ==
  /\ ticks[k].pc = "locked"
  /\ IF Crossed(orders[ticks[k].at])
       THEN ticks' = [ticks EXCEPT ![k].pc = "crossed"]
       ELSE GoOn(k)
  /\ UNCHANGED <<effects, rate, cancels, lockedBy, faults>>

(* It compares the rate of the moment with the limit. *)
CheckRate(k) ==
  LET o == ticks[k].at IN
  /\ ticks[k].pc = "locked"
  /\ IF Crossed(orders[o])
       THEN ticks' = [ticks EXCEPT ![k].pc = "crossed"] /\ UNCHANGED lockedBy
       ELSE GoOn(k) /\ Unlock(o)
  /\ UNCHANGED <<effects, rate, cancels, faults>>

FillAtRate(k) ==
  LET o == ticks[k].at
      row == [orders[o] EXCEPT !.price = rate] IN
  /\ ticks[k].pc = "crossed"
  /\ Swappable(orders[o])
  /\ Swappable(row)
  /\ hold' = [hold EXCEPT ![HoldCurrency(row)] = @ - HoldAmount(row)]
  /\ wallet' = [wallet EXCEPT ![row.user][BoughtCurrency(row)] = @ + BoughtAmount(row)]
  /\ TreasurySwap(row)
  /\ orders' = [orders EXCEPT ![o].status = "filled"]
  /\ resolutions' = [resolutions EXCEPT ![o] = @ + 1]
  /\ events' = [events EXCEPT ![o] = @ + 1]
  /\ Unlock(o)
  /\ GoOn(k)
  /\ UNCHANGED <<rate, cancels, faults>>

(* The rest of tryFill up to the commit: the swap out of the hold at the   *)
(* order's own price, the new status, the outbox event.                    *)
Fill(k) ==
  LET o == ticks[k].at
      row == orders[o] IN
  /\ ticks[k].pc = "crossed"
  /\ Swappable(row)
  /\ hold' = [hold EXCEPT ![HoldCurrency(row)] = @ - HoldAmount(row)]
  /\ wallet' = [wallet EXCEPT ![row.user][BoughtCurrency(row)] = @ + BoughtAmount(row)]
  /\ TreasurySwap(row)
  /\ orders' = [orders EXCEPT ![o].status = "filled"]
  /\ resolutions' = [resolutions EXCEPT ![o] = @ + 1]
  /\ events' = [events EXCEPT ![o] = @ + 1]
  /\ Unlock(o)
  /\ GoOn(k)
  /\ UNCHANGED <<rate, cancels, faults>>

RefuseFillAndStop(k) ==
  /\ ticks[k].pc = "crossed"
  /\ ~Swappable(orders[ticks[k].at])
  /\ Unlock(ticks[k].at)
  /\ ticks' = [ticks EXCEPT ![k] = IdleTick]
  /\ UNCHANGED <<effects, rate, cancels, faults>>

(* postEntry refuses the swap: an amount of it has been rounded to zero.   *)
RefuseFill(k) ==
  /\ ticks[k].pc = "crossed"
  /\ ~Swappable(orders[ticks[k].at])
  /\ Unlock(ticks[k].at)
  /\ GoOn(k)
  /\ UNCHANGED <<effects, rate, cancels, faults>>

(* getRate or a statement of tryFill throws; the loop logs it and goes on. *)
FailFill(k) ==
  /\ ticks[k].pc \in {"locked", "crossed"}
  /\ faults < MaxFaults
  /\ faults' = faults + 1
  /\ Unlock(ticks[k].at)
  /\ GoOn(k)
  /\ UNCHANGED <<effects, rate, cancels>>

(* The process dies: its transaction is rolled back and its list is lost.  *)
CrashTick(k) ==
  /\ ticks[k].pc # "idle"
  /\ faults < MaxFaults
  /\ faults' = faults + 1
  /\ IF ticks[k].pc \in {"locked", "crossed"} THEN Unlock(ticks[k].at)
                                              ELSE UNCHANGED lockedBy
  /\ ticks' = [ticks EXCEPT ![k] = IdleTick]
  /\ UNCHANGED <<effects, rate, cancels>>

(* The rates cache is refreshed. *)
RateMoves ==
  /\ rate' \in Rates \ {rate}
  /\ UNCHANGED <<effects, ticks, cancels, lockedBy, faults>>

---------------------------------------------------------------------------

TickStep(k) ==
  \/ Scan(k)
  \/ NextOrder(k)
  \/ LockForFill(k)
  \/ CheckRate(k)
  \/ Fill(k)
  \/ RefuseFill(k)

Next ==
  \/ \E u \in User, o \in Order, s \in Sides, f \in Offers :
       \/ PlaceLimitOrder(u, o, s, f.quantity, f.price)
       \/ \E p \in Rates : ExecuteMarketOrder(u, o, s, f.quantity, p)
  \/ \E c \in Cancel :
       \/ \E u \in User, o \in Order : BeginCancel(c, u, o)
       \/ LockForCancel(c)
       \/ CommitCancel(c)
       \/ FailCancel(c)
  \/ \E k \in Tick : TickStep(k) \/ FailFill(k) \/ CrashTick(k)
  \/ RateMoves

Spec == Init /\ [][Next]_vars

(* @Cron starts a tick every 10 seconds and the server runs what it has    *)
(* begun.  Waiters for a row lock get it in turn, so a cancellation is not *)
(* passed over for ever though ticks keep locking the order.               *)
Fairness ==
  /\ \A k \in Tick : WF_vars(TickStep(k))
  /\ \A c \in Cancel : SF_vars(LockForCancel(c)) /\ WF_vars(CommitCancel(c))

FairSpec == Spec /\ Fairness

---------------------------------------------------------------------------

Sum(S, Amount(_)) == SumFunctionOnSet([o \in Order |-> Amount(orders[o])], S)

WithStatus(statuses) == {o \in Order : orders[o].status \in statuses}

(* The trade_hold account of each currency holds exactly what the open     *)
(* orders put there, although amounts are recomputed at each use and       *)
(* nothing records them (order-math.util.ts: "always byte-identical to     *)
(* what's already sitting in trade_hold").  The wallet of a user is what   *)
(* it was, less what the user's open and filled orders gave, plus what the *)
(* filled ones bought, each at its own price; a cancelled order has cost   *)
(* nothing.  The treasury is the other side of every fill.                 *)
MoneyFollowsOrders ==
  \A cur \in Currencies :
    LET Given(S) == Sum({o \in S : HoldCurrency(orders[o]) = cur}, HoldAmount)
        Bought(S) == Sum({o \in S : BoughtCurrency(orders[o]) = cur}, BoughtAmount)
        Filled == WithStatus({"filled"})
    IN  /\ \A u \in User :
             LET Mine(S) == {o \in S : orders[o].user = u} IN
             wallet[u][cur] = InitialWallet[u][cur]
                                - Given(Mine(WithStatus({"open", "filled"})))
                                + Bought(Mine(Filled))
        /\ hold[cur] = Given(WithStatus({"open"}))
        /\ treasury[cur] = Given(Filled) - Bought(Filled)

(* However ticks and cancellations race, an order is resolved by one       *)
(* entry, and announced as filled once if it was filled and never if it    *)
(* was cancelled (tryFill: "rather than double-resolving").                *)
ResolvedExactlyOnce ==
  \A o \in Order :
    /\ resolutions[o] = IF orders[o].status \in {"filled", "cancelled"} THEN 1 ELSE 0
    /\ events[o] = IF orders[o].status = "filled" THEN 1 ELSE 0

(* Neither a row that waits for its lock, nor an order whose evaluation    *)
(* fails on every tick, keeps another order from being filled: an order    *)
(* that could be filled is not left open with its limit crossed for ever.  *)
(* (One whose proceeds round to nothing could not: the ledger refuses its  *)
(* fill at every tick, and it stays open until it is cancelled.)           *)
CrossedOrdersResolved ==
  \A o \in Order : []<>~(Open(o) /\ Swappable(orders[o]) /\ Crossed(orders[o]))

(* A cancellation is answered, whatever the worker does with the order. *)
EveryCancelEnds ==
  \A c \in Cancel : cancels[c].pc = "locking" ~> cancels[c].pc = "idle"
=============================================================================
