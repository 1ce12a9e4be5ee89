---------------------------- MODULE OrdersProofs ----------------------------
(* Theorems about Orders, for any users, orders, prices and rates, and any  *)
(* number of overlapping ticks and cancellations.                           *)
EXTENDS Orders, SumTheorems, TLAPS

---------------------------------------------------------------------------
(* The inductive invariant *)

(* Whoever is past the check of an order's status holds the lock of its     *)
(* row, and a locked row is of an open order: the status cannot have        *)
(* changed since it was checked.                                            *)
LockInv ==
  /\ \A k \in Tick :
       /\ ticks[k].pc \in {"locking", "locked", "crossed"} => ticks[k].at \in Order
       /\ ticks[k].pc \in {"locked", "crossed"} => lockedBy[ticks[k].at] = k
  /\ \A c \in Cancel :
       /\ cancels[c].pc # "idle" => cancels[c].order \in Order
       /\ cancels[c].pc = "releasing" => lockedBy[cancels[c].order] = c
  /\ \A o \in Order : lockedBy[o] # None => Open(o)

(* TypeOK in parts, so that a step has to do with those it disturbs only. *)
MoneyType ==
  /\ wallet \in [User -> [Currencies -> Nat]]
  /\ hold \in [Currencies -> Int]
  /\ treasury \in [Currencies -> Int]

RowsType ==
  /\ orders \in [Order -> [status : {"none", "open", "filled", "cancelled"},
                           user : User \cup {None}, side : Sides,
                           quantity : Nat, price : Nat]]
  /\ resolutions \in [Order -> Nat]
  /\ events \in [Order -> Nat]

CallsType ==
  /\ ticks \in [Tick -> [pc : {"idle", "scanning", "locking", "locked", "crossed"},
                         todo : SUBSET Order, at : Order \cup {None}]]
  /\ cancels \in [Cancel -> [pc : {"idle", "locking", "releasing"},
                             user : User \cup {None}, order : Order \cup {None}]]
  /\ lockedBy \in [Order -> Tick \cup Cancel \cup {None}]

RestType == rate \in Rates /\ faults \in 0..MaxFaults

IInv ==
  /\ MoneyType /\ RowsType /\ CallsType /\ RestType
  /\ LockInv
  /\ ResolvedExactlyOnce

---------------------------------------------------------------------------
(* Amounts *)

(* Rounding a quotient of natural numbers gives a natural number. *)
LEMMA HalfEvenNat == \A n \in Nat, d \in Nat \ {0} : HalfEven(n, d) \in Nat
<1> SUFFICES ASSUME NEW n \in Nat, NEW d \in Nat \ {0} PROVE HalfEven(n, d) \in Nat
  OBVIOUS
<1>1. n \div d \in Nat
  OBVIOUS
<1>. QED
  BY <1>1 DEF HalfEven

(* The amounts of an order are natural numbers of its two currencies. *)
LEMMA AmountsType ==
  ASSUME NEW o, o.side \in Sides, o.quantity \in Nat, o.price \in Nat
  PROVE  /\ HoldAmount(o) \in Nat /\ BoughtAmount(o) \in Nat
         /\ HoldCurrency(o) \in Currencies /\ BoughtCurrency(o) \in Currencies
         /\ HoldCurrency(o) # BoughtCurrency(o)
<1>1. o.quantity * o.price \in Nat
  OBVIOUS
<1>2. QuoteAmount(o) \in Nat
  BY <1>1, HalfEvenNat, OrderAssumption DEF QuoteAmount
<1>. QED
  BY <1>2 DEF HoldAmount, BoughtAmount, HoldCurrency, BoughtCurrency, Currencies, Sides

(* A wallet that is credited, and be it nobody's, holds numbers. *)
LEMMA CreditType ==
  ASSUME NEW W \in [User -> [Currencies -> Nat]], NEW u, NEW cur \in Currencies, NEW n \in Nat
  PROVE  [W EXCEPT ![u][cur] = W[u][cur] + n] \in [User -> [Currencies -> Nat]]
<1>1. CASE u \in User
  BY <1>1
<1>2. CASE u \notin User
  BY <1>2
<1>. QED
  BY <1>1, <1>2

---------------------------------------------------------------------------
(* Changes to one row *)

(* A row with another status is a row. *)
LEMMA StatusType ==
  ASSUME NEW o \in Order, NEW status \in {"none", "open", "filled", "cancelled"},
         RowsType, orders' = [orders EXCEPT ![o].status = status]
  PROVE  /\ orders' \in [Order -> [status : {"none", "open", "filled", "cancelled"},
                                  user : User \cup {None}, side : Sides,
                                  quantity : Nat, price : Nat]]
         /\ orders'[o].status = status
         /\ \A p \in Order : p # o => orders'[p] = orders[p]
  BY DEF RowsType

(* A tick that goes on is scanning, and no other tick notices. *)
LEMMA GoOnType ==
  ASSUME CallsType, NEW k \in Tick, GoOn(k)
  PROVE  /\ ticks' \in [Tick -> [pc : {"idle", "scanning", "locking", "locked", "crossed"},
                                todo : SUBSET Order, at : Order \cup {None}]]
         /\ ticks'[k].pc = "scanning"
         /\ \A j \in Tick : j # k => ticks'[j] = ticks[j]
  BY DEF CallsType, GoOn

(* A lock that is taken or given up is no other one. *)
LEMMA LockType ==
  ASSUME CallsType, NEW o \in Order, NEW holder \in Tick \cup Cancel \cup {None},
         lockedBy' = [lockedBy EXCEPT ![o] = holder]
  PROVE  /\ lockedBy' \in [Order -> Tick \cup Cancel \cup {None}]
         /\ lockedBy'[o] = holder
         /\ \A p \in Order : p # o => lockedBy'[p] = lockedBy[p]
  BY DEF CallsType

---------------------------------------------------------------------------
(* One step *)

(* The starting state satisfies the inductive invariant. *)
LEMMA InitIInv == Init => IInv
<1> SUFFICES ASSUME Init PROVE IInv
  OBVIOUS
<1>1. MoneyType
  BY OrderAssumption DEF Init, MoneyType, Currencies
<1>2. RowsType /\ CallsType /\ RestType
  BY OrderAssumption DEF Init, RowsType, CallsType, RestType, NoOrder, Sides, IdleTick, IdleCancel
<1>3. LockInv
  BY OrderAssumption DEF Init, LockInv, IdleTick, IdleCancel
<1>4. ResolvedExactlyOnce
  BY DEF Init, ResolvedExactlyOnce, NoOrder
<1>. QED
  BY <1>1, <1>2, <1>3, <1>4 DEF IInv

(* A step that leaves orders and money alone has to keep the locks right. *)
LEMMA QuietIInv ==
  ASSUME IInv, UNCHANGED effects, CallsType', RestType', LockInv'
  PROVE  IInv'
  BY DEF IInv, effects, MoneyType, RowsType, ResolvedExactlyOnce

(* A new order is in a row that nobody has locked, since it was no order. *)
LEMMA PlaceIInv ==
  ASSUME IInv, NEW u \in User, NEW o \in Order, NEW s \in Sides, NEW q \in Nat, NEW p \in Nat,
         PlaceLimitOrder(u, o, s, q, p)
  PROVE  IInv'
<1> DEFINE new == NewOrder(u, s, q, p, "open")
           cur == HoldCurrency(new)
           n == HoldAmount(new)
<1>1. /\ MoneyType /\ RowsType /\ CallsType /\ RestType
      /\ LockInv /\ ResolvedExactlyOnce
  BY DEF IInv
<1>2. /\ new.side \in Sides /\ new.quantity \in Nat /\ new.price \in Nat
      /\ new.status = "open"
      /\ new \in [status : {"none", "open", "filled", "cancelled"},
                  user : User \cup {None}, side : Sides, quantity : Nat, price : Nat]
  BY DEF NewOrder
<1>3. n \in Nat /\ cur \in Currencies
  BY <1>2, AmountsType
<1>4. /\ orders[o].status = "none"
      /\ wallet[u][cur] >= n
      /\ wallet' = [wallet EXCEPT ![u][cur] = @ - n]
      /\ hold' = [hold EXCEPT ![cur] = @ + n]
      /\ orders' = [orders EXCEPT ![o] = new]
      /\ UNCHANGED <<treasury, rate, ticks, cancels, lockedBy, resolutions, events, faults>>
  BY DEF PlaceLimitOrder, NoOrder
<1> HIDE DEF new, cur, n
<1>5. MoneyType'
  BY <1>1, <1>3, <1>4 DEF MoneyType
<1>6. RowsType' /\ CallsType' /\ RestType'
  BY <1>1, <1>2, <1>4 DEF RowsType, CallsType, RestType
<1>7. LockInv'
  BY <1>1, <1>2, <1>4 DEF LockInv, RowsType, Open
<1>8. ResolvedExactlyOnce'
  BY <1>1, <1>2, <1>4 DEF ResolvedExactlyOnce, RowsType
<1>. QED
  BY <1>5, <1>6, <1>7, <1>8 DEF IInv

(* A market order is filled with its first and only entry. *)
LEMMA MarketIInv ==
  ASSUME IInv, NEW u \in User, NEW o \in Order, NEW s \in Sides, NEW q \in Nat, NEW p \in Nat,
         ExecuteMarketOrder(u, o, s, q, p)
  PROVE  IInv'
<1> DEFINE new == NewOrder(u, s, q, p, "filled")
           cur == HoldCurrency(new)
           n == HoldAmount(new)
           other == BoughtCurrency(new)
           m == BoughtAmount(new)
<1>1. /\ MoneyType /\ RowsType /\ CallsType /\ RestType
      /\ LockInv /\ ResolvedExactlyOnce
  BY DEF IInv
<1>2. /\ new.side \in Sides /\ new.quantity \in Nat /\ new.price \in Nat
      /\ new.status = "filled"
      /\ new \in [status : {"none", "open", "filled", "cancelled"},
                  user : User \cup {None}, side : Sides, quantity : Nat, price : Nat]
  BY DEF NewOrder
<1>3. n \in Nat /\ cur \in Currencies /\ m \in Nat /\ other \in Currencies /\ cur # other
  BY <1>2, AmountsType
<1>4. /\ orders[o].status = "none"
      /\ wallet[u][cur] >= n
      /\ wallet' = [wallet EXCEPT ![u][cur] = @ - n, ![u][other] = @ + m]
      /\ treasury' = [treasury EXCEPT ![cur] = @ + n, ![other] = @ - m]
      /\ orders' = [orders EXCEPT ![o] = new]
      /\ resolutions' = [resolutions EXCEPT ![o] = @ + 1]
      /\ events' = [events EXCEPT ![o] = @ + 1]
      /\ UNCHANGED <<hold, rate, ticks, cancels, lockedBy, faults>>
  BY DEF ExecuteMarketOrder, TreasurySwap, NoOrder
<1> HIDE DEF new, cur, n, other, m
<1>5. MoneyType'
  BY <1>1, <1>3, <1>4 DEF MoneyType
<1>6. RowsType' /\ CallsType' /\ RestType'
  BY <1>1, <1>2, <1>4 DEF RowsType, CallsType, RestType
<1>7. LockInv'
  BY <1>1, <1>2, <1>4 DEF LockInv, RowsType, Open
<1>8. ResolvedExactlyOnce'
  BY <1>1, <1>2, <1>4 DEF ResolvedExactlyOnce, RowsType
<1>. QED
  BY <1>5, <1>6, <1>7, <1>8 DEF IInv

(* A call asks for a lock, and gives up nobody's. *)
LEMMA BeginCancelIInv ==
  ASSUME IInv, NEW c \in Cancel, NEW u \in User, NEW o \in Order, BeginCancel(c, u, o)
  PROVE  IInv'
<1>1. CallsType /\ RestType /\ LockInv
  BY DEF IInv
<1>2. /\ cancels[c].pc = "idle"
      /\ cancels' = [cancels EXCEPT ![c] = [pc |-> "locking", user |-> u, order |-> o]]
      /\ UNCHANGED <<rate, ticks, lockedBy, faults, orders>>
      /\ UNCHANGED effects
  BY DEF BeginCancel, effects
<1>3. CallsType' /\ RestType'
  BY <1>1, <1>2 DEF CallsType, RestType
<1>4. LockInv'
  BY <1>1, <1>2 DEF CallsType, LockInv, Open
<1>. QED
  BY <1>2, <1>3, <1>4, QuietIInv

(* cancelOrder locks a free row, and keeps the lock if the order is open. *)
LEMMA LockForCancelIInv ==
  ASSUME IInv, NEW c \in Cancel, LockForCancel(c)
  PROVE  IInv'
<1> DEFINE o == cancels[c].order
<1>1. CallsType /\ RestType /\ LockInv
  BY DEF IInv
<1>2. /\ cancels[c].pc = "locking"
      /\ lockedBy[o] = None
      /\ UNCHANGED <<rate, ticks, faults, orders>>
      /\ UNCHANGED effects
  BY DEF LockForCancel, RowFree, effects
<1>3. o \in Order /\ c # None
  BY <1>1, <1>2, OrderAssumption DEF LockInv
<1>4. CASE /\ Open(o)
           /\ cancels' = [cancels EXCEPT ![c].pc = "releasing"]
           /\ lockedBy' = [lockedBy EXCEPT ![o] = c]
  <2>1. /\ cancels' \in [Cancel -> [pc : {"idle", "locking", "releasing"},
                                   user : User \cup {None}, order : Order \cup {None}]]
        /\ cancels'[c].pc = "releasing" /\ cancels'[c].order = o
        /\ \A b \in Cancel : b # c => cancels'[b] = cancels[b]
    BY <1>1, <1>4 DEF CallsType
  <2>2. /\ lockedBy' \in [Order -> Tick \cup Cancel \cup {None}]
        /\ lockedBy'[o] = c
        /\ \A p \in Order : p # o => lockedBy'[p] = lockedBy[p]
    BY <1>1, <1>3, <1>4, LockType
  <2> HIDE DEF o
  <2>3. CallsType' /\ RestType'
    BY <1>1, <1>2, <2>1, <2>2 DEF CallsType, RestType
  <2>4. LockInv'
    BY <1>1, <1>2, <1>3, <1>4, <2>1, <2>2, OrderAssumption DEF LockInv, Open
  <2>. QED
    BY <1>2, <2>3, <2>4, QuietIInv
<1>5. CASE CancelEnds(c) /\ UNCHANGED lockedBy
  <2>1. cancels' = [cancels EXCEPT ![c] = [pc |-> "idle", user |-> None, order |-> None]]
    BY <1>5 DEF CancelEnds, IdleCancel
  <2>2. CallsType' /\ RestType'
    BY <1>1, <1>2, <1>5, <2>1 DEF CallsType, RestType
  <2>3. LockInv'
    BY <1>1, <1>2, <1>5, <2>1 DEF CallsType, LockInv, Open
  <2>. QED
    BY <1>2, <2>2, <2>3, QuietIInv
<1>. QED
  BY <1>4, <1>5 DEF LockForCancel

(* Giving up the lock of its own order, without having changed anything. *)
LEMMA FailCancelIInv ==
  ASSUME IInv, NEW c \in Cancel, FailCancel(c)
  PROVE  IInv'
<1> DEFINE o == cancels[c].order
<1>1. CallsType /\ RestType /\ LockInv
  BY DEF IInv
<1>2. /\ cancels[c].pc = "releasing"
      /\ lockedBy' = [lockedBy EXCEPT ![o] = None]
      /\ cancels' = [cancels EXCEPT ![c] = [pc |-> "idle", user |-> None, order |-> None]]
      /\ faults < MaxFaults /\ faults' = faults + 1
      /\ UNCHANGED <<rate, ticks, orders>>
      /\ UNCHANGED effects
  BY DEF FailCancel, CancelEnds, IdleCancel, Unlock, effects
<1>3. o \in Order /\ lockedBy[o] = c /\ c \notin Tick
  BY <1>1, <1>2, OrderAssumption DEF LockInv
<1>4. CallsType' /\ RestType'
  BY <1>1, <1>2, <1>3, OrderAssumption DEF CallsType, RestType
<1>5. LockInv'
  BY <1>1, <1>2, <1>3 DEF CallsType, LockInv, Open
<1>. QED
  BY <1>2, <1>4, <1>5, QuietIInv

(* The cancellation of an open order is its one resolution. *)
LEMMA CommitCancelIInv ==
  ASSUME IInv, NEW c \in Cancel, CommitCancel(c)
  PROVE  IInv'
<1> DEFINE o == cancels[c].order
           row == orders[o]
           cur == HoldCurrency(row)
           n == HoldAmount(row)
<1>1. /\ MoneyType /\ RowsType /\ CallsType /\ RestType
      /\ LockInv /\ ResolvedExactlyOnce
  BY DEF IInv
<1>2. /\ cancels[c].pc = "releasing"
      /\ wallet' = [wallet EXCEPT ![row.user][cur] = @ + n]
      /\ hold' = [hold EXCEPT ![cur] = @ - n]
      /\ orders' = [orders EXCEPT ![o].status = "cancelled"]
      /\ resolutions' = [resolutions EXCEPT ![o] = @ + 1]
      /\ lockedBy' = [lockedBy EXCEPT ![o] = None]
      /\ cancels' = [cancels EXCEPT ![c] = [pc |-> "idle", user |-> None, order |-> None]]
      /\ UNCHANGED <<treasury, rate, ticks, events, faults>>
  BY DEF CommitCancel, CancelEnds, IdleCancel, Unlock
<1>3. o \in Order /\ lockedBy[o] = c /\ c \notin Tick /\ c # None
  BY <1>1, <1>2, OrderAssumption DEF LockInv
<1>4. row.status = "open"
  BY <1>1, <1>3 DEF LockInv, Open
<1>5. row.side \in Sides /\ row.quantity \in Nat /\ row.price \in Nat
  BY <1>1, <1>3 DEF RowsType
<1>6. n \in Nat /\ cur \in Currencies
  BY <1>5, AmountsType
<1>7. MoneyType'
  <2> HIDE DEF row, cur, n
  <2>1. wallet' \in [User -> [Currencies -> Nat]]
    BY <1>1, <1>2, <1>6, CreditType DEF MoneyType
  <2>. QED
    BY <1>1, <1>2, <1>6, <2>1 DEF MoneyType
<1> HIDE DEF cur, n, o
<1>8. RowsType' /\ CallsType' /\ RestType'
  <2>1. RowsType'
    BY <1>1, <1>2, <1>3, StatusType DEF RowsType
  <2>2. lockedBy' \in [Order -> Tick \cup Cancel \cup {None}]
    BY <1>1, <1>2, <1>3, LockType
  <2>3. CallsType' /\ RestType'
    BY <1>1, <1>2, <2>2 DEF CallsType, RestType
  <2>. QED
    BY <2>1, <2>3
<1>9. LockInv'
  <2>1. \A b \in Cancel : b # c => cancels'[b] = cancels[b]
    BY <1>2
  <2>2. cancels'[c].pc = "idle"
    BY <1>1, <1>2 DEF CallsType
  <2>3. lockedBy'[o] = None /\ \A p \in Order : p # o => lockedBy'[p] = lockedBy[p]
    BY <1>1, <1>2, <1>3, LockType
  <2>4. \A p \in Order : p # o => orders'[p] = orders[p]
    BY <1>1, <1>2, <1>3, StatusType
  <2>5. UNCHANGED ticks
    BY <1>2
  <2>. QED
    BY <1>1, <1>3, <2>1, <2>2, <2>3, <2>4, <2>5 DEF LockInv, Open
<1>10. ResolvedExactlyOnce'
  BY <1>1, <1>2, <1>3, <1>4, StatusType DEF ResolvedExactlyOnce, RowsType
<1>. QED
  BY <1>7, <1>8, <1>9, <1>10 DEF IInv

---------------------------------------------------------------------------
(* The worker *)

(* A tick reads the open orders or takes the next of them. *)
LEMMA ScanIInv ==
  ASSUME IInv, NEW k \in Tick, Scan(k) \/ NextOrder(k)
  PROVE  IInv'
<1>1. CallsType /\ RestType /\ LockInv
  BY DEF IInv
<1>2. /\ ticks[k].pc \in {"idle", "scanning"}
      /\ UNCHANGED <<rate, cancels, lockedBy, faults, orders>>
      /\ UNCHANGED effects
  BY DEF Scan, NextOrder, effects
<1>3. /\ ticks[k].todo \subseteq Order /\ ticks[k].at \in Order \cup {None}
      /\ {o \in Order : Open(o)} \subseteq Order
  BY <1>1 DEF CallsType
<1>4. /\ ticks' \in [Tick -> [pc : {"idle", "scanning", "locking", "locked", "crossed"},
                              todo : SUBSET Order, at : Order \cup {None}]]
      /\ ticks'[k].pc \in {"idle", "scanning", "locking"}
      /\ ticks'[k].pc = "locking" => ticks'[k].at \in Order
      /\ \A j \in Tick : j # k => ticks'[j] = ticks[j]
  <2>1. CASE Scan(k)
    <3> DEFINE open == {o \in Order : Open(o)}
    <3>1. ticks' = [ticks EXCEPT ![k].pc = "scanning", ![k].todo = open] /\ open \subseteq Order
      BY <2>1 DEF Scan
    <3> HIDE DEF open
    <3>2. /\ ticks'[k].pc = "scanning"
          /\ \A j \in Tick : j # k => ticks'[j] = ticks[j]
      BY <1>1, <3>1 DEF CallsType
    <3>3. ticks' \in [Tick -> [pc : {"idle", "scanning", "locking", "locked", "crossed"},
                              todo : SUBSET Order, at : Order \cup {None}]]
      BY <1>1, <3>1 DEF CallsType
    <3>. QED
      BY <3>2, <3>3
  <2>2. CASE NextOrder(k) /\ ticks[k].todo = {}
    <3>1. ticks' = [ticks EXCEPT ![k] = IdleTick]
      BY <2>2 DEF NextOrder
    <3>2. /\ IdleTick.pc = "idle"
          /\ IdleTick \in [pc : {"idle", "scanning", "locking", "locked", "crossed"},
                           todo : SUBSET Order, at : Order \cup {None}]
      BY DEF IdleTick
    <3>. QED
      BY <1>1, <3>1, <3>2 DEF CallsType
  <2>3. CASE NextOrder(k) /\ ticks[k].todo # {}
    <3>1. PICK o \in ticks[k].todo :
            ticks' = [ticks EXCEPT ![k] = [pc |-> "locking", todo |-> @.todo \ {o}, at |-> o]]
      BY <2>3 DEF NextOrder
    <3> DEFINE new == [pc |-> "locking", todo |-> ticks[k].todo \ {o}, at |-> o]
    <3>2. ticks' = [ticks EXCEPT ![k] = new]
      BY <3>1
    <3>3. /\ new.pc = "locking" /\ new.at \in Order
          /\ new \in [pc : {"idle", "scanning", "locking", "locked", "crossed"},
                      todo : SUBSET Order, at : Order \cup {None}]
      BY <1>3
    <3> HIDE DEF new
    <3>. QED
      BY <1>1, <3>2, <3>3 DEF CallsType
  <2>. QED
    BY <2>1, <2>2, <2>3
<1>5. CallsType' /\ RestType'
  BY <1>1, <1>2, <1>4 DEF CallsType, RestType
<1>6. LockInv'
  BY <1>1, <1>2, <1>4 DEF LockInv, Open
<1>. QED
  BY <1>2, <1>5, <1>6, QuietIInv

(* tryFill locks a free row, and keeps the lock if the order is open. *)
LEMMA LockForFillIInv ==
  ASSUME IInv, NEW k \in Tick, LockForFill(k)
  PROVE  IInv'
<1> DEFINE o == ticks[k].at
<1>1. CallsType /\ RestType /\ LockInv
  BY DEF IInv
<1>2. /\ ticks[k].pc = "locking"
      /\ lockedBy[o] = None
      /\ UNCHANGED <<rate, cancels, faults, orders>>
      /\ UNCHANGED effects
  BY DEF LockForFill, RowFree, effects
<1>3. o \in Order /\ k # None
  BY <1>1, <1>2, OrderAssumption DEF LockInv
<1>4. CASE /\ Open(o)
           /\ ticks' = [ticks EXCEPT ![k].pc = "locked"]
           /\ lockedBy' = [lockedBy EXCEPT ![o] = k]
  <2>1. /\ ticks' \in [Tick -> [pc : {"idle", "scanning", "locking", "locked", "crossed"},
                               todo : SUBSET Order, at : Order \cup {None}]]
        /\ ticks'[k].pc = "locked" /\ ticks'[k].at = o
        /\ \A j \in Tick : j # k => ticks'[j] = ticks[j]
    BY <1>1, <1>4 DEF CallsType
  <2>2. /\ lockedBy' \in [Order -> Tick \cup Cancel \cup {None}]
        /\ lockedBy'[o] = k
        /\ \A p \in Order : p # o => lockedBy'[p] = lockedBy[p]
    BY <1>1, <1>3, <1>4, LockType
  <2> HIDE DEF o
  <2>3. CallsType' /\ RestType'
    BY <1>1, <1>2, <2>1, <2>2 DEF CallsType, RestType
  <2>4. LockInv'
    BY <1>1, <1>2, <1>3, <1>4, <2>1, <2>2, OrderAssumption DEF LockInv, Open
  <2>. QED
    BY <1>2, <2>3, <2>4, QuietIInv
<1>5. CASE GoOn(k) /\ UNCHANGED lockedBy
  <2>1. CallsType' /\ RestType'
    BY <1>1, <1>2, <1>5, GoOnType DEF CallsType, RestType
  <2>2. LockInv'
    BY <1>1, <1>2, <1>5, GoOnType DEF LockInv, Open
  <2>. QED
    BY <1>2, <2>1, <2>2, QuietIInv
<1>. QED
  BY <1>4, <1>5 DEF LockForFill

(* The limit is crossed: the tick keeps the lock. *)
LEMMA CrossedIInv ==
  ASSUME IInv, NEW k \in Tick, ticks[k].pc = "locked",
         ticks' = [ticks EXCEPT ![k].pc = "crossed"], UNCHANGED lockedBy,
         UNCHANGED <<effects, rate, cancels, faults>>
  PROVE  IInv'
<1>1. CallsType /\ RestType /\ LockInv
  BY DEF IInv
<1>2. UNCHANGED <<rate, cancels, faults, orders>> /\ UNCHANGED effects
  BY DEF effects
<1>3. CallsType' /\ RestType'
  BY <1>1, <1>2 DEF CallsType, RestType
<1>4. LockInv'
  BY <1>1, <1>2 DEF CallsType, LockInv, Open
<1>. QED
  BY <1>2, <1>3, <1>4, QuietIInv

(* A tick gives up its lock without having changed anything, and goes on or *)
(* is dead.                                                                 *)
LEMMA GiveUpIInv ==
  ASSUME IInv, NEW k \in Tick, ticks[k].pc \in {"locked", "crossed"}, Unlock(ticks[k].at),
         GoOn(k) \/ ticks' = [ticks EXCEPT ![k] = IdleTick],
         RestType', UNCHANGED <<effects, rate, cancels>>
  PROVE  IInv'
<1> DEFINE o == ticks[k].at
<1>1. CallsType /\ RestType /\ LockInv
  BY DEF IInv
<1>2. /\ lockedBy' = [lockedBy EXCEPT ![o] = None]
      /\ UNCHANGED <<rate, cancels, orders>>
      /\ UNCHANGED effects
  BY DEF Unlock, effects
<1>3. o \in Order /\ lockedBy[o] = k /\ k \notin Cancel
  BY <1>1, OrderAssumption DEF LockInv
<1>4. /\ ticks' \in [Tick -> [pc : {"idle", "scanning", "locking", "locked", "crossed"},
                              todo : SUBSET Order, at : Order \cup {None}]]
      /\ ticks'[k].pc \in {"idle", "scanning"}
      /\ \A j \in Tick : j # k => ticks'[j] = ticks[j]
  BY <1>1 DEF CallsType, GoOn, IdleTick
<1>5. CallsType'
  BY <1>1, <1>2, <1>3, <1>4, OrderAssumption DEF CallsType
<1>6. LockInv'
  BY <1>1, <1>2, <1>3, <1>4 DEF CallsType, LockInv, Open
<1>. QED
  BY <1>2, <1>5, <1>6, QuietIInv

(* The process dies while its tick holds no lock. *)
LEMMA CrashUnlockedIInv ==
  ASSUME IInv, NEW k \in Tick, ticks[k].pc \notin {"idle", "locked", "crossed"},
         UNCHANGED lockedBy, ticks' = [ticks EXCEPT ![k] = IdleTick],
         RestType', UNCHANGED <<effects, rate, cancels>>
  PROVE  IInv'
<1>1. CallsType /\ LockInv
  BY DEF IInv
<1>2. UNCHANGED <<rate, cancels, orders>> /\ UNCHANGED effects
  BY DEF effects
<1>3. CallsType'
  BY <1>1, <1>2 DEF CallsType, IdleTick
<1>4. LockInv'
  BY <1>1, <1>2 DEF CallsType, LockInv, Open, IdleTick
<1>. QED
  BY <1>2, <1>3, <1>4, QuietIInv

(* The fill of an open order is its one resolution. *)
LEMMA FillIInv ==
  ASSUME IInv, NEW k \in Tick, Fill(k)
  PROVE  IInv'
<1> DEFINE o == ticks[k].at
           row == orders[o]
           cur == HoldCurrency(row)
           n == HoldAmount(row)
           other == BoughtCurrency(row)
           m == BoughtAmount(row)
<1>1. /\ MoneyType /\ RowsType /\ CallsType /\ RestType
      /\ LockInv /\ ResolvedExactlyOnce
  BY DEF IInv
<1>2. /\ ticks[k].pc = "crossed"
      /\ hold' = [hold EXCEPT ![cur] = @ - n]
      /\ wallet' = [wallet EXCEPT ![row.user][other] = @ + m]
      /\ treasury' = [treasury EXCEPT ![cur] = @ + n, ![other] = @ - m]
      /\ orders' = [orders EXCEPT ![o].status = "filled"]
      /\ resolutions' = [resolutions EXCEPT ![o] = @ + 1]
      /\ events' = [events EXCEPT ![o] = @ + 1]
      /\ lockedBy' = [lockedBy EXCEPT ![o] = None]
      /\ GoOn(k)
      /\ UNCHANGED <<rate, cancels, faults>>
  BY DEF Fill, TreasurySwap, Unlock
<1>3. o \in Order /\ lockedBy[o] = k /\ k \notin Cancel /\ k # None
  BY <1>1, <1>2, OrderAssumption DEF LockInv
<1>4. row.status = "open"
  BY <1>1, <1>3 DEF LockInv, Open
<1>5. row.side \in Sides /\ row.quantity \in Nat /\ row.price \in Nat
  BY <1>1, <1>3 DEF RowsType
<1>6. n \in Nat /\ cur \in Currencies /\ m \in Nat /\ other \in Currencies
  BY <1>5, AmountsType
<1>7. MoneyType'
  <2> HIDE DEF row, cur, n, other, m
  <2>1. wallet' \in [User -> [Currencies -> Nat]]
    BY <1>1, <1>2, <1>6, CreditType DEF MoneyType
  <2>. QED
    BY <1>1, <1>2, <1>6, <2>1 DEF MoneyType
<1> HIDE DEF cur, n, other, m, o
<1>8. RowsType' /\ CallsType' /\ RestType'
  <2>1. RowsType'
    BY <1>1, <1>2, <1>3, StatusType DEF RowsType
  <2>2. lockedBy' \in [Order -> Tick \cup Cancel \cup {None}]
    BY <1>1, <1>2, <1>3, LockType
  <2>3. CallsType' /\ RestType'
    BY <1>1, <1>2, <2>2, GoOnType DEF CallsType, RestType
  <2>. QED
    BY <2>1, <2>3
<1>9. LockInv'
  <2>1. /\ \A j \in Tick : j # k => ticks'[j] = ticks[j]
        /\ ticks'[k].pc = "scanning"
    BY <1>1, <1>2, GoOnType
  <2>2. lockedBy'[o] = None /\ \A p \in Order : p # o => lockedBy'[p] = lockedBy[p]
    BY <1>1, <1>2, <1>3, LockType
  <2>3. \A p \in Order : p # o => orders'[p] = orders[p]
    BY <1>1, <1>2, <1>3, StatusType
  <2>4. UNCHANGED cancels
    BY <1>2
  <2>. QED
    BY <1>1, <1>3, <2>1, <2>2, <2>3, <2>4 DEF LockInv, Open
<1>10. ResolvedExactlyOnce'
  BY <1>1, <1>2, <1>3, <1>4, StatusType DEF ResolvedExactlyOnce, RowsType
<1>. QED
  BY <1>7, <1>8, <1>9, <1>10 DEF IInv

---------------------------------------------------------------------------
(* All steps *)

(* Steps of the worker preserve the invariant. *)
LEMMA WorkerIInv ==
  ASSUME IInv, NEW k \in Tick, TickStep(k) \/ FailFill(k) \/ CrashTick(k)
  PROVE  IInv'
<1>0. RestType
  BY DEF IInv
<1>1. CASE CheckRate(k)
  <2>1. CASE ticks' = [ticks EXCEPT ![k].pc = "crossed"] /\ UNCHANGED lockedBy
    BY <1>1, <2>1, CrossedIInv DEF CheckRate
  <2>2. CASE GoOn(k) /\ Unlock(ticks[k].at)
    <3>1. RestType'
      BY <1>0, <1>1 DEF CheckRate, RestType
    <3>. QED
      BY <1>1, <2>2, <3>1, GiveUpIInv DEF CheckRate
  <2>. QED
    BY <1>1, <2>1, <2>2 DEF CheckRate
<1>2. CASE RefuseFill(k)
  <2>1. RestType'
    BY <1>0, <1>2 DEF RefuseFill, RestType
  <2>. QED
    BY <1>2, <2>1, GiveUpIInv DEF RefuseFill
<1>3. CASE FailFill(k)
  <2>1. RestType'
    BY <1>0, <1>3, OrderAssumption DEF FailFill, RestType
  <2>. QED
    BY <1>3, <2>1, GiveUpIInv DEF FailFill
<1>4. CASE CrashTick(k)
  <2>1. RestType'
    BY <1>0, <1>4, OrderAssumption DEF CrashTick, RestType
  <2>2. CASE ticks[k].pc \in {"locked", "crossed"}
    BY <1>4, <2>1, <2>2, GiveUpIInv DEF CrashTick
  <2>3. CASE ticks[k].pc \notin {"locked", "crossed"}
    BY <1>4, <2>1, <2>3, CrashUnlockedIInv DEF CrashTick
  <2>. QED
    BY <2>2, <2>3
<1>. QED
  BY <1>1, <1>2, <1>3, <1>4, ScanIInv, LockForFillIInv, FillIInv DEF TickStep

(* Every step preserves the invariant. *)
LEMMA NextIInv == IInv /\ [Next]_vars => IInv'
<1> SUFFICES ASSUME IInv, [Next]_vars PROVE IInv'
  OBVIOUS
<1>1. CASE UNCHANGED vars
  BY <1>1 DEF IInv, MoneyType, RowsType, CallsType, RestType, LockInv, ResolvedExactlyOnce,
              Open, vars
<1>2. CASE RateMoves
  <2>1. UNCHANGED effects /\ UNCHANGED <<orders, ticks, cancels, lockedBy, faults>> /\ rate' \in Rates
    BY <1>2 DEF RateMoves, effects
  <2>2. CallsType' /\ RestType' /\ LockInv'
    BY <2>1 DEF IInv, CallsType, RestType, LockInv, Open
  <2>. QED
    BY <2>1, <2>2, QuietIInv
<1>3. ASSUME NEW u \in User, NEW o \in Order, NEW s \in Sides, NEW f \in Offers,
             \/ PlaceLimitOrder(u, o, s, f.quantity, f.price)
             \/ \E p \in Rates : ExecuteMarketOrder(u, o, s, f.quantity, p)
      PROVE  IInv'
  <2>1. f.quantity \in Nat /\ f.price \in Nat /\ Rates \subseteq Nat
    BY OrderAssumption
  <2>. QED
    BY <1>3, <2>1, PlaceIInv, MarketIInv
<1>4. ASSUME NEW c \in Cancel, NEW u \in User, NEW o \in Order, BeginCancel(c, u, o)
      PROVE  IInv'
  BY <1>4, BeginCancelIInv
<1>5. ASSUME NEW c \in Cancel, LockForCancel(c) \/ CommitCancel(c) \/ FailCancel(c)
      PROVE  IInv'
  BY <1>5, LockForCancelIInv, CommitCancelIInv, FailCancelIInv
<1>6. ASSUME NEW k \in Tick, TickStep(k) \/ FailFill(k) \/ CrashTick(k)
      PROVE  IInv'
  BY <1>6, WorkerIInv
<1>. QED
  BY <1>1, <1>2, <1>3, <1>4, <1>5, <1>6 DEF Next

---------------------------------------------------------------------------

(* The inductive invariant holds in every state. *)
THEOREM InductiveInvariant == Spec => []IInv
  BY InitIInv, NextIInv, PTL DEF Spec

(* Type correctness of Orders: no wallet is ever overdrawn, since balances  *)
(* of wallets are natural numbers.                                          *)
THEOREM TypeCorrect == Spec => []TypeOK
<1>1. IInv => TypeOK
  BY DEF IInv, MoneyType, RowsType, CallsType, RestType, TypeOK
<1>. QED
  BY <1>1, InductiveInvariant, PTL

(* However many ticks and cancellations race for an order, one of them      *)
(* resolves it, with one ledger entry, and the order is announced as filled *)
(* exactly once if it was filled.                                           *)
THEOREM ResolvedOnce == Spec => []ResolvedExactlyOnce
<1>1. IInv => ResolvedExactlyOnce
  BY DEF IInv
<1>. QED
  BY <1>1, InductiveInvariant, PTL

---------------------------------------------------------------------------
(* Where the money is *)

(* The rows of the table: those of orders that were placed. *)
Made == {o \in Order : orders[o].status # "none"}

(* What each order gives and buys. *)
Holds == [o \in Order |-> HoldAmount(orders[o])]
Buys == [o \in Order |-> BoughtAmount(orders[o])]

(* The orders that MoneyFollowsOrders sums over. *)
GivenIn(status, cur) == {o \in WithStatus({status}) : HoldCurrency(orders[o]) = cur}
BoughtIn(cur) == {o \in WithStatus({"filled"}) : BoughtCurrency(orders[o]) = cur}
GivenBy(u, cur) ==
  {o \in {x \in WithStatus({"open", "filled"}) : orders[x].user = u} :
     HoldCurrency(orders[o]) = cur}
BoughtBy(u, cur) ==
  {o \in {x \in WithStatus({"filled"}) : orders[x].user = u} : BoughtCurrency(orders[o]) = cur}

(* What one row adds to those sums. *)
Gave(row, cur) == IF HoldCurrency(row) = cur THEN HoldAmount(row) ELSE 0
Got(row, cur) == IF BoughtCurrency(row) = cur THEN BoughtAmount(row) ELSE 0
InHold(row, cur) == IF row.status = "open" THEN Gave(row, cur) ELSE 0
InTreasury(row, cur) == IF row.status = "filled" THEN Gave(row, cur) - Got(row, cur) ELSE 0
FromWallet(row, u, cur) ==
  IF row.user # u THEN 0
  ELSE (IF row.status \in {"open", "filled"} THEN Gave(row, cur) ELSE 0)
         - (IF row.status = "filled" THEN Got(row, cur) ELSE 0)

(* MoneyFollowsOrders in terms of these sets. *)
MoneySums ==
  \A cur \in Currencies :
    /\ \A u \in User :
         wallet[u][cur] = InitialWallet[u][cur] - SumFunctionOnSet(Holds, GivenBy(u, cur))
                            + SumFunctionOnSet(Buys, BoughtBy(u, cur))
    /\ hold[cur] = SumFunctionOnSet(Holds, GivenIn("open", cur))
    /\ treasury[cur] = SumFunctionOnSet(Holds, GivenIn("filled", cur))
                         - SumFunctionOnSet(Buys, BoughtIn(cur))

LEMMA MoneySumsEnough == MoneySums => MoneyFollowsOrders
  BY DEF MoneySums, MoneyFollowsOrders, Sum, Holds, Buys, GivenIn, BoughtIn, GivenBy, BoughtBy

(* Sums over orders range over the finitely many placed so far. *)
MoneyInv == IsFiniteSet(Made) /\ MoneySums

(* The amounts of every row are natural numbers. *)
LEMMA RowAmounts ==
  ASSUME RowsType, NEW o \in Order
  PROVE  /\ HoldAmount(orders[o]) \in Nat /\ BoughtAmount(orders[o]) \in Nat
         /\ HoldCurrency(orders[o]) \in Currencies /\ BoughtCurrency(orders[o]) \in Currencies
         /\ HoldCurrency(orders[o]) # BoughtCurrency(orders[o])
<1>1. orders[o].side \in Sides /\ orders[o].quantity \in Nat /\ orders[o].price \in Nat
  BY DEF RowsType
<1>. QED
  BY <1>1, AmountsType

(* A step that writes the row of order o and no other one changes a sum     *)
(* over orders by what this row added before and adds now.                  *)
LEMMA RowSums ==
  ASSUME RowsType, RowsType', IsFiniteSet(Made), NEW o \in Order,
         \A p \in Order \ {o} : orders'[p] = orders[p],
         NEW S \in SUBSET Made, NEW T \in SUBSET Order, S \ {o} = T \ {o}
  PROVE  /\ SumFunctionOnSet(Holds', T) = SumFunctionOnSet(Holds, S)
               - (IF o \in S THEN HoldAmount(orders[o]) ELSE 0)
               + (IF o \in T THEN HoldAmount(orders'[o]) ELSE 0)
         /\ SumFunctionOnSet(Buys', T) = SumFunctionOnSet(Buys, S)
               - (IF o \in S THEN BoughtAmount(orders[o]) ELSE 0)
               + (IF o \in T THEN BoughtAmount(orders'[o]) ELSE 0)
         /\ SumFunctionOnSet(Holds, S) \in Int
         /\ SumFunctionOnSet(Buys, S) \in Int
<1>1. IsFiniteSet(S) /\ S \subseteq Order
  BY FS_Subset DEF Made
<1>2. PICK f, g, f2, g2 : f = Holds /\ g = Buys /\ f2 = Holds' /\ g2 = Buys'
  OBVIOUS
<1>3. \A x \in Order : /\ f[x] = HoldAmount(orders[x]) /\ g[x] = BoughtAmount(orders[x])
                      /\ f2[x] = HoldAmount(orders'[x]) /\ g2[x] = BoughtAmount(orders'[x])
  BY <1>2 DEF Holds, Buys
<1>4. \A x \in Order : f[x] \in Int /\ g[x] \in Int
  <2> SUFFICES ASSUME NEW x \in Order PROVE f[x] \in Int /\ g[x] \in Int
    OBVIOUS
  <2>. QED
    BY <1>3, RowAmounts
<1>5. \A x \in Order : f2[x] \in Int /\ g2[x] \in Int
  <2> SUFFICES ASSUME NEW x \in Order PROVE f2[x] \in Int /\ g2[x] \in Int
    OBVIOUS
  <2>1. orders'[x].side \in Sides /\ orders'[x].quantity \in Nat /\ orders'[x].price \in Nat
    BY DEF RowsType
  <2>. QED
    BY <1>3, <2>1, AmountsType
<1>6. \A x \in S \ {o} : f2[x] = f[x] /\ g2[x] = g[x]
  BY <1>1, <1>3
<1>7. /\ SumFunctionOnSet(f2, T) = SumFunctionOnSet(f, S)
            - (IF o \in S THEN f[o] ELSE 0) + (IF o \in T THEN f2[o] ELSE 0)
      /\ SumFunctionOnSet(g2, T) = SumFunctionOnSet(g, S)
            - (IF o \in S THEN g[o] ELSE 0) + (IF o \in T THEN g2[o] ELSE 0)
  <2>1. \A x \in S : f[x] \in Int /\ g[x] \in Int
    BY <1>1, <1>4
  <2>2. \A x \in T : f2[x] \in Int /\ g2[x] \in Int
    BY <1>5
  <2>. QED
    BY <1>1, <1>6, <2>1, <2>2, SumReplace
<1>8. SumFunctionOnSet(f, S) \in Int /\ SumFunctionOnSet(g, S) \in Int
  BY <1>1, <1>4, SumType
<1>. QED
  BY <1>2, <1>3, <1>7, <1>8

(* If a step writes one row, and moves in each account what this row adds   *)
(* more or less than before, the money still follows the orders.            *)
LEMMA MoneyStep ==
  ASSUME RowsType, RowsType', MoneyType, MoneyInv, NEW o \in Order,
         \A p \in Order \ {o} : orders'[p] = orders[p],
         \A cur \in Currencies :
           /\ hold'[cur] = hold[cur] - InHold(orders[o], cur) + InHold(orders'[o], cur)
           /\ treasury'[cur] =
                treasury[cur] - InTreasury(orders[o], cur) + InTreasury(orders'[o], cur)
           /\ \A u \in User :
                wallet'[u][cur] = wallet[u][cur] + FromWallet(orders[o], u, cur)
                                    - FromWallet(orders'[o], u, cur)
  PROVE  MoneyInv'
<1> DEFINE b == orders[o]
           a == orders'[o]
<1>1. IsFiniteSet(Made')
  <2>1. IsFiniteSet(Made \cup {o})
    BY FS_AddElement DEF MoneyInv
  <2>2. Made' \subseteq Made \cup {o}
    BY DEF Made
  <2>. QED
    BY <2>1, <2>2, FS_Subset
<1>2. /\ \A cur : /\ GivenIn("open", cur) \in SUBSET Made
                  /\ GivenIn("filled", cur) \in SUBSET Made
                  /\ BoughtIn(cur) \in SUBSET Made
      /\ \A u, cur : GivenBy(u, cur) \in SUBSET Made /\ BoughtBy(u, cur) \in SUBSET Made
  BY DEF GivenIn, BoughtIn, GivenBy, BoughtBy, WithStatus, Made
<1>3. /\ \A cur : /\ GivenIn("open", cur)' \in SUBSET Order
                  /\ GivenIn("filled", cur)' \in SUBSET Order
                  /\ BoughtIn(cur)' \in SUBSET Order
      /\ \A u, cur : GivenBy(u, cur)' \in SUBSET Order /\ BoughtBy(u, cur)' \in SUBSET Order
  BY DEF GivenIn, BoughtIn, GivenBy, BoughtBy, WithStatus
<1>4. /\ \A cur : /\ GivenIn("open", cur) \ {o} = GivenIn("open", cur)' \ {o}
                  /\ GivenIn("filled", cur) \ {o} = GivenIn("filled", cur)' \ {o}
                  /\ BoughtIn(cur) \ {o} = BoughtIn(cur)' \ {o}
      /\ \A u, cur : /\ GivenBy(u, cur) \ {o} = GivenBy(u, cur)' \ {o}
                     /\ BoughtBy(u, cur) \ {o} = BoughtBy(u, cur)' \ {o}
  BY DEF GivenIn, BoughtIn, GivenBy, BoughtBy, WithStatus
<1>5. /\ \A cur :
           /\ o \in GivenIn("open", cur) <=> b.status = "open" /\ HoldCurrency(b) = cur
           /\ o \in GivenIn("filled", cur) <=> b.status = "filled" /\ HoldCurrency(b) = cur
           /\ o \in BoughtIn(cur) <=> b.status = "filled" /\ BoughtCurrency(b) = cur
      /\ \A u, cur :
           /\ o \in GivenBy(u, cur) <=> /\ b.status \in {"open", "filled"}
                                        /\ HoldCurrency(b) = cur /\ b.user = u
           /\ o \in BoughtBy(u, cur) <=> /\ b.status = "filled"
                                         /\ BoughtCurrency(b) = cur /\ b.user = u
  BY DEF GivenIn, BoughtIn, GivenBy, BoughtBy, WithStatus
<1>6. /\ \A cur :
           /\ o \in GivenIn("open", cur)' <=> a.status = "open" /\ HoldCurrency(a) = cur
           /\ o \in GivenIn("filled", cur)' <=> a.status = "filled" /\ HoldCurrency(a) = cur
           /\ o \in BoughtIn(cur)' <=> a.status = "filled" /\ BoughtCurrency(a) = cur
      /\ \A u, cur :
           /\ o \in GivenBy(u, cur)' <=> /\ a.status \in {"open", "filled"}
                                         /\ HoldCurrency(a) = cur /\ a.user = u
           /\ o \in BoughtBy(u, cur)' <=> /\ a.status = "filled"
                                          /\ BoughtCurrency(a) = cur /\ a.user = u
  BY DEF GivenIn, BoughtIn, GivenBy, BoughtBy, WithStatus
<1>7. /\ HoldAmount(b) \in Nat /\ BoughtAmount(b) \in Nat
      /\ HoldAmount(a) \in Nat /\ BoughtAmount(a) \in Nat
  <2>1. a.side \in Sides /\ a.quantity \in Nat /\ a.price \in Nat
    BY DEF RowsType
  <2>. QED
    BY <2>1, AmountsType, RowAmounts
<1>8. MoneySums
  BY DEF MoneyInv
<1>9. ASSUME NEW cur \in Currencies
      PROVE  hold'[cur] = SumFunctionOnSet(Holds', GivenIn("open", cur)')
  <2>1. PICK S, T : S = GivenIn("open", cur) /\ T = GivenIn("open", cur)'
    OBVIOUS
  <2>given. S \in SUBSET Made /\ T \in SUBSET Order /\ S \ {o} = T \ {o} /\ IsFiniteSet(Made)
    BY <1>2, <1>3, <1>4, <2>1 DEF MoneyInv
  <2>2. /\ SumFunctionOnSet(Holds', T) = SumFunctionOnSet(Holds, S)
             - (IF o \in S THEN HoldAmount(b) ELSE 0) + (IF o \in T THEN HoldAmount(a) ELSE 0)
        /\ SumFunctionOnSet(Holds, S) \in Int
    BY <2>given, RowSums
  <2>3. (IF o \in S THEN HoldAmount(b) ELSE 0) = InHold(b, cur)
    BY <1>5, <2>1 DEF InHold, Gave
  <2>4. (IF o \in T THEN HoldAmount(a) ELSE 0) = InHold(a, cur)
    BY <1>6, <2>1 DEF InHold, Gave
  <2>. QED
    BY <1>8, <2>1, <2>2, <2>3, <2>4 DEF MoneySums
<1>10. ASSUME NEW cur \in Currencies
       PROVE  treasury'[cur] = SumFunctionOnSet(Holds', GivenIn("filled", cur)')
                                - SumFunctionOnSet(Buys', BoughtIn(cur)')
  <2>1. PICK S, T, U, V : /\ S = GivenIn("filled", cur) /\ T = GivenIn("filled", cur)'
                          /\ U = BoughtIn(cur) /\ V = BoughtIn(cur)'
    OBVIOUS
  <2>given. S \in SUBSET Made /\ T \in SUBSET Order /\ S \ {o} = T \ {o} /\ IsFiniteSet(Made)
    BY <1>2, <1>3, <1>4, <2>1 DEF MoneyInv
  <2>bought. U \in SUBSET Made /\ V \in SUBSET Order /\ U \ {o} = V \ {o} /\ IsFiniteSet(Made)
    BY <1>2, <1>3, <1>4, <2>1 DEF MoneyInv
  <2>2. /\ SumFunctionOnSet(Holds', T) = SumFunctionOnSet(Holds, S)
             - (IF o \in S THEN HoldAmount(b) ELSE 0) + (IF o \in T THEN HoldAmount(a) ELSE 0)
        /\ SumFunctionOnSet(Holds, S) \in Int
    BY <2>given, RowSums
  <2>3. /\ SumFunctionOnSet(Buys', V) = SumFunctionOnSet(Buys, U)
             - (IF o \in U THEN BoughtAmount(b) ELSE 0)
             + (IF o \in V THEN BoughtAmount(a) ELSE 0)
        /\ SumFunctionOnSet(Buys, U) \in Int
    BY <2>bought, RowSums
  <2>4. InTreasury(b, cur) = (IF o \in S THEN HoldAmount(b) ELSE 0)
                               - (IF o \in U THEN BoughtAmount(b) ELSE 0)
    BY <1>5, <1>7, <2>1 DEF InTreasury, Gave, Got
  <2>5. InTreasury(a, cur) = (IF o \in T THEN HoldAmount(a) ELSE 0)
                               - (IF o \in V THEN BoughtAmount(a) ELSE 0)
    BY <1>6, <1>7, <2>1 DEF InTreasury, Gave, Got
  <2> HIDE DEF a, b
  <2>6. treasury'[cur] = treasury[cur] - InTreasury(b, cur) + InTreasury(a, cur)
    BY DEF a, b
  <2>. QED
    BY <1>7, <1>8, <2>1, <2>2, <2>3, <2>4, <2>5, <2>6 DEF MoneySums
<1>11. ASSUME NEW cur \in Currencies, NEW u \in User
       PROVE  wallet'[u][cur] =
                InitialWallet[u][cur] - SumFunctionOnSet(Holds', GivenBy(u, cur)')
                  + SumFunctionOnSet(Buys', BoughtBy(u, cur)')
  <2>1. PICK S, T, U, V : /\ S = GivenBy(u, cur) /\ T = GivenBy(u, cur)'
                          /\ U = BoughtBy(u, cur) /\ V = BoughtBy(u, cur)'
    OBVIOUS
  <2>given. S \in SUBSET Made /\ T \in SUBSET Order /\ S \ {o} = T \ {o} /\ IsFiniteSet(Made)
    BY <1>2, <1>3, <1>4, <2>1 DEF MoneyInv
  <2>bought. U \in SUBSET Made /\ V \in SUBSET Order /\ U \ {o} = V \ {o} /\ IsFiniteSet(Made)
    BY <1>2, <1>3, <1>4, <2>1 DEF MoneyInv
  <2>2. /\ SumFunctionOnSet(Holds', T) = SumFunctionOnSet(Holds, S)
             - (IF o \in S THEN HoldAmount(b) ELSE 0) + (IF o \in T THEN HoldAmount(a) ELSE 0)
        /\ SumFunctionOnSet(Holds, S) \in Int
    BY <2>given, RowSums
  <2>3. /\ SumFunctionOnSet(Buys', V) = SumFunctionOnSet(Buys, U)
             - (IF o \in U THEN BoughtAmount(b) ELSE 0)
             + (IF o \in V THEN BoughtAmount(a) ELSE 0)
        /\ SumFunctionOnSet(Buys, U) \in Int
    BY <2>bought, RowSums
  <2>4. FromWallet(b, u, cur) = (IF o \in S THEN HoldAmount(b) ELSE 0)
                                  - (IF o \in U THEN BoughtAmount(b) ELSE 0)
    BY <1>5, <1>7, <2>1 DEF FromWallet, Gave, Got
  <2>5. FromWallet(a, u, cur) = (IF o \in T THEN HoldAmount(a) ELSE 0)
                                  - (IF o \in V THEN BoughtAmount(a) ELSE 0)
    BY <1>6, <1>7, <2>1 DEF FromWallet, Gave, Got
  <2>6. InitialWallet[u][cur] \in Nat
    BY OrderAssumption DEF Currencies
  <2> HIDE DEF a, b
  <2>7. wallet'[u][cur] = wallet[u][cur] + FromWallet(b, u, cur) - FromWallet(a, u, cur)
    BY DEF a, b
  <2>. QED
    BY <1>7, <1>8, <2>1, <2>2, <2>3, <2>4, <2>5, <2>6, <2>7 DEF MoneySums
<1>12. MoneySums'
  BY <1>9, <1>10, <1>11 DEF MoneySums
<1>. QED
  BY <1>1, <1>12 DEF MoneyInv

(* No order was placed yet. *)
LEMMA InitMoney == Init => MoneyInv
<1> SUFFICES ASSUME Init PROVE MoneyInv
  OBVIOUS
<1>1. \A o \in Order : orders[o].status = "none"
  BY DEF Init, NoOrder
<1>2. /\ Made = {} /\ \A cur : GivenIn("open", cur) = {}
      /\ \A cur : GivenIn("filled", cur) = {} /\ BoughtIn(cur) = {}
      /\ \A u, cur : GivenBy(u, cur) = {} /\ BoughtBy(u, cur) = {}
  BY <1>1 DEF Made, GivenIn, BoughtIn, GivenBy, BoughtBy, WithStatus
<1>3. SumFunctionOnSet(Holds, {}) = 0 /\ SumFunctionOnSet(Buys, {}) = 0
  BY SumEmpty
<1>4. ASSUME NEW cur \in Currencies
      PROVE  /\ SumFunctionOnSet(Holds, GivenIn("open", cur)) = 0
             /\ SumFunctionOnSet(Holds, GivenIn("filled", cur)) = 0
             /\ SumFunctionOnSet(Buys, BoughtIn(cur)) = 0
  <2>1. /\ SumFunctionOnSet(Holds, GivenIn("open", cur)) = SumFunctionOnSet(Holds, {})
        /\ SumFunctionOnSet(Holds, GivenIn("filled", cur)) = SumFunctionOnSet(Holds, {})
        /\ SumFunctionOnSet(Buys, BoughtIn(cur)) = SumFunctionOnSet(Buys, {})
    BY <1>2, Zenon
  <2>. QED
    BY <1>3, <2>1
<1>5. ASSUME NEW u \in User, NEW cur \in Currencies
      PROVE  /\ SumFunctionOnSet(Holds, GivenBy(u, cur)) = 0
             /\ SumFunctionOnSet(Buys, BoughtBy(u, cur)) = 0
  <2>1. /\ SumFunctionOnSet(Holds, GivenBy(u, cur)) = SumFunctionOnSet(Holds, {})
        /\ SumFunctionOnSet(Buys, BoughtBy(u, cur)) = SumFunctionOnSet(Buys, {})
    BY <1>2, Zenon
  <2>. QED
    BY <1>3, <2>1
<1>6. ASSUME NEW cur \in Currencies
      PROVE  /\ hold[cur] = SumFunctionOnSet(Holds, GivenIn("open", cur))
             /\ treasury[cur] = SumFunctionOnSet(Holds, GivenIn("filled", cur))
                                  - SumFunctionOnSet(Buys, BoughtIn(cur))
  BY <1>4 DEF Init
<1>7. ASSUME NEW cur \in Currencies, NEW u \in User
      PROVE  wallet[u][cur] =
               InitialWallet[u][cur] - SumFunctionOnSet(Holds, GivenBy(u, cur))
                 + SumFunctionOnSet(Buys, BoughtBy(u, cur))
  <2>1. InitialWallet[u][cur] \in Nat /\ wallet = InitialWallet
    BY OrderAssumption DEF Init, Currencies
  <2>. QED
    BY <1>5, <2>1
<1>8. MoneySums
  BY <1>6, <1>7 DEF MoneySums
<1>9. IsFiniteSet(Made)
  BY <1>2, FS_EmptySet
<1>. QED
  BY <1>8, <1>9 DEF MoneyInv

(* A row of no order adds nothing. *)
LEMMA NothingIn ==
  ASSUME NEW row, row.status = "none"
  PROVE  \A u, cur : /\ InHold(row, cur) = 0 /\ InTreasury(row, cur) = 0
                    /\ FromWallet(row, u, cur) = 0
  BY DEF InHold, InTreasury, FromWallet

(* A limit order moves what it may cost from the wallet into the hold. *)
LEMMA PlaceMoney ==
  ASSUME IInv, IInv', MoneyInv,
         NEW u \in User, NEW o \in Order, NEW s \in Sides, NEW q \in Nat, NEW p \in Nat,
         PlaceLimitOrder(u, o, s, q, p)
  PROVE  MoneyInv'
<1> DEFINE new == NewOrder(u, s, q, p, "open")
           own == HoldCurrency(new)
           n == HoldAmount(new)
<1>1. MoneyType /\ RowsType /\ RowsType'
  BY DEF IInv
<1>2. /\ new.side \in Sides /\ new.quantity \in Nat /\ new.price \in Nat
      /\ new.status = "open" /\ new.user = u
  BY DEF NewOrder
<1>3. n \in Nat /\ own \in Currencies
  BY <1>2, AmountsType
<1>4. /\ orders[o].status = "none"
      /\ wallet' = [wallet EXCEPT ![u][own] = @ - n]
      /\ hold' = [hold EXCEPT ![own] = @ + n]
      /\ orders' = [orders EXCEPT ![o] = new]
      /\ treasury' = treasury
  BY DEF PlaceLimitOrder, NoOrder
<1>5. orders'[o] = new /\ \A x \in Order \ {o} : orders'[x] = orders[x]
  BY <1>1, <1>4 DEF RowsType
<1>6. \A w, cur : /\ InHold(new, cur) = IF cur = own THEN n ELSE 0
                 /\ InTreasury(new, cur) = 0
                 /\ FromWallet(new, w, cur) = IF w = u /\ cur = own THEN n ELSE 0
  <2> HIDE DEF new
  <2>. QED
    BY <1>2, <1>3 DEF InHold, InTreasury, FromWallet, Gave
<1> HIDE DEF new, own, n
<1>7. ASSUME NEW cur \in Currencies
      PROVE  /\ hold'[cur] = hold[cur] - InHold(orders[o], cur) + InHold(orders'[o], cur)
             /\ treasury'[cur] =
                  treasury[cur] - InTreasury(orders[o], cur) + InTreasury(orders'[o], cur)
  <2>1. hold[cur] \in Int /\ treasury[cur] \in Int
    BY <1>1 DEF MoneyType
  <2>2. hold'[cur] = IF cur = own THEN hold[cur] + n ELSE hold[cur]
    BY <1>1, <1>4 DEF MoneyType
  <2>. QED
    BY <1>3, <1>4, <1>5, <1>6, <2>1, <2>2, NothingIn
<1>8. ASSUME NEW cur \in Currencies, NEW w \in User
      PROVE  wallet'[w][cur] = wallet[w][cur] + FromWallet(orders[o], w, cur)
                                 - FromWallet(orders'[o], w, cur)
  <2>1. wallet[w][cur] \in Nat
    BY <1>1 DEF MoneyType
  <2>2. wallet'[w][cur] = IF w = u /\ cur = own THEN wallet[w][cur] - n ELSE wallet[w][cur]
    BY <1>1, <1>4 DEF MoneyType
  <2>. QED
    BY <1>3, <1>4, <1>5, <1>6, <2>1, <2>2, NothingIn
<1>. QED
  BY <1>1, <1>5, <1>7, <1>8, MoneyStep

(* A market order moves what it gives from the wallet to the treasury, and  *)
(* what it buys back.                                                       *)
LEMMA MarketMoney ==
  ASSUME IInv, IInv', MoneyInv,
         NEW u \in User, NEW o \in Order, NEW s \in Sides, NEW q \in Nat, NEW p \in Nat,
         ExecuteMarketOrder(u, o, s, q, p)
  PROVE  MoneyInv'
<1> DEFINE new == NewOrder(u, s, q, p, "filled")
           own == HoldCurrency(new)
           n == HoldAmount(new)
           other == BoughtCurrency(new)
           m == BoughtAmount(new)
<1>1. MoneyType /\ RowsType /\ RowsType'
  BY DEF IInv
<1>2. /\ new.side \in Sides /\ new.quantity \in Nat /\ new.price \in Nat
      /\ new.status = "filled" /\ new.user = u
  BY DEF NewOrder
<1>3. n \in Nat /\ own \in Currencies /\ m \in Nat /\ other \in Currencies /\ own # other
  BY <1>2, AmountsType
<1>4. /\ orders[o].status = "none"
      /\ wallet' = [wallet EXCEPT ![u][own] = @ - n, ![u][other] = @ + m]
      /\ treasury' = [treasury EXCEPT ![own] = @ + n, ![other] = @ - m]
      /\ orders' = [orders EXCEPT ![o] = new]
      /\ hold' = hold
  BY DEF ExecuteMarketOrder, TreasurySwap, NoOrder
<1>5. orders'[o] = new /\ \A x \in Order \ {o} : orders'[x] = orders[x]
  BY <1>1, <1>4 DEF RowsType
<1>6. \A w, cur : /\ InHold(new, cur) = 0
                 /\ InTreasury(new, cur) =
                      (IF cur = own THEN n ELSE 0) - (IF cur = other THEN m ELSE 0)
                 /\ FromWallet(new, w, cur) =
                      IF w # u THEN 0
                      ELSE (IF cur = own THEN n ELSE 0) - (IF cur = other THEN m ELSE 0)
  <2> HIDE DEF new
  <2>. QED
    BY <1>2, <1>3 DEF InHold, InTreasury, FromWallet, Gave, Got
<1> HIDE DEF new, own, n, other, m
<1>7. ASSUME NEW cur \in Currencies
      PROVE  /\ hold'[cur] = hold[cur] - InHold(orders[o], cur) + InHold(orders'[o], cur)
             /\ treasury'[cur] =
                  treasury[cur] - InTreasury(orders[o], cur) + InTreasury(orders'[o], cur)
  <2>1. hold[cur] \in Int /\ treasury[cur] \in Int
    BY <1>1 DEF MoneyType
  <2>2. treasury'[cur] = IF cur = own THEN treasury[cur] + n
                         ELSE IF cur = other THEN treasury[cur] - m ELSE treasury[cur]
    BY <1>1, <1>3, <1>4 DEF MoneyType
  <2>. QED
    BY <1>3, <1>4, <1>5, <1>6, <2>1, <2>2, NothingIn
<1>8. ASSUME NEW cur \in Currencies, NEW w \in User
      PROVE  wallet'[w][cur] = wallet[w][cur] + FromWallet(orders[o], w, cur)
                                 - FromWallet(orders'[o], w, cur)
  <2>1. wallet[w][cur] \in Nat
    BY <1>1 DEF MoneyType
  <2>2. wallet'[w][cur] = IF w # u THEN wallet[w][cur]
                          ELSE IF cur = own THEN wallet[w][cur] - n
                          ELSE IF cur = other THEN wallet[w][cur] + m ELSE wallet[w][cur]
    BY <1>1, <1>3, <1>4 DEF MoneyType
  <2>. QED
    BY <1>3, <1>4, <1>5, <1>6, <2>1, <2>2, NothingIn
<1>. QED
  BY <1>1, <1>5, <1>7, <1>8, MoneyStep

(* What an open row adds, and what it adds once it is cancelled or filled:  *)
(* its amounts are recomputed from the same quantity and price.             *)
LEMMA ResolvedRow ==
  ASSUME RowsType, NEW o \in Order, Open(o), NEW status \in {"filled", "cancelled"},
         orders' = [orders EXCEPT ![o].status = status]
  PROVE  /\ orders'[o].status = status /\ orders'[o].user = orders[o].user
         /\ HoldAmount(orders'[o]) = HoldAmount(orders[o])
         /\ HoldCurrency(orders'[o]) = HoldCurrency(orders[o])
         /\ BoughtAmount(orders'[o]) = BoughtAmount(orders[o])
         /\ BoughtCurrency(orders'[o]) = BoughtCurrency(orders[o])
         /\ \A x \in Order \ {o} : orders'[x] = orders[x]
<1>1. /\ orders'[o].status = status /\ orders'[o].user = orders[o].user
      /\ orders'[o].side = orders[o].side
      /\ orders'[o].quantity = orders[o].quantity /\ orders'[o].price = orders[o].price
      /\ \A x \in Order \ {o} : orders'[x] = orders[x]
  BY DEF RowsType
<1>. QED
  BY <1>1 DEF HoldAmount, HoldCurrency, BoughtAmount, BoughtCurrency, QuoteAmount

(* A cancellation gives the wallet back what the order put into the hold.   *)
LEMMA CancelMoney ==
  ASSUME IInv, IInv', MoneyInv, NEW c \in Cancel, CommitCancel(c)
  PROVE  MoneyInv'
<1>1. MoneyType /\ RowsType /\ RowsType' /\ LockInv
  BY DEF IInv
<1>2. PICK o \in Order : o = cancels[c].order /\ Open(o)
  BY <1>1, OrderAssumption DEF LockInv, CommitCancel
<1>3. PICK own, n, u : own = HoldCurrency(orders[o]) /\ n = HoldAmount(orders[o]) /\ u = orders[o].user
  OBVIOUS
<1>4. /\ wallet' = [wallet EXCEPT ![u][own] = @ + n]
      /\ hold' = [hold EXCEPT ![own] = @ - n]
      /\ treasury' = treasury
      /\ orders' = [orders EXCEPT ![o].status = "cancelled"]
  BY <1>2, <1>3 DEF CommitCancel
<1>5. n \in Nat /\ own \in Currencies
  BY <1>1, <1>3, RowAmounts
<1>6. \A w, cur : /\ InHold(orders[o], cur) = IF cur = own THEN n ELSE 0
                 /\ InTreasury(orders[o], cur) = 0
                 /\ FromWallet(orders[o], w, cur) = IF w = u /\ cur = own THEN n ELSE 0
  BY <1>2, <1>3, <1>5 DEF Open, InHold, InTreasury, FromWallet, Gave
<1>7. /\ \A w, cur : /\ InHold(orders'[o], cur) = 0 /\ InTreasury(orders'[o], cur) = 0
                     /\ FromWallet(orders'[o], w, cur) = 0
      /\ \A x \in Order \ {o} : orders'[x] = orders[x]
  <2>1. orders'[o].status = "cancelled" /\ \A x \in Order \ {o} : orders'[x] = orders[x]
    BY <1>1, <1>4 DEF RowsType
  <2>. QED
    BY <2>1 DEF InHold, InTreasury, FromWallet
<1>8. ASSUME NEW cur \in Currencies
      PROVE  /\ hold'[cur] = hold[cur] - InHold(orders[o], cur) + InHold(orders'[o], cur)
             /\ treasury'[cur] =
                  treasury[cur] - InTreasury(orders[o], cur) + InTreasury(orders'[o], cur)
  <2>1. hold[cur] \in Int /\ treasury[cur] \in Int
    BY <1>1 DEF MoneyType
  <2>2. hold'[cur] = IF cur = own THEN hold[cur] - n ELSE hold[cur]
    BY <1>1, <1>4 DEF MoneyType
  <2>. QED
    BY <1>4, <1>5, <1>6, <1>7, <2>1, <2>2
<1>9. ASSUME NEW cur \in Currencies, NEW w \in User
      PROVE  wallet'[w][cur] = wallet[w][cur] + FromWallet(orders[o], w, cur)
                                 - FromWallet(orders'[o], w, cur)
  <2>1. wallet[w][cur] \in Nat
    BY <1>1 DEF MoneyType
  <2>2. wallet'[w][cur] = IF w = u /\ cur = own THEN wallet[w][cur] + n ELSE wallet[w][cur]
    BY <1>1, <1>4 DEF MoneyType
  <2>. QED
    BY <1>5, <1>6, <1>7, <2>1, <2>2
<1>. QED
  BY <1>1, <1>7, <1>8, <1>9, MoneyStep

(* A fill moves what the order gave from the hold to the treasury, and what *)
(* it bought from there to the wallet.                                      *)
LEMMA FillMoney ==
  ASSUME IInv, IInv', MoneyInv, NEW k \in Tick, Fill(k)
  PROVE  MoneyInv'
<1>1. MoneyType /\ RowsType /\ RowsType' /\ LockInv
  BY DEF IInv
<1>2. PICK o \in Order : o = ticks[k].at /\ Open(o)
  BY <1>1, OrderAssumption DEF LockInv, Fill
<1>3. PICK own, n, other, m, u :
        /\ own = HoldCurrency(orders[o]) /\ n = HoldAmount(orders[o])
        /\ other = BoughtCurrency(orders[o]) /\ m = BoughtAmount(orders[o])
        /\ u = orders[o].user
  OBVIOUS
<1>4. /\ hold' = [hold EXCEPT ![own] = @ - n]
      /\ wallet' = [wallet EXCEPT ![u][other] = @ + m]
      /\ treasury' = [treasury EXCEPT ![own] = @ + n, ![other] = @ - m]
      /\ orders' = [orders EXCEPT ![o].status = "filled"]
  BY <1>2, <1>3 DEF Fill, TreasurySwap
<1>5. n \in Nat /\ own \in Currencies /\ m \in Nat /\ other \in Currencies /\ own # other
  BY <1>1, <1>3, RowAmounts
<1>6. \A w, cur : /\ InHold(orders[o], cur) = IF cur = own THEN n ELSE 0
                 /\ InTreasury(orders[o], cur) = 0
                 /\ FromWallet(orders[o], w, cur) = IF w = u /\ cur = own THEN n ELSE 0
  BY <1>2, <1>3, <1>5 DEF Open, InHold, InTreasury, FromWallet, Gave
<1>7. /\ orders'[o].status = "filled" /\ orders'[o].user = u
      /\ HoldAmount(orders'[o]) = n /\ HoldCurrency(orders'[o]) = own
      /\ BoughtAmount(orders'[o]) = m /\ BoughtCurrency(orders'[o]) = other
      /\ \A x \in Order \ {o} : orders'[x] = orders[x]
  BY <1>1, <1>2, <1>3, <1>4, ResolvedRow
<1>8. \A w, cur : /\ InHold(orders'[o], cur) = 0
                 /\ InTreasury(orders'[o], cur) =
                      (IF cur = own THEN n ELSE 0) - (IF cur = other THEN m ELSE 0)
                 /\ FromWallet(orders'[o], w, cur) =
                      IF w # u THEN 0
                      ELSE (IF cur = own THEN n ELSE 0) - (IF cur = other THEN m ELSE 0)
  BY <1>5, <1>7 DEF InHold, InTreasury, FromWallet, Gave, Got
<1>9. ASSUME NEW cur \in Currencies
      PROVE  /\ hold'[cur] = hold[cur] - InHold(orders[o], cur) + InHold(orders'[o], cur)
             /\ treasury'[cur] =
                  treasury[cur] - InTreasury(orders[o], cur) + InTreasury(orders'[o], cur)
  <2>1. hold[cur] \in Int /\ treasury[cur] \in Int
    BY <1>1 DEF MoneyType
  <2>2. hold'[cur] = IF cur = own THEN hold[cur] - n ELSE hold[cur]
    BY <1>1, <1>4 DEF MoneyType
  <2>3. treasury'[cur] = IF cur = own THEN treasury[cur] + n
                         ELSE IF cur = other THEN treasury[cur] - m ELSE treasury[cur]
    BY <1>1, <1>4, <1>5 DEF MoneyType
  <2>. QED
    BY <1>5, <1>6, <1>8, <2>1, <2>2, <2>3
<1>10. ASSUME NEW cur \in Currencies, NEW w \in User
       PROVE  wallet'[w][cur] = wallet[w][cur] + FromWallet(orders[o], w, cur)
                                  - FromWallet(orders'[o], w, cur)
  <2>1. wallet[w][cur] \in Nat
    BY <1>1 DEF MoneyType
  <2>2. wallet'[w][cur] = IF w = u /\ cur = other THEN wallet[w][cur] + m ELSE wallet[w][cur]
    BY <1>1, <1>4 DEF MoneyType
  <2>. QED
    BY <1>5, <1>6, <1>8, <2>1, <2>2
<1>. QED
  BY <1>1, <1>7, <1>9, <1>10, MoneyStep

(* Every step keeps track of the money. *)
LEMMA NextMoney == IInv /\ IInv' /\ MoneyInv /\ [Next]_vars => MoneyInv'
<1> SUFFICES ASSUME IInv, IInv', MoneyInv, [Next]_vars PROVE MoneyInv'
  OBVIOUS
<1>1. ASSUME UNCHANGED <<orders, wallet, hold, treasury>>
      PROVE  MoneyInv'
  <2>1. /\ Made' = Made /\ Holds' = Holds /\ Buys' = Buys
        /\ \A cur : /\ GivenIn("open", cur)' = GivenIn("open", cur)
                    /\ GivenIn("filled", cur)' = GivenIn("filled", cur)
                    /\ BoughtIn(cur)' = BoughtIn(cur)
        /\ \A u, cur : GivenBy(u, cur)' = GivenBy(u, cur) /\ BoughtBy(u, cur)' = BoughtBy(u, cur)
    BY <1>1 DEF Made, Holds, Buys, GivenIn, BoughtIn, GivenBy, BoughtBy, WithStatus
  <2>2. MoneySums'
    BY <1>1, <2>1 DEF MoneyInv, MoneySums
  <2>. QED
    BY <2>1, <2>2 DEF MoneyInv
<1>2. ASSUME NEW u \in User, NEW o \in Order, NEW s \in Sides, NEW f \in Offers,
             \/ PlaceLimitOrder(u, o, s, f.quantity, f.price)
             \/ \E p \in Rates : ExecuteMarketOrder(u, o, s, f.quantity, p)
      PROVE  MoneyInv'
  <2>1. f.quantity \in Nat /\ f.price \in Nat /\ Rates \subseteq Nat
    BY OrderAssumption
  <2>. QED
    BY <1>2, <2>1, PlaceMoney, MarketMoney
<1>3. ASSUME NEW c \in Cancel, CommitCancel(c)
      PROVE  MoneyInv'
  BY <1>3, CancelMoney
<1>4. ASSUME NEW k \in Tick, Fill(k)
      PROVE  MoneyInv'
  BY <1>4, FillMoney
<1>5. ASSUME NEW c \in Cancel, NEW u \in User, NEW o \in Order, BeginCancel(c, u, o)
      PROVE  MoneyInv'
  BY <1>1, <1>5 DEF BeginCancel, effects
<1>6. ASSUME NEW c \in Cancel, LockForCancel(c) \/ FailCancel(c)
      PROVE  MoneyInv'
  BY <1>1, <1>6 DEF LockForCancel, FailCancel, effects
<1>7. ASSUME NEW k \in Tick,
             \/ Scan(k) \/ NextOrder(k) \/ LockForFill(k) \/ CheckRate(k) \/ RefuseFill(k)
             \/ FailFill(k) \/ CrashTick(k)
      PROVE  MoneyInv'
  BY <1>1, <1>7 DEF Scan, NextOrder, LockForFill, CheckRate, RefuseFill, FailFill, CrashTick, effects
<1>8. CASE RateMoves
  BY <1>1, <1>8 DEF RateMoves, effects
<1>9. CASE UNCHANGED vars
  BY <1>1, <1>9 DEF vars
<1>10. ASSUME NEW k \in Tick, TickStep(k) \/ FailFill(k) \/ CrashTick(k)
       PROVE  MoneyInv'
  BY <1>4, <1>7, <1>10 DEF TickStep
<1>11. ASSUME NEW c \in Cancel, LockForCancel(c) \/ CommitCancel(c) \/ FailCancel(c)
       PROVE  MoneyInv'
  BY <1>3, <1>6, <1>11
<1>. QED
  BY <1>2, <1>5, <1>8, <1>9, <1>10, <1>11 DEF Next

(* However ticks, cancellations and new orders interleave, the trade_hold   *)
(* accounts hold exactly what the open orders put there, and each wallet    *)
(* and the treasury are what the open and filled orders make of them,       *)
(* although every amount is recomputed when it is used (order-math.util.ts).*)
THEOREM MoneyFollows == Spec => []MoneyFollowsOrders
<1>1. Init => MoneyInv
  BY InitMoney
<1>2. MoneyInv => MoneyFollowsOrders
  BY MoneySumsEnough DEF MoneyInv
<1>. QED
  BY <1>1, <1>2, NextMoney, InductiveInvariant, PTL DEF Spec
=============================================================================
