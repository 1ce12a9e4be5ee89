------------------------------ MODULE MCLedger ------------------------------
(* A USD ledger of two wallets with treasury, fees and pending withdrawals *)
(* and a EUR wallet with its treasury.  Three transactions post, at the    *)
(* same time, any entries: what the services build, and malformed ones.    *)
EXTENDS Ledger, ServiceEntries

CONSTANTS t1, t2, t3, alice, bob

MCTx == {t1, t2, t3}

MCAccountOf(owner, c, kind) ==
  CASE owner = alice /\ c = "USD"      -> 1
    [] kind = "treasury" /\ c = "USD"  -> 2
    [] owner = bob /\ c = "USD"        -> 3
    [] kind = "fees" /\ c = "USD"      -> 4
    [] owner = alice /\ c = "EUR"      -> 5
    [] kind = "treasury" /\ c = "EUR"  -> 6
    [] kind = "withdrawal_pending" /\ c = "USD" -> 7
    [] OTHER                           -> 8    \* an id without a row

MCOwned == {1, 3, 5}
MCCurrencyOf == <<"USD", "USD", "USD", "USD", "EUR", "EUR", "USD">>

(* After deposits of 3 and 2 USD and 1 EUR, 1 USD of them to be withdrawn. *)
MCInitialBalance == <<3, -5, 1, 0, 1, -1, 1>>

Unbalanced ==
  <<Wallet(alice, "USD", "debit", 1), Wallet(bob, "USD", "credit", 2)>>

WrongCurrency ==
  <<Wallet(alice, "USD", "debit", 1),
    [Wallet(alice, "EUR", "credit", 1) EXCEPT !.currency = "USD"]>>

(* 2 USD buy 1 EUR; 1 USD buys half a unit, rounded to none, less the      *)
(* spread, and the entry is refused.                                       *)
MCEntries ==
  {DepositEntry(bob, "USD", 1),
   TransferEntry(alice, bob, "USD", 1),
   ConvertEntry(alice, "USD", "EUR", 2, 1, 2),
   ConvertEntry(bob, "USD", "EUR", 1, 1, 2),
   HoldEntry(bob, "USD", "trade_hold", 1),
   SettleEntry("USD", 1),
   ReleaseEntry(bob, "USD", "withdrawal_pending", 1),
   Unbalanced, WrongCurrency}
=============================================================================
