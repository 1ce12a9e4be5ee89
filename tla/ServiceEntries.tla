--------------------------- MODULE ServiceEntries ---------------------------
(***************************************************************************)
(* The entries that the services hand to LedgerService.postEntry: deposits *)
(* (deposits.service.ts), transfers (transfers.service.ts), withdrawals    *)
(* (withdrawals.service.ts), limit orders (orders.service.ts) and swaps    *)
(* (common/trade-execution/trade-execution.service.ts) for FX conversions  *)
(* (fx.service.ts) and trades, all in backend/src/.                        *)
(*                                                                         *)
(* Amounts are in the smallest unit of their currency.                     *)
(***************************************************************************)
EXTENDS Sequences, Rounding

CONSTANTS
  Platform,            \* the owner "null" of the pooled accounts
  accountOf(_, _, _),  \* the account that ensureAccount returns for an
                       \* owner, a currency and a kind
  TransferFee,         \* TRANSFER_FEE_FLAT
  SpreadBps            \* FX_SPREAD_BPS

ASSUME ServiceAssumption == TransferFee \in Nat /\ SpreadBps \in Nat

Posting(owner, c, kind, direction, n) ==
  [account |-> accountOf(owner, c, kind), direction |-> direction,
   amount |-> n, currency |-> c]

Wallet(u, c, direction, n) == Posting(u, c, "user_wallet", direction, n)
Pool(kind, c, direction, n) == Posting(Platform, c, kind, direction, n)

(* deposit: simulated money comes from the treasury. *)
DepositEntry(u, c, n) ==
  <<Pool("treasury", c, "debit", n), Wallet(u, c, "credit", n)>>

(* executeTransfer: the sender pays the fee on top of the amount. *)
TransferEntry(u, v, c, n) ==
  <<Wallet(u, c, "debit", n + TransferFee), Wallet(v, c, "credit", n)>>
    \o IF TransferFee > 0 THEN <<Pool("fees", c, "credit", TransferFee)>> ELSE <<>>

(* A hold, of requestWithdrawal (in withdrawal_pending) or of a limit      *)
(* order (in trade_hold), and its release by reject or cancelOrder.        *)
HoldEntry(u, c, kind, n) ==
  <<Wallet(u, c, "debit", n), Pool(kind, c, "credit", n)>>

ReleaseEntry(u, c, kind, n) ==
  <<Pool(kind, c, "debit", n), Wallet(u, c, "credit", n)>>

(* approve: the held money leaves to the treasury. *)
SettleEntry(c, n) ==
  <<Pool("withdrawal_pending", c, "debit", n), Pool("treasury", c, "credit", n)>>

(* executeSwap: n of c for m of d, at the treasury, out of `source`. *)
SwapEntry(source, kind, c, n, u, d, m) ==
  <<Posting(source, c, kind, "debit", n), Pool("treasury", c, "credit", n),
    Pool("treasury", d, "debit", m), Wallet(u, d, "credit", m)>>

(* computeConversion: what n buys at rate p/q, less the spread. *)
ConvertedAmount(n, p, q) == HalfEven(n * p * (10000 - SpreadBps), q * 10000)

(* executeConvert. *)
ConvertEntry(u, c, d, n, p, q) ==
  SwapEntry(u, "user_wallet", c, n, u, d, ConvertedAmount(n, p, q))
=============================================================================
