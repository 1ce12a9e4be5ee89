---------------------------- MODULE LedgerEntry ----------------------------
(***************************************************************************)
(* Entries and accounts of the double-entry ledger, and what the ledger    *)
(* service computes from an entry before it touches a balance:             *)
(* backend/src/ledger/ledger-entry-validator.ts and the first half of      *)
(* postEntryWithManager in backend/src/ledger/ledger.service.ts.           *)
(*                                                                         *)
(* An entry is a sequence of lines, each a record                          *)
(* [account, direction, amount, currency].  Amounts count the smallest     *)
(* unit of numeric(30,8), so that they are integers: the scale of an       *)
(* amount (at most 8 decimals) is not modelled.                            *)
(***************************************************************************)
EXTENDS Integers, Sequences, FiniteSets, Functions

CONSTANTS
  NumAccounts,      \* how many account_balances rows there are
  Owned,            \* the accounts with an owner_user_id: the user wallets
  Currency,         \* currency codes
  currencyOf,       \* accounts.currency_code
  Entries,          \* the entries that callers may hand to postEntry
  InitialBalance    \* the committed balances to start from

(* Row identifiers in the order of ORDER BY ab.account_id. *)
Account == 1..NumAccounts

(* How often a line of `lines` satisfying Test moves what amount in total. *)
TotalAmount(lines, Test(_)) ==
  SumFunctionOnSet([i \in DOMAIN lines |-> lines[i].amount],
                   {i \in DOMAIN lines : Test(lines[i])})

Touched(lines) == {lines[i].account : i \in DOMAIN lines}

(* deltasByAccountId: credits count up, debits count down. *)
Delta(lines, a) ==
  TotalAmount(lines, LAMBDA l : l.account = a /\ l.direction = "credit")
    - TotalAmount(lines, LAMBDA l : l.account = a /\ l.direction = "debit")

BalancedIn(lines, c) ==
  TotalAmount(lines, LAMBDA l : l.currency = c /\ l.direction = "debit")
    = TotalAmount(lines, LAMBDA l : l.currency = c /\ l.direction = "credit")

(* validateEntryLines returns without throwing. *)
ValidEntryLines(lines) ==
  /\ Len(lines) >= 2
  /\ \A i \in DOMAIN lines : lines[i].amount > 0
  /\ \A c \in {lines[i].currency : i \in DOMAIN lines} : BalancedIn(lines, c)

(* rows.length = accountIds.length: every account named has a balance row. *)
RowsExist(lines) == Touched(lines) \subseteq Account

CurrenciesMatchUnchecked(lines) == TRUE

(* Each line is in the currency of the account it is posted to. *)
CurrenciesMatch(lines) ==
  \A i \in DOMAIN lines :
    lines[i].account \in Account => currencyOf[lines[i].account] = lines[i].currency

(* The demands on an entry that do not depend on the balances. *)
Admissible(lines) ==
  ValidEntryLines(lines) /\ RowsExist(lines) /\ CurrenciesMatch(lines)

---------------------------------------------------------------------------

ASSUME AccountAssumption ==
  /\ NumAccounts \in Nat \ {0}
  /\ Owned \subseteq Account
  /\ currencyOf \in [Account -> Currency]

(* An entry is a list of lines, and their amounts are numbers. *)
ASSUME EntryAssumption ==
  \A e \in Entries :
    /\ Len(e) \in Nat /\ DOMAIN e = 1..Len(e)
    /\ \A i \in DOMAIN e : e[i].amount \in Int

(* No history overdraws a wallet or makes money, so no starting point does. *)
ASSUME InitialAssumption ==
  /\ InitialBalance \in [Account -> Int]
  /\ \A a \in Owned : InitialBalance[a] >= 0
  /\ \A c \in Currency :
       SumFunctionOnSet(InitialBalance, {a \in Account : currencyOf[a] = c}) = 0
============================================================================
