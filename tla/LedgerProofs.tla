---------------------------- MODULE LedgerProofs ----------------------------
(* Theorems about Ledger, for any number of transactions and accounts, any  *)
(* entries and any starting balances that satisfy LedgerEntry's assumptions,*)
(* and about the entries that the services build (ServiceEntries).          *)
EXTENDS Ledger, ServiceEntries, SumTheorems, WellFoundedInduction, TLAPS

---------------------------------------------------------------------------
(* What an entry adds up to *)

Amount(e) == [i \in DOMAIN e |-> e[i].amount]

(* The lines of e in one direction, and those of them on account a. *)
LinesTo(e, dir) == {i \in DOMAIN e : e[i].direction = dir}
LinesOn(e, dir, a) == {i \in LinesTo(e, dir) : e[i].account = a}

(* An entry has finitely many lines, each moving an integer amount. *)
LEMMA LinesAreFinite ==
  ASSUME NEW e \in Entries, NEW S \in SUBSET DOMAIN e
  PROVE  /\ IsFiniteSet(S)
         /\ \A i \in S : Amount(e)[i] \in Int
         /\ SumFunctionOnSet(Amount(e), S) \in Int
<1>1. IsFiniteSet(DOMAIN e)
  BY EntryAssumption, FS_Interval
<1>2. IsFiniteSet(S) /\ \A i \in S : Amount(e)[i] \in Int
  BY <1>1, EntryAssumption, FS_Subset DEF Amount
<1>. QED
  BY <1>2, SumType

(* What an entry adds to an account is a number. *)
LEMMA DeltaType ==
  ASSUME NEW e \in Entries, NEW a
  PROVE  /\ SumFunctionOnSet(Amount(e), LinesOn(e, "credit", a)) \in Int
         /\ SumFunctionOnSet(Amount(e), LinesOn(e, "debit", a)) \in Int
         /\ Delta(e, a) = SumFunctionOnSet(Amount(e), LinesOn(e, "credit", a))
                            - SumFunctionOnSet(Amount(e), LinesOn(e, "debit", a))
         /\ Delta(e, a) \in Int
<1>1. /\ LinesOn(e, "credit", a) \in SUBSET DOMAIN e
      /\ LinesOn(e, "debit", a) \in SUBSET DOMAIN e
  BY DEF LinesOn, LinesTo
<1>2. /\ LinesOn(e, "credit", a) =
           {i \in DOMAIN e : e[i].account = a /\ e[i].direction = "credit"}
      /\ LinesOn(e, "debit", a) =
           {i \in DOMAIN e : e[i].account = a /\ e[i].direction = "debit"}
  BY DEF LinesOn, LinesTo
<1>3. Delta(e, a) = SumFunctionOnSet(Amount(e), LinesOn(e, "credit", a))
                     - SumFunctionOnSet(Amount(e), LinesOn(e, "debit", a))
  BY <1>2, Zenon DEF Delta, TotalAmount, Amount
<1>4. /\ SumFunctionOnSet(Amount(e), LinesOn(e, "credit", a)) \in Int
      /\ SumFunctionOnSet(Amount(e), LinesOn(e, "debit", a)) \in Int
  BY <1>1, LinesAreFinite
<1>. QED
  BY <1>3, <1>4

(* An entry adds nothing to an account that none of its lines names. *)
LEMMA UntouchedDelta ==
  ASSUME NEW e \in Entries, NEW a, a \notin Touched(e)
  PROVE  Delta(e, a) = 0
<1>1. LinesOn(e, "credit", a) = {} /\ LinesOn(e, "debit", a) = {}
  BY DEF LinesOn, LinesTo, Touched
<1>2. /\ SumFunctionOnSet(Amount(e), LinesOn(e, "credit", a)) = 0
      /\ SumFunctionOnSet(Amount(e), LinesOn(e, "debit", a)) = 0
  <2>1. /\ SumFunctionOnSet(Amount(e), LinesOn(e, "credit", a)) =
             SumFunctionOnSet(Amount(e), {})
        /\ SumFunctionOnSet(Amount(e), LinesOn(e, "debit", a)) =
             SumFunctionOnSet(Amount(e), {})
    BY <1>1, Zenon
  <2>. QED
    BY <2>1, SumEmpty
<1>. QED
  BY <1>2, DeltaType

AccountsOf(c) == {a \in Account : currencyOf[a] = c}

(* There are finitely many accounts. *)
LEMMA AccountsAreFinite == \A c : IsFiniteSet(AccountsOf(c)) /\ AccountsOf(c) \subseteq Account
BY AccountAssumption, FS_Interval, FS_Subset DEF AccountsOf, Account

(* The lines of an admissible entry on the accounts of a currency are its   *)
(* lines in that currency (the currency check of postEntryWithManager).     *)
LEMMA LinesOfCurrency ==
  ASSUME NEW e \in Entries, RowsExist(e), CurrenciesMatch(e), NEW c, NEW dir
  PROVE  {i \in LinesTo(e, dir) : e[i].account \in AccountsOf(c)} =
           {i \in DOMAIN e : e[i].currency = c /\ e[i].direction = dir}
<1>1. \A i \in DOMAIN e : e[i].account \in Account /\ currencyOf[e[i].account] = e[i].currency
  BY DEF RowsExist, CurrenciesMatch, Touched
<1>. QED
  BY <1>1 DEF LinesTo, AccountsOf

(* What an admissible entry adds to the accounts of a currency is nothing   *)
(* in total: they get as much as they give (validateEntryLines, and lines   *)
(* in the currency of their accounts).                                      *)
LEMMA EntryAddsNothing ==
  ASSUME NEW e \in Entries, ValidEntryLines(e), RowsExist(e), CurrenciesMatch(e), NEW c
  PROVE  SumFunctionOnSet([a \in Account |-> Delta(e, a)], AccountsOf(c)) = 0
<1> DEFINE S == AccountsOf(c)
           delta == [a \in Account |-> Delta(e, a)]
           On(dir) == [a \in Account |-> SumFunctionOnSet(Amount(e), LinesOn(e, dir, a))]
           InCurrency(dir) == {i \in DOMAIN e : e[i].currency = c /\ e[i].direction = dir}
<1>1. IsFiniteSet(S) /\ S \subseteq Account
  BY AccountsAreFinite
<1>2. \A dir : SumFunctionOnSet(On(dir), S) = SumFunctionOnSet(Amount(e), InCurrency(dir))
  <2> SUFFICES ASSUME NEW dir
               PROVE  SumFunctionOnSet(On(dir), S) = SumFunctionOnSet(Amount(e), InCurrency(dir))
    OBVIOUS
  <2> DEFINE I == LinesTo(e, dir)
             account == [i \in I |-> e[i].account]
  <2>1. I \in SUBSET DOMAIN e
    BY DEF LinesTo
  <2>2. IsFiniteSet(I) /\ \A i \in I : Amount(e)[i] \in Int
    BY <2>1, LinesAreFinite
  <2>3. \A a \in S : On(dir)[a] = SumFunctionOnSet(Amount(e), {i \in I : account[i] = a})
    <3> SUFFICES ASSUME NEW a \in S
                 PROVE  On(dir)[a] = SumFunctionOnSet(Amount(e), {i \in I : account[i] = a})
      OBVIOUS
    <3>1. LinesOn(e, dir, a) = {i \in I : account[i] = a}
      BY DEF LinesOn
    <3>2. On(dir)[a] = SumFunctionOnSet(Amount(e), LinesOn(e, dir, a))
      BY <1>1
    <3>. QED
      BY <3>1, <3>2, Zenon
  <2>4. {i \in I : account[i] \in S} = InCurrency(dir)
    <3>1. {i \in I : account[i] \in S} = {i \in LinesTo(e, dir) : e[i].account \in AccountsOf(c)}
      OBVIOUS
    <3>. QED
      BY <3>1, LinesOfCurrency
  <2>5. SumFunctionOnSet(On(dir), S) = SumFunctionOnSet(Amount(e), {i \in I : account[i] \in S})
    <3> HIDE DEF I, S, account, On
    <3>. QED
      BY <1>1, <2>2, <2>3, SumGrouped
  <2>. QED
    BY <2>4, <2>5, Zenon
<1>3. SumFunctionOnSet(Amount(e), InCurrency("debit")) =
        SumFunctionOnSet(Amount(e), InCurrency("credit"))
  <2>1. CASE c \in {e[i].currency : i \in DOMAIN e}
    <3>1. BalancedIn(e, c)
      BY <2>1 DEF ValidEntryLines
    <3>. QED
      BY <3>1, Zenon DEF BalancedIn, TotalAmount, Amount
  <2>2. CASE c \notin {e[i].currency : i \in DOMAIN e}
    <3>1. InCurrency("debit") = InCurrency("credit")
      BY <2>2
    <3>. QED
      BY <3>1, Zenon
  <2>. QED
    BY <2>1, <2>2
<1>4. \A a \in S : /\ On("debit")[a] \in Int /\ delta[a] \in Int
                  /\ On("credit")[a] = delta[a] + On("debit")[a]
  BY <1>1, DeltaType
<1>5. SumFunctionOnSet(On("credit"), S) =
        SumFunctionOnSet(delta, S) + SumFunctionOnSet(On("debit"), S)
  <2> HIDE DEF S, delta, On
  <2>. QED
    BY <1>1, <1>4, SumPlus
<1>6. SumFunctionOnSet(delta, S) \in Int /\ SumFunctionOnSet(On("debit"), S) \in Int
  <2> HIDE DEF S, delta, On
  <2>. QED
    BY <1>1, <1>4, SumType
<1>. QED
  <2> HIDE DEF S, delta, On, InCurrency
  <2>1. SumFunctionOnSet(delta, S) = 0
    BY <1>2, <1>3, <1>5, <1>6
  <2>. QED
    BY <2>1 DEF S, delta

---------------------------------------------------------------------------
(* The inductive invariant *)

(* The starting state satisfies the inductive invariant. *)
LEMMA InitIInv == Init => IInv
<1> SUFFICES ASSUME Init PROVE IInv
  OBVIOUS
<1> USE DEF Init
<1>1. TypeOK
  BY InitialAssumption DEF TypeOK, Stages
<1>2. StageInv
  BY DEF StageInv
<1>3. LocksExclusive /\ SeenIsCurrent /\ LockedInOrder
  BY DEF LocksExclusive, SeenIsCurrent, LockedInOrder
<1>4. BalanceIsJournalTotal /\ NoOverdraft
  BY InitialAssumption DEF BalanceIsJournalTotal, NoOverdraft
<1>. QED
  BY <1>1, <1>2, <1>3, <1>4 DEF IInv

(* Validating an entry and starting to lock keeps the invariant. *)
LEMMA BeginIInv ==
  ASSUME IInv, NEW t \in Tx, NEW e \in Entries, Begin(t, e)
  PROVE  IInv'
<1> USE DEF IInv, Begin
<1>1. TypeOK'
  BY DEF TypeOK, Stages
<1>2. held[t] = {}
  BY DEF StageInv
<1>3. StageInv'
  BY <1>2 DEF StageInv, TypeOK, Stages, AllLocked, Accepted, Rows,
              SufficientFunds, NewBalance
<1>4. LocksExclusive' /\ SeenIsCurrent'
  BY DEF LocksExclusive, SeenIsCurrent
<1>5. LockedInOrder'
  BY <1>2 DEF LockedInOrder, Rows, TypeOK
<1>6. BalanceIsJournalTotal' /\ NoOverdraft'
  BY DEF BalanceIsJournalTotal, NoOverdraft
<1>. QED
  BY <1>1, <1>3, <1>4, <1>5, <1>6

(* Locking the next row keeps the invariant: the row was free, and what is  *)
(* read of it is its committed balance.                                     *)
LEMMA LockRowIInv ==
  ASSUME IInv, NEW t \in Tx, NEW a \in Account, LockRow(t, a)
  PROVE  IInv'
<1> USE DEF IInv, LockRow
<1>1. TypeOK'
  BY DEF TypeOK
<1>2. /\ \A u \in Tx : Rows(u)' = Rows(u)
      /\ \A u \in Tx \ {t} : held'[u] = held[u] /\ seen'[u] = seen[u]
      /\ held'[t] = held[t] \cup {a}
      /\ \A b \in Account \ {a} : seen'[t][b] = seen[t][b]
      /\ seen'[t][a] = balance[a]
  BY DEF TypeOK, Rows
<1>3. StageInv'
  BY <1>2 DEF StageInv, AllLocked, Accepted, SufficientFunds, NewBalance, NextRow
<1>4. LocksExclusive'
  BY <1>2 DEF LocksExclusive, RowFree
<1>5. SeenIsCurrent'
  BY <1>2 DEF SeenIsCurrent, TypeOK
<1>6. LockedInOrder'
  <2> SUFFICES ASSUME NEW u \in Tx, NEW b \in held'[u], NEW c \in Rows(u)' \ held'[u]
               PROVE  b < c
    BY DEF LockedInOrder
  <2>1. CASE u = t /\ b = a
    BY <1>2, <2>1 DEF NextRow, Rows, Account
  <2>2. CASE ~(u = t /\ b = a)
    BY <1>2, <2>2 DEF LockedInOrder
  <2>. QED
    BY <2>1, <2>2
<1>7. BalanceIsJournalTotal' /\ NoOverdraft'
  BY DEF BalanceIsJournalTotal, NoOverdraft
<1>. QED
  BY <1>1, <1>3, <1>4, <1>5, <1>6, <1>7

(* Writing the accepted entry inside the transaction keeps the invariant.   *)
LEMMA PostEntryIInv ==
  ASSUME IInv, NEW t \in Tx, PostEntry(t)
  PROVE  IInv'
<1> USE DEF IInv, PostEntry
<1>1. TypeOK'
  BY DEF TypeOK, Stages
<1>2. StageInv'
  BY DEF StageInv, TypeOK, AllLocked, Accepted, SufficientFunds, NewBalance, Rows
<1>3. LocksExclusive' /\ SeenIsCurrent' /\ LockedInOrder'
  BY DEF LocksExclusive, SeenIsCurrent, LockedInOrder, Rows
<1>4. BalanceIsJournalTotal' /\ NoOverdraft'
  BY DEF BalanceIsJournalTotal, NoOverdraft
<1>. QED
  BY <1>1, <1>2, <1>3, <1>4

(* Rolling a transaction back, for whatever reason, keeps the invariant.    *)
LEMMA RollBackIInv ==
  ASSUME IInv, NEW t \in Tx, stage[t] \in {"locking", "posted"}, RollBack(t)
  PROVE  IInv'
<1> USE DEF IInv, RollBack
<1>1. TypeOK'
  BY DEF TypeOK, Stages
<1>2. StageInv'
  BY DEF StageInv, TypeOK, AllLocked, Accepted, SufficientFunds, NewBalance, Rows
<1>3. LocksExclusive' /\ SeenIsCurrent' /\ LockedInOrder'
  BY DEF LocksExclusive, SeenIsCurrent, LockedInOrder, Rows, TypeOK
<1>4. BalanceIsJournalTotal' /\ NoOverdraft'
  BY DEF BalanceIsJournalTotal, NoOverdraft
<1>. QED
  BY <1>1, <1>2, <1>3, <1>4

(* What a transaction ready to commit is about to publish: the balance of   *)
(* each of its rows moves by exactly its entry's delta.                     *)
LEMMA CommitEffect ==
  ASSUME IInv, NEW t \in Tx, Commit(t)
  PROVE  /\ entry[t] \in Entries /\ ValidEntryLines(entry[t]) /\ Accepted(t)
         /\ held[t] = Rows(t)
         /\ \A a \in Rows(t) : /\ a \in Account
                               /\ NewBalance(t, a) \in Int
                               /\ NewBalance(t, a) = balance[a] + Delta(entry[t], a)
<1> USE DEF IInv, Commit
<1>1. entry[t] \in Entries /\ ValidEntryLines(entry[t]) /\ Accepted(t)
  BY DEF StageInv
<1>2. held[t] = Rows(t)
  BY DEF StageInv, AllLocked
<1>3. \A a \in Rows(t) : a \in Account /\ Delta(entry[t], a) \in Int
  BY <1>1, DeltaType DEF Rows
<1>4. \A a \in Rows(t) : seen[t][a] = balance[a] /\ balance[a] \in Int
  BY <1>2, <1>3 DEF SeenIsCurrent, TypeOK
<1>. QED
  BY <1>1, <1>2, <1>3, <1>4 DEF NewBalance

(* Committing keeps the invariant: nobody else holds a row whose balance    *)
(* changes, and the accepted entry leaves the wallets it touches            *)
(* non-negative.                                                            *)
LEMMA CommitIInv ==
  ASSUME IInv, NEW t \in Tx, Commit(t)
  PROVE  IInv'
<1> USE DEF IInv, Commit
<1>1. /\ \A u \in Tx : Rows(u)' = Rows(u)
      /\ \A u \in Tx \ {t} : held'[u] = held[u] /\ stage'[u] = stage[u]
      /\ held'[t] = {} /\ stage'[t] = "committed"
  BY DEF TypeOK, Rows
<1>2. \A a \in Account :
        /\ a \in Rows(t) => /\ balance'[a] = NewBalance(t, a)
                            /\ total'[a] = total[a] + Delta(entry[t], a)
        /\ a \notin Rows(t) => balance'[a] = balance[a] /\ total'[a] = total[a]
  BY DEF Publish
<1>3. TypeOK'
  <2>1. \A a \in Rows(t) : NewBalance(t, a) \in Int /\ Delta(entry[t], a) \in Int
    BY CommitEffect, DeltaType DEF Rows
  <2>. QED
    BY <2>1 DEF TypeOK, Stages, Publish
<1>4. StageInv'
  BY <1>1, CommitEffect
     DEF StageInv, AllLocked, Accepted, SufficientFunds, NewBalance
<1>5. LocksExclusive' /\ LockedInOrder'
  BY <1>1 DEF LocksExclusive, LockedInOrder
<1>6. SeenIsCurrent'
  <2> SUFFICES ASSUME NEW u \in Tx, NEW a \in held'[u]
               PROVE  seen[u][a] = balance'[a]
    BY DEF SeenIsCurrent
  <2>1. u # t /\ a \in held[u] /\ a \in Account
    BY <1>1 DEF TypeOK
  <2>2. a \notin Rows(t)
    BY <2>1, CommitEffect DEF LocksExclusive
  <2>. QED
    BY <1>2, <2>1, <2>2 DEF SeenIsCurrent
<1>7. BalanceIsJournalTotal'
  <2>1. \A a \in Account : balance'[a] = total'[a]
    BY <1>2, CommitEffect DEF BalanceIsJournalTotal
  <2>. QED
    BY <2>1 DEF BalanceIsJournalTotal, Publish
<1>8. NoOverdraft'
  BY <1>2, CommitEffect, AccountAssumption DEF NoOverdraft, Accepted, SufficientFunds
<1>. QED
  BY <1>3, <1>4, <1>5, <1>6, <1>7, <1>8

(* Every step keeps the invariant. *)
LEMMA NextIInv == IInv /\ [Next]_vars => IInv'
<1> SUFFICES ASSUME IInv, [Next]_vars PROVE IInv'
  OBVIOUS
<1>1. ASSUME NEW t \in Tx, RefuseEntry(t) \/ Abort(t)
      PROVE  IInv'
  BY <1>1, RollBackIInv DEF RefuseEntry, Abort
<1>2. CASE UNCHANGED vars
  BY <1>2 DEF vars, IInv, TypeOK, StageInv, LocksExclusive, SeenIsCurrent, LockedInOrder,
              BalanceIsJournalTotal, NoOverdraft, AllLocked, Accepted, SufficientFunds,
              NewBalance, Rows
<1>3. CASE Finished
  BY <1>2, <1>3 DEF Finished
<1>. QED
  BY <1>1, <1>2, <1>3, BeginIInv, LockRowIInv, PostEntryIInv, CommitIInv DEF Next

(* The inductive invariant holds in every reachable state. *)
THEOREM InductiveInvariant == Spec => []IInv
  BY InitIInv, NextIInv, PTL DEF Spec

---------------------------------------------------------------------------
(* What follows from it *)

(* Every variable keeps its type: in particular a commit leaves a balance   *)
(* and a journal total for every account.                                   *)
THEOREM TypeCorrect == Spec => []TypeOK
<1>1. IInv => TypeOK
  BY DEF IInv
<1>. QED
  BY <1>1, InductiveInvariant, PTL

(* No update of a cached balance is lost: each is always the sum of the     *)
(* account's journal lines (postEntryWithManager).                          *)
THEOREM NoLostUpdate == Spec => []BalanceIsJournalTotal
<1>1. IInv => BalanceIsJournalTotal
  BY DEF IInv
<1>. QED
  BY <1>1, InductiveInvariant, PTL

(* No interleaving of postings overdraws a wallet (postEntryWithManager).   *)
THEOREM NeverOverdrawn == Spec => []NoOverdraft
<1>1. IInv => NoOverdraft
  BY DEF IInv
<1>. QED
  BY <1>1, InductiveInvariant, PTL

(* A commit moves the balances of a currency by amounts that cancel out.    *)
LEMMA CommitConserves ==
  ASSUME IInv, CurrencyConserved, NEW t \in Tx, Commit(t), NEW c \in Currency
  PROVE  SumFunctionOnSet(balance', AccountsOf(c)) = 0
<1> DEFINE S == AccountsOf(c)
<1>1. PICK e \in Entries : e = entry[t]
  BY CommitEffect
<1>2. ValidEntryLines(e) /\ RowsExist(e) /\ CurrenciesMatch(e)
  BY <1>1, CommitEffect DEF Accepted
<1>3. PICK delta : delta = [a \in Account |-> Delta(e, a)]
  OBVIOUS
<1>4. PICK after : after = balance'
  OBVIOUS
<1>5. IsFiniteSet(S) /\ S \subseteq Account
  BY AccountsAreFinite
<1>6. \A a \in Account : /\ balance[a] \in Int /\ delta[a] \in Int
                        /\ after[a] = balance[a] + delta[a]
  <2> SUFFICES ASSUME NEW a \in Account
               PROVE  /\ balance[a] \in Int /\ delta[a] \in Int
                      /\ after[a] = balance[a] + delta[a]
    OBVIOUS
  <2>1. balance[a] \in Int
    BY DEF IInv, TypeOK
  <2>2. delta[a] = Delta(e, a) /\ delta[a] \in Int
    BY <1>3, DeltaType
  <2>3. after[a] = IF a \in Rows(t) THEN NewBalance(t, a) ELSE balance[a]
    BY <1>4 DEF Commit, Publish
  <2>4. CASE a \in Rows(t)
    BY <1>1, <2>1, <2>2, <2>3, <2>4, CommitEffect
  <2>5. CASE a \notin Rows(t)
    <3>1. a \notin Touched(e)
      BY <1>1, <2>5 DEF Rows
    <3>. QED
      BY <2>1, <2>2, <2>3, <2>5, <3>1, UntouchedDelta
  <2>. QED
    BY <2>1, <2>2, <2>4, <2>5
<1>7. SumFunctionOnSet(after, S) = SumFunctionOnSet(balance, S) + SumFunctionOnSet(delta, S)
  <2> HIDE DEF S
  <2>. QED
    BY <1>5, <1>6, SumPlus
<1>8. SumFunctionOnSet(delta, S) = 0
  BY <1>2, <1>3, EntryAddsNothing
<1>9. SumFunctionOnSet(balance, S) = 0
  BY DEF CurrencyConserved, AccountsOf
<1>. QED
  BY <1>4, <1>7, <1>8, <1>9

(* Money is neither made nor lost in any currency, whatever is posted at    *)
(* the same time and whatever fails (validateEntryLines,                    *)
(* postEntryWithManager).                                                   *)
THEOREM MoneyConserved == Spec => []CurrencyConserved
<1>1. Init => CurrencyConserved
  BY InitialAssumption DEF Init, CurrencyConserved
<1>2. IInv /\ CurrencyConserved /\ [Next]_vars => CurrencyConserved'
  <2> SUFFICES ASSUME IInv, CurrencyConserved, [Next]_vars
               PROVE  CurrencyConserved'
    OBVIOUS
  <2>1. ASSUME NEW t \in Tx, Commit(t)
        PROVE  CurrencyConserved'
    BY <2>1, CommitConserves DEF CurrencyConserved, AccountsOf
  <2>2. ASSUME balance' = balance
        PROVE  CurrencyConserved'
    BY <2>2 DEF CurrencyConserved
  <2>. QED
    BY <2>1, <2>2
       DEF Next, vars, Finished, Begin, LockRow, PostEntry, RefuseEntry, Abort, RollBack
<1>. QED
  BY <1>1, <1>2, InductiveInvariant, PTL DEF Spec

---------------------------------------------------------------------------
(* Freedom from deadlock *)

(* A non-empty set of accounts has a last one in the lock order. *)
LEMMA LastAccount ==
  ASSUME NEW W \in SUBSET Account, W # {}
  PROVE  \E a \in W : \A b \in W : b <= a
<1> DEFINE D == {NumAccounts - a : a \in W}
<1>1. D \subseteq Nat /\ D # {}
  <2>1. NumAccounts \in Nat
    BY AccountAssumption
  <2>2. ASSUME NEW a \in W PROVE NumAccounts - a \in Nat
    BY <2>1 DEF Account
  <2>. QED
    BY <2>2
<1>2. PICK d \in D : \A x \in D : <<x, d>> \notin OpToRel(<, Nat)
  BY <1>1, NatLessThanWellFounded, WFMin
<1>3. \A x \in D : d <= x
  <2> SUFFICES ASSUME NEW x \in D, ~(d <= x) PROVE FALSE
    OBVIOUS
  <2> HIDE DEF D
  <2>1. <<x, d>> \in Nat \X Nat /\ x < d
    BY <1>1
  <2>2. <<x, d>> \in OpToRel(<, Nat)
    BY <2>1 DEF OpToRel
  <2>. QED
    BY <1>2, <2>2
<1>4. PICK a \in W : d = NumAccounts - a
  OBVIOUS
<1>5. \A b \in W : NumAccounts - b \in D /\ b \in Int
  BY DEF Account
<1>6. \A b \in W : b <= a
  BY <1>3, <1>4, <1>5, AccountAssumption
<1>. QED
  BY <1>6

(* Because rows are locked in account order, whoever holds the last row     *)
(* that a circle of waiting transactions waits for cannot itself be waiting *)
(* in the circle (ORDER BY ab.account_id FOR UPDATE OF ab).                 *)
THEOREM NeverDeadlocked == Spec => []NoDeadlock
<1>1. IInv => NoDeadlock
  <2> SUFFICES ASSUME IInv, NEW S \in SUBSET Tx, S # {},
                      \A t \in S : \E u \in S, a \in Account :
                        WaitsFor(t, a) /\ a \in held[u]
               PROVE  FALSE
    BY DEF NoDeadlock
  <2> DEFINE W == {a \in Account : \E t, u \in S : WaitsFor(t, a) /\ a \in held[u]}
  <2>1. W \in SUBSET Account /\ W # {}
    OBVIOUS
  <2>2. PICK a \in W : \A b \in W : b <= a
    BY <2>1, LastAccount
  <2>3. PICK u \in S : a \in held[u]
    OBVIOUS
  <2>4. PICK b \in W : WaitsFor(u, b)
    BY <2>3
  <2>5. a < b
    BY <2>3, <2>4 DEF IInv, LockedInOrder, WaitsFor, NextRow
  <2>. QED
    BY <2>2, <2>5 DEF Account
<1>. QED
  BY <1>1, InductiveInvariant, PTL

---------------------------------------------------------------------------
(* Refinement *)

(* Row locks, reads and a commit are together one atomic posting: the       *)
(* detailed ledger implements AtomicLedger.                                 *)
THEOREM AtomicPostings == Spec => ImplementsAtomicLedger
<1>1. Init => Atomic!Init
  BY DEF Init, Atomic!Init, Outcome
<1>2. IInv /\ [Next]_vars => [Atomic!Next]_(Atomic!vars)
  <2> SUFFICES ASSUME IInv, [Next]_vars
               PROVE  [Atomic!Next]_(Atomic!vars)
    OBVIOUS
  <2>0. stage \in [Tx -> Stages]
    BY DEF IInv, TypeOK
  <2> USE DEF Outcome, Stages
  <2>1. ASSUME NEW t \in Tx, NEW e \in Entries, Begin(t, e)
        PROVE  Atomic!Refuse(t) \/ UNCHANGED Atomic!vars
    BY <2>0, <2>1 DEF Begin, Atomic!Refuse, Atomic!vars
  <2>2. ASSUME NEW t \in Tx, NEW a \in Account, LockRow(t, a)
        PROVE  UNCHANGED Atomic!vars
    BY <2>2 DEF LockRow, Atomic!vars
  <2>3. ASSUME NEW t \in Tx, PostEntry(t)
        PROVE  UNCHANGED Atomic!vars
    BY <2>0, <2>3 DEF PostEntry, Atomic!vars
  <2>4. ASSUME NEW t \in Tx, RefuseEntry(t) \/ Abort(t)
        PROVE  Atomic!Refuse(t)
    BY <2>0, <2>4 DEF RefuseEntry, Abort, RollBack, Atomic!Refuse
  <2>5. ASSUME NEW t \in Tx, Commit(t)
        PROVE  \E e \in Entries : Atomic!Post(t, e)
    <3>1. PICK e \in Entries : e = entry[t]
      BY <2>5, CommitEffect
    <3>2. /\ ValidEntryLines(e) /\ Accepted(t)
          /\ \A a \in Rows(t) : NewBalance(t, a) = balance[a] + Delta(e, a)
      BY <2>5, <3>1, CommitEffect
    <3>3. balance' = [a \in Account |->
                        IF a \in Touched(e) THEN balance[a] + Delta(e, a)
                                            ELSE balance[a]]
      BY <2>5, <3>1, <3>2 DEF Commit, Publish, Rows
    <3>4. \A a \in Owned \cap Touched(e) : balance'[a] >= 0
      BY <3>1, <3>2, <3>3, AccountAssumption DEF Accepted, SufficientFunds, Rows
    <3>5. [u \in Tx |-> Outcome(u)]' = [[u \in Tx |-> Outcome(u)] EXCEPT ![t] = "posted"]
      BY <2>0, <2>5 DEF Commit
    <3>6. Atomic!Post(t, e)
      BY <2>0, <2>5, <3>1, <3>2, <3>3, <3>4, <3>5
         DEF Atomic!Post, Admissible, Accepted, Commit
    <3>. QED
      BY <3>6
  <2>6. CASE UNCHANGED vars
    BY <2>6 DEF vars, Atomic!vars
  <2>. QED
    BY <2>1, <2>2, <2>3, <2>4, <2>5, <2>6 DEF Next, Finished, Atomic!Next
<1>. QED
  BY <1>1, <1>2, InductiveInvariant, PTL DEF Spec, Atomic!Spec, ImplementsAtomicLedger

---------------------------------------------------------------------------
(* What the services post *)

(* The nearest integer, and of two the even one.                            *)
LEMMA HalfEvenIsNearest ==
  ASSUME NEW n \in Nat, NEW d \in Nat \ {0}
  PROVE  /\ HalfEven(n, d) \in Nat
         /\ 2 * (d * HalfEven(n, d)) <= 2 * n + d
         /\ 2 * n <= 2 * (d * HalfEven(n, d)) + d
         /\ 2 * n = 2 * (d * HalfEven(n, d)) + d \/ 2 * (d * HalfEven(n, d)) = 2 * n + d
              => HalfEven(n, d) % 2 = 0
<1> DEFINE down == n \div d
           r == n % d
<1>1. down \in Nat /\ r \in 0..(d - 1) /\ n = d * down + r
  OBVIOUS
<1>2. HalfEven(n, d) = IF 2 * r < d \/ (2 * r = d /\ down % 2 = 0) THEN down ELSE down + 1
  BY DEF HalfEven
<1>3. d * (down + 1) = d * down + d /\ d * down \in Nat
  BY <1>1
<1>4. down % 2 # 0 => (down + 1) % 2 = 0
  BY <1>1
<1> HIDE DEF down, r
<1>5. CASE 2 * r < d \/ (2 * r = d /\ down % 2 = 0)
  <2>1. HalfEven(n, d) = down
    BY <1>2, <1>5
  <2> DEFINE p == d * down
  <2>2. p \in Nat /\ n = p + r
    BY <1>1, <1>3
  <2> HIDE DEF p
  <2>3. /\ 2 * p <= 2 * n + d /\ 2 * n <= 2 * p + d
        /\ 2 * n = 2 * p + d \/ 2 * p = 2 * n + d => down % 2 = 0
    BY <1>1, <1>5, <2>2
  <2>. QED
    BY <1>1, <2>1, <2>3 DEF p
<1>6. CASE ~(2 * r < d \/ (2 * r = d /\ down % 2 = 0))
  <2>1. HalfEven(n, d) = down + 1
    BY <1>2, <1>6
  <2> DEFINE p == d * down
  <2>2. p \in Nat /\ n = p + r /\ d * (down + 1) = p + d
    BY <1>1, <1>3
  <2> HIDE DEF p
  <2>3. /\ 2 * (p + d) <= 2 * n + d /\ 2 * n <= 2 * (p + d) + d
        /\ 2 * n = 2 * (p + d) + d \/ 2 * (p + d) = 2 * n + d => (down + 1) % 2 = 0
    BY <1>1, <1>4, <1>6, <2>2
  <2>. QED
    BY <1>1, <2>1, <2>2, <2>3
<1>. QED
  BY <1>5, <1>6

(* What is at most half a unit is rounded to none.                          *)
LEMMA HalfEvenIsNothing ==
  ASSUME NEW n \in Nat, NEW d \in Nat \ {0}
  PROVE  HalfEven(n, d) = 0 <=> 2 * n <= d
<1> DEFINE down == n \div d
           r == n % d
<1>1. down \in Nat /\ r \in 0..(d - 1) /\ n = d * down + r
  OBVIOUS
<1>2. HalfEven(n, d) = IF 2 * r < d \/ (2 * r = d /\ down % 2 = 0) THEN down ELSE down + 1
  BY DEF HalfEven
<1> HIDE DEF down, r
<1>3. CASE down = 0
  <2>1. n = r
    BY <1>1, <1>3
  <2>. QED
    BY <1>1, <1>2, <1>3, <2>1
<1>4. CASE down > 0
  <2>1. d * down >= d
    BY <1>1, <1>4
  <2>2. HalfEven(n, d) > 0
    BY <1>1, <1>2, <1>4
  <2>. QED
    BY <1>1, <2>1, <2>2
<1>. QED
  BY <1>1, <1>3, <1>4

(* A sum over a few of four lines.                                          *)
LEMMA SumOfFour ==
  ASSUME NEW f, NEW S \in SUBSET (1..4), \A i \in S : f[i] \in Int
  PROVE  SumFunctionOnSet(f, S) =
           (IF 1 \in S THEN f[1] ELSE 0) + (IF 2 \in S THEN f[2] ELSE 0)
           + (IF 3 \in S THEN f[3] ELSE 0) + (IF 4 \in S THEN f[4] ELSE 0)
<1>1. ASSUME NEW T \in SUBSET S, NEW a
      PROVE  SumFunctionOnSet(f, T) =
               (IF a \in T THEN f[a] ELSE 0) + SumFunctionOnSet(f, T \ {a})
  <2>1. IsFiniteSet(1..4)
    <3>1. \A i, j \in Int : IsFiniteSet(i..j)
      BY FS_Interval
    <3>2. 1 \in Int /\ 4 \in Int
      OBVIOUS
    <3>. QED
      BY <3>1, <3>2, Zenon
  <2>2. IsFiniteSet(T) /\ \A i \in T : f[i] \in Int
    BY <2>1, FS_Subset
  <2>3. CASE a \in T
    <3>1. SumFunctionOnSet(f, T) = f[a] + SumFunctionOnSet(f, T \ {a})
      BY ONLY <2>2, <2>3, SumTakeOut
    <3>. QED
      BY <2>3, <3>1
  <2>4. CASE a \notin T
    <3>1. T \ {a} = T
      BY <2>4
    <3>2. SumFunctionOnSet(f, T) \in Int
      BY ONLY <2>2, SumType
    <3>3. SumFunctionOnSet(f, T) = SumFunctionOnSet(f, T \ {a})
      BY <3>1
    <3>. QED
      BY <2>4, <3>2, <3>3
  <2>. QED
    BY <2>3, <2>4
<1> DEFINE A == S \ {1}
           B == A \ {2}
           C == B \ {3}
           D == C \ {4}
<1>2. A \in SUBSET S /\ B \in SUBSET S /\ C \in SUBSET S /\ D = {}
  <2>1. \A i \in S : i = 1 \/ i = 2 \/ i = 3 \/ i = 4
    OBVIOUS
  <2>. QED
    BY <2>1
<1>3. /\ 2 \in A <=> 2 \in S
      /\ 3 \in B <=> 3 \in S
      /\ 4 \in C <=> 4 \in S
  OBVIOUS
<1>4. SumFunctionOnSet(f, S) = (IF 1 \in S THEN f[1] ELSE 0) + SumFunctionOnSet(f, A)
  BY <1>1
<1>5. SumFunctionOnSet(f, A) = (IF 2 \in S THEN f[2] ELSE 0) + SumFunctionOnSet(f, B)
  BY <1>1, <1>2, <1>3
<1>6. SumFunctionOnSet(f, B) = (IF 3 \in S THEN f[3] ELSE 0) + SumFunctionOnSet(f, C)
  BY <1>1, <1>2, <1>3
<1>7. SumFunctionOnSet(f, C) = (IF 4 \in S THEN f[4] ELSE 0) + SumFunctionOnSet(f, D)
  BY <1>1, <1>2, <1>3
<1>8. SumFunctionOnSet(f, D) = 0
  BY <1>2, SumEmpty
<1> HIDE DEF A, B, C, D
<1>. QED
  BY <1>4, <1>5, <1>6, <1>7, <1>8

(* What a line of at most four puts into a total.                           *)
Debited(lines, c, i) ==
  IF i \in DOMAIN lines /\ lines[i].currency = c /\ lines[i].direction = "debit"
    THEN lines[i].amount ELSE 0
Credited(lines, c, i) ==
  IF i \in DOMAIN lines /\ lines[i].currency = c /\ lines[i].direction = "credit"
    THEN lines[i].amount ELSE 0

(* A currency of an entry of at most four lines balances line by line.      *)
LEMMA BalancedByLines ==
  ASSUME NEW lines, DOMAIN lines \subseteq 1..4, NEW c,
         \A i \in DOMAIN lines : lines[i].amount \in Int
  PROVE  BalancedIn(lines, c) <=>
           Debited(lines, c, 1) + Debited(lines, c, 2) + Debited(lines, c, 3) + Debited(lines, c, 4)
             = Credited(lines, c, 1) + Credited(lines, c, 2) + Credited(lines, c, 3) + Credited(lines, c, 4)
<1> DEFINE f == [i \in DOMAIN lines |-> lines[i].amount]
           S == {i \in DOMAIN lines : lines[i].currency = c /\ lines[i].direction = "debit"}
           T == {i \in DOMAIN lines : lines[i].currency = c /\ lines[i].direction = "credit"}
<1>1. BalancedIn(lines, c) <=> SumFunctionOnSet(f, S) = SumFunctionOnSet(f, T)
  BY DEF BalancedIn, TotalAmount
<1>2. /\ S \in SUBSET (1..4) /\ T \in SUBSET (1..4)
      /\ \A i \in S : f[i] \in Int
      /\ \A i \in T : f[i] \in Int
  OBVIOUS
<1>3. \A i : /\ (IF i \in S THEN f[i] ELSE 0) = Debited(lines, c, i)
             /\ (IF i \in T THEN f[i] ELSE 0) = Credited(lines, c, i)
  BY DEF Debited, Credited
<1> HIDE DEF f, S, T
<1>4. SumFunctionOnSet(f, S)
        = Debited(lines, c, 1) + Debited(lines, c, 2) + Debited(lines, c, 3) + Debited(lines, c, 4)
  BY <1>2, <1>3, SumOfFour
<1>5. SumFunctionOnSet(f, T)
        = Credited(lines, c, 1) + Credited(lines, c, 2) + Credited(lines, c, 3) + Credited(lines, c, 4)
  BY <1>2, <1>3, SumOfFour
<1>. QED
  BY <1>1, <1>4, <1>5

(* Two lines over one amount, out of one account and into another.          *)
LEMMA PairIsAccepted ==
  ASSUME NEW a, NEW b, NEW c, NEW n \in Int
  PROVE  LET lines == <<[account |-> a, direction |-> "debit", amount |-> n, currency |-> c],
                        [account |-> b, direction |-> "credit", amount |-> n, currency |-> c]>>
         IN  ValidEntryLines(lines) <=> n > 0
<1> DEFINE lines == <<[account |-> a, direction |-> "debit", amount |-> n, currency |-> c],
                      [account |-> b, direction |-> "credit", amount |-> n, currency |-> c]>>
<1>1. /\ Len(lines) = 2 /\ DOMAIN lines = 1..2
      /\ lines[1].amount = n /\ lines[1].currency = c /\ lines[1].direction = "debit"
      /\ lines[2].amount = n /\ lines[2].currency = c /\ lines[2].direction = "credit"
  OBVIOUS
<1> HIDE DEF lines
<1>2. \A i \in DOMAIN lines : i = 1 \/ i = 2
  BY <1>1
<1>3. DOMAIN lines \subseteq 1..4 /\ \A i \in DOMAIN lines : lines[i].amount \in Int
  BY <1>1, <1>2
<1>4. BalancedIn(lines, c)
  BY <1>1, <1>3, BalancedByLines DEF Debited, Credited
<1>. QED
  BY <1>1, <1>2, <1>4 DEF ValidEntryLines, lines

(* n of c for m of d, out of account a and into account b, at the treasury. *)
LEMMA SwapIsAccepted ==
  ASSUME NEW source, NEW kind, NEW c, NEW n \in Nat, NEW u, NEW d, NEW m \in Nat
  PROVE  ValidEntryLines(SwapEntry(source, kind, c, n, u, d, m)) <=> n > 0 /\ m > 0
<1> DEFINE lines == SwapEntry(source, kind, c, n, u, d, m)
<1>1. /\ Len(lines) = 4 /\ DOMAIN lines = 1..4
      /\ lines[1].amount = n /\ lines[1].currency = c /\ lines[1].direction = "debit"
      /\ lines[2].amount = n /\ lines[2].currency = c /\ lines[2].direction = "credit"
      /\ lines[3].amount = m /\ lines[3].currency = d /\ lines[3].direction = "debit"
      /\ lines[4].amount = m /\ lines[4].currency = d /\ lines[4].direction = "credit"
  BY DEF SwapEntry, Posting, Pool, Wallet
<1> HIDE DEF lines
<1>2. \A i \in DOMAIN lines : i = 1 \/ i = 2 \/ i = 3 \/ i = 4
  BY <1>1
<1>3. DOMAIN lines \subseteq 1..4 /\ \A i \in DOMAIN lines : lines[i].amount \in Int
  BY <1>1, <1>2
<1>4. ASSUME NEW x PROVE BalancedIn(lines, x)
  BY <1>1, <1>3, BalancedByLines DEF Debited, Credited
<1>5. ValidEntryLines(lines) <=> n > 0 /\ m > 0
  BY <1>1, <1>2, <1>4 DEF ValidEntryLines
<1>. QED
  BY <1>5 DEF lines

(* A transfer balances with a fee and without.                              *)
LEMMA TransferIsAccepted ==
  ASSUME NEW u, NEW v, NEW c, NEW n \in Nat
  PROVE  ValidEntryLines(TransferEntry(u, v, c, n)) <=> n > 0
<1> DEFINE lines == TransferEntry(u, v, c, n)
<1>0. TransferFee \in Nat
  BY ServiceAssumption
<1>1. CASE TransferFee > 0
  <2>1. lines = <<Wallet(u, c, "debit", n + TransferFee), Wallet(v, c, "credit", n)>>
                  \o <<Pool("fees", c, "credit", TransferFee)>>
    BY <1>1 DEF TransferEntry
  <2>2. /\ Len(lines) = 3 /\ DOMAIN lines = 1..3
        /\ lines[1].amount = n + TransferFee /\ lines[1].currency = c /\ lines[1].direction = "debit"
        /\ lines[2].amount = n /\ lines[2].currency = c /\ lines[2].direction = "credit"
        /\ lines[3].amount = TransferFee /\ lines[3].currency = c /\ lines[3].direction = "credit"
    BY <2>1 DEF Posting, Pool, Wallet
  <2> HIDE DEF lines
  <2>3. \A i \in DOMAIN lines : i = 1 \/ i = 2 \/ i = 3
    BY <2>2
  <2>4. DOMAIN lines \subseteq 1..4 /\ \A i \in DOMAIN lines : lines[i].amount \in Int
    BY <1>0, <2>2, <2>3
  <2>5. BalancedIn(lines, c)
    BY <1>0, <2>2, <2>4, BalancedByLines DEF Debited, Credited
  <2>6. ValidEntryLines(lines) <=> n > 0
    BY <1>0, <1>1, <2>2, <2>3, <2>5 DEF ValidEntryLines
  <2>. QED
    BY <2>6 DEF lines
<1>2. CASE TransferFee = 0
  <2>1. lines = <<Wallet(u, c, "debit", n), Wallet(v, c, "credit", n)>>
    BY <1>2 DEF TransferEntry
  <2>. QED
    BY <2>1, PairIsAccepted DEF Posting, Wallet
<1>. QED
  BY <1>0, <1>1, <1>2

(* What the ledger asks of entries (ledger-entry-validator.ts) the services *)
(* keep: whatever the amounts, the fee and the accounts, each entry they    *)
(* build balances in every currency, and it is refused exactly if an amount *)
(* in it is zero.  Of swaps that can be the amount bought, which is rounded.*)
THEOREM ServiceEntriesBalance ==
  ASSUME NEW u, NEW v, NEW c, NEW d, NEW kind, NEW source, NEW n \in Nat, NEW m \in Nat
  PROVE  /\ ValidEntryLines(DepositEntry(u, c, n)) <=> n > 0
         /\ ValidEntryLines(TransferEntry(u, v, c, n)) <=> n > 0
         /\ ValidEntryLines(HoldEntry(u, c, kind, n)) <=> n > 0
         /\ ValidEntryLines(ReleaseEntry(u, c, kind, n)) <=> n > 0
         /\ ValidEntryLines(SettleEntry(c, n)) <=> n > 0
         /\ ValidEntryLines(SwapEntry(source, kind, c, n, u, d, m)) <=> n > 0 /\ m > 0
<1>1. ValidEntryLines(DepositEntry(u, c, n)) <=> n > 0
  BY PairIsAccepted DEF DepositEntry, Posting, Pool, Wallet
<1>2. ValidEntryLines(HoldEntry(u, c, kind, n)) <=> n > 0
  BY PairIsAccepted DEF HoldEntry, Posting, Pool, Wallet
<1>3. ValidEntryLines(ReleaseEntry(u, c, kind, n)) <=> n > 0
  BY PairIsAccepted DEF ReleaseEntry, Posting, Pool, Wallet
<1>4. ValidEntryLines(SettleEntry(c, n)) <=> n > 0
  BY PairIsAccepted DEF SettleEntry, Posting, Pool, Wallet
<1>. QED
  BY <1>1, <1>2, <1>3, <1>4, TransferIsAccepted, SwapIsAccepted

(* A conversion (fx.service.ts, computeConversion) gives the customer what  *)
(* the rate p/q less the spread says to within half a unit, hence never     *)
(* more than half a unit above the rate, and the ledger refuses it exactly  *)
(* if half a unit or less is left.  The environment bounds the spread only  *)
(* from below; here it does not exceed the whole.                           *)
THEOREM ConversionsAreFair ==
  ASSUME SpreadBps <= 10000, NEW u, NEW c, NEW d,
         NEW n \in Nat \ {0}, NEW p \in Nat \ {0}, NEW q \in Nat \ {0}
  PROVE  LET m == ConvertedAmount(n, p, q)
             fair == n * p * (10000 - SpreadBps)
         IN  /\ m \in Nat
             /\ 2 * (q * 10000 * m) <= 2 * fair + q * 10000
             /\ 2 * fair <= 2 * (q * 10000 * m) + q * 10000
             /\ 2 * (q * m) <= 2 * (n * p) + q
             /\ ValidEntryLines(ConvertEntry(u, c, d, n, p, q)) <=> q * 10000 < 2 * fair
<1> DEFINE m == ConvertedAmount(n, p, q)
           s == 10000 - SpreadBps
           fair == n * p * s
           unit == q * 10000
<1>1. SpreadBps \in Nat /\ s \in Nat /\ s <= 10000
  BY ServiceAssumption
<1>2. n * p \in Nat
  OBVIOUS
<1>3. fair \in Nat /\ unit \in Nat \ {0} /\ fair <= 10000 * (n * p)
  <2> DEFINE k == n * p
  <2>1. k \in Nat
    BY <1>2
  <2> HIDE DEF k, s
  <2>2. k * s \in Nat /\ k * s <= k * 10000
    BY <1>1, <2>1
  <2>. QED
    BY <2>1, <2>2 DEF k
<1>4. m = HalfEven(fair, unit)
  BY DEF ConvertedAmount
<1> HIDE DEF m, s, fair, unit
<1>5. m \in Nat /\ 2 * (unit * m) <= 2 * fair + unit /\ 2 * fair <= 2 * (unit * m) + unit
  BY <1>3, <1>4, HalfEvenIsNearest
<1>6. 2 * (q * m) <= 2 * (n * p) + q
  <2> DEFINE k == q * m
  <2>1. k \in Nat /\ unit * m = 10000 * k
    BY <1>5 DEF unit
  <2>2. 2 * (10000 * k) <= 2 * (10000 * (n * p)) + q * 10000
    BY <1>2, <1>3, <1>5, <2>1 DEF unit
  <2> HIDE DEF k
  <2>3. 2 * k <= 2 * (n * p) + q
    BY <1>2, <2>1, <2>2
  <2>. QED
    BY <2>3 DEF k
<1>7. ValidEntryLines(ConvertEntry(u, c, d, n, p, q)) <=> m > 0
  BY <1>5, SwapIsAccepted DEF ConvertEntry, m
<1>8. m = 0 <=> 2 * fair <= unit
  BY <1>3, <1>4, HalfEvenIsNothing
<1>9. ValidEntryLines(ConvertEntry(u, c, d, n, p, q)) <=> unit < 2 * fair
  BY <1>3, <1>5, <1>7, <1>8
<1>. QED
  BY <1>5, <1>6, <1>9 DEF m, s, fair, unit
=============================================================================
