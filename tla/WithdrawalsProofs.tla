------------------------- MODULE WithdrawalsProofs -------------------------
(* Theorems about Withdrawals, for any users, requests, amounts and any     *)
(* number of concurrent decisions.                                          *)
EXTENDS Withdrawals, SumTheorems, TLAPS

---------------------------------------------------------------------------
(* The inductive invariant *)

(* Whoever is deciding a request holds the lock of its row, and a locked    *)
(* row is of a pending request: its status cannot have changed since        *)
(* lockPendingRequest looked at it.                                         *)
LockInv ==
  /\ \A d \in Decision :
       decisions[d].pc = "deciding" => lockedBy[decisions[d].request] = d
  /\ \A r \in Request : lockedBy[r] # None => requests[r].status = "pending"

IInv == TypeOK /\ LockInv /\ DecidedExactlyOnce

(* What a row may hold as its amount is a number. *)
LEMMA AmountIsNat == Amounts \cup {0} \subseteq Nat
<1>1. Amounts \subseteq Nat
  BY AmountAssumption, Zenon
<1>2. {0} \subseteq Nat
  OBVIOUS
<1>. QED
  BY <1>1, <1>2, Zenon

(* Whoever is credited, and be it nobody, wallets hold numbers. *)
LEMMA CreditType ==
  ASSUME NEW W \in [User -> Nat], NEW u, NEW n \in Nat
  PROVE  [W EXCEPT ![u] = W[u] + n] \in [User -> Nat]
<1>1. CASE u \in User
  BY <1>1
<1>2. CASE u \notin User
  BY <1>2
<1>. QED
  BY <1>1, <1>2

(* The starting state satisfies the inductive invariant. *)
LEMMA InitIInv == Init => IInv
<1> SUFFICES ASSUME Init PROVE IInv
  OBVIOUS
<1>1. TypeOK
  BY AmountAssumption DEF Init, TypeOK, Statuses, Verdicts
<1>2. LockInv
  BY DEF Init, LockInv
<1>3. DecidedExactlyOnce
  BY DEF Init, DecidedExactlyOnce, Verdicts
<1>. QED
  BY <1>1, <1>2, <1>3 DEF IInv

(* A new request is pending and nobody has decided it. *)
LEMMA RequestIInv ==
  ASSUME IInv, NEW u \in User, NEW r \in Request, NEW n \in Amounts,
         RequestWithdrawal(u, r, n)
  PROVE  IInv'
<1> USE DEF IInv, RequestWithdrawal
<1>1. TypeOK'
  BY AmountAssumption DEF TypeOK, Statuses
<1>2. LockInv'
  BY DEF LockInv, TypeOK
<1>3. DecidedExactlyOnce'
  BY DEF DecidedExactlyOnce, TypeOK, Verdicts
<1>. QED
  BY <1>1, <1>2, <1>3

(* A call begins: no row is locked yet. *)
LEMMA BeginIInv ==
  ASSUME IInv, NEW d \in Decision, Begin(d)
  PROVE  IInv'
<1> USE DEF IInv, Begin, GoTo
<1>1. TypeOK'
  BY DEF TypeOK
<1>2. LockInv'
  BY DEF LockInv, TypeOK
<1>3. DecidedExactlyOnce'
  BY DEF DecidedExactlyOnce
<1>. QED
  BY <1>1, <1>2, <1>3

(* The lock is taken on a free row whose request is pending. *)
LEMMA LockIInv ==
  ASSUME IInv, NEW d \in Decision, LockPendingRequest(d)
  PROVE  IInv'
<1> DEFINE r == decisions[d].request
<1>1. TypeOK /\ LockInv /\ DecidedExactlyOnce
  BY DEF IInv
<1>2. r \in Request /\ requests[r].status \in Statuses
  BY <1>1 DEF TypeOK
<1>3. /\ lockedBy[r] = None
      /\ UNCHANGED <<requests, wallet, pending, treasury, postings, outbox>>
      /\ \/ /\ requests[r].status # "pending" /\ UNCHANGED lockedBy
            /\ GoTo(d, "notFound") \/ GoTo(d, "conflict")
         \/ /\ requests[r].status = "pending"
            /\ GoTo(d, "deciding") /\ lockedBy' = [lockedBy EXCEPT ![r] = d]
  BY <1>2 DEF LockPendingRequest, RowFree, Statuses, Verdicts
<1>4. TypeOK'
  <2>1. \E label \in {"deciding"} \cup Ended : decisions' = [decisions EXCEPT ![d].pc = label]
    BY <1>3 DEF GoTo, Ended
  <2>2. decisions' \in [Decision -> [pc : {"idle", "locking", "deciding"} \cup Ended,
                                    verdict : Verdicts, request : Request]]
    BY <1>1, <2>1 DEF TypeOK
  <2>3. lockedBy' \in [Request -> Decision \cup {None}]
    BY <1>1, <1>2, <1>3 DEF TypeOK
  <2>. QED
    BY <1>1, <1>3, <2>2, <2>3 DEF TypeOK
<1>5. LockInv'
  <2>1. CASE requests[r].status # "pending"
    BY <1>1, <1>3, <2>1 DEF LockInv, TypeOK, GoTo
  <2>2. CASE requests[r].status = "pending"
    <3>1. /\ decisions' = [decisions EXCEPT ![d].pc = "deciding"]
          /\ lockedBy' = [lockedBy EXCEPT ![r] = d]
          /\ requests' = requests
      BY <1>3, <2>2 DEF GoTo
    <3>2. ASSUME NEW c \in Decision, decisions'[c].pc = "deciding"
          PROVE  lockedBy'[decisions'[c].request] = c
      <4>1. CASE c = d
        BY <1>1, <1>2, <3>1, <4>1 DEF TypeOK
      <4>2. CASE c # d
        BY <1>1, <1>2, <1>3, <3>1, <3>2, <4>2, AmountAssumption DEF TypeOK, LockInv
      <4>. QED
        BY <4>1, <4>2
    <3>. QED
      BY <1>1, <1>2, <2>2, <3>1, <3>2 DEF LockInv, TypeOK
  <2>. QED
    BY <2>1, <2>2
<1>6. DecidedExactlyOnce'
  BY <1>1, <1>3 DEF DecidedExactlyOnce
<1>. QED
  BY <1>4, <1>5, <1>6 DEF IInv

(* The decision is committed: the request was pending, hence undecided, and *)
(* no other call has its row.                                               *)
LEMMA DecideIInv ==
  ASSUME IInv, NEW d \in Decision, Decide(d)
  PROVE  IInv'
<1> DEFINE r == decisions[d].request
           v == decisions[d].verdict
<1>1. TypeOK /\ LockInv /\ DecidedExactlyOnce
  BY DEF IInv
<1>2. r \in Request /\ v \in Verdicts
  BY <1>1 DEF TypeOK
<1>3. lockedBy[r] = d /\ d # None /\ requests[r].status = "pending"
  BY <1>1, <1>2, AmountAssumption DEF LockInv, Decide
<1>4. /\ decisions' = [decisions EXCEPT ![d].pc = "done"]
      /\ lockedBy' = [lockedBy EXCEPT ![r] = None]
      /\ requests' = [requests EXCEPT ![r].status = v]
      /\ postings' = [postings EXCEPT ![r] = @ + 1]
      /\ outbox' = [outbox EXCEPT ![r][v] = @ + 1]
  BY DEF Decide, GoTo, Unlock
<1>5. TypeOK'
  <2>1. requests[r].amount \in Nat
    <3>1. requests[r] \in [status : Statuses, user : User \cup {None}, amount : Amounts \cup {0}]
      BY <1>1, <1>2 DEF TypeOK
    <3>. QED
      BY <3>1, AmountIsNat
  <2>2. Settle(r) \/ Release(r)
    BY DEF Decide
  <2>3. wallet' \in [User -> Nat] /\ pending' \in Int /\ treasury' \in Nat
    <3>1. CASE Settle(r)
      BY <1>1, <2>1, <3>1 DEF Settle, TypeOK
    <3>2. CASE Release(r)
      <4>1. wallet \in [User -> Nat] /\ pending \in Int /\ treasury \in Nat
        BY <1>1 DEF TypeOK
      <4>2. wallet' = [wallet EXCEPT ![requests[r].user] =
                         wallet[requests[r].user] + requests[r].amount]
        BY <3>2 DEF Release
      <4>3. wallet' \in [User -> Nat]
        BY <2>1, <4>1, <4>2, CreditType
      <4>4. pending' = pending - requests[r].amount /\ treasury' = treasury
        BY <3>2 DEF Release
      <4>. QED
        BY <2>1, <4>1, <4>3, <4>4
    <3>. QED
      BY <2>2, <3>1, <3>2
  <2>4. requests' \in [Request -> [status : Statuses, user : User \cup {None},
                                   amount : Amounts \cup {0}]]
    BY <1>1, <1>2, <1>4 DEF TypeOK, Statuses
  <2>5. /\ decisions' \in [Decision -> [pc : {"idle", "locking", "deciding"} \cup Ended,
                                       verdict : Verdicts, request : Request]]
        /\ lockedBy' \in [Request -> Decision \cup {None}]
    BY <1>1, <1>4 DEF TypeOK, Ended
  <2>6. postings' \in [Request -> Nat] /\ outbox' \in [Request -> [Verdicts -> Nat]]
    BY <1>1, <1>2, <1>4 DEF TypeOK
  <2>. QED
    BY <2>3, <2>4, <2>5, <2>6 DEF TypeOK
<1>6. LockInv'
  BY <1>1, <1>2, <1>3, <1>4 DEF LockInv, TypeOK
<1>7. DecidedExactlyOnce'
  BY <1>1, <1>2, <1>3, <1>4 DEF DecidedExactlyOnce, TypeOK, Verdicts
<1>. QED
  BY <1>5, <1>6, <1>7 DEF IInv

(* A call that fails releases the lock it holds and leaves no trace. *)
LEMMA FailIInv ==
  ASSUME IInv, NEW d \in Decision, Fail(d)
  PROVE  IInv'
<1> USE DEF IInv, Fail, GoTo, Unlock
<1>1. decisions[d].request \in Request
  BY DEF TypeOK
<1>2. TypeOK'
  BY <1>1 DEF TypeOK, Ended
<1>3. LockInv'
  BY <1>1 DEF LockInv, TypeOK
<1>4. DecidedExactlyOnce'
  BY DEF DecidedExactlyOnce
<1>. QED
  BY <1>2, <1>3, <1>4

(* Every step keeps the invariant. *)
LEMMA NextIInv == IInv /\ [Next]_vars => IInv'
<1> SUFFICES ASSUME IInv, [Next]_vars PROVE IInv'
  OBVIOUS
<1>1. ASSUME NEW u \in User, NEW r \in Request, NEW n \in Amounts,
             RequestWithdrawal(u, r, n)
      PROVE  IInv'
  BY <1>1, RequestIInv
<1>2. ASSUME NEW d \in Decision, Begin(d) \/ LockPendingRequest(d) \/ Decide(d) \/ Fail(d)
      PROVE  IInv'
  BY <1>2, BeginIInv, LockIInv, DecideIInv, FailIInv
<1>3. CASE UNCHANGED vars
  BY <1>3 DEF IInv, vars, TypeOK, LockInv, DecidedExactlyOnce
<1>. QED
  BY <1>1, <1>2, <1>3 DEF Next, Finished

---------------------------------------------------------------------------
(* The theorems *)

(* The invariant holds in every reachable state. *)
THEOREM InductiveInvariant == Spec => []IInv
<1>. QED
  BY InitIInv, NextIInv, PTL DEF Spec

(* Wallets never get negative and every call is about one request, whatever *)
(* the calls of approve and reject do to each other.                        *)
THEOREM TypeCorrect == Spec => []TypeOK
<1>1. IInv => TypeOK
  BY DEF IInv
<1>. QED
  BY <1>1, InductiveInvariant, PTL

(* However many admins approve and reject a request at once, it is decided  *)
(* by one entry, announced by one event, and both say what its row says     *)
(* (lockPendingRequest in withdrawals.service.ts).                          *)
THEOREM DecidedOnce == Spec => []DecidedExactlyOnce
<1>1. IInv => DecidedExactlyOnce
  BY DEF IInv
<1>. QED
  BY <1>1, InductiveInvariant, PTL

---------------------------------------------------------------------------
(* Where the money is *)

(* The rows of the table: those of requests that were made. *)
Asked == {r \in Request : requests[r].status # "none"}

(* The undecided and approved requests of u. *)
Taken(u) == {r \in WithStatus("pending") \cup WithStatus("approved") : requests[r].user = u}

Amount == [r \in Request |-> requests[r].amount]

(* Sums over requests range over the finitely many made so far. *)
MoneyInv == IsFiniteSet(Asked) /\ MoneyFollowsDecision

(* Every set of requests that a sum ranges over is finite, its amounts and  *)
(* its sum are numbers.                                                     *)
LEMMA AskedSums ==
  ASSUME IInv, IsFiniteSet(Asked)
  PROVE  /\ \A r \in Request : Amount[r] \in Nat
         /\ \A S \in SUBSET Asked : IsFiniteSet(S) /\ SumFunctionOnSet(Amount, S) \in Int
         /\ WithStatus("pending") \in SUBSET Asked
         /\ WithStatus("approved") \in SUBSET Asked
         /\ \A u : Taken(u) \in SUBSET Asked
<1>1. \A r \in Request : Amount[r] \in Nat
  <2> SUFFICES ASSUME NEW r \in Request PROVE Amount[r] \in Nat
    OBVIOUS
  <2>1. requests[r].amount \in Amounts \cup {0}
    BY DEF IInv, TypeOK
  <2>. QED
    BY <2>1, AmountIsNat DEF Amount
<1>2. \A S \in SUBSET Asked : IsFiniteSet(S) /\ \A r \in S : Amount[r] \in Int
  BY <1>1, FS_Subset DEF Asked
<1>3. \A S \in SUBSET Asked : SumFunctionOnSet(Amount, S) \in Int
  BY <1>2, SumType
<1>4. /\ WithStatus("pending") \in SUBSET Asked
      /\ WithStatus("approved") \in SUBSET Asked
      /\ \A u : Taken(u) \in SUBSET Asked
  BY DEF WithStatus, Asked, Taken
<1>. QED
  BY <1>1, <1>2, <1>3, <1>4

(* Nothing was asked for yet. *)
LEMMA InitMoney == Init => MoneyInv
<1> SUFFICES ASSUME Init PROVE MoneyInv
  OBVIOUS
<1>1. \A r \in Request : requests[r].status = "none"
  BY DEF Init
<1>2. /\ Asked = {} /\ WithStatus("pending") = {} /\ WithStatus("approved") = {}
      /\ \A u \in User : Taken(u) = {}
  BY <1>1 DEF Asked, WithStatus, Taken
<1>3. AmountOf({}) = 0
  BY SumEmpty DEF AmountOf
<1>4. /\ AmountOf(WithStatus("pending")) = 0 /\ AmountOf(WithStatus("approved")) = 0
      /\ \A u \in User : AmountOf(Taken(u)) = 0
  <2>1. /\ AmountOf(WithStatus("pending")) = AmountOf({})
        /\ AmountOf(WithStatus("approved")) = AmountOf({})
    BY <1>2, Zenon
  <2>2. ASSUME NEW u \in User PROVE AmountOf(Taken(u)) = AmountOf({})
    BY <1>2, Zenon
  <2>. QED
    BY <1>3, <2>1, <2>2
<1>5. \A u \in User : wallet[u] \in Nat /\ wallet[u] = InitialWallet[u]
  BY AmountAssumption DEF Init
<1>6. pending = 0 /\ treasury = 0
  BY DEF Init
<1>7. MoneyFollowsDecision
  BY <1>4, <1>5, <1>6 DEF MoneyFollowsDecision, Taken
<1>8. IsFiniteSet(Asked)
  BY <1>2, FS_EmptySet
<1>. QED
  BY <1>7, <1>8 DEF MoneyInv

(* A request takes its amount from the wallet of who asks into the pooled   *)
(* account.                                                                 *)
LEMMA RequestMoney ==
  ASSUME IInv, MoneyInv, NEW u \in User, NEW r \in Request, NEW n \in Amounts,
         RequestWithdrawal(u, r, n)
  PROVE  MoneyInv'
<1>1. PICK f, g, P, A, P2, A2 :
        /\ f = Amount /\ P = WithStatus("pending") /\ A = WithStatus("approved")
        /\ g = Amount' /\ P2 = WithStatus("pending")' /\ A2 = WithStatus("approved")'
  OBVIOUS
<1>2. /\ \A x \in Request : f[x] \in Nat
      /\ \A S \in SUBSET Asked : IsFiniteSet(S) /\ SumFunctionOnSet(f, S) \in Int
      /\ P \in SUBSET Asked /\ A \in SUBSET Asked /\ \A w : Taken(w) \in SUBSET Asked
  BY <1>1, AskedSums DEF MoneyInv
<1>3. /\ r \notin Asked /\ n \in Nat
      /\ requests' = [requests EXCEPT ![r] = [status |-> "pending", user |-> u, amount |-> n]]
      /\ requests'[r] = [status |-> "pending", user |-> u, amount |-> n]
      /\ \A x \in Request \ {r} : requests'[x] = requests[x]
  BY AmountAssumption DEF RequestWithdrawal, Asked, IInv, TypeOK
<1>4. g[r] = n /\ \A x \in Request \ {r} : g[x] = f[x]
  BY <1>1, <1>3 DEF Amount
<1>5. Asked \subseteq Request \ {r}
  BY <1>3 DEF Asked
<1>6. Asked' = Asked \cup {r} /\ P2 = P \cup {r} /\ A2 = A
  BY <1>1, <1>3 DEF Asked, WithStatus
<1>7. ASSUME NEW S \in SUBSET Asked
      PROVE  /\ SumFunctionOnSet(g, S) = SumFunctionOnSet(f, S)
             /\ SumFunctionOnSet(g, S \cup {r}) = SumFunctionOnSet(f, S) + n
  <2>1. /\ IsFiniteSet(S) /\ r \notin S /\ g[r] = n /\ n \in Int
        /\ \A x \in S : f[x] \in Int /\ g[x] = f[x]
    BY <1>2, <1>3, <1>4, <1>5
  <2>2. SumFunctionOnSet(g, S) = SumFunctionOnSet(f, S)
    BY <2>1, SumSame
  <2>3. SumFunctionOnSet(g, S \cup {r}) = SumFunctionOnSet(f, S) + g[r]
    BY <2>1, SumInsert
  <2>. QED
    BY <2>1, <2>2, <2>3
<1>8. /\ pending = SumFunctionOnSet(f, P) /\ treasury = SumFunctionOnSet(f, A)
      /\ \A w \in User : wallet[w] + SumFunctionOnSet(f, Taken(w)) = InitialWallet[w]
  BY <1>1 DEF MoneyInv, MoneyFollowsDecision, AmountOf, Amount, Taken
<1>9. pending' = SumFunctionOnSet(g, P2) /\ treasury' = SumFunctionOnSet(g, A2)
  BY <1>2, <1>6, <1>7, <1>8 DEF RequestWithdrawal
<1>10. ASSUME NEW w \in User
       PROVE  wallet'[w] + SumFunctionOnSet(g, Taken(w)') = InitialWallet[w]
  <2>1. wallet[w] \in Nat /\ SumFunctionOnSet(f, Taken(w)) \in Int
    BY <1>2 DEF IInv, TypeOK
  <2>2. CASE w = u
    <3>1. Taken(w)' = Taken(w) \cup {r}
      BY <1>1, <1>3, <1>5, <1>6, <2>2 DEF Taken, WithStatus
    <3>2. wallet'[w] = wallet[w] - n
      BY <2>2 DEF RequestWithdrawal, IInv, TypeOK
    <3>3. SumFunctionOnSet(g, Taken(w)') = SumFunctionOnSet(g, Taken(w) \cup {r})
      BY <3>1, Zenon
    <3>4. SumFunctionOnSet(g, Taken(w)') = SumFunctionOnSet(f, Taken(w)) + n
      BY <1>2, <1>7, <3>3
    <3>. QED
      BY <1>3, <1>8, <2>1, <3>2, <3>4
  <2>3. CASE w # u
    <3>1. Taken(w)' = Taken(w)
      <4>1. /\ Taken(w)' = {x \in P2 \cup A2 : requests'[x].user = w}
            /\ Taken(w) = {x \in P \cup A : requests[x].user = w}
        BY <1>1 DEF Taken
      <4>2. P \subseteq Request \ {r} /\ A \subseteq Request \ {r}
        BY <1>2, <1>5
      <4>3. \A x \in P \cup A : requests'[x].user = requests[x].user
        BY <1>3, <4>2
      <4>4. requests'[r].user # w
        BY <1>3, <2>3
      <4>. QED
        BY <1>6, <4>1, <4>3, <4>4
    <3>2. wallet'[w] = wallet[w]
      BY <2>3 DEF RequestWithdrawal, IInv, TypeOK
    <3>3. SumFunctionOnSet(g, Taken(w)') = SumFunctionOnSet(g, Taken(w))
      BY <3>1, Zenon
    <3>. QED
      BY <1>2, <1>7, <1>8, <3>2, <3>3
  <2>. QED
    BY <2>2, <2>3
<1>11. IsFiniteSet(Asked')
  BY <1>6, FS_AddElement DEF MoneyInv
<1>12. MoneyFollowsDecision'
  BY <1>1, <1>9, <1>10 DEF MoneyFollowsDecision, AmountOf, Amount, Taken
<1>. QED
  BY <1>11, <1>12 DEF MoneyInv

(* A decision moves the amount of a pending request, once, and out of the   *)
(* set of pending requests: approved to the treasury, rejected back to the  *)
(* wallet it came from.                                                     *)
LEMMA DecideMoney ==
  ASSUME IInv, MoneyInv, NEW d \in Decision, Decide(d)
  PROVE  MoneyInv'
<1> DEFINE r == decisions[d].request
           v == decisions[d].verdict
<1>1. PICK f, P, A, P2, A2 :
        /\ f = Amount /\ P = WithStatus("pending") /\ A = WithStatus("approved")
        /\ P2 = WithStatus("pending")' /\ A2 = WithStatus("approved")'
  OBVIOUS
<1>2. /\ \A x \in Request : f[x] \in Nat
      /\ \A S \in SUBSET Asked : IsFiniteSet(S) /\ SumFunctionOnSet(f, S) \in Int
      /\ P \in SUBSET Asked /\ A \in SUBSET Asked /\ \A w : Taken(w) \in SUBSET Asked
  BY <1>1, AskedSums DEF MoneyInv
<1>3. /\ r \in Request /\ v \in Verdicts /\ requests[r].status = "pending"
      /\ f[r] = requests[r].amount
  BY <1>1, AmountAssumption DEF IInv, TypeOK, LockInv, Decide, Amount
<1>4. /\ \A x \in Request : /\ requests'[x].amount = requests[x].amount
                            /\ requests'[x].user = requests[x].user
      /\ \A x \in Request \ {r} : requests'[x].status = requests[x].status
      /\ requests'[r].status = v
  BY <1>3 DEF Decide, IInv, TypeOK
<1>5. Amount' = f
  BY <1>1, <1>4 DEF Amount
<1>6. r \in P /\ r \notin A /\ P2 = P \ {r}
  BY <1>1, <1>3, <1>4 DEF WithStatus, Verdicts
<1>7. Asked' = Asked
  BY <1>3, <1>4 DEF Asked, Verdicts
<1>8. /\ pending = SumFunctionOnSet(f, P) /\ treasury = SumFunctionOnSet(f, A)
      /\ \A w \in User : wallet[w] + SumFunctionOnSet(f, Taken(w)) = InitialWallet[w]
  BY <1>1 DEF MoneyInv, MoneyFollowsDecision, AmountOf, Amount, Taken
<1>9. ASSUME NEW S \in SUBSET Asked, NEW x \in S
      PROVE  SumFunctionOnSet(f, S \ {x}) = SumFunctionOnSet(f, S) - f[x]
  <2>1. IsFiniteSet(S) /\ \A y \in S : f[y] \in Int /\ f[y] = f[y]
    BY <1>2 DEF Asked
  <2>. QED
    BY <2>1, SumRemove
<1>10. SumFunctionOnSet(f, P2) = SumFunctionOnSet(f, P) - f[r]
  BY <1>2, <1>6, <1>9
<1>11. /\ \A w : Taken(w) = {x \in P \cup A : requests[x].user = w}
       /\ \A w : Taken(w)' = {x \in P2 \cup A2 : requests'[x].user = w}
       /\ P \subseteq Request /\ A \subseteq Request
  BY <1>1 DEF Taken, WithStatus
<1>12. /\ pending' = SumFunctionOnSet(f, P2) /\ treasury' = SumFunctionOnSet(f, A2)
       /\ \A w \in User : wallet'[w] + SumFunctionOnSet(f, Taken(w)') = InitialWallet[w]
  <2>1. CASE v = "approved"
    <3>1. /\ pending' = pending - f[r] /\ treasury' = treasury + f[r]
          /\ wallet' = wallet
      BY <1>3, <2>1 DEF Decide, Settle
    <3>2. A2 = A \cup {r}
      BY <1>1, <1>3, <1>4, <2>1 DEF WithStatus
    <3>3. SumFunctionOnSet(f, A \cup {r}) = SumFunctionOnSet(f, A) + f[r]
      <4>1. /\ IsFiniteSet(A) /\ r \notin A /\ f[r] \in Int
            /\ \A x \in A : f[x] \in Int /\ f[x] = f[x]
        BY <1>2, <1>3, <1>6, <1>11
      <4>. QED
        BY <4>1, SumInsert
    <3>4. ASSUME NEW w \in User
          PROVE  wallet'[w] + SumFunctionOnSet(f, Taken(w)') = InitialWallet[w]
      <4>1. Taken(w)' = Taken(w)
        BY <1>4, <1>6, <1>11, <3>2
      <4>2. SumFunctionOnSet(f, Taken(w)') = SumFunctionOnSet(f, Taken(w))
        BY <4>1, Zenon
      <4>. QED
        BY <1>8, <3>1, <4>2
    <3>. QED
      BY <1>8, <1>10, <3>1, <3>2, <3>3, <3>4
  <2>2. CASE v # "approved"
    <3>1. /\ pending' = pending - f[r] /\ treasury' = treasury
          /\ wallet' = [wallet EXCEPT ![requests[r].user] = @ + f[r]]
      BY <1>3, <2>2 DEF Decide, Release
    <3>2. A2 = A
      BY <1>1, <1>3, <1>4, <1>6, <2>2 DEF WithStatus
    <3>3. ASSUME NEW w \in User
          PROVE  wallet'[w] + SumFunctionOnSet(f, Taken(w)') = InitialWallet[w]
      <4>1. wallet[w] \in Nat /\ SumFunctionOnSet(f, Taken(w)) \in Int /\ f[r] \in Nat
        BY <1>2, <1>3 DEF IInv, TypeOK
      <4>2. CASE requests[r].user = w
        <5>1. Taken(w)' = Taken(w) \ {r} /\ r \in Taken(w)
          BY <1>4, <1>6, <1>11, <3>2, <4>2
        <5>2. SumFunctionOnSet(f, Taken(w)') = SumFunctionOnSet(f, Taken(w) \ {r})
          BY <5>1, Zenon
        <5>3. SumFunctionOnSet(f, Taken(w) \ {r}) = SumFunctionOnSet(f, Taken(w)) - f[r]
          BY <1>2, <1>9, <5>1
        <5>4. wallet'[w] = wallet[w] + f[r]
          BY <3>1, <4>2 DEF IInv, TypeOK
        <5>. QED
          BY <1>8, <4>1, <5>2, <5>3, <5>4
      <4>3. CASE requests[r].user # w
        <5>1. Taken(w)' = Taken(w)
          BY <1>4, <1>6, <1>11, <3>2, <4>3
        <5>2. SumFunctionOnSet(f, Taken(w)') = SumFunctionOnSet(f, Taken(w))
          BY <5>1, Zenon
        <5>3. wallet'[w] = wallet[w]
          BY <3>1, <4>3 DEF IInv, TypeOK
        <5>. QED
          BY <1>8, <5>2, <5>3
      <4>. QED
        BY <4>2, <4>3
    <3>. QED
      BY <1>8, <1>10, <3>1, <3>2, <3>3
  <2>. QED
    BY <2>1, <2>2
<1>13. MoneyFollowsDecision'
  BY <1>1, <1>5, <1>12 DEF MoneyFollowsDecision, AmountOf, Amount, Taken
<1>. QED
  BY <1>7, <1>13 DEF MoneyInv

(* Every step keeps track of the money. *)
LEMMA NextMoney == IInv /\ MoneyInv /\ [Next]_vars => MoneyInv'
<1> SUFFICES ASSUME IInv, MoneyInv, [Next]_vars PROVE MoneyInv'
  OBVIOUS
<1>1. ASSUME UNCHANGED <<requests, wallet, pending, treasury>>
      PROVE  MoneyInv'
  BY <1>1 DEF MoneyInv, MoneyFollowsDecision, Asked, AmountOf, WithStatus
<1>2. ASSUME NEW u \in User, NEW r \in Request, NEW n \in Amounts,
             RequestWithdrawal(u, r, n)
      PROVE  MoneyInv'
  BY <1>2, RequestMoney
<1>3. ASSUME NEW d \in Decision, Decide(d)
      PROVE  MoneyInv'
  BY <1>3, DecideMoney
<1>4. ASSUME NEW d \in Decision, Begin(d) \/ LockPendingRequest(d) \/ Fail(d)
      PROVE  UNCHANGED <<requests, wallet, pending, treasury>>
  BY <1>4 DEF Begin, LockPendingRequest, Fail
<1>. QED
  BY <1>1, <1>2, <1>3, <1>4 DEF Next, Finished, vars

(* However the calls of approve and reject race, the pooled account holds   *)
(* exactly the money of the undecided requests, a rejected amount is back   *)
(* with the one who asked and the treasury has the approved ones            *)
(* (requestWithdrawal, approve and reject in withdrawals.service.ts).       *)
THEOREM MoneyFollows == Spec => []MoneyFollowsDecision
<1>1. Init => MoneyInv
  BY InitMoney
<1>2. MoneyInv => MoneyFollowsDecision
  BY DEF MoneyInv
<1>. QED
  BY <1>1, <1>2, NextMoney, InductiveInvariant, PTL DEF Spec
============================================================================
