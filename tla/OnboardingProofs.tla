-------------------------- MODULE OnboardingProofs --------------------------
(* Theorems about Onboarding and the EnsureAccount it is built from, for    *)
(* any number of people, runs of the seed and calls of ensureAccount.       *)
EXTENDS Onboarding, TLAPS

---------------------------------------------------------------------------
(* ensureAccount *)

(* Which rows a call has inserted, at each of its statements. *)
RowsInv ==
  \A c \in Call :
    /\ c \in inserting <=> pc[c] \in {"insertBalance", "commit"}
    /\ c \in inserted <=> pc[c] = "commit"
    /\ c \in accounts => pc[c] = "returned"
    /\ c \in accounts <=> c \in balances

(* No two rows of one key, committed or not. *)
UniqueInv ==
  \A a, b \in accounts \cup inserting : keyOf[a] = keyOf[b] => a = b

(* What a call returned, or is about to find, is committed. *)
FoundInv ==
  \A c \in Call :
    /\ pc[c] = "returned" => result[c] \in accounts /\ keyOf[result[c]] = keyOf[c]
    /\ pc[c] = "refind" => \E id \in accounts : keyOf[id] = keyOf[c]
    /\ pc[c] # "threw"

IInv == TypeOK /\ RowsInv /\ UniqueInv /\ FoundInv

(* The starting state satisfies the inductive invariant. *)
LEMMA InitIInv == Init => IInv
<1> SUFFICES ASSUME Init PROVE IInv
  OBVIOUS
<1>1. TypeOK
  BY CallAssumption DEF Init, TypeOK, PCs
<1>2. RowsInv /\ UniqueInv /\ FoundInv
  BY DEF Init, RowsInv, UniqueInv, FoundInv
<1>. QED
  BY <1>1, <1>2 DEF IInv

(* Every statement of a call, and its loss, preserve the invariant. *)
LEMMA StepIInv ==
  ASSUME IInv, NEW c \in Call, Step(c) \/ LoseConnection(c)
  PROVE  IInv'
<1> USE CallAssumption
<1>0. TypeOK /\ RowsInv /\ UniqueInv /\ FoundInv
  BY DEF IInv
<1>1. CASE Find(c) /\ Existing(c) = {}
  <2> USE <1>1 DEF Find, GoTo
  <2>1. TypeOK'
    BY <1>0 DEF TypeOK, PCs
  <2>2. RowsInv' /\ UniqueInv'
    BY <1>0 DEF TypeOK, RowsInv, UniqueInv
  <2>3. FoundInv'
    BY <1>0 DEF TypeOK, FoundInv
  <2>. QED
    BY <2>1, <2>2, <2>3 DEF IInv
<1>2. ASSUME NEW id \in Existing(c), pc[c] \in {"find", "refind"}, Return(c, id),
             UNCHANGED <<accounts, balances, inserting, inserted>>
      PROVE  IInv'
  <2> USE <1>2 DEF Existing, Return, GoTo
  <2>1. TypeOK'
    BY <1>0 DEF TypeOK, PCs
  <2>2. RowsInv' /\ UniqueInv'
    BY <1>0 DEF TypeOK, RowsInv, UniqueInv
  <2>3. FoundInv'
    BY <1>0 DEF TypeOK, FoundInv
  <2>. QED
    BY <2>1, <2>2, <2>3 DEF IInv
<1>3. CASE Insert(c) /\ Existing(c) = {}
  <2> USE <1>3 DEF Insert, GoTo
  <2>1. TypeOK'
    BY <1>0 DEF TypeOK, PCs
  <2>2. RowsInv'
    BY <1>0 DEF TypeOK, RowsInv
  <2>3. UniqueInv'
    BY <1>0 DEF TypeOK, UniqueInv, UniqueWait, Existing
  <2>4. FoundInv'
    BY <1>0 DEF TypeOK, FoundInv
  <2>. QED
    BY <2>1, <2>2, <2>3, <2>4 DEF IInv
<1>4. CASE Insert(c) /\ Existing(c) # {}
  <2> USE <1>4 DEF Insert, GoTo
  <2>1. TypeOK'
    BY <1>0 DEF TypeOK, PCs
  <2>2. RowsInv' /\ UniqueInv'
    BY <1>0 DEF TypeOK, RowsInv, UniqueInv
  <2>3. FoundInv'
    BY <1>0 DEF TypeOK, FoundInv, Existing
  <2>. QED
    BY <2>1, <2>2, <2>3 DEF IInv
<1>5. CASE InsertBalance(c)
  <2> USE <1>5 DEF InsertBalance, GoTo
  <2>1. TypeOK'
    BY <1>0 DEF TypeOK, PCs, RowsInv
  <2>2. RowsInv' /\ UniqueInv'
    BY <1>0 DEF TypeOK, RowsInv, UniqueInv
  <2>3. FoundInv'
    BY <1>0 DEF TypeOK, FoundInv
  <2>. QED
    BY <2>1, <2>2, <2>3 DEF IInv
<1>6. CASE Commit(c)
  <2> USE <1>6 DEF Commit, Return, GoTo
  <2>1. TypeOK'
    BY <1>0 DEF TypeOK, PCs
  <2>2. RowsInv'
    BY <1>0 DEF TypeOK, RowsInv
  <2>3. UniqueInv'
    BY <1>0 DEF TypeOK, RowsInv, UniqueInv
  <2>4. FoundInv'
    BY <1>0 DEF TypeOK, FoundInv
  <2>. QED
    BY <2>1, <2>2, <2>3, <2>4 DEF IInv
<1>7. CASE LoseConnection(c)
  <2> USE <1>7 DEF LoseConnection, GoTo
  <2>1. TypeOK'
    BY <1>0 DEF TypeOK, PCs
  <2>2. RowsInv' /\ UniqueInv'
    BY <1>0 DEF TypeOK, RowsInv, UniqueInv
  <2>3. FoundInv'
    BY <1>0 DEF TypeOK, FoundInv
  <2>. QED
    BY <2>1, <2>2, <2>3 DEF IInv
<1>8. CASE Refind(c) /\ Existing(c) = {}
  BY <1>0, <1>8 DEF Refind, FoundInv, Existing
<1>. QED
  BY <1>1, <1>2, <1>3, <1>4, <1>5, <1>6, <1>7, <1>8 DEF Step, Find, Refind, Insert

(* The same for any step of Next, or none. *)
LEMMA NextIInv == IInv /\ [Next]_vars => IInv'
<1>1. CASE UNCHANGED vars
  BY <1>1 DEF IInv, TypeOK, RowsInv, UniqueInv, FoundInv, vars
<1>. QED
  BY <1>1, StepIInv DEF Next

(* The invariant implies the two properties of the answers of ensureAccount. *)
LEMMA IInvAnswers == IInv => OneAccountPerKey /\ AnswersArePostable
<1> SUFFICES ASSUME IInv PROVE OneAccountPerKey /\ AnswersArePostable
  OBVIOUS
<1>1. TypeOK /\ RowsInv /\ UniqueInv /\ FoundInv
  BY DEF IInv
<1>2. OneAccountPerKey
  <2>1. \A a, b \in accounts : keyOf[a] = keyOf[b] => a = b
    BY <1>1 DEF UniqueInv
  <2>2. ASSUME NEW c \in Call, NEW d \in Call,
               pc[c] = "returned", pc[d] = "returned", keyOf[c] = keyOf[d]
        PROVE  result[c] = result[d]
    <3>1. /\ result[c] \in accounts /\ keyOf[result[c]] = keyOf[c]
          /\ result[d] \in accounts /\ keyOf[result[d]] = keyOf[d]
      BY <1>1, <2>2 DEF FoundInv
    <3>. QED
      BY <2>1, <2>2, <3>1
  <2>. QED
    BY <2>1, <2>2 DEF OneAccountPerKey
<1>3. AnswersArePostable
  BY <1>1 DEF AnswersArePostable, RowsInv, FoundInv, TypeOK
<1>. QED
  BY <1>2, <1>3

---------------------------------------------------------------------------
(* Onboarding implements EnsureAccount: what calls are made by, the seed or *)
(* a request, and in which order, is a restriction of its steps.            *)

(* Every step of Onboarding is one of EnsureAccount's, or none. *)
LEMMA StepIsEnsureAccounts ==
  ASSUME [OnboardingNext]_allVars
  PROVE  [Next]_vars
<1>1. CASE UNCHANGED allVars
  BY <1>1 DEF allVars
<1>2. ASSUME NEW c \in Call, CallStep(c) \/ CallFails(c)
      PROVE  Next
  BY <1>2 DEF CallStep, CallFails, Next
<1>3. ASSUME NEW s \in Seed, KillSeed(s)
      PROVE  [Next]_vars
  <2>1. CASE UNCHANGED vars
    BY <2>1
  <2>2. ASSUME NEW c \in Current(s), LoseConnection(c)
        PROVE  Next
    <3>1. c \in Call
      BY OnboardingAssumption DEF Current, Remaining
    <3>. QED
      BY <2>2, <3>1 DEF Next
  <2>. QED
    BY <1>3, <2>1, <2>2 DEF KillSeed
<1>4. ASSUME NEW s \in Seed, FindAdmin(s) \/ SaveAdmin(s) \/ SeedCurrencies(s) \/ SeedEnds(s)
      PROVE  UNCHANGED vars
  BY <1>4 DEF FindAdmin, SaveAdmin, SeedCurrencies, SeedEnds
<1>5. CASE Rests
  BY <1>5 DEF Rests, allVars
<1>. QED
  BY <1>1, <1>2, <1>3, <1>4, <1>5 DEF OnboardingNext

(* Onboarding, seeds and requests alike, calls ensureAccount only as        *)
(* EnsureAccount says: whatever is shown of that holds here.                *)
THEOREM ImplementsEnsureAccount == OnboardingSpec => Spec
<1>1. OnboardingInit => Init
  BY DEF OnboardingInit
<1>2. [OnboardingNext]_allVars => [Next]_vars
  BY StepIsEnsureAccounts
<1>. QED
  BY <1>1, <1>2, PTL DEF OnboardingSpec, Spec

(* The inductive invariant of ensureAccount alone holds in every state, who-*)
(* ever calls it.                                                           *)
THEOREM InductiveInvariant == Spec => []IInv
<1>1. Init => IInv
  BY InitIInv
<1>2. IInv /\ [Next]_vars => IInv'
  BY NextIInv
<1>. QED
  BY <1>1, <1>2, PTL DEF Spec

(* However many callers touch a key first, together with the seed or not,   *)
(* and whichever of them die on the way, there is one account for the key   *)
(* and everybody who is answered gets that one.                             *)
THEOREM OneAccount == OnboardingSpec => []OneAccountPerKey
<1>1. IInv => OneAccountPerKey
  BY IInvAnswers
<1>. QED
  BY <1>1, ImplementsEnsureAccount, InductiveInvariant, PTL

(* An account that ensureAccount returned is committed with its balance     *)
(* row, and the error after its second findOne is never thrown.             *)
THEOREM AnswersAccount == OnboardingSpec => []AnswersArePostable
<1>1. IInv => AnswersArePostable
  BY IInvAnswers
<1>. QED
  BY <1>1, ImplementsEnsureAccount, InductiveInvariant, PTL

---------------------------------------------------------------------------
(* Registration *)

(* One row per address, each with the person who registered it or the seed  *)
(* that made it.                                                            *)
UsersInv ==
  /\ users \subseteq [email : Spelling, role : {"user", "admin"}, by : Person \cup Seed]
  /\ \A u, v \in users : u.email = v.email => u = v
  /\ \A u \in users : u.by \in Seed => u.role = "admin"

(* How each registration was answered, and whose row there is. *)
SignupInv ==
  /\ signup \in [Person -> {"idle", "hashing", "created", "conflict", "error", "lost"}]
  /\ \A u \in users : \A p \in Person :
       u.by = p => u.email = lower[emailOf[p]] /\ signup[p] \in {"created", "lost"}
  /\ \A p \in Person :
       /\ signup[p] = "created" =>
            \E u \in users : u.email = lower[emailOf[p]] /\ u.by = p
       /\ signup[p] \in {"conflict", "error"} =>
            \E u \in users : u.email = lower[emailOf[p]] /\ u.by # p

(* The row that an insert adds, or that it meets. *)
LEMMA InsertUserAdds ==
  ASSUME UsersInv, NEW email \in Spelling, NEW role \in {"user", "admin"},
         NEW by \in Person \cup Seed, by \in Seed => role = "admin",
         users' = InsertUser(email, role, by)
  PROVE  /\ UsersInv'
         /\ users \subseteq users'
         /\ users' # users =>
              users' = users \cup {[email |-> lower[email], role |-> role, by |-> by]}
         /\ users' = users => \E u \in users : u.email = lower[email]
<1> DEFINE row == [email |-> lower[email], role |-> role, by |-> by]
<1>1. row \in [email : Spelling, role : {"user", "admin"}, by : Person \cup Seed]
  BY OnboardingAssumption
<1>2. CASE \A u \in users : u.email # lower[email]
  <2>1. users' = users \cup {row}
    BY <1>2 DEF InsertUser
  <2>2. row.email = lower[email] /\ row.role = role /\ row.by = by
    OBVIOUS
  <2>3. row \notin users
    BY <1>2, <2>2
  <2> HIDE DEF row
  <2>4. UsersInv'
    BY <1>1, <1>2, <2>1, <2>2 DEF UsersInv
  <2>. QED
    BY <2>1, <2>3, <2>4 DEF row
<1>3. CASE ~ \A u \in users : u.email # lower[email]
  <2>1. users' = users
    BY <1>3 DEF InsertUser
  <2>. QED
    BY <1>3, <2>1 DEF UsersInv
<1>. QED
  BY <1>2, <1>3

RegInv == UsersInv /\ SignupInv

(* The starting state satisfies the invariant of the registrations. *)
LEMMA InitRegInv == OnboardingInit => RegInv
  BY DEF OnboardingInit, RegInv, UsersInv, SignupInv

(* A person's insert, with whatever answer it leads to. *)
LEMMA CreateRegInv ==
  ASSUME RegInv, NEW p \in Person, signup[p] = "hashing",
         users' = InsertUser(emailOf[p], "user", p),
         NEW label \in {"created", "error", "lost"}, SignupIs(p, label),
         label = "created" => users' # users,
         label = "error" => users' = users
  PROVE  RegInv'
<1> DEFINE row == [email |-> lower[emailOf[p]], role |-> "user", by |-> p]
<1>0. UsersInv /\ SignupInv
  BY DEF RegInv
<1>1. /\ emailOf[p] \in Spelling
      /\ p \in Person \cup Seed /\ p \notin Seed
  BY OnboardingAssumption
<1>2. /\ UsersInv' /\ users \subseteq users'
      /\ users' # users => users' = users \cup {row}
      /\ users' = users => \E u \in users : u.email = lower[emailOf[p]]
  BY <1>0, <1>1, InsertUserAdds
<1>3. row.email = lower[emailOf[p]] /\ row.by = p
  OBVIOUS
<1> HIDE DEF row
<1>4. /\ \A u \in users : u.by # p
      /\ signup' = [signup EXCEPT ![p] = label]
      /\ signup' \in [Person -> {"idle", "hashing", "created", "conflict", "error", "lost"}]
      /\ signup'[p] = label
      /\ \A q \in Person : q # p => signup'[q] = signup[q]
  BY <1>0 DEF SignupInv, SignupIs
<1>5. ASSUME NEW u \in users', NEW q \in Person, u.by = q
      PROVE  u.email = lower[emailOf[q]] /\ signup'[q] \in {"created", "lost"}
  <2>1. CASE u \in users
    BY <1>0, <1>4, <1>5, <2>1 DEF SignupInv
  <2>2. CASE u \notin users
    <3>1. users' # users /\ u = row
      BY <1>2, <1>5, <2>2
    <3>. QED
      BY <1>3, <1>4, <1>5, <3>1
  <2>. QED
    BY <2>1, <2>2
<1>6. ASSUME NEW q \in Person
      PROVE  /\ signup'[q] = "created" =>
                  \E u \in users' : u.email = lower[emailOf[q]] /\ u.by = q
             /\ signup'[q] \in {"conflict", "error"} =>
                  \E u \in users' : u.email = lower[emailOf[q]] /\ u.by # q
  <2>1. CASE q # p
    BY <1>0, <1>2, <1>4, <2>1 DEF SignupInv
  <2>2. CASE q = p /\ users' # users
    BY <1>2, <1>3, <1>4, <2>2
  <2>3. CASE q = p /\ users' = users
    BY <1>2, <1>4, <2>3
  <2>. QED
    BY <2>1, <2>2, <2>3
<1>7. SignupInv'
  BY <1>4, <1>5, <1>6 DEF SignupInv
<1>. QED
  BY <1>2, <1>7 DEF RegInv

(* The seed's insert of the admin. *)
LEMMA AdminRegInv ==
  ASSUME RegInv, NEW s \in Seed, users' = InsertUser(AdminEmail, "admin", s), UNCHANGED signup
  PROVE  RegInv'
<1> DEFINE row == [email |-> lower[AdminEmail], role |-> "admin", by |-> s]
<1>0. UsersInv /\ SignupInv
  BY DEF RegInv
<1>1. AdminEmail \in Spelling /\ s \in Person \cup Seed /\ s \notin Person
  BY OnboardingAssumption
<1>2. /\ UsersInv' /\ users \subseteq users'
      /\ users' # users => users' = users \cup {row}
  BY <1>0, <1>1, InsertUserAdds
<1>3. row.by = s
  OBVIOUS
<1> HIDE DEF row
<1>4. \A u \in users' : u.by \in Person => u \in users
  BY <1>1, <1>2, <1>3
<1>5. SignupInv'
  BY <1>0, <1>2, <1>4 DEF SignupInv
<1>. QED
  BY <1>2, <1>5 DEF RegInv

(* Steps of people and of seeds preserve it. *)
LEMMA NextRegInv == RegInv /\ [OnboardingNext]_allVars => RegInv'
<1> SUFFICES ASSUME RegInv, [OnboardingNext]_allVars PROVE RegInv'
  OBVIOUS
<1>0. UsersInv /\ SignupInv
  BY DEF RegInv
<1>1. CASE UNCHANGED <<users, signup>>
  BY <1>1 DEF RegInv, UsersInv, SignupInv
<1>2. ASSUME NEW p \in Person, Register(p)
      PROVE  RegInv'
  <2>1. users' = users
    BY <1>2 DEF Register
  <2>2. CASE FindByEmail(emailOf[p]) = {}
    <3>1. signup' = [signup EXCEPT ![p] = "hashing"]
      BY <1>2, <2>2 DEF Register, SignupIs
    <3>2. \A u \in users : u.by # p
      BY <1>0, <1>2 DEF SignupInv, Register
    <3>. QED
      BY <1>0, <2>1, <3>1, <3>2 DEF RegInv, UsersInv, SignupInv
  <2>3. CASE FindByEmail(emailOf[p]) # {}
    <3>1. signup' = [signup EXCEPT ![p] = "conflict"]
      BY <1>2, <2>3 DEF Register, SignupIs
    <3>2. \A u \in users : u.by # p
      BY <1>0, <1>2 DEF SignupInv, Register
    <3>3. \E u \in users : u.email = lower[emailOf[p]]
      BY <2>3 DEF FindByEmail
    <3>. QED
      BY <1>0, <2>1, <3>1, <3>2, <3>3 DEF RegInv, UsersInv, SignupInv
  <2>. QED
    BY <2>2, <2>3
<1>3. ASSUME NEW p \in Person, CreateUser(p)
      PROVE  RegInv'
  BY <1>3, CreateRegInv DEF CreateUser
<1>4. ASSUME NEW p \in Person, LoseSignup(p)
      PROVE  RegInv'
  <2>1. CASE users' = users
    BY <1>0, <1>4, <2>1 DEF LoseSignup, SignupIs, RegInv, UsersInv, SignupInv
  <2>2. CASE users' = InsertUser(emailOf[p], "user", p)
    BY <1>4, <2>2, CreateRegInv DEF LoseSignup
  <2>. QED
    BY <1>4, <2>1, <2>2 DEF LoseSignup
<1>5. ASSUME NEW s \in Seed, SaveAdmin(s)
      PROVE  RegInv'
  BY <1>5, AdminRegInv DEF SaveAdmin
<1>6. ASSUME NEW s \in Seed, FindAdmin(s) \/ SeedCurrencies(s) \/ SeedEnds(s) \/ KillSeed(s)
      PROVE  UNCHANGED <<users, signup>>
  BY <1>6 DEF FindAdmin, SeedCurrencies, SeedEnds, KillSeed
<1>7. ASSUME NEW c \in Call, CallStep(c) \/ CallFails(c)
      PROVE  UNCHANGED <<users, signup>>
  BY <1>7 DEF CallStep, CallFails, onboardingVars
<1>8. CASE Rests \/ UNCHANGED allVars
  BY <1>8, <1>1 DEF Rests, allVars, onboardingVars
<1>. QED
  BY <1>1, <1>2, <1>3, <1>4, <1>5, <1>6, <1>7, <1>8 DEF OnboardingNext

(* Somebody answered 201 can log in from then on, somebody refused cannot,  *)
(* and of those who typed one address at most one is answered 201, however  *)
(* their registrations and the seed interleave.                             *)
THEOREM RegistrationsAreKept == OnboardingSpec => []RegistrationsHold
<1>1. RegInv => RegistrationsHold
  <2> SUFFICES ASSUME RegInv PROVE RegistrationsHold
    OBVIOUS
  <2>0. UsersInv /\ SignupInv
    BY DEF RegInv
  <2>1. ASSUME NEW p \in Person, NEW u \in users, u.email = lower[emailOf[p]]
        PROVE  LogIn(p) = {IF u.by = p THEN 200 ELSE 401}
    <3>1. FindByEmail(loginAs[p]) = {u}
      BY <2>0, <2>1, OnboardingAssumption DEF FindByEmail, UsersInv
    <3>. QED
      BY <3>1 DEF LogIn
  <2>2. ASSUME NEW p \in Person, signup[p] = "created"
        PROVE  LogIn(p) = {200}
    <3>1. PICK u \in users : u.email = lower[emailOf[p]] /\ u.by = p
      BY <2>0, <2>2 DEF SignupInv
    <3>. QED
      BY <2>1, <3>1
  <2>3. ASSUME NEW p \in Person, signup[p] \in {"conflict", "error"}
        PROVE  LogIn(p) = {401}
    <3>1. PICK u \in users : u.email = lower[emailOf[p]] /\ u.by # p
      BY <2>0, <2>3 DEF SignupInv
    <3>. QED
      BY <2>1, <3>1
  <2>4. ASSUME NEW p \in Person, NEW q \in Person, signup[p] = "created", signup[q] = "created",
               lower[emailOf[p]] = lower[emailOf[q]]
        PROVE  p = q
    <3>1. PICK u \in users : u.email = lower[emailOf[p]] /\ u.by = p
      BY <2>0, <2>4 DEF SignupInv
    <3>2. PICK v \in users : v.email = lower[emailOf[q]] /\ v.by = q
      BY <2>0, <2>4 DEF SignupInv
    <3>. QED
      BY <2>0, <2>4, <3>1, <3>2 DEF UsersInv
  <2>. QED
    BY <2>2, <2>3, <2>4 DEF RegistrationsHold
<1>. QED
  BY <1>1, InitRegInv, NextRegInv, PTL DEF OnboardingSpec

---------------------------------------------------------------------------
(* The seed *)

HasAdmin == \E u \in users : u.email = AdminEmail /\ (u.role = "admin" \/ u.by \in Person)

(* What a run of the seed has seen to, by where it is. *)
SeedInv ==
  /\ seeding \in [Seed -> {"off", "hashing", "currencies", "accounts", "done", "failed"}]
  /\ \A s \in Seed :
       /\ seeding[s] \in {"currencies", "accounts", "done"} => HasAdmin
       /\ seeding[s] \in {"accounts", "done"} => currencies
       /\ seeding[s] = "done" => Remaining(s) = {}

(* The starting state satisfies the invariant of the seed. *)
LEMMA InitSeedInv == OnboardingInit => SeedInv
  BY DEF OnboardingInit, SeedInv

(* No step takes back what a run of the seed has seen to: rows of users and *)
(* currencies stay, and a call that has returned has returned.              *)
LEMMA NothingTakenBack ==
  ASSUME IInv, [OnboardingNext]_allVars
  PROVE  /\ users \subseteq users'
         /\ currencies => currencies'
         /\ HasAdmin => HasAdmin'
         /\ \A s \in Seed : Remaining(s)' \subseteq Remaining(s)
<1>1. users \subseteq users'
  BY DEF OnboardingNext, Register, CreateUser, LoseSignup, FindAdmin, SaveAdmin, SeedCurrencies,
         SeedEnds, KillSeed, CallStep, CallFails, Rests, allVars, onboardingVars, InsertUser
<1>2. currencies => currencies'
  BY DEF OnboardingNext, Register, CreateUser, LoseSignup, FindAdmin, SaveAdmin, SeedCurrencies,
         SeedEnds, KillSeed, CallStep, CallFails, Rests, allVars, onboardingVars
<1>3. HasAdmin => HasAdmin'
  BY <1>1 DEF HasAdmin
<1>4. ASSUME NEW c \in Call, pc[c] = "returned"
      PROVE  pc'[c] = "returned"
  <2>1. [Next]_vars
    BY StepIsEnsureAccounts
  <2>2. ASSUME NEW d \in Call, Step(d) \/ LoseConnection(d)
        PROVE  pc'[c] = "returned"
    <3>1. pc \in [Call -> PCs]
      BY DEF IInv, TypeOK
    <3>2. pc[d] # "returned"
      BY <2>2 DEF Step, Find, Insert, InsertBalance, Commit, Refind, LoseConnection
    <3>3. \E label \in PCs : pc' = [pc EXCEPT ![d] = label]
      BY <2>2 DEF Step, Find, Insert, InsertBalance, Commit, Refind, LoseConnection,
                  Return, GoTo, PCs
    <3>. QED
      BY <1>4, <3>1, <3>2, <3>3
  <2>. QED
    BY <1>4, <2>1, <2>2 DEF Next, vars
<1>5. ASSUME NEW s \in Seed, NEW i \in Remaining(s)'
      PROVE  i \in Remaining(s)
  <2>1. i \in DOMAIN seedCalls[s] /\ seedCalls[s][i] \in Call
    BY <1>5, OnboardingAssumption DEF Remaining
  <2>. QED
    BY <1>4, <1>5, <2>1 DEF Remaining
<1>. QED
  BY <1>1, <1>2, <1>3, <1>5

(* Steps preserve it. *)
LEMMA NextSeedInv == IInv /\ RegInv /\ SeedInv /\ [OnboardingNext]_allVars => SeedInv'
<1> SUFFICES ASSUME IInv, RegInv, SeedInv, [OnboardingNext]_allVars PROVE SeedInv'
  OBVIOUS
<1> DEFINE Labels == {"off", "hashing", "currencies", "accounts", "done", "failed"}
<1>0. /\ currencies => currencies'
      /\ HasAdmin => HasAdmin'
      /\ \A s \in Seed : Remaining(s)' \subseteq Remaining(s)
  BY NothingTakenBack
<1>1. CASE UNCHANGED seeding
  <2> HIDE DEF HasAdmin, Remaining
  <2>. QED
    BY <1>0, <1>1 DEF SeedInv
<1>2. ASSUME NEW s \in Seed, NEW label \in Labels, SeedIs(s, label),
             label \in {"currencies", "accounts", "done"} => HasAdmin',
             label \in {"accounts", "done"} => currencies',
             label = "done" => Remaining(s)' = {}
      PROVE  SeedInv'
  <2>1. seeding' = [seeding EXCEPT ![s] = label]
    BY <1>2 DEF SeedIs
  <2>2. seeding' \in [Seed -> Labels] /\ seeding'[s] = label
    BY <2>1 DEF SeedInv
  <2>3. ASSUME NEW t \in Seed
        PROVE  /\ seeding'[t] \in {"currencies", "accounts", "done"} => HasAdmin'
               /\ seeding'[t] \in {"accounts", "done"} => currencies'
               /\ seeding'[t] = "done" => Remaining(t)' = {}
    <3>1. CASE t = s
      BY <1>2, <2>2, <3>1
    <3>2. CASE t # s
      <4>1. seeding'[t] = seeding[t]
        BY <2>1, <3>2 DEF SeedInv
      <4>. QED
        BY <1>0, <4>1 DEF SeedInv
    <3>. QED
      BY <3>1, <3>2
  <2>. QED
    BY <2>2, <2>3 DEF SeedInv
<1>3. ASSUME NEW s \in Seed, FindAdmin(s)
      PROVE  SeedInv'
  <2>1. CASE FindByEmail(AdminEmail) = {}
    BY <1>2, <1>3, <2>1 DEF FindAdmin
  <2>2. CASE FindByEmail(AdminEmail) # {}
    <3>1. HasAdmin
      BY <2>2, OnboardingAssumption DEF FindByEmail, RegInv, UsersInv, HasAdmin
    <3>. QED
      BY <1>0, <1>2, <1>3, <2>2, <3>1 DEF FindAdmin
  <2>. QED
    BY <2>1, <2>2
<1>4. ASSUME NEW s \in Seed, SaveAdmin(s)
      PROVE  SeedInv'
  <2>1. CASE users' # users
    <3>1. HasAdmin'
      BY <1>4, <2>1, OnboardingAssumption DEF SaveAdmin, InsertUser, HasAdmin
    <3>. QED
      BY <1>2, <1>4, <2>1, <3>1 DEF SaveAdmin
  <2>2. CASE users' = users
    BY <1>2, <1>4, <2>2 DEF SaveAdmin
  <2>. QED
    BY <2>1, <2>2
<1>5. ASSUME NEW s \in Seed, SeedCurrencies(s)
      PROVE  SeedInv'
  BY <1>0, <1>2, <1>5 DEF SeedCurrencies, SeedInv
<1>6. ASSUME NEW s \in Seed, SeedEnds(s)
      PROVE  SeedInv'
  <2>1. CASE Remaining(s) = {} /\ SeedIs(s, "done")
    <3>1. Remaining(s)' = {}
      BY <1>0, <2>1
    <3>. QED
      BY <1>0, <1>2, <1>6, <2>1, <3>1 DEF SeedEnds, SeedInv
  <2>2. CASE SeedIs(s, "failed")
    BY <1>2, <2>2
  <2>. QED
    BY <1>6, <2>1, <2>2 DEF SeedEnds
<1>7. ASSUME NEW s \in Seed, KillSeed(s)
      PROVE  SeedInv'
  BY <1>2, <1>7 DEF KillSeed
<1>8. ASSUME NEW p \in Person, Register(p) \/ CreateUser(p) \/ LoseSignup(p)
      PROVE  UNCHANGED seeding
  BY <1>8 DEF Register, CreateUser, LoseSignup
<1>9. ASSUME NEW c \in Call, CallStep(c) \/ CallFails(c)
      PROVE  UNCHANGED seeding
  BY <1>9 DEF CallStep, CallFails, onboardingVars
<1>10. CASE Rests \/ UNCHANGED allVars
  BY <1>1, <1>10 DEF Rests, allVars, onboardingVars
<1>. QED
  BY <1>1, <1>3, <1>4, <1>5, <1>6, <1>7, <1>8, <1>9, <1>10 DEF OnboardingNext

(* All of onboarding: accounts with their calls, registrations and seeds.   *)
OnboardingInv == IInv /\ RegInv /\ SeedInv /\ currencies \in BOOLEAN

(* The three parts of the invariant hold together, in every state that     *)
(* registrations, runs of the seed and the calls of both and of requests    *)
(* lead to: the seed's rests on the other two.                              *)
THEOREM OnboardingInductive == OnboardingSpec => []OnboardingInv
<1>1. OnboardingInit => OnboardingInv
  BY InitIInv, InitRegInv, InitSeedInv DEF OnboardingInit, OnboardingInv
<1>2. OnboardingInv /\ [OnboardingNext]_allVars => OnboardingInv'
  <2> SUFFICES ASSUME IInv, RegInv, SeedInv, currencies \in BOOLEAN, [OnboardingNext]_allVars
               PROVE  IInv' /\ RegInv' /\ SeedInv' /\ currencies' \in BOOLEAN
    BY DEF OnboardingInv
  <2>1. IInv'
    BY StepIsEnsureAccounts, NextIInv
  <2>2. RegInv' /\ SeedInv'
    BY NextRegInv, NextSeedInv
  <2>3. currencies' = currencies \/ currencies' = TRUE
    BY DEF OnboardingNext, Register, CreateUser, LoseSignup, FindAdmin, SaveAdmin,
           SeedCurrencies, SeedEnds, KillSeed, CallStep, CallFails, Rests, allVars, onboardingVars
  <2>. QED
    BY <2>1, <2>2, <2>3
<1>. QED
  BY <1>1, <1>2, PTL DEF OnboardingSpec

(* Accounts, calls, users, currencies, registrations and runs of the seed   *)
(* stay within their types (auth.service.ts, users.service.ts, seed.ts,     *)
(* accounts.service.ts).                                                    *)
THEOREM OnboardingTypeCorrect == OnboardingSpec => []OnboardingTypeOK
<1>1. OnboardingInv => OnboardingTypeOK
  BY DEF OnboardingInv, IInv, RegInv, UsersInv, SignupInv, SeedInv, OnboardingTypeOK
<1>. QED
  BY <1>1, OnboardingInductive, PTL

(* A seed that reports success has left the currencies, an account with its *)
(* balance row for every call it makes and an admin (or whoever took the    *)
(* admin's address first), whatever other runs, crashes and users did.      *)
THEOREM SeededStaysComplete == OnboardingSpec => []SeededIsComplete
<1>1. IInv /\ SeedInv => SeededIsComplete
  <2> SUFFICES ASSUME IInv, SeedInv, NEW s \in Seed, seeding[s] = "done"
               PROVE  /\ currencies /\ HasAdmin
                      /\ \A c \in Range(seedCalls[s]) :
                           \E id \in accounts \cap balances : keyOf[id] = keyOf[c]
    BY DEF SeededIsComplete, HasAdmin
  <2>1. currencies /\ HasAdmin /\ Remaining(s) = {}
    BY DEF SeedInv
  <2>2. ASSUME NEW c \in Range(seedCalls[s])
        PROVE  \E id \in accounts \cap balances : keyOf[id] = keyOf[c]
    <3>1. c \in Call /\ pc[c] = "returned"
      BY <2>1, <2>2, OnboardingAssumption DEF Range, Remaining
    <3>2. result[c] \in accounts /\ keyOf[result[c]] = keyOf[c]
      BY <3>1 DEF IInv, FoundInv
    <3>3. result[c] \in balances
      BY <3>2 DEF IInv, TypeOK, RowsInv
    <3>. QED
      BY <3>2, <3>3
  <2>. QED
    BY <2>1, <2>2
<1>2. OnboardingInv => IInv /\ SeedInv
  BY DEF OnboardingInv
<1>. QED
  BY <1>1, <1>2, OnboardingInductive, PTL
=============================================================================
