----------------------------- MODULE Onboarding -----------------------------
(***************************************************************************)
(* How users, currencies and accounts come into being: registration and    *)
(* login (backend/src/auth/, backend/src/users/), the seed script          *)
(* (backend/src/scripts/seed.ts), which may be run again at any time, and  *)
(* the calls of ensureAccount that both lead to, which are EnsureAccount's.*)
(*                                                                         *)
(* A password is known by the person who chose it, and no two choose the   *)
(* same.  A row of users is [email, role, by], where by is the person      *)
(* whose password it hashes, or the run of the seed that made it.          *)
(***************************************************************************)
EXTENDS EnsureAccount, Sequences, Functions

CONSTANTS
  Person,      \* people who register once and log in at any time
  Spelling,    \* addresses as they are typed
  emailOf,     \* what a person types to register
  loginAs,     \* what a person types to log in
  lower,       \* toLowerCase
  AdminEmail,  \* ADMIN_EMAIL
  Seed,        \* runs of the seed script
  seedCalls    \* the ensureAccount calls of a run, in order

SeedCall == UNION {Range(seedCalls[s]) : s \in Seed}

ASSUME OnboardingAssumption ==
  /\ emailOf \in [Person -> Spelling] /\ loginAs \in [Person -> Spelling]
  /\ lower \in [Spelling -> Spelling] /\ AdminEmail \in Spelling
  /\ \A e \in Spelling : lower[lower[e]] = lower[e]
  /\ lower[AdminEmail] = AdminEmail
  /\ \A p \in Person : lower[loginAs[p]] = lower[emailOf[p]]
  /\ seedCalls \in [Seed -> Seq(Call)]
  /\ Person \cap Seed = {}

VARIABLES
  users,       \* the rows of users
  currencies,  \* whether the rows of currencies are there
  signup,      \* where each registration is, or how it was answered
  seeding      \* where each run of the seed is

onboardingVars == <<users, currencies, signup, seeding>>
allVars == <<vars, onboardingVars>>

OnboardingTypeOK ==
  /\ TypeOK
  /\ users \subseteq [email : Spelling, role : {"user", "admin"}, by : Person \cup Seed]
  /\ currencies \in BOOLEAN
  /\ signup \in [Person -> {"idle", "hashing", "created", "conflict", "error", "lost"}]
  /\ seeding \in [Seed -> {"off", "hashing", "currencies", "accounts", "done", "failed"}]

OnboardingInit ==
  /\ Init
  /\ users = {}
  /\ currencies = FALSE
  /\ signup = [p \in Person |-> "idle"]
  /\ seeding = [s \in Seed |-> "off"]

---------------------------------------------------------------------------
(* users.service.ts *)

FindAsTyped(email) == {u \in users : u.email = email}

(* findByEmail: every row is lower-cased (CHK_users_email_lowercase). *)
FindByEmail(email) == {u \in users : u.email = lower[email]}

(* The rows after create, when IDX_users_email does not refuse the insert. *)
InsertUser(email, role, by) ==
  IF \A u \in users : u.email # lower[email]
    THEN users \cup {[email |-> lower[email], role |-> role, by |-> by]}
    ELSE users

---------------------------------------------------------------------------
(* auth.service.ts *)

SignupIs(p, label) == signup' = [signup EXCEPT ![p] = label]

(* register: 409 when the address is taken, or on to hashing the password. *)
Register(p) ==
  /\ signup[p] = "idle"
  /\ SignupIs(p, IF FindByEmail(emailOf[p]) = {} THEN "hashing" ELSE "conflict")
  /\ UNCHANGED <<users, currencies, seeding>>

(* create and the answer: 201, or 500 for a row that another registration  *)
(* or the seed has inserted in the meantime (AllExceptionsFilter).         *)
CreateUser(p) ==
  /\ signup[p] = "hashing"
  /\ users' = InsertUser(emailOf[p], "user", p)
  /\ SignupIs(p, IF users' # users THEN "created" ELSE "error")
  /\ UNCHANGED <<currencies, seeding>>

(* The server or the connection dies, before or after the insert. *)
LoseSignup(p) ==
  /\ signup[p] = "hashing"
  /\ users' \in {users, InsertUser(emailOf[p], "user", p)}
  /\ SignupIs(p, "lost")
  /\ UNCHANGED <<currencies, seeding>>

(* What login may answer: findOne takes a row, if there is one, and verify *)
(* compares its password with the person's.                                *)
LogIn(p) ==
  IF FindByEmail(loginAs[p]) = {} THEN {401}
  ELSE {IF u.by = p THEN 200 ELSE 401 : u \in FindByEmail(loginAs[p])}

---------------------------------------------------------------------------
(* seed.ts *)

SeedIs(s, label) == seeding' = [seeding EXCEPT ![s] = label]

(* The places of the calls that seedSystemAccounts has still to make. *)
Remaining(s) == {i \in DOMAIN seedCalls[s] : pc[seedCalls[s][i]] # "returned"}

(* The call it is in, if there is one. *)
Current(s) ==
  {seedCalls[s][i] : i \in {j \in Remaining(s) : /\ seeding[s] = "accounts"
                                                /\ \A k \in Remaining(s) : j <= k}}

(* seedAdmin: skipped when the address is taken, whatever the row's role. *)
FindAdmin(s) ==
  /\ seeding[s] = "off"
  /\ SeedIs(s, IF FindByEmail(AdminEmail) = {} THEN "hashing" ELSE "currencies")
  /\ UNCHANGED <<users, currencies, signup, vars>>

(* A row inserted in the meantime fails the seed. *)
SaveAdmin(s) ==
  /\ seeding[s] = "hashing"
  /\ users' = InsertUser(AdminEmail, "admin", s)
  /\ SeedIs(s, IF users' # users THEN "currencies" ELSE "failed")
  /\ UNCHANGED <<currencies, signup, vars>>

(* seedCurrencies: one INSERT ... ON CONFLICT (code) DO UPDATE. *)
SeedCurrencies(s) ==
  /\ seeding[s] = "currencies"
  /\ currencies' = TRUE
  /\ SeedIs(s, "accounts")
  /\ UNCHANGED <<users, signup, vars>>

SeedEndsRegardless(s) ==
  /\ seeding[s] = "accounts"
  /\ \A c \in Range(seedCalls[s]) : pc[c] # "find"
  /\ SeedIs(s, "done")
  /\ UNCHANGED <<users, currencies, signup, vars>>

(* seedSystemAccounts has made all its calls, or stops at one that failed. *)
SeedEnds(s) ==
  /\ seeding[s] = "accounts"
  /\ \/ Remaining(s) = {} /\ SeedIs(s, "done")
     \/ (\E c \in Current(s) : pc[c] \in {"threw", "lost"}) /\ SeedIs(s, "failed")
  /\ UNCHANGED <<users, currencies, signup, vars>>

(* The script is killed, with the transaction it is in, or it loses the    *)
(* database.                                                               *)
KillSeed(s) ==
  /\ seeding[s] \in {"hashing", "currencies", "accounts"}
  /\ SeedIs(s, "failed")
  /\ LET running == {c \in Current(s) : pc[c] \notin {"threw", "lost"}} IN
     IF running = {} THEN UNCHANGED vars ELSE \E c \in running : LoseConnection(c)
  /\ UNCHANGED <<users, currencies, signup>>

---------------------------------------------------------------------------

(* The seed makes one call after another; a request reaches ensureAccount  *)
(* only when getCurrency or listCurrencies has found its currency.         *)
MayBegin(c) ==
  IF c \in SeedCall THEN \E s \in Seed : c \in Current(s) ELSE currencies

CallStep(c) ==
  /\ pc[c] = "find" => MayBegin(c)
  /\ Step(c)
  /\ UNCHANGED onboardingVars

CallFails(c) ==
  /\ pc[c] # "find"
  /\ LoseConnection(c)
  /\ UNCHANGED onboardingVars

Rests ==
  /\ \A p \in Person : signup[p] \notin {"idle", "hashing"}
  /\ \A s \in Seed : seeding[s] \in {"done", "failed"}
  /\ \A c \in Call : pc[c] \in {"returned", "threw", "lost"} \/ (pc[c] = "find" /\ ~MayBegin(c))
  /\ UNCHANGED allVars

OnboardingNext ==
  \/ \E p \in Person : (Register(p) \/ CreateUser(p) \/ LoseSignup(p)) /\ UNCHANGED vars
  \/ \E s \in Seed : FindAdmin(s) \/ SaveAdmin(s) \/ SeedCurrencies(s) \/ SeedEnds(s) \/ KillSeed(s)
  \/ \E c \in Call : CallStep(c) \/ CallFails(c)
  \/ Rests

OnboardingSpec == OnboardingInit /\ [][OnboardingNext]_allVars

(* What has begun is carried on; that somebody registers, asks for an      *)
(* account or runs the seed is not assumed.                                *)
OnboardingFairness ==
  /\ \A p \in Person : WF_allVars(CreateUser(p) /\ UNCHANGED vars)
  /\ \A s \in Seed : WF_allVars(\/ SaveAdmin(s) \/ SeedCurrencies(s) \/ SeedEnds(s)
                                 \/ \E c \in Range(seedCalls[s]) : CallStep(c))
  /\ \A c \in Call \ SeedCall : WF_allVars(pc[c] # "find" /\ CallStep(c))

OnboardingFairSpec == OnboardingSpec /\ OnboardingFairness

---------------------------------------------------------------------------

(* Whoever was answered 201 can log in, however they spell their address,  *)
(* and no later registration or seed changes that; whoever was refused     *)
(* cannot.  Of two registrations at the same time at most one is answered  *)
(* 201, although both have found no row (auth.service.ts).                 *)
RegistrationsHold ==
  /\ \A p \in Person :
       /\ signup[p] = "created" => LogIn(p) = {200}
       /\ signup[p] \in {"conflict", "error"} => LogIn(p) = {401}
  /\ \A p, q \in Person :
       signup[p] = "created" /\ signup[q] = "created" /\ lower[emailOf[p]] = lower[emailOf[q]]
         => p = q

(* A seed that reports success has left everything it is for: currencies,  *)
(* every system account with its balance, and an admin, unless somebody    *)
(* registered the admin's address first; however many runs, killed ones    *)
(* among them, went before or beside it, and whatever users touched first. *)
SeededIsComplete ==
  \A s \in Seed : seeding[s] = "done" =>
    /\ currencies
    /\ \A c \in Range(seedCalls[s]) :
         \E id \in accounts \cap balances : keyOf[id] = keyOf[c]
    /\ \E u \in users : u.email = AdminEmail /\ (u.role = "admin" \/ u.by \in Person)

(* Registrations, seeds with their calls, and the calls of requests come   *)
(* to an end once begun, though inserts of one key wait for each other.    *)
EveryoneIsAnswered ==
  /\ \A p \in Person : signup[p] = "hashing" ~> signup[p] # "hashing"
  /\ \A s \in Seed : seeding[s] # "off" ~> seeding[s] \in {"done", "failed"}
  /\ \A c \in Call \ SeedCall : pc[c] # "find" ~> pc[c] \in {"returned", "threw", "lost"}
=============================================================================
