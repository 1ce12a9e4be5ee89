--------------------------- MODULE EnsureAccount ---------------------------
(***************************************************************************)
(* LedgerService.ensureAccount (backend/src/ledger/ledger.service.ts):     *)
(* concurrent first-touch creation of an account and its balance row, each *)
(* call in a READ COMMITTED transaction of its own.                        *)
(*                                                                         *)
(* A key is what `where` looks for: (owner_user_id, currency_code, kind).  *)
(* The id of an account is the call that inserted it: an INSERT makes a    *)
(* fresh uuid.                                                             *)
(***************************************************************************)
EXTENDS Integers, FiniteSets

CONSTANTS
  Call,       \* concurrent calls of ensureAccount
  Key,        \* (owner, currency, kind) triples
  keyOf,      \* the triple a call asks for
  None

ASSUME CallAssumption ==
  /\ keyOf \in [Call -> Key]
  /\ None \notin Call

VARIABLES
  pc,         \* the statement each call is about to run
  result,     \* the id a call returned
  accounts,   \* ids of the committed rows of accounts
  balances,   \* ids with a committed row in account_balances
  inserting,  \* calls whose inserted account row is not committed yet
  inserted    \* calls that also inserted the balance row

vars == <<pc, result, accounts, balances, inserting, inserted>>

PCs == {"find", "insert", "insertBalance", "commit", "refind",
        "returned", "threw", "lost"}

TypeOK ==
  /\ pc \in [Call -> PCs]
  /\ result \in [Call -> Call \cup {None}]
  /\ accounts \subseteq Call
  /\ balances \subseteq Call
  /\ inserting \subseteq Call
  /\ inserted \subseteq inserting

Init ==
  /\ pc = [c \in Call |-> "find"]
  /\ result = [c \in Call |-> None]
  /\ accounts = {}
  /\ balances = {}
  /\ inserting = {}
  /\ inserted = {}

---------------------------------------------------------------------------

GoTo(c, label) == pc' = [pc EXCEPT ![c] = label]

Return(c, id) ==
  /\ GoTo(c, "returned")
  /\ result' = [result EXCEPT ![c] = id]

(* The committed accounts for the key of c. *)
Existing(c) == {id \in accounts : keyOf[id] = keyOf[c]}

(* The unique indexes make an INSERT wait for a transaction that has       *)
(* inserted the same key and not ended.                                    *)
UniqueWait(c) == \E d \in inserting : keyOf[d] = keyOf[c]

(* findOne(where) at the start. *)
Find(c) ==
  /\ pc[c] = "find"
  /\ IF Existing(c) = {}
       THEN GoTo(c, "insert") /\ UNCHANGED result
       ELSE \E id \in Existing(c) : Return(c, id)
  /\ UNCHANGED <<accounts, balances, inserting, inserted>>

InsertBlind(c) ==
  /\ pc[c] = "insert"
  /\ inserting' = inserting \cup {c}
  /\ GoTo(c, "insertBalance")
  /\ UNCHANGED <<result, accounts, balances, inserted>>

(* INSERT INTO accounts ... ON CONFLICT DO NOTHING RETURNING. *)
Insert(c) ==
  /\ pc[c] = "insert"
  /\ ~UniqueWait(c)
  /\ IF Existing(c) = {}
       THEN inserting' = inserting \cup {c} /\ GoTo(c, "insertBalance")
       ELSE UNCHANGED inserting /\ GoTo(c, "refind")
  /\ UNCHANGED <<result, accounts, balances, inserted>>

(* INSERT INTO account_balances (account_id, balance) VALUES ($1, 0). *)
InsertBalance(c) ==
  /\ pc[c] = "insertBalance"
  /\ inserted' = inserted \cup {c}
  /\ GoTo(c, "commit")
  /\ UNCHANGED <<result, accounts, balances, inserting>>

CommitAccountOnly(c) ==
  /\ pc[c] = "commit"
  /\ accounts' = accounts \cup {c}
  /\ inserting' = inserting \ {c}
  /\ Return(c, c)
  /\ UNCHANGED <<balances, inserted>>

(* The transaction callback returned: both rows become visible together.   *)
Commit(c) ==
  /\ pc[c] = "commit"
  /\ accounts' = accounts \cup {c}
  /\ balances' = balances \cup (inserted \cap {c})
  /\ inserting' = inserting \ {c}
  /\ inserted' = inserted \ {c}
  /\ Return(c, c)

(* Lost the race: the second findOne runs on a newer snapshot. *)
Refind(c) ==
  /\ pc[c] = "refind"
  /\ IF Existing(c) = {}
       THEN GoTo(c, "threw") /\ UNCHANGED result
       ELSE \E id \in Existing(c) : Return(c, id)
  /\ UNCHANGED <<accounts, balances, inserting, inserted>>

LoseConnectionKeepRow(c) ==
  /\ pc[c] \notin {"returned", "threw", "lost"}
  /\ GoTo(c, "lost")
  /\ UNCHANGED <<result, accounts, balances, inserting, inserted>>

(* The connection or the process dies: PostgreSQL rolls the call back. *)
LoseConnection(c) ==
  /\ pc[c] \notin {"returned", "threw", "lost"}
  /\ GoTo(c, "lost")
  /\ inserting' = inserting \ {c}
  /\ inserted' = inserted \ {c}
  /\ UNCHANGED <<result, accounts, balances>>

Step(c) ==
  Find(c) \/ Insert(c) \/ InsertBalance(c) \/ Commit(c) \/ Refind(c)

Next == \E c \in Call : Step(c) \/ LoseConnection(c)

Spec == Init /\ [][Next]_vars

---------------------------------------------------------------------------

(* One account per (owner, currency, kind), however many callers touch it  *)
(* first at the same time, and whichever of them fail on the way: every    *)
(* caller that gets an answer gets the same one (ensureAccount: "Safe      *)
(* under concurrent first-touch calls").                                   *)
OneAccountPerKey ==
  /\ \A a, b \in accounts : keyOf[a] = keyOf[b] => a = b
  /\ \A c, d \in Call :
       pc[c] = "returned" /\ pc[d] = "returned" /\ keyOf[c] = keyOf[d]
         => result[c] = result[d]

(* An id that a caller got can be posted to: its account and its balance   *)
(* row are committed, so postEntry's SELECT ... FOR UPDATE finds it.  And  *)
(* the loser of a race always finds the winner's row: the error after the  *)
(* second findOne is never thrown.                                         *)
AnswersArePostable ==
  \A c \in Call :
    /\ pc[c] = "returned" => result[c] \in accounts /\ result[c] \in balances
    /\ pc[c] # "threw"
============================================================================
