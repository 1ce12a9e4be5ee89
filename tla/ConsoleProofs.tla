--------------------------- MODULE ConsoleProofs ---------------------------
(***************************************************************************)
(* Theorems about Console, for any number of requests, quotes, rows, loads *)
(* and decisions on their way, and about Rates, which is behind the quotes *)
(* that it shows, for any number of calls, any time to live of the cache   *)
(* and any timeout of a request.  The two share no state.                  *)
(*                                                                         *)
(* The console's invariant has two parts: of requests with keys, on the    *)
(* convert and transfer pages, which is inductive by itself, and of lists, *)
(* on all pages with lists, which needs the first only where a reported    *)
(* transfer must be in the history.                                        *)
(***************************************************************************)
EXTENDS Console, Rates, FiniteSetTheorems, SequenceTheorems, TLAPS

---------------------------------------------------------------------------
(* Requests with keys: the inductive invariant *)

Labels ==
  {"travelling", "reclaiming", "rerunning", "handling", "committed", "answered"}

RequestRecord ==
  [key : Request, payload : Payload \cup {Blank}, intent : Request,
   at : Labels, reply : Replies \cup {None}]

RowRecord ==
  [status : {"absent", "processing", "stale", "completed"}, by : Request \cup {None},
   reply : Replies \cup {None}]

(* A key and what a user means by a form's content are known by the first  *)
(* request with them, and that content does not change.                    *)
SentInv ==
  \A i \in DOMAIN sent :
    /\ sent[i].key \in DOMAIN sent /\ sent[sent[i].key].key = sent[i].key
    /\ sent[i].intent \in DOMAIN sent /\ sent[i].payload = sent[sent[i].intent].payload

(* The pending key, what the form's content means and the awaited request  *)
(* are those of requests; the dialog is open only when none is pending.    *)
PageInv ==
  /\ key # None => key \in DOMAIN sent /\ sent[key].key = key
  /\ intent # None => intent \in DOMAIN sent /\ sent[intent].payload = form
  /\ awaited # None => sent[awaited].key = key
  /\ awaited # None /\ intent # None => sent[awaited].intent = intent
  /\ dialog # None => page = "convert" /\ key = None
  /\ confirmations <= Len(sent)

(* Where a request's handler is, and what it has done by then. *)
RanInv ==
  /\ \A i \in DOMAIN sent :
       /\ sent[i].reply # None => sent[i].at = "answered"
       /\ sent[i].at \in {"handling", "committed"} => i \in ran
       /\ sent[i].at = "committed" => i \in posted
  /\ \A i \in posted : sent[i].at \in {"committed", "answered"} /\ sent[i].payload # Blank

(* A row is of a request that inserted it, with its key, and caches an     *)
(* entry with that key or the refusal of a request that will never post.   *)
RowsInv ==
  \A k \in Request :
    /\ rows[k].status # "absent" => rows[k].by \in ran /\ sent[rows[k].by].key = k
    /\ rows[k].status = "absent" => rows[k].by = None
    /\ rows[k].status = "completed" =>
         \/ rows[k].reply \in posted /\ sent[rows[k].reply].key = k
         \/ /\ rows[k].reply = Refused
            /\ \E w \in ran \ posted : sent[w].key = k /\ sent[w].at = "answered"

Abandoned(k) == \E a \in abandoned : sent[a].key = k

(* Until an attempt is given up on, only the request that inserted a key's *)
(* row is at work under that key, and so it is its entry that is cached.   *)
OwnersInv ==
  /\ \A i \in DOMAIN sent : sent[i].at \in {"handling", "committed"} =>
       Abandoned(sent[i].key) \/ Row(i).by = i
  /\ \A k \in Request : rows[k].status = "completed" /\ rows[k].reply \in Request =>
       Abandoned(k) \/ rows[k].reply = rows[k].by

(* A reply other than an error is an entry with the same key and, unless   *)
(* an attempt was given up on, the same payload; a page reports what it    *)
(* was answered.                                                           *)
RepliesInv ==
  /\ \A i \in DOMAIN sent : sent[i].reply \in Request =>
       /\ sent[i].reply \in posted
       /\ sent[sent[i].reply].key = sent[i].key
       /\ \/ sent[sent[i].reply].payload = sent[i].payload
          \/ Abandoned(sent[i].key)
  /\ \A r \in reported : r[1] \in DOMAIN sent /\ sent[r[1]].reply = r[2]

(* Key k has been left open once, or has been used up by an attempt that   *)
(* was for another payload than p or that will never post.                 *)
Settled(k, p) ==
  \/ \E h \in DOMAIN sent : sent[h].key = k /\ sent[h].reply \in {InProgress, Failed}
  \/ \E w \in ran : /\ sent[w].key = k
                    /\ \/ sent[w].payload # p
                       \/ w \notin posted /\ sent[w].at = "answered"

(* A key is settled for what it was refused, and for what was sent with    *)
(* another key later, or will be with the pending one.                     *)
SettledInv ==
  /\ \A i \in DOMAIN sent :
       sent[i].reply = Refused /\ sent[i].payload # Blank => Settled(sent[i].key, sent[i].payload)
  /\ \A i, j \in DOMAIN sent :
       i < j /\ sent[i].intent = sent[j].intent /\ sent[i].key # sent[j].key
         /\ sent[i].payload # Blank => Settled(sent[i].key, sent[i].payload)
  /\ \A i \in DOMAIN sent :
       sent[i].intent = intent /\ sent[i].key # key /\ sent[i].payload # Blank
         => Settled(sent[i].key, sent[i].payload)

(* Attempts that neither have their row any more nor were given up on:     *)
(* handlers that failed without posting have deleted those rows, each of   *)
(* them one of its own key.                                                *)
Displaced == {i \in ran \ abandoned : Row(i).by # i}

Cleaners == {i \in ran \ posted : sent[i].reply = Failed}

ChargeInv ==
  \E f \in Injection(Displaced, Cleaners) : \A i \in Displaced : sent[f[i]].key = sent[i].key

ServerInv ==
  /\ RanInv
  /\ RowsInv
  /\ OwnersInv
  /\ RepliesInv
  /\ SettledInv
  /\ ChargeInv

Keys == {k \in DOMAIN sent : sent[k].key = k}

(* The convert page makes a key for each confirmation at most. *)
KeysInv == page = "convert" => Cardinality(Keys) <= confirmations

KeyedInv ==
  /\ KeyedTypeOK
  /\ SentInv
  /\ PageInv
  /\ ServerInv
  /\ KeysInv

---------------------------------------------------------------------------
(* Requests with keys: what their steps do *)

(* Where requests are. *)
LEMMA RequestsAre ==
  ASSUME KeyedTypeOK
  PROVE  /\ sent \in Seq(RequestRecord) /\ Len(sent) \in Nat /\ DOMAIN sent = 1..Len(sent)
         /\ DOMAIN sent \subseteq Request /\ \A i \in DOMAIN sent : sent[i] \in RequestRecord
         /\ None \notin Request \cup Replies /\ Request \subseteq Nat \ {0}
         /\ Request \cap Errors = {} /\ Refused \notin {InProgress, Failed}
<1>1. sent \in Seq(RequestRecord) /\ Len(sent) <= MaxRequests
  BY DEF KeyedTypeOK, RequestRecord, Labels
<1>2. /\ Len(sent) \in Nat /\ DOMAIN sent = 1..Len(sent)
      /\ \A i \in DOMAIN sent : sent[i] \in RequestRecord
  BY <1>1, LenProperties, ElementOfSeq
<1>3. DOMAIN sent \subseteq Request
  BY <1>1, <1>2, PageAssumption DEF Request
<1>4. None \notin Request \cup Replies /\ Request \subseteq Nat \ {0}
  BY PageAssumption DEF Request, Replies, Errors, Refused, InProgress, Failed
<1>5. Request \cap Errors = {} /\ Refused \notin {InProgress, Failed}
  BY DEF Request, Errors, Refused, InProgress, Failed
<1>. QED
  BY <1>1, <1>2, <1>3, <1>4, <1>5

(* Request i, and no other, goes on, and with it its reply. *)
Moves(i, at, reply) ==
  /\ sent' \in Seq(RequestRecord) /\ Len(sent') = Len(sent) /\ DOMAIN sent' = DOMAIN sent
  /\ \A j \in DOMAIN sent :
       /\ sent'[j].key = sent[j].key
       /\ sent'[j].payload = sent[j].payload
       /\ sent'[j].intent = sent[j].intent
       /\ sent'[j].at = IF j = i THEN at ELSE sent[j].at
       /\ sent'[j].reply = IF j = i THEN reply ELSE sent[j].reply

(* A reply, or the loss of a request, moves it. *)
LEMMA MovedByEdit ==
  ASSUME KeyedTypeOK, NEW i \in DOMAIN sent, NEW at \in Labels,
         NEW reply \in Replies \cup {None},
         \/ sent' = [sent EXCEPT ![i].at = at, ![i].reply = reply]
         \/ sent' = [sent EXCEPT ![i].at = at] /\ reply = sent[i].reply
         \/ sent' = sent /\ at = sent[i].at /\ reply = sent[i].reply
  PROVE  Moves(i, at, reply)
<1> DEFINE moved == [sent[i] EXCEPT !.at = at, !.reply = reply]
<1>1. /\ sent \in Seq(RequestRecord) /\ DOMAIN sent = 1..Len(sent)
      /\ \A j \in DOMAIN sent : sent[j] \in RequestRecord
  BY RequestsAre
<1>2. moved \in RequestRecord /\ moved.at = at /\ moved.reply = reply
      /\ moved.key = sent[i].key /\ moved.payload = sent[i].payload
      /\ moved.intent = sent[i].intent
  BY <1>1 DEF RequestRecord
<1>3. CASE sent' = sent /\ at = sent[i].at /\ reply = sent[i].reply
  BY <1>1, <1>3 DEF Moves
<1>4. CASE \/ sent' = [sent EXCEPT ![i].at = at, ![i].reply = reply]
           \/ sent' = [sent EXCEPT ![i].at = at] /\ reply = sent[i].reply
  <2>1. sent' = [sent EXCEPT ![i] = moved]
    BY <1>1, <1>4 DEF RequestRecord
  <2> HIDE DEF moved
  <2>2. /\ sent' \in Seq(RequestRecord) /\ Len(sent') = Len(sent)
        /\ \A j \in 1..Len(sent) : sent'[j] = IF j = i THEN moved ELSE sent[j]
    BY <1>1, <1>2, <2>1, ExceptSeq
  <2>3. DOMAIN sent' = DOMAIN sent
    BY <1>1, <2>2, LenProperties
  <2>. QED
    BY <1>1, <1>2, <2>2, <2>3 DEF Moves
<1>. QED
  BY <1>3, <1>4

(* Submitting appends one request, which is awaited. *)
LEMMA Submitted ==
  ASSUME KeyedTypeOK, Submit
  PROVE  /\ sent' \in Seq(RequestRecord) /\ Len(sent') = Len(sent) + 1
         /\ Len(sent') \in Request \ DOMAIN sent
         /\ DOMAIN sent' = DOMAIN sent \cup {Len(sent')}
         /\ \A j \in DOMAIN sent : sent'[j] = sent[j]
         /\ sent'[Len(sent')].key = key' /\ key' = IF key = None THEN Len(sent') ELSE key
         /\ sent'[Len(sent')].payload = form
         /\ sent'[Len(sent')].intent = intent' /\ intent' = IF intent = None THEN Len(sent') ELSE intent
         /\ sent'[Len(sent')].at = "travelling" /\ sent'[Len(sent')].reply = None
         /\ awaited' = Len(sent')
<1> DEFINE n == Len(sent) + 1
           meant == IF intent = None THEN n ELSE intent
           new == [key |-> key', payload |-> form, intent |-> meant,
                   at |-> "travelling", reply |-> None]
<1>1. /\ sent \in Seq(RequestRecord) /\ Len(sent) \in Nat /\ DOMAIN sent = 1..Len(sent)
  BY RequestsAre
<1>2. /\ n <= MaxRequests /\ sent' = Append(sent, new) /\ intent' = meant /\ awaited' = n
      /\ key' = IF key = None THEN n ELSE key
  BY DEF Submit, Post
<1>3. n \in Request \ DOMAIN sent
  BY <1>1, <1>2, PageAssumption DEF Request
<1>4. new \in RequestRecord
  BY <1>2, <1>3 DEF RequestRecord, KeyedTypeOK, Labels
<1> HIDE DEF new
<1>5. /\ sent' \in Seq(RequestRecord) /\ Len(sent') = n /\ sent'[n] = new
      /\ \A j \in 1..Len(sent) : sent'[j] = sent[j]
  BY <1>1, <1>2, <1>4, AppendProperties
<1>6. DOMAIN sent' = DOMAIN sent \cup {n}
  BY <1>1, <1>5, LenProperties
<1>. QED
  BY <1>1, <1>2, <1>3, <1>5, <1>6 DEF new

(* What the page knows of its requests stays true when one of them moves. *)
LEMMA MovesKeepPage ==
  ASSUME KeyedTypeOK, SentInv, PageInv, KeysInv,
         NEW i \in DOMAIN sent, NEW at, NEW reply, Moves(i, at, reply),
         UNCHANGED <<page, form, key, intent, dialog, confirmations>>, awaited' \in {awaited, None}
  PROVE  SentInv' /\ PageInv' /\ KeysInv'
<1> USE DEF Moves
<1>1. SentInv'
  BY RequestsAre DEF SentInv
<1>2. PageInv'
  BY RequestsAre DEF PageInv, SentInv, KeyedTypeOK
<1>3. Keys' = Keys
  BY DEF Keys
<1>. QED
  BY <1>1, <1>2, <1>3 DEF KeysInv

(* Requests stay what they are and keep their replies, and a request that  *)
(* has ended posts no more.                                                *)
Forward ==
  /\ DOMAIN sent \subseteq DOMAIN sent'
  /\ \A j \in DOMAIN sent :
       /\ sent'[j].key = sent[j].key /\ sent'[j].payload = sent[j].payload
       /\ sent[j].reply # None => sent'[j].reply = sent[j].reply
       /\ sent[j].at = "answered" => sent'[j].at = "answered"
  /\ ran \subseteq ran' /\ abandoned \subseteq abandoned'
  /\ \A j \in posted' \ posted : j \in DOMAIN sent /\ sent[j].at # "answered"

LEMMA ForwardKeeps ==
  ASSUME KeyedTypeOK, Forward, NEW k, NEW p
  PROVE  /\ Settled(k, p) => Settled(k, p)'
         /\ Abandoned(k) => Abandoned(k)'
<1>1. /\ ran \subseteq DOMAIN sent /\ abandoned \subseteq DOMAIN sent
      /\ None \notin {InProgress, Failed}
  BY RequestsAre DEF KeyedTypeOK, Replies, Errors
<1>2. ASSUME Abandoned(k) PROVE Abandoned(k)'
  BY <1>1, <1>2 DEF Abandoned, Forward
<1>3. ASSUME NEW h \in DOMAIN sent, sent[h].key = k, sent[h].reply \in {InProgress, Failed}
      PROVE  Settled(k, p)'
  <2>1. h \in DOMAIN sent' /\ sent'[h].key = k /\ sent'[h].reply = sent[h].reply
    BY <1>1, <1>3 DEF Forward
  <2>. QED
    BY <1>3, <2>1 DEF Settled
<1>4. ASSUME NEW w \in ran, sent[w].key = k,
             sent[w].payload # p \/ (w \notin posted /\ sent[w].at = "answered")
      PROVE  Settled(k, p)'
  <2>1. w \in ran' /\ sent'[w].key = k /\ sent'[w].payload = sent[w].payload
    BY <1>1, <1>4 DEF Forward
  <2>2. w \notin posted /\ sent[w].at = "answered" => w \notin posted' /\ sent'[w].at = "answered"
    BY <1>1 DEF Forward
  <2>. QED
    BY <1>4, <2>1, <2>2 DEF Settled
<1>. QED
  BY <1>2, <1>3, <1>4 DEF Settled

(* The server's part: request i moves and its handler may post.            *)
Goes(i, at, reply) ==
  /\ Moves(i, at, reply)
  /\ sent[i].at # "answered" /\ sent[i].reply = None
  /\ UNCHANGED <<intent, key, reported>>
  /\ ran \subseteq ran' /\ ran' \subseteq ran \cup {i}
  /\ posted \subseteq posted' /\ posted' \subseteq posted \cup {i}
  /\ abandoned \subseteq abandoned'
  /\ reply # None => at = "answered"
  /\ at \in {"handling", "committed"} => i \in ran'
  /\ at = "committed" => i \in posted'
  /\ i \in posted' => /\ i \in ran' /\ at \in {"committed", "answered"}
                      /\ sent[i].payload # Blank

LEMMA GoesForward ==
  ASSUME KeyedTypeOK, NEW i \in DOMAIN sent, NEW at, NEW reply, Goes(i, at, reply)
  PROVE  Forward
BY DEF Goes, Moves, Forward

LEMMA GoesKeepsRan ==
  ASSUME KeyedTypeOK, RanInv, NEW i \in DOMAIN sent, NEW at, NEW reply, Goes(i, at, reply)
  PROVE  RanInv'
<1>1. posted \subseteq DOMAIN sent
  BY DEF KeyedTypeOK
<1>2. \A j \in DOMAIN sent :
        /\ sent'[j].reply # None => sent'[j].at = "answered"
        /\ sent'[j].at \in {"handling", "committed"} => j \in ran'
        /\ sent'[j].at = "committed" => j \in posted'
  BY DEF RanInv, Goes, Moves
<1>3. \A j \in posted' : sent'[j].at \in {"committed", "answered"} /\ sent'[j].payload # Blank
  BY <1>1 DEF RanInv, Goes, Moves
<1>. QED
  BY <1>2, <1>3 DEF RanInv, Goes, Moves

(* What is settled stays so, and what is refused is settled. *)
LEMMA GoesKeepsSettled ==
  ASSUME KeyedTypeOK, SettledInv, NEW i \in DOMAIN sent, NEW at, NEW reply, Goes(i, at, reply),
         \/ reply # Refused
         \/ sent[i].payload = Blank
         \/ Settled(sent[i].key, sent[i].payload)'
  PROVE  SettledInv'
<1>1. \A j \in DOMAIN sent : Settled(sent[j].key, sent[j].payload)
                               => Settled(sent[j].key, sent[j].payload)'
  <2> SUFFICES ASSUME NEW j \in DOMAIN sent, Settled(sent[j].key, sent[j].payload)
               PROVE  Settled(sent[j].key, sent[j].payload)'
    OBVIOUS
  <2>1. PICK k, p : k = sent[j].key /\ p = sent[j].payload
    OBVIOUS
  <2>2. Settled(k, p)'
    <3>1. Settled(k, p)
      BY ONLY <2>1, Settled(sent[j].key, sent[j].payload)
    <3>2. Forward
      BY GoesForward
    <3>. QED
      BY <3>1, <3>2, ForwardKeeps
  <2>3. sent'[j].key = k /\ sent'[j].payload = p
    BY <2>1 DEF Goes, Moves
  <2>. QED
    BY <2>2, <2>3 DEF Settled
<1>2. \A j \in DOMAIN sent : sent'[j].reply = Refused /\ sent[j].payload # Blank
        => Settled(sent[j].key, sent[j].payload)'
  <2> SUFFICES ASSUME NEW j \in DOMAIN sent, sent'[j].reply = Refused, sent[j].payload # Blank
               PROVE  Settled(sent[j].key, sent[j].payload)'
    OBVIOUS
  <2>1. CASE j = i /\ Settled(sent[i].key, sent[i].payload)'
    BY <2>1
  <2>2. CASE j # i
    BY <1>1, <2>2 DEF SettledInv, Goes, Moves
  <2>. QED
    BY <2>1, <2>2 DEF Goes, Moves
<1>3. /\ DOMAIN sent' = DOMAIN sent /\ key' = key /\ intent' = intent
      /\ \A j \in DOMAIN sent : /\ sent'[j].key = sent[j].key
                                 /\ sent'[j].payload = sent[j].payload
                                 /\ sent'[j].intent = sent[j].intent
  BY DEF Goes, Moves
<1> HIDE DEF Settled
<1>. QED
  BY <1>1, <1>2, <1>3 DEF SettledInv

(* What was replied and reported stays true when a request is answered.    *)
LEMMA GoesKeepsReplies ==
  ASSUME KeyedTypeOK, RepliesInv, NEW i \in DOMAIN sent, NEW at, NEW reply, Goes(i, at, reply),
         reply \in Request =>
           /\ reply \in posted' /\ sent'[reply].key = sent[i].key
           /\ sent'[reply].payload = sent[i].payload \/ Abandoned(sent[i].key)
  PROVE  RepliesInv'
<1>1. posted \subseteq DOMAIN sent /\ None \notin Request
  BY RequestsAre DEF KeyedTypeOK
<1>2. \A j \in DOMAIN sent : Abandoned(sent[j].key) => Abandoned(sent[j].key)'
  <2> SUFFICES ASSUME NEW j \in DOMAIN sent, Abandoned(sent[j].key)
               PROVE  Abandoned(sent[j].key)'
    OBVIOUS
  <2>1. PICK k : k = sent[j].key
    OBVIOUS
  <2>2. Abandoned(k)'
    BY <2>1, GoesForward, ForwardKeeps
  <2>. QED
    BY <2>1, <2>2 DEF Abandoned, Goes, Moves
<1> HIDE DEF Abandoned
<1>3. ASSUME NEW j \in DOMAIN sent, sent'[j].reply \in Request
      PROVE  /\ sent'[j].reply \in posted'
             /\ sent'[sent'[j].reply].key = sent'[j].key
             /\ \/ sent'[sent'[j].reply].payload = sent'[j].payload
                \/ Abandoned(sent[j].key)'
  <2>1. CASE j = i
    BY <1>2, <1>3, <2>1 DEF Goes, Moves
  <2>2. CASE j # i
    <3>1. /\ sent'[j].reply = sent[j].reply /\ sent[j].reply \in posted
          /\ sent[sent[j].reply].key = sent[j].key
          /\ sent[sent[j].reply].payload = sent[j].payload \/ Abandoned(sent[j].key)
      BY <1>3, <2>2 DEF Goes, Moves, RepliesInv
    <3>. QED
      BY <1>1, <1>2, <3>1 DEF Goes, Moves
  <2>. QED
    BY <2>1, <2>2
<1>4. \A r \in reported : r[1] \in DOMAIN sent /\ sent'[r[1]].reply = r[2]
  <2> SUFFICES ASSUME NEW r \in reported
               PROVE  r[1] \in DOMAIN sent /\ sent'[r[1]].reply = r[2]
    OBVIOUS
  <2>1. r[2] \in Request /\ r[1] \in DOMAIN sent /\ sent[r[1]].reply = r[2]
    BY DEF KeyedTypeOK, RepliesInv
  <2>2. r[1] # i
    BY <1>1, <2>1 DEF Goes
  <2>. QED
    BY <2>1, <2>2 DEF Goes, Moves
<1>5. DOMAIN sent' = DOMAIN sent /\ reported' = reported
      /\ \A j \in DOMAIN sent : sent'[j].key = sent[j].key
  BY DEF Goes, Moves
<1>. QED
  BY <1>3, <1>4, <1>5 DEF RepliesInv

(* The injection of ChargeInv need not change while no attempt is displaced. *)
LEMMA ChargeKept ==
  ASSUME KeyedTypeOK, ChargeInv, Displaced' \subseteq Displaced, Cleaners \subseteq Cleaners',
         \A j \in DOMAIN sent : sent'[j].key = sent[j].key
  PROVE  ChargeInv'
<1>1. PICK f \in Injection(Displaced, Cleaners) :
        \A i \in Displaced : sent[f[i]].key = sent[i].key
  BY DEF ChargeInv
<1>2. Displaced \subseteq DOMAIN sent /\ Cleaners \subseteq DOMAIN sent
  BY DEF KeyedTypeOK, Displaced, Cleaners
<1> DEFINE g == [i \in Displaced' |-> f[i]]
<1>3. g \in Injection(Displaced', Cleaners')
  BY <1>1 DEF Injection, IsInjective
<1>4. \A i \in Displaced' : sent'[g[i]].key = sent'[i].key
  <2>1. \A i \in Displaced : f[i] \in Cleaners
    BY <1>1 DEF Injection
  <2>. QED
    BY <1>1, <1>2, <2>1
<1>. QED
  BY <1>3, <1>4 DEF ChargeInv

(* A handler that fails without posting, and displaces one attempt.        *)
LEMMA ChargeGrows ==
  ASSUME KeyedTypeOK, ChargeInv, NEW i \in Cleaners' \ Cleaners, NEW o \in DOMAIN sent,
         i \in DOMAIN sent, sent[o].key = sent[i].key,
         Displaced' \subseteq Displaced \cup {o}, Cleaners \subseteq Cleaners',
         \A j \in DOMAIN sent : sent'[j].key = sent[j].key
  PROVE  ChargeInv'
<1>1. PICK f \in Injection(Displaced, Cleaners) :
        \A j \in Displaced : sent[f[j]].key = sent[j].key
  BY DEF ChargeInv
<1>2. Displaced \subseteq DOMAIN sent /\ Cleaners \subseteq DOMAIN sent
  BY DEF KeyedTypeOK, Displaced, Cleaners
<1>3. \A j \in Displaced : f[j] \in Cleaners
  BY <1>1 DEF Injection
<1> DEFINE g == [j \in Displaced' |-> IF j = o THEN i ELSE f[j]]
<1>4. g \in Injection(Displaced', Cleaners')
  <2>1. \A j \in Displaced' : g[j] \in Cleaners'
    BY <1>3
  <2>2. \A j, l \in Displaced' : g[j] = g[l] => j = l
    BY <1>1, <1>3 DEF Injection, IsInjective
  <2>. QED
    BY <2>1, <2>2 DEF Injection, IsInjective
<1>5. \A j \in Displaced' : sent'[g[j]].key = sent'[j].key
  BY <1>1, <1>2, <1>3
<1>. QED
  BY <1>4, <1>5 DEF ChargeInv

(* Those that have failed without posting remain. *)
LEMMA GoesKeepsCleaners ==
  ASSUME KeyedTypeOK, NEW i \in DOMAIN sent, NEW at, NEW reply, Goes(i, at, reply)
  PROVE  Cleaners \subseteq Cleaners' /\ i \notin Cleaners
<1>1. None # Failed
  BY RequestsAre DEF Replies, Errors
<1>2. ran \subseteq DOMAIN sent
  BY DEF KeyedTypeOK
<1>. QED
  BY <1>1, <1>2 DEF Cleaners, Goes, Moves

(* Steps that change no row. *)
LEMMA SameRows ==
  ASSUME KeyedTypeOK, ServerInv, NEW i \in DOMAIN sent, NEW at, NEW reply, Goes(i, at, reply),
         UNCHANGED <<rows, ran, abandoned>>,
         at \in {"handling", "committed"} => sent[i].at \in {"handling", "committed"}
  PROVE  RowsInv' /\ OwnersInv' /\ ChargeInv'
<1>1. /\ posted \subseteq DOMAIN sent /\ ran \subseteq DOMAIN sent /\ abandoned \subseteq DOMAIN sent
      /\ RowsInv /\ OwnersInv /\ ChargeInv /\ RanInv
      /\ \A j \in DOMAIN sent : sent'[j].key = sent[j].key
      /\ DOMAIN sent' = DOMAIN sent /\ posted \subseteq posted'
  BY DEF KeyedTypeOK, ServerInv, Goes, Moves
<1>2. RowsInv'
  <2> SUFFICES ASSUME NEW k \in Request
      PROVE  /\ rows[k].status # "absent" => rows[k].by \in ran /\ sent'[rows[k].by].key = k
             /\ rows[k].status = "absent" => rows[k].by = None
             /\ rows[k].status = "completed" =>
                  \/ rows[k].reply \in posted' /\ sent'[rows[k].reply].key = k
                  \/ /\ rows[k].reply = Refused
                     /\ \E w \in ran \ posted' : sent'[w].key = k /\ sent'[w].at = "answered"
    BY DEF RowsInv
  <2>1. \A w \in ran \ posted : sent[w].at = "answered"
          => w \in ran \ posted' /\ sent'[w].at = "answered"
    BY <1>1 DEF Goes, Moves
  <2>. QED
    BY <1>1, <2>1 DEF RowsInv
<1>3. OwnersInv'
  <2>1. \A k : Abandoned(k)' <=> Abandoned(k)
    BY <1>1 DEF Abandoned
  <2>2. \A j \in DOMAIN sent : sent'[j].at \in {"handling", "committed"}
          => sent[j].at \in {"handling", "committed"}
    BY DEF Goes, Moves
  <2>3. \A j \in DOMAIN sent : Abandoned(sent[j].key)' <=> Abandoned(sent[j].key)
    BY <1>1 DEF Abandoned
  <2>4. \A j \in DOMAIN sent : Row(j)' = Row(j)
    BY <1>1 DEF Row
  <2> HIDE DEF Abandoned, Row
  <2>. QED
    BY <1>1, <2>1, <2>2, <2>3, <2>4 DEF OwnersInv
<1>4. ChargeInv'
  <2>1. Displaced' \subseteq Displaced
    BY <1>1 DEF Displaced, Row
  <2>. QED
    BY <1>1, <2>1, GoesKeepsCleaners, ChargeKept
<1>. QED
  BY <1>2, <1>3, <1>4

(* A key that has no row gets one. *)
LEMMA ClaimedRows ==
  ASSUME KeyedTypeOK, ServerInv, NEW i \in DOMAIN sent, sent[i].key \in Request,
         Goes(i, "handling", None), Row(i).status = "absent",
         rows' = [rows EXCEPT ![sent[i].key] =
                    [status |-> "processing", by |-> i, reply |-> None]],
         ran' = ran \cup {i}, UNCHANGED <<posted, abandoned>>
  PROVE  RowsInv' /\ OwnersInv' /\ ChargeInv'
<1> DEFINE k == sent[i].key
<1>1. /\ posted \subseteq DOMAIN sent /\ ran \subseteq DOMAIN sent /\ abandoned \subseteq DOMAIN sent
      /\ RowsInv /\ OwnersInv /\ ChargeInv /\ RanInv
      /\ \A j \in DOMAIN sent : sent'[j].key = sent[j].key
      /\ \A j \in DOMAIN sent \ {i} : sent'[j] .at = sent[j].at
      /\ DOMAIN sent' = DOMAIN sent
  BY DEF KeyedTypeOK, ServerInv, Goes, Moves
<1>2. /\ k \in Request /\ rows[k].status = "absent" /\ rows[k].by = None /\ None \notin DOMAIN sent
      /\ rows'[k] = [status |-> "processing", by |-> i, reply |-> None]
      /\ \A l \in Request \ {k} : rows'[l] = rows[l]
  BY <1>1, RequestsAre DEF Row, KeyedTypeOK, RowsInv
<1>3. RowsInv'
  <2> SUFFICES ASSUME NEW l \in Request
      PROVE  /\ rows'[l].status # "absent" => rows'[l].by \in ran' /\ sent'[rows'[l].by].key = l
             /\ rows'[l].status = "absent" => rows'[l].by = None
             /\ rows'[l].status = "completed" =>
                  \/ rows'[l].reply \in posted /\ sent'[rows'[l].reply].key = l
                  \/ /\ rows'[l].reply = Refused
                     /\ \E w \in ran' \ posted : sent'[w].key = l /\ sent'[w].at = "answered"
    BY DEF RowsInv
  <2>1. CASE l = k
    BY <1>1, <1>2, <2>1
  <2>2. CASE l # k
    <3>1. \A w \in ran \ posted : sent[w].at = "answered" => sent'[w].at = "answered"
      BY <1>1 DEF Goes
    <3>. QED
      BY <1>1, <1>2, <2>2, <3>1 DEF RowsInv
  <2>. QED
    BY <2>1, <2>2
<1>4. OwnersInv'
  <2>1. \A l : Abandoned(l)' <=> Abandoned(l)
    BY <1>1 DEF Abandoned
  <2>2. \A j \in DOMAIN sent : Abandoned(sent[j].key)' <=> Abandoned(sent[j].key)
    BY <1>1 DEF Abandoned
  <2>3. \A j \in DOMAIN sent : sent[j].key = k => Row(j)'.by = i /\ Row(j).by = None
    BY <1>1, <1>2 DEF Row
  <2>4. \A j \in DOMAIN sent : sent[j].key # k => Row(j)' = Row(j)
    BY <1>1, <1>2, RequestsAre DEF Row, RequestRecord
  <2>5. \A j \in DOMAIN sent : sent'[j].at \in {"handling", "committed"} =>
          Abandoned(sent[j].key)' \/ Row(j)'.by = j
    <3> SUFFICES ASSUME NEW j \in DOMAIN sent, sent'[j].at \in {"handling", "committed"}
                 PROVE  Abandoned(sent[j].key)' \/ Row(j)'.by = j
      OBVIOUS
    <3>1. CASE j = i
      BY <2>3, <3>1
    <3>2. CASE j # i
      <4>1. Abandoned(sent[j].key) \/ Row(j).by = j
        BY <1>1, <3>2 DEF OwnersInv
      <4> HIDE DEF Abandoned, Row
      <4>. QED
        BY <1>2, <2>2, <2>3, <2>4, <4>1
    <3>. QED
      BY <3>1, <3>2
  <2>6. \A l \in Request : rows'[l].status = "completed" /\ rows'[l].reply \in Request =>
          Abandoned(l)' \/ rows'[l].reply = rows'[l].by
    BY <1>1, <1>2, <2>1 DEF OwnersInv
  <2> HIDE DEF Abandoned, Row
  <2>. QED
    BY <1>1, <2>5, <2>6 DEF OwnersInv
<1>5. ChargeInv'
  <2>1. Displaced' \subseteq Displaced
    <3> SUFFICES ASSUME NEW j \in Displaced' PROVE j \in Displaced
      OBVIOUS
    <3>1. j # i /\ j \in ran \ abandoned /\ rows'[sent'[j].key].by # j
      BY <1>1, <1>2 DEF Displaced, Row
    <3>2. sent[j].key \in Request /\ j # None
      BY <1>1, <3>1, RequestsAre DEF RequestRecord
    <3>. QED
      BY <1>1, <1>2, <3>1, <3>2 DEF Displaced, Row
  <2>. QED
    BY <1>1, <2>1, GoesKeepsCleaners, ChargeKept
<1>. QED
  BY <1>3, <1>4, <1>5

(* A key's row is deleted, by a request that gives its owner up or that    *)
(* fails without posting.                                                  *)
LEMMA DeletedRows ==
  ASSUME KeyedTypeOK, ServerInv, NEW i \in DOMAIN sent, sent[i].key \in Request,
         NEW at \in {"rerunning", "answered"}, NEW reply, Goes(i, at, reply),
         rows' = [rows EXCEPT ![sent[i].key] = NoRow],
         UNCHANGED <<posted, ran>>,
         \/ abandoned' = abandoned \cup {Row(i).by} /\ Row(i).status # "absent"
         \/ abandoned' = abandoned /\ Row(i).status = "absent"
         \/ abandoned' = abandoned /\ sent[i].at = "handling" /\ reply = Failed
  PROVE  RowsInv' /\ OwnersInv' /\ ChargeInv'
<1> DEFINE k == sent[i].key
<1>1. /\ posted \subseteq DOMAIN sent /\ ran \subseteq DOMAIN sent /\ abandoned \subseteq DOMAIN sent
      /\ RowsInv /\ OwnersInv /\ ChargeInv /\ RanInv
      /\ \A j \in DOMAIN sent : sent'[j].key = sent[j].key
      /\ \A j \in DOMAIN sent \ {i} : sent'[j] .at = sent[j].at
      /\ sent'[i].at \notin {"handling", "committed"} /\ sent[i].at # "answered"
      /\ DOMAIN sent' = DOMAIN sent /\ sent'[i].reply = reply /\ sent[i].reply = None
      /\ abandoned \subseteq abandoned'
  BY DEF KeyedTypeOK, ServerInv, Goes, Moves
<1>2. /\ k \in Request /\ rows'[k] = NoRow /\ None \notin DOMAIN sent
      /\ \A l \in Request \ {k} : rows'[l] = rows[l]
      /\ Row(i) = rows[k] /\ \A j \in DOMAIN sent : sent[j].key \in Request
  BY <1>1, RequestsAre DEF Row, KeyedTypeOK, RequestRecord
<1>3. RowsInv'
  <2> SUFFICES ASSUME NEW l \in Request
      PROVE  /\ rows'[l].status # "absent" => rows'[l].by \in ran /\ sent'[rows'[l].by].key = l
             /\ rows'[l].status = "absent" => rows'[l].by = None
             /\ rows'[l].status = "completed" =>
                  \/ rows'[l].reply \in posted /\ sent'[rows'[l].reply].key = l
                  \/ /\ rows'[l].reply = Refused
                     /\ \E w \in ran \ posted : sent'[w].key = l /\ sent'[w].at = "answered"
    BY DEF RowsInv
  <2>1. CASE l = k
    BY <1>2, <2>1 DEF NoRow
  <2>2. CASE l # k
    <3>1. \A w \in ran \ posted : sent[w].at = "answered" => sent'[w].at = "answered"
      BY <1>1
    <3>. QED
      BY <1>1, <1>2, <2>2, <3>1 DEF RowsInv
  <2>. QED
    BY <2>1, <2>2
<1>4. OwnersInv'
  <2>1. \A l : Abandoned(l) => Abandoned(l)'
    BY <1>1 DEF Abandoned
  <2>2. ASSUME NEW j \in DOMAIN sent \ {i}, sent[j].at \in {"handling", "committed"},
               sent[j].key = k
        PROVE  \E a \in abandoned' : sent[a].key = k
    <3>1. Abandoned(k) \/ rows[k].by = j
      BY <1>1, <2>2 DEF OwnersInv, Row, Abandoned
    <3>2. CASE Abandoned(k)
      BY <1>1, <3>2 DEF Abandoned
    <3>3. CASE rows[k].by = j
      <4>1. rows[k].status # "absent" /\ rows[k].by # i
        BY <1>1, <1>2, <3>3 DEF RowsInv
      <4>2. CASE abandoned' = abandoned \cup {Row(i).by}
        BY <1>2, <2>2, <3>3, <4>2
      <4>3. CASE sent[i].at = "handling"
        BY <1>1, <1>2, <4>1, <4>3 DEF OwnersInv, Abandoned
      <4>. QED
        BY <1>2, <4>1, <4>2, <4>3
    <3>. QED
      BY <3>1, <3>2, <3>3
  <2>3. ASSUME NEW j \in DOMAIN sent, sent'[j].at \in {"handling", "committed"}
        PROVE  (\E a \in abandoned' : sent[a].key = sent[j].key) \/ rows'[sent[j].key].by = j
    <3>1. j # i /\ sent[j].at \in {"handling", "committed"}
      BY <1>1, <2>3
    <3>2. CASE sent[j].key = k
      BY <2>2, <3>1, <3>2
    <3>3. CASE sent[j].key # k
      BY <1>1, <1>2, <3>1, <3>3 DEF OwnersInv, Row, Abandoned
    <3>. QED
      BY <3>2, <3>3
  <2>4. abandoned' \subseteq DOMAIN sent
    BY <1>1, <1>2 DEF RowsInv
  <2>5. ASSUME NEW l \in Request, rows'[l].status = "completed", rows'[l].reply \in Request
        PROVE  Abandoned(l)' \/ rows'[l].reply = rows'[l].by
    <3>1. l # k
      BY <1>2, <2>5 DEF NoRow
    <3>2. Abandoned(l) \/ rows[l].reply = rows[l].by
      BY <1>1, <1>2, <2>5, <3>1 DEF OwnersInv
    <3> HIDE DEF Abandoned
    <3>. QED
      BY <1>2, <2>1, <3>1, <3>2
  <2>6. ASSUME NEW j \in DOMAIN sent', sent'[j].at \in {"handling", "committed"}
        PROVE  (\E a \in abandoned' : sent'[a].key = sent'[j].key) \/ rows'[sent'[j].key].by = j
    BY <1>1, <2>3, <2>4, <2>6
  <2>. QED
    BY <2>5, <2>6 DEF OwnersInv, Row, Abandoned
<1>5. ChargeInv'
  <2>1. ASSUME NEW j \in Displaced' PROVE j \in Displaced \/ rows[k].by = j
    <3>1. j \in ran \ abandoned /\ j \in DOMAIN sent /\ rows'[sent[j].key].by # j
      BY <1>1 DEF Displaced, Row
    <3>2. CASE sent[j].key = k
      BY <3>1, <3>2 DEF Displaced, Row
    <3>3. CASE sent[j].key # k
      BY <1>2, <3>1, <3>3 DEF Displaced, Row
    <3>. QED
      BY <3>2, <3>3
  <2>2. Cleaners \subseteq Cleaners' /\ i \notin Cleaners
    BY GoesKeepsCleaners
  <2>3. CASE Row(i).by \in abandoned' \/ Row(i).status = "absent"
    <3>1. ASSUME NEW j \in Displaced', rows[k].by = j PROVE FALSE
      <4>1. j \in ran \ abandoned' /\ j \in DOMAIN sent /\ j # None
        BY <1>1, <1>2 DEF Displaced
      <4>. QED
        BY <1>1, <1>2, <2>3, <3>1, <4>1 DEF RowsInv
    <3>2. Displaced' \subseteq Displaced
      BY <2>1, <3>1
    <3>. QED
      BY <1>1, <2>2, <3>2, ChargeKept
  <2>4. CASE Row(i).status # "absent" /\ sent[i].at = "handling" /\ reply = Failed
    <3>1. rows[k].by \in DOMAIN sent /\ sent[rows[k].by].key = k
      BY <1>1, <1>2, <2>4 DEF RowsInv
    <3>2. i \in Cleaners'
      BY <1>1, <2>4 DEF Cleaners, RanInv
    <3>3. Displaced' \subseteq Displaced \cup {rows[k].by}
      BY <2>1
    <3>. QED
      BY <1>1, <2>2, <3>1, <3>2, <3>3, ChargeGrows
  <2>. QED
    BY <2>3, <2>4
<1>. QED
  BY <1>3, <1>4, <1>5

(* A handler completes whatever row its key has. *)
LEMMA CompletedRows ==
  ASSUME KeyedTypeOK, ServerInv, NEW i \in DOMAIN sent, sent[i].key \in Request,
         NEW at \in {"committed", "answered"}, NEW reply, Goes(i, at, reply),
         NEW outcome \in {i, Refused}, Complete(i, outcome),
         UNCHANGED <<posted, ran, abandoned>>,
         outcome = i => sent[i].at = "committed",
         outcome = Refused => sent[i].at = "handling" /\ at = "answered"
  PROVE  RowsInv' /\ OwnersInv' /\ ChargeInv'
<1> DEFINE k == sent[i].key
<1>1. /\ posted \subseteq DOMAIN sent /\ ran \subseteq DOMAIN sent /\ abandoned \subseteq DOMAIN sent
      /\ RowsInv /\ OwnersInv /\ ChargeInv /\ RanInv
      /\ \A j \in DOMAIN sent : sent'[j].key = sent[j].key
      /\ \A j \in DOMAIN sent \ {i} : sent'[j] .at = sent[j].at
      /\ sent'[i].at = at /\ sent[i].at \in {"handling", "committed"}
      /\ DOMAIN sent' = DOMAIN sent
  BY DEF KeyedTypeOK, ServerInv, Goes, Moves
<1>2. /\ k \in Request /\ i \in Request /\ Refused \notin Request
      /\ \A l \in Request : rows'[l].by = rows[l].by
      /\ \A l \in Request \ {k} : rows'[l] = rows[l]
      /\ rows[k].status = "absent" => rows'[k] = rows[k]
      /\ rows[k].status # "absent" => rows'[k].status = "completed" /\ rows'[k].reply = outcome
      /\ \A j \in DOMAIN sent : sent[j].key \in Request
  BY RequestsAre DEF Row, KeyedTypeOK, RequestRecord, Complete, Errors
<1>3. RowsInv'
  <2> SUFFICES ASSUME NEW l \in Request
      PROVE  /\ rows'[l].status # "absent" => rows'[l].by \in ran /\ sent'[rows'[l].by].key = l
             /\ rows'[l].status = "absent" => rows'[l].by = None
             /\ rows'[l].status = "completed" =>
                  \/ rows'[l].reply \in posted /\ sent'[rows'[l].reply].key = l
                  \/ /\ rows'[l].reply = Refused
                     /\ \E w \in ran \ posted : sent'[w].key = l /\ sent'[w].at = "answered"
    BY DEF RowsInv
  <2>1. \A w \in ran \ posted : sent[w].at = "answered" => sent'[w].at = "answered"
    BY <1>1
  <2>2. CASE l = k /\ rows[k].status # "absent"
    <3>1. rows[k].by \in ran /\ sent'[rows[k].by].key = k
      BY <1>1, <1>2, <2>2 DEF RowsInv
    <3>2. CASE outcome = i
      BY <1>1, <1>2, <2>2, <3>1, <3>2 DEF RanInv
    <3>3. CASE outcome = Refused
      BY <1>1, <1>2, <2>2, <3>1, <3>3 DEF RanInv
    <3>. QED
      BY <3>2, <3>3
  <2>3. CASE l # k \/ rows[k].status = "absent"
    BY <1>1, <1>2, <2>1, <2>3 DEF RowsInv
  <2>. QED
    BY <2>2, <2>3
<1>4. OwnersInv'
  <2>1. ASSUME NEW j \in DOMAIN sent', sent'[j].at \in {"handling", "committed"}
        PROVE  (\E a \in abandoned : sent'[a].key = sent'[j].key) \/ rows'[sent'[j].key].by = j
    <3>1. sent[j].at \in {"handling", "committed"}
      BY <1>1, <2>1
    <3>. QED
      BY <1>1, <1>2, <3>1 DEF OwnersInv, Row, Abandoned
  <2>2. ASSUME NEW l \in Request, rows'[l].status = "completed", rows'[l].reply \in Request
        PROVE  (\E a \in abandoned : sent'[a].key = l) \/ rows'[l].reply = rows'[l].by
    <3>1. CASE l = k /\ rows[k].status # "absent"
      <4>1. outcome = i
        BY <1>2, <2>2, <3>1
      <4>2. (\E a \in abandoned : sent[a].key = k) \/ rows[k].by = i
        BY <1>1 DEF OwnersInv, Row, Abandoned
      <4>. QED
        BY <1>1, <1>2, <3>1, <4>1, <4>2
    <3>2. CASE l # k \/ rows[k].status = "absent"
      BY <1>1, <1>2, <2>2, <3>2 DEF OwnersInv, Abandoned
    <3>. QED
      BY <3>1, <3>2
  <2>. QED
    BY <2>1, <2>2 DEF OwnersInv, Row, Abandoned
<1>5. ChargeInv'
  <2>1. Displaced' \subseteq Displaced
    BY <1>1, <1>2 DEF Displaced, Row
  <2>. QED
    BY <1>1, <2>1, GoesKeepsCleaners, ChargeKept
<1>. QED
  BY <1>3, <1>4, <1>5

(* The server's part in a request, from arrival to answer, keeps all that. *)
LEMMA ServerKeepsKeyed ==
  ASSUME KeyedInv, NEW i \in DOMAIN sent, ServerStep(i) \/ HandlerReturns(i), page' = page
  PROVE  KeyedInv'
<1> DEFINE k == sent[i].key
<1>1. KeyedTypeOK /\ SentInv /\ PageInv /\ KeysInv /\ ServerInv
  BY DEF KeyedInv
<1>2. /\ k \in Request /\ i \in Request /\ rows \in [Request -> RowRecord] /\ Row(i) = rows[k]
      /\ rows[k] \in RowRecord /\ sent[i].at \in Labels
      /\ sent[i].payload \in Payload \cup {Blank}
      /\ Errors \subseteq Replies /\ i \in Replies /\ Request \cap Errors = {}
      /\ Refused \notin {InProgress, Failed} /\ Errors = {Refused, InProgress, Failed}
      /\ None \notin Request \cup Replies
  <2>1. sent[i] \in RequestRecord /\ i \in Request
    BY <1>1, RequestsAre
  <2>2. rows \in [Request -> RowRecord] /\ k \in Request
    BY <1>1, <2>1 DEF KeyedTypeOK, RequestRecord, RowRecord
  <2>. QED
    BY <1>1, <2>1, <2>2, RequestsAre DEF RequestRecord, Replies, Errors, Row
<1>3. /\ UNCHANGED client
      /\ UNCHANGED <<page, form, key, intent, awaited, dialog, confirmations, reported>>
  BY DEF ServerStep, Arrive, Reclaim, Finalize, HandlerReturns, HandlerRejects, CleanUp, GiveUp,
         client, inputs
<1>4. /\ sent[i].at # "answered" => sent[i].reply = None
      /\ i \in posted => sent[i].at \in {"committed", "answered"} /\ sent[i].payload # Blank
      /\ sent[i].at \in {"handling", "committed"} => i \in ran
      /\ sent[i].at = "committed" => i \in posted
      /\ i \notin ran => i \notin posted
  BY <1>1 DEF ServerInv, RanInv, KeyedTypeOK
<1>5. ASSUME NEW at \in Labels, NEW reply, Goes(i, at, reply),
             rows' \in [Request -> RowRecord], abandoned' \subseteq ran',
             RowsInv' /\ OwnersInv' /\ ChargeInv',
             reply \in Request =>
               /\ reply \in posted' /\ sent'[reply].key = sent[i].key
               /\ sent'[reply].payload = sent[i].payload \/ Abandoned(sent[i].key),
             \/ reply # Refused
             \/ sent[i].payload = Blank
             \/ Settled(sent[i].key, sent[i].payload)'
      PROVE  KeyedInv'
  <2>1. Moves(i, at, reply)
    BY <1>5 DEF Goes
  <2>2. SentInv' /\ PageInv' /\ KeysInv'
    BY <1>1, <1>3, <2>1, MovesKeepPage
  <2>3. SettledInv'
    BY <1>1, <1>5, GoesKeepsSettled DEF ServerInv
  <2>4. RepliesInv'
    BY <1>1, <1>5, GoesKeepsReplies DEF ServerInv
  <2>5. RanInv'
    BY <1>1, <1>5, GoesKeepsRan DEF ServerInv
  <2>6. KeyedTypeOK'
    <3>1. posted' \subseteq ran' /\ ran' \subseteq DOMAIN sent'
      BY <1>1, <1>5, <2>1 DEF KeyedTypeOK, Goes, Moves
    <3>. QED
      BY <1>1, <1>3, <1>5, <2>1, <3>1 DEF KeyedTypeOK, Moves, client, inputs, RequestRecord,
                                          RowRecord, Labels
  <2>. QED
    BY <1>5, <2>2, <2>3, <2>4, <2>5, <2>6 DEF KeyedInv, ServerInv
<1>6. ASSUME NEW at \in Labels, NEW reply, Goes(i, at, reply), UNCHANGED <<rows, ran, abandoned>>,
             at \in {"handling", "committed"} => sent[i].at \in {"handling", "committed"},
             reply \in Request =>
               /\ reply \in posted /\ sent[reply].key = sent[i].key
               /\ sent[reply].payload = sent[i].payload \/ Abandoned(sent[i].key),
             \/ reply # Refused
             \/ sent[i].payload = Blank
             \/ Settled(sent[i].key, sent[i].payload)
      PROVE  KeyedInv'
  <2>1. Moves(i, at, reply)
    BY <1>6 DEF Goes
  <2>2. RowsInv' /\ OwnersInv' /\ ChargeInv'
    BY <1>1, <1>6, SameRows
  <2>3. Settled(sent[i].key, sent[i].payload) => Settled(sent[i].key, sent[i].payload)'
    <3> SUFFICES ASSUME Settled(sent[i].key, sent[i].payload)
                 PROVE  Settled(sent[i].key, sent[i].payload)'
      OBVIOUS
    <3>1. PICK l, p : l = sent[i].key /\ p = sent[i].payload
      OBVIOUS
    <3>2. Settled(l, p)
      BY ONLY <3>1, Settled(sent[i].key, sent[i].payload)
    <3>3. Settled(l, p)'
      <4>1. Forward
        BY <1>1, <1>6, GoesForward
      <4>. QED
        BY <1>1, <3>2, <4>1, ForwardKeeps
    <3>4. sent'[i].key = l /\ sent'[i].payload = p
      BY <2>1, <3>1 DEF Moves
    <3>. QED
      BY <3>3, <3>4 DEF Settled
  <2>4. reply \in Request =>
               /\ reply \in posted' /\ sent'[reply].key = sent[i].key
               /\ sent'[reply].payload = sent[i].payload \/ Abandoned(sent[i].key)
    <3>1. posted \subseteq DOMAIN sent /\ posted \subseteq posted'
      BY <1>1, <1>6 DEF KeyedTypeOK, Goes
    <3>. QED
      BY <1>6, <2>1, <3>1 DEF Moves
  <2>5. abandoned' \subseteq ran' /\ rows' \in [Request -> RowRecord]
    BY <1>1, <1>2, <1>6 DEF KeyedTypeOK
  <2>. QED
    BY <1>5, <1>6, <2>2, <2>3, <2>4, <2>5
<1>13. ASSUME NEW reply \in Replies \cup {None}, Reply(i, reply), sent[i].at # "answered",
              UNCHANGED <<ran, posted>>, abandoned \subseteq abandoned'
       PROVE  Goes(i, "answered", reply)
  <2>1. Moves(i, "answered", reply)
    BY <1>1, <1>13, MovedByEdit DEF Reply, Labels
  <2>. QED
    BY <1>3, <1>4, <1>13, <2>1 DEF Goes
<1>14. ASSUME NEW at \in {"reclaiming", "rerunning"}, GoesTo(i, at),
              sent[i].at \in {"travelling", "reclaiming", "rerunning"},
              UNCHANGED <<ran, posted>>, abandoned \subseteq abandoned'
       PROVE  Goes(i, at, None)
  <2>1. Moves(i, at, None)
    BY <1>1, <1>4, <1>14, MovedByEdit DEF GoesTo, Labels
  <2>. QED
    BY <1>3, <1>4, <1>14, <2>1 DEF Goes
<1>15. ASSUME NEW reply \in Replies \cup {None}, Reply(i, reply), sent[i].at # "answered",
              UNCHANGED <<rows, ran, posted, abandoned>>,
             reply \in Request =>
               /\ reply \in posted /\ sent[reply].key = sent[i].key
               /\ sent[reply].payload = sent[i].payload \/ Abandoned(sent[i].key),
             \/ reply # Refused
             \/ sent[i].payload = Blank
             \/ Settled(sent[i].key, sent[i].payload)
       PROVE  KeyedInv'
  <2>1. Goes(i, "answered", reply) /\ "answered" \in Labels
    BY <1>13, <1>15 DEF Labels
  <2>. QED
    BY <1>6, <1>15, <2>1
<1>16. ASSUME NEW at \in {"reclaiming", "rerunning"}, GoesTo(i, at),
              sent[i].at \in {"travelling", "reclaiming", "rerunning"},
              UNCHANGED <<rows, ran, posted, abandoned>>
       PROVE  KeyedInv'
  <2>1. Goes(i, at, None) /\ at \in Labels /\ None \notin Request /\ None # Refused
    BY <1>2, <1>14, <1>16 DEF Labels
  <2>. QED
    BY <1>6, <1>16, <2>1
<1>7. ASSUME Arrive(i) PROVE KeyedInv'
  <2>1. sent[i].at \in {"travelling", "rerunning"} /\ UNCHANGED <<posted, abandoned>>
    BY <1>7 DEF Arrive
  <2>2. ASSUME Claim(i) PROVE KeyedInv'
    <3>1. Moves(i, "handling", None)
      BY <1>1, <1>2, <1>4, <2>1, <2>2, MovedByEdit DEF Claim, GoesTo, Labels
    <3>2. Goes(i, "handling", None)
      BY <1>2, <1>3, <1>4, <2>1, <2>2, <3>1 DEF Goes, Claim
    <3>3. RowsInv' /\ OwnersInv' /\ ChargeInv'
      BY <1>1, <1>2, <2>1, <2>2, <3>2, ClaimedRows DEF Claim
    <3>4. rows' \in [Request -> RowRecord] /\ abandoned' \subseteq ran'
      BY <1>1, <1>2, <2>1, <2>2 DEF Claim, RowRecord, KeyedTypeOK
    <3>. QED
      BY <1>2, <1>5, <3>2, <3>3, <3>4 DEF Labels
  <2>3. CASE sent[i].payload = Blank /\ Reply(i, Refused) /\ UNCHANGED <<rows, ran>>
    BY <1>2, <1>15, <2>1, <2>3
  <2>4. CASE /\ Row(i).status # "absent" /\ ~SameRequest(i)
             /\ Reply(i, Refused) /\ UNCHANGED <<rows, ran>>
    <3>1. rows[k].by \in ran /\ sent[rows[k].by].key = k /\ sent[rows[k].by].payload # sent[i].payload
      BY <1>1, <1>2, <2>4 DEF SameRequest, ServerInv, RowsInv
    <3>2. Settled(sent[i].key, sent[i].payload)
      BY <3>1 DEF Settled
    <3>. QED
      BY <1>2, <1>15, <2>1, <2>4, <3>2
  <2>5. CASE SameRequest(i) /\ AnswerFromRow(i) /\ UNCHANGED <<rows, ran>>
    <3>1. CASE Row(i).status = "processing" /\ Reply(i, InProgress)
      BY <1>2, <1>15, <2>1, <2>5, <3>1
    <3>2. CASE Row(i).status = "completed" /\ Reply(i, Row(i).reply)
      <4>1. CASE rows[k].reply \in posted /\ sent[rows[k].reply].key = k
        <5>1. rows[k].reply \in Request
          BY <1>1, <4>1, RequestsAre DEF KeyedTypeOK
        <5>2. sent[rows[k].reply].payload = sent[i].payload \/ Abandoned(sent[i].key)
          BY <1>1, <1>2, <2>5, <3>2, <5>1 DEF SameRequest, ServerInv, OwnersInv
        <5>. QED
          BY <1>2, <1>15, <2>1, <2>5, <3>2, <4>1, <5>1, <5>2 DEF Replies
      <4>2. CASE rows[k].reply = Refused /\ \E w \in ran \ posted : sent[w].key = k /\ sent[w].at = "answered"
        <5>1. Settled(sent[i].key, sent[i].payload)
          BY <4>2 DEF Settled
        <5>. QED
          BY <1>2, <1>15, <2>1, <2>5, <3>2, <4>2, <5>1
      <4>. QED
        BY <1>1, <1>2, <3>2, <4>1, <4>2 DEF ServerInv, RowsInv
    <3>3. CASE GoesTo(i, "reclaiming")
      BY <1>16, <2>1, <2>5, <3>3
    <3>. QED
      BY <2>5, <3>1, <3>2, <3>3 DEF AnswerFromRow
  <2>. QED
    BY <1>7, <2>2, <2>3, <2>4, <2>5 DEF Arrive
<1>8. ASSUME Reclaim(i) PROVE KeyedInv'
  <2>1. /\ sent[i].at = "reclaiming" /\ UNCHANGED <<posted, ran>> /\ GoesTo(i, "rerunning")
    BY <1>8 DEF Reclaim
  <2>2. CASE Row(i).status \notin {"processing", "stale"}
    BY <1>8, <1>16, <2>1, <2>2 DEF Reclaim
  <2>3. CASE Row(i).status \in {"processing", "stale"}
    <3>1. /\ rows' = [rows EXCEPT ![k] = NoRow] /\ Row(i).status # "absent"
          /\ abandoned' = abandoned \cup {Row(i).by}
      BY <1>8, <2>3 DEF Reclaim
    <3>3. Goes(i, "rerunning", None)
      BY <1>14, <2>1, <3>1
    <3>4. RowsInv' /\ OwnersInv' /\ ChargeInv'
      BY <1>1, <1>2, <2>1, <3>1, <3>3, DeletedRows
    <3>5. rows' \in [Request -> RowRecord] /\ abandoned' \subseteq ran'
      BY <1>1, <1>2, <2>1, <3>1 DEF RowRecord, KeyedTypeOK, NoRow, ServerInv, RowsInv
    <3>. QED
      BY <1>2, <1>5, <3>3, <3>4, <3>5 DEF Labels
  <2>. QED
    BY <2>2, <2>3
<1>9. ASSUME HandlerReturns(i) PROVE KeyedInv'
  <2>1. /\ sent[i].at = "handling" /\ sent[i].payload # Blank /\ posted' = posted \cup {i}
        /\ GoesTo(i, "committed") /\ UNCHANGED <<rows, ran, abandoned>>
    BY <1>9 DEF HandlerReturns, history
  <2>2. Moves(i, "committed", None)
    BY <1>1, <1>2, <1>4, <2>1, MovedByEdit DEF GoesTo, Labels
  <2>3. Goes(i, "committed", None) /\ "committed" \in Labels
    BY <1>2, <1>3, <1>4, <2>1, <2>2 DEF Goes, Labels
  <2>. QED
    BY <1>2, <1>6, <2>1, <2>3
<1>10. ASSUME Finalize(i) \/ HandlerRejects(i) PROVE KeyedInv'
  <2>1. PICK outcome \in {i, Refused}, at \in {"committed", "answered"},
             reply \in {i, Refused, Failed, None} :
          /\ sent[i].at \in {"handling", "committed"} /\ UNCHANGED <<posted, ran, abandoned>>
          /\ outcome = i => sent[i].at = "committed"
          /\ outcome = Refused => sent[i].at = "handling" /\ at = "answered"
          /\ Complete(i, outcome)
          /\ \/ Reply(i, reply) /\ at = "answered"
             \/ sent' = sent /\ at = sent[i].at /\ reply = None
          /\ at = "committed" => sent[i].at = "committed"
          /\ reply \in {i, None} => outcome = i
          /\ reply = Refused => outcome = Refused
    <3>1. CASE Finalize(i)
      <4>1. CASE Reply(i, i)
        BY <1>2, <3>1, <4>1 DEF Finalize, history
      <4>2. CASE UNCHANGED sent
        BY <1>2, <3>1, <4>2 DEF Finalize, history
      <4>. QED
        BY <3>1, <4>1, <4>2 DEF Finalize
    <3>2. CASE HandlerRejects(i)
      <4>1. CASE Reply(i, Refused)
        BY <1>2, <3>2, <4>1 DEF HandlerRejects, history
      <4>2. CASE Reply(i, Failed)
        BY <1>2, <3>2, <4>2 DEF HandlerRejects, history
      <4>. QED
        BY <3>2, <4>1, <4>2 DEF HandlerRejects
    <3>. QED
      BY <1>10, <3>1, <3>2
  <2>2. reply \in Replies \cup {None} /\ at \in Labels
    BY <1>2 DEF Labels
  <2>3. Moves(i, at, reply)
    BY <1>1, <1>4, <2>1, <2>2, MovedByEdit DEF Reply
  <2>4. Goes(i, at, reply)
    BY <1>2, <1>3, <1>4, <2>1, <2>3 DEF Goes
  <2>5. RowsInv' /\ OwnersInv' /\ ChargeInv'
    BY <1>1, <1>2, <2>1, <2>4, CompletedRows
  <2>6. rows' \in [Request -> RowRecord] /\ abandoned' \subseteq ran'
    BY <1>1, <1>2, <2>1 DEF RowRecord, KeyedTypeOK, Complete, Replies, Errors
  <2>7. reply \in Request =>
          /\ reply \in posted' /\ sent'[reply].key = sent[i].key
          /\ sent'[reply].payload = sent[i].payload \/ Abandoned(sent[i].key)
    <3>1. reply \in Request => reply = i /\ sent[i].at = "committed"
      BY <1>2, <2>1
    <3>. QED
      BY <1>4, <2>1, <2>3, <3>1 DEF Moves
  <2>8. reply = Refused => Settled(sent[i].key, sent[i].payload)'
    <3> SUFFICES ASSUME reply = Refused PROVE Settled(sent[i].key, sent[i].payload)'
      OBVIOUS
    <3>1. sent[i].at = "handling" /\ at = "answered"
      BY <1>2, <2>1
    <3>2. i \in ran' /\ i \notin posted' /\ sent'[i].at = "answered"
      BY <1>4, <2>1, <2>3, <3>1 DEF Moves
    <3>. QED
      BY <3>2 DEF Settled
  <2> HIDE DEF Settled
  <2>. QED
    BY <1>5, <2>2, <2>4, <2>5, <2>6, <2>7, <2>8
<1>11. ASSUME CleanUp(i) PROVE KeyedInv'
  <2>1. /\ sent[i].at \in {"handling", "committed"} /\ rows' = [rows EXCEPT ![k] = NoRow]
        /\ Reply(i, Failed) /\ UNCHANGED <<posted, ran>>
        /\ \/ abandoned' = abandoned \cup {Row(i).by} /\ Row(i).status # "absent"
           \/ abandoned' = abandoned /\ Row(i).status = "absent"
           \/ abandoned' = abandoned /\ sent[i].at = "handling"
    BY <1>11 DEF CleanUp
  <2>3. Goes(i, "answered", Failed)
    BY <1>2, <1>13, <2>1
  <2>4. RowsInv' /\ OwnersInv' /\ ChargeInv'
    BY <1>1, <1>2, <2>1, <2>3, DeletedRows
  <2>5. rows' \in [Request -> RowRecord] /\ abandoned' \subseteq ran'
    BY <1>1, <1>2, <2>1 DEF RowRecord, KeyedTypeOK, NoRow, ServerInv, RowsInv
  <2>. QED
    BY <1>2, <1>5, <2>3, <2>4, <2>5 DEF Labels
<1>12. ASSUME GiveUp(i) PROVE KeyedInv'
  <2>1. /\ sent[i].at # "answered" /\ UNCHANGED <<rows, posted, ran, abandoned>>
        /\ Reply(i, Failed) \/ Reply(i, None)
    BY <1>12 DEF GiveUp, server, history
  <2>. QED
    BY <1>2, <1>15, <2>1
<1>. QED
  BY <1>7, <1>8, <1>9, <1>10, <1>11, <1>12 DEF ServerStep

(* A row turns stale. *)
LEMMA AgeKeepsKeyed ==
  ASSUME KeyedInv, NEW k \in Request, Age(k), page' = page
  PROVE  KeyedInv'
<1>1. /\ UNCHANGED <<page, client, sent, posted, ran, abandoned>>
      /\ UNCHANGED <<form, key, intent, awaited, dialog, confirmations, reported>>
      /\ rows[k].status = "processing" /\ rows' = [rows EXCEPT ![k].status = "stale"]
  BY DEF Age, history, client, inputs
<1>2. KeyedTypeOK /\ SentInv /\ PageInv /\ KeysInv /\ ServerInv
  BY DEF KeyedInv
<1>3. /\ \A l \in Request : rows'[l].by = rows[l].by /\ rows'[l].reply = rows[l].reply
      /\ \A l \in Request \ {k} : rows'[l].status = rows[l].status
      /\ rows'[k].status = "stale"
      /\ rows' \in [Request -> RowRecord]
  BY <1>1, <1>2 DEF KeyedTypeOK, RowRecord
<1>4. SentInv' /\ PageInv' /\ KeysInv'
  BY <1>1, <1>2 DEF SentInv, PageInv, KeysInv, Keys
<1>5. KeyedTypeOK'
  BY <1>1, <1>2, <1>3 DEF KeyedTypeOK, client, inputs, RowRecord
<1>6. RowsInv'
  BY <1>1, <1>2, <1>3 DEF ServerInv, RowsInv
<1>7. OwnersInv' /\ Displaced' = Displaced /\ Cleaners' = Cleaners
  <2>1. \A j \in DOMAIN sent : sent[j].key \in Request
    BY <1>2, RequestsAre DEF RequestRecord
  <2>2. ran \subseteq DOMAIN sent
    BY <1>2 DEF KeyedTypeOK
  <2>. QED
    BY <1>1, <1>2, <1>3, <2>1, <2>2 DEF ServerInv, OwnersInv, Abandoned, Row, Displaced, Cleaners
<1>8. ChargeInv'
  BY <1>1, <1>2, <1>7 DEF ServerInv, ChargeInv
<1>9. RanInv' /\ RepliesInv' /\ SettledInv'
  BY <1>1, <1>2 DEF ServerInv, RanInv, RepliesInv, Abandoned, SettledInv, Settled
<1>. QED
  BY <1>4, <1>5, <1>6, <1>7, <1>8, <1>9 DEF KeyedInv, ServerInv

(* A submission uses the pending key, or a new one, which on the convert   *)
(* page a confirmation pays for.                                           *)
LEMMA SubmitKeepsKeyed ==
  ASSUME KeyedInv, Submit, UNCHANGED <<page, form, quote, asked, networkError, server, reported>>,
         dialog' = None,
         \/ confirmations' = confirmations + 1
         \/ confirmations' = confirmations /\ (page = "convert" => key # None)
  PROVE  KeyedInv'
<1>1. KeyedTypeOK /\ SentInv /\ PageInv /\ ServerInv /\ KeysInv
  BY DEF KeyedInv
<1>2. PICK n : /\ n = Len(sent') /\ sent' \in Seq(RequestRecord) /\ n = Len(sent) + 1
               /\ n \in Request \ DOMAIN sent
               /\ DOMAIN sent' = DOMAIN sent \cup {n}
               /\ \A j \in DOMAIN sent : sent'[j] = sent[j]
               /\ sent'[n].key = key' /\ key' = IF key = None THEN n ELSE key
               /\ sent'[n].payload = form
               /\ sent'[n].intent = intent'
               /\ intent' = IF intent = None THEN n ELSE intent
               /\ sent'[n].at = "travelling" /\ sent'[n].reply = None
               /\ awaited' = n
  BY <1>1, Submitted
<1>3. /\ None \notin Request \cup Replies /\ DOMAIN sent \subseteq Request
      /\ Len(sent) \in Nat /\ DOMAIN sent = 1..Len(sent)
      /\ ran \subseteq DOMAIN sent /\ posted \subseteq ran /\ abandoned \subseteq ran
      /\ Request = 1..MaxRequests /\ MaxRequests \in Nat
      /\ Refused \in Replies /\ Refused \notin Request /\ Failed \in Replies
      /\ \A j \in DOMAIN sent : sent[j] \in RequestRecord
  BY <1>1, RequestsAre, PageAssumption DEF KeyedTypeOK, Request, Replies, Errors
<1>4. UNCHANGED <<rows, posted, ran, abandoned, reported, form, networkError, page>>
  BY DEF server, history
<1>5. /\ key' \in DOMAIN sent' /\ sent'[key'].key = key'
      /\ intent' \in DOMAIN sent' /\ sent'[intent'].payload = form
  BY <1>1, <1>2 DEF PageInv
<1>6. SentInv'
  <2> SUFFICES ASSUME NEW i \in DOMAIN sent'
               PROVE  /\ sent'[i].key \in DOMAIN sent' /\ sent'[sent'[i].key].key = sent'[i].key
                      /\ sent'[i].intent \in DOMAIN sent'
                      /\ sent'[i].payload = sent'[sent'[i].intent].payload
    BY DEF SentInv
  <2>1. CASE i = n
    BY <1>2, <1>5, <2>1
  <2>2. CASE i \in DOMAIN sent
    <3>1. /\ sent[i].key \in DOMAIN sent /\ sent[sent[i].key].key = sent[i].key
          /\ sent[i].intent \in DOMAIN sent /\ sent[i].payload = sent[sent[i].intent].payload
      BY <1>1, <2>2 DEF SentInv
    <3>2. /\ sent'[i] = sent[i]
          /\ sent'[sent[i].key] = sent[sent[i].key]
          /\ sent'[sent[i].intent] = sent[sent[i].intent]
      BY <1>2, <2>2, <3>1
    <3>. QED
      BY <1>2, <3>1, <3>2
  <2>. QED
    BY <1>2, <2>1, <2>2
<1>7. PageInv'
  <2>1. confirmations' <= n
    BY <1>1, <1>2, <1>3 DEF PageInv, KeyedTypeOK
  <2>. QED
    BY <1>2, <1>4, <1>5, <2>1 DEF PageInv
<1>8. KeyedTypeOK'
  <2>1. /\ key' \in Request \cup {None} /\ intent' \in Request \cup {None}
        /\ Len(sent') <= MaxRequests /\ confirmations' \in 0..MaxRequests
    <3>1. key' \in Request \cup {None} /\ intent' \in Request \cup {None}
      BY <1>1, <1>2 DEF KeyedTypeOK
    <3>2. confirmations \in Nat /\ confirmations <= Len(sent)
      BY <1>1 DEF KeyedTypeOK, PageInv
    <3>3. n = Len(sent) + 1 /\ n \in Request /\ Len(sent') = n
      BY <1>2
    <3>. QED
      BY <1>3, <3>1, <3>2, <3>3
  <2>2. /\ awaited' \in DOMAIN sent' \cup {None} /\ ran' \subseteq DOMAIN sent'
        /\ key' # None /\ awaited' # None
    BY <1>1, <1>2, <1>3, <1>4
  <2>. QED
    BY <1>1, <1>2, <1>4, <2>1, <2>2 DEF KeyedTypeOK, RequestRecord, Labels
<1>9. Forward
  BY <1>2, <1>4 DEF Forward
<1>10. RanInv' /\ RowsInv'
  BY <1>1, <1>2, <1>3, <1>4 DEF ServerInv, RanInv, RowsInv
<1>11. \A k : Abandoned(k)' <=> Abandoned(k)
  BY <1>2, <1>3, <1>4 DEF Abandoned
<1>12. OwnersInv'
  <2>1. ASSUME NEW j \in DOMAIN sent', sent'[j].at \in {"handling", "committed"}
        PROVE  (\E a \in abandoned : sent'[a].key = sent'[j].key) \/ rows[sent'[j].key].by = j
    <3>1. j \in DOMAIN sent /\ sent[j].at \in {"handling", "committed"}
      BY <1>2, <2>1
    <3>2. (\E a \in abandoned : sent[a].key = sent[j].key) \/ rows[sent[j].key].by = j
      BY <1>1, <3>1 DEF ServerInv, OwnersInv, Row, Abandoned
    <3>. QED
      BY <1>2, <1>3, <3>1, <3>2
  <2>2. \A k \in Request : rows[k].status = "completed" /\ rows[k].reply \in Request =>
          Abandoned(k)' \/ rows[k].reply = rows[k].by
    BY <1>1, <1>11 DEF ServerInv, OwnersInv
  <2>. QED
    BY <1>4, <2>1, <2>2 DEF OwnersInv, Row, Abandoned
<1>13. RepliesInv'
  <2>1. ASSUME NEW j \in DOMAIN sent', sent'[j].reply \in Request
        PROVE  /\ sent'[j].reply \in posted
               /\ sent'[sent'[j].reply].key = sent'[j].key
               /\ \/ sent'[sent'[j].reply].payload = sent'[j].payload
                  \/ \E a \in abandoned : sent'[a].key = sent'[j].key
    <3>1. j \in DOMAIN sent /\ sent'[j] = sent[j]
      BY <1>2, <1>3, <2>1
    <3>2. /\ sent[j].reply \in posted /\ sent[sent[j].reply].key = sent[j].key
          /\ \/ sent[sent[j].reply].payload = sent[j].payload
             \/ \E a \in abandoned : sent[a].key = sent[j].key
      BY <1>1, <2>1, <3>1 DEF ServerInv, RepliesInv, Abandoned
    <3>. QED
      BY <1>2, <1>3, <3>1, <3>2
  <2>2. \A r \in reported : r[1] \in DOMAIN sent' /\ sent'[r[1]].reply = r[2]
    BY <1>1, <1>2 DEF ServerInv, RepliesInv
  <2>. QED
    BY <1>4, <2>1, <2>2 DEF RepliesInv, Abandoned
<1>14. ChargeInv'
  <2>1. Displaced' \subseteq Displaced /\ Cleaners \subseteq Cleaners'
    BY <1>2, <1>3, <1>4 DEF Displaced, Cleaners, Row
  <2>2. \A j \in DOMAIN sent : sent'[j].key = sent[j].key
    BY <1>2
  <2>. QED
    BY <1>1, <2>1, <2>2, ChargeKept DEF ServerInv
<1>15. SettledInv'
  <2>1. ASSUME NEW k, NEW p, Settled(k, p) PROVE Settled(k, p)'
    BY <1>1, <1>9, <2>1, ForwardKeeps
  <2>. SettledInv
    BY <1>1 DEF ServerInv
  <2>2. \A i \in DOMAIN sent' :
          sent'[i].reply = Refused /\ sent'[i].payload # Blank
            => i \in DOMAIN sent /\ Settled(sent[i].key, sent[i].payload)
    BY <1>2, <1>3 DEF SettledInv
  <2>3. \A i \in DOMAIN sent : intent = None => sent[i].intent # intent'
    BY <1>1, <1>2, <1>3 DEF SentInv
  <2>4. \A i \in DOMAIN sent : sent[i].intent = intent' => sent[i].intent = intent
    BY <1>2, <2>3
  <2>5. \A i \in DOMAIN sent :
          sent[i].intent = intent' /\ sent[i].key # key' /\ sent[i].payload # Blank
            => Settled(sent[i].key, sent[i].payload)
    BY <1>1, <1>2, <1>3, <2>4 DEF SettledInv, SentInv
  <2>6. \A i, j \in DOMAIN sent' :
          i < j /\ sent'[i].intent = sent'[j].intent /\ sent'[i].key # sent'[j].key
            /\ sent'[i].payload # Blank
            => i \in DOMAIN sent /\ Settled(sent[i].key, sent[i].payload)
    <3> SUFFICES ASSUME NEW i \in DOMAIN sent', NEW j \in DOMAIN sent', i < j,
                        sent'[i].intent = sent'[j].intent, sent'[i].key # sent'[j].key,
                        sent'[i].payload # Blank
                 PROVE  i \in DOMAIN sent /\ Settled(sent[i].key, sent[i].payload)
      OBVIOUS
    <3>1. i \in DOMAIN sent
      BY <1>2, <1>3
    <3>2. CASE j \in DOMAIN sent
      BY <1>1, <1>2, <3>1, <3>2 DEF SettledInv
    <3>3. CASE j = n
      BY <1>2, <2>5, <3>1, <3>3
    <3>. QED
      BY <1>2, <3>1, <3>2, <3>3
  <2>7. \A i \in DOMAIN sent' :
          sent'[i].intent = intent' /\ sent'[i].key # key' /\ sent'[i].payload # Blank
            => i \in DOMAIN sent /\ Settled(sent[i].key, sent[i].payload)
    BY <1>2, <2>5
  <2>8. ASSUME NEW i \in DOMAIN sent, Settled(sent[i].key, sent[i].payload)
        PROVE  Settled(sent[i].key, sent[i].payload)'
    <3>1. sent'[i] = sent[i]
      BY <1>2
    <3>2. PICK k, p : k = sent[i].key /\ p = sent[i].payload
      OBVIOUS
    <3>3. Settled(k, p)'
      BY <2>1, <2>8, <3>2
    <3>. QED
      BY <3>1, <3>2, <3>3
  <2> HIDE DEF Settled
  <2>. QED
    BY <2>2, <2>6, <2>7, <2>8 DEF SettledInv
<1>16. KeysInv'
  <2>1. IsFiniteSet(Keys) /\ Cardinality(Keys) \in Nat
    <3>1. IsFiniteSet(DOMAIN sent)
      BY <1>3, FS_Interval
    <3>. QED
      BY <3>1, FS_Subset, FS_CardinalityType DEF Keys
  <2>2. Keys' = IF key = None THEN Keys \cup {n} ELSE Keys
    <3>1. key # None => key \in DOMAIN sent /\ key # n
      BY <1>1, <1>2 DEF PageInv
    <3>2. \A k \in DOMAIN sent : sent'[k].key = sent[k].key
      BY <1>2
    <3>3. n \in Keys' <=> key = None
      BY <1>2, <3>1 DEF Keys
    <3>4. \A k \in DOMAIN sent : k \in Keys' <=> k \in Keys
      BY <1>2, <3>2 DEF Keys
    <3>. QED
      BY <1>2, <3>3, <3>4 DEF Keys
  <2>3. /\ Cardinality(Keys') \in Nat
        /\ Cardinality(Keys') <= Cardinality(Keys) + 1
        /\ key # None => Cardinality(Keys') = Cardinality(Keys)
    <3>1. PICK keys : keys = Keys
      OBVIOUS
    <3>2. /\ IsFiniteSet(keys \cup {n}) /\ Cardinality(keys \cup {n}) \in Nat
          /\ Cardinality(keys \cup {n}) <= Cardinality(keys) + 1
      <4>1. IsFiniteSet(keys) /\ Cardinality(keys) \in Nat
        BY <2>1, <3>1
      <4>. QED
        BY <4>1, FS_AddElement, FS_CardinalityType
    <3>3. CASE key = None
      BY <2>2, <3>1, <3>2, <3>3
    <3>4. CASE key # None
      BY <2>1, <2>2, <3>4
    <3>. QED
      BY <3>3, <3>4
  <2>4. confirmations \in Nat /\ (page = "convert" => Cardinality(Keys) <= confirmations)
    BY <1>1 DEF KeysInv, KeyedTypeOK
  <2>5. page = "convert" => Cardinality(Keys') <= confirmations'
    BY <2>1, <2>3, <2>4
  <2>. QED
    BY <1>4, <2>5 DEF KeysInv
<1>. QED
  BY <1>6, <1>7, <1>8, <1>10, <1>12, <1>13, <1>14, <1>15, <1>16 DEF KeyedInv, ServerInv

(* What the page does by itself keeps what the server knows. *)
LEMMA PageKeepsServer ==
  ASSUME ServerInv, SentInv, KeysInv, UNCHANGED <<page, sent, server, confirmations>>
  PROVE  /\ RanInv' /\ RowsInv' /\ OwnersInv' /\ ChargeInv' /\ SentInv' /\ KeysInv'
         /\ reported' = reported => RepliesInv'
         /\ \A k, p : Settled(k, p)' = Settled(k, p)
<1>1. /\ rows' = rows /\ posted' = posted /\ sent' = sent /\ page' = page
      /\ confirmations' = confirmations /\ ran' = ran /\ abandoned' = abandoned
  BY DEF server, history
<1>2. RanInv' /\ RowsInv'
  BY <1>1 DEF ServerInv, RanInv, RowsInv
<1>3. SentInv' /\ KeysInv'
  BY <1>1 DEF SentInv, KeysInv, Keys
<1>4. reported' = reported => RepliesInv'
  BY <1>1 DEF ServerInv, RepliesInv, Abandoned
<1>5. \A k, p : Settled(k, p)' = Settled(k, p)
  BY <1>1 DEF Settled
<1>6. OwnersInv'
  BY <1>1 DEF ServerInv, OwnersInv, Abandoned, Row
<1>7. Displaced' = Displaced /\ Cleaners' = Cleaners
  BY <1>1 DEF Displaced, Cleaners, Row
<1>8. ChargeInv'
  BY <1>1, <1>7 DEF ServerInv, ChargeInv
<1>. QED
  BY <1>2, <1>3, <1>4, <1>5, <1>6, <1>8

(* The user and the quotes: form, dialog and displayed quote change. *)
LEMMA LookingKeepsKeyed ==
  ASSUME KeyedInv,
         \/ \E f \in Payload \cup {Blank} : Edit(f)
         \/ FetchQuote
         \/ \E p \in Payload : QuoteAnswered(p)
         \/ Confirm \/ DialogDismissed,
         page' = page
  PROVE  KeyedInv'
<1>1. KeyedTypeOK /\ SentInv /\ PageInv /\ ServerInv /\ SettledInv /\ KeysInv
  BY DEF KeyedInv, ServerInv
<1>2. /\ UNCHANGED <<page, sent, server, confirmations, reported, key, awaited, networkError>>
      /\ \/ intent' = None /\ form' \in Payload \cup {Blank}
         \/ intent' = intent /\ form' = form
      /\ dialog' \in {dialog, None} \/ (page = "convert" /\ key = None /\ dialog' = quote)
  BY <1>1 DEF Edit, FetchQuote, QuoteAnswered, Confirm, DialogDismissed, FormBecomes,
              CanClick, submitting, KeyedTypeOK
<1>3. /\ RanInv' /\ RowsInv' /\ OwnersInv' /\ ChargeInv' /\ SentInv' /\ KeysInv' /\ RepliesInv'
      /\ \A k, p : Settled(k, p)' = Settled(k, p)
  BY <1>1, <1>2, PageKeepsServer
<1>4. PageInv'
  BY <1>1, <1>2 DEF PageInv
<1>5. SettledInv'
  <2>1. \A i \in DOMAIN sent : sent[i].intent # None
    BY <1>1, RequestsAre DEF RequestRecord
  <2>2. SettledInv /\ sent' = sent /\ key' = key /\ (intent' = None \/ intent' = intent)
    BY <1>1, <1>2
  <2> HIDE DEF Settled
  <2>3. \A i \in DOMAIN sent : Settled(sent[i].key, sent[i].payload) 
          => Settled(sent[i].key, sent[i].payload)'
    BY <1>2 DEF Settled, server, history
  <2>. QED
    BY <2>1, <2>2, <2>3 DEF SettledInv
<1>6. KeyedTypeOK'
  <2>1. /\ asked' \in [Payload -> 0..MaxQuotes] /\ quote' \in Payload \cup {None}
        /\ dialog' \in Payload \cup {None} /\ form' \in Payload \cup {Blank}
        /\ intent' \in Request \cup {None}
    <3>1. CASE \E f \in Payload \cup {Blank} : Edit(f)
      BY <1>1, <3>1 DEF Edit, FormBecomes, KeyedTypeOK
    <3>2. CASE FetchQuote
      BY <1>1, <3>2, PageAssumption DEF FetchQuote, canQuote, KeyedTypeOK
    <3>3. CASE \E p \in Payload : QuoteAnswered(p)
      <4>1. PICK p \in Payload : QuoteAnswered(p)
        BY <3>3
      <4>2. asked[p] - 1 \in 0..MaxQuotes
        BY <1>1, <4>1, PageAssumption DEF QuoteAnswered, KeyedTypeOK
      <4>. QED
        BY <1>1, <4>1, <4>2 DEF QuoteAnswered, KeyedTypeOK
    <3>4. CASE Confirm \/ DialogDismissed
      BY <1>1, <3>4 DEF Confirm, DialogDismissed, KeyedTypeOK
    <3>. QED
      BY <3>1, <3>2, <3>3, <3>4
  <2>. QED
    BY <1>1, <1>2, <2>1 DEF KeyedTypeOK, server, history
<1>. QED
  BY <1>1, <1>3, <1>4, <1>5, <1>6 DEF KeyedInv, ServerInv

(* A success clears the form, and the key with it. *)
LEMMA SucceedsKeepsKeyed ==
  ASSUME KeyedInv, NEW i \in DOMAIN sent, Succeeds(i), page' = page
  PROVE  KeyedInv'
<1>1. KeyedTypeOK /\ SentInv /\ PageInv /\ ServerInv /\ RepliesInv /\ SettledInv /\ KeysInv
  BY DEF KeyedInv, ServerInv
<1>2. /\ UNCHANGED <<page, sent, server, confirmations, asked, dialog>>
      /\ awaited' = None /\ networkError' = FALSE /\ key' = None /\ intent' = None
      /\ form' = Blank /\ quote' = None
      /\ sent[i].reply \in Request /\ reported' = reported \cup {<<i, sent[i].reply>>}
  BY DEF Succeeds, FormBecomes
<1>3. RanInv' /\ RowsInv' /\ OwnersInv' /\ ChargeInv' /\ SentInv' /\ KeysInv'
  BY <1>1, <1>2, PageKeepsServer
<1>4. RepliesInv'
  BY <1>1, <1>2 DEF RepliesInv, Abandoned, server, history
<1>5. PageInv'
  BY <1>1, <1>2 DEF PageInv
<1>6. SettledInv'
  <2>1. \A j \in DOMAIN sent : sent[j].intent # None
    BY <1>1, RequestsAre DEF RequestRecord
  <2>2. \A j \in DOMAIN sent : Settled(sent[j].key, sent[j].payload) 
          => Settled(sent[j].key, sent[j].payload)'
    BY <1>2 DEF Settled, server, history
  <2> HIDE DEF Settled
  <2>. QED
    BY <1>1, <1>2, <2>1, <2>2 DEF SettledInv
<1>7. KeyedTypeOK'
  <2>1. reported' \subseteq Request \X Request
    BY <1>1, <1>2, RequestsAre DEF KeyedTypeOK
  <2>. QED
    BY <1>1, <1>2, <2>1 DEF KeyedTypeOK, server, history
<1>. QED
  BY <1>3, <1>4, <1>5, <1>6, <1>7 DEF KeyedInv, ServerInv

(* An error settles the key for what it was sent with, and drops it. *)
LEMMA IsRefusedKeepsKeyed ==
  ASSUME KeyedInv, NEW i \in DOMAIN sent, IsRefused(i), page' = page
  PROVE  KeyedInv'
<1>1. KeyedTypeOK /\ SentInv /\ PageInv /\ ServerInv /\ SettledInv /\ KeysInv
  BY DEF KeyedInv, ServerInv
<1>2. /\ UNCHANGED <<page, sent, server, confirmations, asked, dialog, form, quote, intent, reported>>
      /\ awaited = i /\ sent[i].reply \in {Refused, InProgress, Failed}
      /\ awaited' = None /\ networkError' = FALSE /\ key' = None
  BY DEF IsRefused, inputs, Errors
<1>3. RanInv' /\ RowsInv' /\ OwnersInv' /\ ChargeInv' /\ SentInv' /\ KeysInv' /\ RepliesInv'
  BY <1>1, <1>2, PageKeepsServer
<1>4. PageInv'
  BY <1>1, <1>2 DEF PageInv
<1>5. SettledInv'
  <2>1. sent[i].key = key /\ i # None
    BY <1>1, <1>2, RequestsAre DEF PageInv
  <2>2. sent[i].payload # Blank => Settled(sent[i].key, sent[i].payload)
    BY <1>1, <1>2 DEF SettledInv, Settled
  <2>3. ASSUME NEW j \in DOMAIN sent, sent[j].intent = intent, sent[j].payload # Blank
        PROVE  Settled(sent[j].key, sent[j].payload)
    <3>1. CASE sent[j].key # key
      BY <1>1, <2>3, <3>1 DEF SettledInv
    <3>2. CASE sent[j].key = key
      <4>1. intent # None
        BY <1>1, <2>3, RequestsAre DEF RequestRecord
      <4>2. sent[i].intent = intent
        BY <1>1, <1>2, <2>1, <4>1 DEF PageInv
      <4>3. sent[i].payload = sent[intent].payload /\ sent[j].payload = sent[intent].payload
        BY <1>1, <2>3, <4>2 DEF SentInv
      <4>. QED
        BY <2>1, <2>2, <2>3, <3>2, <4>3
    <3>. QED
      BY <3>1, <3>2
  <2>4. \A j \in DOMAIN sent : Settled(sent[j].key, sent[j].payload) 
          => Settled(sent[j].key, sent[j].payload)'
    BY <1>2 DEF Settled, server, history
  <2> HIDE DEF Settled
  <2>. QED
    BY <1>1, <1>2, <2>3, <2>4 DEF SettledInv
<1>6. KeyedTypeOK'
  BY <1>1, <1>2, RequestsAre DEF KeyedTypeOK, server, history
<1>. QED
  BY <1>3, <1>4, <1>5, <1>6 DEF KeyedInv, ServerInv

(* A network error keeps the key, and may lose the request. *)
LEMMA NetworkFailsKeepsKeyed ==
  ASSUME KeyedInv, NEW i \in DOMAIN sent, NetworkFails(i), page' = page
  PROVE  KeyedInv'
<1>1. KeyedTypeOK /\ SentInv /\ PageInv /\ ServerInv /\ KeysInv
  BY DEF KeyedInv
<1>2. /\ UNCHANGED <<page, rows, posted, ran, abandoned, confirmations, asked, dialog, form, quote,
                     intent, reported, key>>
      /\ awaited = i /\ awaited' = None /\ networkError' = TRUE
      /\ \/ sent' = sent
         \/ sent[i].at = "travelling" /\ sent' = [sent EXCEPT ![i].at = "answered"]
  BY DEF NetworkFails, inputs, server, history
<1>3. key # None
  BY <1>1, <1>2, RequestsAre DEF KeyedTypeOK
<1>4. CASE sent' = sent
  <2>1. RanInv' /\ RowsInv' /\ OwnersInv' /\ ChargeInv' /\ SentInv' /\ KeysInv' /\ RepliesInv'
    <3>1. UNCHANGED <<page, sent, server, confirmations>>
      BY <1>2, <1>4 DEF server, history
    <3>. QED
      BY <1>1, <1>2, <3>1, PageKeepsServer
  <2>2. SettledInv'
    BY <1>1, <1>2, <1>4 DEF ServerInv, SettledInv, Settled
  <2>3. PageInv'
    BY <1>1, <1>2, <1>4 DEF PageInv
  <2>4. KeyedTypeOK'
    BY <1>1, <1>2, <1>3, <1>4 DEF KeyedTypeOK
  <2>. QED
    BY <2>1, <2>2, <2>3, <2>4 DEF KeyedInv, ServerInv
<1>5. CASE sent[i].at = "travelling" /\ sent' = [sent EXCEPT ![i].at = "answered"]
  <2>1. sent[i].reply = None /\ i \notin posted
    BY <1>1, <1>5 DEF ServerInv, RanInv
  <2>2. Moves(i, "answered", None)
    BY <1>1, <1>5, <2>1, MovedByEdit DEF Labels
  <2>3. None \notin Request /\ None # Refused
    BY <1>1, RequestsAre DEF Replies, Errors
  <2>4. Goes(i, "answered", None)
    BY <1>2, <1>5, <2>1, <2>2 DEF Goes
  <2>5. RowsInv' /\ OwnersInv' /\ ChargeInv'
    BY <1>1, <1>2, <2>4, SameRows
  <2>6. RanInv' /\ RepliesInv' /\ SettledInv'
    BY <1>1, <2>3, <2>4, GoesKeepsRan, GoesKeepsReplies, GoesKeepsSettled DEF ServerInv
  <2>7. SentInv' /\ PageInv' /\ KeysInv'
    BY <1>1, <1>2, <2>2, MovesKeepPage
  <2>8. KeyedTypeOK'
    BY <1>1, <1>2, <1>3, <2>2 DEF KeyedTypeOK, Moves, RequestRecord, Labels
  <2>. QED
    BY <2>5, <2>6, <2>7, <2>8 DEF KeyedInv, ServerInv
<1>. QED
  BY <1>2, <1>4, <1>5

(* The starting state. *)
LEMMA InitKeyed == KeyedInit => KeyedInv
<1> SUFFICES ASSUME KeyedInit PROVE KeyedInv
  OBVIOUS
<1>1. /\ sent = <<>> /\ key = None /\ intent = None /\ awaited = None /\ dialog = None
      /\ posted = {} /\ ran = {} /\ abandoned = {} /\ reported = {} /\ confirmations = 0
      /\ rows = [k \in Request |-> NoRow] /\ DOMAIN sent = {} /\ Len(sent) = 0
  BY DEF KeyedInit
<1>2. KeyedTypeOK
  <2>1. sent \in Seq(RequestRecord)
    BY <1>1, EmptySeq
  <2>2. rows \in [Request -> RowRecord]
    BY <1>1 DEF NoRow, RowRecord
  <2>3. /\ form = Blank /\ quote = None /\ networkError = FALSE
        /\ asked \in [Payload -> 0..MaxQuotes] /\ MaxRequests \in Nat
    BY PageAssumption DEF KeyedInit
  <2>4. confirmations \in 0..MaxRequests /\ Len(sent) <= MaxRequests
    BY <1>1, <2>3
  <2>5. (key # None) = (awaited # None \/ networkError)
    BY <1>1, <2>3
  <2>6. /\ awaited \in DOMAIN sent \cup {None}
        /\ abandoned \subseteq ran /\ posted \subseteq ran /\ ran \subseteq DOMAIN sent
        /\ reported \subseteq Request \X Request
        /\ key \in Request \cup {None} /\ intent \in Request \cup {None}
        /\ dialog \in Payload \cup {None}
    BY <1>1
  <2>. QED
    BY <2>1, <2>2, <2>3, <2>4, <2>5, <2>6 DEF KeyedTypeOK, RequestRecord, RowRecord, Labels
<1>3. SentInv /\ PageInv /\ RanInv /\ RowsInv /\ OwnersInv /\ RepliesInv /\ SettledInv
  BY <1>1 DEF SentInv, PageInv, RanInv, RowsInv, OwnersInv, RepliesInv, SettledInv, NoRow
<1>4. KeysInv
  BY <1>1, FS_EmptySet DEF KeysInv, Keys
<1>5. ChargeInv
  <2>1. Displaced = {} /\ Cleaners = {}
    BY <1>1 DEF Displaced, Cleaners
  <2>2. [i \in {} |-> i] \in Injection({}, {})
    BY DEF Injection, IsInjective
  <2>. QED
    BY <2>1, <2>2 DEF ChargeInv
<1>. QED
  BY <1>2, <1>3, <1>4, <1>5 DEF KeyedInv, ServerInv

(* Every step keeps the invariant of requests with keys. *)
LEMMA NextKeyed == KeyedInv /\ [KeyedNext]_<<page, keyedVars>> => KeyedInv'
<1> SUFFICES ASSUME KeyedInv, [KeyedNext]_<<page, keyedVars>> PROVE KeyedInv'
  OBVIOUS
<1>1. KeyedTypeOK /\ PageInv
  BY DEF KeyedInv
<1>2. CASE UNCHANGED <<page, keyedVars>>
  <2>1. /\ UNCHANGED <<page, sent, server, confirmations, reported, key, awaited, networkError>>
        /\ UNCHANGED <<intent, form, dialog, quote, asked>>
    BY <1>2 DEF keyedVars, inputs
  <2>2. /\ RanInv' /\ RowsInv' /\ OwnersInv' /\ ChargeInv' /\ SentInv' /\ KeysInv' /\ RepliesInv'
    BY <2>1, PageKeepsServer DEF KeyedInv
  <2>3. SettledInv' /\ PageInv' /\ KeyedTypeOK'
    BY <2>1 DEF KeyedInv, ServerInv, SettledInv, Settled, PageInv, KeyedTypeOK, server, history
  <2>. QED
    BY <2>2, <2>3 DEF KeyedInv, ServerInv
<1>3. ASSUME KeyedStep, page' = page PROVE KeyedInv'
  <2>1. CASE \/ \E f \in Payload \cup {Blank} : Edit(f)
             \/ FetchQuote
             \/ \E p \in Payload : QuoteAnswered(p)
             \/ Confirm \/ DialogDismissed
    BY <1>3, <2>1, LookingKeepsKeyed
  <2>2. CASE DialogConfirmed
    <3>1. /\ Submit /\ UNCHANGED <<page, form, quote, asked, networkError, server, reported>>
          /\ dialog' = None /\ confirmations' = confirmations + 1
      BY <1>3, <2>2 DEF DialogConfirmed
    <3>. QED
      BY <3>1, SubmitKeepsKeyed
  <2>3. CASE Retry \/ SubmitTransfer
    <3>1. /\ Submit /\ UNCHANGED <<page, form, quote, asked, networkError, server, reported>>
          /\ dialog' = None /\ confirmations' = confirmations
          /\ page = "convert" => key # None
      BY <1>1, <1>3, <2>3 DEF Retry, SubmitTransfer, inputs, CanClick, PageInv, KeyedTypeOK
    <3>. QED
      BY <3>1, SubmitKeepsKeyed
  <2>4. ASSUME NEW i \in DOMAIN sent, IsRefused(i) \/ NetworkFails(i) \/ ServerStep(i)
        PROVE  KeyedInv'
    BY <1>3, <2>4, IsRefusedKeepsKeyed, NetworkFailsKeepsKeyed, ServerKeepsKeyed
  <2>5. ASSUME NEW k \in Request, Age(k) PROVE KeyedInv'
    BY <1>3, <2>5, AgeKeepsKeyed
  <2>. QED
    BY <1>3, <2>1, <2>2, <2>3, <2>4, <2>5 DEF KeyedStep
<1>4. ASSUME NEW i \in DOMAIN sent, HandlerReturns(i) \/ Succeeds(i), page' = page
      PROVE  KeyedInv'
  BY <1>4, SucceedsKeepsKeyed, ServerKeepsKeyed
<1>. QED
  BY <1>2, <1>3, <1>4 DEF KeyedNext

---------------------------------------------------------------------------
(* Requests with keys: what follows *)

(* What is reported has been posted, with the key that was sent and, if no *)
(* attempt was given up on, with the payload.                              *)
LEMMA KeyedReports == KeyedInv => ReportedIsPosted
<1> SUFFICES ASSUME KeyedInv, NEW r \in reported
             PROVE  /\ r[2] \in posted
                    /\ sent[r[2]].key = sent[r[1]].key
                    /\ \/ sent[r[2]].payload = sent[r[1]].payload
                       \/ \E a \in abandoned : sent[a].key = sent[r[1]].key
  BY DEF ReportedIsPosted
<1>1. r[1] \in DOMAIN sent /\ r[2] \in Request /\ sent[r[1]].reply = r[2]
  BY DEF KeyedInv, KeyedTypeOK, ServerInv, RepliesInv
<1>. QED
  BY <1>1 DEF KeyedInv, ServerInv, RepliesInv, Abandoned

LEMMA UnionBound ==
  ASSUME NEW S, NEW T, IsFiniteSet(S), IsFiniteSet(T)
  PROVE  /\ IsFiniteSet(S \cup T) /\ Cardinality(S \cup T) \in Nat
         /\ Cardinality(S) \in Nat /\ Cardinality(T) \in Nat
         /\ Cardinality(S \cup T) <= Cardinality(S) + Cardinality(T)
         /\ S \cap T = {} => Cardinality(S \cup T) = Cardinality(S) + Cardinality(T)
<1>1. /\ IsFiniteSet(S \cup T)
      /\ Cardinality(S \cup T) = Cardinality(S) + Cardinality(T) - Cardinality(S \cap T)
  BY FS_Union
<1>2. IsFiniteSet(S \cap T)
  BY FS_Subset
<1>3. /\ Cardinality(S \cup T) \in Nat /\ Cardinality(S) \in Nat /\ Cardinality(T) \in Nat
      /\ Cardinality(S \cap T) \in Nat
  BY <1>1, <1>2, FS_CardinalityType
<1>4. S \cap T = {} => Cardinality(S \cap T) = 0
  BY FS_EmptySet
<1>. QED
  BY <1>1, <1>3, <1>4

(* A function that keeps things apart bounds their number. *)
LEMMA InjectionBound ==
  ASSUME NEW S, NEW T, IsFiniteSet(T), NEW f, \A s \in S : f[s] \in T,
         \A s, t \in S : f[s] = f[t] => s = t
  PROVE  IsFiniteSet(S) /\ Cardinality(S) \in Nat /\ Cardinality(S) <= Cardinality(T)
<1> DEFINE g == [s \in S |-> f[s]]
<1>1. g \in Injection(S, T)
  BY DEF Injection, IsInjective
<1>2. IsFiniteSet(S) /\ Cardinality(S) <= Cardinality(T)
  BY <1>1, FS_Injection
<1>. QED
  BY <1>2, FS_CardinalityType

Under(S, K) == {i \in S : sent[i].key \in K}

(* Of the attempts under some keys those that were not given up on, nor    *)
(* displaced by the cleaning up of one that failed, have the keys' rows.   *)
LEMMA Attempts ==
  ASSUME KeyedInv, NEW K, IsFiniteSet(K)
  PROVE  /\ IsFiniteSet(Under(ran, K)) /\ Cardinality(Under(ran, K)) \in Nat
         /\ IsFiniteSet(Under(abandoned, K)) /\ Cardinality(Under(abandoned, K)) \in Nat
         /\ IsFiniteSet(Under(Cleaners, K)) /\ Cardinality(Under(Cleaners, K)) \in Nat
         /\ Cardinality(Under(ran, K)) <=
              Cardinality(Under(abandoned, K)) + Cardinality(Under(Cleaners, K)) + Cardinality(K)
<1> DEFINE owners == {i \in Under(ran, K) : Row(i).by = i}
           dispossessed == Under(Displaced, K)
<1>1. /\ IsFiniteSet(DOMAIN sent) /\ ran \subseteq DOMAIN sent /\ abandoned \subseteq ran
  <2>1. IsFiniteSet(DOMAIN sent)
    BY RequestsAre, FS_Interval DEF KeyedInv
  <2>. QED
    BY <2>1 DEF KeyedInv, KeyedTypeOK
<1>2. /\ Under(ran, K) \subseteq DOMAIN sent
      /\ Under(abandoned, K) \subseteq DOMAIN sent
      /\ Under(Cleaners, K) \subseteq DOMAIN sent
  BY <1>1 DEF Under, Cleaners
<1>3. /\ IsFiniteSet(Under(ran, K)) /\ IsFiniteSet(Under(abandoned, K))
      /\ IsFiniteSet(Under(Cleaners, K))
  BY <1>1, <1>2, FS_Subset
<1>4. /\ Cardinality(Under(ran, K)) \in Nat /\ Cardinality(Under(abandoned, K)) \in Nat
      /\ Cardinality(Under(Cleaners, K)) \in Nat /\ Cardinality(K) \in Nat
  BY <1>3, FS_CardinalityType
<1>5. /\ IsFiniteSet(owners) /\ Cardinality(owners) \in Nat
      /\ Cardinality(owners) <= Cardinality(K)
  <2> DEFINE keyOf == [i \in owners |-> sent[i].key]
  <2>1. \A i \in owners : keyOf[i] \in K
    BY DEF Under
  <2>2. \A i, j \in owners : keyOf[i] = keyOf[j] => i = j
    BY DEF Row
  <2> HIDE DEF owners, keyOf
  <2>. QED
    BY <2>1, <2>2, InjectionBound
<1>6. /\ IsFiniteSet(dispossessed) /\ Cardinality(dispossessed) \in Nat
      /\ Cardinality(dispossessed) <= Cardinality(Under(Cleaners, K))
  <2>1. PICK f \in Injection(Displaced, Cleaners) :
          \A i \in Displaced : sent[f[i]].key = sent[i].key
    BY DEF KeyedInv, ServerInv, ChargeInv
  <2>2. \A i \in dispossessed : f[i] \in Under(Cleaners, K)
    BY <2>1 DEF Under, Injection
  <2>3. \A i, j \in dispossessed : f[i] = f[j] => i = j
    BY <2>1 DEF Under, Injection, IsInjective
  <2> HIDE DEF dispossessed
  <2>. QED
    BY <1>3, <2>2, <2>3, InjectionBound
<1>7. Under(ran, K) \subseteq (Under(abandoned, K) \cup dispossessed) \cup owners
  BY DEF Under, Displaced
<1> HIDE DEF owners, dispossessed
<1>8. /\ IsFiniteSet(Under(abandoned, K) \cup dispossessed)
      /\ Cardinality(Under(abandoned, K) \cup dispossessed) \in Nat
      /\ Cardinality(Under(abandoned, K) \cup dispossessed)
           <= Cardinality(Under(abandoned, K)) + Cardinality(dispossessed)
  BY <1>3, <1>6, UnionBound
<1>9. /\ IsFiniteSet((Under(abandoned, K) \cup dispossessed) \cup owners)
      /\ Cardinality((Under(abandoned, K) \cup dispossessed) \cup owners) \in Nat
      /\ Cardinality((Under(abandoned, K) \cup dispossessed) \cup owners)
           <= Cardinality(Under(abandoned, K) \cup dispossessed) + Cardinality(owners)
  BY <1>5, <1>8, UnionBound
<1>10. Cardinality(Under(ran, K)) <= Cardinality((Under(abandoned, K) \cup dispossessed) \cup owners)
  BY <1>7, <1>9, FS_Subset
<1>11. Cardinality(Under(ran, K)) <=
         Cardinality(Under(abandoned, K)) + Cardinality(Under(Cleaners, K)) + Cardinality(K)
  BY ONLY <1>4, <1>5, <1>6, <1>8, <1>9, <1>10
<1>. QED
  BY <1>3, <1>4, <1>11

LEMMA KeyedConfirmations == KeyedInv => OneEntryPerConfirmation
<1> SUFFICES ASSUME KeyedInv, page = "convert"
             PROVE  Cardinality(posted) <= confirmations + Cardinality(abandoned)
  BY DEF OneEntryPerConfirmation
<1>1. /\ IsFiniteSet(Keys) /\ Cardinality(Keys) \in Nat /\ confirmations \in Nat
      /\ Cardinality(Keys) <= confirmations
  <2>1. IsFiniteSet(DOMAIN sent)
    BY RequestsAre, FS_Interval DEF KeyedInv
  <2>2. IsFiniteSet(Keys)
    BY <2>1, FS_Subset DEF Keys
  <2>. QED
    BY <2>2, FS_CardinalityType DEF KeyedInv, KeysInv, KeyedTypeOK
<1>2. /\ posted \subseteq ran /\ ran \subseteq DOMAIN sent /\ abandoned \subseteq ran
      /\ \A i \in DOMAIN sent : sent[i].key \in Keys
  BY DEF KeyedInv, KeyedTypeOK, SentInv, Keys
<1>3. Under(ran, Keys) = ran /\ Under(abandoned, Keys) = abandoned /\ Under(Cleaners, Keys) = Cleaners
  BY <1>2 DEF Under, Cleaners
<1>4. /\ IsFiniteSet(ran) /\ Cardinality(ran) \in Nat
      /\ IsFiniteSet(Cleaners) /\ Cardinality(Cleaners) \in Nat /\ Cardinality(abandoned) \in Nat
      /\ Cardinality(ran) <= Cardinality(abandoned) + Cardinality(Cleaners) + Cardinality(Keys)
  BY <1>1, <1>3, Attempts
<1>5. /\ IsFiniteSet(posted) /\ posted \cap Cleaners = {} /\ posted \cup Cleaners \subseteq ran
  BY <1>2, <1>4, FS_Subset DEF Cleaners
<1>6. /\ Cardinality(posted) \in Nat /\ Cardinality(posted \cup Cleaners) \in Nat
      /\ Cardinality(posted \cup Cleaners) = Cardinality(posted) + Cardinality(Cleaners)
  BY <1>4, <1>5, UnionBound
<1>7. Cardinality(posted \cup Cleaners) <= Cardinality(ran)
  BY <1>4, <1>5, FS_Subset
<1>. QED
  BY ONLY <1>1, <1>4, <1>6, <1>7

(* With one meaning all keys but the last are settled: they have been left *)
(* open, or an attempt is spent on them that is no entry with that meaning.*)
LEMMA KeyedRepeats == KeyedInv => RepeatsAreCharged
<1> SUFFICES ASSUME KeyedInv, NEW m \in DOMAIN sent
             PROVE  Cardinality(posted \cap Meaning(m))
                      <= 1 + Cardinality(LeftOpen(m)) + Cardinality(GivenUp(m))
  BY DEF RepeatsAreCharged
<1> DEFINE entries == posted \cap Meaning(m)
           K == KeysOf(m)
           Earlier == {k \in K : \E i, j \in Meaning(m) : i < j /\ sent[i].key = k /\ sent[j].key # k}
           Open(k) == {h \in DOMAIN sent : sent[h].key = k /\ sent[h].reply \in {InProgress, Failed}}
           open == {k \in K : Open(k) # {}}
           spent == (Under(ran, K) \ entries) \ Under(Cleaners, K)
<1>1. /\ IsFiniteSet(DOMAIN sent) /\ DOMAIN sent \subseteq Nat
      /\ posted \subseteq ran /\ ran \subseteq DOMAIN sent /\ abandoned \subseteq DOMAIN sent
      /\ Failed \in {InProgress, Failed}
  <2>1. IsFiniteSet(DOMAIN sent) /\ DOMAIN sent \subseteq Nat
    BY RequestsAre, FS_Interval DEF KeyedInv
  <2>. QED
    BY <2>1 DEF KeyedInv, KeyedTypeOK
<1>2. /\ IsFiniteSet(K) /\ Cardinality(K) \in Nat
  <2>1. K \subseteq DOMAIN sent
    BY DEF KeysOf, Meaning, KeyedInv, SentInv
  <2>. QED
    BY <1>1, <2>1, FS_Subset, FS_CardinalityType
<1>3. Under(abandoned, K) = GivenUp(m) /\ entries \subseteq Under(ran, K)
  BY <1>1 DEF Under, GivenUp, KeysOf, Meaning
<1>4. CASE entries = {}
  <2>1. GivenUp(m) \subseteq DOMAIN sent /\ LeftOpen(m) \subseteq DOMAIN sent
    BY <1>1 DEF GivenUp, LeftOpen
  <2>2. Cardinality(GivenUp(m)) \in Nat /\ Cardinality(LeftOpen(m)) \in Nat
    BY <1>1, <2>1, FS_Subset, FS_CardinalityType
  <2>3. Cardinality(entries) = 0
    BY <1>4, FS_EmptySet
  <2>. QED
    BY <2>2, <2>3
<1>5. CASE entries # {}
  <2>1. \A i \in Meaning(m) : sent[i].payload # Blank /\ sent[i].payload = sent[m].payload
    <3>1. PICK e \in entries : TRUE
      BY <1>5
    <3>2. sent[e].payload # Blank /\ e \in Meaning(m) /\ e \in DOMAIN sent
      BY <1>1, <3>1 DEF KeyedInv, ServerInv, RanInv
    <3>. QED
      BY <3>2 DEF Meaning, KeyedInv, SentInv
  <2>2. /\ IsFiniteSet(open) /\ Cardinality(open) \in Nat
        /\ IsFiniteSet(LeftOpen(m)) /\ Cardinality(LeftOpen(m)) \in Nat
        /\ Cardinality(open) <= Cardinality(LeftOpen(m))
    <3> DEFINE opener == [k \in open |-> CHOOSE h \in Open(k) : TRUE]
    <3>1. \A k \in open : opener[k] \in Open(k)
      OBVIOUS
    <3>2. IsFiniteSet(LeftOpen(m)) /\ Cardinality(LeftOpen(m)) \in Nat
      BY <1>1, FS_Subset, FS_CardinalityType DEF LeftOpen
    <3> HIDE DEF opener
    <3>3. /\ \A k \in open : opener[k] \in LeftOpen(m)
          /\ \A k, l \in open : opener[k] = opener[l] => k = l
      BY <3>1 DEF LeftOpen
    <3> HIDE DEF open
    <3>. QED
      BY <3>2, <3>3, InjectionBound
  <2>3. ASSUME NEW k \in Earlier \ open PROVE \E w \in spent : sent[w].key = k
    <3>1. PICK i \in Meaning(m), j \in Meaning(m) :
            i < j /\ sent[i].key = k /\ sent[j].key # k
      BY <2>3
    <3>2. Settled(sent[i].key, sent[i].payload)
      BY <2>1, <3>1 DEF Meaning, KeyedInv, ServerInv, SettledInv
    <3>3. PICK w \in ran : /\ sent[w].key = k
                           /\ sent[w].payload # sent[m].payload \/ w \notin posted
      BY <2>1, <2>3, <3>1, <3>2 DEF Settled
    <3>4. w \notin entries
      BY <2>1, <3>3
    <3>5. w \notin Cleaners
      BY <1>1, <2>3, <3>3 DEF Cleaners
    <3>. QED
      BY <3>3, <3>4, <3>5, <2>3 DEF Under
  <2>4. /\ IsFiniteSet(entries) /\ Cardinality(entries) \in Nat
        /\ IsFiniteSet(spent) /\ Cardinality(spent) \in Nat
        /\ Cardinality(Under(ran, K)) \in Nat /\ Cardinality(Under(Cleaners, K)) \in Nat
        /\ Cardinality(Under(ran, K))
             = Cardinality(entries) + Cardinality(Under(Cleaners, K)) + Cardinality(spent)
    <3>1. /\ IsFiniteSet(Under(ran, K)) /\ IsFiniteSet(Under(Cleaners, K))
          /\ Cardinality(Under(ran, K)) \in Nat
      BY <1>2, Attempts
    <3>2. IsFiniteSet(entries) /\ IsFiniteSet(spent)
      BY <1>3, <3>1, FS_Subset
    <3>3. /\ entries \cap Under(Cleaners, K) = {}
          /\ (entries \cup Under(Cleaners, K)) \cap spent = {}
          /\ (entries \cup Under(Cleaners, K)) \cup spent = Under(ran, K)
      BY <1>3 DEF Under, Cleaners
    <3> HIDE DEF entries, spent
    <3>4. /\ IsFiniteSet(entries \cup Under(Cleaners, K))
          /\ Cardinality(entries \cup Under(Cleaners, K))
               = Cardinality(entries) + Cardinality(Under(Cleaners, K))
          /\ Cardinality(entries) \in Nat /\ Cardinality(Under(Cleaners, K)) \in Nat
      BY <3>1, <3>2, <3>3, UnionBound
    <3>5. /\ Cardinality((entries \cup Under(Cleaners, K)) \cup spent)
               = Cardinality(entries \cup Under(Cleaners, K)) + Cardinality(spent)
          /\ Cardinality(spent) \in Nat
      BY <3>2, <3>3, <3>4, UnionBound
    <3>. QED
      BY <3>1, <3>2, <3>3, <3>4, <3>5
  <2>5. /\ IsFiniteSet(Earlier \ open) /\ Cardinality(Earlier \ open) \in Nat
        /\ Cardinality(Earlier \ open) <= Cardinality(spent)
    <3> DEFINE witness == [k \in Earlier \ open |-> CHOOSE w \in spent : sent[w].key = k]
    <3>1. \A k \in Earlier \ open : witness[k] \in spent /\ sent[witness[k]].key = k
      BY <2>3
    <3> HIDE DEF witness, spent, Earlier, open
    <3>2. \A k, l \in Earlier \ open : witness[k] = witness[l] => k = l
      BY ONLY <3>1
    <3>. QED
      BY <2>4, <3>1, <3>2, InjectionBound
  <2>6. \A k, l \in K \ Earlier : k = l
    <3> SUFFICES ASSUME NEW k \in K \ Earlier, NEW l \in K \ Earlier, k # l PROVE FALSE
      OBVIOUS
    <3>1. PICK i \in Meaning(m), j \in Meaning(m) : sent[i].key = k /\ sent[j].key = l
      BY DEF KeysOf
    <3>2. i \in Nat /\ j \in Nat /\ i # j
      BY <1>1, <3>1 DEF Meaning
    <3>3. CASE i < j
      BY <3>1, <3>3
    <3>4. CASE j < i
      BY <3>1, <3>4
    <3>. QED
      BY <3>2, <3>3, <3>4
  <2>7. Cardinality(K) <= Cardinality(open) + Cardinality(Earlier \ open) + 1
    <3>1. PICK last : K \subseteq (open \cup (Earlier \ open)) \cup {last}
      <4>1. CASE K \subseteq Earlier
        BY <4>1
      <4>2. CASE ~(K \subseteq Earlier)
        <5>1. PICK l \in K : l \notin Earlier
          BY <4>2
        <5>2. K \subseteq (open \cup (Earlier \ open)) \cup {l}
          BY <2>6, <5>1
        <5>. QED
          BY <5>2
      <4>. QED
        BY <4>1, <4>2
    <3> HIDE DEF open, Earlier
    <3>2. /\ IsFiniteSet(open \cup (Earlier \ open))
          /\ Cardinality(open \cup (Earlier \ open)) \in Nat
          /\ Cardinality(open \cup (Earlier \ open))
               <= Cardinality(open) + Cardinality(Earlier \ open)
      BY <2>2, <2>5, UnionBound
    <3>3. /\ IsFiniteSet((open \cup (Earlier \ open)) \cup {last})
          /\ Cardinality((open \cup (Earlier \ open)) \cup {last})
               <= Cardinality(open \cup (Earlier \ open)) + 1
          /\ Cardinality((open \cup (Earlier \ open)) \cup {last}) \in Nat
      <4>1. PICK S : S = open \cup (Earlier \ open)
        OBVIOUS
      <4>2. IsFiniteSet(S) /\ Cardinality(S) \in Nat
        BY <3>2, <4>1
      <4>3. /\ IsFiniteSet(S \cup {last})
            /\ Cardinality(S \cup {last}) = IF last \in S THEN Cardinality(S) ELSE Cardinality(S) + 1
        BY ONLY <4>2, FS_AddElement
      <4>4. Cardinality(S \cup {last}) \in Nat /\ Cardinality(S \cup {last}) <= Cardinality(S) + 1
        BY ONLY <4>2, <4>3
      <4>. QED
        BY <4>1, <4>3, <4>4
    <3>4. Cardinality(K) <= Cardinality((open \cup (Earlier \ open)) \cup {last})
      BY <3>1, <3>3, FS_Subset
    <3>. QED
      BY ONLY <1>2, <2>2, <2>5, <3>2, <3>3, <3>4
  <2>8. /\ Cardinality(GivenUp(m)) \in Nat
        /\ Cardinality(Under(ran, K))
             <= Cardinality(GivenUp(m)) + Cardinality(Under(Cleaners, K)) + Cardinality(K)
    BY <1>2, <1>3, Attempts
  <2>. QED
    BY ONLY <1>2, <2>2, <2>4, <2>5, <2>7, <2>8
<1>. QED
  BY <1>4, <1>5

---------------------------------------------------------------------------
(* Pages with lists: the inductive invariant *)

(* What a newest load has read, and what is shown of one, has all that the *)
(* page was told of, and nothing that is read is ahead of the server.      *)
LoadsInv ==
  /\ \A l \in Lists : \A i \in DOMAIN loads[l] : loads[l][i].view # None =>
       /\ loads[l][i].view = view[l]
       /\ loads[l][i].answer # None => \A r \in Item : told[r] <= loads[l][i].answer[r]
  /\ \A l \in List : \A i \in DOMAIN loads[l] : loads[l][i].answer # None =>
       \A r \in Item : loads[l][i].answer[r] <= status[r]
  /\ \A l \in List : \A r \in Item : shown[l][r] <= status[r]
  /\ \A r \in Item : told[r] <= status[r]
  /\ ShownIsLatest

SpinnersInv ==
  \A l \in Lists : loading[l] => Len(loads[l]) > 0 \/ view[l].filter = None

(* Rows that the user acts upon are there, and closed when this is done.   *)
ActsInv ==
  /\ dialogRow # None => status[dialogRow] >= 2
  /\ \A i \in DOMAIN acts :
       /\ status[acts[i].row] >= 2
       /\ acts[i].reply = "done" => status[acts[i].row] = 3
  /\ deciding # None => \E i \in DOMAIN acts : acts[i].row = deciding
  /\ page \notin {"trade", "adminWithdrawals"} => dialogRow = None /\ acts = <<>>

Asked(r) == creates[r].at # "none"

(* Row r may be there, or may come to be, and the page had or awaits its   *)
(* response.                                                               *)
Alive(r) == creates[r].at \in {"travelling", "created"} /\ r \notin lost

(* Rows that the user asks for are there when created, they are known by   *)
(* the first with the same content, and of those one at most is alive.     *)
CreatesInv ==
  /\ page \notin {"trade", "withdrawals"} => filled = FALSE /\ \A r \in Item : ~Asked(r)
  /\ page \in {"trade", "withdrawals"} =>
       \A r \in Item : status[r] >= 2 => creates[r].at = "created"
  /\ \A r \in Item : creates[r].at = "created" => status[r] >= 2
  /\ \A r \in Item : IF Asked(r) THEN /\ creates[r].meaning \in Item
                                     /\ Asked(creates[r].meaning)
                                ELSE creates[r].meaning = None
  /\ lost \subseteq {r \in Item : Asked(r)} /\ IsFiniteSet({r \in Item : Asked(r)})
  /\ awaitedRow # None => Asked(awaitedRow) /\ awaitedRow \notin lost
  /\ meaning # None => Asked(meaning)
  /\ \A r, s \in Item :
       Alive(r) /\ Alive(s) /\ creates[r].meaning = creates[s].meaning => r = s
  /\ \A r \in Item : Alive(r) /\ creates[r].meaning = meaning => r = awaitedRow

(* The history of the transfer page is what has been posted. *)
TransfersInv ==
  page = "transfer" => \A r \in Item : status[r] = IF r \in posted THEN 2 ELSE 1

ListInv ==
  /\ ListTypeOK
  /\ LoadsInv
  /\ SpinnersInv
  /\ ActsInv
  /\ CreatesInv
  /\ TransfersInv
  /\ page \in KeyedPage \cup ListPage

---------------------------------------------------------------------------
(* Pages with lists: sequences and loads *)

LoadRecord == [view : Views \cup {None}, answer : [Item -> 1..3] \cup {None}]
ActRecord == [row : Item, reply : {"done", "refused", None}]

(* A sequence with every element changed. *)
LEMMA Changed ==
  ASSUME NEW S, NEW T, NEW s \in Seq(S), NEW t, DOMAIN t = DOMAIN s,
         t = [i \in DOMAIN s |-> t[i]], \A i \in DOMAIN s : t[i] \in T
  PROVE  t \in Seq(T) /\ Len(t) = Len(s)
<1>1. Len(s) \in Nat /\ DOMAIN s = 1..Len(s)
  BY LenProperties
<1>2. t \in [1..Len(s) -> T]
  BY <1>1
<1>3. t \in Seq(T)
  BY <1>1, <1>2, SeqDef
<1>4. Len(t) \in Nat /\ DOMAIN t = 1..Len(t)
  BY <1>3, LenProperties
<1>. QED
  BY <1>1, <1>3, <1>4

(* What is left of a sequence without one of its elements. *)
LEMMA Removed ==
  ASSUME NEW S, NEW s \in Seq(S), NEW i \in DOMAIN s
  PROVE  /\ RemoveAt(s, i) \in Seq(S)
         /\ \A j \in DOMAIN RemoveAt(s, i) :
              \E k \in DOMAIN s : k # i /\ RemoveAt(s, i)[j] = s[k]
<1> DEFINE n == Len(s)
           left == SubSeq(s, 1, i - 1)
           right == SubSeq(s, i + 1, n)
<1>1. n \in Nat /\ DOMAIN s = 1..n /\ i \in 1..n /\ \A j \in 1..n : s[j] \in S
  BY LenProperties, ElementOfSeq
<1>2. /\ left \in Seq(S) /\ Len(left) = i - 1
      /\ \A j \in 1..(i - 1) : left[j] = s[j]
  <2>1. /\ 1 \in Int /\ i - 1 \in Int /\ \A j \in 1..(i - 1) : s[j] \in S
    BY <1>1
  <2>2. /\ left \in Seq(S) /\ Len(left) = IF 1 <= i - 1 THEN (i - 1) - 1 + 1 ELSE 0
        /\ \A j \in 1..((i - 1) - 1 + 1) : left[j] = s[1 + j - 1]
    BY <2>1, SubSeqProperties
  <2>. QED
    BY <1>1, <2>2
<1>3. /\ right \in Seq(S) /\ Len(right) = n - i
      /\ \A j \in 1..(n - i) : right[j] = s[i + j]
  <2>1. /\ i + 1 \in Int /\ n \in Int /\ \A j \in (i + 1)..n : s[j] \in S
    BY <1>1
  <2>2. /\ right \in Seq(S) /\ Len(right) = IF i + 1 <= n THEN n - (i + 1) + 1 ELSE 0
        /\ \A j \in 1..(n - (i + 1) + 1) : right[j] = s[(i + 1) + j - 1]
    BY <2>1, SubSeqProperties
  <2>. QED
    BY <1>1, <2>2
<1> HIDE DEF left, right
<1>4. /\ left \o right \in Seq(S) /\ Len(left \o right) = n - 1
      /\ \A j \in 1..(n - 1) : (left \o right)[j] = IF j <= i - 1 THEN left[j] ELSE right[j - (i - 1)]
  <2>1. /\ left \o right \in Seq(S) /\ Len(left \o right) = Len(left) + Len(right)
        /\ \A j \in 1..(Len(left) + Len(right)) :
             (left \o right)[j] = IF j <= Len(left) THEN left[j] ELSE right[j - Len(left)]
    BY <1>2, <1>3, ConcatProperties
  <2>. QED
    BY <1>1, <1>2, <1>3, <2>1
<1>5. DOMAIN (left \o right) = 1..(n - 1)
  BY <1>4, LenProperties
<1>6. ASSUME NEW j \in 1..(n - 1) PROVE \E k \in 1..n : k # i /\ (left \o right)[j] = s[k]
  <2>1. CASE j <= i - 1
    BY <1>1, <1>2, <1>4, <2>1
  <2>2. CASE ~(j <= i - 1)
    <3>1. j - (i - 1) \in 1..(n - i) /\ j + 1 \in 1..n /\ j + 1 # i /\ i + (j - (i - 1)) = j + 1
      BY <1>1, <2>2
    <3>2. right[j - (i - 1)] = s[i + (j - (i - 1))]
      BY <1>3, <3>1
    <3>3. (left \o right)[j] = right[j - (i - 1)]
      BY <1>4, <2>2
    <3>. QED
      BY <3>1, <3>2, <3>3
  <2>. QED
    BY <2>1, <2>2
<1>7. RemoveAt(s, i) = left \o right
  BY DEF RemoveAt, left, right
<1>. QED
  BY <1>1, <1>4, <1>5, <1>6, <1>7

(* The rows and lists of a page. *)
LEMMA RowsAre ==
  ASSUME page' = page
  PROVE  Lists \subseteq List /\ Lists' = Lists /\ Item' = Item /\ ActionList' = ActionList
BY DEF Lists, ListsOf, List, Item, ActionList

(* Loading some lists: each has a load under its view, without an answer,  *)
(* and the views of those on their way are forgotten.                      *)
LEMMA Loaded ==
  ASSUME ListTypeOK, NEW ls, Load(ls), view' \in [List -> Views]
  PROVE  /\ loads' \in [List -> Seq(LoadRecord)] /\ loading' \in [List -> BOOLEAN]
         /\ latest' \in [List -> Views \cup {None}] /\ shown' = shown
         /\ \A l \in List \ ls :
              loads'[l] = loads[l] /\ latest'[l] = latest[l] /\ loading'[l] = loading[l]
         /\ \A l \in List \cap ls :
              /\ latest'[l] = None /\ Len(loads'[l]) > 0
              /\ \A i \in DOMAIN loads'[l] :
                   \/ loads'[l][i].view = view'[l] /\ loads'[l][i].answer = None
                   \/ /\ loads'[l][i].view = None
                      /\ \E j \in DOMAIN loads[l] : loads'[l][i].answer = loads[l][j].answer
<1>1. /\ loads \in [List -> Seq(LoadRecord)] /\ loading \in [List -> BOOLEAN]
      /\ latest \in [List -> Views \cup {None}]
  BY DEF ListTypeOK, LoadRecord
<1>2. /\ shown' = shown
      /\ loading' = [l \in List |-> loading[l] \/ l \in ls]
      /\ latest' = [l \in List |-> IF l \in ls THEN None ELSE latest[l]]
  BY DEF Load
<1>3. loading' \in [List -> BOOLEAN] /\ latest' \in [List -> Views \cup {None}]
  BY <1>1, <1>2
<1> DEFINE Forgotten(l) == [i \in DOMAIN loads[l] |-> [loads[l][i] EXCEPT !.view = None]]
<1>4. loads' = [l \in List |-> IF l \in ls THEN Append(Forgotten(l), LoadOf(view'[l]))
                                           ELSE loads[l]]
  BY DEF Load
<1>5. ASSUME NEW l \in List
      PROVE  /\ Forgotten(l) \in Seq(LoadRecord)
             /\ DOMAIN Forgotten(l) = DOMAIN loads[l]
             /\ \A i \in DOMAIN loads[l] : Forgotten(l)[i].view = None
                                           /\ Forgotten(l)[i].answer = loads[l][i].answer
  <2>1. /\ loads[l] \in Seq(LoadRecord)
        /\ \A i \in DOMAIN loads[l] : loads[l][i] \in LoadRecord
    BY <1>1, LenProperties, ElementOfSeq
  <2>2. \A i \in DOMAIN loads[l] :
          /\ Forgotten(l)[i] \in LoadRecord
          /\ Forgotten(l)[i].view = None
          /\ Forgotten(l)[i].answer = loads[l][i].answer
    BY <2>1 DEF LoadRecord
  <2>3. DOMAIN Forgotten(l) = DOMAIN loads[l]
    OBVIOUS
  <2>4. Forgotten(l) = [i \in DOMAIN loads[l] |-> Forgotten(l)[i]]
    OBVIOUS
  <2> HIDE DEF Forgotten
  <2>5. Forgotten(l) \in Seq(LoadRecord)
    BY <2>1, <2>2, <2>3, <2>4, Changed
  <2>. QED
    BY <2>2, <2>3, <2>5
<1> HIDE DEF Forgotten
<1>6. ASSUME NEW l \in List, l \in ls
      PROVE  /\ loads'[l] \in Seq(LoadRecord) /\ Len(loads'[l]) > 0
             /\ \A i \in DOMAIN loads'[l] :
                  \/ loads'[l][i].view = view'[l] /\ loads'[l][i].answer = None
                  \/ /\ loads'[l][i].view = None
                     /\ \E j \in DOMAIN loads[l] : loads'[l][i].answer = loads[l][j].answer
  <2> DEFINE new == LoadOf(view'[l])
             n == Len(Forgotten(l))
  <2>1. loads'[l] = Append(Forgotten(l), new)
    BY <1>4, <1>6
  <2>2. new \in LoadRecord /\ new.view = view'[l] /\ new.answer = None
    BY DEF LoadOf, LoadRecord
  <2>3. Forgotten(l) \in Seq(LoadRecord) /\ n \in Nat /\ DOMAIN Forgotten(l) = 1..n
    BY <1>5, LenProperties
  <2> HIDE DEF new
  <2>4. /\ loads'[l] \in Seq(LoadRecord) /\ Len(loads'[l]) = n + 1 /\ loads'[l][n + 1] = new
        /\ \A i \in 1..n : loads'[l][i] = Forgotten(l)[i]
    BY <2>1, <2>2, <2>3, AppendProperties
  <2>5. DOMAIN loads'[l] = 1..(n + 1)
    BY <2>4, LenProperties
  <2>6. ASSUME NEW i \in DOMAIN loads'[l]
        PROVE  \/ loads'[l][i].view = view'[l] /\ loads'[l][i].answer = None
               \/ /\ loads'[l][i].view = None
                  /\ \E j \in DOMAIN loads[l] : loads'[l][i].answer = loads[l][j].answer
    <3>1. CASE i = n + 1
      BY <2>2, <2>4, <3>1
    <3>2. CASE i \in 1..n
      BY <1>5, <2>3, <2>4, <3>2
    <3>. QED
      BY <2>3, <2>5, <3>1, <3>2
  <2>. QED
    BY <2>3, <2>4, <2>6
<1>7. loads' \in [List -> Seq(LoadRecord)]
  BY <1>1, <1>4, <1>6
<1>. QED
  BY <1>1, <1>2, <1>3, <1>4, <1>6, <1>7

(* The properties of loads and spinners are about these. *)
LoadsFacts == LoadsInv /\ SpinnersInv

(* Loading every list whose view changes, and all of them when the page is *)
(* told something, keeps them.                                             *)
LEMMA LoadKeepsLists ==
  ASSUME ListTypeOK, LoadsFacts, page' = page, NEW ls, Load(ls), view' \in [List -> Views],
         status' = status,
         \A l \in Lists \ ls : view'[l] = view[l],
         told' = told \/ Lists \subseteq ls,
         \A r \in Item : told'[r] <= status[r]
  PROVE  LoadsFacts'
<1>1. Lists \subseteq List /\ Lists' = Lists /\ Item' = Item
  BY RowsAre
<1>2. /\ shown' = shown
      /\ \A l \in List \ ls :
           loads'[l] = loads[l] /\ latest'[l] = latest[l] /\ loading'[l] = loading[l]
      /\ \A l \in List \cap ls :
           /\ latest'[l] = None /\ Len(loads'[l]) > 0
           /\ \A i \in DOMAIN loads'[l] :
                \/ loads'[l][i].view = view'[l] /\ loads'[l][i].answer = None
                \/ /\ loads'[l][i].view = None
                   /\ \E j \in DOMAIN loads[l] : loads'[l][i].answer = loads[l][j].answer
  BY Loaded
<1>3. LoadsInv
  BY DEF LoadsFacts
<1>4. ASSUME NEW l \in Lists, NEW i \in DOMAIN loads'[l], loads'[l][i].view # None
      PROVE  /\ loads'[l][i].view = view'[l]
             /\ loads'[l][i].answer # None => \A r \in Item : told'[r] <= loads'[l][i].answer[r]
  <2>1. CASE l \in ls
    BY <1>1, <1>2, <1>4, <2>1
  <2>2. CASE l \notin ls
    <3>1. loads'[l] = loads[l] /\ view'[l] = view[l] /\ told' = told
      BY <1>1, <1>2, <2>2
    <3>. QED
      BY <1>3, <1>4, <3>1 DEF LoadsInv
  <2>. QED
    BY <2>1, <2>2
<1>5. ASSUME NEW l \in List, NEW i \in DOMAIN loads'[l], loads'[l][i].answer # None
      PROVE  \A r \in Item : loads'[l][i].answer[r] <= status[r]
  <2>1. PICK j \in DOMAIN loads[l] : loads'[l][i].answer = loads[l][j].answer
    BY <1>2, <1>5
  <2>. QED
    BY <1>3, <1>5, <2>1 DEF LoadsInv
<1>6. ASSUME NEW l \in Lists, latest'[l] # None
      PROVE  latest'[l] = view'[l] /\ \A r \in Item : told'[r] <= shown[l][r]
  <2>1. l \notin ls /\ latest'[l] = latest[l] /\ view'[l] = view[l] /\ told' = told
    BY <1>1, <1>2, <1>6
  <2>. QED
    BY <1>3, <1>6, <2>1 DEF LoadsInv, ShownIsLatest
<1>7. LoadsInv'
  BY <1>1, <1>2, <1>3, <1>4, <1>5, <1>6 DEF LoadsInv, ShownIsLatest
<1>8. SpinnersInv'
  BY <1>1, <1>2 DEF LoadsFacts, SpinnersInv
<1>. QED
  BY <1>7, <1>8 DEF LoadsFacts

(* Rows that come to be or are closed keep them. *)
LEMMA StatusKeepsLists ==
  ASSUME ListTypeOK, LoadsFacts, UNCHANGED <<page, lists, told>>,
         status' \in [Item -> 1..3], \A r \in Item : status[r] <= status'[r]
  PROVE  LoadsFacts'
<1>1. /\ Lists \subseteq List /\ Lists' = Lists /\ Item' = Item
      /\ UNCHANGED <<view, loading, shown, latest, loads, told>>
  BY RowsAre DEF lists
<1>2. /\ LoadsInv /\ SpinnersInv
      /\ loads \in [List -> Seq(LoadRecord)]
      /\ status \in [Item -> 1..3] /\ told \in [Item -> 1..3] /\ shown \in [List -> [Item -> 1..3]]
  BY DEF LoadsFacts, ListTypeOK, LoadRecord
<1>0. ASSUME NEW r \in Item
      PROVE  status[r] \in Int /\ status'[r] \in Int /\ status[r] <= status'[r]
  BY <1>2
<1>3. ASSUME NEW l \in List, NEW i \in DOMAIN loads[l], loads[l][i].answer # None, NEW r \in Item
      PROVE  loads[l][i].answer[r] <= status'[r]
  <2>1. loads[l][i] \in LoadRecord
    BY <1>2, LenProperties, ElementOfSeq
  <2>2. loads[l][i].answer[r] \in 1..3 /\ loads[l][i].answer[r] <= status[r]
    BY <1>2, <1>3, <2>1 DEF LoadsInv, LoadRecord
  <2>. QED
    BY <1>0, <2>2
<1>4. ASSUME NEW r \in Item
      PROVE  told[r] <= status'[r] /\ \A l \in List : shown[l][r] <= status'[r]
  <2>1. /\ told[r] \in Int /\ told[r] <= status[r]
        /\ \A l \in List : shown[l][r] \in Int /\ shown[l][r] <= status[r]
    BY <1>2 DEF LoadsInv
  <2>. QED
    BY <1>0, <2>1
<1>5. /\ ShownIsLatest'
      /\ \A l \in Lists : \A i \in DOMAIN loads[l] : loads[l][i].view # None =>
           /\ loads[l][i].view = view[l]
           /\ loads[l][i].answer # None => \A r \in Item : told[r] <= loads[l][i].answer[r]
  BY <1>1, <1>2 DEF LoadsInv, ShownIsLatest
<1>6. LoadsInv'
  BY <1>1, <1>3, <1>4, <1>5 DEF LoadsInv
<1>7. SpinnersInv'
  BY <1>1, <1>2 DEF SpinnersInv
<1>. QED
  BY <1>6, <1>7 DEF LoadsFacts

(* The server answers a load with its rows. *)
LEMMA AnswerKeepsLists ==
  ASSUME ListTypeOK, LoadsFacts, page' = page, NEW l \in Lists, NEW i \in DOMAIN loads[l],
         ServerAnswers(l, i)
  PROVE  LoadsFacts' /\ loads' \in [List -> Seq(LoadRecord)]
<1>1. /\ Lists \subseteq List /\ Lists' = Lists /\ Item' = Item
      /\ UNCHANGED <<view, loading, shown, latest, told, status>>
      /\ loads[l][i].answer = None
      /\ loads' = [loads EXCEPT ![l][i].answer = status]
  BY RowsAre DEF ServerAnswers
<1>2. /\ LoadsInv /\ SpinnersInv
      /\ loads \in [List -> Seq(LoadRecord)]
      /\ status \in [Item -> 1..3]
  BY DEF LoadsFacts, ListTypeOK, LoadRecord
<1> DEFINE answered == [loads[l][i] EXCEPT !.answer = status]
<1>3. /\ loads[l] \in Seq(LoadRecord) /\ DOMAIN loads[l] = 1..Len(loads[l])
      /\ \A j \in DOMAIN loads[l] : loads[l][j] \in LoadRecord
  BY <1>1, <1>2, LenProperties, ElementOfSeq
<1>4. answered \in LoadRecord /\ answered.answer = status /\ answered.view = loads[l][i].view
  BY <1>2, <1>3 DEF LoadRecord
<1>5. loads' = [loads EXCEPT ![l] = [loads[l] EXCEPT ![i] = answered]]
  BY <1>1
<1> HIDE DEF answered
<1>6. /\ [loads[l] EXCEPT ![i] = answered] \in Seq(LoadRecord)
      /\ Len([loads[l] EXCEPT ![i] = answered]) = Len(loads[l])
      /\ \A j \in 1..Len(loads[l]) : [loads[l] EXCEPT ![i] = answered][j] =
           IF j = i THEN answered ELSE loads[l][j]
  BY <1>3, <1>4, ExceptSeq
<1>7. loads' \in [List -> Seq(LoadRecord)]
  BY <1>1, <1>2, <1>5, <1>6
<1>8. /\ \A m \in List \ {l} : loads'[m] = loads[m]
      /\ DOMAIN loads'[l] = DOMAIN loads[l] /\ Len(loads'[l]) = Len(loads[l])
      /\ \A j \in DOMAIN loads[l] : /\ loads'[l][j].view = loads[l][j].view
                                    /\ loads'[l][j].answer = IF j = i THEN status
                                                             ELSE loads[l][j].answer
  BY <1>1, <1>2, <1>3, <1>4, <1>5, <1>6
<1>9. ASSUME NEW m \in Lists, NEW j \in DOMAIN loads'[m], loads'[m][j].view # None
      PROVE  /\ loads'[m][j].view = view[m]
             /\ loads'[m][j].answer # None => \A r \in Item : told[r] <= loads'[m][j].answer[r]
  <2>1. \A r \in Item : told[r] <= status[r]
    BY <1>2 DEF LoadsInv
  <2>2. CASE m # l
    BY <1>1, <1>2, <1>8, <1>9, <2>2 DEF LoadsInv
  <2>3. CASE m = l
    BY <1>2, <1>8, <1>9, <2>1, <2>3 DEF LoadsInv
  <2>. QED
    BY <2>2, <2>3
<1>10. ASSUME NEW m \in List, NEW j \in DOMAIN loads'[m], loads'[m][j].answer # None, NEW r \in Item
       PROVE  loads'[m][j].answer[r] <= status[r]
  <2>1. CASE m # l
    BY <1>2, <1>8, <1>10, <2>1 DEF LoadsInv
  <2>2. CASE m = l /\ j # i
    BY <1>2, <1>8, <1>10, <2>2 DEF LoadsInv
  <2>3. CASE m = l /\ j = i
    BY <1>2, <1>8, <2>3
  <2>. QED
    BY <2>1, <2>2, <2>3
<1>11. LoadsInv'
  BY <1>1, <1>2, <1>9, <1>10 DEF LoadsInv, ShownIsLatest
<1>12. SpinnersInv'
  BY <1>1, <1>2, <1>8 DEF SpinnersInv
<1>. QED
  BY <1>7, <1>11, <1>12 DEF LoadsFacts

(* A response, or its failure, ends a load. *)
LEMMA EndKeepsLists ==
  ASSUME ListTypeOK, LoadsFacts, page' = page, NEW l \in Lists, NEW i \in DOMAIN loads[l],
         LoadArrives(l, i) \/ LoadFails(l, i)
  PROVE  /\ LoadsFacts' /\ loads' \in [List -> Seq(LoadRecord)] /\ loading' \in [List -> BOOLEAN]
         /\ shown' \in [List -> [Item -> 1..3]] /\ latest' \in [List -> Views \cup {None}]
<1>1. /\ Lists \subseteq List /\ Lists' = Lists /\ Item' = Item /\ l \in List
      /\ UNCHANGED <<view, told, status>>
      /\ loading' = [loading EXCEPT ![l] = FALSE]
      /\ loads' = [loads EXCEPT ![l] = RemoveAt(loads[l], i)]
  BY RowsAre DEF LoadArrives, LoadFails, Ended
<1>2. /\ LoadsInv /\ SpinnersInv
      /\ loads \in [List -> Seq(LoadRecord)] /\ loading \in [List -> BOOLEAN]
      /\ shown \in [List -> [Item -> 1..3]] /\ latest \in [List -> Views \cup {None}]
  BY DEF LoadsFacts, ListTypeOK, LoadRecord
<1>3. /\ loads[l] \in Seq(LoadRecord) /\ loads[l][i] \in LoadRecord
  BY <1>1, <1>2, LenProperties, ElementOfSeq
<1>4. /\ RemoveAt(loads[l], i) \in Seq(LoadRecord)
      /\ \A j \in DOMAIN RemoveAt(loads[l], i) :
           \E k \in DOMAIN loads[l] : RemoveAt(loads[l], i)[j] = loads[l][k]
  BY <1>3, Removed
<1>5. /\ loads' \in [List -> Seq(LoadRecord)] /\ loading' \in [List -> BOOLEAN]
      /\ \A m \in List : \A j \in DOMAIN loads'[m] :
           \E k \in DOMAIN loads[m] : loads'[m][j] = loads[m][k]
      /\ \A m \in List \ {l} : loads'[m] = loads[m] /\ loading'[m] = loading[m]
      /\ loading'[l] = FALSE
  BY <1>1, <1>2, <1>4
<1>6. \/ shown' = shown /\ latest' = latest
      \/ /\ loads[l][i].answer # None
         /\ shown' = [shown EXCEPT ![l] = loads[l][i].answer]
         /\ latest' = [latest EXCEPT ![l] = loads[l][i].view]
  BY DEF LoadArrives, LoadFails
<1>7. shown' \in [List -> [Item -> 1..3]] /\ latest' \in [List -> Views \cup {None}]
  BY <1>1, <1>2, <1>3, <1>6 DEF LoadRecord
<1>8. ASSUME NEW m \in Lists, NEW j \in DOMAIN loads'[m], loads'[m][j].view # None
      PROVE  /\ loads'[m][j].view = view[m]
             /\ loads'[m][j].answer # None => \A r \in Item : told[r] <= loads'[m][j].answer[r]
  <2>1. PICK k \in DOMAIN loads[m] : loads'[m][j] = loads[m][k]
    BY <1>1, <1>5
  <2>. QED
    BY <1>2, <1>8, <2>1 DEF LoadsInv
<1>9. ASSUME NEW m \in List, NEW j \in DOMAIN loads'[m], loads'[m][j].answer # None
      PROVE  \A r \in Item : loads'[m][j].answer[r] <= status[r]
  <2>1. PICK k \in DOMAIN loads[m] : loads'[m][j] = loads[m][k]
    BY <1>5
  <2>. QED
    BY <1>2, <1>9, <2>1 DEF LoadsInv
<1>10. ASSUME NEW m \in List, NEW r \in Item PROVE shown'[m][r] <= status[r]
  <2>1. CASE shown'[m] = shown[m]
    BY <1>2, <2>1 DEF LoadsInv
  <2>2. CASE shown'[m] # shown[m]
    <3>1. m = l /\ loads[l][i].answer # None /\ shown'[m] = loads[l][i].answer
      BY <1>1, <1>2, <1>6, <2>2
    <3>. QED
      BY <1>1, <1>2, <3>1 DEF LoadsInv
  <2>. QED
    BY <2>1, <2>2
<1>11. ASSUME NEW m \in Lists, latest'[m] # None
       PROVE  latest'[m] = view[m] /\ \A r \in Item : told[r] <= shown'[m][r]
  <2>1. CASE latest'[m] = latest[m] /\ shown'[m] = shown[m]
    BY <1>2, <1>11, <2>1 DEF LoadsInv, ShownIsLatest
  <2>2. CASE ~(latest'[m] = latest[m] /\ shown'[m] = shown[m])
    <3>1. /\ m = l /\ loads[l][i].answer # None
          /\ shown'[m] = loads[l][i].answer /\ latest'[m] = loads[l][i].view
      BY <1>1, <1>2, <1>6, <2>2
    <3>. QED
      BY <1>2, <1>11, <3>1 DEF LoadsInv
  <2>. QED
    BY <2>1, <2>2
<1>12. LoadsInv'
  BY <1>1, <1>2, <1>8, <1>9, <1>10, <1>11 DEF LoadsInv, ShownIsLatest
<1>13. SpinnersInv'
  BY <1>1, <1>2, <1>5 DEF SpinnersInv
<1>. QED
  BY <1>5, <1>7, <1>12, <1>13 DEF LoadsFacts

---------------------------------------------------------------------------
(* Pages with lists: what the steps keep *)

(* What is none of the page's rows. *)
LEMMA NoneIsNoRow == None \notin Item
BY ListAssumption DEF Item

(* Cancellations and decisions of the user stay what they are. *)
LEMMA ActsStay ==
  ASSUME ListTypeOK, ActsInv, UNCHANGED <<page, actVars>>,
         status' \in [Item -> 1..3], \A r \in Item : status[r] <= status'[r]
  PROVE  ActsInv'
<1>1. /\ acts \in Seq(ActRecord) /\ status \in [Item -> 1..3]
      /\ dialogRow \in Item \cup {None}
  BY DEF ListTypeOK, ActRecord
<1>2. UNCHANGED <<dialogRow, deciding, acts>>
  BY DEF actVars
<1>3. ASSUME NEW i \in DOMAIN acts
      PROVE  /\ status'[acts[i].row] >= 2
             /\ acts[i].reply = "done" => status'[acts[i].row] = 3
  <2>0. acts[i] \in ActRecord
    BY <1>1, LenProperties, ElementOfSeq
  <2>1. acts[i].row \in Item
    BY <2>0 DEF ActRecord
  <2>2. /\ status[acts[i].row] \in 1..3 /\ status'[acts[i].row] \in 1..3
        /\ status[acts[i].row] <= status'[acts[i].row]
    BY <1>1, <2>1
  <2>3. /\ status[acts[i].row] >= 2
        /\ acts[i].reply = "done" => status[acts[i].row] = 3
    BY DEF ActsInv
  <2>. QED
    BY <2>2, <2>3
<1>4. ASSUME dialogRow # None PROVE status'[dialogRow] >= 2
  <2>1. status[dialogRow] \in 1..3 /\ status'[dialogRow] \in 1..3
        /\ status[dialogRow] <= status'[dialogRow] /\ status[dialogRow] >= 2
    BY <1>1, <1>4 DEF ActsInv
  <2>. QED
    BY <2>1
<1>. QED
  BY <1>2, <1>3, <1>4 DEF ActsInv

(* So do the requests to create a row. *)
LEMMA CreatesStay ==
  ASSUME ListTypeOK, CreatesInv, UNCHANGED <<page, formVars>>,
         status' \in [Item -> 1..3], \A r \in Item : status[r] <= status'[r],
         page \in {"trade", "withdrawals"} =>
           \A r \in Item : status'[r] >= 2 => status[r] >= 2
  PROVE  CreatesInv'
<1>1. /\ Item' = Item /\ UNCHANGED <<filled, meaning, awaitedRow, creates, lost>>
      /\ status \in [Item -> 1..3]
  BY RowsAre DEF formVars, ListTypeOK
<1>2. ASSUME NEW r \in Item, creates[r].at = "created" PROVE status'[r] >= 2
  <2>1. status[r] \in 1..3 /\ status'[r] \in 1..3 /\ status[r] <= status'[r] /\ status[r] >= 2
    BY <1>1, <1>2 DEF CreatesInv
  <2>. QED
    BY <2>1
<1>3. ASSUME page \in {"trade", "withdrawals"}, NEW r \in Item, status'[r] >= 2
      PROVE  creates[r].at = "created"
  BY <1>3 DEF CreatesInv
<1>4. \A r \in Item : Asked(r)' = Asked(r) /\ Alive(r)' = Alive(r)
  BY <1>1 DEF Asked, Alive
<1>5. {r \in Item : Asked(r)}' = {r \in Item : Asked(r)}
  BY <1>1 DEF Asked
<1>6. /\ (page \notin {"trade", "withdrawals"} => filled = FALSE /\ \A r \in Item : ~Asked(r))'
      /\ (lost \subseteq {r \in Item : Asked(r)} /\ IsFiniteSet({r \in Item : Asked(r)}))'
  BY <1>1, <1>5 DEF CreatesInv, Asked
<1>7. /\ (\A r \in Item : IF Asked(r) THEN creates[r].meaning \in Item /\ Asked(creates[r].meaning)
                                     ELSE creates[r].meaning = None)'
      /\ (awaitedRow # None => Asked(awaitedRow) /\ awaitedRow \notin lost)'
      /\ (meaning # None => Asked(meaning))'
  BY <1>1 DEF CreatesInv, Asked
<1>8. /\ (\A r, s \in Item :
            Alive(r) /\ Alive(s) /\ creates[r].meaning = creates[s].meaning => r = s)'
      /\ (\A r \in Item : Alive(r) /\ creates[r].meaning = meaning => r = awaitedRow)'
  BY <1>1 DEF CreatesInv, Alive
<1>. QED
  BY <1>1, <1>2, <1>3, <1>6, <1>7, <1>8 DEF CreatesInv

(* Looking at lists changes them, and nothing else. *)
LEMMA LookingStays ==
  ASSUME ListInv, UNCHANGED <<page, status, told, formVars, actVars, posted>>, LoadsFacts',
         view' \in [List -> Views], loading' \in [List -> BOOLEAN],
         shown' \in [List -> [Item -> 1..3]], latest' \in [List -> Views \cup {None}],
         loads' \in [List -> Seq(LoadRecord)]
  PROVE  ListInv'
<1>1. Item' = Item /\ Lists' = Lists
  BY RowsAre
<1>2. ListTypeOK'
  <2>1. /\ ListTypeOK
        /\ UNCHANGED <<status, told, filled, meaning, awaitedRow, creates, lost, dialogRow,
                       deciding, acts>>
    BY DEF ListInv, formVars, actVars
  <2>2. view' \in [List -> Views] /\ loads' \in [List -> Seq(LoadRecord')]
    BY <1>1 DEF LoadRecord
  <2>3. (loads \in [List -> Seq([view : Views \cup {None}, answer : [Item -> 1..3] \cup {None}])])'
    BY <2>2 DEF LoadRecord
  <2>4. /\ (status \in [Item -> 1..3] /\ told \in [Item -> 1..3])'
        /\ (shown \in [List -> [Item -> 1..3]])'
        /\ (creates \in [Item -> [at : {"none", "travelling", "created", "refused"},
                                  meaning : Item \cup {None}]])'
        /\ (acts \in Seq([row : Item, reply : {"done", "refused", None}]))'
    BY <1>1, <2>1 DEF ListTypeOK
  <2>5. /\ (filled \in BOOLEAN /\ lost \subseteq Item)'
        /\ ({meaning, awaitedRow, dialogRow, deciding} \subseteq Item \cup {None})'
    BY <1>1, <2>1 DEF ListTypeOK
  <2>. QED
    BY <2>2, <2>3, <2>4, <2>5 DEF ListTypeOK
<1>3. status \in [Item -> 1..3] /\ status' = status
  BY DEF ListInv, ListTypeOK
<1>4. status' \in [Item -> 1..3] /\ \A r \in Item : status[r] <= status'[r]
  <2>1. \A r \in Item : status[r] \in Int
    BY <1>3
  <2>. QED
    BY <1>3, <2>1
<1>5. ActsInv'
  BY <1>4, ActsStay DEF ListInv
<1>6. CreatesInv'
  BY <1>4, CreatesStay DEF ListInv
<1>7. TransfersInv'
  BY <1>1 DEF ListInv, TransfersInv
<1>. QED
  BY <1>2, <1>5, <1>6, <1>7 DEF ListInv, LoadsFacts

(* The loading of lists and its ends, and what makes the user load them. *)
LEMMA LookingKeepsLists ==
  ASSUME ListInv, UNCHANGED <<page, posted>>,
         \/ \E l \in Lists : \E i \in DOMAIN loads[l] :
              ServerAnswers(l, i) \/ LoadArrives(l, i) \/ LoadFails(l, i)
         \/ BalancesArrive \/ BalancesFail
         \/ \E l \in Lists \cap Paged : ChangePage(l)
         \/ \E l \in Lists : \E f \in FilterChoices(l) : SelectFilter(l, f)
  PROVE  ListInv'
<1>1. ListTypeOK /\ LoadsFacts /\ LoadsInv /\ SpinnersInv
  BY DEF ListInv, LoadsFacts
<1>2. /\ view \in [List -> Views] /\ loading \in [List -> BOOLEAN]
      /\ shown \in [List -> [Item -> 1..3]] /\ latest \in [List -> Views \cup {None}]
      /\ loads \in [List -> Seq(LoadRecord)]
  BY <1>1 DEF ListTypeOK, LoadRecord
<1>3. /\ Lists \subseteq List /\ Lists' = Lists /\ Item' = Item /\ "lines" \in List
  BY RowsAre DEF List
<1>4. ASSUME NEW l \in Lists, NEW i \in DOMAIN loads[l], ServerAnswers(l, i) PROVE ListInv'
  <2>1. LoadsFacts' /\ loads' \in [List -> Seq(LoadRecord)]
    BY <1>1, <1>4, AnswerKeepsLists
  <2>2. UNCHANGED <<view, loading, shown, latest, status, told, formVars, actVars>>
    BY <1>4 DEF ServerAnswers
  <2>. QED
    BY <1>2, <2>1, <2>2, LookingStays
<1>5. ASSUME NEW l \in Lists, NEW i \in DOMAIN loads[l], LoadArrives(l, i) \/ LoadFails(l, i)
      PROVE  ListInv'
  <2>1. /\ LoadsFacts' /\ loads' \in [List -> Seq(LoadRecord)] /\ loading' \in [List -> BOOLEAN]
        /\ shown' \in [List -> [Item -> 1..3]] /\ latest' \in [List -> Views \cup {None}]
    BY <1>1, <1>5, EndKeepsLists
  <2>2. UNCHANGED <<view, status, told, formVars, actVars>>
    BY <1>5 DEF LoadArrives, LoadFails
  <2>. QED
    BY <1>2, <2>1, <2>2, LookingStays
<1>6. ASSUME NEW l \in List, Load({l}), view' \in [List -> Views],
             \A m \in List \ {l} : view'[m] = view[m],
             UNCHANGED <<status, told, formVars, actVars>>
      PROVE  ListInv'
  <2>1. /\ loads' \in [List -> Seq(LoadRecord)] /\ loading' \in [List -> BOOLEAN]
        /\ latest' \in [List -> Views \cup {None}] /\ shown' = shown
    BY <1>1, <1>6, Loaded
  <2>2. /\ \A m \in Lists \ {l} : view'[m] = view[m]
        /\ \A r \in Item : told'[r] <= status[r]
    BY <1>1, <1>3, <1>6 DEF LoadsInv
  <2>3. LoadsFacts'
    BY <1>1, <1>6, <2>2, LoadKeepsLists
  <2>. QED
    BY <1>2, <1>6, <2>1, <2>3, LookingStays
<1>7. CASE BalancesArrive
  <2>1. /\ view' = [view EXCEPT !["lines"].filter = "USD"] /\ Load({"lines"})
        /\ UNCHANGED <<status, told, formVars, actVars>>
    BY <1>7 DEF BalancesArrive
  <2>2. view' \in [List -> Views] /\ \A m \in List \ {"lines"} : view'[m] = view[m]
    BY <1>2, <1>3, <2>1 DEF Views
  <2>. QED
    BY <1>3, <1>6, <2>1, <2>2
<1>8. CASE BalancesFail
  <2>1. /\ view["lines"].filter = None
        /\ loading' = [loading EXCEPT !["lines"] = FALSE]
        /\ UNCHANGED <<view, shown, latest, loads, status, told, formVars, actVars>>
    BY <1>8 DEF BalancesFail
  <2>2. loading' \in [List -> BOOLEAN] /\ \A l \in List : loading'[l] => loading[l]
    BY <1>2, <2>1
  <2>3. LoadsFacts'
    BY <1>1, <1>3, <2>1, <2>2 DEF LoadsFacts, LoadsInv, SpinnersInv, ShownIsLatest
  <2>. QED
    BY <1>2, <2>1, <2>2, <2>3, LookingStays
<1>9. ASSUME NEW l \in Lists, ChangePage(l) PROVE ListInv'
  <2>1. /\ view' = [view EXCEPT ![l].index = 1 - @] /\ Load({l})
        /\ UNCHANGED <<status, told, formVars, actVars>>
    BY <1>9 DEF ChangePage
  <2>2. view[l] \in Views /\ [view[l] EXCEPT !.index = 1 - @] \in Views
    <3>1. view[l] \in Views
      BY <1>2, <1>3
    <3>2. 1 - view[l].index \in {0, 1}
      BY <3>1 DEF Views
    <3>. QED
      BY <3>1, <3>2 DEF Views
  <2>3. view' \in [List -> Views] /\ \A m \in List \ {l} : view'[m] = view[m]
    BY <1>2, <1>3, <2>1, <2>2
  <2>. QED
    BY <1>3, <1>6, <2>1, <2>3
<1>10. ASSUME NEW l \in Lists, NEW f \in FilterChoices(l), SelectFilter(l, f) PROVE ListInv'
  <2>1. /\ view' = [view EXCEPT ![l] = [filter |-> f, index |-> 0]] /\ Load({l})
        /\ UNCHANGED <<status, told, formVars, actVars>>
    BY <1>10 DEF SelectFilter
  <2>2. [filter |-> f, index |-> 0] \in Views
    BY DEF FilterChoices, Views
  <2>3. view' \in [List -> Views] /\ \A m \in List \ {l} : view'[m] = view[m]
    BY <1>2, <1>3, <2>1, <2>2
  <2>. QED
    BY <1>3, <1>6, <2>1, <2>3
<1>. QED
  BY <1>4, <1>5, <1>7, <1>8, <1>9, <1>10

---------------------------------------------------------------------------
(* Pages with lists: creating rows *)

CreateRecord == [at : {"none", "travelling", "created", "refused"}, meaning : Item \cup {None}]

(* Steps that create rows, or do not, leave the lists and dialogs alone. *)
LEMMA CreatingStays ==
  ASSUME ListInv, UNCHANGED <<page, lists, told, actVars, posted>>,
         page \in {"trade", "withdrawals"},
         status' \in [Item -> 1..3], \A r \in Item : status[r] <= status'[r],
         filled' \in BOOLEAN, meaning' \in Item \cup {None}, awaitedRow' \in Item \cup {None},
         creates' \in [Item -> CreateRecord], lost' \subseteq Item,
         CreatesInv'
  PROVE  ListInv'
<1>1. Item' = Item /\ Lists' = Lists
  BY RowsAre
<1>2. ListTypeOK'
  <2>1. /\ ListTypeOK
        /\ UNCHANGED <<view, loading, shown, latest, loads, told, dialogRow, deciding, acts>>
    BY DEF ListInv, lists, actVars
  <2>2. /\ (creates \in [Item -> [at : {"none", "travelling", "created", "refused"},
                                  meaning : Item \cup {None}]])'
        /\ (filled \in BOOLEAN /\ lost \subseteq Item /\ status \in [Item -> 1..3])'
        /\ ({meaning, awaitedRow, dialogRow, deciding} \subseteq Item \cup {None})'
    BY <1>1, <2>1 DEF ListTypeOK, CreateRecord
  <2>3. /\ (loads \in [List -> Seq([view : Views \cup {None},
                                    answer : [Item -> 1..3] \cup {None}])])'
        /\ (told \in [Item -> 1..3] /\ shown \in [List -> [Item -> 1..3]])'
        /\ (acts \in Seq([row : Item, reply : {"done", "refused", None}]))'
        /\ (view \in [List -> Views] /\ loading \in [List -> BOOLEAN])'
        /\ (latest \in [List -> Views \cup {None}])'
    BY <1>1, <2>1 DEF ListTypeOK
  <2>. QED
    BY <2>2, <2>3 DEF ListTypeOK
<1>3. LoadsFacts'
  <2>1. ListTypeOK /\ LoadsFacts
    BY DEF ListInv, LoadsFacts
  <2>. QED
    BY <2>1, StatusKeepsLists
<1>4. ActsInv'
  BY ActsStay DEF ListInv
<1>5. TransfersInv'
  BY DEF TransfersInv
<1>. QED
  BY <1>2, <1>3, <1>4, <1>5 DEF ListInv, LoadsFacts

(* The form is filled in, and means nothing that was asked for before. *)
LEMMA FillKeepsLists ==
  ASSUME ListInv, Fill, UNCHANGED <<page, posted>>
  PROVE  ListInv'
<1>1. /\ page \in {"trade", "withdrawals"} /\ filled' = TRUE /\ meaning' = None
      /\ UNCHANGED <<lists, status, told, awaitedRow, creates, lost, actVars>>
  BY DEF Fill
<1>2. Item' = Item /\ None \notin Item
  BY RowsAre, NoneIsNoRow
<1>3. /\ status \in [Item -> 1..3] /\ awaitedRow \in Item \cup {None}
      /\ creates \in [Item -> CreateRecord] /\ lost \subseteq Item /\ CreatesInv
  BY DEF ListInv, ListTypeOK, CreateRecord
<1>4. status' \in [Item -> 1..3] /\ \A r \in Item : status[r] <= status'[r]
  <2>1. status' = status /\ \A r \in Item : status[r] \in Int
    BY <1>1, <1>3
  <2>. QED
    BY <1>3, <2>1
<1>5. \A r \in Item : Asked(r)' = Asked(r) /\ Alive(r)' = Alive(r)
  BY <1>1 DEF Asked, Alive
<1>6. {r \in Item : Asked(r)}' = {r \in Item : Asked(r)}
  BY <1>1, <1>2 DEF Asked
<1>7. \A r \in Item : Alive(r) => creates[r].meaning # None
  BY <1>2, <1>3 DEF CreatesInv, Alive, Asked
<1>8. /\ (page \notin {"trade", "withdrawals"} => filled = FALSE /\ \A r \in Item : ~Asked(r))'
      /\ (lost \subseteq {r \in Item : Asked(r)} /\ IsFiniteSet({r \in Item : Asked(r)}))'
      /\ (page \in {"trade", "withdrawals"} =>
            \A r \in Item : status[r] >= 2 => creates[r].at = "created")'
      /\ (\A r \in Item : creates[r].at = "created" => status[r] >= 2)'
  BY <1>1, <1>2, <1>3, <1>6 DEF CreatesInv
<1>9. /\ (\A r \in Item : IF Asked(r) THEN creates[r].meaning \in Item /\ Asked(creates[r].meaning)
                                     ELSE creates[r].meaning = None)'
      /\ (awaitedRow # None => Asked(awaitedRow) /\ awaitedRow \notin lost)'
      /\ (meaning # None => Asked(meaning))'
  BY <1>1, <1>2, <1>3 DEF CreatesInv, Asked
<1>10. /\ (\A r, s \in Item :
             Alive(r) /\ Alive(s) /\ creates[r].meaning = creates[s].meaning => r = s)'
       /\ (\A r \in Item : Alive(r) /\ creates[r].meaning = meaning => r = awaitedRow)'
  BY <1>1, <1>2, <1>3, <1>7 DEF CreatesInv, Alive
<1>11. CreatesInv'
  BY <1>8, <1>9, <1>10 DEF CreatesInv
<1>. QED
  BY <1>1, <1>3, <1>4, <1>11, CreatingStays

(* A row is asked for: none with the same content is alive. *)
LEMMA CreateKeepsLists ==
  ASSUME ListInv, NEW r \in Item, Create(r), UNCHANGED <<page, posted>>
  PROVE  ListInv'
<1> DEFINE meant == IF meaning = None THEN r ELSE meaning
<1>1. /\ filled /\ awaitedRow = None /\ creates[r].at = "none"
      /\ creates' = [creates EXCEPT ![r] = [at |-> "travelling", meaning |-> meant]]
      /\ meaning' = meant /\ awaitedRow' = r
      /\ UNCHANGED <<lists, status, told, filled, lost, actVars>>
  BY DEF Create, SendCreate
<1>2. Item' = Item /\ None \notin Item
  BY RowsAre, NoneIsNoRow
<1>3. /\ status \in [Item -> 1..3] /\ meaning \in Item \cup {None}
      /\ creates \in [Item -> CreateRecord] /\ lost \subseteq Item /\ CreatesInv
      /\ filled \in BOOLEAN
  BY DEF ListInv, ListTypeOK, CreateRecord
<1>4. page \in {"trade", "withdrawals"}
  BY <1>1, <1>3 DEF CreatesInv
<1>5. status' \in [Item -> 1..3] /\ \A s \in Item : status[s] <= status'[s]
  <2>1. status' = status /\ \A s \in Item : status[s] \in Int
    BY <1>1, <1>3
  <2>. QED
    BY <1>3, <2>1
<1>6. meant \in Item /\ (meant = r \/ Asked(meant))
  BY <1>3 DEF CreatesInv
<1> HIDE DEF meant
<1>7. /\ creates' \in [Item -> CreateRecord]
      /\ creates'[r].at = "travelling" /\ creates'[r].meaning = meant
      /\ \A s \in Item \ {r} : creates'[s] = creates[s]
  BY <1>1, <1>3, <1>6 DEF CreateRecord
<1>8. /\ ~Asked(r) /\ Asked(r)' /\ r \notin lost
      /\ \A s \in Item : Asked(s) => Asked(s)'
      /\ \A s \in Item \ {r} : Asked(s)' = Asked(s) /\ Alive(s)' = Alive(s)
  BY <1>1, <1>3, <1>7 DEF Asked, Alive, CreatesInv
<1>9. {s \in Item : Asked(s)}' = {s \in Item : Asked(s)} \cup {r}
  BY <1>2, <1>8
<1>10. /\ lost \subseteq {s \in Item : Asked(s)} \cup {r}
       /\ IsFiniteSet({s \in Item : Asked(s)} \cup {r})
  <2>1. lost \subseteq {s \in Item : Asked(s)} /\ IsFiniteSet({s \in Item : Asked(s)})
    BY <1>3 DEF CreatesInv
  <2>2. IsFiniteSet({s \in Item : Asked(s)} \cup {r})
    BY <2>1, FS_AddElement
  <2>. QED
    BY <2>1, <2>2
<1>11. \A s \in Item : Alive(s) => creates[s].meaning # meant
  <2>1. ASSUME NEW s \in Item, Alive(s), creates[s].meaning = meant PROVE FALSE
    <3>1. Asked(s) /\ Asked(creates[s].meaning)
      BY <1>3, <2>1 DEF Alive, Asked, CreatesInv
    <3>2. meant # r
      BY <1>8, <2>1, <3>1
    <3>3. meaning = meant
      BY <3>2 DEF meant
    <3>4. s = awaitedRow
      BY <1>3, <2>1, <3>3 DEF CreatesInv
    <3>. QED
      BY <1>1, <1>2, <3>4
  <2>. QED
    BY <2>1
<1>12. /\ (page \notin {"trade", "withdrawals"} => filled = FALSE /\ \A s \in Item : ~Asked(s))'
       /\ (lost \subseteq {s \in Item : Asked(s)} /\ IsFiniteSet({s \in Item : Asked(s)}))'
  BY <1>1, <1>4, <1>9, <1>10
<1>13. /\ (page \in {"trade", "withdrawals"} =>
             \A s \in Item : status[s] >= 2 => creates[s].at = "created")'
       /\ (\A s \in Item : creates[s].at = "created" => status[s] >= 2)'
  BY <1>1, <1>2, <1>3, <1>4, <1>7 DEF CreatesInv
<1>14. (\A s \in Item : IF Asked(s) THEN creates[s].meaning \in Item /\ Asked(creates[s].meaning)
                                    ELSE creates[s].meaning = None)'
  <2>1. ASSUME NEW s \in Item
        PROVE  IF Asked(s)' THEN creates'[s].meaning \in Item /\ Asked(creates[s].meaning)'
                            ELSE creates'[s].meaning = None
    <3>1. CASE s = r
      <4>1. creates'[meant].at # "none"
        BY <1>6, <1>7, <1>8 DEF Asked
      <4>. QED
        BY <1>6, <1>7, <1>8, <3>1, <4>1 DEF Asked
    <3>2. CASE s # r
      <4>1. creates'[s] = creates[s] /\ Asked(s)' = Asked(s)
        BY <1>7, <1>8, <3>2
      <4>2. IF Asked(s) THEN creates[s].meaning \in Item /\ Asked(creates[s].meaning)
                        ELSE creates[s].meaning = None
        BY <1>3 DEF CreatesInv
      <4>3. \A t \in Item : Asked(t) => creates'[t].at # "none"
        BY <1>8 DEF Asked
      <4>. QED
        BY <4>1, <4>2, <4>3 DEF Asked
    <3>. QED
      BY <3>1, <3>2
  <2>. QED
    BY <1>2, <2>1
<1>15. /\ (awaitedRow # None => Asked(awaitedRow) /\ awaitedRow \notin lost)'
       /\ (meaning # None => Asked(meaning))'
  BY <1>1, <1>6, <1>7, <1>8 DEF Asked
<1>16. (\A s, t \in Item :
          Alive(s) /\ Alive(t) /\ creates[s].meaning = creates[t].meaning => s = t)'
  <2>1. ASSUME NEW s \in Item, NEW t \in Item, Alive(s)', Alive(t)',
               creates'[s].meaning = creates'[t].meaning
        PROVE  s = t
    <3>1. CASE s # r /\ t # r
      <4>1. Alive(s) /\ Alive(t) /\ creates[s].meaning = creates[t].meaning
        BY <1>7, <1>8, <2>1, <3>1
      <4>. QED
        BY <1>3, <4>1 DEF CreatesInv
    <3>2. CASE s = r /\ t # r
      BY <1>7, <1>8, <1>11, <2>1, <3>2
    <3>3. CASE s # r /\ t = r
      BY <1>7, <1>8, <1>11, <2>1, <3>3
    <3>. QED
      BY <3>1, <3>2, <3>3
  <2>. QED
    BY <1>2, <2>1
<1>17. (\A s \in Item : Alive(s) /\ creates[s].meaning = meaning => s = awaitedRow)'
  <2>1. ASSUME NEW s \in Item, Alive(s)', creates'[s].meaning = meant PROVE s = r
    BY <1>7, <1>8, <1>11, <2>1
  <2>. QED
    BY <1>1, <1>2, <2>1
<1>18. CreatesInv'
  BY <1>12, <1>13, <1>14, <1>15, <1>16, <1>17 DEF CreatesInv
<1>. QED
  BY <1>1, <1>3, <1>4, <1>5, <1>6, <1>7, <1>18, CreatingStays

(* What is still to be shown of a step that asks for no row. *)
LEMMA AnsweringKeepsCreates ==
  ASSUME ListTypeOK, CreatesInv, page' = page, page \in {"trade", "withdrawals"},
         \A s \in Item : /\ creates'[s].meaning = creates[s].meaning
                         /\ Asked(s)' = Asked(s) /\ (Alive(s)' => Alive(s))
                         /\ (status'[s] >= 2) = (creates'[s].at = "created"),
         lost' \subseteq {s \in Item : Asked(s)},
         meaning' \in {meaning, None}, awaitedRow' \in {awaitedRow, None},
         awaitedRow' # None => awaitedRow' \notin lost',
         \A s \in Item : Alive(s)' /\ creates'[s].meaning = meaning' => s = awaitedRow'
  PROVE  CreatesInv'
<1>1. Item' = Item /\ None \notin Item
  BY RowsAre, NoneIsNoRow
<1>2. /\ meaning \in Item \cup {None} /\ awaitedRow \in Item \cup {None}
  BY DEF ListTypeOK
<1>3. {s \in Item : Asked(s)}' = {s \in Item : Asked(s)}
  BY <1>1
<1>4. /\ (page \notin {"trade", "withdrawals"} => filled = FALSE /\ \A s \in Item : ~Asked(s))'
      /\ (lost \subseteq {s \in Item : Asked(s)} /\ IsFiniteSet({s \in Item : Asked(s)}))'
  BY <1>3 DEF CreatesInv
<1>5. /\ (page \in {"trade", "withdrawals"} =>
            \A s \in Item : status[s] >= 2 => creates[s].at = "created")'
      /\ (\A s \in Item : creates[s].at = "created" => status[s] >= 2)'
  BY <1>1
<1>6. (\A s \in Item : IF Asked(s) THEN creates[s].meaning \in Item /\ Asked(creates[s].meaning)
                                   ELSE creates[s].meaning = None)'
  <2>1. ASSUME NEW s \in Item
        PROVE  IF Asked(s)' THEN creates'[s].meaning \in Item /\ creates'[creates'[s].meaning].at # "none"
                            ELSE creates'[s].meaning = None
    <3>1. IF Asked(s) THEN creates[s].meaning \in Item /\ Asked(creates[s].meaning)
                      ELSE creates[s].meaning = None
      BY DEF CreatesInv
    <3>2. \A t \in Item : Asked(t) => creates'[t].at # "none"
      BY DEF Asked
    <3>. QED
      BY <3>1, <3>2
  <2>. QED
    BY <1>1, <2>1 DEF Asked
<1>7. (awaitedRow # None => Asked(awaitedRow) /\ awaitedRow \notin lost)'
  <2>1. ASSUME awaitedRow' # None PROVE creates'[awaitedRow'].at # "none"
    <3>1. awaitedRow' = awaitedRow /\ awaitedRow \in Item /\ Asked(awaitedRow)
      BY <1>2, <2>1 DEF CreatesInv
    <3>2. \A t \in Item : Asked(t) => creates'[t].at # "none"
      BY DEF Asked
    <3>. QED
      BY <3>1, <3>2
  <2>. QED
    BY <2>1 DEF Asked
<1>8. (meaning # None => Asked(meaning))'
  <2>1. ASSUME meaning' # None PROVE creates'[meaning'].at # "none"
    <3>1. meaning' = meaning /\ meaning \in Item /\ Asked(meaning)
      BY <1>2, <2>1 DEF CreatesInv
    <3>2. \A t \in Item : Asked(t) => creates'[t].at # "none"
      BY DEF Asked
    <3>. QED
      BY <3>1, <3>2
  <2>. QED
    BY <2>1 DEF Asked
<1>9. (\A s, t \in Item :
         Alive(s) /\ Alive(t) /\ creates[s].meaning = creates[t].meaning => s = t)'
  BY <1>1 DEF CreatesInv
<1>10. (\A s \in Item : Alive(s) /\ creates[s].meaning = meaning => s = awaitedRow)'
  BY <1>1
<1>. QED
  BY <1>4, <1>5, <1>6, <1>7, <1>8, <1>9, <1>10 DEF CreatesInv

(* The server creates a row or refuses to. *)
LEMMA ServerCreatesKeepsLists ==
  ASSUME ListInv, NEW r \in Item, ServerCreates(r), UNCHANGED <<page, posted>>
  PROVE  ListInv'
<1>1. /\ creates[r].at = "travelling"
      /\ UNCHANGED <<lists, told, filled, meaning, awaitedRow, lost, actVars>>
      /\ \/ creates' = [creates EXCEPT ![r].at = "created"]
            /\ \E s \in {2, 3} : status' = [status EXCEPT ![r] = s]
         \/ creates' = [creates EXCEPT ![r].at = "refused"] /\ status' = status
  BY DEF ServerCreates
<1>2. /\ status \in [Item -> 1..3] /\ meaning \in Item \cup {None}
      /\ awaitedRow \in Item \cup {None} /\ creates \in [Item -> CreateRecord]
      /\ lost \subseteq Item /\ CreatesInv /\ filled \in BOOLEAN /\ ListTypeOK
  BY DEF ListInv, ListTypeOK, CreateRecord
<1>3. page \in {"trade", "withdrawals"}
  BY <1>1, <1>2 DEF CreatesInv, Asked
<1>4. /\ creates' \in [Item -> CreateRecord]
      /\ \A s \in Item \ {r} : creates'[s] = creates[s] /\ status'[s] = status[s]
      /\ creates'[r].meaning = creates[r].meaning
      /\ \/ creates'[r].at = "created" /\ status'[r] \in {2, 3}
         \/ creates'[r].at = "refused" /\ status'[r] = status[r]
      /\ status' \in [Item -> 1..3]
  BY <1>1, <1>2 DEF CreateRecord
<1>5. ASSUME NEW s \in Item PROVE (status[s] >= 2) = (creates[s].at = "created")
  BY <1>2, <1>3 DEF CreatesInv
<1>6. status[r] = 1
  <2>1. status[r] \in 1..3 /\ ~(status[r] >= 2)
    BY <1>1, <1>2, <1>5
  <2>. QED
    BY <2>1
<1>7. ASSUME NEW s \in Item
      PROVE  /\ status[s] <= status'[s]
             /\ creates'[s].meaning = creates[s].meaning
             /\ Asked(s)' = Asked(s) /\ (Alive(s)' => Alive(s))
             /\ (status'[s] >= 2) = (creates'[s].at = "created")
  <2>1. CASE s = r
    BY <1>1, <1>4, <1>6, <2>1 DEF Asked, Alive
  <2>2. CASE s # r
    <3>1. creates'[s] = creates[s] /\ status'[s] = status[s] /\ status[s] \in Int
      BY <1>2, <1>4, <2>2
    <3>. QED
      BY <1>1, <1>5, <3>1 DEF Asked, Alive
  <2>. QED
    BY <2>1, <2>2
<1>8. /\ lost' \subseteq {s \in Item : Asked(s)}
      /\ meaning' \in {meaning, None} /\ awaitedRow' \in {awaitedRow, None}
      /\ awaitedRow' # None => awaitedRow' \notin lost'
      /\ \A s \in Item : Alive(s)' /\ creates'[s].meaning = meaning' => s = awaitedRow'
  BY <1>1, <1>2, <1>7 DEF CreatesInv
<1>9. CreatesInv'
  BY <1>2, <1>3, <1>7, <1>8, AnsweringKeepsCreates
<1>. QED
  BY <1>1, <1>2, <1>3, <1>4, <1>7, <1>9, CreatingStays

(* No response, or an error: of what the form says nothing is alive. *)
LEMMA CreateFailsKeepsLists ==
  ASSUME ListInv, NEW r \in Item, CreateFails(r), UNCHANGED <<page, posted>>
  PROVE  ListInv'
<1>1. /\ awaitedRow = r /\ awaitedRow' = None
      /\ UNCHANGED <<lists, status, told, filled, meaning, actVars>>
      /\ \/ creates[r].at = "refused" /\ creates' = creates /\ lost' = lost
         \/ /\ lost' = lost \cup {r}
            /\ \/ creates' = creates
               \/ /\ creates[r].at = "travelling"
                  /\ creates' = [creates EXCEPT ![r].at = "refused"]
  BY DEF CreateFails
<1>2. /\ status \in [Item -> 1..3] /\ meaning \in Item \cup {None}
      /\ creates \in [Item -> CreateRecord] /\ None \notin Item
      /\ lost \subseteq Item /\ CreatesInv /\ filled \in BOOLEAN /\ ListTypeOK
  BY NoneIsNoRow DEF ListInv, ListTypeOK, CreateRecord
<1>3. Asked(r) /\ page \in {"trade", "withdrawals"}
  BY <1>1, <1>2 DEF CreatesInv
<1>4. /\ creates' \in [Item -> CreateRecord] /\ lost' \subseteq Item
      /\ \A s \in Item \ {r} : creates'[s] = creates[s]
      /\ creates'[r].meaning = creates[r].meaning
      /\ \/ creates'[r].at = creates[r].at
         \/ creates[r].at = "travelling" /\ creates'[r].at = "refused"
  BY <1>1, <1>2 DEF CreateRecord
<1>5. ~Alive(r)'
  BY <1>1, <1>4 DEF Alive
<1>6. ASSUME NEW s \in Item
      PROVE  /\ creates'[s].meaning = creates[s].meaning
             /\ Asked(s)' = Asked(s) /\ (Alive(s)' => Alive(s))
             /\ (status'[s] >= 2) = (creates'[s].at = "created")
             /\ status'[s] = status[s]
  <2>1. (status[s] >= 2) = (creates[s].at = "created") /\ status' = status
    BY <1>1, <1>2, <1>3 DEF CreatesInv
  <2>2. CASE s = r
    BY <1>3, <1>4, <1>5, <2>1, <2>2 DEF Asked
  <2>3. CASE s # r
    BY <1>1, <1>4, <2>1, <2>3 DEF Asked, Alive
  <2>. QED
    BY <2>2, <2>3
<1>7. /\ lost' \subseteq {s \in Item : Asked(s)}
      /\ meaning' \in {meaning, None} /\ awaitedRow' \in {awaitedRow, None}
      /\ awaitedRow' # None => awaitedRow' \notin lost'
  BY <1>1, <1>2, <1>3 DEF CreatesInv
<1>8. \A s \in Item : Alive(s)' /\ creates'[s].meaning = meaning' => s = awaitedRow'
  BY <1>1, <1>2, <1>5, <1>6 DEF CreatesInv
<1>9. CreatesInv'
  BY <1>2, <1>3, <1>6, <1>7, <1>8, AnsweringKeepsCreates
<1>10. status' \in [Item -> 1..3] /\ \A s \in Item : status[s] <= status'[s]
  <2>1. status' = status /\ \A s \in Item : status[s] \in Int
    BY <1>1, <1>2
  <2>. QED
    BY <1>2, <2>1
<1>. QED
  BY <1>1, <1>2, <1>3, <1>4, <1>9, <1>10, CreatingStays

(* A row that is there is reported, and all lists are loaded. *)
LEMMA ReportKeepsLists ==
  ASSUME ListTypeOK, LoadsFacts, page' = page, status' = status, NEW r \in Item,
         status[r] >= 2, Reported(r)
  PROVE  /\ LoadsFacts'
         /\ view' \in [List -> Views] /\ loading' \in [List -> BOOLEAN]
         /\ shown' \in [List -> [Item -> 1..3]] /\ latest' \in [List -> Views \cup {None}]
         /\ loads' \in [List -> Seq(LoadRecord)] /\ told' \in [Item -> 1..3]
<1>1. /\ told' = [told EXCEPT ![r] = 2] /\ Load(Lists)
      /\ view' = [l \in List |-> IF l \in Lists THEN [view[l] EXCEPT !.index = 0] ELSE view[l]]
  BY DEF Reported
<1>2. /\ view \in [List -> Views] /\ told \in [Item -> 1..3]
      /\ shown \in [List -> [Item -> 1..3]] /\ Lists \subseteq List
  BY RowsAre DEF ListTypeOK
<1>3. \A l \in List : view[l] \in Views /\ [view[l] EXCEPT !.index = 0] \in Views
  BY <1>2 DEF Views
<1>4. view' \in [List -> Views] /\ told' \in [Item -> 1..3]
  BY <1>1, <1>2, <1>3
<1>5. /\ loads' \in [List -> Seq(LoadRecord)] /\ loading' \in [List -> BOOLEAN]
      /\ latest' \in [List -> Views \cup {None}] /\ shown' = shown
  BY <1>1, <1>4, Loaded
<1>6. \A s \in Item : told'[s] <= status[s]
  <2>1. \A s \in Item : told[s] <= status[s]
    BY DEF LoadsFacts, LoadsInv
  <2>. QED
    BY <1>1, <1>2, <2>1
<1>7. LoadsFacts'
  BY <1>1, <1>4, <1>6, LoadKeepsLists
<1>. QED
  BY <1>2, <1>4, <1>5, <1>7

(* A step that reports a row, with the form and the requests typed. *)
LEMMA ReportingStays ==
  ASSUME ListInv, UNCHANGED <<page, status, actVars>>,
         page = "transfer" => posted' = posted,
         NEW r \in Item, status[r] >= 2, Reported(r),
         filled' \in BOOLEAN, meaning' \in Item \cup {None}, awaitedRow' \in Item \cup {None},
         creates' \in [Item -> CreateRecord], lost' \subseteq Item, CreatesInv'
  PROVE  ListInv'
<1>1. Item' = Item /\ ListTypeOK /\ LoadsFacts /\ status' = status
  BY RowsAre DEF ListInv, LoadsFacts
<1>2. /\ LoadsFacts'
      /\ view' \in [List -> Views] /\ loading' \in [List -> BOOLEAN]
      /\ shown' \in [List -> [Item -> 1..3]] /\ latest' \in [List -> Views \cup {None}]
      /\ loads' \in [List -> Seq(LoadRecord)] /\ told' \in [Item -> 1..3]
  BY <1>1, ReportKeepsLists
<1>3. ListTypeOK'
  <2>1. UNCHANGED <<dialogRow, deciding, acts>>
    BY DEF actVars
  <2>2. /\ (loads \in [List -> Seq([view : Views \cup {None},
                                    answer : [Item -> 1..3] \cup {None}])])'
        /\ (told \in [Item -> 1..3] /\ shown \in [List -> [Item -> 1..3]])'
        /\ (view \in [List -> Views] /\ loading \in [List -> BOOLEAN])'
        /\ (latest \in [List -> Views \cup {None}])'
    BY <1>1, <1>2 DEF LoadRecord
  <2>3. /\ (creates \in [Item -> [at : {"none", "travelling", "created", "refused"},
                                  meaning : Item \cup {None}]])'
        /\ (filled \in BOOLEAN /\ lost \subseteq Item /\ status \in [Item -> 1..3])'
        /\ ({meaning, awaitedRow, dialogRow, deciding} \subseteq Item \cup {None})'
        /\ (acts \in Seq([row : Item, reply : {"done", "refused", None}]))'
    BY <1>1, <2>1 DEF ListTypeOK, CreateRecord
  <2>. QED
    BY <2>2, <2>3 DEF ListTypeOK
<1>4. status' \in [Item -> 1..3] /\ \A s \in Item : status[s] <= status'[s]
  <2>1. status \in [Item -> 1..3] /\ \A s \in Item : status[s] \in Int
    BY <1>1 DEF ListTypeOK
  <2>. QED
    BY <1>1, <2>1
<1>5. ActsInv'
  BY <1>4, ActsStay DEF ListInv
<1>6. TransfersInv'
  BY <1>1 DEF ListInv, TransfersInv
<1>. QED
  BY <1>2, <1>3, <1>5, <1>6 DEF ListInv, LoadsFacts

(* The response of success to the page that asked for a row. *)
LEMMA CreateArrivesKeepsLists ==
  ASSUME ListInv, NEW r \in Item, CreateArrives(r), UNCHANGED <<page, posted>>
  PROVE  ListInv'
<1>1. /\ awaitedRow = r /\ creates[r].at = "created"
      /\ awaitedRow' = None /\ filled' = FALSE /\ meaning' = None
      /\ Reported(r) /\ UNCHANGED <<status, creates, lost, actVars>>
  BY DEF CreateArrives
<1>2. /\ creates \in [Item -> CreateRecord] /\ None \notin Item
      /\ lost \subseteq Item /\ CreatesInv /\ ListTypeOK
  BY NoneIsNoRow DEF ListInv, ListTypeOK, CreateRecord
<1>3. page \in {"trade", "withdrawals"} /\ status[r] >= 2
  BY <1>1, <1>2 DEF CreatesInv, Asked
<1>4. ASSUME NEW s \in Item
      PROVE  /\ creates'[s].meaning = creates[s].meaning
             /\ Asked(s)' = Asked(s) /\ (Alive(s)' => Alive(s))
             /\ (status'[s] >= 2) = (creates'[s].at = "created")
             /\ Alive(s) => creates[s].meaning # None
  BY <1>1, <1>2, <1>3 DEF CreatesInv, Asked, Alive
<1>5. lost' \subseteq {s \in Item : Asked(s)}
  BY <1>1, <1>2 DEF CreatesInv
<1>6. \A s \in Item : Alive(s)' /\ creates'[s].meaning = meaning' => s = awaitedRow'
  BY <1>1, <1>4
<1>7. CreatesInv'
  BY <1>1, <1>2, <1>3, <1>4, <1>5, <1>6, AnsweringKeepsCreates
<1>. QED
  BY <1>1, <1>2, <1>3, <1>7, ReportingStays

(* The page reports a success: a transfer, whose entry has been posted, or *)
(* a conversion, which is in no list.                                      *)
LEMMA ReportSuccessKeepsLists ==
  ASSUME KeyedInv, ListInv, NEW i \in DOMAIN sent, ReportSuccess(i), page' = page
  PROVE  ListInv'
<1>1. /\ sent[i].reply \in Request /\ posted' = posted
      /\ status' = status /\ UNCHANGED <<formVars, actVars>>
  BY DEF ReportSuccess, Succeeds, server
<1>7. /\ page = "transfer" => Reported(sent[i].reply)
      /\ page # "transfer" => UNCHANGED <<lists, told>>
  BY DEF ReportSuccess
<1>2. /\ filled \in BOOLEAN /\ meaning \in Item \cup {None} /\ awaitedRow \in Item \cup {None}
      /\ creates \in [Item -> CreateRecord] /\ lost \subseteq Item
      /\ view \in [List -> Views] /\ loading \in [List -> BOOLEAN]
      /\ shown \in [List -> [Item -> 1..3]] /\ latest \in [List -> Views \cup {None}]
      /\ loads \in [List -> Seq(LoadRecord)]
      /\ status \in [Item -> 1..3] /\ ListTypeOK /\ LoadsFacts
  BY DEF ListInv, ListTypeOK, CreateRecord, LoadRecord, LoadsFacts
<1>3. status' \in [Item -> 1..3] /\ \A s \in Item : status[s] <= status'[s]
  <2>1. status' = status
    BY <1>1
  <2>2. status \in [Item -> 1..3]
    BY <1>2
  <2>3. \A s \in Item : status[s] \in Int
    BY <2>2
  <2>. QED
    BY <2>1, <2>2, <2>3
<1>4. CreatesInv'
  <2>1. page \in {"trade", "withdrawals"} =>
          \A s \in Item : status'[s] >= 2 => status[s] >= 2
    BY <1>1
  <2>. QED
    BY <1>1, <1>3, <2>1, CreatesStay DEF ListInv
<1>5. CASE page = "transfer"
  <2>1. Item = Request /\ sent[i].reply \in posted
    BY <1>1, <1>5, ConsoleAssumption DEF Item, ListPage, KeyedInv, ServerInv, RepliesInv
  <2>2. status[sent[i].reply] = 2
    BY <1>1, <1>5, <2>1 DEF ListInv, TransfersInv
  <2>3. UNCHANGED <<filled, meaning, awaitedRow, creates, lost>>
    BY <1>1 DEF formVars
  <2>4. /\ UNCHANGED <<page, status, actVars>> /\ (page = "transfer" => posted' = posted)
        /\ Reported(sent[i].reply) /\ sent[i].reply \in Item /\ status[sent[i].reply] >= 2
    BY <1>1, <1>5, <1>7, <2>1, <2>2
  <2>5. /\ filled' \in BOOLEAN /\ meaning' \in Item \cup {None}
        /\ awaitedRow' \in Item \cup {None} /\ creates' \in [Item -> CreateRecord]
        /\ lost' \subseteq Item
    BY <1>2, <2>3
  <2>. QED
    BY <1>4, <2>4, <2>5, ReportingStays
<1>6. CASE page # "transfer"
  <2>1. UNCHANGED <<view, loading, shown, latest, loads, lists, told>>
    BY <1>6, <1>7 DEF lists
  <2>2. LoadsFacts'
    BY <1>1, <1>2, <1>3, <2>1, StatusKeepsLists
  <2>. QED
    BY <1>1, <1>2, <2>1, <2>2, LookingStays
<1>. QED
  BY <1>5, <1>6

---------------------------------------------------------------------------
(* Pages with lists: cancelling and deciding *)

(* Steps of cancellations and decisions leave what is asked for alone. *)
LEMMA ActingStays ==
  ASSUME ListInv, UNCHANGED <<page, view, formVars, posted>>, page \in {"trade", "adminWithdrawals"},
         LoadsFacts', loading' \in [List -> BOOLEAN],
         shown' \in [List -> [Item -> 1..3]], latest' \in [List -> Views \cup {None}],
         loads' \in [List -> Seq(LoadRecord)], told' \in [Item -> 1..3],
         status' \in [Item -> 1..3], \A r \in Item : status[r] <= status'[r],
         \A r \in Item : status'[r] >= 2 => status[r] >= 2,
         dialogRow' \in Item \cup {None}, deciding' \in Item \cup {None},
         acts' \in Seq(ActRecord), ActsInv'
  PROVE  ListInv'
<1>1. Item' = Item
  BY RowsAre
<1>2. ListTypeOK'
  <2>1. ListTypeOK /\ UNCHANGED <<filled, meaning, awaitedRow, creates, lost>>
    BY DEF ListInv, formVars
  <2>2. /\ (loads \in [List -> Seq([view : Views \cup {None},
                                    answer : [Item -> 1..3] \cup {None}])])'
        /\ (told \in [Item -> 1..3] /\ shown \in [List -> [Item -> 1..3]])'
        /\ (acts \in Seq([row : Item, reply : {"done", "refused", None}]))'
        /\ (status \in [Item -> 1..3])'
    BY <1>1 DEF LoadRecord, ActRecord
  <2>3. /\ (creates \in [Item -> [at : {"none", "travelling", "created", "refused"},
                                  meaning : Item \cup {None}]])'
        /\ (filled \in BOOLEAN /\ lost \subseteq Item /\ view \in [List -> Views])'
        /\ ({meaning, awaitedRow, dialogRow, deciding} \subseteq Item \cup {None})'
    BY <1>1, <2>1 DEF ListTypeOK
  <2>. QED
    BY <2>2, <2>3 DEF ListTypeOK
<1>3. CreatesInv'
  BY CreatesStay DEF ListInv
<1>4. TransfersInv'
  BY DEF TransfersInv
<1>. QED
  BY <1>2, <1>3, <1>4 DEF ListInv, LoadsFacts

(* The user opens a dialog, dismisses it, or confirms it. *)
LEMMA DialogKeepsLists ==
  ASSUME ListInv, (\E r \in Item : Act(r)) \/ Dismiss \/ ConfirmAct, UNCHANGED <<page, posted>>
  PROVE  ListInv'
<1>1. /\ UNCHANGED <<view, loading, shown, latest, loads, lists, told, formVars>>
      /\ status' = status
  BY DEF Act, Dismiss, ConfirmAct, lists
<1>2. /\ loading \in [List -> BOOLEAN] /\ shown \in [List -> [Item -> 1..3]]
      /\ latest \in [List -> Views \cup {None}] /\ loads \in [List -> Seq(LoadRecord)]
      /\ told \in [Item -> 1..3] /\ ListTypeOK /\ LoadsFacts
  BY DEF ListInv, ListTypeOK, LoadRecord, LoadsFacts
<1>3. /\ status \in [Item -> 1..3] /\ acts \in Seq(ActRecord) /\ ActsInv
      /\ dialogRow \in Item \cup {None} /\ deciding \in Item \cup {None}
      /\ None \notin Item
  BY NoneIsNoRow DEF ListInv, ListTypeOK, ActRecord
<1>4. status' \in [Item -> 1..3] /\ \A r \in Item : status[r] <= status'[r]
  <2>1. \A r \in Item : status[r] \in Int
    BY <1>3
  <2>. QED
    BY <1>1, <1>3, <2>1
<1>5. LoadsFacts'
  BY <1>1, <1>2, <1>4, StatusKeepsLists
<1>6. ASSUME ActsInv', page \in {"trade", "adminWithdrawals"},
             dialogRow' \in Item \cup {None}, deciding' \in Item \cup {None},
             acts' \in Seq(ActRecord)
      PROVE  ListInv'
  <2>1. \A r \in Item : status'[r] >= 2 => status[r] >= 2
    BY <1>1
  <2>2. /\ loading' \in [List -> BOOLEAN] /\ shown' \in [List -> [Item -> 1..3]]
        /\ latest' \in [List -> Views \cup {None}] /\ loads' \in [List -> Seq(LoadRecord)]
        /\ told' \in [Item -> 1..3]
    BY <1>1, <1>2
  <2>. QED
    BY <1>1, <1>4, <1>5, <1>6, <2>1, <2>2, ActingStays
<1>7. ASSUME NEW r \in Item, Act(r) PROVE ListInv'
  <2>1. /\ page \in {"trade", "adminWithdrawals"} /\ shown[ActionList][r] = 2
        /\ dialogRow' = r /\ UNCHANGED <<deciding, acts>>
    BY <1>7 DEF Act
  <2>2. ActionList \in List
    BY DEF ActionList, List
  <2>3. shown[ActionList][r] <= status[r]
    BY <2>2 DEF ListInv, LoadsInv
  <2>4. status[r] >= 2
    BY <1>3, <2>1, <2>3
  <2>5. ActsInv'
    BY <1>1, <1>3, <2>1, <2>4 DEF ActsInv
  <2>. QED
    BY <1>3, <1>6, <2>1, <2>5
<1>8. CASE Dismiss
  <2>1. dialogRow # None /\ dialogRow' = None /\ UNCHANGED <<deciding, acts>>
    BY <1>8 DEF Dismiss
  <2>2. page \in {"trade", "adminWithdrawals"}
    BY <1>3, <2>1 DEF ActsInv
  <2>3. ActsInv'
    BY <1>1, <1>3, <2>1, <2>2 DEF ActsInv
  <2>. QED
    BY <1>3, <1>6, <2>1, <2>2, <2>3
<1>9. CASE ConfirmAct
  <2> DEFINE act == [row |-> dialogRow, reply |-> None]
  <2>1. /\ dialogRow # None /\ acts' = Append(acts, act)
        /\ deciding' \in {dialogRow, deciding} /\ dialogRow' = None
    BY <1>9 DEF ConfirmAct
  <2>2. /\ dialogRow \in Item /\ act \in ActRecord /\ act.row = dialogRow /\ act.reply # "done"
        /\ status[dialogRow] >= 2 /\ page \in {"trade", "adminWithdrawals"}
    BY <1>3, <2>1, ListAssumption DEF ActsInv, ActRecord
  <2> HIDE DEF act
  <2>3. /\ acts' \in Seq(ActRecord) /\ Len(acts') = Len(acts) + 1
        /\ \A i \in 1..Len(acts) : acts'[i] = acts[i]
        /\ acts'[Len(acts) + 1] = act
    BY <1>3, <2>1, <2>2, AppendProperties
  <2>4. /\ Len(acts) \in Nat /\ DOMAIN acts = 1..Len(acts)
        /\ DOMAIN acts' = 1..(Len(acts) + 1)
    BY <1>3, <2>3, LenProperties
  <2>5. ASSUME NEW i \in DOMAIN acts'
        PROVE  /\ status'[acts'[i].row] >= 2
               /\ acts'[i].reply = "done" => status'[acts'[i].row] = 3
    <3>1. CASE i \in 1..Len(acts)
      BY <1>1, <1>3, <2>3, <2>4, <3>1 DEF ActsInv
    <3>2. CASE i = Len(acts) + 1
      BY <1>1, <2>2, <2>3, <3>2
    <3>. QED
      BY <2>4, <3>1, <3>2
  <2>6. ASSUME deciding' # None PROVE \E i \in DOMAIN acts' : acts'[i].row = deciding'
    <3>1. CASE deciding' = dialogRow
      <4>1. Len(acts) + 1 \in DOMAIN acts'
        BY <2>4
      <4>. QED
        BY <2>2, <2>3, <3>1, <4>1
    <3>2. CASE deciding' = deciding
      <4>1. PICK i \in DOMAIN acts : acts[i].row = deciding
        BY <1>3, <2>6, <3>2 DEF ActsInv
      <4>2. i \in DOMAIN acts' /\ acts'[i] = acts[i]
        BY <2>3, <2>4
      <4>. QED
        BY <3>2, <4>1, <4>2
    <3>. QED
      BY <2>1, <3>1, <3>2
  <2>7. ActsInv'
    BY <1>1, <2>1, <2>2, <2>5, <2>6 DEF ActsInv
  <2>8. deciding' \in Item \cup {None} /\ dialogRow' \in Item \cup {None}
    BY <1>3, <2>1
  <2>. QED
    BY <1>6, <2>2, <2>3, <2>7, <2>8
<1>. QED
  BY <1>7, <1>8, <1>9

(* The server closes the row that a request is about. *)
LEMMA ServerActsKeepsLists ==
  ASSUME ListInv, NEW i \in DOMAIN acts, ServerActs(i), UNCHANGED <<page, posted>>
  PROVE  ListInv'
<1> DEFINE reply == IF status[acts[i].row] = 2 THEN "done" ELSE "refused"
           act == [acts[i] EXCEPT !.reply = reply]
<1>1. /\ UNCHANGED <<view, loading, shown, latest, loads, lists, told, formVars>>
      /\ dialogRow' = dialogRow /\ deciding' = deciding
      /\ acts' = [acts EXCEPT ![i] = act]
      /\ status' = [status EXCEPT ![acts[i].row] = 3]
  BY DEF ServerActs, lists
<1>2. /\ loading \in [List -> BOOLEAN] /\ shown \in [List -> [Item -> 1..3]]
      /\ latest \in [List -> Views \cup {None}] /\ loads \in [List -> Seq(LoadRecord)]
      /\ told \in [Item -> 1..3] /\ ListTypeOK /\ LoadsFacts
  BY DEF ListInv, ListTypeOK, LoadRecord, LoadsFacts
<1>3. /\ status \in [Item -> 1..3] /\ acts \in Seq(ActRecord) /\ ActsInv
      /\ dialogRow \in Item \cup {None} /\ deciding \in Item \cup {None}
  BY DEF ListInv, ListTypeOK, ActRecord
<1>4. Len(acts) \in Nat /\ DOMAIN acts = 1..Len(acts) /\ \A j \in DOMAIN acts : acts[j] \in ActRecord
  BY <1>3, LenProperties, ElementOfSeq
<1>5. act \in ActRecord /\ act.row = acts[i].row /\ acts[i].row \in Item
  BY <1>4 DEF ActRecord
<1> HIDE DEF act
<1>6. /\ acts' \in Seq(ActRecord) /\ Len(acts') = Len(acts)
      /\ \A j \in 1..Len(acts) : acts'[j] = IF j = i THEN act ELSE acts[j]
  BY <1>1, <1>3, <1>4, <1>5, ExceptSeq
<1>7. /\ DOMAIN acts' = DOMAIN acts
      /\ \A j \in DOMAIN acts : acts'[j].row = acts[j].row /\ (j # i => acts'[j] = acts[j])
  BY <1>4, <1>5, <1>6, LenProperties
<1>8. /\ status' \in [Item -> 1..3] /\ status'[acts[i].row] = 3
      /\ \A r \in Item : status'[r] = status[r] \/ (r = acts[i].row /\ status'[r] = 3)
  BY <1>1, <1>3, <1>5
<1>9. status[acts[i].row] >= 2 /\ page \in {"trade", "adminWithdrawals"}
  BY <1>3, <1>4 DEF ActsInv
<1>10. ASSUME NEW r \in Item
       PROVE  status[r] <= status'[r] /\ (status'[r] >= 2 => status[r] >= 2)
  <2>1. status[r] \in 1..3 /\ status'[r] \in 1..3
    BY <1>3, <1>8
  <2>. QED
    BY <1>8, <1>9, <2>1
<1>11. LoadsFacts'
  BY <1>1, <1>2, <1>8, <1>10, StatusKeepsLists
<1>12. ASSUME NEW j \in DOMAIN acts'
       PROVE  /\ status'[acts'[j].row] >= 2
              /\ acts'[j].reply = "done" => status'[acts'[j].row] = 3
  <2>1. acts'[j].row = acts[j].row /\ acts[j].row \in Item /\ j \in DOMAIN acts
    BY <1>4, <1>7, <1>12 DEF ActRecord
  <2>2. CASE acts[j].row = acts[i].row
    BY <1>8, <2>1, <2>2
  <2>3. CASE acts[j].row # acts[i].row
    <3>1. acts'[j] = acts[j] /\ status'[acts[j].row] = status[acts[j].row]
      BY <1>7, <1>8, <2>1, <2>3
    <3>. QED
      BY <1>3, <2>1, <3>1 DEF ActsInv
  <2>. QED
    BY <2>2, <2>3
<1>13. ASSUME dialogRow' # None PROVE status'[dialogRow'] >= 2
  <2>1. /\ dialogRow \in Item /\ status[dialogRow] >= 2 /\ dialogRow' = dialogRow
        /\ status[dialogRow] \in 1..3 /\ status'[dialogRow] \in 1..3
    BY <1>1, <1>3, <1>8, <1>13 DEF ActsInv
  <2>. QED
    BY <1>10, <2>1
<1>14. ASSUME deciding' # None PROVE \E j \in DOMAIN acts' : acts'[j].row = deciding'
  BY <1>1, <1>3, <1>7, <1>14 DEF ActsInv
<1>15. ActsInv'
  BY <1>1, <1>9, <1>12, <1>13, <1>14 DEF ActsInv
<1>16. /\ loading' \in [List -> BOOLEAN] /\ shown' \in [List -> [Item -> 1..3]]
       /\ latest' \in [List -> Views \cup {None}] /\ loads' \in [List -> Seq(LoadRecord)]
       /\ told' \in [Item -> 1..3]
  BY <1>1, <1>2
<1>17. dialogRow' \in Item \cup {None} /\ deciding' \in Item \cup {None}
  BY <1>1, <1>3
<1>. QED
  BY <1>1, <1>6, <1>8, <1>9, <1>10, <1>11, <1>15, <1>16, <1>17, ActingStays

(* What is left of the invariant when a request is answered or lost. *)
LEMMA ActEnds ==
  ASSUME ListTypeOK, ActsInv, NEW i \in DOMAIN acts, page' = page, dialogRow' = dialogRow,
         acts' = RemoveAt(acts, i), deciding' = None,
         status' \in [Item -> 1..3], \A r \in Item : status[r] <= status'[r]
  PROVE  ActsInv' /\ acts' \in Seq(ActRecord)
<1>1. acts \in Seq(ActRecord) /\ status \in [Item -> 1..3] /\ dialogRow \in Item \cup {None}
  BY DEF ListTypeOK, ActRecord
<1>2. /\ acts' \in Seq(ActRecord)
      /\ \A j \in DOMAIN acts' : \E k \in DOMAIN acts : acts'[j] = acts[k]
  BY <1>1, Removed
<1>3. ASSUME NEW j \in DOMAIN acts'
      PROVE  /\ status'[acts'[j].row] >= 2
             /\ acts'[j].reply = "done" => status'[acts'[j].row] = 3
  <2>1. PICK k \in DOMAIN acts : acts'[j] = acts[k]
    BY <1>2
  <2>2. acts[k] \in ActRecord
    BY <1>1, LenProperties, ElementOfSeq
  <2>3. acts[k].row \in Item
    BY <2>2 DEF ActRecord
  <2>4. /\ status[acts[k].row] \in 1..3 /\ status'[acts[k].row] \in 1..3
        /\ status[acts[k].row] <= status'[acts[k].row]
    BY <1>1, <2>3
  <2>5. /\ status[acts[k].row] >= 2
        /\ acts[k].reply = "done" => status[acts[k].row] = 3
    BY DEF ActsInv
  <2>. QED
    BY <2>1, <2>4, <2>5
<1>4. ASSUME dialogRow # None PROVE status'[dialogRow] >= 2
  <2>1. status[dialogRow] \in 1..3 /\ status'[dialogRow] \in 1..3
        /\ status[dialogRow] <= status'[dialogRow] /\ status[dialogRow] >= 2
    BY <1>1, <1>4 DEF ActsInv
  <2>. QED
    BY <2>1
<1>5. page \in {"trade", "adminWithdrawals"}
  BY DEF ActsInv
<1>. QED
  BY <1>2, <1>3, <1>4, <1>5 DEF ActsInv

(* Success is reported, and the lists are loaded at the pages they are at. *)
LEMMA ActArrivesKeepsLists ==
  ASSUME ListInv, NEW i \in DOMAIN acts, ActArrives(i), UNCHANGED <<page, posted>>
  PROVE  ListInv'
<1>1. /\ acts[i].reply = "done" /\ acts' = RemoveAt(acts, i) /\ deciding' = None
      /\ told' = [told EXCEPT ![acts[i].row] = 3]
      /\ view' = view /\ status' = status /\ dialogRow' = dialogRow
      /\ Load(Lists)
  BY DEF ActArrives
<1>2. formVars' = formVars
  BY DEF ActArrives
<1>3. /\ view \in [List -> Views] /\ shown \in [List -> [Item -> 1..3]]
      /\ told \in [Item -> 1..3] /\ ListTypeOK /\ LoadsFacts
  BY DEF ListInv, ListTypeOK, LoadsFacts
<1>4. /\ status \in [Item -> 1..3] /\ acts \in Seq(ActRecord) /\ ActsInv
      /\ dialogRow \in Item \cup {None}
  BY DEF ListInv, ListTypeOK, ActRecord
<1>5. acts[i] \in ActRecord /\ page \in {"trade", "adminWithdrawals"}
  BY <1>4, LenProperties, ElementOfSeq DEF ActsInv
<1>6. acts[i].row \in Item /\ status[acts[i].row] = 3
  BY <1>1, <1>4, <1>5 DEF ActRecord, ActsInv
<1>7. /\ loads' \in [List -> Seq(LoadRecord)] /\ loading' \in [List -> BOOLEAN]
      /\ latest' \in [List -> Views \cup {None}] /\ shown' = shown
  BY <1>1, <1>3, Loaded
<1>8. told' \in [Item -> 1..3] /\ \A r \in Item : told'[r] <= status[r]
  <2>1. \A r \in Item : told[r] <= status[r]
    BY <1>3 DEF LoadsFacts, LoadsInv
  <2>. QED
    BY <1>1, <1>3, <1>6, <2>1
<1>9. LoadsFacts'
  BY <1>1, <1>3, <1>8, LoadKeepsLists
<1>10. status' \in [Item -> 1..3] /\ \A r \in Item : status[r] <= status'[r]
  <2>1. \A r \in Item : status[r] \in Int
    BY <1>4
  <2>. QED
    BY <1>1, <1>4, <2>1
<1>11. ActsInv' /\ acts' \in Seq(ActRecord)
  BY <1>1, <1>3, <1>4, <1>10, ActEnds
<1>12. \A r \in Item : status'[r] >= 2 => status[r] >= 2
  BY <1>1
<1>13. /\ dialogRow' \in Item \cup {None} /\ deciding' \in Item \cup {None}
       /\ shown' \in [List -> [Item -> 1..3]]
  BY <1>1, <1>3, <1>4, <1>7
<1>. QED
  BY <1>1, <1>2, <1>5, <1>7, <1>8, <1>9, <1>10, <1>11, <1>12, <1>13, ActingStays

(* An error, before or after the server acted. *)
LEMMA ActFailsKeepsLists ==
  ASSUME ListInv, NEW i \in DOMAIN acts, ActFails(i), UNCHANGED <<page, posted>>
  PROVE  ListInv'
<1>1. /\ acts' = RemoveAt(acts, i) /\ deciding' = None /\ dialogRow' = dialogRow
      /\ status' = status \/ status' = [status EXCEPT ![acts[i].row] = 3]
      /\ UNCHANGED <<view, loading, shown, latest, loads, lists, told, formVars>>
  BY DEF ActFails, lists
<1>2. /\ loading \in [List -> BOOLEAN] /\ shown \in [List -> [Item -> 1..3]]
      /\ latest \in [List -> Views \cup {None}] /\ loads \in [List -> Seq(LoadRecord)]
      /\ told \in [Item -> 1..3] /\ ListTypeOK /\ LoadsFacts
  BY DEF ListInv, ListTypeOK, LoadRecord, LoadsFacts
<1>3. /\ status \in [Item -> 1..3] /\ acts \in Seq(ActRecord) /\ ActsInv
      /\ dialogRow \in Item \cup {None}
  BY DEF ListInv, ListTypeOK, ActRecord
<1>4. acts[i] \in ActRecord /\ page \in {"trade", "adminWithdrawals"}
  BY <1>3, LenProperties, ElementOfSeq DEF ActsInv
<1>5. acts[i].row \in Item /\ status[acts[i].row] >= 2
  BY <1>3, <1>4 DEF ActRecord, ActsInv
<1>6. /\ status' \in [Item -> 1..3]
      /\ \A r \in Item : status'[r] = status[r] \/ (r = acts[i].row /\ status'[r] = 3)
  BY <1>1, <1>3, <1>5
<1>7. ASSUME NEW r \in Item
      PROVE  status[r] <= status'[r] /\ (status'[r] >= 2 => status[r] >= 2)
  <2>1. status[r] \in 1..3 /\ status'[r] \in 1..3
    BY <1>3, <1>6
  <2>. QED
    BY <1>5, <1>6, <2>1
<1>8. LoadsFacts'
  BY <1>1, <1>2, <1>6, <1>7, StatusKeepsLists
<1>9. ActsInv' /\ acts' \in Seq(ActRecord)
  BY <1>1, <1>2, <1>3, <1>6, <1>7, ActEnds
<1>10. /\ loading' \in [List -> BOOLEAN] /\ shown' \in [List -> [Item -> 1..3]]
       /\ latest' \in [List -> Views \cup {None}] /\ loads' \in [List -> Seq(LoadRecord)]
       /\ told' \in [Item -> 1..3]
  BY <1>1, <1>2
<1>11. dialogRow' \in Item \cup {None} /\ deciding' \in Item \cup {None}
  BY <1>1, <1>3
<1>. QED
  BY <1>1, <1>4, <1>6, <1>7, <1>8, <1>9, <1>10, <1>11, ActingStays

---------------------------------------------------------------------------
(* Pages with lists: every step *)

(* Rows that come to be or are closed without the page's doing. *)
LEMMA RowsStay ==
  ASSUME ListInv, UNCHANGED <<page, lists, told, formVars, actVars>>,
         status' \in [Item -> 1..3], \A r \in Item : status[r] <= status'[r],
         page \in {"trade", "withdrawals"} =>
           \A r \in Item : status'[r] >= 2 => status[r] >= 2,
         TransfersInv'
  PROVE  ListInv'
<1>1. Item' = Item /\ ListTypeOK /\ LoadsFacts
  BY RowsAre DEF ListInv, LoadsFacts
<1>2. ListTypeOK'
  <2>1. UNCHANGED <<view, loading, shown, latest, loads, told, filled, meaning, awaitedRow,
                    creates, lost, dialogRow, deciding, acts>>
    BY DEF lists, formVars, actVars
  <2>2. (status \in [Item -> 1..3])'
    BY <1>1
  <2>3. /\ (loads \in [List -> Seq([view : Views \cup {None},
                                    answer : [Item -> 1..3] \cup {None}])])'
        /\ (told \in [Item -> 1..3] /\ shown \in [List -> [Item -> 1..3]])'
        /\ (acts \in Seq([row : Item, reply : {"done", "refused", None}]))'
        /\ (view \in [List -> Views] /\ loading \in [List -> BOOLEAN])'
        /\ (latest \in [List -> Views \cup {None}])'
    BY <1>1, <2>1 DEF ListTypeOK
  <2>4. /\ (creates \in [Item -> [at : {"none", "travelling", "created", "refused"},
                                  meaning : Item \cup {None}]])'
        /\ (filled \in BOOLEAN /\ lost \subseteq Item)'
        /\ ({meaning, awaitedRow, dialogRow, deciding} \subseteq Item \cup {None})'
    BY <1>1, <2>1 DEF ListTypeOK
  <2>. QED
    BY <2>2, <2>3, <2>4 DEF ListTypeOK
<1>3. LoadsFacts'
  BY <1>1, StatusKeepsLists
<1>4. ActsInv' /\ CreatesInv'
  BY ActsStay, CreatesStay DEF ListInv
<1>. QED
  BY <1>2, <1>3, <1>4 DEF ListInv, LoadsFacts

(* Somebody else makes or closes a row, or the worker does. *)
LEMMA ElsewhereKeepsLists ==
  ASSUME ListInv, NEW r \in Item, Elsewhere(r), UNCHANGED <<page, posted>>
  PROVE  ListInv'
<1>1. /\ \/ status[r] = 1 /\ page \notin {"trade", "withdrawals", "transfer"}
         \/ status[r] = 2 /\ page # "transfer"
      /\ status' = [status EXCEPT ![r] = @ + 1]
      /\ UNCHANGED <<lists, told, formVars, actVars>>
  BY DEF Elsewhere
<1>2. status \in [Item -> 1..3]
  BY DEF ListInv, ListTypeOK
<1>3. /\ status' \in [Item -> 1..3] /\ status'[r] = status[r] + 1
      /\ \A s \in Item \ {r} : status'[s] = status[s]
  BY <1>1, <1>2
<1>4. ASSUME NEW s \in Item
      PROVE  /\ status[s] <= status'[s]
             /\ page \in {"trade", "withdrawals"} /\ status'[s] >= 2 => status[s] >= 2
  <2>1. status[s] \in 1..3 /\ status'[s] \in 1..3
    BY <1>2, <1>3
  <2>. QED
    BY <1>1, <1>3, <2>1
<1>5. TransfersInv'
  BY <1>1 DEF TransfersInv
<1>. QED
  BY <1>1, <1>3, <1>4, <1>5, RowsStay

(* An entry is posted, which the history of transfers has from then on. *)
LEMMA PostEntryKeepsLists ==
  ASSUME KeyedInv, ListInv, NEW i \in DOMAIN sent, PostEntry(i), page' = page
  PROVE  ListInv'
<1>1. /\ posted' = posted \cup {i}
      /\ UNCHANGED <<lists, told, formVars, actVars>>
      /\ status' = IF page = "transfer" THEN [status EXCEPT ![i] = 2] ELSE status
  BY DEF PostEntry, HandlerReturns
<1>2. status \in [Item -> 1..3] /\ Item' = Item
  BY RowsAre DEF ListInv, ListTypeOK
<1>3. CASE page = "transfer"
  <2>1. Item = Request /\ i \in Item
    BY <1>3, ConsoleAssumption, RequestsAre DEF Item, ListPage, KeyedInv
  <2>2. /\ status' \in [Item -> 1..3] /\ status'[i] = 2
        /\ \A r \in Item \ {i} : status'[r] = status[r]
    BY <1>1, <1>2, <1>3, <2>1
  <2>3. \A r \in Item : status[r] = IF r \in posted THEN 2 ELSE 1
    BY <1>3 DEF ListInv, TransfersInv
  <2>4. \A r \in Item : status[r] <= status'[r]
    BY <2>2, <2>3
  <2>5. TransfersInv'
    BY <1>1, <1>2, <2>2, <2>3 DEF TransfersInv
  <2>. QED
    BY <1>1, <1>3, <2>2, <2>4, <2>5, RowsStay
<1>4. CASE page # "transfer"
  <2>1. status' = status /\ \A r \in Item : status[r] \in Int
    BY <1>1, <1>2, <1>4
  <2>2. status' \in [Item -> 1..3] /\ \A r \in Item : status[r] <= status'[r]
    BY <1>2, <2>1
  <2>3. TransfersInv'
    BY <1>4 DEF TransfersInv
  <2>4. \A r \in Item : status'[r] >= 2 => status[r] >= 2
    BY <2>1
  <2>. QED
    BY <1>1, <2>2, <2>3, <2>4, RowsStay
<1>. QED
  BY <1>3, <1>4

(* Requests with keys touch the lists only when they post or succeed. *)
LEMMA KeyedStepKeepsLists ==
  ASSUME ListInv, UNCHANGED <<page, listVars>>, posted' = posted
  PROVE  ListInv'
<1>1. status \in [Item -> 1..3] /\ Item' = Item
  BY RowsAre DEF ListInv, ListTypeOK
<1>2. status' = status /\ UNCHANGED <<lists, told, formVars, actVars>>
  BY DEF listVars
<1>3. \A r \in Item : status[r] \in Int
  BY <1>1
<1>4. status' \in [Item -> 1..3] /\ \A r \in Item : status[r] <= status'[r]
  BY <1>1, <1>2, <1>3
<1>5. TransfersInv'
  BY <1>1, <1>2 DEF ListInv, TransfersInv
<1>6. \A r \in Item : status'[r] >= 2 => status[r] >= 2
  BY <1>2
<1>. QED
  BY <1>2, <1>4, <1>5, <1>6, RowsStay

(* Every page starts with nothing told, asked or decided. *)
LEMMA InitList == ConsoleInit => ListInv
<1> SUFFICES ASSUME ConsoleInit PROVE ListInv
  OBVIOUS
<1>1. ListInit /\ page \in KeyedPage \cup ListPage /\ posted = {}
  BY DEF ConsoleInit, KeyedInit
<1>2. /\ view = FirstView /\ shown = [l \in List |-> NoRows] /\ latest = [l \in List |-> None]
      /\ loading = [l \in List |-> l \in Lists] /\ status = NoRows /\ told = NoRows
      /\ filled = FALSE /\ meaning = None /\ awaitedRow = None /\ lost = {}
      /\ dialogRow = None /\ deciding = None /\ acts = <<>>
      /\ creates = [r \in Item |-> [at |-> "none", meaning |-> None]]
      /\ loads = [l \in List |-> IF l \in Lists /\ page # "transactions"
                                 THEN <<LoadOf(FirstView[l])>> ELSE <<>>]
  BY <1>1 DEF ListInit
<1>3. Lists \subseteq List /\ None \notin Item
  BY NoneIsNoRow DEF Lists, ListsOf, List
<1>4. NoRows \in [Item -> 1..3] /\ \A r \in Item : NoRows[r] = 1
  BY DEF NoRows
<1>5. /\ FirstView \in [List -> Views]
      /\ page = "transactions" => \A l \in List : l = "lines" => FirstView[l].filter = None
  <2>1. \A l \in List : FirstFilter(l) \in {"open", "closed", "all", "USD", "EUR", None}
    BY DEF FirstFilter
  <2>2. \A l \in List : [filter |-> FirstFilter(l), index |-> 0] \in Views
    BY <2>1 DEF Views
  <2>3. page = "transactions" => FirstFilter("lines") = None
    BY DEF FirstFilter
  <2>. QED
    BY <2>2, <2>3 DEF FirstView
<1>6. ASSUME NEW l \in List
      PROVE  /\ loads[l] \in Seq(LoadRecord)
             /\ l \in Lists /\ page # "transactions" => Len(loads[l]) = 1
             /\ \A i \in DOMAIN loads[l] : loads[l][i].view = view[l] /\ loads[l][i].answer = None
  <2> DEFINE first == LoadOf(FirstView[l])
  <2>1. first \in LoadRecord /\ first.view = view[l] /\ first.answer = None
    BY <1>2, <1>5 DEF LoadOf, LoadRecord
  <2> HIDE DEF first
  <2>2. /\ <<first>> \in Seq(LoadRecord) /\ Len(<<first>>) = 1 /\ DOMAIN <<first>> = {1}
        /\ <<first>>[1] = first
    BY <2>1
  <2>3. <<>> \in Seq(LoadRecord) /\ DOMAIN <<>> = {}
    OBVIOUS
  <2>4. loads[l] = IF l \in Lists /\ page # "transactions" THEN <<first>> ELSE <<>>
    BY <1>2 DEF first
  <2>. QED
    BY <2>1, <2>2, <2>3, <2>4
<1>7. loads \in [List -> Seq(LoadRecord)]
  BY <1>2, <1>6
<1>8. ListTypeOK
  <2>1. acts \in Seq([row : Item, reply : {"done", "refused", None}])
    BY <1>2, EmptySeq
  <2>2. creates \in [Item -> [at : {"none", "travelling", "created", "refused"},
                             meaning : Item \cup {None}]]
    BY <1>2
  <2>3. /\ view \in [List -> Views] /\ loading \in [List -> BOOLEAN]
        /\ latest \in [List -> Views \cup {None}]
    BY <1>2, <1>5
  <2>4. shown \in [List -> [Item -> 1..3]] /\ status \in [Item -> 1..3] /\ told \in [Item -> 1..3]
    BY <1>2, <1>4
  <2>5. /\ filled \in BOOLEAN /\ lost \subseteq Item
        /\ {meaning, awaitedRow, dialogRow, deciding} \subseteq Item \cup {None}
    BY <1>2
  <2>6. loads \in [List -> Seq([view : Views \cup {None}, answer : [Item -> 1..3] \cup {None}])]
    BY <1>7 DEF LoadRecord
  <2>. QED
    BY <2>1, <2>2, <2>3, <2>4, <2>5, <2>6 DEF ListTypeOK
<1>9. LoadsInv
  <2>1. \A l \in List : \A r \in Item : shown[l][r] <= status[r]
    BY <1>2, <1>4
  <2>2. \A r \in Item : told[r] <= status[r]
    BY <1>2, <1>4
  <2>3. ShownIsLatest
    BY <1>2, <1>3 DEF ShownIsLatest
  <2>. QED
    BY <1>3, <1>6, <2>1, <2>2, <2>3 DEF LoadsInv
<1>10. SpinnersInv
  <2>1. page = "transactions" => Lists = {"lines"}
    BY DEF Lists, ListsOf
  <2>2. ASSUME NEW l \in Lists PROVE Len(loads[l]) > 0 \/ view[l].filter = None
    <3>1. CASE page = "transactions"
      BY <1>2, <1>3, <1>5, <2>1, <3>1
    <3>2. CASE page # "transactions"
      BY <1>3, <1>6, <3>2
    <3>. QED
      BY <3>1, <3>2
  <2>. QED
    BY <2>2 DEF SpinnersInv
<1>11. ActsInv
  BY <1>2 DEF ActsInv
<1>12. CreatesInv
  <2>1. \A r \in Item : ~Asked(r) /\ ~Alive(r) /\ creates[r].meaning = None /\ status[r] = 1
                        /\ creates[r].at # "created"
    BY <1>2, <1>4 DEF Asked, Alive
  <2>2. {r \in Item : Asked(r)} = {} /\ IsFiniteSet({})
    BY <2>1, FS_EmptySet
  <2>3. filled = FALSE /\ meaning = None /\ awaitedRow = None /\ lost = {}
    BY <1>2
  <2>4. lost \subseteq {r \in Item : Asked(r)} /\ IsFiniteSet({r \in Item : Asked(r)})
    BY <2>2, <2>3
  <2>5. /\ \A r \in Item : ~(status[r] >= 2)
        /\ \A r, s \in Item :
             Alive(r) /\ Alive(s) /\ creates[r].meaning = creates[s].meaning => r = s
        /\ \A r \in Item : Alive(r) /\ creates[r].meaning = meaning => r = awaitedRow
    BY <2>1
  <2>. QED
    BY <2>1, <2>3, <2>4, <2>5 DEF CreatesInv
<1>13. TransfersInv
  BY <1>1, <1>2, <1>4 DEF TransfersInv
<1>. QED
  BY <1>1, <1>8, <1>9, <1>10, <1>11, <1>12, <1>13 DEF ListInv

(* Every step keeps the invariant of lists. *)
LEMMA NextList == KeyedInv /\ ListInv /\ [ConsoleNext]_consoleVars => ListInv'
<1> SUFFICES ASSUME KeyedInv, ListInv, [ConsoleNext]_consoleVars PROVE ListInv'
  OBVIOUS
<1>1. CASE UNCHANGED consoleVars
  <2>1. UNCHANGED <<page, listVars>> /\ posted' = posted
    BY <1>1 DEF consoleVars, keyedVars, server
  <2>. QED
    BY <2>1, KeyedStepKeepsLists
<1>2. ASSUME KeyedStep, UNCHANGED <<page, listVars>> PROVE ListInv'
  <2>1. posted' = posted
    BY <1>2 DEF KeyedStep, Edit, FetchQuote, QuoteAnswered, Confirm, DialogConfirmed,
                DialogDismissed, Retry, SubmitTransfer, IsRefused, NetworkFails, ServerStep,
                Arrive, Reclaim, Finalize, HandlerRejects, CleanUp, GiveUp, Age, server
  <2>. QED
    BY <1>2, <2>1, KeyedStepKeepsLists
<1>3. ASSUME NEW i \in DOMAIN sent, PostEntry(i) \/ ReportSuccess(i), page' = page
      PROVE  ListInv'
  BY <1>3, PostEntryKeepsLists, ReportSuccessKeepsLists
<1>4. ASSUME ListNext, UNCHANGED <<page, keyedVars>> PROVE ListInv'
  <2>1. UNCHANGED <<page, posted>>
    BY <1>4 DEF keyedVars, server
  <2>2. CASE \/ \E l \in Lists : \E i \in DOMAIN loads[l] :
                  ServerAnswers(l, i) \/ LoadArrives(l, i) \/ LoadFails(l, i)
             \/ BalancesArrive \/ BalancesFail
             \/ \E l \in Lists \cap Paged : ChangePage(l)
             \/ \E l \in Lists : \E f \in FilterChoices(l) : SelectFilter(l, f)
    BY <2>1, <2>2, LookingKeepsLists
  <2>3. CASE Fill
    BY <2>1, <2>3, FillKeepsLists
  <2>4. ASSUME NEW r \in Item,
               Create(r) \/ ServerCreates(r) \/ CreateArrives(r) \/ CreateFails(r)
        PROVE  ListInv'
    BY <2>1, <2>4, CreateKeepsLists, ServerCreatesKeepsLists, CreateArrivesKeepsLists,
       CreateFailsKeepsLists
  <2>5. CASE (\E r \in Item : Act(r)) \/ Dismiss \/ ConfirmAct
    BY <2>1, <2>5, DialogKeepsLists
  <2>6. ASSUME NEW r \in Item, Elsewhere(r) PROVE ListInv'
    BY <2>1, <2>6, ElsewhereKeepsLists
  <2>7. ASSUME NEW i \in DOMAIN acts, ServerActs(i) \/ ActArrives(i) \/ ActFails(i)
        PROVE  ListInv'
    BY <2>1, <2>7, ServerActsKeepsLists, ActArrivesKeepsLists, ActFailsKeepsLists
  <2>. QED
    BY <1>4, <2>2, <2>3, <2>4, <2>5, <2>6, <2>7 DEF ListNext
<1>. QED
  BY <1>1, <1>2, <1>3, <1>4 DEF ConsoleNext, consoleVars

(* Whatever spins has a request on its way. *)
LEMMA ListSpinners == ListInv => SpinnersHaveRequests
<1> SUFFICES ASSUME ListInv PROVE SpinnersHaveRequests
  OBVIOUS
<1>1. \A l \in Lists : loading[l] => loads[l] # <<>> \/ view[l].filter = None
  <2>1. ASSUME NEW l \in Lists, loading[l], loads[l] = <<>> PROVE view[l].filter = None
    <3>1. Len(loads[l]) > 0 \/ view[l].filter = None
      BY <2>1 DEF ListInv, SpinnersInv
    <3>2. Len(loads[l]) = 0
      BY <2>1
    <3>. QED
      BY <3>1, <3>2
  <2>. QED
    BY <2>1
<1>2. awaitedRow # None => creates[awaitedRow].at # "none" /\ awaitedRow \notin lost
  BY DEF ListInv, CreatesInv, Asked
<1>3. deciding # None => \E i \in DOMAIN acts : acts[i].row = deciding
  BY DEF ListInv, ActsInv
<1>. QED
  BY <1>1, <1>2, <1>3 DEF SpinnersHaveRequests

(* Of what was asked for in the same words one row at most is alive, and   *)
(* the others that may be there have had no response.                      *)
LEMMA ListCreates == ListInv => CreatesAreCharged
<1> SUFFICES ASSUME ListInv, NEW r \in Item
             PROVE  LET same == {s \in Item : creates[s].meaning = r} IN
                    Cardinality({s \in same : status[s] > 1}) <= 1 + Cardinality(same \cap lost)
  BY DEF CreatesAreCharged
<1> DEFINE same == {s \in Item : creates[s].meaning = r}
           there == {s \in same : status[s] > 1}
           unanswered == same \cap lost
           alive == {s \in same : Alive(s)}
<1>1. /\ CreatesInv /\ None \notin Item /\ status \in [Item -> 1..3]
  BY NoneIsNoRow DEF ListInv, ListTypeOK
<1>2. ASSUME NEW s \in there PROVE s \in unanswered \/ s \in alive
  <2>1. s \in Item /\ status[s] \in 1..3 /\ status[s] > 1
    BY <1>1, <1>2
  <2>2. Asked(s)
    BY <1>1, <1>2 DEF CreatesInv
  <2>3. page \in {"trade", "withdrawals"}
    BY <1>1, <2>1, <2>2 DEF CreatesInv
  <2>4. creates[s].at = "created"
    BY <1>1, <2>1, <2>3 DEF CreatesInv
  <2>. QED
    BY <1>2, <2>4 DEF Alive
<1>3. \A s, t \in alive : s = t
  BY <1>1 DEF CreatesInv
<1>4. IsFiniteSet(unanswered)
  <2>1. unanswered \subseteq {s \in Item : Asked(s)} /\ IsFiniteSet({s \in Item : Asked(s)})
    BY <1>1 DEF CreatesInv
  <2>. QED
    BY <2>1, FS_Subset
<1> HIDE DEF there, unanswered, alive
<1>5. Cardinality(unanswered) \in Nat
  BY <1>4, FS_CardinalityType
<1>6. CASE alive = {}
  <2>1. there \subseteq unanswered
    BY <1>2, <1>6
  <2>2. Cardinality(there) <= Cardinality(unanswered) /\ Cardinality(there) \in Nat
    BY <1>4, <2>1, FS_Subset, FS_CardinalityType
  <2>3. Cardinality(there) <= 1 + Cardinality(unanswered)
    BY <1>5, <2>2
  <2>. QED
    BY <2>3 DEF there, unanswered
<1>7. CASE alive # {}
  <2>1. PICK a : a \in alive
    BY <1>7
  <2>2. there \subseteq unanswered \cup {a}
    BY <1>2, <1>3, <2>1
  <2>3. /\ IsFiniteSet(unanswered \cup {a})
        /\ Cardinality(unanswered \cup {a}) =
             IF a \in unanswered THEN Cardinality(unanswered) ELSE Cardinality(unanswered) + 1
    BY <1>4, FS_AddElement
  <2>4. Cardinality(there) <= Cardinality(unanswered \cup {a}) /\ Cardinality(there) \in Nat
    BY <2>2, <2>3, FS_Subset, FS_CardinalityType
  <2>5. Cardinality(there) <= 1 + Cardinality(unanswered)
    BY <1>5, <2>3, <2>4
  <2>. QED
    BY <2>5 DEF there, unanswered
<1>. QED
  BY <1>6, <1>7

---------------------------------------------------------------------------
(* Requests with keys: the theorems *)

(* Whatever becomes of the requests of the two pages and of the server's   *)
(* rows, also when rows turn stale, statements fail and the server dies,   *)
(* the pages' forms, the requests and the rows fit together as described.  *)
THEOREM KeyedInductive == KeyedSpec => []KeyedInv
<1>. QED
  BY InitKeyed, NextKeyed, PTL DEF KeyedSpec

(* The convert page (convert.ts, onSubmit) posts one entry at most for     *)
(* each time that its user confirmed the dialog and each attempt that the  *)
(* server gave up on; for any number of requests, quotes, retries, edits,  *)
(* answers, stale rows and failures.                                       *)
THEOREM ConfirmationsBound == KeyedSpec => []OneEntryPerConfirmation
<1>. QED
  BY KeyedInductive, KeyedConfirmations, PTL

(* Whatever the convert and transfer pages report as done has been posted  *)
(* under the key that was sent, and with the values that were sent as long *)
(* as no attempt with that key was given up on, also by way of replays.    *)
THEOREM ReportsAreTrue == KeyedSpec => []ReportedIsPosted
<1>. QED
  BY KeyedInductive, KeyedReports, PTL

(* What the user filled in once is posted once, and once more at most for  *)
(* each answer, 409 or 500, that left a key open and for each attempt that *)
(* was given up on; for any number of requests, while the run has two.     *)
THEOREM RepeatsBound == KeyedSpec => []RepeatsAreCharged
<1>. QED
  BY KeyedInductive, KeyedRepeats, PTL

---------------------------------------------------------------------------
(* The console: the theorems *)

(* In the console, with its other pages and what the history of transfers  *)
(* shows, requests with keys take the same steps and no others: what was   *)
(* proved of them alone is true there.                                     *)
THEOREM ConsoleImplementsKeyed == ConsoleSpec => KeyedSpec
<1>1. ConsoleInit => KeyedInit
  BY DEF ConsoleInit
<1>2. [ConsoleNext]_consoleVars => [KeyedNext]_<<page, keyedVars>>
  BY DEF ConsoleNext, consoleVars, KeyedNext, PostEntry, ReportSuccess
<1>. QED
  BY <1>1, <1>2, PTL DEF ConsoleSpec, KeyedSpec

ConsoleInv == KeyedInv /\ ListInv

(* Whatever page the user is on, its state, the requests on their way and  *)
(* the server's rows stay as described.                                    *)
THEOREM ConsoleInductive == ConsoleSpec => []ConsoleInv
<1>1. ConsoleInit => ListInv
  BY InitList
<1>2. KeyedInv /\ ListInv /\ [ConsoleNext]_consoleVars => ListInv'
  BY NextList
<1>3. ConsoleSpec => []KeyedInv
  BY ConsoleImplementsKeyed, KeyedInductive, PTL
<1>. QED
  BY <1>1, <1>2, <1>3, PTL DEF ConsoleSpec, ConsoleInv

(* No step takes a page out of its states, and a key is pending while, and *)
(* only while, its fate is open.                                           *)
THEOREM ConsoleTypeCorrect == ConsoleSpec => []ConsoleTypeOK
<1>1. ConsoleInv => ConsoleTypeOK
  BY DEF ConsoleInv, KeyedInv, ListInv, ConsoleTypeOK
<1>. QED
  BY <1>1, ConsoleInductive, PTL

(* A list that no newer load has overtaken shows what its filter and       *)
(* paginator say, with all that its page has reported, for any number of   *)
(* rows and of loads on their way.                                         *)
THEOREM ListsShowLatest == ConsoleSpec => []ShownIsLatest
<1>1. ConsoleInv => ShownIsLatest
  BY DEF ConsoleInv, ListInv, LoadsInv
<1>. QED
  BY <1>1, ConsoleInductive, PTL

(* Orders and requests for withdrawals that the user filled in once are    *)
(* created once, and once more at most for each lost response.             *)
THEOREM CreatesBound == ConsoleSpec => []CreatesAreCharged
<1>1. ConsoleInv => CreatesAreCharged
  BY ListCreates DEF ConsoleInv
<1>. QED
  BY <1>1, ConsoleInductive, PTL

(* No spinner turns and no button stays disabled without a request that    *)
(* will end it.                                                            *)
THEOREM SpinnersEnd == ConsoleSpec => []SpinnersHaveRequests
<1>1. ConsoleInv => SpinnersHaveRequests
  BY ListSpinners DEF ConsoleInv
<1>. QED
  BY <1>1, ConsoleInductive, PTL

---------------------------------------------------------------------------
(* Exchange rates: the inductive invariant *)

(* Nobody has a snapshot before the fetch is over, nor an answer before it  *)
(* is given, and whatever is cached or was answered has been fetched.       *)
AnswerInv ==
  /\ cache # None => snapshots[cache].source # None
  /\ \A c \in Call : pc[c] \in {"idle", "fetching", "fallingBack"} => snapshots[c].source = None
  /\ \A c \in Call : pc[c] = "answered" =>
       /\ answer[c].from \in Call
       /\ snapshots[answer[c].from].source # None
  /\ \A c \in Call : pc[c] # "answered" => answer[c].quotes = {}
  /\ \A c \in Call : \A q \in answer[c].quotes : pc[q] = "answered"

(* Prices are older than their snapshot by one request's timeout at most.   *)
AgeInv == \A c \in Call : snapshots[c].price <= snapshots[c].age + Timeout

(* A fetch under way had begun before the cached snapshot was cached, or    *)
(* after that snapshot had expired.                                         *)
FetchInv ==
  \A c \in Call :
    pc[c] \in {"fetching", "fallingBack"} /\ cache # None
      => c \in snapshots[cache].rivals \/ snapshots[cache].age >= TTL

(* A snapshot that has not expired is in the cache, or has been displaced.  *)
YoungInv ==
  \A s \in Call :
    snapshots[s].source # None /\ snapshots[s].age < TTL => s = cache \/ s \in displaced

IInv ==
  /\ TypeOK
  /\ AnswerInv
  /\ AgeInv
  /\ FetchInv
  /\ YoungInv
  /\ PricesAreRecent
  /\ QuoteIsKept

(* The starting state satisfies the inductive invariant. *)
LEMMA InitIInv == Init => IInv
<1> SUFFICES ASSUME Init PROVE IInv
  OBVIOUS
<1> USE RatesAssumption DEF Init, NoSnapshot, NoFetch, NoAnswer
<1>1. TypeOK
  BY DEF TypeOK
<1>2. AnswerInv /\ AgeInv /\ FetchInv /\ YoungInv
  BY DEF AnswerInv, AgeInv, FetchInv, YoungInv
<1>3. PricesAreRecent /\ QuoteIsKept
  BY DEF PricesAreRecent, QuoteIsKept, Call
<1>. QED
  BY <1>1, <1>2, <1>3 DEF IInv

(* What a call is answered from the cache is recent, and it is the snapshot *)
(* of every quote that has not expired.                                     *)
LEMMA AskIInv ==
  ASSUME IInv, NEW c \in Call, Ask(c)
  PROVE  IInv'
<1>1. /\ TypeOK /\ AnswerInv /\ AgeInv /\ FetchInv /\ YoungInv
      /\ PricesAreRecent /\ QuoteIsKept
  BY DEF IInv
<1>2. pc[c] = "idle" /\ UNCHANGED <<cache, snapshots, displaced>>
  BY DEF Ask, Answer
<1>3. CASE Fresh
  <2>1. /\ cache \in Call /\ snapshots[cache].source # None /\ snapshots[cache].age < TTL
    BY <1>1, <1>3 DEF Fresh, TypeOK, AnswerInv
  <2> DEFINE young == {q \in Quoting : Unexpired(q)}
             given == [from |-> cache, price |-> snapshots[cache].price, quotes |-> young]
  <2>2. /\ fetch' = fetch
        /\ pc' = [pc EXCEPT ![c] = "answered"]
        /\ answer' = [answer EXCEPT ![c] = given]
    BY <1>2, <1>3 DEF Ask, Answer
  <2>3. \A q \in young :
          /\ q \in Call \ {c} /\ pc[q] = "answered"
          /\ answer[q].from = cache \/ answer[q].from \in displaced
    BY <1>1, <1>2 DEF Unexpired, AnswerInv, YoungInv, Call
  <2>4. snapshots[cache].price < TTL + Timeout
    <3>1. snapshots[cache].price <= snapshots[cache].age + Timeout
      BY <1>1, <2>1 DEF AgeInv
    <3>2. snapshots[cache].price \in Int /\ snapshots[cache].age \in Int
      BY <1>1, <2>1, RatesAssumption DEF TypeOK
    <3>. QED
      BY <2>1, <3>1, <3>2, RatesAssumption
  <2>5. TypeOK'
    <3>1. given \in [from : Call \cup {None}, price : 0..TTL + Timeout, quotes : SUBSET Quoting]
      BY <1>1, <2>1 DEF TypeOK
    <3> HIDE DEF given
    <3>2. answer' \in [Call -> [from : Call \cup {None}, price : 0..TTL + Timeout,
                               quotes : SUBSET Quoting]]
      BY <1>1, <2>2, <3>1 DEF TypeOK
    <3>3. pc' \in [Call -> {"idle", "fetching", "fallingBack", "answered", "lost"}]
      BY <1>1, <2>2 DEF TypeOK
    <3>. QED
      BY <1>1, <1>2, <2>2, <3>2, <3>3 DEF TypeOK
  <2> HIDE DEF given
  <2>6. given.from = cache /\ given.price = snapshots[cache].price /\ given.quotes = young
    BY DEF given
  <2> HIDE DEF young
  <2>7. /\ \A b \in Call \ {c} : pc'[b] = pc[b] /\ answer'[b] = answer[b]
        /\ pc'[c] = "answered" /\ answer'[c] = given
    BY <1>1, <2>2 DEF TypeOK
  <2>8. AnswerInv'
    <3>1. /\ cache' # None => snapshots'[cache'].source # None
          /\ \A b \in Call : pc'[b] \in {"idle", "fetching", "fallingBack"}
                             => snapshots'[b].source = None
          /\ \A b \in Call : pc'[b] = "answered" =>
               answer'[b].from \in Call /\ snapshots'[answer'[b].from].source # None
      BY <1>1, <1>2, <2>1, <2>6, <2>7 DEF AnswerInv
    <3>2. ASSUME NEW b \in Call PROVE pc'[b] # "answered" => answer'[b].quotes = {}
      BY <1>1, <2>7 DEF AnswerInv
    <3>3. ASSUME NEW b \in Call, NEW q \in answer'[b].quotes PROVE pc'[q] = "answered"
      <4>1. CASE b = c
        <5>1. q \in young
          BY <2>6, <2>7, <3>3, <4>1
        <5>2. q \in Call \ {c} /\ pc[q] = "answered"
          BY <2>3, <5>1
        <5>. QED
          BY <2>7, <5>2
      <4>2. CASE b # c
        <5>1. q \in Call /\ pc[q] = "answered"
          BY <1>1, <2>7, <3>3, <4>2 DEF AnswerInv, TypeOK, Call
        <5>. QED
          BY <2>7, <5>1
      <4>. QED
        BY <4>1, <4>2
    <3>. QED
      BY <3>1, <3>2, <3>3 DEF AnswerInv
  <2>9. AgeInv' /\ YoungInv'
    BY <1>1, <1>2 DEF AgeInv, YoungInv
  <2>10. FetchInv'
    BY <1>1, <1>2, <2>7 DEF FetchInv
  <2>11. PricesAreRecent'
    BY <1>1, <1>2, <2>4, <2>6, <2>7 DEF PricesAreRecent
  <2>12. QuoteIsKept'
    <3>1. ASSUME NEW b \in Converting, NEW q \in answer'[b].quotes
          PROVE  answer'[b].from = answer'[q].from \/ answer'[q].from \in displaced'
      <4>1. CASE b = c
        <5>1. q \in young /\ answer'[b].from = cache
          BY <2>6, <2>7, <3>1, <4>1
        <5>2. q \in Call \ {c} /\ (answer[q].from = cache \/ answer[q].from \in displaced)
          BY <2>3, <5>1
        <5>. QED
          BY <1>2, <2>7, <5>1, <5>2
      <4>2. CASE b # c
        <5>1. b \in Call /\ q \in answer[b].quotes
          BY <2>7, <3>1, <4>2 DEF Call
        <5>2. q \in Call /\ q # c
          BY <1>1, <1>2, <5>1 DEF AnswerInv, TypeOK, Call
        <5>. QED
          BY <1>1, <1>2, <2>7, <3>1, <4>2, <5>1, <5>2 DEF QuoteIsKept
      <4>. QED
        BY <4>1, <4>2
    <3>. QED
      BY <3>1 DEF QuoteIsKept
  <2>. QED
    BY <2>5, <2>8, <2>9, <2>10, <2>11, <2>12 DEF IInv
<1>4. CASE ~Fresh
  <2>1. /\ pc' = [pc EXCEPT ![c] = "fetching"]
        /\ fetch' = [fetch EXCEPT ![c] = NoFetch]
        /\ answer' = answer
    BY <1>4 DEF Ask
  <2>2. cache # None => snapshots[cache].age >= TTL
    BY <1>1, <1>4, RatesAssumption DEF Fresh, TypeOK
  <2>3. TypeOK'
    BY <1>1, <1>2, <2>1, RatesAssumption DEF TypeOK, NoFetch
  <2>4. AnswerInv'
    BY <1>1, <1>2, <2>1 DEF AnswerInv, TypeOK
  <2>5. AgeInv' /\ YoungInv' /\ QuoteIsKept'
    BY <1>1, <1>2, <2>1 DEF AgeInv, YoungInv, QuoteIsKept
  <2>6. FetchInv'
    BY <1>1, <1>2, <2>1, <2>2 DEF FetchInv, TypeOK
  <2>7. PricesAreRecent'
    BY <1>1, <1>2, <2>1 DEF PricesAreRecent, TypeOK
  <2>. QED
    BY <2>3, <2>4, <2>5, <2>6, <2>7 DEF IInv
<1>. QED
  BY <1>3, <1>4

(* Only the request to the provider changes. *)
LEMMA RequestIInv ==
  ASSUME IInv, NEW c \in Call, ProviderAnswers(c) \/ FetchFails(c) \/ TimesOut(c)
  PROVE  IInv'
<1>1. /\ TypeOK /\ AnswerInv /\ AgeInv /\ FetchInv /\ YoungInv
      /\ PricesAreRecent /\ QuoteIsKept
  BY DEF IInv
<1>2. /\ UNCHANGED <<cache, snapshots, answer, displaced>>
      /\ pc[c] = "fetching"
      /\ \/ pc' = pc /\ fetch' = [fetch EXCEPT ![c].price = 0]
         \/ pc' = [pc EXCEPT ![c] = "fallingBack"] /\ fetch' = fetch
  BY DEF ProviderAnswers, FetchFails, TimesOut, FallsBack
<1>3. TypeOK'
  <2>1. pc' \in [Call -> {"idle", "fetching", "fallingBack", "answered", "lost"}]
    BY <1>1, <1>2 DEF TypeOK
  <2>2. fetch' \in [Call -> [age : 0..Timeout, price : 0..Timeout \cup {None}]]
    <3>1. CASE fetch' = fetch
      BY <1>1, <3>1 DEF TypeOK
    <3>2. CASE fetch' = [fetch EXCEPT ![c].price = 0]
      <4>1. 0 \in 0..Timeout
        BY RatesAssumption
      <4>. QED
        BY <1>1, <3>2, <4>1 DEF TypeOK
    <3>. QED
      BY <1>2, <3>1, <3>2
  <2>. QED
    BY <1>1, <1>2, <2>1, <2>2 DEF TypeOK
<1>4. AnswerInv'
  <2>1. CASE pc' = pc
    BY <1>1, <1>2, <2>1 DEF AnswerInv
  <2>2. CASE pc' = [pc EXCEPT ![c] = "fallingBack"]
    <3>1. \A b \in Call : pc'[b] = IF b = c THEN "fallingBack" ELSE pc[b]
      BY <1>1, <2>2 DEF TypeOK
    <3>2. \A b \in Call : \A q \in answer[b].quotes : pc'[q] = "answered"
      BY <1>1, <1>2, <3>1 DEF AnswerInv, TypeOK, Call
    <3>. QED
      BY <1>1, <1>2, <3>1, <3>2 DEF AnswerInv
  <2>. QED
    BY <1>2, <2>1, <2>2
<1>5. AgeInv' /\ YoungInv' /\ QuoteIsKept'
  BY <1>1, <1>2 DEF AgeInv, YoungInv, QuoteIsKept
<1>6. FetchInv' /\ PricesAreRecent'
  BY <1>1, <1>2 DEF FetchInv, PricesAreRecent, TypeOK
<1>. QED
  BY <1>3, <1>4, <1>5, <1>6 DEF IInv

(* A snapshot is cached and answers the call that fetched it.  Nobody else  *)
(* can have been answered with it before.  What it replaces has expired, or *)
(* is displaced, as the fetch had begun before.                             *)
LEMMA StoreIInv ==
  ASSUME IInv, NEW c \in Call, pc[c] \in {"fetching", "fallingBack"},
         NEW source \in {"coingecko", "static-fallback"}, NEW price \in 0..Timeout,
         Store(c, source, price), UNCHANGED fetch
  PROVE  IInv'
<1>1. /\ TypeOK /\ AnswerInv /\ AgeInv /\ FetchInv /\ YoungInv
      /\ PricesAreRecent /\ QuoteIsKept
  BY DEF IInv
<1> DEFINE young == {q \in Quoting : Unexpired(q)}
           fresh == [source |-> source, age |-> 0, price |-> price, rivals |-> Fetching \ {c}]
           given == [from |-> c, price |-> price, quotes |-> young]
<1>2. /\ snapshots' = [snapshots EXCEPT ![c] = fresh]
      /\ cache' = c
      /\ displaced' = displaced \cup
           (IF cache # None /\ c \in snapshots[cache].rivals THEN {cache} ELSE {})
      /\ pc' = [pc EXCEPT ![c] = "answered"]
  BY DEF Store, Answer
<1>3. answer' = [answer EXCEPT ![c] = given]
  <2>1. snapshots'[c].price = price
    BY <1>1, <1>2 DEF TypeOK
  <2>. QED
    BY <2>1 DEF Store, Answer
<1>4. /\ fresh.source = source /\ fresh.age = 0 /\ fresh.price = price
      /\ fresh.rivals = Fetching \ {c}
      /\ given.from = c /\ given.price = price /\ given.quotes = young
  OBVIOUS
<1>5. \A q \in young :
        /\ q \in Call \ {c} /\ pc[q] = "answered"
        /\ answer[q].from \in Call \ {c}
        /\ snapshots[answer[q].from].source # None
        /\ snapshots[answer[q].from].age < TTL
  BY <1>1 DEF Unexpired, AnswerInv, Call
<1>6. /\ snapshots[c].source = None
      /\ source # None
      /\ price \in Int /\ 0 <= price /\ price <= Timeout /\ price < TTL + Timeout
  BY <1>1, RatesAssumption DEF AnswerInv
<1>7. TypeOK'
  <2>1. fresh \in [source : {"coingecko", "static-fallback", None},
                   age : 0..TTL + 1, price : 0..TTL + Timeout, rivals : SUBSET Call]
    BY <1>6, RatesAssumption DEF Fetching
  <2>2. given \in [from : Call \cup {None}, price : 0..TTL + Timeout, quotes : SUBSET Quoting]
    BY <1>6, RatesAssumption
  <2> HIDE DEF fresh, given
  <2>3. snapshots' \in [Call -> [source : {"coingecko", "static-fallback", None},
                                 age : 0..TTL + 1, price : 0..TTL + Timeout,
                                 rivals : SUBSET Call]]
    BY <1>1, <1>2, <2>1 DEF TypeOK
  <2>4. answer' \in [Call -> [from : Call \cup {None}, price : 0..TTL + Timeout,
                             quotes : SUBSET Quoting]]
    BY <1>1, <1>3, <2>2 DEF TypeOK
  <2>5. pc' \in [Call -> {"idle", "fetching", "fallingBack", "answered", "lost"}]
    BY <1>1, <1>2 DEF TypeOK
  <2>6. cache' \in Call \cup {None} /\ displaced' \subseteq Call
    BY <1>1, <1>2 DEF TypeOK
  <2>. QED
    BY <1>1, <2>3, <2>4, <2>5, <2>6 DEF TypeOK
<1> HIDE DEF fresh, given, young
<1>8. /\ \A b \in Call \ {c} :
           pc'[b] = pc[b] /\ answer'[b] = answer[b] /\ snapshots'[b] = snapshots[b]
      /\ pc'[c] = "answered" /\ answer'[c] = given /\ snapshots'[c] = fresh
  BY <1>1, <1>2, <1>3 DEF TypeOK
<1>9. \A b \in Call \ {c} : pc[b] = "answered" => answer[b].from \in Call \ {c}
  BY <1>1, <1>6 DEF AnswerInv
<1>10. AnswerInv'
  <2>1. /\ cache' # None => snapshots'[cache'].source # None
        /\ \A b \in Call : pc'[b] \in {"idle", "fetching", "fallingBack"}
                           => snapshots'[b].source = None
    BY <1>1, <1>2, <1>4, <1>6, <1>8 DEF AnswerInv
  <2>2. ASSUME NEW b \in Call, pc'[b] = "answered"
        PROVE  answer'[b].from \in Call /\ snapshots'[answer'[b].from].source # None
    BY <1>1, <1>4, <1>6, <1>8, <1>9, <2>2 DEF AnswerInv
  <2>3. ASSUME NEW b \in Call PROVE pc'[b] # "answered" => answer'[b].quotes = {}
    BY <1>1, <1>8 DEF AnswerInv
  <2>4. ASSUME NEW b \in Call, NEW q \in answer'[b].quotes PROVE pc'[q] = "answered"
    <3>1. CASE b = c
      BY <1>4, <1>5, <1>8, <2>4, <3>1
    <3>2. CASE b # c
      <4>1. q \in Call /\ pc[q] = "answered"
        BY <1>1, <1>8, <2>4, <3>2 DEF AnswerInv, TypeOK, Call
      <4>. QED
        BY <1>8, <4>1
    <3>. QED
      BY <3>1, <3>2
  <2>. QED
    BY <2>1, <2>2, <2>3, <2>4 DEF AnswerInv
<1>11. AgeInv'
  <2>1. fresh.price <= fresh.age + Timeout
    BY <1>4, <1>6, RatesAssumption
  <2>. QED
    BY <1>1, <1>8, <2>1 DEF AgeInv
<1>12. FetchInv'
  BY <1>2, <1>4, <1>8 DEF FetchInv, Fetching
<1>13. \A s \in Call : snapshots'[s].source # None /\ snapshots'[s].age < TTL
                        => s = cache' \/ s \in displaced'
  <2> SUFFICES ASSUME NEW s \in Call \ {c}, snapshots[s].source # None, snapshots[s].age < TTL
               PROVE  s \in displaced'
    BY <1>2, <1>8
  <2>1. CASE s \in displaced
    BY <1>2, <2>1
  <2>2. CASE s = cache /\ cache # None
    <3>1. snapshots[cache].age \in Int
      BY <1>1, <2>2, RatesAssumption DEF TypeOK
    <3>2. c \in snapshots[cache].rivals
      BY <1>1, <2>2, <3>1, RatesAssumption DEF FetchInv
    <3>. QED
      BY <1>2, <2>2, <3>2
  <2>. QED
    BY <1>1, <2>1, <2>2, RatesAssumption DEF YoungInv
<1>14. YoungInv'
  BY <1>13 DEF YoungInv
<1>15. PricesAreRecent'
  BY <1>1, <1>4, <1>6, <1>8, <1>9 DEF PricesAreRecent
<1>16. QuoteIsKept'
  <2>1. ASSUME NEW b \in Converting, NEW q \in answer'[b].quotes
        PROVE  answer'[b].from = answer'[q].from \/ answer'[q].from \in displaced'
    <3>1. CASE b = c
      <4>1. q \in young
        BY <1>4, <1>8, <2>1, <3>1
      <4>2. /\ q \in Call \ {c} /\ answer[q].from \in Call \ {c}
            /\ snapshots'[answer[q].from].source # None
            /\ snapshots'[answer[q].from].age < TTL
        BY <1>5, <1>8, <4>1
      <4>3. answer[q].from \in displaced'
        BY <1>2, <1>13, <4>2
      <4>. QED
        BY <1>8, <4>2, <4>3
    <3>2. CASE b # c
      <4>1. b \in Call /\ q \in answer[b].quotes
        BY <1>8, <2>1, <3>2 DEF Call
      <4>2. q \in Call \ {c}
        BY <1>1, <4>1 DEF AnswerInv, TypeOK, Call
      <4>3. answer[b].from = answer[q].from \/ answer[q].from \in displaced
        BY <1>1, <4>1 DEF QuoteIsKept
      <4>. QED
        BY <1>2, <1>8, <3>2, <4>1, <4>2, <4>3
    <3>. QED
      BY <3>1, <3>2
  <2>. QED
    BY <2>1 DEF QuoteIsKept
<1>. QED
  BY <1>7, <1>10, <1>11, <1>12, <1>14, <1>15, <1>16 DEF IInv

(* A restart displaces what was cached and loses the calls under way. *)
LEMMA RestartIInv ==
  ASSUME IInv, Restart
  PROVE  IInv'
<1>1. /\ TypeOK /\ AnswerInv /\ AgeInv /\ FetchInv /\ YoungInv
      /\ PricesAreRecent /\ QuoteIsKept
  BY DEF IInv
<1>2. /\ cache' = None /\ UNCHANGED <<snapshots, fetch, answer>>
      /\ displaced' = displaced \cup (IF cache = None THEN {} ELSE {cache})
      /\ pc' = [c \in Call |-> IF c \in Fetching THEN "lost" ELSE pc[c]]
  BY DEF Restart
<1>3. TypeOK'
  BY <1>1, <1>2 DEF TypeOK
<1>4. \A c \in Call :
        /\ pc'[c] \in {"idle", "fetching", "fallingBack", "answered"} => pc'[c] = pc[c]
        /\ pc'[c] = "answered" <=> pc[c] = "answered"
        /\ pc'[c] \notin {"fetching", "fallingBack"}
  BY <1>2 DEF Fetching
<1>5. AnswerInv'
  <2>1. ASSUME NEW c \in Call, NEW q \in answer[c].quotes PROVE pc'[q] = "answered"
    <3>1. answer[c] \in [from : Call \cup {None}, price : 0..TTL + Timeout, quotes : SUBSET Quoting]
      BY <1>1 DEF TypeOK
    <3>2. q \in Call
      BY <2>1, <3>1 DEF Call
    <3>3. pc[q] = "answered"
      BY <1>1, <2>1 DEF AnswerInv
    <3>. QED
      BY <1>4, <3>2, <3>3
  <2>. QED
    BY <1>1, <1>2, <1>4, <2>1 DEF AnswerInv
<1>6. AgeInv' /\ FetchInv' /\ YoungInv'
  BY <1>1, <1>2 DEF AgeInv, FetchInv, YoungInv
<1>7. PricesAreRecent' /\ QuoteIsKept'
  BY <1>1, <1>2, <1>4 DEF PricesAreRecent, QuoteIsKept
<1>. QED
  BY <1>3, <1>5, <1>6, <1>7 DEF IInv

(* Time makes snapshots older, and their prices by no more than them. *)
LEMMA TickIInv ==
  ASSUME IInv, Tick
  PROVE  IInv'
<1>1. /\ TypeOK /\ AnswerInv /\ AgeInv /\ FetchInv /\ YoungInv
      /\ PricesAreRecent /\ QuoteIsKept
  BY DEF IInv
<1>2. UNCHANGED <<cache, pc, answer, displaced>>
  BY DEF Tick
<1>3. ASSUME NEW c \in Call
      PROVE  /\ snapshots'[c] \in [source : {"coingecko", "static-fallback", None},
                                   age : 0..TTL + 1, price : 0..TTL + Timeout,
                                   rivals : SUBSET Call]
             /\ snapshots'[c].source = snapshots[c].source
             /\ snapshots'[c].rivals = snapshots[c].rivals
             /\ snapshots[c].age <= snapshots'[c].age
             /\ snapshots[c].age >= TTL => snapshots'[c].age >= TTL
             /\ snapshots'[c].price <= snapshots'[c].age + Timeout
  <2> DEFINE s == snapshots[c]
             older == [s EXCEPT !.age = Older(@, TTL + 1), !.price = Older(@, TTL + Timeout)]
  <2>1. /\ s \in [source : {"coingecko", "static-fallback", None},
                  age : 0..TTL + 1, price : 0..TTL + Timeout, rivals : SUBSET Call]
        /\ s.price <= s.age + Timeout
    BY <1>1 DEF TypeOK, AgeInv
  <2>2. snapshots'[c] = IF s.source = None THEN s ELSE older
    BY DEF Tick
  <2>3. s.age \in 0..TTL + 1 /\ s.price \in 0..TTL + Timeout
    BY <2>1
  <2>4. /\ older.source = s.source /\ older.rivals = s.rivals
        /\ older.age = Older(s.age, TTL + 1) /\ older.price = Older(s.price, TTL + Timeout)
        /\ older \in [source : {"coingecko", "static-fallback", None},
                      age : {older.age}, price : {older.price}, rivals : SUBSET Call]
    BY <2>1
  <2>5. /\ older.age = IF s.age = TTL + 1 THEN s.age ELSE s.age + 1
        /\ older.price = IF s.price = TTL + Timeout THEN s.price ELSE s.price + 1
    BY <2>3, <2>4, RatesAssumption DEF Older
  <2> HIDE DEF older
  <2>6. /\ older.age \in 0..TTL + 1 /\ older.price \in 0..TTL + Timeout
        /\ s.age <= older.age /\ older.price <= older.age + Timeout
        /\ s.age >= TTL => older.age >= TTL
    BY <2>1, <2>3, <2>5, RatesAssumption
  <2>7. CASE s.source = None
    BY <2>1, <2>2, <2>3, <2>7, RatesAssumption
  <2>8. CASE s.source # None
    <3>1. older \in [source : {"coingecko", "static-fallback", None},
                    age : 0..TTL + 1, price : 0..TTL + Timeout, rivals : SUBSET Call]
      BY <2>4, <2>6
    <3>. QED
      BY <2>2, <2>4, <2>6, <2>8, <3>1
  <2>. QED
    BY <2>7, <2>8
<1>4. ASSUME NEW c \in Call
      PROVE  fetch'[c] \in [age : 0..Timeout, price : 0..Timeout \cup {None}]
  <2>1. fetch[c] \in [age : 0..Timeout, price : 0..Timeout \cup {None}]
    BY <1>1 DEF TypeOK
  <2>2. CASE pc[c] # "fetching"
    BY <2>1, <2>2 DEF Tick
  <2>3. CASE pc[c] = "fetching"
    <3>1. fetch[c].age < Timeout
      BY <2>3 DEF Tick, Fetching
    <3>2. fetch'[c] = [age |-> fetch[c].age + 1, price |-> Older(fetch[c].price, Timeout)]
      BY <2>3 DEF Tick
    <3>3. fetch[c].age + 1 \in 0..Timeout
      BY <2>1, <3>1, RatesAssumption
    <3>4. Older(fetch[c].price, Timeout) \in 0..Timeout \cup {None}
      BY <2>1, RatesAssumption DEF Older
    <3>. QED
      BY <3>2, <3>3, <3>4
  <2>. QED
    BY <2>2, <2>3
<1>5. TypeOK'
  <2>1. snapshots' \in [Call -> [source : {"coingecko", "static-fallback", None},
                                 age : 0..TTL + 1, price : 0..TTL + Timeout,
                                 rivals : SUBSET Call]]
    BY <1>3 DEF Tick
  <2>2. fetch' \in [Call -> [age : 0..Timeout, price : 0..Timeout \cup {None}]]
    BY <1>4 DEF Tick
  <2>. QED
    BY <1>1, <1>2, <2>1, <2>2 DEF TypeOK
<1>6. AnswerInv'
  BY <1>1, <1>2, <1>3 DEF AnswerInv, TypeOK
<1>7. AgeInv'
  BY <1>3 DEF AgeInv
<1>8. FetchInv'
  BY <1>1, <1>2, <1>3 DEF FetchInv, TypeOK
<1>9. YoungInv'
  <2> SUFFICES ASSUME NEW s \in Call, snapshots'[s].source # None, snapshots'[s].age < TTL
               PROVE  s = cache \/ s \in displaced
    BY <1>2 DEF YoungInv
  <2>1. snapshots[s].age < TTL
    <3>1. snapshots[s].age \in Int /\ snapshots'[s].age \in Int
      BY <1>1, <1>3, RatesAssumption DEF TypeOK
    <3>. QED
      BY <1>3, <3>1, RatesAssumption
  <2>. QED
    BY <1>1, <1>3, <2>1 DEF YoungInv
<1>10. PricesAreRecent' /\ QuoteIsKept'
  <2>1. PricesAreRecent'
    BY <1>1, <1>2, <1>3 DEF PricesAreRecent, AnswerInv
  <2>. QED
    BY <1>1, <1>2, <2>1 DEF QuoteIsKept
<1>. QED
  BY <1>5, <1>6, <1>7, <1>8, <1>9, <1>10 DEF IInv

(* Every step keeps the invariant. *)
LEMMA NextIInv == IInv /\ [Next]_vars => IInv'
<1> SUFFICES ASSUME IInv, [Next]_vars PROVE IInv'
  OBVIOUS
<1>1. ASSUME NEW c \in Call, Ask(c) PROVE IInv'
  BY <1>1, AskIInv
<1>2. ASSUME NEW c \in Call, ProviderAnswers(c) \/ FetchFails(c) \/ TimesOut(c) PROVE IInv'
  BY <1>2, RequestIInv
<1>3. ASSUME NEW c \in Call, FetchSucceeds(c) PROVE IInv'
  <2>1. /\ pc[c] = "fetching" /\ UNCHANGED fetch
        /\ Store(c, "coingecko", fetch[c].price)
    BY <1>3 DEF FetchSucceeds
  <2>2. fetch[c].price \in 0..Timeout
    BY <1>3 DEF FetchSucceeds, IInv, TypeOK
  <2>. QED
    BY <2>1, <2>2, StoreIInv
<1>4. ASSUME NEW c \in Call, FallBack(c) PROVE IInv'
  <2>1. /\ pc[c] = "fallingBack" /\ UNCHANGED fetch
        /\ Store(c, "static-fallback", 0)
    BY <1>4 DEF FallBack
  <2>2. 0 \in 0..Timeout
    BY RatesAssumption
  <2>. QED
    BY <2>1, <2>2, StoreIInv
<1>5. CASE Restart
  BY <1>5, RestartIInv
<1>6. CASE Tick
  BY <1>6, TickIInv
<1>7. CASE UNCHANGED vars
  BY <1>7 DEF vars, IInv, TypeOK, AnswerInv, AgeInv, FetchInv, YoungInv, PricesAreRecent,
              QuoteIsKept
<1>. QED
  BY <1>1, <1>2, <1>3, <1>4, <1>5, <1>6, <1>7 DEF Next

---------------------------------------------------------------------------
(* Exchange rates: the theorems *)

(* The invariant holds in every reachable state. *)
THEOREM InductiveInvariant == Spec => []IInv
<1>. QED
  BY InitIInv, NextIInv, PTL DEF Spec

(* Variables have their types; in particular no fetch outlasts its timeout. *)
THEOREM TypeCorrect == Spec => []TypeOK
<1>1. IInv => TypeOK
  BY DEF IInv
<1>. QED
  BY <1>1, InductiveInvariant, PTL

(* Whatever races to fill the cache, nobody is answered with prices of      *)
(* longer ago than the time to live and one timeout (rates.service.ts).     *)
THEOREM PricesStayRecent == Spec => []PricesAreRecent
<1>1. IInv => PricesAreRecent
  BY DEF IInv
<1>. QED
  BY <1>1, InductiveInvariant, PTL

(* A conversion within a quote's life gets the quote's rates, unless the    *)
(* server has restarted or a fetch begun earlier has replaced them          *)
(* (getQuote and convert in fx.service.ts).                                 *)
THEOREM QuotesAreKept == Spec => []QuoteIsKept
<1>1. IInv => QuoteIsKept
  BY DEF IInv
<1>. QED
  BY <1>1, InductiveInvariant, PTL
=============================================================================
