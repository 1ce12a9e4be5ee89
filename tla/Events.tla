------------------------------- MODULE Events -------------------------------
(***************************************************************************)
(* From a business transaction to an email: the transactional outbox and   *)
(* its publisher (backend/src/common/outbox/), the Kafka clients           *)
(* (backend/src/common/kafka/) and the notifications consumer              *)
(* (backend/src/notifications/notifications-consumer.service.ts).          *)
(*                                                                         *)
(* One server process runs all of it.  The topic is a sequence of events,  *)
(* as messages with one key stay in order and nothing depends on the order *)
(* of others.  Events are numbered by created_at.                          *)
(***************************************************************************)
EXTENDS Integers, Sequences, FiniteSets

CONSTANTS
  NumEvents,  \* business transactions, each with one outbox event
  Addressed,  \* events whose payload has a recipientEmail
  Tick,       \* runs of publishBatch that may overlap
  BatchSize,  \* BATCH_SIZE
  MaxFaults,  \* failures of Kafka, SMTP, PostgreSQL and the process
  None

Event == 1..NumEvents

ASSUME EventsAssumption ==
  /\ NumEvents \in Nat
  /\ Addressed \subseteq Event
  /\ BatchSize \in Nat \ {0}
  /\ MaxFaults \in Nat
  /\ None \notin Tick \cup Nat

VARIABLES
  writes,     \* the business transaction of each event
  outbox,     \* committed rows of outbox_events
  published,  \* those with published_at set
  ticks,      \* each run of the publisher: [pc, todo, at]
  lockedBy,   \* the run whose transaction has locked an outbox row
  topic,      \* flowpay.events
  offset,     \* the consumer group's committed offset, or None
  consumer,   \* the subscribed consumer: [pc, position]
  processed,  \* processed_events
  mails,      \* emails sent for each event
  faults

vars == <<writes, outbox, published, ticks, lockedBy, topic, offset, consumer,
          processed, mails, faults>>
database == <<writes, outbox, published, processed>>
publishing == <<ticks, lockedBy, topic>>
consuming == <<offset, consumer, mails>>

IdleTick == [pc |-> "idle", todo |-> <<>>, at |-> None]
Booting == [pc |-> "booting", position |-> 0]

TypeOK ==
  /\ writes \in [Event -> {"none", "open", "committed", "rolledBack"}]
  /\ outbox \subseteq Event
  /\ published \subseteq outbox
  /\ ticks \in [Tick -> [pc : {"idle", "scanning", "locking", "locked", "sent"},
                         todo : Seq(Event), at : Event \cup {None}]]
  /\ lockedBy \in [Event -> Tick \cup {None}]
  /\ topic \in Seq(Event)
  /\ offset \in 0..Len(topic) \cup {None}
  /\ consumer \in [pc : {"booting", "polling", "claiming", "mailing", "crashed", "stopped"},
                   position : 0..Len(topic)]
  /\ processed \subseteq Event
  /\ mails \in [Event -> Nat]
  /\ faults \in 0..MaxFaults

Init ==
  /\ writes = [e \in Event |-> "none"]
  /\ outbox = {}
  /\ published = {}
  /\ ticks = [k \in Tick |-> IdleTick]
  /\ lockedBy = [e \in Event |-> None]
  /\ topic = <<>>
  /\ offset = None
  /\ consumer = Booting
  /\ processed = {}
  /\ mails = [e \in Event |-> 0]
  /\ faults = 0

Fault == faults < MaxFaults /\ faults' = faults + 1

---------------------------------------------------------------------------
(* Business transactions *)

(* A transaction has written its entry and appended e, both uncommitted. *)
Begin(e) ==
  /\ writes[e] = "none"
  /\ writes' = [writes EXCEPT ![e] = "open"]
  /\ UNCHANGED <<outbox, published, processed, publishing, consuming, faults>>

Commit(e) ==
  /\ writes[e] = "open"
  /\ writes' = [writes EXCEPT ![e] = "committed"]
  /\ outbox' = outbox \cup {e}
  /\ UNCHANGED <<published, processed, publishing, consuming, faults>>

RollBack(e) ==
  /\ writes[e] = "open"
  /\ writes' = [writes EXCEPT ![e] = "rolledBack"]
  /\ UNCHANGED <<outbox, published, processed, publishing, consuming, faults>>

---------------------------------------------------------------------------
(* outbox-publisher.service.ts *)

(* The first n events of S in the order of created_at, or all: one sequence. *)
Oldest(S, n) ==
  {s \in [1..(IF Cardinality(S) < n THEN Cardinality(S) ELSE n) -> S] :
     /\ \A i, j \in DOMAIN s : i < j => s[i] < s[j]
     /\ \A e \in S : (\E i \in DOMAIN s : e <= s[i]) => \E i \in DOMAIN s : e = s[i]}

(* publishBatch starts: it reads the oldest unpublished rows. *)
Scan(k) ==
  /\ ticks[k].pc = "idle"
  /\ outbox # published
  /\ \E batch \in Oldest(outbox \ published, BatchSize) :
       ticks' = [ticks EXCEPT ![k].pc = "scanning", ![k].todo = batch]
  /\ UNCHANGED <<database, lockedBy, topic, consuming, faults>>

NextRow(k) ==
  /\ ticks[k].pc = "scanning"
  /\ ticks' = [ticks EXCEPT ![k] =
       IF @.todo = <<>> THEN IdleTick
                        ELSE [pc |-> "locking", todo |-> Tail(@.todo), at |-> Head(@.todo)]]
  /\ UNCHANGED <<database, lockedBy, topic, consuming, faults>>

(* publishOne is over, with or without an error; the loop goes on. *)
GoOn(k) == ticks' = [ticks EXCEPT ![k].pc = "scanning", ![k].at = None]

Unlock(e) == lockedBy' = [lockedBy EXCEPT ![e] = None]

RowFreeUnlocked(e) == TRUE

(* No run has locked the row of event e. *)
RowFree(e) == lockedBy[e] = None

(* findOne with published_at IS NULL and a pessimistic_write lock: when    *)
(* the row has been published in the meantime it finds nothing.            *)
LockRow(k) ==
  LET e == ticks[k].at IN
  /\ ticks[k].pc = "locking"
  /\ RowFree(e)
  /\ IF e \in published
       THEN GoOn(k) /\ UNCHANGED lockedBy
       ELSE /\ ticks' = [ticks EXCEPT ![k].pc = "locked"]
            /\ lockedBy' = [lockedBy EXCEPT ![e] = k]
  /\ UNCHANGED <<database, topic, consuming, faults>>

MarkBeforeSend(k) ==
  /\ ticks[k].pc = "locked"
  /\ published' = published \cup {ticks[k].at}
  /\ ticks' = [ticks EXCEPT ![k].pc = "sent"]
  /\ UNCHANGED <<writes, outbox, processed, lockedBy, topic, consuming, faults>>

(* The broker acknowledges the message. *)
Send(k) ==
  /\ ticks[k].pc = "locked"
  /\ topic' = Append(topic, ticks[k].at)
  /\ ticks' = [ticks EXCEPT ![k].pc = "sent"]
  /\ UNCHANGED <<database, lockedBy, consuming, faults>>

(* published_at is set and the transaction committed. *)
MarkPublished(k) ==
  /\ ticks[k].pc = "sent"
  /\ published' = published \cup {ticks[k].at}
  /\ Unlock(ticks[k].at)
  /\ GoOn(k)
  /\ UNCHANGED <<writes, outbox, processed, topic, consuming, faults>>

PublishFailsKeepingLock(k) ==
  /\ ticks[k].pc \in {"locked", "sent"}
  /\ Fault
  /\ GoOn(k)
  /\ UNCHANGED <<database, lockedBy, topic, consuming>>

(* The send is refused, or times out though the broker has the message, or *)
(* the row cannot be updated: the transaction is rolled back.              *)
PublishFails(k) ==
  /\ ticks[k].pc \in {"locked", "sent"}
  /\ Fault
  /\ topic' \in {topic} \cup (IF ticks[k].pc = "locked" THEN {Append(topic, ticks[k].at)} ELSE {})
  /\ Unlock(ticks[k].at)
  /\ GoOn(k)
  /\ UNCHANGED <<database, consuming>>

---------------------------------------------------------------------------
(* kafka-event-consumer.ts and notifications-consumer.service.ts *)

SubscribePastEnd ==
  /\ consumer.pc \in {"booting", "crashed"}
  /\ consumer' = [pc |-> "polling",
                  position |-> IF offset = None THEN Len(topic) + 1 ELSE offset]
  /\ UNCHANGED <<database, publishing, offset, mails, faults>>

(* connect, subscribe and run succeed: reading starts at the committed     *)
(* offset or, as fromBeginning is false, at the end if there is none.      *)
Subscribe ==
  /\ consumer.pc \in {"booting", "crashed"}
  /\ consumer' = [pc |-> "polling",
                  position |-> IF offset = None THEN Len(topic) ELSE offset]
  /\ UNCHANGED <<database, publishing, offset, mails, faults>>

(* Resubscribing after a crash fails, and is not tried again. (At boot it  *)
(* is, by subscribeWithRetry, which changes nothing here.)                 *)
ResubscribeFails ==
  /\ consumer.pc = "crashed"
  /\ Fault
  /\ consumer' = [consumer EXCEPT !.pc = "stopped"]
  /\ UNCHANGED <<database, publishing, offset, mails>>

Message == topic[consumer.position + 1]

(* eachMessage is called with the next message. *)
Deliver ==
  /\ consumer.pc = "polling"
  /\ consumer.position < Len(topic)
  /\ consumer' = [consumer EXCEPT !.pc = "claiming"]
  /\ UNCHANGED <<database, publishing, offset, mails, faults>>

(* handleMessage returns. *)
NextMessage == consumer' = [pc |-> "polling", position |-> consumer.position + 1]

ClaimAgain ==
  /\ consumer.pc = "claiming"
  /\ processed' = processed \cup {Message}
  /\ IF Message \in Addressed
       THEN consumer' = [consumer EXCEPT !.pc = "mailing"]
       ELSE NextMessage
  /\ UNCHANGED <<writes, outbox, published, publishing, offset, mails, faults>>

(* INSERT INTO processed_events ... ON CONFLICT DO NOTHING: whoever        *)
(* inserted the row goes on, if there is somebody to write to.             *)
Claim ==
  /\ consumer.pc = "claiming"
  /\ processed' = processed \cup {Message}
  /\ IF Message \in Addressed \ processed
       THEN consumer' = [consumer EXCEPT !.pc = "mailing"]
       ELSE NextMessage
  /\ UNCHANGED <<writes, outbox, published, publishing, offset, mails, faults>>

SendMail ==
  /\ consumer.pc = "mailing"
  /\ mails' = [mails EXCEPT ![Message] = @ + 1]
  /\ NextMessage
  /\ UNCHANGED <<database, publishing, offset, faults>>

(* The claim or the mail throws, with or without effect: kafkajs ends the  *)
(* consumer, as retries are disabled, and the CRASH listener sets a timer. *)
HandleFails ==
  /\ consumer.pc \in {"claiming", "mailing"}
  /\ Fault
  /\ consumer' = [consumer EXCEPT !.pc = "crashed"]
  /\ processed' \in {processed} \cup
       (IF consumer.pc = "claiming" THEN {processed \cup {Message}} ELSE {})
  /\ mails' \in {mails} \cup
       (IF consumer.pc = "mailing" THEN {[mails EXCEPT ![Message] = @ + 1]} ELSE {})
  /\ UNCHANGED <<writes, outbox, published, publishing, offset>>

CommitOffsetEagerly ==
  /\ consumer.pc = "polling"
  /\ offset # Len(topic)
  /\ offset' = Len(topic)
  /\ UNCHANGED <<database, publishing, consumer, mails, faults>>

(* kafkajs commits the offset of what has been handled, now and then. *)
CommitOffset ==
  /\ consumer.pc = "polling"
  /\ offset # consumer.position
  /\ offset' = consumer.position
  /\ UNCHANGED <<database, publishing, consumer, mails, faults>>

(* The server process dies and is started again. *)
Restart ==
  /\ Fault
  /\ writes' = [e \in Event |-> IF writes[e] = "open" THEN "rolledBack" ELSE writes[e]]
  /\ ticks' = [k \in Tick |-> IdleTick]
  /\ lockedBy' = [e \in Event |-> None]
  /\ consumer' = Booting
  /\ UNCHANGED <<outbox, published, processed, topic, offset, mails>>

---------------------------------------------------------------------------

TickStep(k) ==
  Scan(k) \/ NextRow(k) \/ LockRow(k) \/ Send(k) \/ MarkPublished(k)

ConsumerStep == Subscribe \/ Deliver \/ Claim \/ SendMail

Finished ==
  /\ \A e \in Event : writes[e] \in {"committed", "rolledBack"}
  /\ outbox = published
  /\ \A k \in Tick : ticks[k].pc = "idle"
  /\ consumer.pc = "stopped" \/ (consumer.pc = "polling" /\ consumer.position = Len(topic))
  /\ UNCHANGED vars

Next ==
  \/ \E e \in Event : Begin(e) \/ Commit(e) \/ RollBack(e)
  \/ \E k \in Tick : TickStep(k) \/ PublishFails(k)
  \/ ConsumerStep \/ HandleFails \/ ResubscribeFails \/ CommitOffset
  \/ Restart
  \/ Finished

Spec == Init /\ [][Next]_vars

(* @Cron starts a batch every 5 seconds and its loop goes on; the consumer *)
(* polls, and its resubscription timer fires.                              *)
Fairness == (\A k \in Tick : WF_vars(TickStep(k))) /\ WF_vars(ConsumerStep)

FairSpec == Spec /\ Fairness

---------------------------------------------------------------------------

InTopic(e) == \E i \in DOMAIN topic : topic[i] = e

(* "Never lost, never phantom": an event in the topic is of a transaction  *)
(* that committed, and a row is marked published only when its message is  *)
(* in the topic (OutboxService.append, publishOne).                        *)
NeitherLostNorPhantom ==
  \A e \in Event :
    /\ InTopic(e) => writes[e] = "committed"
    /\ e \in published => InTopic(e)

(* An event is in the topic again only because something failed since:     *)
(* ticks that overlap do not publish a row twice (publishOne: "Already     *)
(* published (e.g. by a concurrent publisher instance)").                  *)
DuplicatesAreCharged ==
  \A e \in Event : Cardinality({i \in DOMAIN topic : topic[i] = e}) <= 1 + faults

(* However often an event is published and delivered, and wherever the     *)
(* consumer fails, nobody gets two emails about it (claim), and somebody   *)
(* to be written to goes without one, once it is claimed, only for a       *)
(* failure of the consumer since.                                          *)
EmailsFollowClaims ==
  LET unsent == {e \in Addressed \cap processed : mails[e] = 0}
      sending == IF consumer.pc = "mailing" THEN {Message} ELSE {} IN
  /\ \A e \in Event : mails[e] <= 1
  /\ Cardinality(unsent \ sending) <= faults

(* A committed event gets into the topic ("never lost"): no failure of a   *)
(* send stops the publisher for good.                                      *)
EveryEventPublished == \A e \in Event : writes[e] = "committed" ~> InTopic(e)

(* A message behind the committed offset is claimed, unless the consumer   *)
(* has been given up.                                                      *)
EveryMessageClaimed ==
  \A e \in Event :
    (offset # None /\ \E i \in DOMAIN topic : i > offset /\ topic[i] = e)
      ~> (e \in processed \/ consumer.pc = "stopped")
=============================================================================
