---------------------------- MODULE EventsProofs ----------------------------
(* Theorems about Events, for any number of events, overlapping batches of  *)
(* any size and failures.                                                   *)
EXTENDS Events, FiniteSetTheorems, SequenceTheorems, TLAPS

---------------------------------------------------------------------------
(* The inductive invariant *)

(* TypeOK in parts, so that a step has to do with those it disturbs only. *)
RowsType ==
  /\ writes \in [Event -> {"none", "open", "committed", "rolledBack"}]
  /\ outbox \subseteq Event
  /\ published \subseteq outbox
  /\ lockedBy \in [Event -> Tick \cup {None}]

TickState == [pc : {"idle", "scanning", "locking", "locked", "sent"},
              todo : Seq(Event), at : Event \cup {None}]

TicksType == ticks \in [Tick -> TickState]

TopicType == topic \in Seq(Event) /\ faults \in 0..MaxFaults

ConsumerType ==
  /\ offset \in 0..Len(topic) \cup {None}
  /\ consumer \in [pc : {"booting", "polling", "claiming", "mailing", "crashed", "stopped"},
                   position : 0..Len(topic)]
  /\ processed \subseteq Event
  /\ mails \in [Event -> Nat]

(* A run of the publisher deals with rows of the outbox only; whoever has   *)
(* found one unpublished holds its lock, and so it still is.                *)
TickInv(k) ==
  /\ \A i \in 1..Len(ticks[k].todo) : ticks[k].todo[i] \in outbox
  /\ ticks[k].pc \in {"locking", "locked", "sent"} => ticks[k].at \in outbox
  /\ ticks[k].pc \in {"locked", "sent"} =>
       lockedBy[ticks[k].at] = k /\ ticks[k].at \notin published
  /\ ticks[k].pc = "sent" => InTopic(ticks[k].at)

(* Rows are of committed transactions, messages of rows.                    *)
OutboxInv ==
  /\ \A e \in outbox : writes[e] = "committed"
  /\ \A i \in 1..Len(topic) : topic[i] \in outbox
  /\ \A e \in published : InTopic(e)

(* Messages about e, and whether one of them is not due to a failure.       *)
Copies(e) == {i \in DOMAIN topic : topic[i] = e}
Sent(e) == \E k \in Tick : ticks[k].pc = "sent" /\ ticks[k].at = e
Accounted(e) == e \in published \/ Sent(e)

CopiesInv ==
  \A e \in Event : Cardinality(Copies(e)) <= faults + (IF Accounted(e) THEN 1 ELSE 0)

(* Claimed events whose mail has not been sent, and the one being sent.     *)
Unsent == {e \in Addressed \cap processed : mails[e] = 0}
Sending == IF consumer.pc = "mailing" THEN {Message} ELSE {}

MailInv ==
  /\ consumer.pc \in {"claiming", "mailing"} => consumer.position < Len(topic)
  /\ consumer.pc = "mailing" => Message \in Unsent
  /\ \A e \in Event : mails[e] <= 1 /\ (mails[e] # 0 => e \in processed)
  /\ Cardinality(Unsent \ Sending) <= faults

PublisherInv ==
  /\ RowsType /\ TicksType /\ TopicType
  /\ \A k \in Tick : TickInv(k)
  /\ OutboxInv
  /\ CopiesInv

IInv == PublisherInv /\ ConsumerType /\ MailInv

---------------------------------------------------------------------------
(* Facts about the data *)

(* Sets of events, and those of messages, are finite.                       *)
LEMMA EventsFinite ==
  ASSUME NEW S \in SUBSET Event
  PROVE  IsFiniteSet(S) /\ Cardinality(S) \in Nat
<1>1. IsFiniteSet(Event)
  BY FS_Interval, EventsAssumption DEF Event
<1>. QED
  BY <1>1, FS_Subset, FS_CardinalityType

(* A batch is a sequence of rows of the set it was taken from.              *)
LEMMA BatchType ==
  ASSUME NEW S \in SUBSET Event, NEW batch \in Oldest(S, BatchSize)
  PROVE  batch \in Seq(S)
<1>1. Cardinality(S) \in Nat /\ BatchSize \in Nat
  BY EventsFinite, EventsAssumption
<1>2. PICK n \in Nat : batch \in [1..n -> S]
  BY <1>1 DEF Oldest
<1>. QED
  BY <1>2

(* What one more message changes.                                           *)
LEMMA TopicGrows ==
  ASSUME TopicType, NEW e \in Event, topic' = Append(topic, e)
  PROVE  /\ topic' \in Seq(Event)
         /\ Len(topic') = Len(topic) + 1
         /\ \A i \in 1..Len(topic) : topic'[i] = topic[i]
         /\ topic'[Len(topic) + 1] = e
         /\ InTopic(e)'
         /\ \A d \in Event : InTopic(d) => InTopic(d)'
         /\ Cardinality(Copies(e)') = Cardinality(Copies(e)) + 1
         /\ \A d \in Event : d # e => Copies(d)' = Copies(d)
<1>1. /\ topic' \in Seq(Event)
      /\ Len(topic) \in Nat
      /\ Len(topic') = Len(topic) + 1
      /\ \A i \in 1..Len(topic) : topic'[i] = topic[i]
      /\ topic'[Len(topic) + 1] = e
      /\ DOMAIN topic = 1..Len(topic)
      /\ DOMAIN topic' = 1..(Len(topic) + 1)
  BY DEF TopicType
<1>2. InTopic(e)' /\ \A d \in Event : InTopic(d) => InTopic(d)'
  BY <1>1 DEF InTopic
<1>3. Copies(e)' = Copies(e) \cup {Len(topic) + 1}
  BY <1>1 DEF Copies
<1>4. IsFiniteSet(Copies(e)) /\ Len(topic) + 1 \notin Copies(e)
  <2>1. Copies(e) \subseteq 1..Len(topic) /\ IsFiniteSet(1..Len(topic))
    BY <1>1, FS_Interval DEF Copies
  <2>. QED
    BY <1>1, <2>1, FS_Subset
<1>5. Cardinality(Copies(e)') = Cardinality(Copies(e)) + 1
  BY <1>3, <1>4, FS_AddElement
<1>6. \A d \in Event : d # e => Copies(d)' = Copies(d)
  BY <1>1 DEF Copies
<1>. QED
  BY <1>1, <1>2, <1>5, <1>6

(* The number of messages about an event is a number.                       *)
LEMMA CopiesType ==
  ASSUME TopicType, NEW e \in Event
  PROVE  Cardinality(Copies(e)) \in Nat
<1>1. Copies(e) \subseteq 1..Len(topic) /\ IsFiniteSet(1..Len(topic))
  BY FS_Interval DEF Copies, TopicType
<1>. QED
  BY <1>1, FS_Subset, FS_CardinalityType

---------------------------------------------------------------------------
(* What a step leaves alone *)

(* Nothing the publisher does, and no failure elsewhere, disturbs what is   *)
(* known of the consumer.                                                   *)
LEMMA ConsumerUntouched ==
  ASSUME TopicType, ConsumerType, MailInv, UNCHANGED <<processed, consuming>>,
         topic' = topic \/ \E e \in Event : topic' = Append(topic, e),
         faults' \in {faults, faults + 1}
  PROVE  ConsumerType' /\ MailInv'
<1>1. /\ Len(topic) \in Nat /\ Len(topic') \in Nat
      /\ Len(topic) <= Len(topic')
      /\ \A i \in 1..Len(topic) : topic'[i] = topic[i]
  BY DEF TopicType
<1>2. UNCHANGED <<offset, consumer, processed, mails>>
  BY DEF consuming
<1>3. ConsumerType'
  BY <1>1, <1>2 DEF ConsumerType
<1>4. consumer.pc = "mailing" => Message' = Message
  BY <1>1, <1>2 DEF Message, MailInv, ConsumerType
<1>5. (Unsent \ Sending)' = Unsent \ Sending /\ Unsent' = Unsent
  BY <1>2, <1>4 DEF Unsent, Sending
<1>6. Cardinality(Unsent \ Sending) \in Nat /\ faults \in Nat
  BY EventsFinite, EventsAssumption DEF Unsent, TopicType, ConsumerType
<1>7. Cardinality((Unsent \ Sending)') <= faults'
  <2>1. Cardinality((Unsent \ Sending)') = Cardinality(Unsent \ Sending)
    BY <1>5
  <2>2. Cardinality(Unsent \ Sending) <= faults
    BY DEF MailInv
  <2>. QED
    BY <1>6, <2>1, <2>2
<1>8. MailInv'
  BY <1>1, <1>2, <1>4, <1>5, <1>7 DEF MailInv, ConsumerType
<1>. QED
  BY <1>3, <1>8

(* A step that sends nothing, and loses no account of a message but by a    *)
(* failure.                                                                 *)
LEMMA CopiesKept ==
  ASSUME TopicType, CopiesInv, UNCHANGED topic, faults' \in {faults, faults + 1},
         \A e \in Event : faults' = faults /\ Accounted(e) => Accounted(e)'
  PROVE  CopiesInv'
<1> SUFFICES ASSUME NEW e \in Event
             PROVE  Cardinality(Copies(e)') <= faults' + (IF Accounted(e)' THEN 1 ELSE 0)
  BY DEF CopiesInv
<1>1. Copies(e)' = Copies(e)
  BY DEF Copies
<1>2. Cardinality(Copies(e)) \in Nat /\ faults \in Nat
  BY CopiesType DEF TopicType
<1>3. Cardinality(Copies(e)) <= faults + (IF Accounted(e) THEN 1 ELSE 0)
  BY DEF CopiesInv
<1>4. CASE Accounted(e) /\ faults' = faults
  BY <1>1, <1>2, <1>3, <1>4
<1>5. CASE ~Accounted(e) /\ faults' = faults
  BY <1>1, <1>2, <1>3, <1>5
<1>6. CASE faults' = faults + 1
  BY <1>1, <1>2, <1>3, <1>6
<1>. QED
  BY <1>4, <1>5, <1>6

(* Nothing the consumer does disturbs what is known of the publisher.       *)
LEMMA PublisherUntouched ==
  ASSUME PublisherInv, UNCHANGED <<writes, outbox, published, publishing>>,
         faults' = faults \/ Fault
  PROVE  PublisherInv'
<1>1. UNCHANGED <<ticks, lockedBy, topic>>
  BY DEF publishing
<1>2. TopicType'
  BY <1>1, EventsAssumption DEF PublisherInv, TopicType, Fault
<1>3. RowsType' /\ TicksType' /\ OutboxInv'
  BY <1>1 DEF PublisherInv, RowsType, TicksType, OutboxInv, InTopic
<1>4. \A k \in Tick : TickInv(k)'
  BY <1>1 DEF PublisherInv, TickInv, InTopic
<1>5. CopiesInv'
  <2>1. \A e \in Event : Accounted(e) => Accounted(e)'
    BY <1>1 DEF Accounted, Sent
  <2>2. faults' \in {faults, faults + 1}
    BY DEF Fault
  <2>. QED
    BY <1>1, <2>1, <2>2, CopiesKept DEF PublisherInv
<1>. QED
  BY <1>2, <1>3, <1>4, <1>5 DEF PublisherInv

---------------------------------------------------------------------------
(* The initial state *)

(* The starting state satisfies the inductive invariant. *)
LEMMA InitIInv == Init => IInv
<1> SUFFICES ASSUME Init PROVE IInv
  OBVIOUS
<1>1. RowsType /\ TicksType /\ TopicType /\ ConsumerType
  BY EventsAssumption
     DEF Init, RowsType, TicksType, TickState, TopicType, ConsumerType, IdleTick, Booting
<1>2. (\A k \in Tick : TickInv(k)) /\ OutboxInv
  BY DEF Init, TickInv, OutboxInv, IdleTick
<1>3. Cardinality({}) = 0
  BY FS_EmptySet
<1>4. CopiesInv
  <2>1. \A e \in Event : Copies(e) = {}
    BY DEF Init, Copies
  <2>2. faults = 0
    BY DEF Init
  <2>3. ASSUME NEW e \in Event
        PROVE  Cardinality(Copies(e)) <= faults + (IF Accounted(e) THEN 1 ELSE 0)
    <3>1. Cardinality(Copies(e)) = 0
      BY <1>3, <2>1
    <3>. QED
      BY <2>2, <3>1
  <2>. QED
    BY <2>3 DEF CopiesInv
<1>5. MailInv
  <2>1. Unsent \ Sending = {}
    BY DEF Init, Unsent
  <2>2. Cardinality(Unsent \ Sending) <= faults
    <3>1. Cardinality(Unsent \ Sending) = 0
      BY <1>3, <2>1
    <3>. QED
      BY <3>1 DEF Init
  <2>. QED
    BY <2>2 DEF Init, MailInv, Booting
<1>. QED
  BY <1>1, <1>2, <1>4, <1>5 DEF IInv, PublisherInv

---------------------------------------------------------------------------
(* Business transactions *)

(* A transaction that begins, commits or is rolled back preserves the       *)
(* invariant: only a commit adds a row.                                     *)
LEMMA TransactionIInv ==
  ASSUME IInv, NEW e \in Event, Begin(e) \/ Commit(e) \/ RollBack(e)
  PROVE  IInv'
<1>1. PublisherInv /\ ConsumerType /\ MailInv
  BY DEF IInv
<1>2. /\ UNCHANGED <<published, processed, ticks, lockedBy, topic, consuming, faults>>
      /\ writes' \in [Event -> {"none", "open", "committed", "rolledBack"}]
      /\ \A d \in Event : writes[d] = "committed" => writes'[d] = "committed"
      /\ outbox' = outbox \/ (outbox' = outbox \cup {e} /\ writes'[e] = "committed")
  BY <1>1 DEF PublisherInv, RowsType, Begin, Commit, RollBack, publishing
<1>3. RowsType' /\ TicksType' /\ TopicType'
  BY <1>1, <1>2 DEF PublisherInv, RowsType, TicksType, TopicType
<1>4. \A k \in Tick : TickInv(k)'
  BY <1>1, <1>2 DEF PublisherInv, TickInv, InTopic
<1>5. OutboxInv'
  BY <1>1, <1>2 DEF PublisherInv, OutboxInv, RowsType, InTopic
<1>6. CopiesInv'
  <2>1. \A d \in Event : Accounted(d) => Accounted(d)'
    BY <1>2 DEF Accounted, Sent
  <2>. QED
    BY <1>1, <1>2, <2>1, CopiesKept DEF PublisherInv
<1>7. ConsumerType' /\ MailInv'
  BY <1>1, <1>2, ConsumerUntouched DEF PublisherInv
<1>. QED
  BY <1>3, <1>4, <1>5, <1>6, <1>7 DEF IInv, PublisherInv

---------------------------------------------------------------------------
(* The publisher *)

(* The end of publishOne leaves a run its batch, and all others theirs.     *)
LEMMA GoOnState ==
  ASSUME TicksType, NEW k \in Tick, GoOn(k)
  PROVE  /\ TicksType'
         /\ ticks'[k].pc = "scanning" /\ ticks'[k].todo = ticks[k].todo
         /\ \A j \in Tick \ {k} : ticks'[j] = ticks[j]
BY DEF TicksType, TickState, GoOn

(* A run that reads a batch, takes its next row, or waits for a lock: it    *)
(* sends nothing and marks nothing.                                         *)
LEMMA ReadingIInv ==
  ASSUME IInv, NEW k \in Tick, Scan(k) \/ NextRow(k) \/ LockRow(k)
  PROVE  IInv'
<1>1. PublisherInv /\ ConsumerType /\ MailInv
  BY DEF IInv
<1>2. /\ RowsType /\ TicksType /\ TopicType /\ OutboxInv /\ CopiesInv
      /\ \A j \in Tick : TickInv(j)
      /\ ticks[k] \in TickState
  BY <1>1 DEF PublisherInv, TicksType
<1>3. UNCHANGED <<database, topic, consuming, faults>>
  BY DEF Scan, NextRow, LockRow
<1>4. /\ RowsType' /\ TicksType'
      /\ ticks[k].pc # "sent" /\ ticks'[k].pc # "sent"
      /\ \A j \in Tick \ {k} : ticks'[j] = ticks[j]
      /\ TickInv(k)'
      /\ \A d \in Event : lockedBy'[d] = lockedBy[d] \/ lockedBy[d] = None
  <2>1. CASE Scan(k)
    <3>1. PICK batch \in Oldest(outbox \ published, BatchSize) :
            ticks' = [ticks EXCEPT ![k].pc = "scanning", ![k].todo = batch]
      BY <2>1 DEF Scan
    <3>2. batch \in Seq(outbox \ published) /\ outbox \subseteq Event
      BY <1>2, BatchType DEF RowsType
    <3>3. batch \in Seq(Event) /\ \A i \in 1..Len(batch) : batch[i] \in outbox
      BY <3>2
    <3>. QED
      BY <1>2, <1>3, <2>1, <3>1, <3>3
         DEF Scan, database, RowsType, TicksType, TickState, TickInv
  <2>2. CASE NextRow(k) /\ ticks[k].todo = <<>>
    <3>1. ticks' = [ticks EXCEPT ![k] = IdleTick] /\ UNCHANGED lockedBy
      BY <2>2 DEF NextRow
    <3>. QED
      BY <1>2, <1>3, <2>2, <3>1
         DEF NextRow, database, RowsType, TicksType, TickState, TickInv, IdleTick
  <2>3. CASE NextRow(k) /\ ticks[k].todo # <<>>
    <3>1. /\ ticks' = [ticks EXCEPT ![k] = [pc |-> "locking", todo |-> Tail(ticks[k].todo),
                                            at |-> Head(ticks[k].todo)]]
          /\ UNCHANGED lockedBy
      BY <2>3 DEF NextRow
    <3>2. ticks[k].todo \in Seq(Event) /\ \A i \in 1..Len(ticks[k].todo) : ticks[k].todo[i] \in outbox
      BY <1>2 DEF TickState, TickInv
    <3>3. /\ Tail(ticks[k].todo) \in Seq(Event) /\ Head(ticks[k].todo) \in Event \cap outbox
          /\ \A i \in 1..Len(Tail(ticks[k].todo)) : Tail(ticks[k].todo)[i] \in outbox
      BY <2>3, <3>2
    <3>. QED
      BY <1>2, <1>3, <2>3, <3>1, <3>3
         DEF NextRow, database, RowsType, TicksType, TickState, TickInv
  <2>4. CASE LockRow(k) /\ ticks[k].at \in published
    <3>1. GoOn(k) /\ UNCHANGED lockedBy /\ ticks[k].pc = "locking"
      BY <2>4 DEF LockRow
    <3>2. /\ TicksType'
          /\ ticks'[k].pc = "scanning" /\ ticks'[k].todo = ticks[k].todo
          /\ \A j \in Tick \ {k} : ticks'[j] = ticks[j]
      BY <1>2, <3>1, GoOnState
    <3>. QED
      BY <1>2, <1>3, <3>1, <3>2 DEF database, RowsType, TickInv
  <2>5. CASE LockRow(k) /\ ticks[k].at \notin published
    <3>1. ticks[k].at \in outbox /\ ticks[k].at \in Event
      BY <1>2, <2>5 DEF LockRow, TickInv, RowsType
    <3>2. /\ lockedBy[ticks[k].at] = None /\ ticks[k].pc = "locking"
          /\ ticks' = [ticks EXCEPT ![k].pc = "locked"]
          /\ lockedBy' = [lockedBy EXCEPT ![ticks[k].at] = k]
      BY <2>5 DEF LockRow, RowFree
    <3>3. /\ TicksType'
          /\ ticks'[k].pc = "locked" /\ ticks'[k].at = ticks[k].at
          /\ ticks'[k].todo = ticks[k].todo
          /\ \A j \in Tick \ {k} : ticks'[j] = ticks[j]
      BY <1>2, <3>2 DEF TicksType, TickState
    <3>4. RowsType' /\ lockedBy'[ticks[k].at] = k
      BY <1>2, <1>3, <3>1, <3>2 DEF RowsType, database
    <3>5. TickInv(k)'
      BY <1>2, <1>3, <2>5, <3>1, <3>3, <3>4 DEF TickInv, database
    <3>. QED
      BY <1>2, <3>1, <3>2, <3>3, <3>4, <3>5 DEF RowsType
  <2>. QED
    BY <2>1, <2>2, <2>3, <2>4, <2>5
<1>5. \A j \in Tick : TickInv(j)'
  <2>1. ASSUME NEW j \in Tick \ {k} PROVE TickInv(j)'
    <3>1. TickInv(j) /\ ticks'[j] = ticks[j] /\ outbox \subseteq Event /\ j # None
      BY <1>2, <1>4, EventsAssumption DEF RowsType
    <3>. QED
      BY <1>3, <1>4, <3>1 DEF TickInv, InTopic, database
  <2>. QED
    BY <1>4, <2>1
<1>6. TopicType' /\ OutboxInv'
  BY <1>2, <1>3 DEF TopicType, OutboxInv, InTopic, database
<1>7. CopiesInv'
  <2>1. \A d \in Event : Accounted(d) => Accounted(d)'
    BY <1>3, <1>4 DEF Accounted, Sent, database
  <2>. QED
    BY <1>2, <1>3, <2>1, CopiesKept
<1>8. ConsumerType' /\ MailInv'
  BY <1>1, <1>2, <1>3, ConsumerUntouched DEF database
<1>. QED
  BY <1>4, <1>5, <1>6, <1>7, <1>8 DEF IInv, PublisherInv

(* Whoever has locked a row is alone with it, and before it sends the       *)
(* message nothing accounts for one.                                        *)
LEMMA LockedRow ==
  ASSUME PublisherInv, NEW k \in Tick, ticks[k].pc \in {"locked", "sent"}
  PROVE  /\ ticks[k].at \in Event \cap outbox
         /\ lockedBy[ticks[k].at] = k /\ ticks[k].at \notin published
         /\ \A j \in Tick \ {k} :
              ticks[j].pc \in {"locked", "sent"} => ticks[j].at # ticks[k].at
         /\ ticks[k].pc = "locked" => ~Accounted(ticks[k].at)
<1>1. /\ ticks[k].at \in Event \cap outbox
      /\ lockedBy[ticks[k].at] = k /\ ticks[k].at \notin published
  BY DEF PublisherInv, TickInv, RowsType
<1>2. \A j \in Tick \ {k} : ticks[j].pc \in {"locked", "sent"} => ticks[j].at # ticks[k].at
  BY <1>1 DEF PublisherInv, TickInv
<1>. QED
  BY <1>1, <1>2 DEF Accounted, Sent

(* One more message about e: it is accounted for now, or by a failure.      *)
LEMMA CopiesSent ==
  ASSUME TopicType, CopiesInv, NEW e \in Event, ~Accounted(e), topic' = Append(topic, e),
         faults' \in {faults, faults + 1},
         faults' = faults => \A d \in Event : d = e \/ Accounted(d) => Accounted(d)'
  PROVE  CopiesInv'
<1> SUFFICES ASSUME NEW d \in Event
             PROVE  Cardinality(Copies(d)') <= faults' + (IF Accounted(d)' THEN 1 ELSE 0)
  BY DEF CopiesInv
<1>1. Cardinality(Copies(d)) \in Nat /\ faults \in Nat
  BY CopiesType DEF TopicType
<1>2. Cardinality(Copies(d)) <= faults + (IF Accounted(d) THEN 1 ELSE 0)
  BY DEF CopiesInv
<1>3. CASE d = e
  <2>1. Cardinality(Copies(d)') = Cardinality(Copies(d)) + 1
    BY <1>3, TopicGrows
  <2>2. Cardinality(Copies(d)) <= faults
    BY <1>1, <1>2, <1>3
  <2>3. CASE faults' = faults
    BY <1>1, <1>3, <2>1, <2>2, <2>3
  <2>4. CASE faults' = faults + 1
    BY <1>1, <2>1, <2>2, <2>4
  <2>. QED
    BY <2>3, <2>4
<1>4. CASE d # e
  <2>1. Cardinality(Copies(d)') = Cardinality(Copies(d))
    BY <1>4, TopicGrows
  <2>2. CASE faults' = faults /\ Accounted(d)
    BY <1>1, <1>2, <2>1, <2>2
  <2>3. CASE faults' = faults /\ ~Accounted(d)
    BY <1>1, <1>2, <2>1, <2>3
  <2>4. CASE faults' = faults + 1
    BY <1>1, <1>2, <2>1, <2>4
  <2>. QED
    BY <2>2, <2>3, <2>4
<1>. QED
  BY <1>3, <1>4

(* A message of a row of the outbox is no phantom.                          *)
LEMMA OutboxSent ==
  ASSUME TopicType, OutboxInv, NEW e \in Event \cap outbox, topic' = Append(topic, e),
         UNCHANGED <<writes, outbox, published>>, published \subseteq Event
  PROVE  OutboxInv'
<1>1. /\ Len(topic) \in Nat /\ Len(topic') = Len(topic) + 1
      /\ \A i \in 1..Len(topic) : topic'[i] = topic[i]
      /\ topic'[Len(topic) + 1] = e
      /\ \A d \in Event : InTopic(d) => InTopic(d)'
  BY TopicGrows DEF TopicType
<1>2. \A i \in 1..Len(topic') : i \in 1..Len(topic) \/ i = Len(topic) + 1
  BY <1>1
<1>. QED
  BY <1>1, <1>2 DEF OutboxInv

(* A message acknowledged by the broker preserves the invariant.            *)
LEMMA SendIInv ==
  ASSUME IInv, NEW k \in Tick, Send(k)
  PROVE  IInv'
<1>1. /\ PublisherInv /\ ConsumerType /\ MailInv
      /\ RowsType /\ TicksType /\ TopicType /\ OutboxInv /\ CopiesInv
      /\ \A j \in Tick : TickInv(j)
  BY DEF IInv, PublisherInv
<1>0. PICK e \in Event : e = ticks[k].at
  BY <1>1, LockedRow DEF Send
<1>2. /\ ticks[k].pc = "locked" /\ topic' = Append(topic, e)
      /\ UNCHANGED <<writes, outbox, published, processed, lockedBy, consuming, faults>>
  BY <1>0 DEF Send, database
<1>3. /\ TicksType'
      /\ ticks'[k].pc = "sent" /\ ticks'[k].at = e /\ ticks'[k].todo = ticks[k].todo
      /\ \A j \in Tick \ {k} : ticks'[j] = ticks[j]
  BY <1>0, <1>1 DEF Send, TicksType, TickState
<1>4. e \in Event \cap outbox /\ e \notin published /\ lockedBy[e] = k /\ ~Accounted(e)
  BY <1>0, <1>1, <1>2, LockedRow
<1>5. RowsType' /\ TopicType' /\ OutboxInv'
  BY <1>1, <1>2, <1>4, TopicGrows, OutboxSent DEF RowsType, TopicType
<1>6. InTopic(e)' /\ \A d \in Event : InTopic(d) => InTopic(d)'
  BY <1>1, <1>2, <1>4, TopicGrows
<1>7. \A j \in Tick : TickInv(j)'
  <2>1. TickInv(k)'
    BY <1>1, <1>2, <1>3, <1>4, <1>6 DEF TickInv
  <2>2. ASSUME NEW j \in Tick \ {k} PROVE TickInv(j)'
    BY <1>1, <1>2, <1>3, <1>6 DEF TickInv, RowsType
  <2>. QED
    BY <2>1, <2>2
<1>8. CopiesInv'
  <2>1. \A d \in Event : d = e \/ Accounted(d) => Accounted(d)'
    BY <1>2, <1>3 DEF Accounted, Sent
  <2>. QED
    BY <1>1, <1>2, <1>4, <2>1, CopiesSent
<1>9. ConsumerType' /\ MailInv'
  BY <1>1, <1>2, <1>4, ConsumerUntouched
<1>. QED
  BY <1>3, <1>5, <1>7, <1>8, <1>9 DEF IInv, PublisherInv

(* The end of a publication, with published_at set or rolled back with the  *)
(* message sent or not, preserves the invariant.                            *)
LEMMA EndIInv ==
  ASSUME IInv, NEW k \in Tick, MarkPublished(k) \/ PublishFails(k)
  PROVE  IInv'
<1>1. /\ PublisherInv /\ ConsumerType /\ MailInv
      /\ RowsType /\ TicksType /\ TopicType /\ OutboxInv /\ CopiesInv
      /\ \A j \in Tick : TickInv(j)
  BY DEF IInv, PublisherInv
<1>2. PICK e \in Event : e = ticks[k].at
  BY <1>1, LockedRow DEF MarkPublished, PublishFails
<1>3. /\ ticks[k].pc \in {"locked", "sent"}
      /\ GoOn(k) /\ lockedBy' = [lockedBy EXCEPT ![e] = None]
      /\ UNCHANGED <<writes, outbox, processed, consuming>>
  BY <1>2 DEF MarkPublished, PublishFails, Unlock, database
<1>4. /\ e \in outbox /\ e \notin published /\ lockedBy[e] = k
      /\ \A j \in Tick \ {k} : ticks[j].pc \in {"locked", "sent"} => ticks[j].at # e
      /\ ticks[k].pc = "locked" => ~Accounted(e)
  BY <1>1, <1>2, <1>3, LockedRow
<1>5. /\ TicksType'
      /\ ticks'[k].pc = "scanning" /\ ticks'[k].todo = ticks[k].todo
      /\ \A j \in Tick \ {k} : ticks'[j] = ticks[j]
  BY <1>1, <1>3, GoOnState
<1>6. \/ /\ topic' = topic /\ faults' = faults /\ ticks[k].pc = "sent"
         /\ published' = published \cup {e}
      \/ /\ topic' = topic /\ Fault /\ published' = published
      \/ /\ topic' = Append(topic, e) /\ Fault /\ published' = published
         /\ ticks[k].pc = "locked"
  BY <1>2 DEF MarkPublished, PublishFails, database
<1>7. RowsType' /\ published' \subseteq published \cup {e}
  BY <1>1, <1>3, <1>4, <1>6 DEF RowsType
<1>8. TopicType' /\ faults' \in {faults, faults + 1} /\ faults \in Nat
  BY <1>1, <1>6, TopicGrows, EventsAssumption DEF TopicType, Fault
<1>9. \A d \in Event : InTopic(d) => InTopic(d)'
  BY <1>1, <1>6, TopicGrows DEF InTopic
<1>10. \A j \in Tick : TickInv(j)'
  <2>1. TickInv(k)'
    BY <1>1, <1>3, <1>5 DEF TickInv
  <2>2. ASSUME NEW j \in Tick \ {k} PROVE TickInv(j)'
    <3>1. ticks'[j] = ticks[j] /\ TickInv(j) /\ outbox \subseteq Event
      BY <1>1, <1>5 DEF RowsType
    <3>. QED
      BY <1>1, <1>3, <1>4, <1>7, <1>9, <3>1 DEF TickInv, RowsType
  <2>. QED
    BY <2>1, <2>2
<1>11. OutboxInv'
  <2>1. CASE topic' = topic
    <3>1. ticks[k].pc = "sent" => InTopic(e)
      BY <1>1, <1>2 DEF TickInv
    <3>. QED
      BY <1>1, <1>3, <1>4, <1>6, <2>1, <3>1 DEF OutboxInv, InTopic
  <2>2. CASE topic' = Append(topic, e) /\ published' = published
    BY <1>1, <1>3, <1>4, <2>2, OutboxSent DEF RowsType
  <2>. QED
    BY <1>6, <2>1, <2>2
<1>12. CopiesInv'
  <2>1. CASE topic' = topic /\ faults' = faults /\ published' = published \cup {e}
    <3>1. \A d \in Event : Accounted(d) => Accounted(d)'
      BY <1>2, <1>5, <2>1 DEF Accounted, Sent
    <3>. QED
      BY <1>1, <1>8, <2>1, <3>1, CopiesKept
  <2>2. CASE topic' = topic /\ Fault
    BY <1>1, <1>8, <2>2, CopiesKept DEF Fault
  <2>3. CASE topic' = Append(topic, e) /\ Fault /\ ticks[k].pc = "locked"
    BY <1>1, <1>4, <1>8, <2>3, CopiesSent DEF Fault
  <2>. QED
    BY <1>6, <2>1, <2>2, <2>3
<1>13. ConsumerType' /\ MailInv'
  BY <1>1, <1>3, <1>6, <1>8, ConsumerUntouched
<1>. QED
  BY <1>5, <1>7, <1>8, <1>10, <1>11, <1>12, <1>13 DEF IInv, PublisherInv

---------------------------------------------------------------------------
(* The consumer *)

(* One more element at most is one more at most.                            *)
LEMMA OneMore ==
  ASSUME NEW S \in SUBSET Event, NEW T \in SUBSET Event, NEW e, T \subseteq S \cup {e}
  PROVE  Cardinality(T) <= Cardinality(S) + 1
<1>1. IsFiniteSet(S) /\ Cardinality(S) \in Nat /\ Cardinality(T) \in Nat
  BY EventsFinite
<1>2. /\ IsFiniteSet(S \cup {e})
      /\ Cardinality(S \cup {e}) = Cardinality(S) \/ Cardinality(S \cup {e}) = Cardinality(S) + 1
  BY <1>1, FS_AddElement
<1>3. Cardinality(T) <= Cardinality(S \cup {e})
  BY <1>2, FS_Subset
<1>. QED
  BY <1>1, <1>2, <1>3

(* Subscribing, being given up, taking the next message and committing the  *)
(* offset preserve the invariant: no mail is on its way before or after.    *)
LEMMA PollIInv ==
  ASSUME IInv, Subscribe \/ ResubscribeFails \/ Deliver \/ CommitOffset
  PROVE  IInv'
<1>1. PublisherInv /\ TopicType /\ ConsumerType /\ MailInv
  BY DEF IInv, PublisherInv
<1>2. /\ UNCHANGED <<database, publishing, mails>>
      /\ consumer.pc \in {"booting", "polling", "crashed"}
      /\ consumer'.pc \in {"polling", "claiming", "stopped"}
      /\ faults' = faults \/ Fault
  BY <1>1 DEF Subscribe, ResubscribeFails, Deliver, CommitOffset, ConsumerType
<1>3. UNCHANGED <<writes, outbox, published, processed, topic, mails>>
  BY <1>2 DEF database, publishing
<1>4. PublisherInv'
  BY <1>1, <1>2, <1>3, PublisherUntouched
<1>5. ConsumerType' /\ (consumer'.pc = "claiming" => consumer'.position < Len(topic'))
  <2>1. Len(topic) \in Nat
    BY <1>1 DEF TopicType
  <2>. QED
    BY <1>1, <1>3, <2>1
       DEF ConsumerType, MailInv, Subscribe, ResubscribeFails, Deliver, CommitOffset
<1>6. (Unsent \ Sending)' = Unsent \ Sending
  BY <1>2, <1>3 DEF Unsent, Sending
<1>7. MailInv'
  <2>1. Cardinality((Unsent \ Sending)') = Cardinality(Unsent \ Sending)
    BY <1>6
  <2>2. /\ Cardinality(Unsent \ Sending) <= faults
        /\ Cardinality(Unsent \ Sending) \in Nat /\ faults \in Nat
    BY <1>1, EventsFinite DEF MailInv, Unsent, ConsumerType, TopicType
  <2>3. Cardinality((Unsent \ Sending)') <= faults'
    BY <1>2, <2>1, <2>2 DEF Fault
  <2>. QED
    BY <1>1, <1>2, <1>3, <1>5, <2>3 DEF MailInv
<1>. QED
  BY <1>4, <1>5, <1>7 DEF IInv

(* A claim that goes on to the mail, or to the next message, preserves the  *)
(* invariant, and so does the mail.                                         *)
LEMMA HandleIInv ==
  ASSUME IInv, Claim \/ SendMail
  PROVE  IInv'
<1>1. PublisherInv /\ TopicType /\ ConsumerType /\ MailInv
  BY DEF IInv, PublisherInv
<1>2. /\ UNCHANGED <<writes, outbox, published, publishing, topic, offset, faults>>
      /\ consumer.pc \in {"claiming", "mailing"}
  BY DEF Claim, SendMail, database, publishing
<1>3. PublisherInv'
  BY <1>1, <1>2, PublisherUntouched
<1>4. /\ Len(topic) \in Nat /\ consumer.position \in 0..(Len(topic) - 1)
      /\ Message \in Event
  BY <1>1, <1>2 DEF TopicType, ConsumerType, MailInv, Message
<1>5. PICK e \in Event : e = Message
  BY <1>4
<1>6. /\ Cardinality(Unsent \ Sending) <= faults
      /\ \A d \in Event : mails[d] <= 1 /\ (mails[d] # 0 => d \in processed)
      /\ mails \in [Event -> Nat] /\ processed \subseteq Event
  BY <1>1 DEF MailInv, ConsumerType
<1>7. CASE Claim /\ e \in Addressed \ processed
  <2>1. /\ processed' = processed \cup {e} /\ mails' = mails
        /\ consumer.pc = "claiming" /\ consumer' = [consumer EXCEPT !.pc = "mailing"]
    BY <1>5, <1>7 DEF Claim
  <2>2. /\ ConsumerType' /\ consumer'.pc = "mailing" /\ consumer'.position < Len(topic')
        /\ Message' = e
    BY <1>1, <1>2, <1>4, <1>5, <2>1 DEF ConsumerType, Message
  <2>3. mails[e] = 0 /\ e \notin Unsent
    BY <1>6, <1>7 DEF Unsent
  <2>4. Unsent' = Unsent \cup {e} /\ Sending' = {e} /\ Sending = {}
    BY <1>7, <2>1, <2>2, <2>3 DEF Unsent, Sending
  <2>5. Cardinality((Unsent \ Sending)') = Cardinality(Unsent \ Sending)
    <3>1. (Unsent \ Sending)' = Unsent \ Sending
      BY <2>3, <2>4
    <3>. QED
      BY <3>1
  <2>6. MailInv'
    BY <1>2, <1>6, <2>1, <2>2, <2>4, <2>5 DEF MailInv
  <2>. QED
    BY <1>3, <2>2, <2>6 DEF IInv
<1>8. CASE Claim /\ e \notin Addressed \ processed
  <2>1. /\ processed' = processed \cup {e} /\ mails' = mails
        /\ consumer.pc = "claiming" /\ NextMessage
    BY <1>5, <1>8 DEF Claim
  <2>2. ConsumerType' /\ consumer'.pc = "polling"
    BY <1>1, <1>2, <1>4, <2>1 DEF ConsumerType, NextMessage
  <2>3. Unsent' = Unsent /\ Sending' = {} /\ Sending = {}
    BY <1>8, <2>1, <2>2 DEF Unsent, Sending
  <2>4. Cardinality((Unsent \ Sending)') = Cardinality(Unsent \ Sending)
    BY <2>3
  <2>5. MailInv'
    BY <1>2, <1>6, <2>1, <2>2, <2>4 DEF MailInv
  <2>. QED
    BY <1>3, <2>2, <2>5 DEF IInv
<1>9. CASE SendMail
  <2>1. /\ processed' = processed /\ mails' = [mails EXCEPT ![e] = @ + 1]
        /\ consumer.pc = "mailing" /\ NextMessage
    BY <1>5, <1>9 DEF SendMail, database
  <2>2. ConsumerType' /\ consumer'.pc = "polling"
    BY <1>1, <1>2, <1>4, <1>6, <2>1 DEF ConsumerType, NextMessage
  <2>3. e \in Unsent /\ mails[e] = 0 /\ mails'[e] = 1
    BY <1>1, <1>5, <1>6, <2>1 DEF MailInv, Unsent
  <2>4. \A d \in Event : d # e => mails'[d] = mails[d]
    BY <1>6, <2>1
  <2>5. Unsent' = Unsent \ {e} /\ Sending' = {} /\ Sending = {e}
    BY <1>5, <1>6, <2>1, <2>2, <2>3, <2>4 DEF Unsent, Sending
  <2>6. Cardinality((Unsent \ Sending)') = Cardinality(Unsent \ Sending)
    <3>1. (Unsent \ Sending)' = Unsent \ Sending
      BY <2>5
    <3>. QED
      BY <3>1
  <2>7. MailInv'
    <3>1. \A d \in Event : mails'[d] <= 1 /\ (mails'[d] # 0 => d \in processed')
      BY <1>6, <2>1, <2>3, <2>4 DEF Unsent
    <3>. QED
      BY <1>2, <1>6, <2>2, <2>6, <3>1 DEF MailInv
  <2>. QED
    BY <1>3, <2>2, <2>7 DEF IInv
<1>. QED
  BY <1>7, <1>8, <1>9

(* A failure of the consumer, or the end of the process, leaves at most one *)
(* more claimed event without its mail.                                     *)
LEMMA OneMoreUnsent ==
  ASSUME ConsumerType, TopicType, MailInv, Fault, NEW e,
         (Unsent \ Sending)' \subseteq (Unsent \ Sending) \cup {e}, processed' \subseteq Event
  PROVE  Cardinality((Unsent \ Sending)') <= faults'
<1> DEFINE S == Unsent \ Sending
<1>1. PICK T : T = S'
  OBVIOUS
<1>2. S \in SUBSET Event /\ T \in SUBSET Event /\ T \subseteq S \cup {e}
  BY <1>1 DEF Unsent, ConsumerType
<1>3. Cardinality(T) <= Cardinality(S) + 1 /\ Cardinality(T) \in Nat /\ Cardinality(S) \in Nat
  BY <1>2, OneMore, EventsFinite
<1>4. Cardinality(S) <= faults /\ faults \in Nat /\ faults' = faults + 1
  BY DEF MailInv, TopicType, Fault
<1>. QED
  BY <1>1, <1>3, <1>4

(* A claim or a mail that throws, with or without effect, preserves the     *)
(* invariant.                                                               *)
LEMMA FailIInv ==
  ASSUME IInv, HandleFails
  PROVE  IInv'
<1>1. PublisherInv /\ TopicType /\ ConsumerType /\ MailInv
  BY DEF IInv, PublisherInv
<1>2. /\ UNCHANGED <<writes, outbox, published, publishing, topic, offset>> /\ Fault
      /\ consumer' = [consumer EXCEPT !.pc = "crashed"]
  BY DEF HandleFails, publishing
<1>3. PublisherInv'
  BY <1>1, <1>2, PublisherUntouched
<1>4. PICK e \in Event : e = Message
  BY <1>1 DEF TopicType, ConsumerType, MailInv, Message, HandleFails
<1>5. \/ /\ consumer.pc = "claiming" /\ mails' = mails
         /\ processed' = processed \/ processed' = processed \cup {e}
      \/ /\ consumer.pc = "mailing" /\ processed' = processed
         /\ mails' = mails \/ mails' = [mails EXCEPT ![e] = @ + 1]
  BY <1>4 DEF HandleFails
<1>6. ConsumerType' /\ consumer'.pc = "crashed"
  BY <1>1, <1>2, <1>5 DEF ConsumerType
<1>7. \A d \in Event : mails'[d] <= 1 /\ (mails'[d] # 0 => d \in processed')
  <2>1. /\ \A d \in Event : mails[d] <= 1 /\ (mails[d] # 0 => d \in processed)
        /\ mails \in [Event -> Nat]
    BY <1>1 DEF MailInv, ConsumerType
  <2>2. consumer.pc = "mailing" => mails[e] = 0 /\ e \in processed
    BY <1>1, <1>4 DEF MailInv, Unsent
  <2>. QED
    BY <1>5, <2>1, <2>2
<1>8. (Unsent \ Sending)' \subseteq (Unsent \ Sending) \cup {e}
  <2>1. Sending' = {} /\ Sending \subseteq {e}
    BY <1>4, <1>6 DEF Sending
  <2>2. \A d \in Event : mails'[d] = 0 => mails[d] = 0
    BY <1>1, <1>5 DEF ConsumerType
  <2>3. processed' \subseteq processed \cup {e} /\ processed' \subseteq Event
    BY <1>1, <1>5 DEF ConsumerType
  <2>. QED
    BY <2>1, <2>2, <2>3 DEF Unsent
<1>9. Cardinality((Unsent \ Sending)') <= faults'
  BY <1>1, <1>2, <1>6, <1>8, OneMoreUnsent DEF ConsumerType
<1>. QED
  BY <1>3, <1>6, <1>7, <1>9 DEF IInv, MailInv

---------------------------------------------------------------------------
(* The process *)

(* A restart preserves the invariant: it drops locks and open transactions, *)
(* and the mail that was on its way.                                        *)
LEMMA RestartIInv ==
  ASSUME IInv, Restart
  PROVE  IInv'
<1>1. /\ PublisherInv /\ ConsumerType /\ MailInv
      /\ RowsType /\ TicksType /\ TopicType /\ OutboxInv /\ CopiesInv
  BY DEF IInv, PublisherInv
<1>2. /\ UNCHANGED <<outbox, published, processed, topic, offset, mails>> /\ Fault
      /\ ticks' = [k \in Tick |-> IdleTick]
      /\ writes' = [e \in Event |-> IF writes[e] = "open" THEN "rolledBack" ELSE writes[e]]
      /\ lockedBy' = [e \in Event |-> None]
      /\ consumer' = Booting
  BY DEF Restart
<1>3. RowsType' /\ TicksType' /\ TopicType' /\ ConsumerType'
  <2>1. RowsType'
    BY <1>1, <1>2 DEF RowsType
  <2>2. TicksType'
    BY <1>2 DEF TicksType, TickState, IdleTick
  <2>3. TopicType' /\ ConsumerType'
    BY <1>1, <1>2, EventsAssumption DEF TopicType, ConsumerType, Fault, Booting
  <2>. QED
    BY <2>1, <2>2, <2>3
<1>4. \A k \in Tick : TickInv(k)'
  BY <1>2 DEF TickInv, IdleTick
<1>5. OutboxInv'
  BY <1>1, <1>2 DEF OutboxInv, RowsType, InTopic
<1>6. CopiesInv'
  <2>1. faults' = faults + 1 /\ faults \in Nat
    BY <1>1, <1>2 DEF Fault, TopicType
  <2>. QED
    BY <1>1, <1>2, <2>1, CopiesKept
<1>7. MailInv'
  <2>1. consumer'.pc = "booting" /\ Sending' = {}
    BY <1>2 DEF Sending, Booting
  <2>2. (Unsent \ Sending)' \subseteq (Unsent \ Sending) \cup {Message}
    BY <1>2, <2>1 DEF Unsent, Sending
  <2>3. Cardinality((Unsent \ Sending)') <= faults'
    BY <1>1, <1>2, <1>3, <2>2, OneMoreUnsent DEF ConsumerType
  <2>. QED
    BY <1>1, <1>2, <2>1, <2>3 DEF MailInv
<1>. QED
  BY <1>3, <1>4, <1>5, <1>6, <1>7 DEF IInv, PublisherInv

---------------------------------------------------------------------------
(* The theorems *)

(* Every step of Next, or none, preserves the invariant. *)
LEMMA NextIInv == IInv /\ [Next]_vars => IInv'
<1> SUFFICES ASSUME IInv, [Next]_vars PROVE IInv'
  OBVIOUS
<1>1. CASE UNCHANGED vars
  <2>1. /\ UNCHANGED <<writes, outbox, published, publishing, processed, consuming, topic, faults>>
    BY <1>1 DEF vars, publishing, consuming
  <2>. QED
    BY <2>1, PublisherUntouched, ConsumerUntouched DEF IInv, PublisherInv, TopicType
<1>2. CASE Finished
  <2>1. UNCHANGED vars
    BY <1>2 DEF Finished
  <2>. QED
    BY <1>1, <2>1
<1>. QED
  BY <1>1, <1>2, TransactionIInv, ReadingIInv, SendIInv, EndIInv, PollIInv, HandleIInv,
     FailIInv, RestartIInv
     DEF Next, TickStep, ConsumerStep

(* The invariant holds in every state of every execution. *)
THEOREM InductiveInvariant == Spec => []IInv
<1>1. QED
  BY InitIInv, NextIInv, PTL DEF Spec

(* Every variable has its type: the rows, the runs of the publisher, the    *)
(* topic, the consumer and its offset (Events!TypeOK).                      *)
THEOREM TypeCorrect == Spec => []TypeOK
<1>1. IInv => TypeOK
  BY DEF IInv, PublisherInv, RowsType, TicksType, TickState, TopicType, ConsumerType, TypeOK
<1>. QED
  BY <1>1, InductiveInvariant, PTL

(* However the batches of the publisher overlap, and whatever fails, every  *)
(* event in the topic is of a transaction that committed, and no row is     *)
(* marked published without its message (outbox-publisher.service.ts).      *)
THEOREM OutboxFaithful == Spec => []NeitherLostNorPhantom
<1>1. IInv => NeitherLostNorPhantom
  <2> SUFFICES ASSUME IInv PROVE NeitherLostNorPhantom
    OBVIOUS
  <2>1. OutboxInv /\ topic \in Seq(Event)
    BY DEF IInv, PublisherInv, TopicType
  <2>. QED
    BY <2>1 DEF OutboxInv, NeitherLostNorPhantom, InTopic
<1>. QED
  BY <1>1, InductiveInvariant, PTL

(* The row lock and the second look at published_at leave failures as the   *)
(* only source of duplicates: with n failures, no event is in the topic     *)
(* more than n + 1 times (publishOne).                                      *)
THEOREM DuplicatesBounded == Spec => []DuplicatesAreCharged
<1>1. IInv => DuplicatesAreCharged
  <2> SUFFICES ASSUME IInv, NEW e \in Event
               PROVE  Cardinality(Copies(e)) <= 1 + faults
    BY DEF DuplicatesAreCharged, Copies
  <2>1. TopicType /\ CopiesInv
    BY DEF IInv, PublisherInv
  <2>2. Cardinality(Copies(e)) <= faults + (IF Accounted(e) THEN 1 ELSE 0)
    BY <2>1 DEF CopiesInv
  <2>3. Cardinality(Copies(e)) \in Nat /\ faults \in Nat
    BY <2>1, CopiesType DEF TopicType
  <2>. QED
    BY <2>2, <2>3
<1>. QED
  BY <1>1, InductiveInvariant, PTL

(* Claiming an event before its mail gives nobody two emails, and takes one *)
(* from somebody only for a failure of the consumer or of the process       *)
(* (notifications-consumer.service.ts).                                     *)
THEOREM EmailsOnce == Spec => []EmailsFollowClaims
<1>1. IInv => EmailsFollowClaims
  BY DEF IInv, MailInv, EmailsFollowClaims, Unsent, Sending
<1>. QED
  BY <1>1, InductiveInvariant, PTL
=============================================================================
