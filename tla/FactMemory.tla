----------------------------- MODULE FactMemory -----------------------------
(***************************************************************************)
(* Long-term memory of the agent: facts extracted from conversations are   *)
(* written to Postgres together with outbox events, a dispatcher publishes *)
(* the events to Kafka, a consumer writes the facts' vectors to Qdrant.    *)
(*                                                                         *)
(* Writers are the extraction goroutines of ChatWithAgent, one fact each.  *)
(* Every agent process runs a dispatcher; dispatchers take no lease.  The  *)
(* topic's balancer puts a record in any partition, and each partition has *)
(* its own consumer.  Confidence is in tenths.                             *)
(***************************************************************************)
EXTENDS Integers, Sequences, FiniteSets, SequencesExt

CONSTANTS
    Writers, Dispatchers, Partitions,
    ConflictKeys,       \* conflict keys of one user's preferences
    None,               \* no conflict key
    Inputs,             \* facts the extractor may report: key and confidence
    Seed,               \* the fact the user already has
    Batch,              \* limit of ListPendingOutbox
    MaxFaults           \* failed calls and crashes

ASSUME MemoryAssumption ==
    /\ Inputs \cup {Seed} \subseteq [key : ConflictKeys \cup {None}, confidence : 5..10]
    /\ Batch \in Nat \ {0}
    /\ MaxFaults \in Nat
    /\ None \notin ConflictKeys /\ None \notin Writers

VARIABLES
    facts,      \* table user_facts, by id
    outbox,     \* table outbox_events, by id
    locked,     \* advisory lock of each conflict key: its holder or None
    writer,     \* the transaction of each writer
    topic,      \* records of each partition from the committed offset on, each
                \* the id of an event
    published,  \* history: the events that have a record in the topic
    disp,       \* the batch of each dispatcher
    cons,       \* the consumer of each partition
    vector,     \* is_active of the points in Qdrant
    faults

vars == <<facts, outbox, locked, writer, topic, published, disp, cons, vector, faults>>

tables == <<facts, outbox>>
kafka  == <<topic, published>>

-----------------------------------------------------------------------------
\* The user has one fact, published and indexed.
Init ==
    /\ facts = <<[key |-> Seed.key, confidence |-> Seed.confidence, active |-> TRUE,
                  supersedes |-> 0, index |-> "done"]>>
    /\ outbox = <<[fact |-> 1, active |-> TRUE, status |-> 1]>>
    /\ locked = [k \in ConflictKeys |-> None]
    /\ writer = [w \in Writers |-> [at |-> "start", input |-> None, old |-> 0]]
    /\ topic = [p \in Partitions |-> <<>>]
    /\ published = {1}
    /\ cons = [p \in Partitions |-> [at |-> "fetch", next |-> 1]]
    /\ disp = [d \in Dispatchers |-> [at |-> "idle", ids |-> <<>>]]
    /\ vector = <<TRUE>>
    /\ faults = 0

Fault == faults < MaxFaults /\ faults' = faults + 1

-----------------------------------------------------------------------------
(* ResolveFactWithOutbox.                                                  *)

\* sourcePriority: facts of conversations all have the source "conversation".
sourcePriority(fact) == 2

shouldSupersede(old, input) ==
    /\ input.confidence >= 7
    /\ \/ input.confidence >= old.confidence
       \/ sourcePriority(input) > sourcePriority(old)

\* The active facts of the key that may come first: of the greatest confidence,
\* the one updated last.  That may be any of them, since the indexer's
\* UpdateFactIndexStatus touches updated_at too; 0 stands for no fact.
ActiveOf(key) == {i \in DOMAIN facts : facts[i].active /\ facts[i].key = key}
First(ids) ==
    IF ids = {} THEN {0}
    ELSE {i \in ids : \A j \in ids : facts[i].confidence >= facts[j].confidence}

InConflict(input) == IF input.key = None THEN {0} ELSE First(ActiveOf(input.key))

\* gorm's Create of a row: a false is_active is taken for unset, and the
\* column's default, true, is written to the row and to the struct.
Created(fact) == [fact EXCEPT !.active = TRUE]

\* createFactOutbox.
Event(id, active) == [fact |-> id, active |-> active, status |-> 0]

\* The same without the advisory lock.
FindOldUnlocked(w, input) ==
    /\ writer[w].at = "start"
    /\ \E old \in InConflict(input) :
         writer' = [writer EXCEPT ![w] = [at |-> "write", input |-> input, old |-> old]]
    /\ UNCHANGED <<tables, locked, kafka, disp, cons, vector, faults>>

\* The transaction begins: a preference with a conflict key takes the lock of
\* the key and finds the active fact it is in conflict with.  (Only holders of
\* the lock change that fact's columns, so the two statements are one step.)
FindOld(w, input) ==
    /\ writer[w].at = "start"
    /\ \/ input.key = None /\ UNCHANGED locked
       \/ /\ input.key # None
          /\ locked[input.key] = None
          /\ locked' = [locked EXCEPT ![input.key] = w]
    /\ \E old \in InConflict(input) :
         writer' = [writer EXCEPT ![w] = [at |-> "write", input |-> input, old |-> old]]
    /\ UNCHANGED <<tables, kafka, disp, cons, vector, faults>>

Unlocked(key) == IF key = None THEN locked ELSE [locked EXCEPT ![key] = None]

\* The events of a transaction: the new fact's and the superseded one's.
NewEventOnly(id, active, superseded) == <<Event(id, active)>>

NewEvents(id, active, superseded) ==
    <<Event(id, active)>>
      \o (IF superseded = 0 THEN <<>> ELSE <<Event(superseded, FALSE)>>)

\* The new fact and its event, the superseded fact and its event; commit.
WriteFact(w) ==
    LET input == writer[w].input
        old   == writer[w].old
        supersedes == old # 0 /\ shouldSupersede(facts[old], input)
        fact  == Created([key |-> input.key, confidence |-> input.confidence,
                          active |-> old = 0 \/ supersedes,
                          supersedes |-> IF supersedes THEN old ELSE 0,
                          index |-> "pending"])
    IN  /\ writer[w].at = "write"
        /\ facts' = Append(IF supersedes
                           THEN [facts EXCEPT ![old] = [facts[old] EXCEPT
                                     !.active = FALSE, !.index = "pending"]]
                           ELSE facts, fact)
        /\ outbox' = outbox \o NewEvents(Len(facts) + 1, fact.active, fact.supersedes)
        /\ locked' = Unlocked(input.key)
        /\ writer' = [writer EXCEPT ![w].at = "done"]
        /\ UNCHANGED <<kafka, disp, cons, vector, faults>>

\* A statement fails: the transaction rolls back, the fact is dropped.
Rollback(w) ==
    /\ writer[w].at = "write"
    /\ Fault
    /\ locked' = Unlocked(writer[w].input.key)
    /\ writer' = [writer EXCEPT ![w].at = "done"]
    /\ UNCHANGED <<tables, kafka, disp, cons, vector>>

-----------------------------------------------------------------------------
(* dispatchBatch, run by the ticker.                                       *)

\* Failed events left out.
PendingNew == {i \in DOMAIN outbox : outbox[i].status = 0}

Pending == {i \in DOMAIN outbox : outbox[i].status \in {0, 2}}

\* ORDER BY id ASC LIMIT: the first events by id.
FirstPending == {i \in Pending : Cardinality({j \in Pending : j < i}) < Batch}

\* Lists of events of X, ascending by id.
Ascending(X) ==
    {s \in SeqOf(X, Cardinality(X)) : \A i, j \in DOMAIN s : i < j => s[i] < s[j]}

ListPendingOutbox(d) ==
    /\ disp[d].at = "idle"
    /\ Pending # {}
    /\ \E ids \in Ascending(FirstPending) :
         /\ ToSet(ids) = FirstPending
         /\ disp' = [disp EXCEPT ![d] = [at |-> "write", ids |-> ids]]
    /\ UNCHANGED <<tables, locked, writer, kafka, cons, vector, faults>>

\* Records of a batch with the events X, each appended to one partition, in the
\* order of the batch.
Records(X) ==
    {add \in [Partitions -> Ascending(X)] :
        \A p, q \in Partitions : p # q => ToSet(add[p]) \cap ToSet(add[q]) = {}}
Landed(add) == UNION {ToSet(add[p]) : p \in Partitions}

AppendRecords(add) ==
    /\ topic' = [p \in Partitions |-> topic[p] \o add[p]]
    /\ published' = published \cup Landed(add)

WriteMessages(d) ==
    /\ disp[d].at = "write"
    /\ \E add \in Records(ToSet(disp[d].ids)) :
         Landed(add) = ToSet(disp[d].ids) /\ AppendRecords(add)
    /\ disp' = [disp EXCEPT ![d].at = "sent"]
    /\ UNCHANGED <<tables, locked, writer, cons, vector, faults>>

\* The write fails, with some of the records in the topic all the same.
WriteMessagesFail(d) ==
    /\ disp[d].at = "write"
    /\ Fault
    /\ \E add \in Records(ToSet(disp[d].ids)) : AppendRecords(add)
    /\ disp' = [disp EXCEPT ![d].at = "failed"]
    /\ UNCHANGED <<tables, locked, writer, cons, vector>>

\* On to the next event of the batch; behind the last one the loop lists
\* again, or waits for the next tick.
Marked(d) ==
    disp' = [disp EXCEPT ![d] =
        [at |-> IF Len(disp[d].ids) = 1 THEN "idle" ELSE disp[d].at,
         ids |-> Tail(disp[d].ids)]]

\* MarkOutboxSent, MarkOutboxFailed of the next event of the batch.
Mark(d) ==
    /\ disp[d].at \in {"sent", "failed"}
    /\ outbox' = [outbox EXCEPT ![Head(disp[d].ids)].status =
                     IF disp[d].at = "sent" THEN 1 ELSE 2]
    /\ Marked(d)
    /\ UNCHANGED <<facts, locked, writer, kafka, cons, vector, faults>>

\* The mark fails and is logged: the event keeps its status.
MarkFail(d) ==
    /\ disp[d].at \in {"sent", "failed"}
    /\ Fault
    /\ Marked(d)
    /\ UNCHANGED <<tables, locked, writer, kafka, cons, vector>>

\* The process stops and starts again.
DispatcherCrash(d) ==
    /\ disp[d].at # "idle"
    /\ Fault
    /\ disp' = [disp EXCEPT ![d] = [at |-> "idle", ids |-> <<>>]]
    /\ UNCHANGED <<tables, locked, writer, kafka, cons, vector>>

-----------------------------------------------------------------------------
(* RunFactIndexerConsumer.                                                 *)

Current(p) == outbox[topic[p][cons[p].next]]

Move(p, at) == cons' = [cons EXCEPT ![p].at = at]

\* continue: on to the next record, without a commit.
SkipRecord(p) == cons' = [cons EXCEPT ![p].at = "fetch", ![p].next = cons[p].next + 1]

SetIndex(id, status) == facts' = [facts EXCEPT ![id].index = status]

\* FetchMessage returned the record at next.
Fetched(p) == cons[p].at = "fetch" /\ cons[p].next <= Len(topic[p])

\* EmbedText and UpsertFactVector.
UpsertFactVector(p) ==
    /\ Fetched(p)
    /\ vector' = [i \in DOMAIN vector \cup {Current(p).fact} |->
                     IF i = Current(p).fact THEN Current(p).active ELSE vector[i]]
    /\ Move(p, "status")
    /\ UNCHANGED <<tables, locked, writer, kafka, disp, faults>>

\* The missing continue: a failed upsert goes on to the status "done".
IndexFailGoesOn(p) ==
    /\ Fetched(p)
    /\ Fault
    /\ Move(p, "status")
    /\ UNCHANGED <<tables, locked, writer, kafka, disp, vector>>

\* The embedding or the upsert fails: status "failed" (an error of that update
\* is ignored), next record.
IndexFail(p) ==
    /\ Fetched(p)
    /\ Fault
    /\ SetIndex(Current(p).fact, "failed") \/ UNCHANGED facts
    /\ SkipRecord(p)
    /\ UNCHANGED <<outbox, locked, writer, kafka, disp, vector>>

UpdateStatusDone(p) ==
    /\ cons[p].at = "status"
    /\ SetIndex(Current(p).fact, "done")
    /\ Move(p, "commit")
    /\ UNCHANGED <<outbox, locked, writer, kafka, disp, vector, faults>>

UpdateStatusFail(p) ==
    /\ cons[p].at = "status"
    /\ Fault
    /\ SkipRecord(p)
    /\ UNCHANGED <<tables, locked, writer, kafka, disp, vector>>

\* The commit covers the records in front of this one, skipped ones too.
CommitMessages(p) ==
    /\ cons[p].at = "commit"
    /\ topic' = [topic EXCEPT ![p] = SubSeq(topic[p], cons[p].next + 1, Len(topic[p]))]
    /\ cons' = [cons EXCEPT ![p] = [at |-> "fetch", next |-> 1]]
    /\ UNCHANGED <<tables, locked, writer, published, disp, vector, faults>>

CommitFail(p) ==
    /\ cons[p].at = "commit"
    /\ Fault
    /\ SkipRecord(p)
    /\ UNCHANGED <<tables, locked, writer, kafka, disp, vector>>

\* The consumer stops; the next one starts at the committed offset.
ConsumerCrash(p) ==
    /\ cons[p].next > 1 \/ cons[p].at # "fetch"
    /\ Fault
    /\ cons' = [cons EXCEPT ![p].at = "fetch", ![p].next = 1]
    /\ UNCHANGED <<tables, locked, writer, kafka, disp, vector>>

-----------------------------------------------------------------------------
WriterStep(w) == (\E input \in Inputs : FindOld(w, input)) \/ WriteFact(w)
DispatcherStep(d) == ListPendingOutbox(d) \/ WriteMessages(d) \/ Mark(d)
ConsumerStep(p) ==
    UpsertFactVector(p) \/ UpdateStatusDone(p) \/ CommitMessages(p)

Next ==
    \/ \E w \in Writers : WriterStep(w) \/ Rollback(w)
    \/ \E d \in Dispatchers : \/ DispatcherStep(d)
                              \/ WriteMessagesFail(d) \/ MarkFail(d) \/ DispatcherCrash(d)
    \/ \E p \in Partitions : \/ ConsumerStep(p)
                             \/ IndexFail(p) \/ UpdateStatusFail(p) \/ CommitFail(p)
                             \/ ConsumerCrash(p)

Spec == Init /\ [][Next]_vars

\* The ticker runs every dispatcher, the consumers' loops run; nothing makes
\* an extraction start, and faults stop at their bound.
FairSpec ==
    /\ Spec
    /\ \A d \in Dispatchers : WF_vars(DispatcherStep(d))
    /\ \A p \in Partitions : WF_vars(ConsumerStep(p))

-----------------------------------------------------------------------------
Ids == DOMAIN facts

TypeOK ==
    /\ \A i \in Ids :
         /\ facts[i].key \in ConflictKeys \cup {None}
         /\ facts[i].supersedes \in 0..(i - 1)
         /\ facts[i].index \in {"pending", "done", "failed"}
    /\ \A e \in DOMAIN outbox : outbox[e].fact \in Ids /\ outbox[e].status \in 0..2
    /\ \A p \in Partitions : /\ ToSet(topic[p]) \subseteq DOMAIN outbox
                             /\ cons[p].next \in 1..Len(topic[p]) + 1
    /\ DOMAIN vector \subseteq Ids

(***************************************************************************)
(* Two conversations that extract conflicting preferences at once resolve  *)
(* one after the other: a fact is superseded at most once, by a newer fact *)
(* of its key that was certain enough, and is inactive from then on.       *)
(***************************************************************************)
SupersededOnce ==
    \A i, j \in Ids : facts[i].supersedes = j =>
        /\ ~facts[j].active
        /\ facts[i].key = facts[j].key
        /\ facts[i].confidence >= 7
        /\ \A k \in Ids \ {i} : facts[k].supersedes # j

(***************************************************************************)
(* No event is lost between the tables and the topic: whatever is_active a *)
(* fact has or had, an event carries it; and an event that is marked sent  *)
(* has a record in the topic, whatever dispatchers, failures and crashes   *)
(* interleaved.                                                            *)
(***************************************************************************)
EventsMatchFacts ==
    /\ \A i \in Ids : \E e \in DOMAIN outbox :
          outbox[e].fact = i /\ outbox[e].active = facts[i].active
    /\ \A e \in DOMAIN outbox : outbox[e].status = 1 => e \in published

(***************************************************************************)
(* A fact that is active and indexed can be found: its vector is stored    *)
(* with is_active true, which RetrieveRelevantFacts filters by.            *)
(***************************************************************************)
DoneIsFindable ==
    \A i \in Ids : facts[i].active /\ facts[i].index = "done" =>
        i \in DOMAIN vector /\ vector[i]

(***************************************************************************)
(* Every event of the outbox is published and marked sent in the end:      *)
(* failed batches, lost marks and crashes are tried again by the ticker.   *)
(***************************************************************************)
AllSent == \A e \in DOMAIN outbox : outbox[e].status = 1

EventuallyPublished == ~AllSent ~> AllSent

(***************************************************************************)
(* The extraction prompt's rule: a new high-confidence fact replaces the   *)
(* older ones of its conflict key.                                         *)
(***************************************************************************)
HighConfidenceReplaces ==
    \A i, j \in Ids :
        /\ i > j /\ facts[i].key # None /\ facts[i].key = facts[j].key
        /\ facts[i].active /\ facts[j].active
        => ~(facts[i].confidence >= 7 /\ facts[i].confidence >= facts[j].confidence)
=============================================================================
