----------------------------- MODULE ChatOutbox -----------------------------
(***************************************************************************)
(* The chat service: LiveChat persists a message whose document is its own *)
(* outbox row, and the relay workers of every instance drain those rows    *)
(* into Kafka under leases, one lesson in order.                           *)
(*                                                                         *)
(* A message is named after the LiveChat call whose UUID it carries.  A    *)
(* stamp stands for the pair (created_at, message_id), by which claims and *)
(* the fence order messages: the clocks of two instances may differ, so    *)
(* stamps need not follow the order of the calls.  Permission checks and   *)
(* message content are left out: a refused call changes nothing.           *)
(***************************************************************************)
EXTENDS Integers, Sequences

CONSTANTS
  Calls,       \* LiveChat calls
  Lessons,
  Keys,        \* (sender_id, client_message_id) pairs
  Lesson,      \* call -> lesson it posts to
  Key,         \* call -> key it carries; a retry carries the key again
  Stamps,      \* call -> stamps it may take
  Workers,     \* relay workers of all instances
  Instances,
  Instance,    \* worker -> instance it runs in
  Serves,      \* worker -> lessons it may claim
  MaxFaults    \* bound of the model: crashes, errors, early lease expiries, retries

ASSUME ChatAssumption ==
  /\ Lesson \in [Calls -> Lessons] /\ Key \in [Calls -> Keys]
  /\ Instance \in [Workers -> Instances] /\ Serves \in [Workers -> SUBSET Lessons]
  /\ Stamps \in [Calls -> SUBSET (Nat \ {0})] /\ MaxFaults \in Nat

NoDoc == [status |-> "none"]
NoOne == "nobody"

VARIABLES
  call,      \* call -> where its handler is, the message it works on, the number it holds
  stamp,     \* call -> its stamp, 0 before the handler took the time
  counter,   \* lesson -> lesson_counters.seq
  docs,      \* message -> its document in Mongo, or NoDoc
  worker,    \* worker -> where it is in drain, and the message it claimed
  kafka,     \* lesson -> records of the lesson, in the order of its partition
  faults,    \* faults so far
  deleted,   \* history: messages DelHistory removed
  seen       \* history: message -> earlier messages of its lesson stored before it

callVars == <<call, stamp, counter>>
vars == <<call, stamp, counter, docs, worker, kafka, faults, deleted, seen>>

CallSteps == {"idle", "started", "stored", "numbered", "done"}
Call == [at : CallSteps, msg : Calls, seq : Nat]
Doc ==
  [status : {"pending", "publishing", "published"}, seq : Nat,
   due : BOOLEAN,               \* next_attempt_at <= now
   owner : Workers \cup {NoOne},
   live : BOOLEAN]              \* lease_until > now
WorkerSteps == {"idle", "claimed", "gated", "clear", "written", "failed", "defer"}
Record == [msg : Calls, seq : Nat]
Job == [at : WorkerSteps \ {"idle"}, msg : Calls, seq : Nat]
Idle == [at |-> "idle"]

TypeOK ==
  /\ call \in [Calls -> Call]
  /\ stamp \in [Calls -> Nat]
  /\ counter \in [Lessons -> Nat]
  /\ docs \in [Calls -> Doc \cup {NoDoc}]
  /\ worker \in [Workers -> Job \cup {Idle}]
  /\ kafka \in [Lessons -> Seq(Record)]
  /\ faults \in 0..MaxFaults
  /\ deleted \subseteq Calls
  /\ seen \in [Calls -> SUBSET Calls]

Init ==
  /\ call = [c \in Calls |-> [at |-> "idle", msg |-> c, seq |-> 0]]
  /\ stamp = [c \in Calls |-> 0]
  /\ counter = [l \in Lessons |-> 0]
  /\ docs = [m \in Calls |-> NoDoc]
  /\ worker = [w \in Workers |-> Idle]
  /\ kafka = [l \in Lessons |-> <<>>]
  /\ faults = 0
  /\ deleted = {}
  /\ seen = [m \in Calls |-> {}]

Stored == {m \in Calls : docs[m] # NoDoc}
Unpublished(m) == docs[m].status \in {"pending", "publishing"}
Earlier(m1, m) == Lesson[m1] = Lesson[m] /\ stamp[m1] < stamp[m]
Fault == faults < MaxFaults /\ faults' = faults + 1

----------------------------------------------------------------------------
(* LiveChat.                                                               *)

\* The handler takes the message id and created_at, before it stores anything.
\* A client that repeats a call, answered or not, had its request time out: a fault.
LiveChat(c) ==
  /\ call[c].at = "idle"
  /\ IF \E d \in Calls : Key[d] = Key[c] /\ call[d].at # "idle" THEN Fault
                                                               ELSE UNCHANGED faults
  /\ call' = [call EXCEPT ![c].at = "started"]
  /\ \E t \in Stamps[c] \ {stamp[d] : d \in Calls} : stamp' = [stamp EXCEPT ![c] = t]
  /\ UNCHANGED <<counter, docs, worker, kafka, deleted, seen>>

End(c) == call' = [call EXCEPT ![c] = [at |-> "done", msg |-> c, seq |-> 0]]

NewDoc == [status |-> "pending", seq |-> 0, due |-> TRUE, owner |-> NoOne, live |-> FALSE]

\* Mutant: the lookup by key and the insert are not one operation.
InsertBlindly(c) ==
  /\ call[c].at = "started"
  /\ docs' = [docs EXCEPT ![c] = NewDoc]
  /\ seen' = [seen EXCEPT ![c] = {m \in Stored : Earlier(m, c)}]
  /\ call' = [call EXCEPT ![c] = [at |-> "stored", msg |-> c, seq |-> 0]]
  /\ UNCHANGED <<stamp, counter, worker, kafka, faults, deleted>>

(* InsertMessageIdempotent: a stored message with the same key is returned *)
(* instead of a second one; the key with another lesson or content is      *)
(* refused.                                                                *)
InsertMessageIdempotent(c) ==
  LET same == {m \in Stored : Key[m] = Key[c]} IN
  /\ call[c].at = "started"
  /\ \/ /\ same = {}
        /\ docs' = [docs EXCEPT ![c] = NewDoc]
        /\ seen' = [seen EXCEPT ![c] = {m \in Stored : Earlier(m, c)}]
        /\ call' = [call EXCEPT ![c] = [at |-> "stored", msg |-> c, seq |-> 0]]
     \/ \E m \in same :
          /\ \/ /\ Lesson[m] = Lesson[c]
                /\ call' = [call EXCEPT ![c] =
                              [at |-> "stored", msg |-> m, seq |-> docs[m].seq]]
             \/ End(c)
          /\ UNCHANGED <<docs, seen>>
  /\ UNCHANGED <<stamp, counter, worker, kafka, faults, deleted>>

\* Mutant: the counter is read, not incremented.
AllocateStale(c) ==
  /\ call[c].at = "stored" /\ call[c].seq = 0
  /\ call' = [call EXCEPT ![c] = [at |-> "numbered", msg |-> call[c].msg,
                                  seq |-> counter[Lesson[c]] + 1]]
  /\ UNCHANGED <<stamp, counter, docs, worker, kafka, faults, deleted, seen>>

AllocateLessonSeq(c) ==
  LET l == Lesson[c] IN
  /\ call[c].at = "stored" /\ call[c].seq = 0
  /\ counter' = [counter EXCEPT ![l] = @ + 1]
  /\ call' = [call EXCEPT ![c] = [at |-> "numbered", msg |-> call[c].msg,
                                  seq |-> counter[l] + 1]]
  /\ UNCHANGED <<stamp, docs, worker, kafka, faults, deleted, seen>>

\* The message already has a number: nothing is allocated.
AlreadyNumbered(c) ==
  /\ call[c].at = "stored" /\ call[c].seq # 0
  /\ End(c)
  /\ UNCHANGED <<stamp, counter, docs, worker, kafka, faults, deleted, seen>>

SetLessonSeq(c) ==
  LET m == call[c].msg IN
  /\ call[c].at = "numbered"
  /\ docs' = IF docs[m] = NoDoc THEN docs ELSE [docs EXCEPT ![m].seq = call[c].seq]
  /\ End(c)
  /\ UNCHANGED <<stamp, counter, worker, kafka, faults, deleted, seen>>

\* A database error or a crash ends the handler between two of its writes.
CallDies(c) ==
  /\ Fault
  /\ call[c].at \in {"started", "stored", "numbered"}
  /\ End(c)
  /\ UNCHANGED <<stamp, counter, docs, worker, kafka, deleted, seen>>

DelHistory(l) ==
  LET gone == {m \in Stored : Lesson[m] = l} IN
  /\ gone # {}
  /\ docs' = [m \in Calls |-> IF m \in gone THEN NoDoc ELSE docs[m]]
  /\ deleted' = deleted \cup gone
  /\ UNCHANGED <<callVars, worker, kafka, faults, seen>>

----------------------------------------------------------------------------
(* The relay.                                                              *)

\* Mutant: the claim ignores expired leases.
ClaimablePending(w) ==
  {m \in Stored : Lesson[m] \in Serves[w] /\ docs[m].status = "pending" /\ docs[m].due}

Claimable(w) ==
  {m \in Stored : /\ Lesson[m] \in Serves[w]
                  /\ \/ docs[m].status = "pending" /\ docs[m].due
                     \/ docs[m].status = "publishing" /\ ~docs[m].live}

(* claimNextOutbox: the oldest claimable message of the lessons w serves.  *)
(* The update may take effect although w sees an error.                    *)
claimNextOutbox(w) ==
  /\ worker[w] = Idle
  /\ \E m \in Claimable(w) :
       /\ \A m1 \in Claimable(w) : stamp[m] <= stamp[m1]
       /\ docs' = [docs EXCEPT ![m] = [docs[m] EXCEPT !.status = "publishing",
                                                      !.owner = w, !.live = TRUE]]
       /\ \/ /\ worker' = [worker EXCEPT ![w] =
                              [at |-> "claimed", msg |-> m, seq |-> docs[m].seq]]
             /\ UNCHANGED faults
          \/ Fault /\ UNCHANGED worker
  /\ UNCHANGED <<callVars, kafka, deleted, seen>>

\* The lesson gate of an instance: held by the worker that publishes the lesson.
Gated == {"gated", "clear", "written"}
lessonGate(i, l) ==
  {w \in Workers : /\ Instance[w] = i /\ worker[w].at \in Gated
                   /\ Lesson[worker[w].msg] = l}

EnterGate(w) ==
  /\ worker[w].at = "claimed"
  /\ worker' = [worker EXCEPT ![w].at =
       IF lessonGate(Instance[w], Lesson[worker[w].msg]) = {} THEN "gated" ELSE "defer"]
  /\ UNCHANGED <<callVars, docs, kafka, faults, deleted, seen>>

\* Mutant: the fence looks at pending messages only, not at leased ones.
FencePendingOnly(w) ==
  LET m == worker[w].msg
      blocked == \E m1 \in Stored : Earlier(m1, m) /\ docs[m1].status = "pending"
  IN
  /\ worker[w].at = "gated"
  /\ worker' = [worker EXCEPT ![w].at = IF blocked THEN "defer" ELSE "clear"]
  /\ UNCHANGED <<callVars, docs, kafka, faults, deleted, seen>>

\* A blocked message is deferred, and so is one whose check failed.
HasEarlierUnpublished(w) ==
  LET m == worker[w].msg
      blocked == \E m1 \in Stored : Earlier(m1, m) /\ Unpublished(m1)
  IN
  /\ worker[w].at = "gated"
  /\ \/ /\ worker' = [worker EXCEPT ![w].at = IF blocked THEN "defer" ELSE "clear"]
        /\ UNCHANGED faults
     \/ /\ Fault
        /\ worker' = [worker EXCEPT ![w].at = "defer"]
  /\ UNCHANGED <<callVars, docs, kafka, deleted, seen>>

Publish(w) ==
  LET m == worker[w].msg IN
  kafka' = [kafka EXCEPT ![Lesson[m]] = Append(@, [msg |-> m, seq |-> worker[w].seq])]

\* writeWithRetry succeeds.
writeOnce(w) ==
  /\ worker[w].at = "clear"
  /\ Publish(w)
  /\ worker' = [worker EXCEPT ![w].at = "written"]
  /\ UNCHANGED <<callVars, docs, faults, deleted, seen>>

\* An attempt reports an error although Kafka stored the record.
WriteUnknown(w) ==
  /\ worker[w].at = "clear" /\ Fault
  /\ Publish(w)
  /\ UNCHANGED <<callVars, docs, worker, deleted, seen>>

\* Every attempt failed.
WriteFails(w) ==
  /\ worker[w].at = "clear" /\ Fault
  /\ worker' = [worker EXCEPT ![w].at = "failed"]
  /\ UNCHANGED <<callVars, docs, kafka, deleted, seen>>

\* Mutant: the update no longer asks for the lease.
OwnsAny(w, m) == docs[m] # NoDoc

Owns(w, m) == docs[m] # NoDoc /\ docs[m].status = "publishing" /\ docs[m].owner = w

\* The update matches only while w owns the lease; the worker goes on either way.
Update(w, fields) ==
  LET m == worker[w].msg IN
  docs' = IF Owns(w, m)
          THEN [docs EXCEPT ![m] = [fields EXCEPT !.seq = docs[m].seq]]
          ELSE docs

Finish(w, fields) ==
  /\ worker' = [worker EXCEPT ![w] = Idle]
  /\ \/ Update(w, fields) /\ UNCHANGED faults
     \/ Fault /\ UNCHANGED docs
  /\ UNCHANGED <<callVars, kafka, deleted, seen>>

Released == [status |-> "pending", seq |-> 0, due |-> FALSE, owner |-> NoOne, live |-> FALSE]
Published == [status |-> "published", seq |-> 0, due |-> TRUE, owner |-> NoOne, live |-> FALSE]

\* Mutant: a failed write is marked as published.
MarkFailedPublished(w) == worker[w].at = "failed" /\ Finish(w, Published)

DeferForOrdering(w) == worker[w].at = "defer" /\ Finish(w, Released)
MarkRetry(w) == worker[w].at = "failed" /\ Finish(w, Released)
MarkPublished(w) == worker[w].at = "written" /\ Finish(w, Published)

----------------------------------------------------------------------------
(* Time and crashes.                                                       *)

\* next_attempt_at of a deferred message passes.
Due(m) ==
  /\ m \in Stored /\ docs[m].status = "pending" /\ ~docs[m].due
  /\ docs' = [docs EXCEPT ![m].due = TRUE]
  /\ UNCHANGED <<callVars, worker, kafka, faults, deleted, seen>>

\* The worker that holds the lease of m, if any, is not working on m.
Abandoned(m) ==
  \A w \in Workers : docs[m].owner = w => worker[w] = Idle \/ worker[w].msg # m

\* lease_until passes; while the owner still works on the message this is a fault.
LeaseExpires(m) ==
  /\ m \in Stored /\ docs[m].status = "publishing" /\ docs[m].live
  /\ IF Abandoned(m) THEN UNCHANGED faults ELSE Fault
  /\ docs' = [docs EXCEPT ![m].live = FALSE]
  /\ UNCHANGED <<callVars, worker, kafka, deleted, seen>>

(* An instance crashes.  Its leases stay; its workers come back under a    *)
(* new owner id, so the leases belong to nobody that still runs.           *)
Crash(i) ==
  LET dead == {w \in Workers : Instance[w] = i} IN
  /\ Fault
  /\ \E w \in dead : worker[w] # Idle
  /\ worker' = [w \in Workers |-> IF w \in dead THEN Idle ELSE worker[w]]
  /\ docs' = [m \in Calls |->
       IF docs[m] # NoDoc /\ docs[m].owner \in dead THEN [docs[m] EXCEPT !.owner = NoOne]
       ELSE docs[m]]
  /\ UNCHANGED <<callVars, kafka, deleted, seen>>

----------------------------------------------------------------------------
CallNext(c) ==
  \/ LiveChat(c) \/ InsertMessageIdempotent(c) \/ AllocateLessonSeq(c)
  \/ AlreadyNumbered(c) \/ SetLessonSeq(c) \/ CallDies(c)

drain(w) ==
  \/ claimNextOutbox(w) \/ EnterGate(w) \/ HasEarlierUnpublished(w)
  \/ writeOnce(w) \/ DeferForOrdering(w) \/ MarkRetry(w) \/ MarkPublished(w)

Next ==
  \/ \E c \in Calls : CallNext(c)
  \/ \E w \in Workers : drain(w) \/ WriteUnknown(w) \/ WriteFails(w)
  \/ \E m \in Calls : Due(m) \/ LeaseExpires(m)
  \/ \E i \in Instances : Crash(i)
  \/ \E l \in Lessons : DelHistory(l)

Spec == Init /\ [][Next]_vars

(* A worker polls, wakes and runs on; time passes, so a deferred message   *)
(* becomes due and the lease of a worker that is gone expires.             *)
Fairness ==
  /\ \A w \in Workers : WF_vars(drain(w))
  /\ \A m \in Calls : WF_vars(Due(m)) /\ WF_vars(LeaseExpires(m) /\ Abandoned(m))

FairSpec == Spec /\ Fairness

----------------------------------------------------------------------------
Records(l) == {kafka[l][k] : k \in DOMAIN kafka[l]}
Sent(m) == \E k \in DOMAIN kafka[Lesson[m]] : kafka[Lesson[m]][k].msg = m

(* "Gaps are acceptable, collisions are not" (mongo.go:207): two messages  *)
(* of a lesson never carry the same number, neither in Mongo nor in Kafka, *)
(* whatever calls die or are retried between the insert, the allocation    *)
(* and the write of the number.                                            *)
NumbersUnique ==
  /\ \A m, n \in Stored :
       m # n /\ Lesson[m] = Lesson[n] /\ docs[m].seq # 0 => docs[m].seq # docs[n].seq
  /\ \A l \in Lessons : \A a, b \in Records(l) :
       a.msg # b.msg /\ a.seq # 0 => a.seq # b.seq

(* A client that repeats a call with its client_message_id posts one       *)
(* message: two calls with one key leave one document and publish one      *)
(* message, unless the history was deleted in between.                     *)
OneMessagePerKey ==
  \A m, n \in Calls :
    m # n /\ Key[m] = Key[n] =>
      /\ ~(m \in Stored /\ n \in Stored)
      /\ Sent(m) /\ Sent(n) => m \in deleted \/ n \in deleted

(* No message is lost: the outbox calls a message published only when its  *)
(* record is in Kafka, also when leases expire under a slow worker,        *)
(* instances crash or an update fails after the write.                     *)
PublishedIsSent ==
  \A m \in Stored : docs[m].status = "published" => Sent(m)

(* Order within a lesson.  A message that was stored while an earlier one  *)
(* of its lesson was in the outbox reaches Kafka after it, across workers, *)
(* instances, expired leases and retries, unless the earlier one was       *)
(* deleted.  (At most one record is appended in a step.)                   *)
OrderKept ==
  \A m \in Calls : Sent(m) => \A m1 \in seen[m] : Sent(m1) \/ m1 \in deleted

(* A published message is never taken up again: a worker that lost its     *)
(* lease cannot return the message to the queue.                           *)
PublishedIsFinal ==
  [][\A m \in Stored :
       docs[m].status = "published" => docs'[m] = NoDoc \/ docs'[m].status = "published"]_vars

(* The outbox drains: again and again every message in the history is in   *)
(* Kafka, so each stored message reaches it or is deleted.                 *)
EventuallySent == []<>(\A m \in Stored : Sent(m))
----------------------------------------------------------------------------
\* What a reader sees of lesson l: its history and its partition.
Log(l) == INSTANCE ChatLog WITH
  Messages <- {m \in Calls : Lesson[m] = l},
  stored <- {m \in Stored : Lesson[m] = l},
  before <- [m \in {c \in Calls : Lesson[c] = l} |-> seen[m]],
  deleted <- {m \in deleted : Lesson[m] = l},
  log <- [k \in DOMAIN kafka[l] |-> kafka[l][k].msg]

(* The service keeps its promise to the gateways of every lesson: whatever *)
(* calls, workers and instances do, and fail to do, a message is stored    *)
(* once, before its first record, and its record comes after the records   *)
(* of the earlier messages that were in the history before it.             *)
ImplementsLog ==
  /\ \A l \in Lessons : Log(l)!Init
  /\ [][\A l \in Lessons : [Log(l)!Next]_(Log(l)!vars)]_vars
=============================================================================
