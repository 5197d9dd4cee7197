-------------------------- MODULE ChatOutboxProofs --------------------------
(***************************************************************************)
(* Proofs about ChatOutbox, for any calls, lessons, workers and instances  *)
(* and any number of faults: no message is lost, the order within a lesson *)
(* is kept, numbers never collide, a published message stays published, a  *)
(* repeated call with one key makes one message, and each lesson           *)
(* implements the log of ChatLog.                                          *)
(***************************************************************************)
EXTENDS ChatOutbox, TLAPS

Posted(m) == call[m].at \notin {"idle", "started"}

\* A message that was not stored yet has left no trace.
Fresh(m) ==
  ~Posted(m) => /\ docs[m] = NoDoc /\ m \notin deleted /\ seen[m] = {}
                /\ ~Sent(m)
                /\ \A w \in Workers : worker[w] # Idle => worker[w].msg # m

\* The earlier messages of m are still stored or were deleted, and still earlier.
SeenStays(m) ==
  \A m1 \in seen[m] : Earlier(m1, m) /\ (m1 \in Stored \/ m1 \in deleted)

Behind(m) == \A m1 \in seen[m] : Sent(m1) \/ m1 \in deleted

\* What a worker knows about its message at each place of drain.
WorkerKnows(w) ==
  /\ worker[w].at \in {"clear", "written"} => Behind(worker[w].msg)
  /\ worker[w].at = "written" => Sent(worker[w].msg)

\* The records of a partition belong to its lesson.
OwnPartition ==
  \A l \in Lessons : \A k \in DOMAIN kafka[l] : Lesson[kafka[l][k].msg] = l

RelayInv ==
  /\ TypeOK
  /\ \A m \in Calls : Fresh(m) /\ SeenStays(m)
  /\ \A w \in Workers : WorkerKnows(w)
  /\ PublishedIsSent /\ OrderKept
  /\ OwnPartition

\* The number s is attached to message m somewhere.
Carries(m, s) ==
  \/ m \in Stored /\ docs[m].seq = s
  \/ \E c \in Calls : call[c].msg = m /\ call[c].seq = s
  \/ \E w \in Workers : worker[w] # Idle /\ worker[w].msg = m /\ worker[w].seq = s
  \/ \E l \in Lessons : \E k \in DOMAIN kafka[l] : kafka[l][k] = [msg |-> m, seq |-> s]

NumberInv ==
  /\ \A c \in Calls : Lesson[call[c].msg] = Lesson[c]
  /\ \A m \in Calls, s \in Nat \ {0} :
       Carries(m, s) =>
         /\ s <= counter[Lesson[m]]
         /\ \A n \in Calls : Lesson[n] = Lesson[m] /\ Carries(n, s) => n = m

\* What a call becomes when m is stored under its key.
Answers(m, c) ==
  {r \in {[at |-> "stored", msg |-> m, seq |-> docs[m].seq],
          [at |-> "done", msg |-> c, seq |-> 0]} :
     r.at = "stored" => Lesson[m] = Lesson[c]}

----------------------------------------------------------------------------
(* A stored message has a document, a busy worker a job.                   *)
LEMMA Shapes ==
  ASSUME TypeOK
  PROVE  /\ \A m \in Stored : m \in Calls /\ docs[m] \in Doc
         /\ \A w \in Workers : worker[w].at # "idle" => worker[w] \in Job
         /\ \A w \in Workers : worker[w] # Idle => worker[w] \in Job
         /\ \A w \in Workers : worker[w].at = "idle" <=> worker[w] = Idle
<1>1. \A m \in Stored : m \in Calls /\ docs[m] \in Doc
  BY DEF TypeOK, Stored
<1>2. ASSUME NEW w \in Workers
      PROVE  /\ worker[w].at # "idle" => worker[w] \in Job
             /\ worker[w] # Idle => worker[w] \in Job
             /\ worker[w].at = "idle" <=> worker[w] = Idle
  <2>1. worker[w] \in Job \/ worker[w] = Idle
    BY DEF TypeOK
  <2>2. Idle.at = "idle"
    BY DEF Idle
  <2>3. worker[w] \in Job => worker[w].at # "idle"
    BY DEF Job
  <2> QED BY <2>1, <2>2, <2>3
<1> QED BY <1>1, <1>2

(* Moving a busy worker on keeps it typed.                                 *)
LEMMA WorkerMoves ==
  ASSUME TypeOK, NEW w \in Workers, worker[w].at # "idle",
         NEW at \in WorkerSteps \ {"idle"}, worker' = [worker EXCEPT ![w].at = at]
  PROVE  /\ worker' \in [Workers -> Job \cup {Idle}]
         /\ worker'[w] = [at |-> at, msg |-> worker[w].msg, seq |-> worker[w].seq]
         /\ \A v \in Workers \ {w} : worker'[v] = worker[v]
<1>1. worker[w] \in Job
  BY Shapes
<1>2. [worker[w] EXCEPT !.at = at] \in Job
  BY <1>1 DEF Job
<1>3. [worker[w] EXCEPT !.at = at] = [at |-> at, msg |-> worker[w].msg, seq |-> worker[w].seq]
  BY <1>1 DEF Job
<1> QED BY <1>2, <1>3 DEF TypeOK

(* The document that a relay update leaves is typed.                       *)
LEMMA UpdateTyped ==
  ASSUME TypeOK, NEW w \in Workers, worker[w].at # "idle",
         NEW fields \in Doc, Update(w, fields)
  PROVE  docs' \in [Calls -> Doc \cup {NoDoc}]
<1> DEFINE m == worker[w].msg
<1>1. m \in Calls
  BY Shapes DEF Job
<1>2. CASE Owns(w, m)
  <2>1. docs[m] \in Doc
    BY <1>1, <1>2 DEF Owns, TypeOK
  <2>2. docs[m].seq \in Nat
    BY <2>1 DEF Doc
  <2>3. [fields EXCEPT !.seq = docs[m].seq] \in Doc
    BY <2>2 DEF Doc
  <2> QED BY <1>1, <1>2, <2>3 DEF Update, TypeOK
<1>3. CASE ~Owns(w, m)
  BY <1>3 DEF Update, TypeOK
<1> QED BY <1>2, <1>3

\* The documents the handlers write are documents.
LEMMA FieldsTyped == Released \in Doc /\ Published \in Doc /\ NewDoc \in Doc
BY DEF Released, Published, NewDoc, Doc

(* Finishing with a message keeps the tables typed.                        *)
LEMMA FinishTyped ==
  ASSUME TypeOK, NEW w \in Workers, worker[w].at # "idle",
         NEW fields \in Doc, Finish(w, fields)
  PROVE  TypeOK'
<1>1. docs' \in [Calls -> Doc \cup {NoDoc}]
  <2>1. CASE Update(w, fields)
    BY <2>1, UpdateTyped
  <2>2. CASE UNCHANGED docs
    BY <2>2 DEF TypeOK
  <2> QED BY <2>1, <2>2 DEF Finish
<1>2. worker' \in [Workers -> Job \cup {Idle}]
  BY DEF Finish, TypeOK
<1>3. faults' \in 0..MaxFaults
  BY ChatAssumption DEF Finish, Fault, TypeOK
<1> QED BY <1>1, <1>2, <1>3 DEF Finish, callVars, TypeOK

(* The steps of a LiveChat handler.                                        *)
LEMMA CallTyped ==
  ASSUME TypeOK, NEW c \in Calls, CallNext(c)
  PROVE  TypeOK'
<1>c. call[c] \in Call
  BY DEF TypeOK
<1>a. ASSUME NEW at \in CallSteps PROVE [call[c] EXCEPT !.at = at] \in Call
  BY <1>c DEF Call
<1>1. CASE LiveChat(c)
  <2>1. call' \in [Calls -> Call]
    <3>1. [call[c] EXCEPT !.at = "started"] \in Call
      BY <1>a DEF CallSteps
    <3> QED BY <1>1, <3>1 DEF LiveChat, TypeOK
  <2>2. stamp' \in [Calls -> Nat]
    <3>1. PICK t \in Stamps[c] : stamp' = [stamp EXCEPT ![c] = t]
      BY <1>1 DEF LiveChat
    <3>2. t \in Nat
      BY <3>1, ChatAssumption
    <3> QED BY <3>1, <3>2 DEF TypeOK
  <2>3. faults' \in 0..MaxFaults
    BY <1>1, ChatAssumption DEF LiveChat, Fault, TypeOK
  <2> QED BY <1>1, <2>1, <2>2, <2>3 DEF LiveChat, TypeOK
<1>e. ASSUME End(c) PROVE call' \in [Calls -> Call]
  <2>1. [at |-> "done", msg |-> c, seq |-> 0] \in Call
    BY DEF Call, CallSteps
  <2> QED BY <1>e, <2>1 DEF End, TypeOK
<1>2. CASE InsertMessageIdempotent(c)
  <2>1. CASE /\ docs' = [docs EXCEPT ![c] = NewDoc]
             /\ seen' = [seen EXCEPT ![c] = {m \in Stored : Earlier(m, c)}]
             /\ call' = [call EXCEPT ![c] = [at |-> "stored", msg |-> c, seq |-> 0]]
    <3>1. [at |-> "stored", msg |-> c, seq |-> 0] \in Call
      BY DEF Call, CallSteps
    <3>2. call' \in [Calls -> Call] /\ docs' \in [Calls -> Doc \cup {NoDoc}]
      BY <2>1, <3>1, FieldsTyped DEF TypeOK
    <3>3. seen' \in [Calls -> SUBSET Calls]
      BY <2>1 DEF TypeOK, Stored
    <3> QED BY <1>2, <3>2, <3>3 DEF InsertMessageIdempotent, TypeOK
  <2>2. ASSUME NEW m \in Stored, UNCHANGED <<docs, seen>>,
               NEW r \in Answers(m, c), call' = [call EXCEPT ![c] = r]
        PROVE  TypeOK'
    <3>1. m \in Calls /\ docs[m].seq \in Nat
      BY Shapes DEF Doc
    <3>2. /\ [at |-> "stored", msg |-> m, seq |-> docs[m].seq] \in Call
          /\ [at |-> "done", msg |-> c, seq |-> 0] \in Call
      BY <3>1 DEF Call, CallSteps
    <3>3. call' \in [Calls -> Call]
      BY <2>2, <3>2 DEF TypeOK, Answers
    <3> QED BY <1>2, <2>2, <3>3 DEF InsertMessageIdempotent, TypeOK
  <2> QED BY <1>2, <2>1, <2>2 DEF InsertMessageIdempotent, Answers, End
<1>3. CASE AllocateLessonSeq(c)
  <2>1. Lesson[c] \in Lessons /\ counter[Lesson[c]] \in Nat
    BY ChatAssumption DEF TypeOK
  <2>2. counter' \in [Lessons -> Nat]
    BY <1>3, <2>1 DEF AllocateLessonSeq, TypeOK
  <2>3. [at |-> "numbered", msg |-> call[c].msg, seq |-> counter[Lesson[c]] + 1] \in Call
    BY <1>c, <2>1 DEF Call, CallSteps
  <2>4. call' \in [Calls -> Call]
    BY <1>3, <2>3 DEF AllocateLessonSeq, TypeOK
  <2> QED BY <1>3, <2>2, <2>4 DEF AllocateLessonSeq, TypeOK
<1>4. CASE AlreadyNumbered(c)
  <2>1. call' \in [Calls -> Call]
    BY <1>4, <1>e DEF AlreadyNumbered
  <2> QED BY <1>4, <2>1 DEF AlreadyNumbered, TypeOK
<1>5. CASE SetLessonSeq(c)
  <2>1. call' \in [Calls -> Call]
    BY <1>5, <1>e DEF SetLessonSeq
  <2>2. call[c].msg \in Calls /\ call[c].seq \in Nat
    BY <1>c DEF Call
  <2>3. docs[call[c].msg] # NoDoc => [docs[call[c].msg] EXCEPT !.seq = call[c].seq] \in Doc
    BY <2>2 DEF TypeOK, Doc
  <2>4. docs' \in [Calls -> Doc \cup {NoDoc}]
    BY <1>5, <2>2, <2>3 DEF SetLessonSeq, TypeOK
  <2> QED BY <1>5, <2>1, <2>4 DEF SetLessonSeq, TypeOK
<1>6. CASE CallDies(c)
  <2>1. call' \in [Calls -> Call]
    BY <1>6, <1>e DEF CallDies
  <2> QED BY <1>6, <2>1, ChatAssumption DEF CallDies, Fault, TypeOK
<1> QED BY <1>1, <1>2, <1>3, <1>4, <1>5, <1>6 DEF CallNext

(* The steps of a relay worker.                                            *)
LEMMA WorkerTyped ==
  ASSUME TypeOK, NEW w \in Workers, drain(w) \/ WriteUnknown(w) \/ WriteFails(w)
  PROVE  TypeOK'
<1>m. worker[w].at # "idle" =>
        /\ worker[w].msg \in Calls /\ worker[w].seq \in Nat
        /\ Lesson[worker[w].msg] \in Lessons
  BY Shapes, ChatAssumption DEF Job
<1>f. ASSUME faults' = faults + 1, faults < MaxFaults PROVE faults' \in 0..MaxFaults
  BY <1>f, ChatAssumption DEF TypeOK
<1>1. CASE claimNextOutbox(w)
  <2>1. PICK m \in Claimable(w) :
          /\ docs' = [docs EXCEPT ![m] = [docs[m] EXCEPT !.status = "publishing",
                                                        !.owner = w, !.live = TRUE]]
          /\ \/ /\ worker' = [worker EXCEPT ![w] =
                                [at |-> "claimed", msg |-> m, seq |-> docs[m].seq]]
                /\ UNCHANGED faults
             \/ Fault /\ UNCHANGED worker
    BY <1>1 DEF claimNextOutbox
  <2>2. m \in Calls /\ docs[m] \in Doc
    BY Shapes DEF Claimable
  <2>3. [docs[m] EXCEPT !.status = "publishing", !.owner = w, !.live = TRUE] \in Doc
    BY <2>2 DEF Doc
  <2>4. docs' \in [Calls -> Doc \cup {NoDoc}]
    BY <2>1, <2>2, <2>3 DEF TypeOK
  <2>5. [at |-> "claimed", msg |-> m, seq |-> docs[m].seq] \in Job
    BY <2>2 DEF Doc, Job, WorkerSteps
  <2>6. worker' \in [Workers -> Job \cup {Idle}]
    BY <2>1, <2>5 DEF TypeOK
  <2>7. faults' \in 0..MaxFaults
    BY <1>f, <2>1 DEF Fault, TypeOK
  <2> QED BY <1>1, <2>4, <2>6, <2>7 DEF claimNextOutbox, callVars, TypeOK
<1>2. CASE EnterGate(w)
  <2>1. worker' \in [Workers -> Job \cup {Idle}]
    BY <1>2, WorkerMoves DEF EnterGate, WorkerSteps
  <2> QED BY <1>2, <2>1 DEF EnterGate, callVars, TypeOK
<1>3. CASE HasEarlierUnpublished(w)
  <2>1. worker' \in [Workers -> Job \cup {Idle}]
    BY <1>3, WorkerMoves DEF HasEarlierUnpublished, WorkerSteps
  <2>2. faults' \in 0..MaxFaults
    BY <1>3, <1>f DEF HasEarlierUnpublished, Fault, TypeOK
  <2> QED BY <1>3, <2>1, <2>2 DEF HasEarlierUnpublished, callVars, TypeOK
<1>4. ASSUME Publish(w), worker[w].at # "idle" PROVE kafka' \in [Lessons -> Seq(Record)]
  <2>1. [msg |-> worker[w].msg, seq |-> worker[w].seq] \in Record
    BY <1>m, <1>4 DEF Record
  <2> QED BY <1>m, <1>4, <2>1 DEF Publish, TypeOK
<1>5. CASE writeOnce(w)
  <2>1. worker' \in [Workers -> Job \cup {Idle}]
    BY <1>5, WorkerMoves DEF writeOnce, WorkerSteps
  <2> QED BY <1>4, <1>5, <2>1 DEF writeOnce, callVars, TypeOK
<1>6. CASE WriteUnknown(w)
  BY <1>4, <1>6, <1>f DEF WriteUnknown, Fault, callVars, TypeOK
<1>7. CASE WriteFails(w)
  <2>1. worker' \in [Workers -> Job \cup {Idle}]
    BY <1>7, WorkerMoves DEF WriteFails, WorkerSteps
  <2> QED BY <1>7, <1>f, <2>1 DEF WriteFails, Fault, callVars, TypeOK
<1>8. CASE DeferForOrdering(w) \/ MarkRetry(w) \/ MarkPublished(w)
  BY <1>8, FinishTyped, FieldsTyped DEF DeferForOrdering, MarkRetry, MarkPublished
<1> QED BY <1>1, <1>2, <1>3, <1>5, <1>6, <1>7, <1>8 DEF drain

(* Time, crashes and deletions.                                            *)
LEMMA WorldTyped ==
  ASSUME TypeOK,
         \/ \E m \in Calls : Due(m) \/ LeaseExpires(m)
         \/ \E i \in Instances : Crash(i)
         \/ \E l \in Lessons : DelHistory(l)
  PROVE  TypeOK'
<1>f. ASSUME Fault PROVE faults' \in 0..MaxFaults
  BY <1>f, ChatAssumption DEF TypeOK, Fault
<1>1. ASSUME NEW m \in Calls, Due(m) PROVE TypeOK'
  <2>1. [docs[m] EXCEPT !.due = TRUE] \in Doc
    BY <1>1, Shapes DEF Due, Doc
  <2>2. docs' \in [Calls -> Doc \cup {NoDoc}]
    BY <1>1, <2>1 DEF Due, TypeOK
  <2> QED BY <1>1, <2>2 DEF Due, callVars, TypeOK
<1>2. ASSUME NEW m \in Calls, LeaseExpires(m) PROVE TypeOK'
  <2>1. [docs[m] EXCEPT !.live = FALSE] \in Doc
    BY <1>2, Shapes DEF LeaseExpires, Doc
  <2>2. docs' \in [Calls -> Doc \cup {NoDoc}]
    BY <1>2, <2>1 DEF LeaseExpires, TypeOK
  <2>3. faults' \in 0..MaxFaults
    BY <1>2, <1>f DEF LeaseExpires, TypeOK
  <2> QED BY <1>2, <2>2, <2>3 DEF LeaseExpires, callVars, TypeOK
<1>3. ASSUME NEW i \in Instances, Crash(i) PROVE TypeOK'
  <2>1. \A m \in Calls : docs[m] # NoDoc => [docs[m] EXCEPT !.owner = NoOne] \in Doc
    BY DEF TypeOK, Doc
  <2>2. docs' \in [Calls -> Doc \cup {NoDoc}]
    BY <1>3, <2>1 DEF Crash, TypeOK
  <2>3. worker' \in [Workers -> Job \cup {Idle}]
    BY <1>3 DEF Crash, TypeOK
  <2> QED BY <1>3, <1>f, <2>2, <2>3 DEF Crash, callVars, TypeOK
<1>4. ASSUME NEW l \in Lessons, DelHistory(l) PROVE TypeOK'
  BY <1>4 DEF DelHistory, callVars, TypeOK, Stored
<1> QED BY <1>1, <1>2, <1>3, <1>4

\* The variables have their types at the start.
LEMMA TypeStart == Init => TypeOK
BY ChatAssumption DEF Init, TypeOK, Call, CallSteps, Idle

\* No step breaks the types.
LEMMA TypeStep == TypeOK /\ [Next]_vars => TypeOK'
<1>1. ASSUME TypeOK, UNCHANGED vars PROVE TypeOK'
  BY <1>1 DEF vars, TypeOK
<1> QED BY <1>1, CallTyped, WorkerTyped, WorldTyped DEF Next

----------------------------------------------------------------------------
\* What a sequence with one more element is.
LEMMA Appended ==
  ASSUME NEW S, NEW s \in Seq(S), NEW x \in S, NEW t, t = Append(s, x)
  PROVE  /\ DOMAIN t = 1..(Len(s) + 1)
         /\ DOMAIN s = 1..Len(s) /\ Len(s) \in Nat
         /\ \A k \in 1..Len(s) : t[k] = s[k]
         /\ t[Len(s) + 1] = x
  OBVIOUS

(* Appending a record.                                                     *)
LEMMA PublishSends ==
  ASSUME TypeOK, OwnPartition, NEW w \in Workers, worker[w].at # "idle", Publish(w)
  PROVE  /\ OwnPartition'
         /\ \A m \in Calls : Sent(m)' <=> Sent(m) \/ m = worker[w].msg
<1> DEFINE n == worker[w].msg
           l == Lesson[n]
           rec == [msg |-> n, seq |-> worker[w].seq]
<1>1. n \in Calls /\ worker[w].seq \in Nat /\ l \in Lessons
  BY Shapes, ChatAssumption DEF Job
<1>2. kafka \in [Lessons -> Seq(Record)] /\ rec \in Record
  BY <1>1 DEF TypeOK, Record
<1>3. kafka' = [kafka EXCEPT ![l] = Append(kafka[l], rec)]
  BY DEF Publish
<1>4. /\ kafka'[l] = Append(kafka[l], rec)
      /\ \A k \in Lessons \ {l} : kafka'[k] = kafka[k]
  BY <1>1, <1>2, <1>3
<1>5. kafka[l] \in Seq(Record)
  BY <1>1, <1>2
<1>6. /\ DOMAIN kafka'[l] = 1..(Len(kafka[l]) + 1)
      /\ DOMAIN kafka[l] = 1..Len(kafka[l]) /\ Len(kafka[l]) \in Nat
      /\ \A k \in 1..Len(kafka[l]) : kafka'[l][k] = kafka[l][k]
      /\ kafka'[l][Len(kafka[l]) + 1] = rec
  <2> HIDE DEF n, l, rec
  <2> QED BY <1>2, <1>4, <1>5, Appended
<1>7. OwnPartition'
  <2>0. Lesson[rec.msg] = l
    OBVIOUS
  <2> HIDE DEF n, l, rec
  <2> SUFFICES ASSUME NEW x \in Lessons, NEW k \in DOMAIN kafka'[x]
               PROVE  Lesson[kafka'[x][k].msg] = x
    BY DEF OwnPartition
  <2>1. CASE x # l
    BY <1>4, <2>1 DEF OwnPartition
  <2>2. CASE x = l /\ k = Len(kafka[l]) + 1
    BY <1>6, <2>0, <2>2
  <2>3. CASE x = l /\ k \in 1..Len(kafka[l])
    BY <1>1, <1>6, <2>3 DEF OwnPartition
  <2> QED BY <1>6, <2>1, <2>2, <2>3
<1>8. ASSUME NEW m \in Calls PROVE Sent(m)' <=> Sent(m) \/ m = n
  <2>1. CASE Lesson[m] # l
    <3>1. Lesson[m] \in Lessons
      BY ChatAssumption
    <3> QED BY <1>4, <2>1, <3>1 DEF Sent
  <2>2. CASE Lesson[m] = l
    <3>0. rec.msg = n
      OBVIOUS
    <3> HIDE DEF n, l, rec
    <3>1. ASSUME Sent(m) PROVE Sent(m)'
      <4>1. PICK k \in 1..Len(kafka[l]) : kafka[l][k].msg = m
        BY <1>6, <2>2, <3>1 DEF Sent
      <4>2. k \in DOMAIN kafka'[l] /\ kafka'[l][k].msg = m
        BY <1>6, <4>1
      <4> QED BY <2>2, <4>2 DEF Sent
    <3>2. ASSUME m = n PROVE Sent(m)'
      <4>1. Len(kafka[l]) + 1 \in DOMAIN kafka'[l] /\ kafka'[l][Len(kafka[l]) + 1].msg = m
        BY <1>6, <3>0, <3>2
      <4> QED BY <2>2, <4>1 DEF Sent
    <3>3. ASSUME Sent(m)' PROVE Sent(m) \/ m = n
      <4>1. PICK k \in DOMAIN kafka'[l] : kafka'[l][k].msg = m
        BY <2>2, <3>3 DEF Sent
      <4>2. CASE k \in 1..Len(kafka[l])
        BY <1>6, <2>2, <4>1, <4>2 DEF Sent
      <4>3. CASE k = Len(kafka[l]) + 1
        BY <1>6, <3>0, <4>1, <4>3
      <4> QED BY <1>6, <4>1, <4>2, <4>3
    <3> QED BY <3>1, <3>2, <3>3
  <2> QED BY <2>1, <2>2
<1> QED BY <1>7, <1>8

(* A step that neither takes a time nor stores a message.                  *)
Tame ==
  /\ UNCHANGED <<stamp, seen>> /\ OwnPartition'
  /\ \A m \in Calls :
       /\ Posted(m) => Posted(m)'
       /\ Sent(m) => Sent(m)'
       /\ Sent(m)' => Sent(m) \/ (Posted(m) /\ Behind(m))
       /\ docs[m] = NoDoc => docs'[m] = NoDoc
       /\ docs'[m] = NoDoc => docs[m] = NoDoc \/ m \in deleted'
       /\ m \in deleted => m \in deleted'
       /\ m \in deleted' => m \in deleted \/ m \in Stored
       /\ docs'[m].status = "published" => docs[m].status = "published" \/ Sent(m)
  /\ \A w \in Workers :
       /\ worker'[w] # Idle => Posted(worker'[w].msg) /\ worker'[w].msg \in Calls
       /\ worker'[w].at \in {"clear", "written"} => Behind(worker'[w].msg)
       /\ \A m \in Calls : worker'[w].at = "written" /\ worker'[w].msg = m => Sent(m)'

(* A tame step keeps the invariant of the relay.                           *)
LEMMA TameStep ==
  ASSUME RelayInv, TypeOK', Tame
  PROVE  RelayInv'
<1>b. ASSUME NEW m \in Calls, Behind(m) PROVE Behind(m)'
  <2>1. seen[m] \subseteq Calls
    BY DEF RelayInv, TypeOK
  <2> QED BY <1>b, <2>1 DEF Behind, Tame
<1>p. ASSUME NEW m \in Calls, ~Posted(m)' PROVE ~Posted(m) /\ Fresh(m)
  BY <1>p DEF Tame, RelayInv
<1>1. ASSUME NEW m \in Calls PROVE Fresh(m)'
  <2> SUFFICES ASSUME ~Posted(m)' PROVE Fresh(m)'
    BY DEF Fresh
  <2>1. /\ docs[m] = NoDoc /\ m \notin deleted /\ seen[m] = {} /\ ~Sent(m) /\ ~Posted(m)
    BY <1>p DEF Fresh
  <2>2. docs'[m] = NoDoc /\ m \notin deleted' /\ seen'[m] = {}
    BY <2>1 DEF Tame, Stored
  <2>3. ~Sent(m)'
    BY <2>1 DEF Tame
  <2>4. \A w \in Workers : worker'[w] # Idle => worker'[w].msg # m
    BY <2>1 DEF Tame
  <2> QED BY <2>2, <2>3, <2>4 DEF Fresh
<1>2. ASSUME NEW m \in Calls PROVE SeenStays(m)'
  <2>1. SeenStays(m) /\ seen[m] \subseteq Calls
    BY DEF RelayInv, TypeOK
  <2>2. ASSUME NEW m1 \in seen[m] PROVE Earlier(m1, m)' /\ (m1 \in Stored' \/ m1 \in deleted')
    BY <2>1 DEF SeenStays, Tame, Earlier, Stored
  <2> QED BY <2>2 DEF SeenStays, Tame
<1>3. ASSUME NEW w \in Workers PROVE WorkerKnows(w)'
  <2>1. Idle.at \notin {"clear", "written"}
    BY DEF Idle
  <2>2. worker'[w].at \in {"clear", "written"} => worker'[w].msg \in Calls
    BY <2>1 DEF Tame
  <2> QED BY <1>b, <2>2 DEF WorkerKnows, Tame
<1>4. PublishedIsSent'
  <2> SUFFICES ASSUME NEW m \in Calls, m \in Stored', docs'[m].status = "published"
               PROVE  Sent(m)'
    BY DEF PublishedIsSent, Stored
  <2>1. docs[m] # NoDoc
    BY DEF Tame, Stored
  <2>2. Sent(m)
    BY <2>1 DEF Tame, RelayInv, PublishedIsSent, Stored
  <2> QED BY <2>2 DEF Tame
<1>5. OrderKept'
  <2> SUFFICES ASSUME NEW m \in Calls, Sent(m)' PROVE Behind(m)'
    BY DEF OrderKept, Behind
  <2>1. Behind(m)
    BY DEF Tame, RelayInv, OrderKept, Behind
  <2> QED BY <2>1, <1>b
<1> QED BY <1>1, <1>2, <1>3, <1>4, <1>5 DEF RelayInv, Tame

(* Taking the time: no message is ordered against a call that has none.    *)
LEMMA LiveChatStep ==
  ASSUME RelayInv, TypeOK', NEW c \in Calls, LiveChat(c)
  PROVE  RelayInv'
<1>1. call[c].at = "idle" /\ ~Posted(c) /\ Fresh(c)
  BY DEF LiveChat, Posted, RelayInv
<1>2. /\ \A m \in Calls \ {c} : stamp'[m] = stamp[m]
      /\ \A m \in Calls : Posted(m)' <=> Posted(m)
      /\ UNCHANGED <<docs, worker, kafka, deleted, seen>>
  <2>1. call'[c] = [call[c] EXCEPT !.at = "started"] /\ \A m \in Calls \ {c} : call'[m] = call[m]
    BY DEF LiveChat, RelayInv, TypeOK
  <2>2. call'[c].at = "started"
    BY <2>1 DEF RelayInv, TypeOK, Call
  <2> QED BY <1>1, <2>1, <2>2 DEF LiveChat, RelayInv, TypeOK, Posted
<1>3. \A m \in Calls : Sent(m)' <=> Sent(m)
  BY <1>2 DEF Sent
<1>4. ASSUME NEW m \in Calls PROVE Fresh(m)'
  BY <1>2, <1>3 DEF Fresh, RelayInv
<1>5. ASSUME NEW m \in Calls PROVE SeenStays(m)'
  <2>1. SeenStays(m) /\ seen[m] \subseteq Calls
    BY DEF RelayInv, TypeOK
  <2>2. ASSUME NEW m1 \in seen[m] PROVE m1 # c /\ m # c
    BY <1>1, <2>1 DEF SeenStays, Fresh, Stored
  <2>3. ASSUME NEW m1 \in seen[m] PROVE Earlier(m1, m)'
    BY <1>2, <2>1, <2>2 DEF SeenStays, Earlier
  <2> QED BY <1>2, <2>1, <2>3 DEF SeenStays, Stored
<1>6. ASSUME NEW w \in Workers PROVE WorkerKnows(w)'
  BY <1>2 DEF WorkerKnows, Behind, Sent, RelayInv
<1>7. PublishedIsSent' /\ OrderKept' /\ OwnPartition'
  BY <1>2 DEF PublishedIsSent, OrderKept, OwnPartition, Sent, Stored, RelayInv
<1> QED BY <1>4, <1>5, <1>6, <1>7 DEF RelayInv

(* Storing a message: its predecessors are in the outbox at that moment.   *)
LEMMA InsertStep ==
  ASSUME RelayInv, TypeOK', NEW c \in Calls, call[c].at = "started",
         docs' = [docs EXCEPT ![c] = NewDoc],
         seen' = [seen EXCEPT ![c] = {m \in Stored : Earlier(m, c)}],
         call' = [call EXCEPT ![c] = [at |-> "stored", msg |-> c, seq |-> 0]],
         UNCHANGED <<stamp, worker, kafka, deleted>>
  PROVE  RelayInv'
<1>1. TypeOK /\ ~Posted(c) /\ Fresh(c)
  BY DEF RelayInv, Posted
<1>2. /\ docs[c] = NoDoc /\ c \notin deleted /\ ~Sent(c)
      /\ \A w \in Workers : worker[w] # Idle => worker[w].msg # c
  BY <1>1 DEF Fresh
<1>3. /\ docs'[c] = NewDoc /\ NewDoc # NoDoc /\ NewDoc.status = "pending"
      /\ \A m \in Calls \ {c} : docs'[m] = docs[m] /\ seen'[m] = seen[m] /\ call'[m] = call[m]
      /\ seen'[c] = {m \in Stored : Earlier(m, c)} /\ call'[c].at = "stored"
  BY <1>1 DEF TypeOK, NewDoc, NoDoc
<1>4. \A m \in Calls : Sent(m)' <=> Sent(m)
  BY DEF Sent
<1>5. ASSUME NEW m \in Calls PROVE Fresh(m)'
  <2>1. CASE m = c
    BY <1>3, <2>1 DEF Fresh, Posted
  <2>2. CASE m # c
    BY <1>3, <1>4, <2>2 DEF Fresh, Posted, RelayInv
  <2> QED BY <2>1, <2>2
<1>6. ASSUME NEW m \in Calls PROVE SeenStays(m)'
  <2>1. CASE m = c
    <3>1. ASSUME NEW m1 \in seen'[c] PROVE Earlier(m1, c)' /\ m1 \in Stored'
      <4>1. m1 \in Calls /\ docs[m1] # NoDoc /\ Earlier(m1, c) /\ m1 # c
        BY <1>2, <1>3 DEF Stored
      <4> QED BY <1>3, <4>1 DEF Stored, Earlier
    <3> QED BY <2>1, <3>1 DEF SeenStays
  <2>2. CASE m # c
    <3>1. SeenStays(m) /\ seen[m] \subseteq Calls /\ seen'[m] = seen[m]
      BY <1>1, <1>3, <2>2 DEF RelayInv, TypeOK
    <3>2. ASSUME NEW m1 \in seen[m] PROVE Earlier(m1, m)' /\ (m1 \in Stored' \/ m1 \in deleted')
      BY <1>2, <1>3, <3>1 DEF SeenStays, Stored, Earlier
    <3> QED BY <3>1, <3>2 DEF SeenStays
  <2> QED BY <2>1, <2>2
<1>7. ASSUME NEW m \in Calls, m # c, Behind(m) PROVE Behind(m)'
  BY <1>3, <1>7 DEF Behind, Sent
<1>8. ASSUME NEW w \in Workers PROVE WorkerKnows(w)'
  <2>1. Idle.at \notin {"clear", "written"}
    BY DEF Idle
  <2>2. CASE worker[w] = Idle
    BY <2>1, <2>2 DEF WorkerKnows
  <2>3. CASE worker[w] # Idle
    <3>1. worker[w].msg \in Calls /\ worker[w].msg # c
      BY <1>1, <1>2, <2>3, Shapes DEF Job
    <3> QED BY <1>4, <1>7, <3>1 DEF WorkerKnows, RelayInv
  <2> QED BY <2>2, <2>3
<1>9. PublishedIsSent'
  BY <1>3, <1>4 DEF PublishedIsSent, RelayInv, Stored
<1>10. OrderKept'
  <2> SUFFICES ASSUME NEW m \in Calls, Sent(m)' PROVE Behind(m)'
    BY DEF OrderKept, Behind
  <2>1. m # c /\ Behind(m)
    BY <1>2, <1>4 DEF RelayInv, OrderKept, Behind
  <2> QED BY <1>7, <2>1
<1>11. OwnPartition'
  BY DEF RelayInv, OwnPartition
<1> QED BY <1>5, <1>6, <1>8, <1>9, <1>10, <1>11 DEF RelayInv

(* Steps that touch neither Kafka nor a worker nor the status of a message *)
(* are tame.                                                               *)
LEMMA QuietIsTame ==
  ASSUME RelayInv,
         UNCHANGED <<stamp, seen, worker, kafka, deleted>>,
         \A m \in Calls : /\ Posted(m) => Posted(m)'
                          /\ docs'[m] = NoDoc <=> docs[m] = NoDoc
                          /\ docs'[m].status = docs[m].status
  PROVE  Tame
<1>1. \A m \in Calls : Sent(m)' <=> Sent(m)
  BY DEF Sent
<1>2. OwnPartition'
  BY DEF OwnPartition, RelayInv
<1>3. ASSUME NEW w \in Workers
      PROVE  /\ worker'[w] # Idle => Posted(worker'[w].msg) /\ worker'[w].msg \in Calls
             /\ worker'[w].at \in {"clear", "written"} => Behind(worker'[w].msg)
             /\ \A m \in Calls : worker'[w].at = "written" /\ worker'[w].msg = m => Sent(m)'
  <2>1. worker[w] # Idle => worker[w].msg \in Calls
    BY Shapes DEF RelayInv, Job
  <2>2. worker[w] # Idle => Posted(worker[w].msg)
    BY <2>1 DEF RelayInv, Fresh
  <2>3. WorkerKnows(w)
    BY DEF RelayInv
  <2> QED BY <1>1, <2>1, <2>2, <2>3 DEF WorkerKnows
<1> QED BY <1>1, <1>2, <1>3 DEF Tame

(* The steps of a LiveChat handler keep the invariant of the relay.        *)
LEMMA CallKeepsRelay ==
  ASSUME RelayInv, TypeOK', NEW c \in Calls, CallNext(c)
  PROVE  RelayInv'
<1>t. TypeOK /\ call \in [Calls -> Call] /\ docs \in [Calls -> Doc \cup {NoDoc}]
  BY DEF RelayInv, TypeOK
<1>c. call[c] \in Call
  BY <1>t
<1>p. ASSUME NEW at \in {"numbered", "done"}, call'[c].at = at,
             \A m \in Calls \ {c} : call'[m] = call[m]
      PROVE  \A m \in Calls : Posted(m) => Posted(m)'
  BY <1>p DEF Posted
<1>1. CASE LiveChat(c)
  BY <1>1, LiveChatStep
<1>2. CASE InsertMessageIdempotent(c)
  <2>1. CASE /\ docs' = [docs EXCEPT ![c] = NewDoc]
             /\ seen' = [seen EXCEPT ![c] = {m \in Stored : Earlier(m, c)}]
             /\ call' = [call EXCEPT ![c] = [at |-> "stored", msg |-> c, seq |-> 0]]
    BY <1>2, <2>1, InsertStep DEF InsertMessageIdempotent
  <2>2. ASSUME NEW m \in Stored, UNCHANGED <<docs, seen>>,
               NEW r \in Answers(m, c), call' = [call EXCEPT ![c] = r]
        PROVE  RelayInv'
    <3>1. \A n \in Calls : Posted(n) => Posted(n)'
      BY <1>t, <2>2 DEF Posted, Answers
    <3>2. UNCHANGED <<stamp, seen, worker, kafka, deleted>>
      BY <1>2, <2>2 DEF InsertMessageIdempotent
    <3>3. Tame
      BY <2>2, <3>1, <3>2, QuietIsTame
    <3> QED BY <3>3, TameStep
  <2> QED BY <1>2, <2>1, <2>2 DEF InsertMessageIdempotent, Answers, End
<1>3. CASE AllocateLessonSeq(c)
  <2>1. \A m \in Calls : Posted(m) => Posted(m)'
    BY <1>3, <1>t DEF AllocateLessonSeq, Posted
  <2>2. Tame
    BY <1>3, <2>1, QuietIsTame DEF AllocateLessonSeq
  <2> QED BY <2>2, TameStep
<1>4. CASE AlreadyNumbered(c) \/ CallDies(c)
  <2>1. call'[c].at = "done" /\ \A m \in Calls \ {c} : call'[m] = call[m]
    BY <1>t, <1>4 DEF AlreadyNumbered, CallDies, End
  <2>2. Tame
    BY <1>4, <1>p, <2>1, QuietIsTame DEF AlreadyNumbered, CallDies
  <2> QED BY <2>2, TameStep
<1>5. CASE SetLessonSeq(c)
  <2>1. \A m \in Calls \ {c} : call'[m] = call[m]
    BY <1>t, <1>5 DEF SetLessonSeq, End
  <2>2. call'[c].at = "done"
    BY <1>t, <1>5 DEF SetLessonSeq, End
  <2> DEFINE n == call[c].msg
  <2>3. n \in Calls /\ call[c].seq \in Nat
    BY <1>c DEF Call
  <2>4. ASSUME NEW m \in Calls
        PROVE  (docs'[m] = NoDoc <=> docs[m] = NoDoc) /\ docs'[m].status = docs[m].status
    <3>1. CASE docs[n] = NoDoc \/ m # n
      BY <1>5, <1>t, <2>3, <3>1 DEF SetLessonSeq
    <3>2. CASE docs[n] # NoDoc /\ m = n
      <4>1. docs[n] \in Doc
        BY <1>t, <2>3, <3>2
      <4>2. docs'[n] = [docs[n] EXCEPT !.seq = call[c].seq]
        BY <1>5, <1>t, <2>3, <3>2 DEF SetLessonSeq
      <4>3. docs'[n] \in Doc /\ docs'[n].status = docs[n].status
        BY <2>3, <4>1, <4>2 DEF Doc
      <4>4. docs'[n].status # "none" /\ NoDoc.status = "none"
        BY <4>3 DEF Doc, NoDoc
      <4> QED BY <3>2, <4>3, <4>4
    <3> QED BY <3>1, <3>2
  <2>5. Tame
    BY <1>5, <1>p, <2>1, <2>2, <2>4, QuietIsTame DEF SetLessonSeq
  <2> QED BY <2>5, TameStep
<1> QED BY <1>1, <1>2, <1>3, <1>4, <1>5 DEF CallNext

(* What the invariant says of a worker's job.                              *)
LEMMA JobKnown ==
  ASSUME RelayInv, NEW w \in Workers
  PROVE  /\ worker[w] # Idle => worker[w].msg \in Calls /\ Posted(worker[w].msg)
         /\ worker[w].at # "idle" => worker[w] # Idle
         /\ worker[w].at \in {"clear", "written"} => Behind(worker[w].msg)
         /\ worker[w].at = "written" => Sent(worker[w].msg)
<1>1. worker[w] # Idle => worker[w].msg \in Calls
  BY Shapes DEF RelayInv, Job
<1>2. worker[w] # Idle => Posted(worker[w].msg)
  BY <1>1 DEF RelayInv, Fresh
<1>3. WorkerKnows(w) /\ (worker[w].at # "idle" => worker[w] # Idle)
  BY Shapes DEF RelayInv
<1> QED BY <1>1, <1>2, <1>3 DEF WorkerKnows

(* A step of one worker that appends no record is tame, when what the      *)
(* worker knows afterwards is true.                                        *)
LEMMA MoveIsTame ==
  ASSUME RelayInv, NEW w \in Workers,
         UNCHANGED <<call, stamp, seen, kafka, deleted>>,
         \A v \in Workers \ {w} : worker'[v] = worker[v],
         \A m \in Calls : /\ docs'[m] = NoDoc <=> docs[m] = NoDoc
                          /\ docs'[m].status = "published" =>
                               docs[m].status = "published" \/ Sent(m),
         worker'[w] # Idle => worker'[w].msg \in Calls /\ Posted(worker'[w].msg),
         worker'[w].at = "clear" => Behind(worker'[w].msg),
         worker'[w].at # "written"
  PROVE  Tame
<1>1. \A m \in Calls : (Sent(m)' <=> Sent(m)) /\ (Posted(m)' <=> Posted(m))
  BY DEF Sent, Posted
<1>2. OwnPartition'
  BY DEF OwnPartition, RelayInv
<1>3. ASSUME NEW v \in Workers
      PROVE  /\ worker'[v] # Idle => Posted(worker'[v].msg) /\ worker'[v].msg \in Calls
             /\ worker'[v].at \in {"clear", "written"} => Behind(worker'[v].msg)
             /\ \A m \in Calls : worker'[v].at = "written" /\ worker'[v].msg = m => Sent(m)'
  <2>1. CASE v = w
    BY <2>1
  <2>2. CASE v # w
    BY <1>1, <2>2, JobKnown
  <2> QED BY <2>1, <2>2
<1> QED BY <1>1, <1>2, <1>3 DEF Tame

(* Appending the record of a message whose predecessors are out is tame.   *)
LEMMA WriteIsTame ==
  ASSUME RelayInv, NEW w \in Workers, worker[w].at = "clear", Publish(w),
         UNCHANGED <<call, stamp, seen, docs, deleted>>,
         \A v \in Workers \ {w} : worker'[v] = worker[v],
         worker'[w].msg = worker[w].msg
  PROVE  Tame
<1> DEFINE n == worker[w].msg
<1>0. TypeOK /\ OwnPartition
  BY DEF RelayInv
<1>1. n \in Calls /\ Posted(n) /\ Behind(n)
  BY JobKnown
<1>2. OwnPartition' /\ \A m \in Calls : Sent(m)' <=> Sent(m) \/ m = n
  BY <1>0, PublishSends
<1>3. \A m \in Calls : Posted(m)' <=> Posted(m)
  BY DEF Posted
<1>4. ASSUME NEW v \in Workers
      PROVE  /\ worker'[v] # Idle => Posted(worker'[v].msg) /\ worker'[v].msg \in Calls
             /\ worker'[v].at \in {"clear", "written"} => Behind(worker'[v].msg)
             /\ \A m \in Calls : worker'[v].at = "written" /\ worker'[v].msg = m => Sent(m)'
  <2>1. CASE v = w
    BY <1>1, <1>2, <2>1
  <2>2. CASE v # w
    BY <1>2, <2>2, JobKnown
  <2> QED BY <2>1, <2>2
<1> HIDE DEF n
<1> QED BY <1>1, <1>2, <1>3, <1>4 DEF Tame

(* The fence: when nothing earlier is unpublished, every predecessor that  *)
(* was not deleted is in Kafka.                                            *)
LEMMA FenceClears ==
  ASSUME RelayInv, NEW m \in Calls,
         ~\E m1 \in Stored : Earlier(m1, m) /\ Unpublished(m1)
  PROVE  Behind(m)
<1> SUFFICES ASSUME NEW m1 \in seen[m], m1 \notin deleted PROVE Sent(m1)
  BY DEF Behind
<1>1. Earlier(m1, m) /\ m1 \in Stored
  BY DEF RelayInv, SeenStays
<1>2. docs[m1] \in Doc
  BY <1>1, Shapes DEF RelayInv
<1>3. docs[m1].status = "published"
  BY <1>1, <1>2 DEF Unpublished, Doc
<1> QED BY <1>1, <1>3 DEF RelayInv, PublishedIsSent

(* The steps of a relay worker keep the invariant.                         *)
LEMMA WorkerKeepsRelay ==
  ASSUME RelayInv, TypeOK', NEW w \in Workers,
         drain(w) \/ WriteUnknown(w) \/ WriteFails(w)
  PROVE  RelayInv'
<1>t. TypeOK /\ docs \in [Calls -> Doc \cup {NoDoc}] /\ worker \in [Workers -> Job \cup {Idle}]
  BY DEF RelayInv, TypeOK
<1>i. Idle.at = "idle" /\ NoDoc.status = "none"
  BY DEF Idle, NoDoc
<1>j. worker[w].at # "idle" =>
        worker[w] # Idle /\ worker[w].msg \in Calls /\ Posted(worker[w].msg)
  BY JobKnown
<1>m. ASSUME worker[w].at # "idle", NEW at \in {"gated", "clear", "failed", "defer"},
             worker' = [worker EXCEPT ![w].at = at],
             at = "clear" => Behind(worker[w].msg),
             UNCHANGED <<callVars, docs, kafka, deleted, seen>>
      PROVE  RelayInv'
  <2>1. /\ worker'[w] = [at |-> at, msg |-> worker[w].msg, seq |-> worker[w].seq]
        /\ \A v \in Workers \ {w} : worker'[v] = worker[v]
    BY <1>t, <1>m, WorkerMoves DEF WorkerSteps
  <2>2. worker'[w].at = at /\ worker'[w].msg = worker[w].msg
    BY <2>1
  <2>3. Tame
    BY <1>j, <1>m, <2>1, <2>2, MoveIsTame DEF callVars
  <2> QED BY <2>3, TameStep
<1>1. CASE claimNextOutbox(w)
  <2>1. PICK m \in Claimable(w) :
          /\ docs' = [docs EXCEPT ![m] = [docs[m] EXCEPT !.status = "publishing",
                                                        !.owner = w, !.live = TRUE]]
          /\ \/ worker' = [worker EXCEPT ![w] =
                             [at |-> "claimed", msg |-> m, seq |-> docs[m].seq]]
             \/ UNCHANGED worker
    BY <1>1 DEF claimNextOutbox
  <2>2. m \in Calls /\ docs[m] \in Doc /\ docs[m] # NoDoc
    BY <1>t, Shapes DEF Claimable, Stored
  <2>3. docs'[m].status = "publishing" /\ \A n \in Calls \ {m} : docs'[n] = docs[n]
    BY <1>t, <2>1, <2>2 DEF Doc
  <2>4. Posted(m)
    BY <2>2 DEF RelayInv, Fresh
  <2>u. UNCHANGED <<call, stamp, seen, kafka, deleted>>
    BY <1>1 DEF claimNextOutbox, callVars
  <2>7. \A n \in Calls : /\ docs'[n] = NoDoc <=> docs[n] = NoDoc
                         /\ docs'[n].status = "published" => docs[n].status = "published"
    BY <1>i, <2>2, <2>3
  <2>5. CASE worker' = [worker EXCEPT ![w] = [at |-> "claimed", msg |-> m, seq |-> docs[m].seq]]
    <3>1. /\ worker'[w] = [at |-> "claimed", msg |-> m, seq |-> docs[m].seq]
          /\ \A v \in Workers \ {w} : worker'[v] = worker[v]
      BY <1>t, <2>5
    <3>2. Tame
      BY <2>u, <2>2, <2>4, <2>7, <3>1, MoveIsTame
    <3> QED BY <3>2, TameStep
  <2>6. CASE UNCHANGED worker
    <3>1. worker'[w] = Idle
      BY <1>1, <2>6 DEF claimNextOutbox
    <3>2. Tame
      BY <1>i, <2>u, <2>6, <2>7, <3>1, MoveIsTame
    <3> QED BY <3>2, TameStep
  <2> QED BY <2>1, <2>5, <2>6
<1>2. CASE EnterGate(w)
  BY <1>2, <1>m DEF EnterGate
<1>3. CASE HasEarlierUnpublished(w)
  <2>1. PICK at \in {"clear", "defer"} :
          /\ worker' = [worker EXCEPT ![w].at = at]
          /\ at = "clear" =>
               ~\E m1 \in Stored : Earlier(m1, worker[w].msg) /\ Unpublished(m1)
    BY <1>3 DEF HasEarlierUnpublished
  <2>2. at = "clear" => Behind(worker[w].msg)
    BY <1>3, <1>j, <2>1, FenceClears DEF HasEarlierUnpublished
  <2> QED BY <1>3, <1>m, <2>1, <2>2 DEF HasEarlierUnpublished
<1>4. CASE writeOnce(w)
  <2>1. /\ worker'[w] = [at |-> "written", msg |-> worker[w].msg, seq |-> worker[w].seq]
        /\ \A v \in Workers \ {w} : worker'[v] = worker[v]
    BY <1>t, <1>4, WorkerMoves DEF writeOnce, WorkerSteps
  <2>2. Tame
    BY <1>4, <2>1, WriteIsTame DEF writeOnce, callVars
  <2> QED BY <2>2, TameStep
<1>5. CASE WriteUnknown(w)
  <2>1. Tame
    BY <1>5, WriteIsTame DEF WriteUnknown, callVars
  <2> QED BY <2>1, TameStep
<1>6. CASE WriteFails(w)
  BY <1>6, <1>m DEF WriteFails
<1>7. ASSUME NEW fields \in Doc, worker[w].at # "idle", Finish(w, fields),
             fields.status = "published" => Sent(worker[w].msg)
      PROVE  RelayInv'
  <2> DEFINE n == worker[w].msg
  <2>1. worker'[w] = Idle /\ \A v \in Workers \ {w} : worker'[v] = worker[v]
    BY <1>7, <1>t DEF Finish
  <2>2. ASSUME NEW m \in Calls
        PROVE  /\ docs'[m] = NoDoc <=> docs[m] = NoDoc
               /\ docs'[m].status = "published" => docs[m].status = "published" \/ Sent(m)
    <3>1. CASE docs'[m] = docs[m]
      BY <3>1
    <3>2. CASE docs'[m] # docs[m]
      <4>1. Owns(w, n) /\ docs' = [docs EXCEPT ![n] = [fields EXCEPT !.seq = docs[n].seq]]
        BY <1>7, <3>2 DEF Finish, Update
      <4>2. m = n /\ docs'[n] = [fields EXCEPT !.seq = docs[n].seq]
        BY <1>t, <3>2, <4>1
      <4>3. docs[n] # NoDoc /\ docs[n] \in Doc
        BY <1>t, <1>j, <1>7, <4>1 DEF Owns
      <4>4. docs'[n].status = fields.status /\ fields.status # "none"
        BY <4>2 DEF Doc
      <4> QED BY <1>7, <1>i, <4>2, <4>3, <4>4
    <3> QED BY <3>1, <3>2
  <2>3. Tame
    BY <1>7, <1>i, <2>1, <2>2, MoveIsTame DEF Finish, callVars
  <2> QED BY <2>3, TameStep
<1>8. CASE DeferForOrdering(w) \/ MarkRetry(w)
  <2>1. Released \in Doc /\ Released.status # "published"
    BY FieldsTyped DEF Released
  <2> QED BY <1>7, <1>8, <2>1 DEF DeferForOrdering, MarkRetry
<1>9. CASE MarkPublished(w)
  <2>1. Sent(worker[w].msg)
    BY <1>9, JobKnown DEF MarkPublished
  <2> QED BY <1>7, <1>9, <2>1, FieldsTyped DEF MarkPublished
<1> QED BY <1>1, <1>2, <1>3, <1>4, <1>5, <1>6, <1>8, <1>9 DEF drain

(* Time, crashes and deletions keep the invariant of the relay.            *)
LEMMA WorldKeepsRelay ==
  ASSUME RelayInv, TypeOK',
         \/ \E m \in Calls : Due(m) \/ LeaseExpires(m)
         \/ \E i \in Instances : Crash(i)
         \/ \E l \in Lessons : DelHistory(l)
  PROVE  RelayInv'
<1>t. TypeOK /\ docs \in [Calls -> Doc \cup {NoDoc}] /\ worker \in [Workers -> Job \cup {Idle}]
  BY DEF RelayInv, TypeOK
<1>i. Idle.at = "idle" /\ NoDoc.status = "none" /\ \A d \in Doc : d.status # "none"
  BY DEF Idle, NoDoc, Doc
<1>1. ASSUME NEW m \in Calls, Due(m) \/ LeaseExpires(m) PROVE RelayInv'
  <2>1. m \in Stored /\ UNCHANGED <<call, stamp, seen, worker, kafka, deleted>>
    BY <1>1 DEF Due, LeaseExpires, callVars
  <2>2. docs[m] \in Doc /\ docs[m] # NoDoc
    BY <1>t, <2>1, Shapes DEF Stored
  <2>3. docs'[m] \in Doc /\ docs'[m].status = docs[m].status
    <3>1. CASE Due(m)
      BY <1>t, <2>2, <3>1 DEF Due, Doc
    <3>2. CASE LeaseExpires(m)
      BY <1>t, <2>2, <3>2 DEF LeaseExpires, Doc
    <3> QED BY <1>1, <3>1, <3>2
  <2>4. \A n \in Calls \ {m} : docs'[n] = docs[n]
    BY <1>t, <1>1 DEF Due, LeaseExpires
  <2>5. Tame
    BY <1>i, <2>1, <2>2, <2>3, <2>4, QuietIsTame DEF Posted
  <2> QED BY <2>5, TameStep
<1>2. ASSUME NEW i \in Instances, Crash(i) PROVE RelayInv'
  <2>1. UNCHANGED <<call, stamp, seen, kafka, deleted>>
    BY <1>2 DEF Crash, callVars
  <2>2. \A w \in Workers : worker'[w] = worker[w] \/ worker'[w] = Idle
    BY <1>2 DEF Crash
  <2>3. ASSUME NEW m \in Calls
        PROVE  (docs'[m] = NoDoc <=> docs[m] = NoDoc) /\ docs'[m].status = docs[m].status
    <3>1. CASE docs'[m] = docs[m]
      BY <3>1
    <3>2. CASE docs'[m] # docs[m]
      <4>1. docs[m] # NoDoc /\ docs'[m] = [docs[m] EXCEPT !.owner = NoOne]
        BY <1>2, <3>2 DEF Crash
      <4>2. docs[m] \in Doc
        BY <1>t, <4>1
      <4>3. docs'[m].status = docs[m].status
        BY <4>1, <4>2 DEF Doc
      <4> QED BY <1>i, <4>1, <4>2, <4>3
    <3> QED BY <3>1, <3>2
  <2>4. \A m \in Calls : (Sent(m)' <=> Sent(m)) /\ (Posted(m)' <=> Posted(m))
    BY <2>1 DEF Sent, Posted
  <2>5. OwnPartition'
    BY <2>1 DEF OwnPartition, RelayInv
  <2>6. ASSUME NEW v \in Workers
        PROVE  /\ worker'[v] # Idle => Posted(worker'[v].msg) /\ worker'[v].msg \in Calls
               /\ worker'[v].at \in {"clear", "written"} => Behind(worker'[v].msg)
               /\ \A m \in Calls : worker'[v].at = "written" /\ worker'[v].msg = m => Sent(m)'
    BY <1>i, <2>2, <2>4, JobKnown
  <2>7. Tame
    BY <2>1, <2>3, <2>4, <2>5, <2>6 DEF Tame
  <2> QED BY <2>7, TameStep
<1>3. ASSUME NEW l \in Lessons, DelHistory(l) PROVE RelayInv'
  <2> DEFINE gone == {m \in Stored : Lesson[m] = l}
  <2>1. /\ UNCHANGED <<call, stamp, seen, worker, kafka>>
        /\ deleted' = deleted \cup gone
        /\ \A m \in Calls : docs'[m] = IF m \in gone THEN NoDoc ELSE docs[m]
    BY <1>3 DEF DelHistory, callVars
  <2>2. \A m \in Calls : (Sent(m)' <=> Sent(m)) /\ (Posted(m)' <=> Posted(m))
    BY <2>1 DEF Sent, Posted
  <2>3. OwnPartition'
    BY <2>1 DEF OwnPartition, RelayInv
  <2>4. ASSUME NEW v \in Workers
        PROVE  /\ worker'[v] # Idle => Posted(worker'[v].msg) /\ worker'[v].msg \in Calls
               /\ worker'[v].at \in {"clear", "written"} => Behind(worker'[v].msg)
               /\ \A m \in Calls : worker'[v].at = "written" /\ worker'[v].msg = m => Sent(m)'
    BY <2>1, <2>2, JobKnown
  <2>5. \A m \in gone : m \in Stored
    OBVIOUS
  <2> HIDE DEF gone
  <2>6. ASSUME NEW m \in Calls
        PROVE  /\ docs[m] = NoDoc => docs'[m] = NoDoc
               /\ docs'[m] = NoDoc => docs[m] = NoDoc \/ m \in deleted'
               /\ m \in deleted => m \in deleted'
               /\ m \in deleted' => m \in deleted \/ m \in Stored
               /\ docs'[m].status = "published" => docs[m].status = "published" \/ Sent(m)
    BY <1>i, <2>1, <2>5
  <2>7. Tame
    BY <2>1, <2>2, <2>3, <2>4, <2>6 DEF Tame
  <2> QED BY <2>7, TameStep
<1> QED BY <1>1, <1>2, <1>3

\* The relay's invariant holds at the start.
LEMMA RelayStart == Init => RelayInv
<1> SUFFICES ASSUME Init PROVE RelayInv
  OBVIOUS
<1>1. TypeOK
  BY TypeStart
<1>2. /\ \A m \in Calls : call[m].at = "idle" /\ docs[m] = NoDoc /\ seen[m] = {}
      /\ \A w \in Workers : worker[w] = Idle
      /\ \A l \in Lessons : kafka[l] = <<>>
      /\ deleted = {} /\ Idle.at = "idle"
  BY DEF Init, Idle
<1>e. \A l \in Lessons : DOMAIN kafka[l] = {}
  <2>1. DOMAIN <<>> = {}
    OBVIOUS
  <2> QED BY <1>2, <2>1
<1>3. \A m \in Calls : ~Sent(m)
  <2>1. \A m \in Calls : Lesson[m] \in Lessons
    BY ChatAssumption
  <2> QED BY <1>e, <2>1 DEF Sent
<1>4. \A m \in Calls : Fresh(m) /\ SeenStays(m)
  BY <1>2, <1>3 DEF Fresh, SeenStays
<1>5. \A w \in Workers : WorkerKnows(w)
  BY <1>2 DEF WorkerKnows
<1>6. PublishedIsSent /\ OrderKept
  BY <1>2, <1>3 DEF PublishedIsSent, OrderKept, Stored
<1>7. OwnPartition
  BY <1>2 DEF OwnPartition
<1> QED BY <1>1, <1>4, <1>5, <1>6, <1>7 DEF RelayInv

\* A step that changes nothing keeps the relay's invariant.
LEMMA RelayStutters == RelayInv /\ UNCHANGED vars => RelayInv'
<1> SUFFICES ASSUME RelayInv, UNCHANGED vars PROVE RelayInv'
  OBVIOUS
<1>1. TypeOK'
  BY TypeStep DEF RelayInv
<1>2. Tame
  BY QuietIsTame DEF vars, Posted
<1> QED BY <1>1, <1>2, TameStep

(* The relay keeps its invariant in every reachable state.                 *)
THEOREM RelayInvariant == Spec => []RelayInv
<1>1. RelayInv /\ [Next]_vars => RelayInv'
  <2> SUFFICES ASSUME RelayInv, [Next]_vars PROVE RelayInv'
    OBVIOUS
  <2>1. TypeOK'
    BY TypeStep DEF RelayInv
  <2> QED BY <2>1, CallKeepsRelay, WorkerKeepsRelay, WorldKeepsRelay, RelayStutters DEF Next
<1> QED BY <1>1, RelayStart, PTL DEF Spec

(* Every table of the chat service stays well formed.                      *)
THEOREM ChatTypeCorrect == Spec => []TypeOK
<1>1. RelayInv => TypeOK
  BY DEF RelayInv
<1> QED BY <1>1, RelayInvariant, PTL

(* No message is lost: MarkPublished follows a record in Kafka, whatever   *)
(* leases expire, instances crash or updates fail.                         *)
THEOREM ChatNothingLost == Spec => []PublishedIsSent
<1>1. RelayInv => PublishedIsSent
  BY DEF RelayInv
<1> QED BY <1>1, RelayInvariant, PTL

(* Order within a lesson: the fence lets a message out only after the      *)
(* messages it found in the outbox, for any number of workers and          *)
(* instances.                                                              *)
THEOREM ChatOrderKept == Spec => []OrderKept
<1>1. RelayInv => OrderKept
  BY DEF RelayInv
<1> QED BY <1>1, RelayInvariant, PTL

----------------------------------------------------------------------------
(* A step leaves a published message published, or deletes it.             *)
StaysPublished ==
  \A m \in Stored :
    docs[m].status = "published" => docs'[m] = NoDoc \/ docs'[m].status = "published"

\* No step takes back a publication.
LEMMA PublishedStays ==
  ASSUME RelayInv, [Next]_vars
  PROVE  StaysPublished
<1>t. TypeOK /\ docs \in [Calls -> Doc \cup {NoDoc}] /\ call \in [Calls -> Call]
  BY DEF RelayInv, TypeOK
<1>f. ASSUME NEW m \in Calls, \A n \in Calls \ {m} : docs'[n] = docs[n],
             \/ docs[m] = NoDoc \/ docs[m].status # "published"
             \/ docs'[m].status = "published"
      PROVE  StaysPublished
  BY <1>f DEF StaysPublished, Stored
<1>1. CASE UNCHANGED docs
  BY <1>1 DEF StaysPublished
<1>2. ASSUME NEW c \in Calls, InsertMessageIdempotent(c), ~UNCHANGED docs PROVE StaysPublished
  <2>1. docs' = [docs EXCEPT ![c] = NewDoc] /\ call[c].at = "started"
    BY <1>2 DEF InsertMessageIdempotent
  <2>2. docs[c] = NoDoc
    BY <2>1 DEF RelayInv, Fresh, Posted
  <2> QED BY <1>f, <1>t, <2>1, <2>2
<1>3. ASSUME NEW c \in Calls, SetLessonSeq(c), ~UNCHANGED docs PROVE StaysPublished
  <2> DEFINE n == call[c].msg
  <2>1. n \in Calls /\ docs[n] # NoDoc /\ docs' = [docs EXCEPT ![n].seq = call[c].seq]
    BY <1>3, <1>t DEF SetLessonSeq, Call
  <2>2. docs[n] \in Doc /\ docs'[n] = [docs[n] EXCEPT !.seq = call[c].seq]
    BY <1>t, <2>1
  <2>3. docs'[n].status = docs[n].status
    BY <2>2 DEF Doc
  <2> QED BY <1>f, <1>t, <2>1, <2>3
<1>4. ASSUME NEW w \in Workers, claimNextOutbox(w) PROVE StaysPublished
  <2>1. PICK m \in Claimable(w) :
          docs' = [docs EXCEPT ![m] = [docs[m] EXCEPT !.status = "publishing",
                                                     !.owner = w, !.live = TRUE]]
    BY <1>4 DEF claimNextOutbox
  <2>2. m \in Calls /\ docs[m].status # "published"
    BY DEF Claimable, Stored
  <2> QED BY <1>f, <1>t, <2>1, <2>2
<1>5. ASSUME NEW w \in Workers, NEW fields \in Doc, worker[w].at # "idle", Finish(w, fields)
      PROVE  StaysPublished
  <2> DEFINE n == worker[w].msg
  <2>1. n \in Calls
    BY <1>5, JobKnown
  <2>2. UNCHANGED docs \/ (Owns(w, n) /\ docs' = [docs EXCEPT ![n] = [fields EXCEPT !.seq = docs[n].seq]])
    BY <1>5 DEF Finish, Update
  <2>3. Owns(w, n) => docs[n].status # "published"
    BY DEF Owns
  <2> QED BY <1>1, <1>f, <1>t, <2>1, <2>2, <2>3
<1>6. ASSUME NEW m \in Calls, Due(m) \/ LeaseExpires(m) PROVE StaysPublished
  <2>1. docs[m].status # "published" /\ \A n \in Calls \ {m} : docs'[n] = docs[n]
    BY <1>t, <1>6 DEF Due, LeaseExpires
  <2> QED BY <1>f, <2>1
<1>7. ASSUME NEW i \in Instances, Crash(i) PROVE StaysPublished
  <2>1. ASSUME NEW m \in Stored, docs[m].status = "published" PROVE docs'[m].status = "published"
    <3>1. m \in Calls /\ docs[m] \in Doc
      BY <1>t, Shapes
    <3>2. [docs[m] EXCEPT !.owner = NoOne].status = "published"
      BY <2>1, <3>1 DEF Doc
    <3> QED BY <1>7, <2>1, <3>1, <3>2 DEF Crash
  <2> QED BY <2>1 DEF StaysPublished
<1>8. ASSUME NEW l \in Lessons, DelHistory(l) PROVE StaysPublished
  BY <1>8 DEF DelHistory, StaysPublished, Stored
<1>9. ASSUME NEW c \in Calls, CallNext(c) PROVE StaysPublished
  BY <1>1, <1>2, <1>3, <1>9
     DEF CallNext, LiveChat, AllocateLessonSeq, AlreadyNumbered, CallDies
<1>10. ASSUME NEW w \in Workers, drain(w) \/ WriteUnknown(w) \/ WriteFails(w)
       PROVE  StaysPublished
  <2>1. CASE DeferForOrdering(w) \/ MarkRetry(w) \/ MarkPublished(w)
    BY <1>5, <2>1, FieldsTyped DEF DeferForOrdering, MarkRetry, MarkPublished
  <2>2. CASE EnterGate(w) \/ HasEarlierUnpublished(w) \/ writeOnce(w) \/ WriteUnknown(w)
             \/ WriteFails(w)
    BY <1>1, <2>2 DEF EnterGate, HasEarlierUnpublished, writeOnce, WriteUnknown, WriteFails
  <2> QED BY <1>4, <1>10, <2>1, <2>2 DEF drain
<1> QED BY <1>1, <1>6, <1>7, <1>8, <1>9, <1>10 DEF Next, vars

(* A published message is final: no worker that lost its lease returns it  *)
(* to the queue.                                                           *)
THEOREM ChatPublishedIsFinal == Spec => PublishedIsFinal
<1>1. RelayInv /\ [Next]_vars => [StaysPublished]_vars
  BY PublishedStays
<1>2. Spec => [][StaysPublished]_vars
  BY <1>1, RelayInvariant, PTL DEF Spec
<1> QED BY <1>2 DEF PublishedIsFinal, StaysPublished

----------------------------------------------------------------------------
(* Every number that is stored, held, leased or sent is carried.           *)
LEMMA CarriedNow ==
  ASSUME TypeOK
  PROVE  /\ \A m \in Calls : docs[m] # NoDoc => Carries(m, docs[m].seq)
         /\ \A c \in Calls : Carries(call[c].msg, call[c].seq)
         /\ \A w \in Workers : worker[w] # Idle => Carries(worker[w].msg, worker[w].seq)
         /\ \A l \in Lessons : \A k \in DOMAIN kafka[l] :
              Carries(kafka[l][k].msg, kafka[l][k].seq)
<1>1. ASSUME NEW l \in Lessons, NEW k \in DOMAIN kafka[l]
      PROVE  Carries(kafka[l][k].msg, kafka[l][k].seq)
  <2>1. kafka[l][k] \in Record
    BY DEF TypeOK
  <2>2. kafka[l][k] = [msg |-> kafka[l][k].msg, seq |-> kafka[l][k].seq]
    BY <2>1 DEF Record
  <2> QED BY <2>2 DEF Carries
<1> QED BY <1>1 DEF Carries, Stored

(* A number that a step leaves on a message was on that message before.    *)
NoNewNumber ==
  /\ \A m \in Calls : docs'[m] # NoDoc => docs'[m].seq = 0 \/ Carries(m, docs'[m].seq)
  /\ \A c \in Calls : call'[c].seq = 0 \/ Carries(call'[c].msg, call'[c].seq)
  /\ \A w \in Workers : worker'[w] # Idle => Carries(worker'[w].msg, worker'[w].seq)
  /\ \A l \in Lessons : \A k \in DOMAIN kafka'[l] :
       Carries(kafka'[l][k].msg, kafka'[l][k].seq)

\* A step that hands out no number leaves the numbers apart.
LEMMA NumbersKept ==
  ASSUME NumberInv, NoNewNumber, UNCHANGED counter,
         \A c \in Calls : Lesson[call'[c].msg] = Lesson[c]
  PROVE  NumberInv'
<1>1. ASSUME NEW m \in Calls, NEW s \in Nat \ {0}, Carries(m, s)' PROVE Carries(m, s)
  <2>1. CASE m \in Stored' /\ docs'[m].seq = s
    BY <2>1 DEF NoNewNumber, Stored
  <2>2. CASE \E c \in Calls : call'[c].msg = m /\ call'[c].seq = s
    BY <2>2 DEF NoNewNumber
  <2>3. CASE \E w \in Workers : worker'[w] # Idle /\ worker'[w].msg = m /\ worker'[w].seq = s
    BY <2>3 DEF NoNewNumber
  <2>4. CASE \E l \in Lessons : \E k \in DOMAIN kafka'[l] : kafka'[l][k] = [msg |-> m, seq |-> s]
    BY <2>4 DEF NoNewNumber
  <2> QED BY <1>1, <2>1, <2>2, <2>3, <2>4 DEF Carries
<1> QED BY <1>1 DEF NumberInv

(* The allocation: the new number is above every number of the lesson.     *)
LEMMA AllocationFresh ==
  ASSUME RelayInv, NumberInv, NEW c \in Calls, AllocateLessonSeq(c)
  PROVE  NumberInv'
<1> DEFINE l == Lesson[c]
           n == call[c].msg
           new == counter[l] + 1
<1>1. TypeOK /\ l \in Lessons /\ n \in Calls /\ Lesson[n] = l /\ counter[l] \in Nat
  BY ChatAssumption DEF RelayInv, TypeOK, Call, NumberInv
<1>2. /\ counter'[l] = new /\ \A k \in Lessons \ {l} : counter'[k] = counter[k]
      /\ call'[c].msg = n /\ call'[c].seq = new
      /\ \A d \in Calls \ {c} : call'[d] = call[d]
      /\ UNCHANGED <<docs, worker, kafka>>
  BY <1>1 DEF AllocateLessonSeq, TypeOK
<1>l. \A m \in Calls : Lesson[m] \in Lessons /\ counter[Lesson[m]] \in Nat
  BY <1>1, ChatAssumption DEF TypeOK
<1> HIDE DEF new
<1>3. ASSUME NEW m \in Calls, NEW s \in Nat \ {0}, Carries(m, s)'
      PROVE  Carries(m, s) \/ (m = n /\ s = new)
  BY <1>2, <1>3 DEF Carries, Stored
<1>4. new \in Nat \ {0} /\ \A m \in Calls : Lesson[m] = l => ~Carries(m, new)
  BY <1>1 DEF new, NumberInv
<1>5. \A d \in Calls : Lesson[call'[d].msg] = Lesson[d]
  BY <1>1, <1>2 DEF NumberInv
<1>6. ASSUME NEW m \in Calls, NEW s \in Nat \ {0}, Carries(m, s)'
      PROVE  s <= counter'[Lesson[m]]
  <2>1. CASE m = n /\ s = new
    BY <1>1, <1>2, <1>4, <2>1
  <2>2. CASE Carries(m, s)
    <3>1. s <= counter[Lesson[m]]
      BY <2>2 DEF NumberInv
    <3>2. CASE Lesson[m] = l
      BY <1>1, <1>2, <3>1, <3>2 DEF new
    <3>3. CASE Lesson[m] # l
      BY <1>2, <1>l, <3>1, <3>3
    <3> QED BY <3>2, <3>3
  <2> QED BY <1>3, <1>6, <2>1, <2>2
<1>7. ASSUME NEW m \in Calls, NEW s \in Nat \ {0}, Carries(m, s)',
             NEW k \in Calls, Lesson[k] = Lesson[m], Carries(k, s)'
      PROVE  k = m
  <2>1. CASE s = new /\ Lesson[m] = l
    <3>1. m = n /\ k = n
      BY <1>3, <1>4, <1>7, <2>1
    <3> QED BY <3>1
  <2>2. CASE ~(s = new /\ Lesson[m] = l)
    <3>1. Carries(m, s) /\ Carries(k, s)
      BY <1>1, <1>3, <1>7, <2>2
    <3> QED BY <1>7, <3>1 DEF NumberInv
  <2> QED BY <2>1, <2>2
<1> QED BY <1>5, <1>6, <1>7 DEF NumberInv

(* The handler's steps other than the allocation move numbers around.      *)
LEMMA CallKeepsNumbers ==
  ASSUME RelayInv, NumberInv, NEW c \in Calls, CallNext(c)
  PROVE  NumberInv'
<1>t. TypeOK /\ call \in [Calls -> Call] /\ docs \in [Calls -> Doc \cup {NoDoc}]
  BY DEF RelayInv, TypeOK
<1>c. call[c] \in Call /\ call[c].msg \in Calls /\ call[c].seq \in Nat
  BY <1>t DEF Call
<1>k. ASSUME UNCHANGED <<docs, worker, kafka, counter>>,
             \A d \in Calls \ {c} : call'[d] = call[d],
             call'[c].seq = 0 \/ Carries(call'[c].msg, call'[c].seq),
             Lesson[call'[c].msg] = Lesson[c]
      PROVE  NumberInv'
  <2>1. NoNewNumber
    BY <1>k, <1>t, CarriedNow DEF NoNewNumber
  <2>2. \A d \in Calls : Lesson[call'[d].msg] = Lesson[d]
    BY <1>k DEF NumberInv
  <2> QED BY <1>k, <2>1, <2>2, NumbersKept
<1>e. ASSUME End(c)
      PROVE  call'[c].msg = c /\ call'[c].seq = 0 /\ \A d \in Calls \ {c} : call'[d] = call[d]
  BY <1>e, <1>t DEF End
<1>n. Lesson[call[c].msg] = Lesson[c]
  BY DEF NumberInv
<1>1. CASE LiveChat(c)
  <2>1. UNCHANGED <<docs, worker, kafka, counter>>
    BY <1>1 DEF LiveChat
  <2>2. /\ call'[c].msg = call[c].msg /\ call'[c].seq = call[c].seq
        /\ \A d \in Calls \ {c} : call'[d] = call[d]
    BY <1>1, <1>t, <1>c DEF LiveChat, Call
  <2>3. Carries(call[c].msg, call[c].seq)
    BY <1>t, CarriedNow
  <2> QED BY <1>k, <1>n, <2>1, <2>2, <2>3
<1>5. CASE AlreadyNumbered(c) \/ CallDies(c)
  <2>1. UNCHANGED <<docs, worker, kafka, counter>>
    BY <1>5 DEF AlreadyNumbered, CallDies
  <2>2. call'[c].msg = c /\ call'[c].seq = 0 /\ \A d \in Calls \ {c} : call'[d] = call[d]
    BY <1>5, <1>e DEF AlreadyNumbered, CallDies
  <2> QED BY <1>k, <2>1, <2>2
<1>2. CASE InsertMessageIdempotent(c)
  <2>u. UNCHANGED <<worker, kafka, counter>>
    BY <1>2 DEF InsertMessageIdempotent
  <2>1. CASE /\ docs' = [docs EXCEPT ![c] = NewDoc]
             /\ call' = [call EXCEPT ![c] = [at |-> "stored", msg |-> c, seq |-> 0]]
    <3>1. /\ docs'[c] = NewDoc /\ NewDoc.seq = 0 /\ call'[c].msg = c /\ call'[c].seq = 0
          /\ \A d \in Calls \ {c} : docs'[d] = docs[d] /\ call'[d] = call[d]
      BY <1>t, <2>1 DEF NewDoc
    <3>2. NoNewNumber
      BY <1>t, <2>u, <3>1, CarriedNow DEF NoNewNumber
    <3>3. \A d \in Calls : Lesson[call'[d].msg] = Lesson[d]
      BY <3>1 DEF NumberInv
    <3> QED BY <2>u, <3>2, <3>3, NumbersKept
  <2>2. ASSUME NEW m \in Stored, UNCHANGED docs,
               NEW r \in Answers(m, c), call' = [call EXCEPT ![c] = r]
        PROVE  NumberInv'
    <3>1. m \in Calls /\ Carries(m, docs[m].seq)
      BY <1>t, CarriedNow DEF Stored
    <3>2. \A d \in Calls \ {c} : call'[d] = call[d]
      BY <1>t, <2>2
    <3>3. /\ call'[c].seq = 0 \/ Carries(call'[c].msg, call'[c].seq)
          /\ Lesson[call'[c].msg] = Lesson[c]
      BY <1>t, <2>2, <3>1 DEF Answers
    <3> QED BY <1>k, <2>u, <2>2, <3>2, <3>3
  <2> QED BY <1>2, <2>1, <2>2 DEF InsertMessageIdempotent, Answers, End
<1>3. CASE AllocateLessonSeq(c)
  BY <1>3, AllocationFresh
<1>4. CASE SetLessonSeq(c)
  <2> DEFINE n == call[c].msg
  <2>1. Carries(n, call[c].seq) /\ UNCHANGED <<worker, kafka, counter>>
    BY <1>4, <1>t, CarriedNow DEF SetLessonSeq
  <2>2. call'[c].msg = c /\ call'[c].seq = 0 /\ \A d \in Calls \ {c} : call'[d] = call[d]
    BY <1>4, <1>e DEF SetLessonSeq
  <2>3. ASSUME NEW m \in Calls, docs'[m] # NoDoc PROVE Carries(m, docs'[m].seq)
    <3>1. CASE docs'[m] = docs[m]
      BY <1>t, <2>3, <3>1, CarriedNow
    <3>2. CASE docs'[m] # docs[m]
      <4>1. docs[n] # NoDoc /\ docs' = [docs EXCEPT ![n].seq = call[c].seq]
        BY <1>4, <3>2 DEF SetLessonSeq
      <4>2. m = n /\ docs[n] \in Doc /\ docs'[n] = [docs[n] EXCEPT !.seq = call[c].seq]
        BY <1>t, <1>c, <3>2, <4>1
      <4>3. docs'[n].seq = call[c].seq
        BY <4>2 DEF Doc
      <4> QED BY <2>1, <4>2, <4>3
    <3> QED BY <3>1, <3>2
  <2> HIDE DEF n
  <2>4. NoNewNumber
    BY <1>t, <2>1, <2>2, <2>3, CarriedNow DEF NoNewNumber
  <2>5. \A d \in Calls : Lesson[call'[d].msg] = Lesson[d]
    BY <1>n, <2>2 DEF NumberInv, n
  <2> QED BY <2>1, <2>4, <2>5, NumbersKept
<1> QED BY <1>1, <1>2, <1>3, <1>4, <1>5 DEF CallNext

(* A step outside the handlers, which keeps the numbers of the documents   *)
(* and of the workers that go on, creates no number.                       *)
LEMMA OutsideKeepsNumbers ==
  ASSUME RelayInv, NumberInv, UNCHANGED <<call, counter>>,
         \A m \in Calls : docs'[m] # NoDoc => docs'[m].seq = docs[m].seq /\ docs[m] # NoDoc,
         \A w \in Workers : worker'[w] # Idle => Carries(worker'[w].msg, worker'[w].seq),
         \A l \in Lessons : \A k \in DOMAIN kafka'[l] :
           Carries(kafka'[l][k].msg, kafka'[l][k].seq)
  PROVE  NumberInv'
<1>1. TypeOK
  BY DEF RelayInv
<1>2. NoNewNumber
  BY <1>1, CarriedNow DEF NoNewNumber
<1> QED BY <1>2, NumbersKept DEF NumberInv

(* A worker copies the number of the document it claimed into its record.  *)
LEMMA WorkerKeepsNumbers ==
  ASSUME RelayInv, NumberInv, NEW w \in Workers,
         drain(w) \/ WriteUnknown(w) \/ WriteFails(w)
  PROVE  NumberInv'
<1>t. TypeOK /\ docs \in [Calls -> Doc \cup {NoDoc}] /\ worker \in [Workers -> Job \cup {Idle}]
  BY DEF RelayInv, TypeOK
<1>i. Idle.at = "idle"
  BY DEF Idle
<1>d. ASSUME UNCHANGED docs
      PROVE  \A m \in Calls : docs'[m] # NoDoc => docs'[m].seq = docs[m].seq /\ docs[m] # NoDoc
  BY <1>d
<1>k. ASSUME UNCHANGED kafka
      PROVE  \A l \in Lessons : \A k \in DOMAIN kafka'[l] :
               Carries(kafka'[l][k].msg, kafka'[l][k].seq)
  BY <1>k, <1>t, CarriedNow
<1>w. ASSUME \A v \in Workers \ {w} : worker'[v] = worker[v],
             worker'[w] # Idle => Carries(worker'[w].msg, worker'[w].seq)
      PROVE  \A v \in Workers : worker'[v] # Idle => Carries(worker'[v].msg, worker'[v].seq)
  BY <1>w, <1>t, CarriedNow
<1>m. ASSUME worker[w].at # "idle", NEW at \in WorkerSteps \ {"idle"},
             worker' = [worker EXCEPT ![w].at = at]
      PROVE  \A v \in Workers : worker'[v] # Idle => Carries(worker'[v].msg, worker'[v].seq)
  <2>1. /\ worker'[w] = [at |-> at, msg |-> worker[w].msg, seq |-> worker[w].seq]
        /\ \A v \in Workers \ {w} : worker'[v] = worker[v]
    BY <1>t, <1>m, WorkerMoves
  <2>2. worker'[w].msg = worker[w].msg /\ worker'[w].seq = worker[w].seq
    BY <2>1
  <2>3. Carries(worker[w].msg, worker[w].seq)
    BY <1>t, <1>i, <1>m, CarriedNow
  <2> QED BY <1>w, <2>1, <2>2, <2>3
<1>p. ASSUME worker[w].at # "idle", Publish(w)
      PROVE  \A l \in Lessons : \A k \in DOMAIN kafka'[l] :
               Carries(kafka'[l][k].msg, kafka'[l][k].seq)
  <2> DEFINE n == worker[w].msg
             rec == [msg |-> n, seq |-> worker[w].seq]
  <2>1. n \in Calls /\ worker[w].seq \in Nat /\ Lesson[n] \in Lessons
    BY <1>t, <1>p, Shapes, ChatAssumption DEF Job
  <2>2. rec \in Record /\ kafka \in [Lessons -> Seq(Record)]
    BY <1>t, <2>1 DEF Record, TypeOK
  <2>3. rec.msg = n /\ rec.seq = worker[w].seq /\ Carries(n, worker[w].seq)
    BY <1>t, <1>i, <1>p, CarriedNow
  <2>4. kafka' = [kafka EXCEPT ![Lesson[n]] = Append(kafka[Lesson[n]], rec)]
    BY <1>p DEF Publish
  <2> SUFFICES ASSUME NEW l \in Lessons, NEW k \in DOMAIN kafka'[l]
               PROVE  Carries(kafka'[l][k].msg, kafka'[l][k].seq)
    OBVIOUS
  <2> HIDE DEF n, rec
  <2>5. kafka'[l][k] = rec \/ (k \in DOMAIN kafka[l] /\ kafka'[l][k] = kafka[l][k])
    <3>1. CASE l # Lesson[n]
      BY <2>1, <2>2, <2>4, <3>1
    <3>2. CASE l = Lesson[n]
      <4>1. kafka[l] \in Seq(Record) /\ kafka'[l] = Append(kafka[l], rec)
        BY <2>2, <2>4, <3>2
      <4>2. DOMAIN kafka'[l] = 1..(Len(kafka[l]) + 1) /\ Len(kafka[l]) \in Nat
        BY <2>2, <4>1
      <4> QED BY <2>2, <4>1, <4>2
    <3> QED BY <3>1, <3>2
  <2> QED BY <1>t, <2>3, <2>5, CarriedNow DEF n
<1>1. CASE claimNextOutbox(w)
  <2>1. PICK m \in Claimable(w) :
          /\ docs' = [docs EXCEPT ![m] = [docs[m] EXCEPT !.status = "publishing",
                                                        !.owner = w, !.live = TRUE]]
          /\ \/ worker' = [worker EXCEPT ![w] =
                             [at |-> "claimed", msg |-> m, seq |-> docs[m].seq]]
             \/ UNCHANGED worker
    BY <1>1 DEF claimNextOutbox
  <2>2. m \in Calls /\ docs[m] \in Doc /\ docs[m] # NoDoc
    BY <1>t, Shapes DEF Claimable, Stored
  <2>3. docs'[m].seq = docs[m].seq /\ \A n \in Calls \ {m} : docs'[n] = docs[n]
    BY <1>t, <2>1, <2>2 DEF Doc
  <2>4. Carries(m, docs[m].seq) /\ UNCHANGED <<call, counter, kafka>>
    BY <1>t, <1>1, <2>2, CarriedNow DEF claimNextOutbox, callVars
  <2>5. \A v \in Workers : worker'[v] # Idle => Carries(worker'[v].msg, worker'[v].seq)
    <3>1. CASE worker' = [worker EXCEPT ![w] = [at |-> "claimed", msg |-> m, seq |-> docs[m].seq]]
      <4>1. /\ worker'[w].msg = m /\ worker'[w].seq = docs[m].seq
            /\ \A v \in Workers \ {w} : worker'[v] = worker[v]
        BY <1>t, <3>1
      <4> QED BY <1>w, <2>4, <4>1
    <3>2. CASE UNCHANGED worker
      BY <1>t, <3>2, CarriedNow
    <3> QED BY <2>1, <3>1, <3>2
  <2>6. \A n \in Calls : docs'[n] # NoDoc => docs'[n].seq = docs[n].seq /\ docs[n] # NoDoc
    BY <2>2, <2>3
  <2> QED BY <1>k, <2>4, <2>5, <2>6, OutsideKeepsNumbers
<1>2. CASE EnterGate(w) \/ HasEarlierUnpublished(w) \/ WriteFails(w)
  <2>1. PICK at \in {"gated", "clear", "failed", "defer"} : worker' = [worker EXCEPT ![w].at = at]
    BY <1>2 DEF EnterGate, HasEarlierUnpublished, WriteFails
  <2>2. worker[w].at # "idle" /\ UNCHANGED <<call, counter, docs, kafka>>
    BY <1>2 DEF EnterGate, HasEarlierUnpublished, WriteFails, callVars
  <2> QED BY <1>d, <1>k, <1>m, <2>1, <2>2, OutsideKeepsNumbers DEF WorkerSteps
<1>3. CASE writeOnce(w)
  <2>1. /\ worker[w].at # "idle" /\ Publish(w) /\ UNCHANGED <<call, counter, docs>>
        /\ worker' = [worker EXCEPT ![w].at = "written"]
    BY <1>3 DEF writeOnce, callVars
  <2> QED BY <1>d, <1>m, <1>p, <2>1, OutsideKeepsNumbers DEF WorkerSteps
<1>4. CASE WriteUnknown(w)
  <2>1. worker[w].at # "idle" /\ Publish(w) /\ UNCHANGED <<call, counter, docs, worker>>
    BY <1>4 DEF WriteUnknown, callVars
  <2> QED BY <1>d, <1>p, <1>t, <2>1, CarriedNow, OutsideKeepsNumbers
<1>5. ASSUME NEW fields \in Doc, worker[w].at # "idle", Finish(w, fields) PROVE NumberInv'
  <2> DEFINE n == worker[w].msg
  <2>1. worker'[w] = Idle /\ \A v \in Workers \ {w} : worker'[v] = worker[v]
    BY <1>5, <1>t DEF Finish
  <2>2. ASSUME NEW m \in Calls, docs'[m] # NoDoc
        PROVE  docs'[m].seq = docs[m].seq /\ docs[m] # NoDoc
    <3>1. CASE docs'[m] = docs[m]
      BY <2>2, <3>1
    <3>2. CASE docs'[m] # docs[m]
      <4>1. Owns(w, n) /\ docs' = [docs EXCEPT ![n] = [fields EXCEPT !.seq = docs[n].seq]]
        BY <1>5, <3>2 DEF Finish, Update
      <4>2. m = n /\ docs'[n] = [fields EXCEPT !.seq = docs[n].seq]
        BY <1>t, <3>2, <4>1
      <4>3. docs'[n].seq = docs[n].seq /\ docs[n] # NoDoc
        BY <4>1, <4>2 DEF Doc, Owns
      <4> QED BY <4>2, <4>3
    <3> QED BY <3>1, <3>2
  <2>3. UNCHANGED <<call, counter, kafka>>
    BY <1>5 DEF Finish, callVars
  <2> QED BY <1>k, <1>w, <2>1, <2>2, <2>3, OutsideKeepsNumbers
<1>6. CASE DeferForOrdering(w) \/ MarkRetry(w) \/ MarkPublished(w)
  BY <1>5, <1>6, FieldsTyped DEF DeferForOrdering, MarkRetry, MarkPublished
<1> QED BY <1>1, <1>2, <1>3, <1>4, <1>6 DEF drain

(* Time, crashes and deletions create no number.                           *)
LEMMA WorldKeepsNumbers ==
  ASSUME RelayInv, NumberInv,
         \/ \E m \in Calls : Due(m) \/ LeaseExpires(m)
         \/ \E i \in Instances : Crash(i)
         \/ \E l \in Lessons : DelHistory(l)
         \/ UNCHANGED vars
  PROVE  NumberInv'
<1>t. TypeOK /\ docs \in [Calls -> Doc \cup {NoDoc}] /\ worker \in [Workers -> Job \cup {Idle}]
  BY DEF RelayInv, TypeOK
<1>u. UNCHANGED <<call, counter, kafka>>
  BY DEF Due, LeaseExpires, Crash, DelHistory, callVars, vars
<1>w. \A w \in Workers : worker'[w] # Idle => Carries(worker'[w].msg, worker'[w].seq)
  <2>1. \A w \in Workers : worker'[w] = worker[w] \/ worker'[w] = Idle
    BY DEF Due, LeaseExpires, Crash, DelHistory, vars
  <2> QED BY <1>t, <2>1, CarriedNow
<1>k. \A l \in Lessons : \A k \in DOMAIN kafka'[l] : Carries(kafka'[l][k].msg, kafka'[l][k].seq)
  BY <1>t, <1>u, CarriedNow
<1>d. ASSUME NEW m \in Calls, docs'[m] # NoDoc
      PROVE  docs'[m].seq = docs[m].seq /\ docs[m] # NoDoc
  <2>1. CASE docs'[m] = docs[m]
    BY <1>d, <2>1
  <2>2. CASE docs'[m] # docs[m]
    <3>1. docs[m] # NoDoc /\ \/ docs'[m] = [docs[m] EXCEPT !.due = TRUE]
                             \/ docs'[m] = [docs[m] EXCEPT !.live = FALSE]
                             \/ docs'[m] = [docs[m] EXCEPT !.owner = NoOne]
      <4>1. CASE \E n \in Calls : Due(n) \/ LeaseExpires(n)
        BY <1>t, <2>2, <4>1 DEF Due, LeaseExpires, Stored
      <4>2. CASE \E i \in Instances : Crash(i)
        BY <2>2, <4>2 DEF Crash
      <4>3. CASE \E l \in Lessons : DelHistory(l)
        BY <1>d, <2>2, <4>3 DEF DelHistory
      <4> QED BY <2>2, <4>1, <4>2, <4>3 DEF vars
    <3>2. docs[m] \in Doc
      BY <1>t, <3>1
    <3> QED BY <3>1, <3>2 DEF Doc
  <2> QED BY <2>1, <2>2
<1> QED BY <1>u, <1>w, <1>k, <1>d, OutsideKeepsNumbers

(* Numbers never collide: in every reachable state two messages of a       *)
(* lesson carry different numbers, in Mongo and in Kafka.                  *)
THEOREM ChatNumbersUnique == Spec => []NumbersUnique
<1>1. Init => NumberInv
  <2> SUFFICES ASSUME Init PROVE NumberInv
    OBVIOUS
  <2>1. DOMAIN <<>> = {}
    OBVIOUS
  <2>2. /\ \A c \in Calls : call[c].msg = c /\ call[c].seq = 0 /\ docs[c] = NoDoc
        /\ \A w \in Workers : worker[w] = Idle
        /\ \A l \in Lessons : DOMAIN kafka[l] = {}
    BY <2>1 DEF Init
  <2> QED BY <2>2 DEF NumberInv, Carries, Stored
<1>2. RelayInv /\ NumberInv /\ [Next]_vars => NumberInv'
  BY CallKeepsNumbers, WorkerKeepsNumbers, WorldKeepsNumbers DEF Next
<1>3. RelayInv /\ NumberInv => NumbersUnique
  <2> SUFFICES ASSUME RelayInv, NumberInv PROVE NumbersUnique
    OBVIOUS
  <2>t. TypeOK /\ OwnPartition
    BY DEF RelayInv
  <2>1. ASSUME NEW m \in Stored, NEW n \in Stored, m # n, Lesson[m] = Lesson[n], docs[m].seq # 0
        PROVE  docs[m].seq # docs[n].seq
    <3>1. m \in Calls /\ n \in Calls /\ docs[m].seq \in Nat \ {0}
      BY <2>t, <2>1, Shapes DEF Doc
    <3>2. Carries(m, docs[m].seq) /\ Carries(n, docs[n].seq)
      BY <2>t, <3>1, CarriedNow DEF Stored
    <3> QED BY <2>1, <3>1, <3>2 DEF NumberInv
  <2>2. ASSUME NEW l \in Lessons, NEW a \in Records(l), NEW b \in Records(l),
               a.msg # b.msg, a.seq # 0
        PROVE  a.seq # b.seq
    <3>1. /\ a \in Record /\ Carries(a.msg, a.seq) /\ Lesson[a.msg] = l
          /\ b \in Record /\ Carries(b.msg, b.seq) /\ Lesson[b.msg] = l
      BY <2>t, CarriedNow DEF Records, TypeOK, OwnPartition
    <3>2. a.msg \in Calls /\ b.msg \in Calls /\ a.seq \in Nat \ {0}
      BY <2>2, <3>1 DEF Record
    <3> QED BY <2>2, <3>1, <3>2 DEF NumberInv
  <2> QED BY <2>1, <2>2 DEF NumbersUnique
<1> QED BY <1>1, <1>2, <1>3, RelayInvariant, PTL DEF Spec
----------------------------------------------------------------------------
(* One message per key.  A message that a worker holds or that was sent is *)
(* stored or was deleted, so two sent messages with one key, neither of    *)
(* them deleted, would be two stored ones.                                 *)
Taken(m) == Sent(m) \/ \E w \in Workers : worker[w] # Idle /\ worker[w].msg = m

OneStored ==
  \A m, n \in Calls : m # n /\ Key[m] = Key[n] => ~(m \in Stored /\ n \in Stored)

KeyInv ==
  /\ OneStored
  /\ \A m \in Calls : Taken(m) => m \in Stored \/ m \in deleted

(* A step that stores no second message for a key, loses none but to       *)
(* DelHistory, and takes up stored messages only.                          *)
KeysKept ==
  /\ OneStored'
  /\ \A m \in Calls : m \in Stored \/ m \in deleted => docs'[m] # NoDoc \/ m \in deleted'
  /\ \A m \in Calls : Taken(m)' => Taken(m) \/ m \in Stored

(* Such a step keeps KeyInv.                                               *)
LEMMA KeysStay ==
  ASSUME KeyInv, KeysKept
  PROVE  KeyInv'
<1>1. \A m \in Calls : docs'[m] # NoDoc <=> (m \in Stored)'
  BY DEF Stored
<1> QED BY <1>1 DEF KeyInv, KeysKept

(* What is stored has a document that is not NoDoc.                        *)
LEMMA DocIsDoc == \A d \in Doc : d # NoDoc
<1>1. NoDoc.status = "none"
  BY DEF NoDoc
<1>2. \A d \in Doc : d.status # "none"
  BY DEF Doc
<1> QED BY <1>1, <1>2

(* Without a new document, OneStored stays.                                *)
LEMMA StoredShrinks ==
  ASSUME KeyInv, \A m \in Calls : docs'[m] # NoDoc => m \in Stored
  PROVE  OneStored'
<1>1. \A m \in Calls : (m \in Stored)' => m \in Stored
  BY DEF Stored
<1> QED BY <1>1 DEF KeyInv, OneStored

(* A step that leaves Kafka alone and gives no worker a message.           *)
LEMMA QuietTakes ==
  ASSUME UNCHANGED kafka, \A w \in Workers : worker'[w] # Idle =>
           worker[w] # Idle /\ worker'[w].msg = worker[w].msg
  PROVE  \A m \in Calls : Taken(m)' => Taken(m)
<1>1. \A m \in Calls : Sent(m)' <=> Sent(m)
  BY DEF Sent
<1> QED BY <1>1 DEF Taken

(* The handlers store a message only when none has its key.                *)
LEMMA CallKeepsKeys ==
  ASSUME RelayInv, KeyInv, NEW c \in Calls, CallNext(c)
  PROVE  KeyInv'
<1>t. TypeOK /\ docs \in [Calls -> Doc \cup {NoDoc}] /\ call \in [Calls -> Call]
  BY DEF RelayInv, TypeOK
<1>u. UNCHANGED <<worker, kafka, deleted>>
  BY DEF CallNext, LiveChat, InsertMessageIdempotent, AllocateLessonSeq, AlreadyNumbered,
         SetLessonSeq, CallDies
<1>k. \A m \in Calls : Taken(m)' => Taken(m)
  BY <1>u, QuietTakes
<1>1. CASE UNCHANGED docs
  <2>1. OneStored'
    BY <1>1, StoredShrinks DEF Stored
  <2>2. KeysKept
    BY <1>1, <1>u, <1>k, <2>1 DEF KeysKept, Stored
  <2> QED BY <2>2, KeysStay
<1>2. CASE InsertMessageIdempotent(c) /\ ~UNCHANGED docs
  <2>1. docs' = [docs EXCEPT ![c] = NewDoc] /\ \A m \in Stored : Key[m] # Key[c]
    BY <1>2 DEF InsertMessageIdempotent
  <2>2. docs'[c] # NoDoc /\ \A m \in Calls \ {c} : docs'[m] = docs[m]
    BY <1>t, <2>1, FieldsTyped, DocIsDoc
  <2>3. \A m \in Calls : (m \in Stored)' <=> m \in Stored \/ m = c
    BY <2>2 DEF Stored
  <2>4. OneStored'
    BY <2>1, <2>3 DEF KeyInv, OneStored
  <2>5. KeysKept
    BY <1>u, <1>k, <2>2, <2>4 DEF KeysKept, Stored
  <2> QED BY <2>5, KeysStay
<1>3. CASE SetLessonSeq(c) /\ ~UNCHANGED docs
  <2> DEFINE n == call[c].msg
  <2>1. n \in Calls /\ docs[n] # NoDoc /\ docs' = [docs EXCEPT ![n].seq = call[c].seq]
    BY <1>3, <1>t DEF SetLessonSeq, Call
  <2>2. docs[n] \in Doc /\ docs'[n] = [docs[n] EXCEPT !.seq = call[c].seq]
    BY <1>t, <2>1
  <2>3. docs'[n].status = docs[n].status /\ docs[n].status # "none" /\ NoDoc.status = "none"
    BY <2>2 DEF Doc, NoDoc
  <2>4. \A m \in Calls : docs'[m] # NoDoc <=> m \in Stored
    BY <1>t, <2>1, <2>3 DEF Stored
  <2>5. OneStored'
    BY <2>4, StoredShrinks
  <2>6. KeysKept
    BY <1>u, <1>k, <2>4, <2>5 DEF KeysKept
  <2> QED BY <2>6, KeysStay
<1> QED BY <1>1, <1>2, <1>3
        DEF CallNext, LiveChat, AllocateLessonSeq, AlreadyNumbered, CallDies

(* A worker takes up what is stored, and sends what it holds.              *)
LEMMA WorkerKeepsKeys ==
  ASSUME RelayInv, KeyInv, NEW w \in Workers, drain(w) \/ WriteUnknown(w) \/ WriteFails(w)
  PROVE  KeyInv'
<1>t. TypeOK /\ OwnPartition /\ docs \in [Calls -> Doc \cup {NoDoc}]
      /\ worker \in [Workers -> Job \cup {Idle}]
  BY DEF RelayInv, TypeOK
<1>i. worker[w].at # "idle" => worker[w] # Idle
  BY DEF Idle
<1>u. UNCHANGED deleted
  BY DEF drain, claimNextOutbox, EnterGate, HasEarlierUnpublished, writeOnce, DeferForOrdering,
         MarkRetry, MarkPublished, Finish, WriteUnknown, WriteFails
<1>s. ASSUME \A m \in Calls : docs'[m] # NoDoc <=> m \in Stored,
             \A m \in Calls : Taken(m)' => Taken(m) \/ m \in Stored
      PROVE  KeyInv'
  <2>1. OneStored'
    BY <1>s, StoredShrinks
  <2> QED BY <1>s, <1>u, <2>1, KeysStay DEF KeysKept
<1>m. ASSUME worker[w].at # "idle", NEW at \in WorkerSteps \ {"idle"},
             worker' = [worker EXCEPT ![w].at = at]
      PROVE  \A v \in Workers : worker'[v] # Idle =>
               worker[v] # Idle /\ worker'[v].msg = worker[v].msg
  <2>1. /\ worker'[w] = [at |-> at, msg |-> worker[w].msg, seq |-> worker[w].seq]
        /\ \A v \in Workers \ {w} : worker'[v] = worker[v]
    BY <1>t, <1>m, WorkerMoves
  <2>2. worker'[w].msg = worker[w].msg
    BY <2>1
  <2> QED BY <1>i, <1>m, <2>1, <2>2
<1>p. ASSUME worker[w].at # "idle", Publish(w),
             \A v \in Workers : worker'[v] # Idle =>
               worker[v] # Idle /\ worker'[v].msg = worker[v].msg
      PROVE  \A m \in Calls : Taken(m)' => Taken(m)
  <2>1. \A m \in Calls : Sent(m)' <=> Sent(m) \/ m = worker[w].msg
    BY <1>t, <1>p, PublishSends
  <2> QED BY <1>i, <1>p, <2>1 DEF Taken
<1>1. CASE claimNextOutbox(w)
  <2>1. PICK m \in Claimable(w) :
          /\ docs' = [docs EXCEPT ![m] = [docs[m] EXCEPT !.status = "publishing",
                                                        !.owner = w, !.live = TRUE]]
          /\ \/ worker' = [worker EXCEPT ![w] =
                             [at |-> "claimed", msg |-> m, seq |-> docs[m].seq]]
             \/ UNCHANGED worker
    BY <1>1 DEF claimNextOutbox
  <2>2. m \in Calls /\ m \in Stored /\ docs[m] \in Doc
    BY <1>t, Shapes DEF Claimable, Stored
  <2>3. docs'[m].status = "publishing" /\ NoDoc.status = "none"
    BY <1>t, <2>1, <2>2 DEF Doc, NoDoc
  <2>4. \A n \in Calls : docs'[n] # NoDoc <=> n \in Stored
    BY <1>t, <2>1, <2>2, <2>3 DEF Stored
  <2>5. \A n \in Calls : Sent(n)' <=> Sent(n)
    BY <1>1 DEF claimNextOutbox, Sent
  <2>6. \A n \in Calls : Taken(n)' => Taken(n) \/ n \in Stored
    <3>1. CASE worker' = [worker EXCEPT ![w] = [at |-> "claimed", msg |-> m, seq |-> docs[m].seq]]
      <4>1. worker'[w].msg = m /\ \A v \in Workers \ {w} : worker'[v] = worker[v]
        BY <1>t, <3>1
      <4> QED BY <2>2, <2>5, <4>1 DEF Taken
    <3>2. CASE UNCHANGED worker
      BY <2>5, <3>2 DEF Taken
    <3> QED BY <2>1, <3>1, <3>2
  <2> QED BY <1>s, <2>4, <2>6
<1>2. CASE EnterGate(w) \/ HasEarlierUnpublished(w) \/ WriteFails(w)
  <2>1. PICK at \in {"gated", "clear", "failed", "defer"} : worker' = [worker EXCEPT ![w].at = at]
    BY <1>2 DEF EnterGate, HasEarlierUnpublished, WriteFails
  <2>2. worker[w].at # "idle" /\ UNCHANGED <<docs, kafka>>
    BY <1>2 DEF EnterGate, HasEarlierUnpublished, WriteFails
  <2>3. at \in WorkerSteps \ {"idle"}
    BY DEF WorkerSteps
  <2>4. \A m \in Calls : Taken(m)' => Taken(m)
    BY <1>m, <2>1, <2>2, <2>3, QuietTakes
  <2> QED BY <1>s, <2>2, <2>4 DEF Stored
<1>3. CASE writeOnce(w)
  <2>1. /\ worker[w].at # "idle" /\ Publish(w) /\ UNCHANGED docs
        /\ worker' = [worker EXCEPT ![w].at = "written"]
    BY <1>3 DEF writeOnce
  <2>2. "written" \in WorkerSteps \ {"idle"}
    BY DEF WorkerSteps
  <2> QED BY <1>m, <1>p, <1>s, <2>1, <2>2 DEF Stored
<1>4. CASE WriteUnknown(w)
  <2>1. worker[w].at # "idle" /\ Publish(w) /\ UNCHANGED <<docs, worker>>
    BY <1>4 DEF WriteUnknown
  <2> QED BY <1>p, <1>s, <2>1 DEF Stored
<1>5. ASSUME NEW fields \in Doc, worker[w].at # "idle", Finish(w, fields) PROVE KeyInv'
  <2> DEFINE n == worker[w].msg
  <2>1. worker'[w] = Idle /\ \A v \in Workers \ {w} : worker'[v] = worker[v]
    BY <1>5, <1>t DEF Finish
  <2>2. \A m \in Calls : Taken(m)' => Taken(m)
    BY <1>5, <2>1, QuietTakes DEF Finish
  <2>3. \A m \in Calls : docs'[m] # NoDoc <=> m \in Stored
    <3>1. CASE UNCHANGED docs
      BY <3>1 DEF Stored
    <3>2. CASE ~UNCHANGED docs
      <4>1. Owns(w, n) /\ docs' = [docs EXCEPT ![n] = [fields EXCEPT !.seq = docs[n].seq]]
        BY <1>5, <3>2 DEF Finish, Update
      <4>2. n \in Calls /\ docs[n] # NoDoc
        BY <1>5, <4>1, JobKnown DEF Owns
      <4>3. docs'[n].status = fields.status /\ fields.status # "none" /\ NoDoc.status = "none"
        BY <1>t, <4>1, <4>2 DEF Doc, NoDoc
      <4> QED BY <1>t, <4>1, <4>2, <4>3 DEF Stored
    <3> QED BY <3>1, <3>2
  <2> QED BY <1>s, <2>2, <2>3
<1>6. CASE DeferForOrdering(w) \/ MarkRetry(w) \/ MarkPublished(w)
  BY <1>5, <1>6, FieldsTyped DEF DeferForOrdering, MarkRetry, MarkPublished
<1> QED BY <1>1, <1>2, <1>3, <1>4, <1>6 DEF drain

(* Time and crashes keep what is stored; DelHistory records what it takes. *)
LEMMA WorldKeepsKeys ==
  ASSUME RelayInv, KeyInv,
         \/ \E m \in Calls : Due(m) \/ LeaseExpires(m)
         \/ \E i \in Instances : Crash(i)
         \/ \E l \in Lessons : DelHistory(l)
         \/ UNCHANGED vars
  PROVE  KeyInv'
<1>t. TypeOK /\ docs \in [Calls -> Doc \cup {NoDoc}] /\ worker \in [Workers -> Job \cup {Idle}]
  BY DEF RelayInv, TypeOK
<1>u. UNCHANGED kafka /\ deleted \subseteq deleted'
  BY DEF Due, LeaseExpires, Crash, DelHistory, vars
<1>w. \A w \in Workers : worker'[w] = worker[w] \/ worker'[w] = Idle
  BY DEF Due, LeaseExpires, Crash, DelHistory, vars
<1>k. \A m \in Calls : Taken(m)' => Taken(m)
  BY <1>u, <1>w, QuietTakes
<1>d. ASSUME NEW m \in Calls
      PROVE  /\ docs'[m] # NoDoc => m \in Stored
             /\ m \in Stored => docs'[m] # NoDoc \/ m \in deleted'
  <2>1. CASE docs'[m] = docs[m]
    BY <2>1 DEF Stored
  <2>2. CASE docs'[m] # docs[m]
    <3>1. docs[m] # NoDoc /\ \/ docs'[m] = [docs[m] EXCEPT !.due = TRUE]
                             \/ docs'[m] = [docs[m] EXCEPT !.live = FALSE]
                             \/ docs'[m] = [docs[m] EXCEPT !.owner = NoOne]
                             \/ docs'[m] = NoDoc /\ m \in deleted'
      <4>1. CASE \E n \in Calls : Due(n) \/ LeaseExpires(n)
        BY <1>t, <2>2, <4>1 DEF Due, LeaseExpires, Stored
      <4>2. CASE \E i \in Instances : Crash(i)
        BY <2>2, <4>2 DEF Crash
      <4>3. CASE \E l \in Lessons : DelHistory(l)
        BY <2>2, <4>3 DEF DelHistory, Stored
      <4> QED BY <2>2, <4>1, <4>2, <4>3 DEF vars
    <3>2. docs[m] \in Doc /\ NoDoc.status = "none"
      BY <1>t, <3>1 DEF NoDoc
    <3>3. \/ docs'[m].status = docs[m].status /\ docs[m].status # "none"
          \/ docs'[m] = NoDoc /\ m \in deleted'
      BY <3>1, <3>2 DEF Doc
    <3> QED BY <3>1, <3>2, <3>3 DEF Stored
  <2> QED BY <2>1, <2>2
<1>1. OneStored'
  BY <1>d, StoredShrinks
<1>2. KeysKept
  BY <1>u, <1>k, <1>d, <1>1 DEF KeysKept
<1> QED BY <1>2, KeysStay

(* The calls of one key hold the outbox, a worker and Kafka one at a time, *)
(* and what a worker holds is stored or was deleted, always.               *)
THEOREM KeyInvariant == Spec => []KeyInv
<1>1. Init => KeyInv
  <2> SUFFICES ASSUME Init PROVE KeyInv
    OBVIOUS
  <2>1. DOMAIN <<>> = {}
    OBVIOUS
  <2>2. /\ \A m \in Calls : docs[m] = NoDoc
        /\ \A w \in Workers : worker[w] = Idle
        /\ \A l \in Lessons : DOMAIN kafka[l] = {}
    BY <2>1 DEF Init
  <2>3. \A m \in Calls : Lesson[m] \in Lessons
    BY ChatAssumption
  <2> QED BY <2>2, <2>3 DEF KeyInv, OneStored, Taken, Sent, Stored
<1>2. RelayInv /\ KeyInv /\ [Next]_vars => KeyInv'
  BY CallKeepsKeys, WorkerKeepsKeys, WorldKeepsKeys DEF Next
<1> QED BY <1>1, <1>2, RelayInvariant, PTL DEF Spec

(* A call that is repeated with its client_message_id leaves one document  *)
(* and one message in Kafka, however calls interleave, workers crash and   *)
(* leases expire, unless the history was deleted in between.               *)
THEOREM ChatOneMessagePerKey == Spec => []OneMessagePerKey
<1>1. KeyInv => OneMessagePerKey
  BY DEF KeyInv, OneStored, Taken, OneMessagePerKey
<1> QED BY <1>1, KeyInvariant, PTL

----------------------------------------------------------------------------
(* The refinement of ChatLog.                                              *)

\* The messages that are in the history stay the same.
HistoryKept == \A m \in Calls : docs'[m] # NoDoc <=> docs[m] # NoDoc

(* A document that is updated in place stays a document.                   *)
LEMMA UpdateKeepsHistory ==
  ASSUME TypeOK, NEW m \in Calls, docs[m] # NoDoc, NEW d,
         d.status # "none", docs' = [docs EXCEPT ![m] = d]
  PROVE  HistoryKept
<1>1. docs \in [Calls -> Doc \cup {NoDoc}] /\ NoDoc.status = "none"
  BY DEF TypeOK, NoDoc
<1> QED BY <1>1 DEF HistoryKept

(* Only LiveChat's insert and DelHistory change what the history holds.    *)
LEMMA HistoryStays ==
  ASSUME TypeOK, Next,
         \A c \in Calls : InsertMessageIdempotent(c) => UNCHANGED docs,
         \A l \in Lessons : ~DelHistory(l)
  PROVE  HistoryKept
<1>t. /\ docs \in [Calls -> Doc \cup {NoDoc}] /\ call \in [Calls -> Call]
      /\ NoDoc.status = "none"
  BY DEF TypeOK, NoDoc
<1>1. CASE UNCHANGED docs
  BY <1>1 DEF HistoryKept
<1>2. ASSUME NEW c \in Calls, CallNext(c) PROVE HistoryKept
  <2>1. CASE SetLessonSeq(c) /\ ~UNCHANGED docs
    <3> DEFINE n == call[c].msg
    <3>1. n \in Calls /\ docs[n] # NoDoc /\ docs' = [docs EXCEPT ![n].seq = call[c].seq]
      BY <1>t, <2>1 DEF SetLessonSeq, Call
    <3>2. docs[n] \in Doc
      BY <1>t, <3>1
    <3>3. [docs[n] EXCEPT !.seq = call[c].seq].status # "none"
      BY <3>2 DEF Doc
    <3> QED BY <3>1, <3>3, UpdateKeepsHistory
  <2> QED BY <1>1, <1>2, <2>1
          DEF CallNext, LiveChat, AllocateLessonSeq, AlreadyNumbered, CallDies
<1>3. ASSUME NEW w \in Workers, claimNextOutbox(w) PROVE HistoryKept
  <2>1. PICK m \in Claimable(w) :
          docs' = [docs EXCEPT ![m] = [docs[m] EXCEPT !.status = "publishing",
                                                     !.owner = w, !.live = TRUE]]
    BY <1>3 DEF claimNextOutbox
  <2>2. m \in Calls /\ docs[m] # NoDoc /\ docs[m] \in Doc
    BY <1>t DEF Claimable, Stored
  <2>3. [docs[m] EXCEPT !.status = "publishing", !.owner = w, !.live = TRUE].status # "none"
    BY <2>2 DEF Doc
  <2> QED BY <2>1, <2>2, <2>3, UpdateKeepsHistory
<1>4. ASSUME NEW w \in Workers, NEW fields \in Doc, worker[w].at # "idle", Finish(w, fields)
      PROVE  HistoryKept
  <2> DEFINE n == worker[w].msg
  <2>1. CASE ~UNCHANGED docs
    <3>1. Owns(w, n) /\ docs' = [docs EXCEPT ![n] = [fields EXCEPT !.seq = docs[n].seq]]
      BY <1>4, <2>1 DEF Finish, Update
    <3>2. n \in Calls /\ docs[n] # NoDoc
      BY <1>4, <3>1, Shapes DEF Owns, Job
    <3>3. [fields EXCEPT !.seq = docs[n].seq].status # "none"
      BY DEF Doc
    <3> QED BY <3>1, <3>2, <3>3, UpdateKeepsHistory
  <2> QED BY <1>1, <2>1
<1>5. ASSUME NEW w \in Workers, drain(w) \/ WriteUnknown(w) \/ WriteFails(w)
      PROVE  HistoryKept
  <2>1. CASE DeferForOrdering(w) \/ MarkRetry(w) \/ MarkPublished(w)
    BY <1>4, <2>1, FieldsTyped DEF DeferForOrdering, MarkRetry, MarkPublished
  <2>2. CASE EnterGate(w) \/ HasEarlierUnpublished(w) \/ writeOnce(w) \/ WriteUnknown(w)
             \/ WriteFails(w)
    BY <1>1, <2>2 DEF EnterGate, HasEarlierUnpublished, writeOnce, WriteUnknown, WriteFails
  <2> QED BY <1>3, <1>5, <2>1, <2>2 DEF drain
<1>6. ASSUME NEW m \in Calls, Due(m) \/ LeaseExpires(m) PROVE HistoryKept
  <2>1. docs[m] # NoDoc /\ docs[m] \in Doc
    BY <1>t, <1>6 DEF Due, LeaseExpires, Stored
  <2>2. /\ [docs[m] EXCEPT !.due = TRUE].status # "none"
        /\ [docs[m] EXCEPT !.live = FALSE].status # "none"
    BY <2>1 DEF Doc
  <2>3. \/ docs' = [docs EXCEPT ![m] = [docs[m] EXCEPT !.due = TRUE]]
        \/ docs' = [docs EXCEPT ![m] = [docs[m] EXCEPT !.live = FALSE]]
    BY <1>6 DEF Due, LeaseExpires
  <2> QED BY <2>1, <2>2, <2>3, UpdateKeepsHistory
<1>7. ASSUME NEW i \in Instances, Crash(i) PROVE HistoryKept
  <2>1. ASSUME NEW m \in Calls, docs'[m] # docs[m]
        PROVE  docs'[m] # NoDoc /\ docs[m] # NoDoc
    <3>1. docs[m] # NoDoc /\ docs'[m] = [docs[m] EXCEPT !.owner = NoOne]
      BY <1>7, <2>1 DEF Crash
    <3>2. docs[m] \in Doc
      BY <1>t, <3>1
    <3>3. docs'[m].status # "none"
      BY <3>1, <3>2 DEF Doc
    <3> QED BY <1>t, <3>1, <3>3
  <2> QED BY <2>1 DEF HistoryKept
<1> QED BY <1>2, <1>5, <1>6, <1>7 DEF Next

\* What a reader of lesson l sees, by name.
InLesson(l) == {m \in Calls : Lesson[m] = l}
HistoryOf(l) == {m \in Stored : Lesson[m] = l}
BeforeOf(l) == [m \in InLesson(l) |-> seen[m]]
DeletedOf(l) == {m \in deleted : Lesson[m] = l}
PartitionOf(l) == [k \in DOMAIN kafka[l] |-> kafka[l][k].msg]

(* A lesson whose history, deletions and partition stay sees nothing.      *)
LEMMA LogStutters ==
  ASSUME NEW l \in Lessons, HistoryOf(l)' = HistoryOf(l), BeforeOf(l)' = BeforeOf(l),
         DeletedOf(l)' = DeletedOf(l), kafka'[l] = kafka[l]
  PROVE  UNCHANGED Log(l)!vars
<1>1. PartitionOf(l)' = PartitionOf(l)
  BY DEF PartitionOf
<1> QED BY <1>1 DEF Log!vars, HistoryOf, BeforeOf, DeletedOf, PartitionOf, InLesson

(* The same, when a step keeps the three tables as a whole.                *)
LEMMA LogKept ==
  ASSUME NEW l \in Lessons, HistoryKept, UNCHANGED <<seen, deleted>>, kafka'[l] = kafka[l]
  PROVE  UNCHANGED Log(l)!vars
<1>1. HistoryOf(l)' = HistoryOf(l)
  BY DEF HistoryOf, Stored, HistoryKept
<1>2. BeforeOf(l)' = BeforeOf(l) /\ DeletedOf(l)' = DeletedOf(l)
  BY DEF BeforeOf, DeletedOf
<1> QED BY <1>1, <1>2, LogStutters

(* A message of the lesson that is stored is a step of its log.            *)
LEMMA StoreIsStep ==
  ASSUME NEW l, NEW m \in Calls, Lesson[m] = l,
         NEW earlier \in SUBSET {c \in Stored : Lesson[c] = l}, Log(l)!Store(m, earlier)
  PROVE  Log(l)!Next
  BY DEF Log!Next

(* So is one that is recorded.                                             *)
LEMMA RecordIsStep ==
  ASSUME NEW l, NEW m \in Calls, Lesson[m] = l, Log(l)!Record(m)
  PROVE  Log(l)!Next
  BY DEF Log!Next

(* An insert stores a new message of its lesson, behind what was there.    *)
LEMMA InsertStores ==
  ASSUME RelayInv, NEW c \in Calls, InsertMessageIdempotent(c), ~UNCHANGED docs,
         NEW l \in Lessons
  PROVE  Log(l)!Next \/ UNCHANGED Log(l)!vars
<1>0. PICK earlier : earlier = {m \in Stored : Earlier(m, c)}
  OBVIOUS
<1>t. TypeOK /\ docs \in [Calls -> Doc \cup {NoDoc}] /\ seen \in [Calls -> SUBSET Calls]
  BY DEF RelayInv, TypeOK
<1>1. /\ docs' = [docs EXCEPT ![c] = NewDoc] /\ seen' = [seen EXCEPT ![c] = earlier]
      /\ UNCHANGED <<deleted, kafka>> /\ call[c].at = "started"
  BY <1>0 DEF InsertMessageIdempotent
<1>2. docs[c] = NoDoc /\ c \notin deleted
  BY <1>1 DEF RelayInv, Fresh, Posted
<1>3. NewDoc # NoDoc
  BY FieldsTyped, DocIsDoc
<1>4. DeletedOf(l)' = DeletedOf(l) /\ PartitionOf(l)' = PartitionOf(l)
  BY <1>1 DEF DeletedOf, PartitionOf
<1>5. CASE Lesson[c] = l
  <2>1. HistoryOf(l)' = HistoryOf(l) \cup {c}
    BY <1>t, <1>1, <1>3, <1>5 DEF HistoryOf, Stored
  <2>2. BeforeOf(l)' = [BeforeOf(l) EXCEPT ![c] = earlier]
    BY <1>t, <1>1, <1>5 DEF BeforeOf, InLesson
  <2>3. earlier \in SUBSET HistoryOf(l)
    BY <1>0, <1>5 DEF HistoryOf, Earlier
  <2>4. c \in InLesson(l) /\ c \notin HistoryOf(l) \cup DeletedOf(l)
    BY <1>2, <1>5 DEF InLesson, HistoryOf, DeletedOf, Stored
  <2>5. Log(l)!Store(c, earlier)
    BY <1>4, <2>1, <2>2, <2>3, <2>4
       DEF Log!Store, HistoryOf, BeforeOf, DeletedOf, PartitionOf, InLesson
  <2>6. earlier \in SUBSET {m \in Stored : Lesson[m] = l}
    BY <2>3 DEF HistoryOf
  <2> QED BY <1>5, <2>5, <2>6, StoreIsStep
<1>6. CASE Lesson[c] # l
  <2>1. HistoryOf(l)' = HistoryOf(l)
    BY <1>t, <1>1, <1>2, <1>6 DEF HistoryOf, Stored
  <2>2. BeforeOf(l)' = BeforeOf(l)
    BY <1>t, <1>1, <1>6 DEF BeforeOf, InLesson
  <2> QED BY <1>1, <1>4, <2>1, <2>2, LogStutters
<1> QED BY <1>5, <1>6

(* Appending adds one element behind the sequence.                         *)
LEMMA AppendIs ==
  ASSUME NEW S, NEW s \in Seq(S), NEW x \in S
  PROVE  Append(s, x) = [k \in 1..(Len(s) + 1) |-> IF k \in 1..Len(s) THEN s[k] ELSE x]
<1>1. Append(s, x) \in Seq(S)
  OBVIOUS
<1>2. \A t \in Seq(S) : t = [k \in 1..Len(t) |-> t[k]]
  OBVIOUS
<1>3. Len(Append(s, x)) = Len(s) + 1
  OBVIOUS
<1>4. \A k \in 1..(Len(s) + 1) : Append(s, x)[k] = IF k \in 1..Len(s) THEN s[k] ELSE x
  OBVIOUS
<1> QED BY <1>1, <1>2, <1>3, <1>4

(* A worker past the fence records a message of its lesson, after those    *)
(* that the message found in the history.                                  *)
LEMMA PublishRecords ==
  ASSUME RelayInv, KeyInv, NEW w \in Workers, worker[w].at = "clear", Publish(w),
         UNCHANGED <<docs, seen, deleted>>, NEW l \in Lessons
  PROVE  Log(l)!Next \/ UNCHANGED Log(l)!vars
<1>0. PICK n \in Calls : worker[w].msg = n
  BY JobKnown
<1> DEFINE rec == [msg |-> n, seq |-> worker[w].seq]
<1>t. TypeOK /\ kafka \in [Lessons -> Seq(Record)]
  BY DEF RelayInv, TypeOK
<1>1. n \in Calls /\ Posted(n) /\ Behind(n) /\ Lesson[n] \in Lessons /\ rec \in Record
  BY <1>0, <1>t, JobKnown, Shapes, ChatAssumption DEF Job, Record
<1>2. kafka' = [kafka EXCEPT ![Lesson[n]] = Append(@, rec)]
  BY <1>0 DEF Publish
<1>h. HistoryOf(l)' = HistoryOf(l) /\ BeforeOf(l)' = BeforeOf(l) /\ DeletedOf(l)' = DeletedOf(l)
  BY DEF HistoryOf, BeforeOf, DeletedOf, Stored
<1>3. CASE Lesson[n] # l
  <2>1. kafka'[l] = kafka[l]
    BY <1>t, <1>2, <1>3
  <2> QED BY <1>h, <2>1, LogStutters
<1>4. CASE Lesson[n] = l
  <2>1. kafka'[l] = Append(kafka[l], rec) /\ kafka[l] \in Seq(Record)
    BY <1>t, <1>2, <1>4
  <2>2. /\ DOMAIN kafka'[l] = 1..(Len(kafka[l]) + 1)
        /\ DOMAIN kafka[l] = 1..Len(kafka[l]) /\ Len(kafka[l]) \in Nat
        /\ \A k \in 1..Len(kafka[l]) : kafka'[l][k] = kafka[l][k]
        /\ kafka'[l][Len(kafka[l]) + 1] = rec
    <3> HIDE DEF rec
    <3> QED BY <1>1, <2>1, Appended
  <2>3. PartitionOf(l)' = Append(PartitionOf(l), n)
    <3>1. \A k \in 1..Len(kafka[l]) : kafka[l][k] \in Record
      BY <2>1
    <3>2. rec.msg = n
      OBVIOUS
    <3>3. PartitionOf(l) \in Seq(Calls) /\ Len(PartitionOf(l)) = Len(kafka[l])
      BY <2>2, <3>1 DEF PartitionOf, Record
    <3>4. PartitionOf(l)' = [k \in 1..(Len(kafka[l]) + 1) |->
                               IF k \in 1..Len(kafka[l]) THEN PartitionOf(l)[k] ELSE n]
      <4> HIDE DEF rec
      <4> QED BY <2>2, <3>2 DEF PartitionOf
    <3>5. Append(PartitionOf(l), n) = [k \in 1..(Len(kafka[l]) + 1) |->
                               IF k \in 1..Len(kafka[l]) THEN PartitionOf(l)[k] ELSE n]
      <4> HIDE DEF rec
      <4> QED BY <1>1, <3>3, AppendIs
    <3> QED BY <3>4, <3>5
  <2>4. n \in InLesson(l) /\ n \in HistoryOf(l) \cup DeletedOf(l)
    <3>1. n \in Stored \/ n \in deleted
      BY <1>0, JobKnown DEF KeyInv, Taken
    <3> QED BY <1>1, <1>4, <3>1 DEF InLesson, HistoryOf, DeletedOf, Stored
  <2>5. BeforeOf(l)[n] = seen[n]
    BY <2>4 DEF BeforeOf
  <2>6. ASSUME NEW m \in seen[n]
        PROVE  m \in {PartitionOf(l)[k] : k \in DOMAIN PartitionOf(l)} \cup DeletedOf(l)
    <3>1. m \in Calls /\ Lesson[m] = l
      BY <1>1, <1>4, <2>6 DEF RelayInv, SeenStays, Earlier, TypeOK
    <3>2. Sent(m) \/ m \in deleted
      BY <1>1, <2>6 DEF Behind
    <3> QED BY <3>1, <3>2 DEF Sent, PartitionOf, DeletedOf
  <2>7. Log(l)!Record(n)
    BY <1>h, <2>3, <2>4, <2>5, <2>6
       DEF Log!Record, Log!Recorded, HistoryOf, BeforeOf, DeletedOf, PartitionOf, InLesson
  <2> QED BY <1>1, <1>4, <2>7, RecordIsStep
<1> QED BY <1>3, <1>4

(* DelHistory empties the history of its lesson.                           *)
LEMMA DeletionDeletes ==
  ASSUME RelayInv, NEW d \in Lessons, DelHistory(d), NEW l \in Lessons
  PROVE  Log(l)!Next \/ UNCHANGED Log(l)!vars
<1> DEFINE gone == {m \in Stored : Lesson[m] = d}
<1>1. /\ UNCHANGED <<seen, kafka>> /\ deleted' = deleted \cup gone
      /\ \A m \in Calls : docs'[m] = IF m \in gone THEN NoDoc ELSE docs[m]
  BY DEF DelHistory
<1>2. BeforeOf(l)' = BeforeOf(l) /\ PartitionOf(l)' = PartitionOf(l)
  BY <1>1 DEF BeforeOf, PartitionOf
<1>3. CASE d = l
  <2>1. HistoryOf(l)' = {}
    BY <1>1, <1>3 DEF HistoryOf, Stored
  <2>2. DeletedOf(l)' = DeletedOf(l) \cup HistoryOf(l)
    BY <1>1, <1>3 DEF DeletedOf, HistoryOf, Stored
  <2>3. Log(l)!DeleteAll
    BY <1>2, <2>1, <2>2
       DEF Log!DeleteAll, HistoryOf, BeforeOf, DeletedOf, PartitionOf, InLesson
  <2> QED BY <2>3 DEF Log!Next
<1>4. CASE d # l
  <2>1. HistoryOf(l)' = HistoryOf(l)
    BY <1>1, <1>4 DEF HistoryOf, Stored
  <2>2. DeletedOf(l)' = DeletedOf(l)
    BY <1>1, <1>4 DEF DeletedOf
  <2> QED BY <1>1, <1>2, <2>1, <2>2, LogStutters
<1> QED BY <1>3, <1>4

(* Every step of the service is, for each lesson, a step of its log or     *)
(* leaves it unchanged.                                                    *)
LEMMA LogStep ==
  ASSUME RelayInv, KeyInv, [Next]_vars, NEW l \in Lessons
  PROVE  Log(l)!Next \/ UNCHANGED Log(l)!vars
<1>t. TypeOK
  BY DEF RelayInv
<1>1. ASSUME NEW c \in Calls, InsertMessageIdempotent(c), ~UNCHANGED docs
      PROVE  Log(l)!Next \/ UNCHANGED Log(l)!vars
  BY <1>1, InsertStores
<1>2. ASSUME NEW w \in Workers, writeOnce(w) \/ WriteUnknown(w)
      PROVE  Log(l)!Next \/ UNCHANGED Log(l)!vars
  BY <1>2, PublishRecords DEF writeOnce, WriteUnknown, callVars
<1>3. ASSUME NEW d \in Lessons, DelHistory(d)
      PROVE  Log(l)!Next \/ UNCHANGED Log(l)!vars
  BY <1>3, DeletionDeletes
<1>4. CASE UNCHANGED vars
  BY <1>4, LogKept DEF vars, HistoryKept
<1>5. CASE /\ Next
           /\ \A c \in Calls : InsertMessageIdempotent(c) => UNCHANGED docs
           /\ \A w \in Workers : ~writeOnce(w) /\ ~WriteUnknown(w)
           /\ \A d \in Lessons : ~DelHistory(d)
  <2>1. HistoryKept
    BY <1>t, <1>5, HistoryStays
  <2>2. UNCHANGED <<seen, deleted, kafka>>
    <3>1. ASSUME NEW c \in Calls, CallNext(c) PROVE UNCHANGED <<seen, deleted, kafka>>
      <4>1. CASE InsertMessageIdempotent(c)
        <5>1. call[c].at = "started"
          BY <4>1 DEF InsertMessageIdempotent
        <5>2. docs[c] = NoDoc /\ docs' = docs
          BY <1>5, <4>1, <5>1 DEF RelayInv, Fresh, Posted
        <5>3. docs' # [docs EXCEPT ![c] = NewDoc]
          BY <1>t, <5>2, FieldsTyped, DocIsDoc DEF TypeOK
        <5> QED BY <4>1, <5>3 DEF InsertMessageIdempotent
      <4> QED BY <3>1, <4>1
              DEF CallNext, LiveChat, AllocateLessonSeq, AlreadyNumbered, SetLessonSeq, CallDies
    <3>2. ASSUME NEW w \in Workers, drain(w) \/ WriteFails(w)
          PROVE  UNCHANGED <<seen, deleted, kafka>>
      BY <1>5, <3>2 DEF drain, claimNextOutbox, EnterGate, HasEarlierUnpublished,
         DeferForOrdering, MarkRetry, MarkPublished, Finish, WriteFails
    <3>3. ASSUME NEW m \in Calls, Due(m) \/ LeaseExpires(m)
          PROVE  UNCHANGED <<seen, deleted, kafka>>
      BY <3>3 DEF Due, LeaseExpires
    <3>4. ASSUME NEW i \in Instances, Crash(i) PROVE UNCHANGED <<seen, deleted, kafka>>
      BY <3>4 DEF Crash
    <3> QED BY <1>5, <3>1, <3>2, <3>3, <3>4 DEF Next
  <2> QED BY <2>1, <2>2, LogKept
<1> QED BY <1>1, <1>2, <1>3, <1>4, <1>5

(* Every lesson's log starts empty.                                        *)
LEMMA LogStart == Init => \A l \in Lessons : Log(l)!Init
<1> SUFFICES ASSUME Init, NEW l \in Lessons PROVE Log(l)!Init
  OBVIOUS
<1>1. /\ \A m \in Calls : docs[m] = NoDoc /\ seen[m] = {}
      /\ deleted = {} /\ kafka[l] = <<>>
  BY DEF Init
<1>2. HistoryOf(l) = {} /\ DeletedOf(l) = {}
  BY <1>1 DEF HistoryOf, DeletedOf, Stored
<1>3. BeforeOf(l) = [m \in InLesson(l) |-> {}]
  BY <1>1 DEF BeforeOf, InLesson
<1>4. PartitionOf(l) = <<>>
  <2>1. DOMAIN <<>> = {}
    OBVIOUS
  <2>2. DOMAIN kafka[l] = {}
    BY <1>1, <2>1
  <2>3. PartitionOf(l) = [k \in {} |-> kafka[l][k].msg]
    BY <2>2 DEF PartitionOf
  <2>4. <<>> = [k \in {} |-> kafka[l][k].msg]
    OBVIOUS
  <2> QED BY <2>3, <2>4
<1> QED BY <1>2, <1>3, <1>4 DEF Log!Init, HistoryOf, BeforeOf, DeletedOf, PartitionOf, InLesson

(* The service implements the log of every lesson: whatever calls, workers *)
(* and instances there are and fail, a message is stored once and before   *)
(* its records, and recorded after what it found in the history.           *)
THEOREM ChatImplementsLog == Spec => ImplementsLog
<1>1. RelayInv /\ KeyInv /\ [Next]_vars => [\A l \in Lessons : [Log(l)!Next]_(Log(l)!vars)]_vars
  BY LogStep
<1>2. Spec => [][\A l \in Lessons : [Log(l)!Next]_(Log(l)!vars)]_vars
  BY <1>1, RelayInvariant, KeyInvariant, PTL DEF Spec
<1>3. Spec => \A l \in Lessons : Log(l)!Init
  BY LogStart DEF Spec
<1> QED BY <1>2, <1>3 DEF ImplementsLog

(* The same, lesson by lesson: what the gateways of a lesson rely on.      *)
THEOREM ChatLessonIsLog ==
  ASSUME NEW CONSTANT l \in Lessons
  PROVE  Spec => Log(l)!Spec
<1>1. RelayInv /\ KeyInv /\ [Next]_vars => [Log(l)!Next]_(Log(l)!vars)
  BY LogStep
<1>2. Init => Log(l)!Init
  BY LogStart
<1> QED BY <1>1, <1>2, RelayInvariant, KeyInvariant, PTL DEF Spec, Log!Spec
=============================================================================
