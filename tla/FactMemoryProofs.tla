-------------------------- MODULE FactMemoryProofs --------------------------
(***************************************************************************)
(* Proofs about FactMemory, for any writers, dispatchers, partitions,      *)
(* conflict keys and extracted facts, any batch size and number of faults. *)
(*                                                                         *)
(* The argument: the advisory lock of a conflict key makes the fact that a *)
(* transaction found stay active until the transaction ends, so no second  *)
(* one supersedes it (Transactions).  Events are never removed and never   *)
(* changed but for their status, so the event written in the transaction   *)
(* of a fact is still there whatever dispatchers do (Carried, Delivered).  *)
(* A vector is only ever written from an event, and an event that says     *)
(* inactive is only written with the fact that supersedes (Vectors).       *)
(***************************************************************************)
EXTENDS FactMemory, FiniteSetTheorems, WellFoundedInduction, TLAPS

-----------------------------------------------------------------------------
FactRecord ==
    [key : ConflictKeys \cup {None}, confidence : 5..10, active : BOOLEAN,
     supersedes : Nat, index : {"pending", "done", "failed"}]
EventRecord == [fact : Nat, active : BOOLEAN, status : 0..2]

Types ==
    /\ facts \in Seq(FactRecord)
    /\ outbox \in Seq(EventRecord)
    /\ locked \in [ConflictKeys -> Writers \cup {None}]
    /\ writer \in [Writers -> [at : {"start", "write", "done"},
                               input : Inputs \cup {None}, old : Nat]]
    /\ topic \in [Partitions -> Seq(Nat)]
    /\ disp \in [Dispatchers -> [at : {"idle", "write", "sent", "failed"}, ids : Seq(Nat)]]
    /\ cons \in [Partitions -> [at : {"fetch", "status", "commit"}, next : Nat \ {0}]]
    /\ vector \in [DOMAIN vector -> BOOLEAN]

\* Ids point at rows that exist, positions at records that exist.
References ==
    /\ \A i \in Ids : facts[i].supersedes < i
    /\ \A e \in DOMAIN outbox : outbox[e].fact \in Ids
    /\ \A p \in Partitions : \A n \in 1..Len(topic[p]) : topic[p][n] \in DOMAIN outbox
    /\ \A d \in Dispatchers :
         /\ \A n \in 1..Len(disp[d].ids) : disp[d].ids[n] \in DOMAIN outbox
         /\ disp[d].at # "idle" => Len(disp[d].ids) > 0
    /\ \A p \in Partitions :
         /\ cons[p].next <= Len(topic[p]) + 1
         /\ cons[p].at # "fetch" => cons[p].next <= Len(topic[p])
    /\ DOMAIN vector \subseteq Ids

\* An open transaction holds the lock of its key, and the fact it found is
\* still what it was.
Transactions ==
    \A w \in Writers : writer[w].at = "write" =>
        /\ writer[w].input \in Inputs
        /\ writer[w].input.key # None => locked[writer[w].input.key] = w
        /\ writer[w].old # 0 =>
             /\ writer[w].input.key # None
             /\ writer[w].old \in Ids
             /\ facts[writer[w].old].active
             /\ facts[writer[w].old].key = writer[w].input.key

\* Every fact has an event with its is_active; no event says inactive of an
\* active fact.
Carried ==
    /\ \A i \in Ids : \E e \in DOMAIN outbox :
          outbox[e].fact = i /\ outbox[e].active = facts[i].active
    /\ \A e \in DOMAIN outbox : ~outbox[e].active => ~facts[outbox[e].fact].active

\* What is marked sent, or is about to be, has a record.
Delivered ==
    /\ \A e \in DOMAIN outbox : outbox[e].status = 1 => e \in published
    /\ \A d \in Dispatchers : disp[d].at = "sent" =>
          \A n \in 1..Len(disp[d].ids) : disp[d].ids[n] \in published

\* Vectors say what the facts say, once the index says that they are there.
Vectors ==
    /\ \A i \in DOMAIN vector : ~vector[i] => ~facts[i].active
    /\ \A p \in Partitions : cons[p].at = "status" => Current(p).fact \in DOMAIN vector
    /\ \A i \in Ids : facts[i].index = "done" => i \in DOMAIN vector

Inv ==
    /\ Types
    /\ References
    /\ Transactions
    /\ SupersededOnce
    /\ Carried
    /\ Delivered
    /\ Vectors

-----------------------------------------------------------------------------
(* The choice of the fact in conflict, and the batch of a dispatcher.      *)

\* A set of natural numbers that is not empty has a least member.
LEMMA Least ==
    ASSUME NEW T \in SUBSET Nat, T # {}
    PROVE  \E x \in T : \A y \in T : x <= y
<1> DEFINE R == OpToRel(<, Nat)
<1>1. IsWellFoundedOn(R, Nat)
  BY NatLessThanWellFounded
<1>2. \A x, y \in Nat : <<x, y>> \in R <=> x < y
  BY DEF OpToRel
<1> HIDE DEF R
<1>3. PICK x \in T : \A y \in T : ~(<<y, x>> \in R)
  BY <1>1, WFMin
<1>4. ASSUME NEW y \in T PROVE x <= y
  <2>1. x \in Nat /\ y \in Nat
    OBVIOUS
  <2>2. ~(y < x)
    BY <1>2, <1>3, <2>1
  <2>3. QED
    BY <2>1, <2>2
<1>5. QED
  BY <1>4

\* The events that a dispatcher lists are some, and are events.
LEMMA SomePending ==
    ASSUME Types, Pending # {}
    PROVE  FirstPending # {} /\ FirstPending \subseteq DOMAIN outbox
                             /\ Cardinality(FirstPending) \in Nat
<1>1. DOMAIN outbox = 1..Len(outbox) /\ Len(outbox) \in Nat
  BY DEF Types
<1>2. Pending \in SUBSET Nat /\ Pending \subseteq DOMAIN outbox
  BY <1>1 DEF Pending
<1>3. PICK x \in Pending : \A y \in Pending : x <= y
  BY <1>2, Least
<1>4. {j \in Pending : j < x} = {}
  <2>1. ASSUME NEW j \in Pending PROVE ~(j < x)
    <3>1. x \in Nat /\ j \in Nat /\ x <= j
      BY <1>2, <1>3
    <3>2. QED
      BY <3>1
  <2>2. QED
    BY <2>1
<1>5. Cardinality({j \in Pending : j < x}) < Batch
  BY <1>4, FS_EmptySet, MemoryAssumption
<1>6. IsFiniteSet(FirstPending)
  <2>1. IsFiniteSet(1..Len(outbox))
    BY <1>1, FS_Interval
  <2>2. FirstPending \subseteq 1..Len(outbox)
    BY <1>1, <1>2 DEF FirstPending
  <2>3. QED
    BY <2>1, <2>2, FS_Subset
<1>7. QED
  BY <1>2, <1>3, <1>5, <1>6, FS_CardinalityType DEF FirstPending

\* A list of a finite set's members is a sequence of them.
LEMMA AscendingIsSeq ==
    ASSUME NEW X, Cardinality(X) \in Nat, NEW s \in Ascending(X)
    PROVE  s \in Seq(X)
<1>1. PICK m \in 0..Cardinality(X) : s \in [1..m -> X]
  BY DEF Ascending, SeqOf
<1>2. m \in Nat
  OBVIOUS
<1>3. QED
  BY <1>1, <1>2
-----------------------------------------------------------------------------
(* The transaction that writes a fact.                                     *)

Supersedes(w) ==
    writer[w].old # 0 /\ shouldSupersede(facts[writer[w].old], writer[w].input)

NewFact(w) ==
    [key |-> writer[w].input.key, confidence |-> writer[w].input.confidence, active |-> TRUE,
     supersedes |-> IF Supersedes(w) THEN writer[w].old ELSE 0, index |-> "pending"]

\* What WriteFact leaves in the table of facts, row by row.
FactsWritten(w) ==
    /\ facts' \in Seq(FactRecord)
    /\ Len(facts') = Len(facts) + 1
    /\ facts'[Len(facts) + 1] = NewFact(w)
    /\ \A i \in Ids : i # writer[w].old \/ ~Supersedes(w) => facts'[i] = facts[i]
    /\ Supersedes(w) => facts'[writer[w].old] =
          [facts[writer[w].old] EXCEPT !.active = FALSE, !.index = "pending"]

\* What it leaves in the outbox.
EventsWritten(w) ==
    /\ outbox' \in Seq(EventRecord)
    /\ Len(outbox') = Len(outbox) + (IF Supersedes(w) THEN 2 ELSE 1)
    /\ \A e \in DOMAIN outbox : outbox'[e] = outbox[e]
    /\ outbox'[Len(outbox) + 1] = Event(Len(facts) + 1, TRUE)
    /\ Supersedes(w) => outbox'[Len(outbox) + 2] = Event(writer[w].old, FALSE)

\* The reported facts are records of a key and a confidence.
LEMMA InputType ==
    ASSUME NEW input \in Inputs
    PROVE  input.key \in ConflictKeys \cup {None} /\ input.confidence \in 5..10
BY MemoryAssumption

\* The row as the code fills it in, before gorm does.
RawFact(w) ==
    [key |-> writer[w].input.key, confidence |-> writer[w].input.confidence,
     active |-> writer[w].old = 0 \/ Supersedes(w),
     supersedes |-> IF Supersedes(w) THEN writer[w].old ELSE 0, index |-> "pending"]

\* gorm's Create makes it the row that NewFact is.
LEMMA NewFactCreated ==
    ASSUME NEW w
    PROVE  Created(RawFact(w)) = NewFact(w)
<1> DEFINE k == writer[w].input.key
           c == writer[w].input.confidence
           a == writer[w].old = 0 \/ Supersedes(w)
           s == IF Supersedes(w) THEN writer[w].old ELSE 0
<1>1. /\ RawFact(w) = [key |-> k, confidence |-> c, active |-> a, supersedes |-> s,
                       index |-> "pending"]
      /\ NewFact(w) = [key |-> k, confidence |-> c, active |-> TRUE, supersedes |-> s,
                       index |-> "pending"]
  BY DEF RawFact, NewFact
<1> HIDE DEF k, c, a, s
<1> DEFINE r == RawFact(w)
<1>2. r \in [key : {k}, confidence : {c}, active : {a}, supersedes : {s}, index : {"pending"}]
  BY <1>1
<1> HIDE DEF r
<1> DEFINE x == [r EXCEPT !.active = TRUE]
<1>3. x = Created(RawFact(w))
  BY DEF Created, r
<1>4. x \in [key : {k}, confidence : {c}, active : {TRUE}, supersedes : {s},
             index : {"pending"}]
  BY <1>2
<1> HIDE DEF x
<1>5. x = [key |-> k, confidence |-> c, active |-> TRUE, supersedes |-> s, index |-> "pending"]
  BY <1>4
<1>6. QED
  BY <1>1, <1>3, <1>5

\* Appending one or two members to a sequence, position by position.
LEMMA AppendOne ==
    ASSUME NEW S, NEW s \in Seq(S), NEW a \in S
    PROVE  /\ s \o <<a>> \in Seq(S)
           /\ Len(s \o <<a>>) = Len(s) + 1
           /\ \A i \in DOMAIN s : (s \o <<a>>)[i] = s[i]
           /\ (s \o <<a>>)[Len(s) + 1] = a
OBVIOUS

\* Two elements are appended: the earlier ones stay, and these are the last two.
LEMMA AppendTwo ==
    ASSUME NEW S, NEW s \in Seq(S), NEW a \in S, NEW b \in S
    PROVE  /\ s \o (<<a>> \o <<b>>) \in Seq(S)
           /\ Len(s \o (<<a>> \o <<b>>)) = Len(s) + 2
           /\ \A i \in DOMAIN s : (s \o (<<a>> \o <<b>>))[i] = s[i]
           /\ (s \o (<<a>> \o <<b>>))[Len(s) + 1] = a
           /\ (s \o (<<a>> \o <<b>>))[Len(s) + 2] = b
<1> DEFINE t == <<a>> \o <<b>>
<1>1. t \in Seq(S) /\ Len(t) = 2 /\ t[1] = a /\ t[2] = b
  OBVIOUS
<1> HIDE DEF t
<1>2. QED
  BY <1>1 DEF t

\* WriteFact, row by row.
LEMMA FactsAreWritten ==
    ASSUME Types, Transactions, NEW w \in Writers, WriteFact(w)
    PROVE  FactsWritten(w)
<1> DEFINE old == writer[w].old
           gone == [facts[old] EXCEPT !.active = FALSE, !.index = "pending"]
           base == IF Supersedes(w) THEN [facts EXCEPT ![old] = gone] ELSE facts
<1>1. facts' = Append(base, NewFact(w))
  BY NewFactCreated DEF WriteFact, Supersedes, RawFact
<1>2. writer[w].input \in Inputs /\ (old # 0 => old \in Ids)
  BY DEF Transactions, WriteFact
<1>3. old \in Nat
  BY DEF Types
<1>4. NewFact(w) \in FactRecord
  BY <1>2, <1>3, InputType DEF NewFact, FactRecord
<1>5. Supersedes(w) => old \in Ids
  BY <1>2 DEF Supersedes
<1>6. facts \in Seq(FactRecord)
  BY DEF Types
<1>7. Supersedes(w) => gone \in FactRecord
  <2>1. Supersedes(w) => facts[old] \in FactRecord
    BY <1>5, <1>6 DEF Ids
  <2>2. QED
    BY <2>1 DEF FactRecord
<1> HIDE DEF gone
<1>8. /\ base \in Seq(FactRecord)
      /\ Len(base) = Len(facts)
      /\ \A i \in Ids : i # old \/ ~Supersedes(w) => base[i] = facts[i]
      /\ Supersedes(w) => base[old] = gone
  BY <1>5, <1>6, <1>7 DEF Ids
<1> HIDE DEF base
<1>9. DOMAIN facts = 1..Len(facts) /\ Len(facts) \in Nat
  BY <1>6
<1>10. QED
  <2>1. \A i \in 1..Len(facts) : facts'[i] = base[i]
    BY <1>1, <1>4, <1>8, <1>9
  <2>2. facts' \in Seq(FactRecord) /\ Len(facts') = Len(facts) + 1
        /\ facts'[Len(facts) + 1] = NewFact(w)
    BY <1>1, <1>4, <1>8
  <2>3. QED
    BY <1>5, <1>8, <1>9, <2>1, <2>2 DEF FactsWritten, Ids, gone

\* Events are appended, one or two of them.
LEMMA EventsAreWritten ==
    ASSUME Types, References, Transactions, NEW w \in Writers, WriteFact(w)
    PROVE  EventsWritten(w)
<1> DEFINE old == writer[w].old
           new == Event(Len(facts) + 1, TRUE)
           second == Event(old, FALSE)
<1>1. old \in Nat /\ Len(facts) \in Nat /\ outbox \in Seq(EventRecord)
  BY DEF Types
<1>2. new \in EventRecord /\ second \in EventRecord
  BY <1>1 DEF Event, EventRecord
<1>3. new = Event(Len(facts) + 1, NewFact(w).active) /\ NewFact(w).active
  BY DEF NewFact
<1>4. outbox' = outbox \o NewEvents(Len(facts) + 1, NewFact(w).active, NewFact(w).supersedes)
  BY NewFactCreated DEF WriteFact, Supersedes, RawFact
<1>5. CASE Supersedes(w)
  <2>1. outbox' = outbox \o (<<new>> \o <<second>>)
    BY <1>3, <1>4, <1>5 DEF NewEvents, NewFact, Supersedes
  <2> HIDE DEF new, second
  <2>2. /\ outbox' \in Seq(EventRecord)
        /\ Len(outbox') = Len(outbox) + 2
        /\ \A e \in DOMAIN outbox : outbox'[e] = outbox[e]
        /\ outbox'[Len(outbox) + 1] = new
        /\ outbox'[Len(outbox) + 2] = second
    BY <1>1, <1>2, <2>1, AppendTwo
  <2>3. QED
    BY <1>5, <2>2 DEF EventsWritten, new, second
<1>6. CASE ~Supersedes(w)
  <2>1. outbox' = outbox \o (<<new>> \o <<>>)
    BY <1>3, <1>4, <1>6 DEF NewEvents, NewFact
  <2>2. <<new>> \o <<>> = <<new>>
    <3> HIDE DEF new
    <3>1. QED
      OBVIOUS
  <2> HIDE DEF new
  <2>3. /\ outbox' \in Seq(EventRecord)
        /\ Len(outbox') = Len(outbox) + 1
        /\ \A e \in DOMAIN outbox : outbox'[e] = outbox[e]
        /\ outbox'[Len(outbox) + 1] = new
    BY <1>1, <1>2, <2>1, <2>2, AppendOne
  <2>4. QED
    BY <1>6, <2>3 DEF EventsWritten, new
<1>7. QED
  BY <1>5, <1>6
\* Of the rows that were there, WriteFact changes at most is_active and the
\* index status of the superseded one.
LEMMA RowsKept ==
    ASSUME Types, Transactions, NEW w \in Writers, WriteFact(w), NEW i \in Ids
    PROVE  /\ facts'[i].key = facts[i].key
           /\ facts'[i].confidence = facts[i].confidence
           /\ facts'[i].supersedes = facts[i].supersedes
           /\ ~facts[i].active => ~facts'[i].active
           /\ facts'[i].index = "done" => facts[i].index = "done"
           /\ facts'[i].active = facts[i].active \/ (i = writer[w].old /\ Supersedes(w)
                                                       /\ ~facts'[i].active)
           /\ i = writer[w].old /\ Supersedes(w) => ~facts'[i].active
<1>1. FactsWritten(w)
  BY FactsAreWritten
<1>2. facts[i] \in FactRecord
  BY DEF Types, Ids
<1>3. CASE i = writer[w].old /\ Supersedes(w)
  <2> DEFINE x == facts'[i]
             y == facts[i]
  <2>1. x = [y EXCEPT !.active = FALSE, !.index = "pending"]
    BY <1>1, <1>3 DEF FactsWritten
  <2> HIDE DEF x, y
  <2>2. /\ x.key = y.key /\ x.confidence = y.confidence /\ x.supersedes = y.supersedes
        /\ x.active = FALSE /\ x.index = "pending"
    BY <1>2, <2>1 DEF y, FactRecord
  <2>3. QED
    BY <1>3, <2>2 DEF x, y
<1>4. CASE ~(i = writer[w].old /\ Supersedes(w))
  <2>1. facts'[i] = facts[i]
    BY <1>1, <1>4 DEF FactsWritten
  <2>2. QED
    BY <1>4, <2>1
<1>5. QED
  BY <1>3, <1>4

\* The ids after WriteFact.
LEMMA IdsAfter ==
    ASSUME Types, References, Transactions, NEW w \in Writers, WriteFact(w)
    PROVE  /\ Ids = 1..Len(facts) /\ Len(facts) \in Nat
           /\ Ids' = Ids \cup {Len(facts) + 1} /\ Len(facts) + 1 \notin Ids
           /\ DOMAIN outbox = 1..Len(outbox) /\ Len(outbox) \in Nat
           /\ DOMAIN outbox' = DOMAIN outbox \cup {Len(outbox) + 1}
                 \cup (IF Supersedes(w) THEN {Len(outbox) + 2} ELSE {})
           /\ Supersedes(w) => writer[w].old \in Ids
<1>1. FactsWritten(w) /\ EventsWritten(w)
  BY FactsAreWritten, EventsAreWritten
<1>2. Ids = 1..Len(facts) /\ Len(facts) \in Nat /\ DOMAIN outbox = 1..Len(outbox)
        /\ Len(outbox) \in Nat
  BY DEF Types, Ids
<1>3. Ids' = 1..(Len(facts) + 1)
  BY <1>1 DEF FactsWritten, Ids
<1>4. DOMAIN outbox' = 1..(Len(outbox) + (IF Supersedes(w) THEN 2 ELSE 1))
  BY <1>1 DEF EventsWritten
<1>5. Supersedes(w) => writer[w].old \in Ids
  BY DEF Supersedes, Transactions, WriteFact
<1>6. CASE Supersedes(w)
  BY <1>2, <1>3, <1>4, <1>5, <1>6
<1>7. CASE ~Supersedes(w)
  BY <1>2, <1>3, <1>4, <1>7
<1>8. QED
  BY <1>6, <1>7

\* The locks and the writers after the end of a transaction.
LEMMA TransactionEnds ==
    ASSUME Types, Transactions, NEW w \in Writers, writer[w].at = "write",
           locked' = Unlocked(writer[w].input.key),
           writer' = [writer EXCEPT ![w].at = "done"]
    PROVE  /\ locked' \in [ConflictKeys -> Writers \cup {None}]
           /\ writer' \in [Writers -> [at : {"start", "write", "done"},
                                       input : Inputs \cup {None}, old : Nat]]
           /\ \A v \in Writers : writer'[v].at = "write" =>
                /\ v # w /\ writer'[v] = writer[v]
                /\ writer[v].input.key # None =>
                     /\ writer[v].input.key # writer[w].input.key
                     /\ locked'[writer[v].input.key] = v
<1>1. writer[w].input \in Inputs
  BY DEF Transactions
<1>2. locked' \in [ConflictKeys -> Writers \cup {None}]
  BY <1>1, InputType DEF Unlocked, Types
<1>3. [writer[w] EXCEPT !.at = "done"] \in
        [at : {"start", "write", "done"}, input : Inputs \cup {None}, old : Nat]
      /\ [writer[w] EXCEPT !.at = "done"].at = "done"
  BY DEF Types
<1>4. writer' \in [Writers -> [at : {"start", "write", "done"},
                               input : Inputs \cup {None}, old : Nat]]
  BY <1>3 DEF Types
<1>5. ASSUME NEW v \in Writers, writer'[v].at = "write"
      PROVE  /\ v # w /\ writer'[v] = writer[v]
             /\ writer[v].input.key # None =>
                  /\ writer[v].input.key # writer[w].input.key
                  /\ locked'[writer[v].input.key] = v
  <2>1. v # w /\ writer'[v] = writer[v] /\ writer[v].at = "write"
    <3>1. writer'[w].at = "done"
      BY <1>3 DEF Types
    <3>2. v # w
      BY <1>5, <3>1
    <3>3. QED
      BY <1>5, <3>2 DEF Types
  <2>2. ASSUME writer[v].input.key # None
        PROVE  /\ writer[v].input.key # writer[w].input.key
               /\ locked'[writer[v].input.key] = v
    <3> DEFINE k == writer[v].input.key
               m == writer[w].input.key
    <3>1. k \in ConflictKeys /\ locked[k] = v /\ m \in ConflictKeys \cup {None}
      BY <1>1, <2>1, <2>2, InputType DEF Transactions
    <3>2. k # m
      BY <2>1, <2>2, <3>1 DEF Transactions
    <3> HIDE DEF k, m
    <3>3. locked' = IF m = None THEN locked ELSE [locked EXCEPT ![m] = None]
      BY DEF Unlocked, m
    <3>4. locked'[k] = v
      BY <3>1, <3>2, <3>3 DEF Types
    <3>5. QED
      BY <3>2, <3>4 DEF k, m
  <2>3. QED
    BY <2>1, <2>2
<1>6. QED
  BY <1>2, <1>4, <1>5
\* The record that a consumer has fetched is an event of a fact.
LEMMA CurrentIsEvent ==
    ASSUME Types, References, NEW p \in Partitions, cons[p].next <= Len(topic[p])
    PROVE  /\ topic[p][cons[p].next] \in DOMAIN outbox
           /\ Current(p) \in EventRecord
           /\ Current(p).fact \in Ids
<1>1. cons[p].next \in Nat \ {0}
  BY DEF Types
<1>2. topic[p] \in Seq(Nat)
  BY DEF Types
<1>3. cons[p].next \in 1..Len(topic[p])
  BY <1>1, <1>2
<1>4. topic[p][cons[p].next] \in DOMAIN outbox
  BY <1>3 DEF References
<1>5. Current(p) \in EventRecord
  BY <1>4 DEF Types, Current
<1>6. QED
  BY <1>4, <1>5 DEF References, Current

\* WriteFact keeps the invariant.
LEMMA WriteFactInv ==
    ASSUME Inv, NEW w \in Writers, WriteFact(w)
    PROVE  Inv'
<1> DEFINE new == Len(facts) + 1
           old == writer[w].old
<1> USE DEF Inv
<1>1. FactsWritten(w) /\ EventsWritten(w)
  BY FactsAreWritten, EventsAreWritten
<1>2. /\ Ids = 1..Len(facts) /\ Len(facts) \in Nat
      /\ Ids' = Ids \cup {new} /\ new \notin Ids
      /\ DOMAIN outbox = 1..Len(outbox) /\ Len(outbox) \in Nat
      /\ DOMAIN outbox' = DOMAIN outbox \cup {Len(outbox) + 1}
            \cup (IF Supersedes(w) THEN {Len(outbox) + 2} ELSE {})
      /\ Supersedes(w) => old \in Ids
  BY IdsAfter
<1>3. /\ locked' \in [ConflictKeys -> Writers \cup {None}]
      /\ writer' \in [Writers -> [at : {"start", "write", "done"},
                                  input : Inputs \cup {None}, old : Nat]]
      /\ \A v \in Writers : writer'[v].at = "write" =>
           /\ v # w /\ writer'[v] = writer[v]
           /\ writer[v].input.key # None =>
                /\ writer[v].input.key # writer[w].input.key
                /\ locked'[writer[v].input.key] = v
  BY TransactionEnds DEF WriteFact
<1>4. UNCHANGED <<kafka, disp, cons, vector>> /\ UNCHANGED <<topic, published>>
  BY DEF WriteFact, kafka
<1>5. facts'[new] = NewFact(w)
  BY <1>1 DEF FactsWritten
<1>6. NewFact(w).key = writer[w].input.key /\ NewFact(w).active
      /\ NewFact(w).confidence = writer[w].input.confidence /\ NewFact(w).index = "pending"
      /\ NewFact(w).supersedes = (IF Supersedes(w) THEN old ELSE 0)
  BY DEF NewFact
<1>7. \A i \in Ids :
           /\ facts'[i].key = facts[i].key
           /\ facts'[i].confidence = facts[i].confidence
           /\ facts'[i].supersedes = facts[i].supersedes
           /\ ~facts[i].active => ~facts'[i].active
           /\ facts'[i].index = "done" => facts[i].index = "done"
           /\ facts'[i].active = facts[i].active \/ (i = old /\ Supersedes(w)
                                                       /\ ~facts'[i].active)
           /\ i = old /\ Supersedes(w) => ~facts'[i].active
  BY RowsKept
<1>8. Supersedes(w) =>
        /\ facts[old].active /\ facts[old].key = writer[w].input.key
        /\ writer[w].input.confidence >= 7 /\ writer[w].input.key # None
  BY DEF Supersedes, shouldSupersede, Transactions, WriteFact
<1>9. /\ \A e \in DOMAIN outbox : outbox'[e] = outbox[e]
      /\ outbox'[Len(outbox) + 1].fact = new /\ outbox'[Len(outbox) + 1].active
      /\ outbox'[Len(outbox) + 1].status = 0
      /\ Supersedes(w) => /\ outbox'[Len(outbox) + 2].fact = old
                          /\ ~outbox'[Len(outbox) + 2].active
                          /\ outbox'[Len(outbox) + 2].status = 0
  BY <1>1 DEF EventsWritten, Event
<1>10. Types'
  BY <1>1, <1>3, <1>4 DEF Types, FactsWritten, EventsWritten
<1> HIDE DEF new, old
<1>11. References'
  <2>1. \A i \in Ids' : facts'[i].supersedes < i
    BY <1>2, <1>5, <1>6, <1>7 DEF References, new
  <2>2. \A e \in DOMAIN outbox' : outbox'[e].fact \in Ids'
    BY <1>2, <1>9 DEF References
  <2>3. \A p \in Partitions : \A n \in 1..Len(topic'[p]) : topic'[p][n] \in DOMAIN outbox'
    BY <1>2, <1>4 DEF References
  <2>4. \A d \in Dispatchers :
          /\ \A n \in 1..Len(disp'[d].ids) : disp'[d].ids[n] \in DOMAIN outbox'
          /\ disp'[d].at # "idle" => Len(disp'[d].ids) > 0
    BY <1>2, <1>4 DEF References
  <2>5. QED
    BY <1>2, <1>4, <2>1, <2>2, <2>3, <2>4 DEF References
<1>12. Transactions'
  <2>1. SUFFICES ASSUME NEW v \in Writers, writer'[v].at = "write"
                 PROVE  /\ writer'[v].input \in Inputs
                        /\ writer'[v].input.key # None => locked'[writer'[v].input.key] = v
                        /\ writer'[v].old # 0 =>
                             /\ writer'[v].input.key # None
                             /\ writer'[v].old \in Ids'
                             /\ facts'[writer'[v].old].active
                             /\ facts'[writer'[v].old].key = writer'[v].input.key
    BY DEF Transactions
  <2>2. writer'[v] = writer[v] /\ writer[v].at = "write"
        /\ (writer[v].input.key # None =>
               writer[v].input.key # writer[w].input.key /\ locked'[writer[v].input.key] = v)
    BY <1>3, <2>1
  <2>3. ASSUME writer[v].old # 0
        PROVE  /\ writer[v].input.key # None
               /\ writer[v].old \in Ids'
               /\ facts'[writer[v].old].active
               /\ facts'[writer[v].old].key = writer[v].input.key
    <3>1. /\ writer[v].input.key # None
          /\ writer[v].old \in Ids
          /\ facts[writer[v].old].active
          /\ facts[writer[v].old].key = writer[v].input.key
      BY <2>2, <2>3 DEF Transactions
    <3>2. ~(writer[v].old = old /\ Supersedes(w))
      BY <1>8, <2>2, <3>1
    <3>3. QED
      BY <1>2, <1>7, <3>1, <3>2
  <2>4. QED
    BY <2>2, <2>3 DEF Transactions
<1>13. SupersededOnce'
  <2>1. SUFFICES ASSUME NEW i \in Ids', NEW j \in Ids', facts'[i].supersedes = j
                 PROVE  /\ ~facts'[j].active
                        /\ facts'[i].key = facts'[j].key
                        /\ facts'[i].confidence >= 7
                        /\ \A k \in Ids' \ {i} : facts'[k].supersedes # j
    BY DEF SupersededOnce
  <2>2. j \in Ids
    BY <1>2, <1>5, <1>6, <1>7, <2>1 DEF References, new
  <2>3. CASE i \in Ids
    <3>1. /\ ~facts[j].active
          /\ facts[i].key = facts[j].key
          /\ facts[i].confidence >= 7
          /\ \A k \in Ids \ {i} : facts[k].supersedes # j
      BY <1>7, <2>1, <2>2, <2>3 DEF SupersededOnce
    <3>2. facts'[new].supersedes # j
      BY <1>2, <1>5, <1>6, <1>8, <2>2, <3>1
    <3>3. QED
      BY <1>2, <1>7, <2>2, <2>3, <3>1, <3>2
  <2>4. CASE i = new
    <3>1. Supersedes(w) /\ j = old
      BY <1>2, <1>5, <1>6, <2>1, <2>2, <2>4
    <3>2. \A k \in Ids : facts[k].supersedes # j
      BY <1>8, <2>2, <3>1 DEF SupersededOnce
    <3>3. QED
      BY <1>2, <1>5, <1>6, <1>7, <1>8, <2>2, <2>4, <3>1, <3>2
  <2>5. QED
    BY <1>2, <2>3, <2>4
<1>14. Carried'
  <2>1. ASSUME NEW i \in Ids'
        PROVE  \E e \in DOMAIN outbox' :
                  outbox'[e].fact = i /\ outbox'[e].active = facts'[i].active
    <3>1. CASE i = new
      <4>1. Len(outbox) + 1 \in DOMAIN outbox'
        BY <1>2
      <4>2. outbox'[Len(outbox) + 1].active = facts'[new].active
        <5>1. facts' \in Seq(FactRecord) /\ outbox' \in Seq(EventRecord)
          BY <1>10 DEF Types
        <5>2. outbox'[Len(outbox) + 1] \in EventRecord
          BY <4>1, <5>1
        <5>3. facts'[new] \in FactRecord
          <6>1. new \in Ids'
            BY <1>2
          <6>2. QED
            BY <5>1, <6>1 DEF Ids
        <5>4. outbox'[Len(outbox) + 1].active \in BOOLEAN /\ facts'[new].active \in BOOLEAN
          BY <5>2, <5>3 DEF EventRecord, FactRecord
        <5>5. QED
          BY <1>5, <1>6, <1>9, <5>4
      <4>3. QED
        BY <1>9, <3>1, <4>1, <4>2
    <3>2. CASE i \in Ids /\ facts'[i].active = facts[i].active
      <4>1. PICK e \in DOMAIN outbox : outbox[e].fact = i /\ outbox[e].active = facts[i].active
        BY <3>2 DEF Carried
      <4>2. QED
        BY <1>2, <1>9, <3>2, <4>1
    <3>3. CASE i \in Ids /\ i = old /\ Supersedes(w) /\ ~facts'[i].active
      <4>1. Len(outbox) + 2 \in DOMAIN outbox'
        BY <1>2, <3>3
      <4>2. outbox'[Len(outbox) + 2].active = facts'[i].active
        <5>1. facts' \in Seq(FactRecord) /\ outbox' \in Seq(EventRecord)
          BY <1>10 DEF Types
        <5>2. outbox'[Len(outbox) + 2] \in EventRecord
          BY <4>1, <5>1
        <5>3. facts'[i] \in FactRecord
          <6>1. i \in Ids'
            BY <1>2, <3>3
          <6>2. QED
            BY <5>1, <6>1 DEF Ids
        <5>4. outbox'[Len(outbox) + 2].active \in BOOLEAN /\ facts'[i].active \in BOOLEAN
          BY <5>2, <5>3 DEF EventRecord, FactRecord
        <5>5. QED
          BY <1>9, <3>3, <5>4
      <4>3. QED
        BY <1>9, <3>3, <4>1, <4>2
    <3>4. QED
      BY <1>2, <1>7, <3>1, <3>2, <3>3
  <2>2. ASSUME NEW e \in DOMAIN outbox', ~outbox'[e].active
        PROVE  ~facts'[outbox'[e].fact].active
    <3>1. CASE e \in DOMAIN outbox
      BY <1>7, <1>9, <2>2, <3>1 DEF Carried, References
    <3>2. CASE Supersedes(w) /\ e = Len(outbox) + 2
      BY <1>2, <1>7, <1>9, <3>2
    <3>3. QED
      BY <1>2, <1>9, <2>2, <3>1, <3>2
  <2>3. QED
    BY <2>1, <2>2 DEF Carried
<1>15. Delivered'
  <2>1. \A e \in DOMAIN outbox' : outbox'[e].status = 1 => e \in published'
    BY <1>2, <1>4, <1>9 DEF Delivered
  <2>2. QED
    BY <1>4, <2>1 DEF Delivered
<1>16. Vectors'
  <2>1. \A i \in DOMAIN vector' : ~vector'[i] => ~facts'[i].active
    BY <1>4, <1>7 DEF Vectors, References
  <2>2. ASSUME NEW p \in Partitions, cons'[p].at = "status"
        PROVE  outbox'[topic'[p][cons'[p].next]].fact \in DOMAIN vector'
    <3>1. topic[p][cons[p].next] \in DOMAIN outbox
      BY <1>4, <2>2, CurrentIsEvent DEF References
    <3>2. QED
      BY <1>4, <1>9, <2>2, <3>1 DEF Vectors, Current
  <2>3. \A i \in Ids' : facts'[i].index = "done" => i \in DOMAIN vector'
    BY <1>2, <1>4, <1>5, <1>6, <1>7 DEF Vectors
  <2>4. QED
    BY <2>1, <2>2, <2>3 DEF Vectors, Current
<1>17. QED
  BY <1>10, <1>11, <1>12, <1>13, <1>14, <1>15, <1>16
-----------------------------------------------------------------------------
(* The other steps of the writers.                                         *)

\* A sequence of one member.
LEMMA Singleton ==
    ASSUME NEW S, NEW a \in S
    PROVE  <<a>> \in Seq(S) /\ <<a>> \in [{1} -> S] /\ DOMAIN <<a>> = {1} /\ <<a>>[1] = a
OBVIOUS

\* The user's first fact, published and indexed.
LEMMA InitInv == Init => Inv
<1> SUFFICES ASSUME Init PROVE Inv
  OBVIOUS
<1> USE DEF Init
<1> DEFINE f == [key |-> Seed.key, confidence |-> Seed.confidence, active |-> TRUE,
                 supersedes |-> 0, index |-> "done"]
           e == [fact |-> 1, active |-> TRUE, status |-> 1]
<1>1. f \in FactRecord
  BY MemoryAssumption DEF FactRecord
<1>2. e \in EventRecord
  BY DEF EventRecord
<1>3. facts = <<f>> /\ outbox = <<e>> /\ f.supersedes = 0 /\ f.active /\ e.active /\ e.fact = 1
  OBVIOUS
<1> HIDE DEF f, e
<1>4. facts \in Seq(FactRecord) /\ outbox \in Seq(EventRecord) /\ Ids = {1}
      /\ DOMAIN outbox = {1} /\ facts[1] = f /\ outbox[1] = e
  <2>1. <<f>> \in Seq(FactRecord) /\ DOMAIN <<f>> = {1} /\ <<f>>[1] = f
    BY <1>1, Singleton
  <2>2. <<e>> \in Seq(EventRecord) /\ DOMAIN <<e>> = {1} /\ <<e>>[1] = e
    BY <1>2, Singleton
  <2> HIDE DEF Init
  <2>3. QED
    BY <1>3, <2>1, <2>2 DEF Ids
<1>5. vector = <<TRUE>> /\ DOMAIN vector = {1} /\ vector[1] = TRUE
  OBVIOUS
<1>6. Types
  <2>1. vector \in [DOMAIN vector -> BOOLEAN]
    <3>1. TRUE \in BOOLEAN
      OBVIOUS
    <3> HIDE DEF Init
    <3>2. <<TRUE>> \in [{1} -> BOOLEAN]
      BY <3>1, Singleton
    <3>3. QED
      BY <1>5, <3>2
  <2>2. topic \in [Partitions -> Seq(Nat)] /\ locked \in [ConflictKeys -> Writers \cup {None}]
    OBVIOUS
  <2>3. writer \in [Writers -> [at : {"start", "write", "done"},
                                input : Inputs \cup {None}, old : Nat]]
    OBVIOUS
  <2>4. disp \in [Dispatchers -> [at : {"idle", "write", "sent", "failed"}, ids : Seq(Nat)]]
        /\ cons \in [Partitions -> [at : {"fetch", "status", "commit"}, next : Nat \ {0}]]
    OBVIOUS
  <2>5. QED
    BY <1>4, <2>1, <2>2, <2>3, <2>4 DEF Types
<1>7. References
  BY <1>3, <1>4, <1>5 DEF References
<1>8. Transactions
  BY DEF Transactions
<1>9. SupersededOnce
  BY <1>3, <1>4 DEF SupersededOnce
<1>10. Carried
  <2>1. f.active = TRUE /\ e.active = TRUE
    BY DEF f, e
  <2>2. QED
    BY <1>3, <1>4, <2>1 DEF Carried
<1>11. Delivered
  BY <1>4 DEF Delivered
<1>12. Vectors
  BY <1>4, <1>5 DEF Vectors
<1>13. QED
  BY <1>6, <1>7, <1>8, <1>9, <1>10, <1>11, <1>12 DEF Inv

\* What a step that leaves the tables alone leaves as it is.
LEMMA TablesKept ==
    ASSUME Inv, UNCHANGED tables
    PROVE  /\ SupersededOnce' /\ Carried'
           /\ Ids' = Ids /\ facts' = facts /\ outbox' = outbox
BY DEF Inv, tables, SupersededOnce, Carried, Ids

\* What a step that leaves the dispatchers, Kafka, the consumers and Qdrant alone
\* leaves as it is, the tables being left alone too.
LEMMA PipelineKept ==
    ASSUME Inv, UNCHANGED <<tables, kafka, disp, cons, vector>>
    PROVE  References' /\ Delivered' /\ Vectors'
BY DEF Inv, tables, kafka, References, Delivered, Vectors, Ids, Current

\* The fact in conflict: none, or an active one of the key.
LEMMA InConflictActive ==
    ASSUME Types, NEW input, NEW x \in InConflict(input)
    PROVE  /\ x \in Nat
           /\ x # 0 => /\ input.key # None /\ x \in Ids
                       /\ facts[x].active /\ facts[x].key = input.key
<1>1. CASE x = 0
  BY <1>1
<1>2. CASE x # 0
  <2>1. input.key # None /\ x \in ActiveOf(input.key)
    BY <1>2 DEF InConflict, First
  <2>2. x \in Ids /\ facts[x].active /\ facts[x].key = input.key
    BY <2>1 DEF ActiveOf, Ids
  <2>3. x \in Nat
    BY <2>2 DEF Types, Ids
  <2>4. QED
    BY <2>1, <2>2, <2>3
<1>3. QED
  BY <1>1, <1>2

\* FindOld: the lock is free, so no open transaction is about its key.
LEMMA FindOldInv ==
    ASSUME Inv, NEW w \in Writers, NEW input \in Inputs, FindOld(w, input)
    PROVE  Inv'
<1>1. input.key \in ConflictKeys \cup {None}
  BY InputType
<1>2. UNCHANGED <<tables, kafka, disp, cons, vector>>
  BY DEF FindOld
<1>3. SupersededOnce' /\ Carried' /\ References' /\ Delivered' /\ Vectors'
      /\ Ids' = Ids /\ facts' = facts
  BY <1>2, TablesKept, PipelineKept
<1>4. PICK x \in InConflict(input) :
         writer' = [writer EXCEPT ![w] = [at |-> "write", input |-> input, old |-> x]]
  BY DEF FindOld
<1>5. x \in Nat /\ (x # 0 => /\ input.key # None /\ x \in Ids
                             /\ facts[x].active /\ facts[x].key = input.key)
  BY InConflictActive DEF Inv
<1>6. locked' \in [ConflictKeys -> Writers \cup {None}]
  BY <1>1 DEF FindOld, Inv, Types
<1>7. writer' \in [Writers -> [at : {"start", "write", "done"},
                               input : Inputs \cup {None}, old : Nat]]
  BY <1>4, <1>5 DEF Inv, Types
<1>8. Types'
  BY <1>2, <1>6, <1>7 DEF Inv, Types, tables, kafka
<1>9. Transactions'
  <2>1. SUFFICES ASSUME NEW v \in Writers, writer'[v].at = "write"
                 PROVE  /\ writer'[v].input \in Inputs
                        /\ writer'[v].input.key # None => locked'[writer'[v].input.key] = v
                        /\ writer'[v].old # 0 =>
                             /\ writer'[v].input.key # None
                             /\ writer'[v].old \in Ids'
                             /\ facts'[writer'[v].old].active
                             /\ facts'[writer'[v].old].key = writer'[v].input.key
    BY DEF Transactions
  <2>2. CASE v = w
    <3>1. writer'[v].input = input /\ writer'[v].old = x
      BY <1>4, <2>2 DEF Inv, Types
    <3>2. input.key # None => locked'[input.key] = v
      BY <1>1, <2>2 DEF FindOld, Inv, Types
    <3>3. QED
      BY <1>3, <1>5, <3>1, <3>2
  <2>3. CASE v # w
    <3>1. writer'[v] = writer[v]
      BY <1>4, <2>3 DEF Inv, Types
    <3>2. ASSUME writer[v].input.key # None
          PROVE  locked'[writer[v].input.key] = v
      <4>1. locked[writer[v].input.key] = v /\ writer[v].input.key \in ConflictKeys
        BY <2>1, <3>1, <3>2, InputType DEF Inv, Transactions
      <4>2. QED
        BY <1>1, <4>1, MemoryAssumption DEF FindOld, Inv, Types
    <3>3. QED
      BY <1>3, <2>1, <3>1, <3>2 DEF Inv, Transactions
  <2>4. QED
    BY <2>2, <2>3
<1>10. QED
  BY <1>3, <1>8, <1>9 DEF Inv

\* Rollback: the lock is released, the other transactions keep theirs.
LEMMA RollbackInv ==
    ASSUME Inv, NEW w \in Writers, Rollback(w)
    PROVE  Inv'
<1>1. UNCHANGED <<tables, kafka, disp, cons, vector>>
  BY DEF Rollback
<1>2. SupersededOnce' /\ Carried' /\ References' /\ Delivered' /\ Vectors'
      /\ Ids' = Ids /\ facts' = facts
  BY <1>1, TablesKept, PipelineKept
<1>3. /\ locked' \in [ConflictKeys -> Writers \cup {None}]
      /\ writer' \in [Writers -> [at : {"start", "write", "done"},
                                  input : Inputs \cup {None}, old : Nat]]
      /\ \A v \in Writers : writer'[v].at = "write" =>
           /\ v # w /\ writer'[v] = writer[v]
           /\ writer[v].input.key # None =>
                /\ writer[v].input.key # writer[w].input.key
                /\ locked'[writer[v].input.key] = v
  BY TransactionEnds DEF Rollback, Inv
<1>4. Types'
  BY <1>1, <1>3 DEF Inv, Types, tables, kafka
<1>5. Transactions'
  BY <1>2, <1>3 DEF Inv, Transactions
<1>6. QED
  BY <1>2, <1>4, <1>5 DEF Inv
-----------------------------------------------------------------------------
(* Steps that change at most the index status of facts and the status of   *)
(* events.                                                                 *)

TablesAgree ==
    /\ facts' \in Seq(FactRecord) /\ outbox' \in Seq(EventRecord)
    /\ Ids' = Ids /\ DOMAIN outbox' = DOMAIN outbox
    /\ \A i \in Ids : /\ facts'[i].key = facts[i].key
                      /\ facts'[i].confidence = facts[i].confidence
                      /\ facts'[i].active = facts[i].active
                      /\ facts'[i].supersedes = facts[i].supersedes
    /\ \A e \in DOMAIN outbox : /\ outbox'[e].fact = outbox[e].fact
                                /\ outbox'[e].active = outbox[e].active

\* Tables that are left alone agree with themselves.
LEMMA UnchangedAgree ==
    ASSUME Types, UNCHANGED tables
    PROVE  TablesAgree /\ facts' = facts /\ outbox' = outbox
BY DEF Types, tables, TablesAgree, Ids

\* What such a step leaves as it is.
LEMMA AgreeKeeps ==
    ASSUME Inv, TablesAgree, UNCHANGED <<locked, writer>>
    PROVE  /\ SupersededOnce' /\ Carried' /\ Transactions'
           /\ \A i \in Ids' : facts'[i].supersedes < i
           /\ \A e \in DOMAIN outbox' : outbox'[e].fact \in Ids'
           /\ Ids' = Ids /\ DOMAIN outbox' = DOMAIN outbox
<1> USE DEF Inv, TablesAgree
<1>1. SupersededOnce'
  BY DEF SupersededOnce
<1>2. Carried'
  <2>1. \A e \in DOMAIN outbox : outbox[e].fact \in Ids
    BY DEF References
  <2>2. QED
    BY <2>1 DEF Carried
<1>3. Transactions'
  BY DEF Transactions
<1>4. QED
  BY <1>1, <1>2, <1>3 DEF References

\* Setting the index status of a fact.
LEMMA SetIndexAgrees ==
    ASSUME Types, NEW id \in Ids, NEW status \in {"pending", "done", "failed"},
           SetIndex(id, status), UNCHANGED outbox
    PROVE  /\ TablesAgree
           /\ \A i \in Ids \ {id} : facts'[i].index = facts[i].index
           /\ facts'[id].index = status
<1> DEFINE x == [facts[id] EXCEPT !.index = status]
<1>1. facts \in Seq(FactRecord) /\ outbox \in Seq(EventRecord)
  BY DEF Types
<1>2. facts[id] \in FactRecord
  BY <1>1 DEF Ids
<1>3. /\ x \in FactRecord
      /\ x.key = facts[id].key /\ x.confidence = facts[id].confidence
      /\ x.active = facts[id].active /\ x.supersedes = facts[id].supersedes /\ x.index = status
  BY <1>2 DEF FactRecord
<1>4. facts' = [facts EXCEPT ![id] = x]
  BY DEF SetIndex
<1> HIDE DEF x
<1>5. facts' \in Seq(FactRecord) /\ DOMAIN facts' = DOMAIN facts
      /\ (\A i \in Ids \ {id} : facts'[i] = facts[i]) /\ facts'[id] = x
  BY <1>1, <1>3, <1>4 DEF Ids
<1>6. \A i \in Ids : /\ facts'[i].key = facts[i].key
                     /\ facts'[i].confidence = facts[i].confidence
                     /\ facts'[i].active = facts[i].active
                     /\ facts'[i].supersedes = facts[i].supersedes
  BY <1>3, <1>5
<1>7. QED
  BY <1>1, <1>3, <1>5, <1>6 DEF TablesAgree, Ids

-----------------------------------------------------------------------------
(* Steps of the dispatchers.                                               *)

Batches == [at : {"idle", "write", "sent", "failed"}, ids : Seq(Nat)]

\* What the batch of a dispatcher must be.
BatchOK(b) ==
    /\ b \in Batches
    /\ \A n \in 1..Len(b.ids) : b.ids[n] \in DOMAIN outbox
    /\ b.at # "idle" => Len(b.ids) > 0

\* A step of a dispatcher that leaves Kafka and the events alone.
LEMMA DispatcherMoves ==
    ASSUME Inv, NEW d \in Dispatchers, NEW b, BatchOK(b),
           disp' = [disp EXCEPT ![d] = b],
           b.at = "sent" => \A n \in 1..Len(b.ids) : b.ids[n] \in published,
           UNCHANGED <<tables, locked, writer, kafka, cons, vector>>
    PROVE  Inv'
<1> USE DEF Inv
<1>1. TablesAgree /\ facts' = facts /\ outbox' = outbox
  BY UnchangedAgree
<1>2. SupersededOnce' /\ Carried' /\ Transactions' /\ Ids' = Ids
  BY <1>1, AgreeKeeps
<1>3. UNCHANGED <<facts, outbox, topic, published, cons, vector>>
  BY <1>1 DEF kafka
<1>4. disp \in [Dispatchers -> Batches]
  BY DEF Types, Batches
<1>5. disp' \in [Dispatchers -> Batches] /\ disp'[d] = b
      /\ \A c \in Dispatchers \ {d} : disp'[c] = disp[c]
  BY <1>4 DEF BatchOK
<1>6. Types'
  BY <1>3, <1>5 DEF Types, Batches
<1>7. References'
  BY <1>2, <1>3, <1>5 DEF References, BatchOK
<1>8. Delivered'
  BY <1>3, <1>5 DEF Delivered
<1>9. Vectors'
  BY <1>2, <1>3 DEF Vectors, Current
<1>10. QED
  BY <1>2, <1>6, <1>7, <1>8, <1>9

\* ListPendingOutbox lists events, at least one.
LEMMA ListPendingOutboxInv ==
    ASSUME Inv, NEW d \in Dispatchers, ListPendingOutbox(d)
    PROVE  Inv'
<1>1. PICK ids \in Ascending(FirstPending) :
          /\ ToSet(ids) = FirstPending
          /\ disp' = [disp EXCEPT ![d] = [at |-> "write", ids |-> ids]]
  BY DEF ListPendingOutbox
<1> DEFINE b == [at |-> "write", ids |-> ids]
<1>2. FirstPending # {} /\ FirstPending \subseteq DOMAIN outbox
      /\ Cardinality(FirstPending) \in Nat
  BY SomePending DEF ListPendingOutbox, Inv
<1>3. ids \in Seq(FirstPending)
  BY <1>2, AscendingIsSeq
<1>4. DOMAIN outbox \subseteq Nat
  BY DEF Inv, Types
<1>5. ids \in Seq(Nat) /\ \A n \in 1..Len(ids) : ids[n] \in DOMAIN outbox
  BY <1>2, <1>3, <1>4
<1>6. Len(ids) > 0
  <2>1. Len(ids) \in Nat /\ DOMAIN ids = 1..Len(ids)
    BY <1>3
  <2>2. DOMAIN ids # {}
    BY <1>1, <1>2 DEF ToSet
  <2>3. QED
    BY <2>1, <2>2
<1>7. BatchOK(b)
  BY <1>5, <1>6 DEF BatchOK, Batches
<1>8. UNCHANGED <<tables, locked, writer, kafka, cons, vector>>
  BY DEF ListPendingOutbox
<1>9. b.at = "write"
  OBVIOUS
<1> HIDE DEF b
<1>10. QED
  BY <1>1, <1>7, <1>8, <1>9, DispatcherMoves DEF b

\* Behind the last event of the batch the dispatcher is idle.
LEMMA MarkedBatch ==
    ASSUME Inv, NEW d \in Dispatchers, disp[d].at \in {"sent", "failed"}, Marked(d)
    PROVE  \E b : /\ BatchOK(b)
                  /\ disp' = [disp EXCEPT ![d] = b]
                  /\ b.at = "sent" => \A n \in 1..Len(b.ids) : b.ids[n] \in published
<1> DEFINE ids == disp[d].ids
           b == [at |-> IF Len(ids) = 1 THEN "idle" ELSE disp[d].at, ids |-> Tail(ids)]
<1>1. ids \in Seq(Nat) /\ Len(ids) > 0 /\ disp[d].at \in {"sent", "failed"}
      /\ \A n \in 1..Len(ids) : ids[n] \in DOMAIN outbox
  BY DEF Inv, Types, References
<1>2. disp[d].at = "sent" => \A n \in 1..Len(ids) : ids[n] \in published
  BY DEF Inv, Delivered
<1>3. disp' = [disp EXCEPT ![d] = b]
  BY DEF Marked
<1> HIDE DEF ids
<1>4. Tail(ids) \in Seq(Nat) /\ Len(Tail(ids)) = Len(ids) - 1
      /\ \A n \in 1..Len(Tail(ids)) : n + 1 \in 1..Len(ids) /\ Tail(ids)[n] = ids[n + 1]
  BY <1>1
<1>5. BatchOK(b)
  <2>1. b \in Batches
    BY <1>1, <1>4 DEF Batches
  <2>2. \A n \in 1..Len(b.ids) : b.ids[n] \in DOMAIN outbox
    BY <1>1, <1>4
  <2>3. b.at # "idle" => Len(b.ids) > 0
    BY <1>1, <1>4
  <2>4. QED
    BY <2>1, <2>2, <2>3 DEF BatchOK
<1>6. b.at = "sent" => \A n \in 1..Len(b.ids) : b.ids[n] \in published
  BY <1>1, <1>2, <1>4
<1> HIDE DEF b
<1>7. QED
  BY <1>3, <1>5, <1>6
\* A mark that fails.
LEMMA MarkFailInv ==
    ASSUME Inv, NEW d \in Dispatchers, MarkFail(d)
    PROVE  Inv'
<1>1. PICK b : /\ BatchOK(b)
               /\ disp' = [disp EXCEPT ![d] = b]
               /\ b.at = "sent" => \A n \in 1..Len(b.ids) : b.ids[n] \in published
  BY MarkedBatch DEF MarkFail
<1>2. UNCHANGED <<tables, locked, writer, kafka, cons, vector>>
  BY DEF MarkFail
<1>3. QED
  BY <1>1, <1>2, DispatcherMoves

\* A dispatcher that stops and starts.
LEMMA DispatcherCrashInv ==
    ASSUME Inv, NEW d \in Dispatchers, DispatcherCrash(d)
    PROVE  Inv'
<1> DEFINE b == [at |-> "idle", ids |-> <<>>]
<1>1. BatchOK(b) /\ b.at = "idle"
  BY DEF BatchOK, Batches
<1>2. disp' = [disp EXCEPT ![d] = b]
      /\ UNCHANGED <<tables, locked, writer, kafka, cons, vector>>
  BY DEF DispatcherCrash
<1> HIDE DEF b
<1>3. QED
  BY <1>1, <1>2, DispatcherMoves

\* Marking an event changes its status only, and "sent" only when it has a record.
LEMMA MarkInv ==
    ASSUME Inv, NEW d \in Dispatchers, Mark(d)
    PROVE  Inv'
<1> USE DEF Inv
<1> DEFINE e == Head(disp[d].ids)
           s == IF disp[d].at = "sent" THEN 1 ELSE 2
           x == [outbox[e] EXCEPT !.status = s]
<1>1. PICK b : /\ BatchOK(b)
               /\ disp' = [disp EXCEPT ![d] = b]
               /\ b.at = "sent" => \A n \in 1..Len(b.ids) : b.ids[n] \in published
  BY MarkedBatch DEF Mark
<1>2. UNCHANGED <<facts, locked, writer, topic, published, cons, vector>>
  BY DEF Mark, kafka
<1>3. e \in DOMAIN outbox /\ (disp[d].at = "sent" => e \in published)
  <2>1. disp[d].ids \in Seq(Nat) /\ Len(disp[d].ids) > 0
    BY DEF Mark, Types, References
  <2>2. 1 \in 1..Len(disp[d].ids) /\ e = disp[d].ids[1]
    BY <2>1
  <2>3. QED
    BY <2>2 DEF References, Delivered
<1>4. outbox \in Seq(EventRecord) /\ outbox[e] \in EventRecord
  BY <1>3 DEF Types
<1>5. outbox' = [outbox EXCEPT ![e] = x]
  BY DEF Mark
<1>6. x \in EventRecord /\ x.fact = outbox[e].fact /\ x.active = outbox[e].active /\ x.status = s
  BY <1>4 DEF EventRecord
<1> HIDE DEF x
<1>7. outbox' \in Seq(EventRecord) /\ DOMAIN outbox' = DOMAIN outbox /\ outbox'[e] = x
      /\ \A c \in DOMAIN outbox \ {e} : outbox'[c] = outbox[c]
  BY <1>3, <1>4, <1>5, <1>6
<1> HIDE DEF e
<1>8. TablesAgree
  BY <1>2, <1>6, <1>7 DEF TablesAgree, Types, Ids
<1>9. /\ SupersededOnce' /\ Carried' /\ Transactions'
      /\ \A i \in Ids' : facts'[i].supersedes < i
      /\ \A c \in DOMAIN outbox' : outbox'[c].fact \in Ids'
      /\ Ids' = Ids /\ DOMAIN outbox' = DOMAIN outbox
  BY <1>2, <1>8, AgreeKeeps
<1>10. disp \in [Dispatchers -> Batches]
  BY DEF Types, Batches
<1>11. disp' \in [Dispatchers -> Batches] /\ disp'[d] = b
       /\ \A c \in Dispatchers \ {d} : disp'[c] = disp[c]
  BY <1>1, <1>10 DEF BatchOK
<1>12. Types'
  BY <1>2, <1>7, <1>11 DEF Types, Batches
<1>13. References'
  <2>1. \A c \in Dispatchers :
          /\ \A n \in 1..Len(disp'[c].ids) : disp'[c].ids[n] \in DOMAIN outbox'
          /\ disp'[c].at # "idle" => Len(disp'[c].ids) > 0
    BY <1>1, <1>9, <1>11 DEF References, BatchOK
  <2>2. QED
    BY <1>2, <1>9, <2>1 DEF References
<1>14. Delivered'
  <2>1. \A c \in DOMAIN outbox' : outbox'[c].status = 1 => c \in published'
    BY <1>2, <1>3, <1>6, <1>7 DEF Delivered
  <2>2. QED
    BY <1>1, <1>2, <1>11, <2>1 DEF Delivered
<1>15. Vectors'
  <2>1. ASSUME NEW p \in Partitions, cons[p].at = "status"
        PROVE  outbox'[topic[p][cons[p].next]].fact \in DOMAIN vector
    <3>1. topic[p][cons[p].next] \in DOMAIN outbox
      BY <2>1, CurrentIsEvent DEF References
    <3>2. QED
      BY <1>8, <2>1, <3>1 DEF Vectors, Current, TablesAgree
  <2>2. QED
    BY <1>2, <1>9, <2>1 DEF Vectors, Current
<1>16. QED
  BY <1>9, <1>12, <1>13, <1>14, <1>15

\* Records of the batch are appended to the partitions.
TopicGrown ==
    /\ topic' \in [Partitions -> Seq(Nat)]
    /\ \A p \in Partitions :
         /\ Len(topic[p]) <= Len(topic'[p])
         /\ \A n \in 1..Len(topic[p]) : topic'[p][n] = topic[p][n]
         /\ \A n \in 1..Len(topic'[p]) : topic'[p][n] \in DOMAIN outbox
    /\ published \subseteq published'

\* What AppendRecords does to the topic, position by position.
LEMMA RecordsAppended ==
    ASSUME Inv, NEW d \in Dispatchers, NEW add \in Records(ToSet(disp[d].ids)),
           AppendRecords(add)
    PROVE  TopicGrown
<1> DEFINE X == ToSet(disp[d].ids)
<1>1. X \subseteq DOMAIN outbox
  <2>1. DOMAIN disp[d].ids = 1..Len(disp[d].ids)
    BY DEF Inv, Types
  <2>2. \A n \in 1..Len(disp[d].ids) : disp[d].ids[n] \in DOMAIN outbox
    BY DEF Inv, References
  <2>3. QED
    BY <2>1, <2>2 DEF ToSet
<1>2. DOMAIN outbox = 1..Len(outbox) /\ Len(outbox) \in Nat
  BY DEF Inv, Types
<1>3. Cardinality(X) \in Nat
  <2> HIDE DEF X
  <2>1. IsFiniteSet(1..Len(outbox))
    BY <1>2, FS_Interval
  <2>2. IsFiniteSet(X)
    BY <1>1, <1>2, <2>1, FS_Subset
  <2>3. QED
    BY <2>2, FS_CardinalityType
<1>4. add \in [Partitions -> Ascending(X)]
  BY DEF Records
<1> HIDE DEF X
<1>5. ASSUME NEW p \in Partitions
      PROVE  /\ topic'[p] \in Seq(Nat)
             /\ Len(topic[p]) <= Len(topic'[p])
             /\ \A n \in 1..Len(topic[p]) : topic'[p][n] = topic[p][n]
             /\ \A n \in 1..Len(topic'[p]) : topic'[p][n] \in DOMAIN outbox
  <2> DEFINE s == topic[p]
             r == add[p]
  <2>1. s \in Seq(Nat) /\ \A n \in 1..Len(s) : s[n] \in DOMAIN outbox
    BY DEF Inv, Types, References
  <2>2. r \in Seq(X)
    BY <1>3, <1>4, AscendingIsSeq
  <2>3. topic'[p] = s \o r
    BY DEF AppendRecords
  <2> HIDE DEF s, r
  <2>4. r \in Seq(Nat) /\ \A n \in 1..Len(r) : r[n] \in DOMAIN outbox
    BY <1>1, <1>2, <2>2
  <2>5. s \o r \in Seq(Nat) /\ Len(s \o r) = Len(s) + Len(r) /\ Len(s) \in Nat /\ Len(r) \in Nat
    BY <2>1, <2>4
  <2>6. \A n \in 1..Len(s) : (s \o r)[n] = s[n]
    BY <2>1, <2>4
  <2>7. ASSUME NEW n \in 1..Len(s \o r) PROVE (s \o r)[n] \in DOMAIN outbox
    <3>1. CASE n <= Len(s)
      BY <2>1, <2>5, <2>6, <2>7, <3>1
    <3>2. CASE n > Len(s)
      <4>1. n - Len(s) \in 1..Len(r) /\ (s \o r)[n] = r[n - Len(s)]
        BY <2>1, <2>4, <2>5, <2>7, <3>2
      <4>2. QED
        BY <2>4, <4>1
    <3>3. QED
      BY <2>5, <3>1, <3>2
  <2>8. QED
    BY <2>3, <2>5, <2>6, <2>7 DEF s
<1>6. DOMAIN topic' = Partitions /\ topic' = [p \in Partitions |-> topic'[p]]
  BY DEF AppendRecords
<1>7. published \subseteq published'
  BY DEF AppendRecords
<1>8. QED
  BY <1>5, <1>6, <1>7 DEF TopicGrown

\* A write to the topic: the events have records before the batch is at "sent".
LEMMA TopicGrowsInv ==
    ASSUME Inv, NEW d \in Dispatchers, NEW at \in {"sent", "failed"}, disp[d].at = "write",
           TopicGrown, disp' = [disp EXCEPT ![d].at = at],
           at = "sent" => ToSet(disp[d].ids) \subseteq published',
           UNCHANGED <<tables, locked, writer, cons, vector>>
    PROVE  Inv'
<1> USE DEF Inv
<1>1. TablesAgree /\ facts' = facts /\ outbox' = outbox
  BY UnchangedAgree
<1>2. SupersededOnce' /\ Carried' /\ Transactions' /\ Ids' = Ids
  BY <1>1, AgreeKeeps
<1>3. disp \in [Dispatchers -> Batches]
  BY DEF Types, Batches
<1> DEFINE b == [disp[d] EXCEPT !.at = at]
<1>4. b \in Batches /\ b.at = at /\ b.ids = disp[d].ids
  BY <1>3 DEF Batches
<1>5. disp' = [disp EXCEPT ![d] = b]
  OBVIOUS
<1> HIDE DEF b
<1>6. disp' \in [Dispatchers -> Batches] /\ disp'[d] = b
      /\ \A c \in Dispatchers \ {d} : disp'[c] = disp[c]
  BY <1>3, <1>4, <1>5
<1>7. Types'
  BY <1>1, <1>6 DEF Types, Batches, TopicGrown
<1>8. References'
  <2>1. \A c \in Dispatchers :
          /\ \A n \in 1..Len(disp'[c].ids) : disp'[c].ids[n] \in DOMAIN outbox'
          /\ disp'[c].at # "idle" => Len(disp'[c].ids) > 0
    BY <1>1, <1>4, <1>6 DEF References
  <2>2. ASSUME NEW p \in Partitions
        PROVE  /\ cons'[p].next <= Len(topic'[p]) + 1
               /\ cons'[p].at # "fetch" => cons'[p].next <= Len(topic'[p])
    <3>1. Len(topic[p]) \in Nat /\ Len(topic'[p]) \in Nat /\ Len(topic[p]) <= Len(topic'[p])
          /\ cons[p].next \in Nat /\ cons' = cons
      BY DEF Types, TopicGrown
    <3>2. QED
      BY <3>1 DEF References
  <2>3. QED
    BY <1>1, <1>2, <2>1, <2>2 DEF References, TopicGrown
<1>9. Delivered'
  <2>1. at = "sent" => \A n \in 1..Len(disp[d].ids) : disp[d].ids[n] \in published'
    <3>1. DOMAIN disp[d].ids = 1..Len(disp[d].ids)
      BY DEF Types
    <3>2. QED
      BY <3>1 DEF ToSet
  <2>2. QED
    BY <1>1, <1>4, <1>6, <2>1 DEF Delivered, TopicGrown
<1>10. Vectors'
  <2>1. ASSUME NEW p \in Partitions, cons[p].at = "status"
        PROVE  outbox[topic'[p][cons[p].next]].fact \in DOMAIN vector
    <3>1. cons[p].next \in 1..Len(topic[p])
      BY <2>1 DEF References, Types
    <3>2. QED
      BY <2>1, <3>1 DEF Vectors, Current, TopicGrown
  <2>2. QED
    BY <1>1, <1>2, <2>1 DEF Vectors, Current
<1>11. QED
  BY <1>2, <1>7, <1>8, <1>9, <1>10

\* The write succeeds: every event of the batch has a record.
LEMMA WriteMessagesInv ==
    ASSUME Inv, NEW d \in Dispatchers, WriteMessages(d)
    PROVE  Inv'
<1>1. PICK add \in Records(ToSet(disp[d].ids)) :
          Landed(add) = ToSet(disp[d].ids) /\ AppendRecords(add)
  BY DEF WriteMessages
<1>2. TopicGrown
  BY <1>1, RecordsAppended
<1>3. ToSet(disp[d].ids) \subseteq published'
  BY <1>1 DEF AppendRecords
<1>4. QED
  BY <1>2, <1>3, TopicGrowsInv DEF WriteMessages

\* The write fails: nothing is known of the batch.
LEMMA WriteMessagesFailInv ==
    ASSUME Inv, NEW d \in Dispatchers, WriteMessagesFail(d)
    PROVE  Inv'
<1>1. PICK add \in Records(ToSet(disp[d].ids)) : AppendRecords(add)
  BY DEF WriteMessagesFail
<1>2. TopicGrown
  BY <1>1, RecordsAppended
<1>3. QED
  BY <1>2, TopicGrowsInv DEF WriteMessagesFail
-----------------------------------------------------------------------------
(* Steps of the consumers.                                                 *)

Positions == [at : {"fetch", "status", "commit"}, next : Nat \ {0}]

\* What the position of a consumer must be.
PositionOK(p, c) ==
    /\ c \in Positions
    /\ c.next <= Len(topic[p]) + 1
    /\ c.at # "fetch" => c.next <= Len(topic[p])

\* A consumer moves within its partition; Qdrant still agrees with the facts, and
\* at "status" the vector of the record's fact is there.
LEMMA ConsumerMoves ==
    ASSUME Inv, NEW p \in Partitions, NEW c, PositionOK(p, c),
           cons' = [cons EXCEPT ![p] = c],
           TablesAgree, UNCHANGED <<outbox, locked, writer, kafka, disp>>,
           vector' \in [DOMAIN vector' -> BOOLEAN],
           DOMAIN vector \subseteq DOMAIN vector', DOMAIN vector' \subseteq Ids,
           \A i \in DOMAIN vector' : ~vector'[i] => ~facts[i].active,
           \A i \in Ids : facts'[i].index = "done" => i \in DOMAIN vector',
           c.at = "status" => outbox[topic[p][c.next]].fact \in DOMAIN vector'
    PROVE  Inv'
<1> USE DEF Inv
<1>1. /\ SupersededOnce' /\ Carried' /\ Transactions'
      /\ \A i \in Ids' : facts'[i].supersedes < i
      /\ \A e \in DOMAIN outbox' : outbox'[e].fact \in Ids'
      /\ Ids' = Ids /\ DOMAIN outbox' = DOMAIN outbox
  BY AgreeKeeps
<1>2. UNCHANGED <<outbox, topic, published, disp>>
  BY DEF kafka
<1>3. cons \in [Partitions -> Positions]
  BY DEF Types, Positions
<1>4. cons' \in [Partitions -> Positions] /\ cons'[p] = c
      /\ \A q \in Partitions \ {p} : cons'[q] = cons[q]
  BY <1>3 DEF PositionOK
<1>5. Types'
  BY <1>2, <1>4 DEF Types, Positions, TablesAgree
<1>6. References'
  <2>1. \A q \in Partitions :
          /\ cons'[q].next <= Len(topic'[q]) + 1
          /\ cons'[q].at # "fetch" => cons'[q].next <= Len(topic'[q])
    BY <1>2, <1>4 DEF References, PositionOK
  <2>2. QED
    BY <1>1, <1>2, <2>1 DEF References
<1>7. Delivered'
  BY <1>2 DEF Delivered
<1>8. Vectors'
  <2>1. \A i \in DOMAIN vector' : ~vector'[i] => ~facts'[i].active
    BY DEF TablesAgree
  <2>2. \A q \in Partitions : cons'[q].at = "status" =>
           outbox'[topic'[q][cons'[q].next]].fact \in DOMAIN vector'
    BY <1>2, <1>4 DEF Vectors, Current
  <2>3. QED
    BY <1>1, <2>1, <2>2 DEF Vectors, Current
<1>9. QED
  BY <1>1, <1>5, <1>6, <1>7, <1>8

\* The same when Qdrant and the facts are left alone.
LEMMA ConsumerOnlyMoves ==
    ASSUME Inv, NEW p \in Partitions, NEW c, PositionOK(p, c), c.at = "fetch",
           cons' = [cons EXCEPT ![p] = c],
           UNCHANGED <<tables, locked, writer, kafka, disp, vector>>
    PROVE  Inv'
<1>1. TablesAgree /\ facts' = facts /\ outbox' = outbox
  BY UnchangedAgree DEF Inv
<1>2. /\ vector' \in [DOMAIN vector' -> BOOLEAN]
      /\ DOMAIN vector \subseteq DOMAIN vector' /\ DOMAIN vector' \subseteq Ids
      /\ \A i \in DOMAIN vector' : ~vector'[i] => ~facts[i].active
      /\ \A i \in Ids : facts'[i].index = "done" => i \in DOMAIN vector'
  BY <1>1 DEF Inv, Types, References, Vectors
<1>3. QED
  BY <1>1, <1>2, ConsumerMoves

\* A position with both fields set.
LEMMA PositionSet ==
    ASSUME NEW x \in Positions, NEW n \in Nat \ {0}
    PROVE  LET c == [x EXCEPT !.at = "fetch", !.next = n]
           IN  c \in Positions /\ c.at = "fetch" /\ c.next = n
BY DEF Positions

\* The next position is one, behind a record that was fetched.
LEMMA SkipPosition ==
    ASSUME Inv, NEW p \in Partitions, SkipRecord(p), cons[p].next <= Len(topic[p])
    PROVE  \E c : PositionOK(p, c) /\ c.at = "fetch" /\ cons' = [cons EXCEPT ![p] = c]
<1> DEFINE c == [cons[p] EXCEPT !.at = "fetch", !.next = cons[p].next + 1]
<1>1. cons[p] \in Positions
  BY DEF Inv, Types, Positions
<1>2. cons[p].next \in Nat /\ Len(topic[p]) \in Nat
  BY DEF Inv, Types
<1>3. c \in Positions /\ c.at = "fetch" /\ c.next = cons[p].next + 1
  <2>1. cons[p].next + 1 \in Nat \ {0}
    BY <1>2
  <2>2. QED
    BY <1>1, <2>1, PositionSet
<1>4. cons' = [cons EXCEPT ![p] = c]
  BY <1>1 DEF SkipRecord, Inv, Types
<1> HIDE DEF c
<1>5. PositionOK(p, c)
  BY <1>2, <1>3 DEF PositionOK
<1>6. QED
  BY <1>3, <1>4, <1>5

\* The next place of a consumer that has fetched a record.
LEMMA MovePosition ==
    ASSUME Inv, NEW p \in Partitions, NEW at \in {"status", "commit"}, Move(p, at),
           cons[p].next <= Len(topic[p])
    PROVE  \E c : /\ PositionOK(p, c) /\ c.at = at /\ c.next = cons[p].next
                  /\ cons' = [cons EXCEPT ![p] = c]
<1> DEFINE c == [cons[p] EXCEPT !.at = at]
<1>1. cons[p] \in Positions
  BY DEF Inv, Types, Positions
<1>2. cons[p].next \in Nat /\ Len(topic[p]) \in Nat
  BY DEF Inv, Types
<1>3. c \in Positions /\ c.at = at /\ c.next = cons[p].next
  BY <1>1 DEF Positions
<1>4. cons' = [cons EXCEPT ![p] = c]
  BY DEF Move
<1> HIDE DEF c
<1>5. PositionOK(p, c)
  BY <1>2, <1>3 DEF PositionOK
<1>6. QED
  BY <1>3, <1>4, <1>5

\* A vector is stored with the is_active of an event, so an inactive one only of
\* a fact that is inactive.
LEMMA UpsertFactVectorInv ==
    ASSUME Inv, NEW p \in Partitions, UpsertFactVector(p)
    PROVE  Inv'
<1> DEFINE f == Current(p).fact
<1>1. /\ topic[p][cons[p].next] \in DOMAIN outbox
      /\ Current(p) \in EventRecord
      /\ f \in Ids
  BY CurrentIsEvent DEF Inv, UpsertFactVector, Fetched
<1>2. PICK c : /\ PositionOK(p, c) /\ c.at = "status" /\ c.next = cons[p].next
               /\ cons' = [cons EXCEPT ![p] = c]
  BY MovePosition DEF UpsertFactVector, Fetched
<1>3. TablesAgree /\ facts' = facts /\ outbox' = outbox
      /\ UNCHANGED <<outbox, locked, writer, kafka, disp>>
  BY UnchangedAgree DEF Inv, UpsertFactVector
<1>4. ~Current(p).active => ~facts[f].active
  BY <1>1 DEF Inv, Carried, Current
<1>5. Current(p).active \in BOOLEAN
  BY <1>1 DEF EventRecord
<1>6. vector' = [i \in DOMAIN vector \cup {f} |->
                    IF i = f THEN Current(p).active ELSE vector[i]]
  BY DEF UpsertFactVector
<1>7. outbox[topic[p][c.next]].fact = f
  BY <1>2 DEF Current
<1> HIDE DEF f
<1>8. DOMAIN vector' = DOMAIN vector \cup {f}
  BY <1>6
<1>9. vector' \in [DOMAIN vector' -> BOOLEAN]
  BY <1>5, <1>6, <1>8 DEF Inv, Types
<1>10. \A i \in DOMAIN vector' : ~vector'[i] => ~facts[i].active
  BY <1>4, <1>6, <1>8 DEF Inv, Vectors
<1>11. DOMAIN vector' \subseteq Ids
       /\ \A i \in Ids : facts'[i].index = "done" => i \in DOMAIN vector'
  BY <1>1, <1>3, <1>8 DEF Inv, References, Vectors, f
<1>12. QED
  BY <1>2, <1>3, <1>7, <1>8, <1>9, <1>10, <1>11, ConsumerMoves

\* The index status becomes "done" behind the upsert of the fact's vector.
LEMMA UpdateStatusDoneInv ==
    ASSUME Inv, NEW p \in Partitions, UpdateStatusDone(p)
    PROVE  Inv'
<1> DEFINE f == Current(p).fact
<1>1. cons[p].next <= Len(topic[p])
  BY DEF Inv, References, UpdateStatusDone
<1>2. f \in Ids /\ f \in DOMAIN vector
  BY <1>1, CurrentIsEvent DEF Inv, UpdateStatusDone, Vectors
<1>3. PICK c : PositionOK(p, c) /\ c.at = "commit" /\ cons' = [cons EXCEPT ![p] = c]
  BY <1>1, MovePosition DEF UpdateStatusDone
<1>4. SetIndex(f, "done") /\ UNCHANGED <<outbox, locked, writer, kafka, disp, vector>>
  BY DEF UpdateStatusDone
<1> HIDE DEF f
<1>5. TablesAgree /\ \A i \in Ids \ {f} : facts'[i].index = facts[i].index
  BY <1>2, <1>4, SetIndexAgrees DEF Inv
<1>6. /\ vector' \in [DOMAIN vector' -> BOOLEAN]
      /\ DOMAIN vector \subseteq DOMAIN vector' /\ DOMAIN vector' \subseteq Ids
      /\ \A i \in DOMAIN vector' : ~vector'[i] => ~facts[i].active
      /\ \A i \in Ids : facts'[i].index = "done" => i \in DOMAIN vector'
  BY <1>2, <1>4, <1>5 DEF Inv, Types, References, Vectors
<1>7. QED
  BY <1>3, <1>4, <1>5, <1>6, ConsumerMoves

\* A record whose vector could not be written is skipped.
LEMMA IndexFailInv ==
    ASSUME Inv, NEW p \in Partitions, IndexFail(p)
    PROVE  Inv'
<1> DEFINE f == Current(p).fact
<1>1. cons[p].next <= Len(topic[p])
  BY DEF IndexFail, Fetched
<1>2. f \in Ids
  BY <1>1, CurrentIsEvent DEF Inv
<1>3. PICK c : PositionOK(p, c) /\ c.at = "fetch" /\ cons' = [cons EXCEPT ![p] = c]
  BY <1>1, SkipPosition DEF IndexFail
<1>4. (SetIndex(f, "failed") \/ UNCHANGED facts)
      /\ UNCHANGED <<outbox, locked, writer, kafka, disp, vector>>
  BY DEF IndexFail
<1> HIDE DEF f
<1>5. TablesAgree /\ \A i \in Ids : facts'[i].index = "done" => facts[i].index = "done"
  <2>1. CASE SetIndex(f, "failed")
    <3>1. /\ TablesAgree /\ facts'[f].index = "failed"
          /\ \A i \in Ids \ {f} : facts'[i].index = facts[i].index
      BY <1>2, <1>4, <2>1, SetIndexAgrees DEF Inv
    <3>2. QED
      BY <3>1
  <2>2. CASE UNCHANGED facts
    BY <1>4, <2>2, UnchangedAgree DEF Inv, tables
  <2>3. QED
    BY <1>4, <2>1, <2>2
<1>6. /\ vector' \in [DOMAIN vector' -> BOOLEAN]
      /\ DOMAIN vector \subseteq DOMAIN vector' /\ DOMAIN vector' \subseteq Ids
      /\ \A i \in DOMAIN vector' : ~vector'[i] => ~facts[i].active
      /\ \A i \in Ids : facts'[i].index = "done" => i \in DOMAIN vector'
  BY <1>4, <1>5 DEF Inv, Types, References, Vectors
<1>7. QED
  BY <1>3, <1>4, <1>5, <1>6, ConsumerMoves

\* A status update or a commit that fails: the record is skipped.
LEMMA SkipInv ==
    ASSUME Inv, NEW p \in Partitions, UpdateStatusFail(p) \/ CommitFail(p)
    PROVE  Inv'
<1>1. cons[p].next <= Len(topic[p])
  BY DEF Inv, References, UpdateStatusFail, CommitFail
<1>2. PICK c : PositionOK(p, c) /\ c.at = "fetch" /\ cons' = [cons EXCEPT ![p] = c]
  BY <1>1, SkipPosition DEF UpdateStatusFail, CommitFail
<1>3. UNCHANGED <<tables, locked, writer, kafka, disp, vector>>
  BY DEF UpdateStatusFail, CommitFail
<1>4. QED
  BY <1>2, <1>3, ConsumerOnlyMoves

\* A consumer that stops and starts at the committed offset.
LEMMA ConsumerCrashInv ==
    ASSUME Inv, NEW p \in Partitions, ConsumerCrash(p)
    PROVE  Inv'
<1> DEFINE c == [cons[p] EXCEPT !.at = "fetch", !.next = 1]
<1>1. cons[p] \in Positions /\ Len(topic[p]) \in Nat
  BY DEF Inv, Types, Positions
<1>2. c \in Positions /\ c.at = "fetch" /\ c.next = 1
  <2>1. 1 \in Nat \ {0}
    OBVIOUS
  <2>2. QED
    BY <1>1, <2>1, PositionSet
<1>3. cons' = [cons EXCEPT ![p] = c]
  BY <1>1 DEF ConsumerCrash, Inv, Types
<1> HIDE DEF c
<1>4. PositionOK(p, c)
  BY <1>1, <1>2 DEF PositionOK
<1>5. UNCHANGED <<tables, locked, writer, kafka, disp, vector>>
  BY DEF ConsumerCrash
<1>6. QED
  BY <1>2, <1>3, <1>4, <1>5, ConsumerOnlyMoves

\* A commit drops records at the front of the partition.
LEMMA CommitMessagesInv ==
    ASSUME Inv, NEW p \in Partitions, CommitMessages(p)
    PROVE  Inv'
<1> USE DEF Inv
<1> DEFINE s == topic[p]
           k == cons[p].next
           r == SubSeq(s, k + 1, Len(s))
           c == [at |-> "fetch", next |-> 1]
<1>1. UNCHANGED <<tables, locked, writer, published, disp, vector>>
  BY DEF CommitMessages
<1>2. TablesAgree /\ facts' = facts /\ outbox' = outbox
  BY <1>1, UnchangedAgree
<1>3. SupersededOnce' /\ Carried' /\ Transactions' /\ Ids' = Ids
  BY <1>1, <1>2, AgreeKeeps
<1>4. s \in Seq(Nat) /\ k \in Nat \ {0} /\ k <= Len(s)
      /\ \A n \in 1..Len(s) : s[n] \in DOMAIN outbox
  BY DEF Types, References, CommitMessages
<1>5. topic' = [topic EXCEPT ![p] = r] /\ cons' = [cons EXCEPT ![p] = c]
  BY DEF CommitMessages
<1> HIDE DEF s, k
<1>6. r \in Seq(Nat) /\ \A n \in 1..Len(r) : r[n] \in DOMAIN outbox
  <2>1. Len(s) \in Nat
    BY <1>4
  <2>2. r \in Seq(Nat) /\ Len(r) = Len(s) - k
        /\ \A n \in 1..Len(r) : n + k \in 1..Len(s) /\ r[n] = s[k + n]
    BY <1>4, <2>1
  <2>3. QED
    BY <1>4, <2>1, <2>2
<1> HIDE DEF r
<1>7. topic' \in [Partitions -> Seq(Nat)] /\ topic'[p] = r
      /\ \A q \in Partitions \ {p} : topic'[q] = topic[q]
  BY <1>5, <1>6 DEF Types
<1>8. cons' \in [Partitions -> Positions] /\ cons'[p] = c
      /\ \A q \in Partitions \ {p} : cons'[q] = cons[q]
  BY <1>5 DEF Types, Positions
<1>9. Types'
  BY <1>1, <1>2, <1>7, <1>8 DEF Types, Positions
<1>10. References'
  <2>1. \A q \in Partitions : \A n \in 1..Len(topic'[q]) : topic'[q][n] \in DOMAIN outbox'
    BY <1>2, <1>6, <1>7 DEF References
  <2>2. \A q \in Partitions :
          /\ cons'[q].next <= Len(topic'[q]) + 1
          /\ cons'[q].at # "fetch" => cons'[q].next <= Len(topic'[q])
    <3>1. Len(r) \in Nat
      BY <1>6
    <3>2. cons'[p].at = "fetch" /\ cons'[p].next = 1
      BY <1>8
    <3>3. cons'[p].next <= Len(topic'[p]) + 1
      BY <1>7, <3>1, <3>2
    <3>4. QED
      BY <1>7, <1>8, <3>2, <3>3 DEF References
  <2>3. QED
    BY <1>1, <1>2, <1>3, <2>1, <2>2 DEF References
<1>11. Delivered'
  BY <1>1, <1>2 DEF Delivered
<1>12. Vectors'
  <2>1. \A q \in Partitions : cons'[q].at = "status" =>
           outbox[topic'[q][cons'[q].next]].fact \in DOMAIN vector
    <3>1. cons'[p].at = "fetch"
      BY <1>8
    <3>2. QED
      BY <1>7, <1>8, <3>1 DEF Vectors, Current
  <2>2. QED
    BY <1>1, <1>2, <1>3, <2>1 DEF Vectors, Current
<1>13. QED
  BY <1>3, <1>9, <1>10, <1>11, <1>12

-----------------------------------------------------------------------------
(* The invariant, and what follows from it.                                *)

\* Every step of writers, dispatchers and consumers keeps the invariant.
LEMMA NextInv ==
    ASSUME Inv, [Next]_vars
    PROVE  Inv'
<1>1. CASE \E w \in Writers : WriterStep(w) \/ Rollback(w)
  BY <1>1, FindOldInv, WriteFactInv, RollbackInv DEF WriterStep
<1>2. CASE \E d \in Dispatchers : \/ DispatcherStep(d)
                                  \/ WriteMessagesFail(d) \/ MarkFail(d) \/ DispatcherCrash(d)
  BY <1>2, ListPendingOutboxInv, WriteMessagesInv, MarkInv, WriteMessagesFailInv,
     MarkFailInv, DispatcherCrashInv DEF DispatcherStep
<1>3. CASE \E p \in Partitions : \/ ConsumerStep(p)
                                 \/ IndexFail(p) \/ UpdateStatusFail(p) \/ CommitFail(p)
                                 \/ ConsumerCrash(p)
  BY <1>3, UpsertFactVectorInv, UpdateStatusDoneInv, CommitMessagesInv, IndexFailInv,
     SkipInv, ConsumerCrashInv DEF ConsumerStep
<1>4. CASE UNCHANGED vars
  <2>1. UNCHANGED <<tables, locked, writer, kafka, disp, cons, vector>>
    BY <1>4 DEF vars, tables, kafka
  <2>2. SupersededOnce' /\ Carried' /\ References' /\ Delivered' /\ Vectors'
        /\ Ids' = Ids /\ facts' = facts
    BY <2>1, TablesKept, PipelineKept
  <2>3. Types' /\ Transactions'
    BY <2>1, <2>2 DEF Inv, Types, Transactions, tables, kafka
  <2>4. QED
    BY <2>2, <2>3 DEF Inv
<1>5. QED
  BY <1>1, <1>2, <1>3, <1>4 DEF Next

\* The inductive invariant holds in every reachable state, for any number of
\* writers, dispatchers, partitions and faults and any batch size.
THEOREM MemoryInvariant == Spec => []Inv
<1>1. Init => Inv
  BY InitInv
<1>2. Inv /\ [Next]_vars => Inv'
  BY NextInv
<1>3. QED
  BY <1>1, <1>2, PTL DEF Spec

\* The tables, the topic and Qdrant refer to rows that exist.
THEOREM MemoryTypeCorrect == Spec => []TypeOK
<1>1. Inv => TypeOK
  <2>1. SUFFICES ASSUME Inv PROVE TypeOK
    OBVIOUS
  <2>2. ASSUME NEW i \in Ids
        PROVE  /\ facts[i].key \in ConflictKeys \cup {None}
               /\ facts[i].supersedes \in 0..(i - 1)
               /\ facts[i].index \in {"pending", "done", "failed"}
    <3>1. facts[i] \in FactRecord /\ i \in Nat
      BY <2>1 DEF Inv, Types, Ids
    <3>2. facts[i].supersedes \in Nat /\ facts[i].supersedes < i
      BY <2>1, <3>1 DEF Inv, References, FactRecord
    <3>3. facts[i].supersedes \in 0..(i - 1)
      BY <3>1, <3>2
    <3>4. QED
      BY <3>1, <3>3 DEF FactRecord
  <2>3. ASSUME NEW e \in DOMAIN outbox
        PROVE  outbox[e].fact \in Ids /\ outbox[e].status \in 0..2
    <3>1. outbox[e] \in EventRecord
      BY <2>1 DEF Inv, Types
    <3>2. QED
      BY <2>1, <3>1 DEF Inv, References, EventRecord
  <2>4. ASSUME NEW p \in Partitions
        PROVE  /\ ToSet(topic[p]) \subseteq DOMAIN outbox
               /\ cons[p].next \in 1..Len(topic[p]) + 1
    <3>1. topic[p] \in Seq(Nat) /\ cons[p].next \in Nat \ {0}
      BY <2>1 DEF Inv, Types
    <3>2. cons[p].next <= Len(topic[p]) + 1
          /\ \A n \in 1..Len(topic[p]) : topic[p][n] \in DOMAIN outbox
      BY <2>1 DEF Inv, References
    <3>3. DOMAIN topic[p] = 1..Len(topic[p]) /\ Len(topic[p]) \in Nat
      BY <3>1
    <3>4. ToSet(topic[p]) \subseteq DOMAIN outbox
      BY <3>2, <3>3 DEF ToSet
    <3>5. QED
      BY <3>1, <3>2, <3>3, <3>4
  <2>5. QED
    BY <2>1, <2>2, <2>3, <2>4 DEF TypeOK, Inv, References
<1>2. QED
  BY <1>1, MemoryInvariant, PTL

\* Conversations that extract conflicting preferences at the same time: a fact is
\* superseded at most once, by a fact of its key with a confidence of at least 7,
\* and is inactive from then on.
THEOREM SupersededOnceAlways == Spec => []SupersededOnce
<1>1. Inv => SupersededOnce
  BY DEF Inv
<1>2. QED
  BY <1>1, MemoryInvariant, PTL

\* Facts and events are written in one transaction, and an event is marked sent
\* behind its record only: no change of a fact is lost on its way to the topic.
THEOREM EventsMatchFactsAlways == Spec => []EventsMatchFacts
<1>1. Inv => EventsMatchFacts
  BY DEF Inv, Carried, Delivered, EventsMatchFacts
<1>2. QED
  BY <1>1, MemoryInvariant, PTL

\* An active fact whose index status is "done" has a vector that says active.
THEOREM DoneIsFindableAlways == Spec => []DoneIsFindable
<1>1. Inv => DoneIsFindable
  BY DEF Inv, Vectors, DoneIsFindable
<1>2. QED
  BY <1>1, MemoryInvariant, PTL
=============================================================================
