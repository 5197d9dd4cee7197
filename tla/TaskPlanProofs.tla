---------------------------- MODULE TaskPlanProofs ----------------------------
(***************************************************************************)
(* Proofs about the plan executor, for any keys, dependencies, numbers of  *)
(* steps, replans, revisions and runs, and for one instance of the service *)
(* (with two, DonePreserved does not hold: run plan_race).  What is said   *)
(* of results also takes it that reads of results succeed, as the run plan *)
(* does.                                                                   *)
(*                                                                         *)
(* The argument: with one executor the row that a transaction read is      *)
(* still the row it writes (Work), so the steps that are not done only     *)
(* become fewer between revisions and stay free of cycles (Graph).  A      *)
(* result that was saved belongs to a step that is done or to the first    *)
(* step that is ready, which is the one that the executor takes next, so   *)
(* it is recovered before anything else can fail (Outcomes).               *)
(***************************************************************************)
EXTENDS TaskPlan, SequenceTheorems, FiniteSetTheorems, WellFoundedInduction, TLAPS

OneInstance == \A d, e \in Executors : d = e

\* A row of a plan; NoStep is none.
PlanRow == [key : Keys, status : {"pending", "running", "done", "failed"},
            deps : Dependencies, rev : Revisions]
PlanStates == {"none", "pending", "running", "done", "failed"}
Places == {"idle", "plan", "loop", "start", "recover", "call", "save", "close", "fail", "replan"}

Transactions == [phase : {"none", "checked", "written"}, row : StepRow, plan : PlanStates]

Types ==
  /\ plan \in PlanStates
  /\ steps \in Seq(PlanRow)
  /\ saved \in [Keys -> Results]
  /\ revisions \in Nat
  /\ at \in [Executors -> Places]
  /\ results \in [Executors -> [Keys -> Results]]
  /\ output \in [Executors -> Results]
  /\ step \in [Executors -> StepRow]
  /\ completed \in [Executors -> SUBSET Keys]
  /\ tx \in [Executors -> Transactions]

\* Keys are unique, and a plan has steps.
Table ==
  /\ \A i, j \in DOMAIN steps : steps[i].key = steps[j].key => i = j
  /\ plan = "none" <=> steps = <<>>
  /\ \A e \in Executors : at[e] = "plan" => plan = "none"
  /\ \A e \in Executors : at[e] \notin {"idle", "plan"} => plan # "none"

Open(rows) == {i \in DOMAIN rows : rows[i].status # "done"}

\* Steps that are not done depend on steps of the plan, without a cycle.
GraphOf(rows) ==
  /\ \A i \in Open(rows) : Range(rows[i].deps) \subseteq KeySet(rows)
  /\ \A S \in SUBSET Open(rows) : S # {} =>
       \E i \in S : \A j \in S : rows[j].key \notin Range(rows[i].deps)

Graph == GraphOf(steps) /\ \A e \in Executors : completed[e] \subseteq Done(steps)

\* i is the step that nextReadyStep takes.
IsNext(rows, i) == i \in Ready(rows) /\ \A j \in Ready(rows) : i <= j

Working == {"start", "recover", "call", "save", "close", "fail"}

\* The step that an executor works on is the next one, and its transaction
\* works on the row as it is.
WorksOn(e, i) ==
  /\ i \in DOMAIN steps
  /\ steps[i].key = step[e].key /\ steps[i].rev = step[e].rev
  /\ steps[i].status = IF at[e] = "start" THEN "pending" ELSE "running"
  /\ IsNext(steps, i)

Work ==
  \A e \in Executors :
    /\ at[e] \in Working => \E i \in DOMAIN steps : WorksOn(e, i)
    /\ tx[e].phase # "none" =>
         /\ Updating(e)
         /\ \E i \in DOMAIN steps : WorksOn(e, i) /\ tx[e].row = steps[i]
    /\ tx[e].phase = "written" =>
         tx[e].plan = PlanStatus(Written(tx[e].row, Updates[at[e]]))

PlanInv == Types /\ Table /\ Graph /\ Work /\ PlanStatusAgrees

Usable(k) == saved[k] \notin {NoResult, Blank}

\* A usable result is that of a step that is done, or of the next one.
Outcomes ==
  /\ \A k \in Keys : Usable(k) =>
       \E i \in DOMAIN steps :
         /\ steps[i].key = k /\ steps[i].rev = saved[k]
         /\ steps[i].status = "done" \/ (steps[i].status = "running" /\ IsNext(steps, i))
  /\ \A i \in DOMAIN steps : steps[i].status = "done" => saved[steps[i].key] # NoResult
  /\ \A x \in kept : x[1] \in Keys /\ Usable(x[1])

\* What an executor knows of results, place by place.
Knows(e) ==
  /\ at[e] \in {"call", "save", "fail"} => ~Usable(step[e].key)
  /\ at[e] = "save" => output[e] \in {step[e].rev, Blank}
  /\ at[e] = "recover" => Usable(step[e].key)
  /\ at[e] = "close" => saved[step[e].key] # NoResult
  /\ at[e] \in {"recover", "close"} /\ saved[step[e].key] # Blank =>
       results[e][step[e].key] = step[e].rev
  /\ at[e] = "replan" => \A k \in Keys : Usable(k) => k \in Done(steps)
  /\ at[e] \notin {"idle", "plan"} =>
       \A i \in DOMAIN steps : steps[i].status = "done" /\ saved[steps[i].key] # Blank =>
         results[e][steps[i].key] = steps[i].rev
  /\ at[e] # "idle" => answer = NoAnswer

ResultInv == Outcomes /\ (\A e \in Executors : Knows(e)) /\ AnswerComplete
-----------------------------------------------------------------------------
(* The operators the model is built from.                                  *)

\* A set of natural numbers that is not empty has a least member.
LEMMA Least ==
  ASSUME NEW T \in SUBSET Nat, T # {}
  PROVE  \E x \in T : \A y \in T : x <= y
<1> DEFINE R == OpToRel(<, Nat)
<1>1. IsWellFoundedOn(R, Nat)
  BY NatLessThanWellFounded
<1>2. \A x, y \in Nat : <<x, y>> \in R <=> x < y
  BY DEF OpToRel
<1> HIDE DEF R
<1>3. PICK x \in T : \A y \in T : ~(<<y, x>> \in R)
  BY <1>1, WFMin
<1>4. ASSUME NEW y \in T PROVE x <= y
  <2>1. x \in Nat /\ y \in Nat
    OBVIOUS
  <2>2. ~(y < x)
    BY <1>2, <1>3, <2>1
  <2>3. QED
    BY <2>1, <2>2
<1>5. QED
  BY <1>4

\* nextReadyStep takes the first step that is ready, if one is.
LEMMA NextIsReady ==
  ASSUME NEW rows \in Seq(PlanRow), Ready(rows) # {}
  PROVE  \E i \in DOMAIN rows : IsNext(rows, i) /\ nextReadyStep(rows) = rows[i]
<1>1. Ready(rows) \in SUBSET Nat /\ Ready(rows) \subseteq DOMAIN rows
  BY DEF Ready
<1>2. \E i \in Ready(rows) : \A j \in Ready(rows) : i <= j
  BY <1>1, Least
<1> DEFINE i == CHOOSE x \in Ready(rows) : \A j \in Ready(rows) : x <= j
<1>3. i \in Ready(rows) /\ \A j \in Ready(rows) : i <= j
  BY <1>2
<1>4. nextReadyStep(rows) = rows[i]
  BY DEF nextReadyStep
<1> HIDE DEF i
<1>5. QED
  BY <1>1, <1>3, <1>4 DEF IsNext

\* What the statuses of UpdateTaskStep are, place by place.
LEMMA UpdatesAre ==
  /\ DOMAIN Updates = {"start", "recover", "close", "fail"}
  /\ Updates["start"] = "running" /\ Updates["recover"] = "done"
  /\ Updates["close"] = "done" /\ Updates["fail"] = "failed"
  /\ After["start"] = "call" /\ After["recover"] = "loop"
  /\ After["close"] = "loop" /\ After["fail"] = "replan"
BY DEF Updates, After

\* The status of a plan agrees with the statuses of its steps.
LEMMA StatusAgrees ==
  ASSUME NEW rows \in Seq(PlanRow), rows # <<>>
  PROVE  /\ PlanStatus(rows) \in PlanStates /\ PlanStatus(rows) # "none"
         /\ PlanStatus(rows) = "done" <=> allPlanStepsDone(rows)
         /\ PlanStatus(rows) = "failed" <=> \E i \in DOMAIN rows : rows[i].status = "failed"
<1>1. DOMAIN rows # {}
  <2>1. Len(rows) # 0
    BY EmptySeq
  <2>2. Len(rows) \in Nat /\ DOMAIN rows = 1..Len(rows)
    OBVIOUS
  <2>3. QED
    BY <2>1, <2>2
<1>2. QED
  BY <1>1 DEF PlanStatus, PlanStates, allPlanStepsDone

\* Writing the status of a row, row by row.
RowSet(rows, i, next) ==
  /\ rows \in Seq(PlanRow) /\ DOMAIN rows = DOMAIN steps
  /\ \A j \in DOMAIN steps :
       /\ rows[j].key = steps[j].key /\ rows[j].rev = steps[j].rev
       /\ rows[j].deps = steps[j].deps
       /\ rows[j].status = IF j = i THEN next ELSE steps[j].status
       /\ j # i => rows[j] = steps[j]
  /\ next = steps[i].status => rows[i] = steps[i]

\* Written sets the status of one row: keys are unique.
LEMMA WrittenIs ==
  ASSUME Types, Table, NEW i \in DOMAIN steps,
         NEW next \in {"pending", "running", "done", "failed"}
  PROVE  RowSet(Written(steps[i], next), i, next)
<1> DEFINE W == Written(steps[i], next)
           x == [steps[i] EXCEPT !.status = next]
<1>1. \A j \in DOMAIN steps : steps[j] \in PlanRow
  BY DEF Types
<1>2. /\ x \in PlanRow /\ x.key = steps[i].key /\ x.rev = steps[i].rev
      /\ x.deps = steps[i].deps /\ x.status = next
      /\ (next = steps[i].status => x = steps[i])
  BY <1>1 DEF PlanRow
<1>3. W = [j \in DOMAIN steps |-> IF j = i THEN x ELSE steps[j]]
  BY DEF Written, Table
<1> HIDE DEF W, x
<1>4. DOMAIN W = DOMAIN steps /\ W[i] = x /\ \A j \in DOMAIN steps : j # i => W[j] = steps[j]
  BY <1>3
<1>5. W \in Seq(PlanRow)
  BY <1>1, <1>2, <1>3 DEF Types
<1>6. \A j \in DOMAIN steps :
       /\ W[j].key = steps[j].key /\ W[j].rev = steps[j].rev
       /\ W[j].deps = steps[j].deps
       /\ W[j].status = IF j = i THEN next ELSE steps[j].status
  BY <1>2, <1>4
<1>7. QED
  BY <1>2, <1>4, <1>5, <1>6 DEF RowSet, W

\* A graph stays free of cycles when steps become done.
LEMMA GraphShrinks ==
  ASSUME NEW rows, NEW i, NEW next, RowSet(rows, i, next), GraphOf(steps),
         i \in DOMAIN steps, steps[i].status = "done" => next = "done"
  PROVE  GraphOf(rows)
<1>1. Open(rows) \subseteq Open(steps)
  BY DEF Open, RowSet
<1>2. KeySet(rows) = KeySet(steps)
  BY DEF KeySet, RowSet
<1>3. Open(steps) \subseteq DOMAIN steps
  BY DEF Open
<1>4. ASSUME NEW S \in SUBSET Open(rows), S # {}
      PROVE  \E k \in S : \A j \in S : rows[j].key \notin Range(rows[k].deps)
  <2>1. PICK k \in S : \A j \in S : steps[j].key \notin Range(steps[k].deps)
    BY <1>1, <1>4 DEF GraphOf
  <2>2. \A j \in S : rows[j].key = steps[j].key /\ rows[j].deps = steps[j].deps
    BY <1>1, <1>3 DEF RowSet
  <2>3. QED
    BY <2>1, <2>2
<1>5. \A k \in Open(rows) : Range(rows[k].deps) \subseteq KeySet(rows)
  BY <1>1, <1>2, <1>3 DEF GraphOf, RowSet
<1>6. QED
  BY <1>4, <1>5 DEF GraphOf

\* A list without repetitions is as long as its range is large.
LEMMA ListCounts ==
  ASSUME NEW s \in Seq(Keys), IsInjective(s)
  PROVE  Cardinality(Range(s)) = Len(s)
<1>1. Len(s) \in Nat /\ DOMAIN s = 1..Len(s)
  OBVIOUS
<1>2. s \in Bijection(1..Len(s), Range(s))
  BY <1>1 DEF Bijection, Injection, Surjection, IsInjective, Range
<1>3. IsFiniteSet(1..Len(s)) /\ Cardinality(1..Len(s)) = Len(s)
  BY <1>1, FS_Interval
<1>4. QED
  BY <1>2, <1>3, FS_Bijection DEF ExistsBijection

\* UpdateTaskStep counts all dependencies of a ready step that lists none twice.
LEMMA ReadyMayStart ==
  ASSUME Types, NEW i \in Ready(steps), IsInjective(steps[i].deps)
  PROVE  steps[i].status = "running" \/ Allows(steps[i], "running")
<1>1. /\ i \in DOMAIN steps /\ steps[i] \in PlanRow
      /\ steps[i].status \in {"pending", "running"}
      /\ Range(steps[i].deps) \subseteq Done(steps)
  BY DEF Ready, Types
<1>2. steps[i].deps \in Seq(Keys)
  BY <1>1, PlanAssumption DEF PlanRow
<1>3. Range(steps[i].deps) \cap Done(steps) = Range(steps[i].deps)
  BY <1>1
<1>4. DependenciesComplete(steps[i])
  BY <1>2, <1>3, ListCounts DEF DependenciesComplete
<1>5. QED
  BY <1>1, <1>4 DEF Allows, validTaskTransition

\* A plan without a cycle has a step that is ready, or all are done, or one has
\* failed; and what is ready may start.
LEMMA SomeReady ==
  ASSUME Types, GraphOf(steps)
  PROVE  NeverStuck
<1>1. SUFFICES ASSUME steps # <<>>, ~allPlanStepsDone(steps),
                      ~\E i \in DOMAIN steps : steps[i].status = "failed"
               PROVE  Ready(steps) # {}
  BY ReadyMayStart DEF NeverStuck
<1>2. Open(steps) # {}
  BY <1>1 DEF allPlanStepsDone, Open
<1>3. PICK i \in Open(steps) : \A j \in Open(steps) : steps[j].key \notin Range(steps[i].deps)
  BY <1>2 DEF GraphOf
<1>4. i \in DOMAIN steps /\ steps[i] \in PlanRow /\ steps[i].status # "done"
  BY DEF Open, Types
<1>5. steps[i].status \in {"pending", "running"}
  BY <1>1, <1>4 DEF PlanRow
<1>6. Range(steps[i].deps) \subseteq Done(steps)
  <2>1. SUFFICES ASSUME NEW k \in Range(steps[i].deps) PROVE k \in Done(steps)
    OBVIOUS
  <2>2. PICK j \in DOMAIN steps : steps[j].key = k
    BY DEF GraphOf, KeySet
  <2>3. steps[j].status = "done"
    BY <1>3, <2>2 DEF Open
  <2>4. QED
    BY <2>2, <2>3 DEF Done
<1>7. QED
  BY <1>4, <1>5, <1>6 DEF Ready
-----------------------------------------------------------------------------
(* Revisions of the plan.                                                  *)

\* s lists the rows at the positions S, each once.
Lists(s, rows, S, f) ==
  /\ f \in [DOMAIN s -> S]
  /\ \A m, n \in DOMAIN s : f[m] = f[n] => m = n
  /\ \A i \in S : \E n \in DOMAIN s : f[n] = i
  /\ \A n \in DOMAIN s : s[n] = rows[f[n]]

\* Select lists the rows at the positions it is given.
LEMMA SelectLists ==
  ASSUME NEW rows \in Seq(PlanRow), NEW S \in SUBSET DOMAIN rows, NEW s \in Select(rows, S)
  PROVE  s \in Seq(PlanRow) /\ \E f : Lists(s, rows, S, f)
<1>1. PICK f \in InOrder(S) : s = [n \in DOMAIN f |-> rows[f[n]]]
  BY DEF Select
<1>2. DOMAIN rows = 1..Len(rows) /\ Len(rows) \in Nat
  OBVIOUS
<1>3. Cardinality(S) \in Nat
  <2>1. IsFiniteSet(1..Len(rows))
    BY <1>2, FS_Interval
  <2>2. IsFiniteSet(S)
    BY <1>2, <2>1, FS_Subset
  <2>3. QED
    BY <2>2, FS_CardinalityType
<1> DEFINE c == Cardinality(S)
<1>4. f \in [1..c -> S] /\ Range(f) = S /\ \A m, n \in 1..c : m < n => f[m] < f[n]
  BY DEF InOrder
<1>5. c \in Nat
  BY <1>3
<1> HIDE DEF c
<1>6. DOMAIN s = 1..c /\ \A n \in 1..c : s[n] = rows[f[n]] /\ f[n] \in DOMAIN rows
  BY <1>1, <1>4
<1>7. s \in [1..c -> PlanRow]
  BY <1>1, <1>4, <1>6
<1>8. s \in Seq(PlanRow)
  BY <1>5, <1>7
<1>9. ASSUME NEW m \in 1..c, NEW n \in 1..c, f[m] = f[n] PROVE m = n
  <2>1. m \in Int /\ n \in Int /\ f[m] \in Int
    BY <1>2, <1>5, <1>6
  <2>2. ~(m < n) /\ ~(n < m)
    BY <1>4, <1>9, <2>1
  <2>3. QED
    BY <2>1, <2>2
<1>10. \A i \in S : \E n \in 1..c : f[n] = i
  BY <1>4 DEF Range
<1>11. Lists(s, rows, S, f)
  BY <1>4, <1>6, <1>9, <1>10 DEF Lists
<1>12. QED
  BY <1>8, <1>11

\* The rows of a proposal are rows of a plan.
LEMMA NewRows ==
  ASSUME Types, NEW done, NEW p \in generatePlan(done), NEW rev \in Revisions
  PROVE  /\ toNewTaskSteps(p, rev) \in Seq(PlanRow)
         /\ DOMAIN toNewTaskSteps(p, rev) = DOMAIN p
         /\ \A i \in DOMAIN p :
              /\ toNewTaskSteps(p, rev)[i].key = p[i].key
              /\ toNewTaskSteps(p, rev)[i].deps = p[i].deps
              /\ toNewTaskSteps(p, rev)[i].status = "pending"
         /\ \A i, j \in DOMAIN p : p[i].key = p[j].key => i = j
         /\ \A i \in DOMAIN p : Range(p[i].deps) \subseteq KeySet(p) \cup done
         /\ Acyclic(p)
         /\ Len(p) \in Nat /\ Len(p) >= 2 /\ DOMAIN p = 1..Len(p)
<1> DEFINE N == toNewTaskSteps(p, rev)
<1>1. PICK n \in 1..maxSteps : p \in [1..n -> [key : Keys, deps : Dependencies]]
  BY DEF generatePlan, Proposals
<1>2. n \in Nat
  BY PlanAssumption
<1>3. Len(p) = n /\ DOMAIN p = 1..n
  BY <1>1, <1>2
<1>4. validatePlanProposal(p, 2, done)
  BY DEF generatePlan
<1>5. n >= 2
  BY <1>2, <1>3, <1>4, PlanAssumption DEF validatePlanProposal
<1>6. ASSUME NEW i \in DOMAIN p
      PROVE  N[i] \in PlanRow /\ N[i].key = p[i].key /\ N[i].deps = p[i].deps
                              /\ N[i].status = "pending"
  BY <1>1, <1>3 DEF toNewTaskSteps, PlanRow
<1>7. DOMAIN N = 1..n /\ N = [i \in 1..n |-> N[i]]
  BY <1>3 DEF toNewTaskSteps
<1> HIDE DEF N
<1>8. N \in [1..n -> PlanRow]
  BY <1>3, <1>6, <1>7
<1>9. N \in Seq(PlanRow)
  BY <1>2, <1>8
<1>10. \A i, j \in DOMAIN p : p[i].key = p[j].key => i = j
  BY <1>4 DEF validatePlanProposal, IsInjective
<1>11. Acyclic(p) /\ \A i \in DOMAIN p : Range(p[i].deps) \subseteq KeySet(p) \cup done
  BY <1>4 DEF validatePlanProposal
<1>12. QED
  BY <1>2, <1>3, <1>5, <1>6, <1>7, <1>9, <1>10, <1>11 DEF N

\* A new plan has no cycle.
LEMMA NewGraph ==
  ASSUME Types, NEW p \in generatePlan({}), NEW rev \in Revisions
  PROVE  GraphOf(toNewTaskSteps(p, rev))
<1> DEFINE N == toNewTaskSteps(p, rev)
<1>1. /\ DOMAIN N = DOMAIN p
      /\ \A i \in DOMAIN p : N[i].key = p[i].key /\ N[i].deps = p[i].deps
      /\ \A i \in DOMAIN p : Range(p[i].deps) \subseteq KeySet(p)
      /\ Acyclic(p)
  BY NewRows
<1> HIDE DEF N
<1>2. KeySet(N) = KeySet(p)
  BY <1>1 DEF KeySet
<1>3. Open(N) \subseteq DOMAIN p
  BY <1>1 DEF Open
<1>4. ASSUME NEW S \in SUBSET Open(N), S # {}
      PROVE  \E i \in S : \A j \in S : N[j].key \notin Range(N[i].deps)
  <2>1. PICK i \in S : \A j \in S : p[j].key \notin Range(p[i].deps)
    BY <1>1, <1>3, <1>4 DEF Acyclic
  <2>2. QED
    BY <1>1, <1>3, <2>1
<1>5. \A i \in Open(N) : Range(N[i].deps) \subseteq KeySet(N)
  BY <1>1, <1>2, <1>3
<1>6. QED
  BY <1>4, <1>5 DEF GraphOf, N

\* What a revision leaves of the table: every completed step, and new steps that
\* are pending, at least one, without a cycle.
RevisionKeeps ==
  /\ steps' \in Seq(PlanRow)
  /\ \A i, j \in DOMAIN steps' : steps'[i].key = steps'[j].key => i = j
  /\ \A i \in DOMAIN steps : steps[i].status = "done" =>
       \E j \in DOMAIN steps' : steps'[j] = steps[i]
  /\ \A j \in DOMAIN steps' :
       \/ \E i \in DOMAIN steps : steps[i].status = "done" /\ steps'[j] = steps[i]
       \/ steps'[j].status = "pending" /\ steps'[j].key \notin Done(steps)
  /\ \E j \in DOMAIN steps' : steps'[j].status = "pending"
  /\ GraphOf(steps')

\* A revision keeps the finished steps, adds open ones and leaves a graph that ends.
LEMMA RevisedKeeps ==
  ASSUME Types, Table, NEW done \in SUBSET Done(steps), NEW p \in generatePlan(done),
         KeySet(p) \ Done(steps) # {}, steps' \in Revised(p), revisions + 1 \in Revisions
  PROVE  RevisionKeeps
<1> DEFINE N == toNewTaskSteps(p, revisions + 1)
           A == {i \in DOMAIN steps : IsDone(steps[i])}
           B == {i \in DOMAIN N : IsNew(N[i])}
<1>1. PICK a \in Select(steps, A), b \in Select(N, B) : steps' = a \o b
  <2>1. Revised(p) = {old \o added : old \in Select(steps, A), added \in Select(N, B)}
    BY DEF Revised
  <2> HIDE DEF N, A, B
  <2>2. QED
    BY <2>1
<1>2. /\ N \in Seq(PlanRow) /\ DOMAIN N = DOMAIN p
      /\ \A i \in DOMAIN p : /\ N[i].key = p[i].key /\ N[i].deps = p[i].deps
                             /\ N[i].status = "pending"
      /\ \A i, j \in DOMAIN p : p[i].key = p[j].key => i = j
      /\ \A i \in DOMAIN p : Range(p[i].deps) \subseteq KeySet(p) \cup done
      /\ Acyclic(p)
  BY NewRows
<1>3. A \in SUBSET DOMAIN steps /\ \A i \in DOMAIN steps : i \in A <=> steps[i].status = "done"
  BY DEF IsDone
<1> HIDE DEF N
<1>4. B \in SUBSET DOMAIN p /\ \A i \in DOMAIN p : i \in B <=> p[i].key \notin Done(steps)
  BY <1>2 DEF IsNew
<1> HIDE DEF A, B
<1>5. a \in Seq(PlanRow) /\ \E f : Lists(a, steps, A, f)
  BY <1>3, SelectLists DEF Types
<1>6. b \in Seq(PlanRow) /\ \E g : Lists(b, N, B, g)
  BY <1>2, <1>4, SelectLists
<1>7. PICK f : Lists(a, steps, A, f)
  BY <1>5
<1>8. PICK g : Lists(b, N, B, g)
  BY <1>6
<1> DEFINE m == Len(a)
           n == Len(b)
<1>9. m \in Nat /\ n \in Nat /\ DOMAIN a = 1..m /\ DOMAIN b = 1..n
  BY <1>5, <1>6
<1>10. /\ steps' \in Seq(PlanRow) /\ DOMAIN steps' = 1..(m + n)
       /\ \A j \in 1..m : steps'[j] = a[j]
       /\ \A j \in 1..n : steps'[m + j] = b[j]
  BY <1>1, <1>5, <1>6
<1> HIDE DEF m, n
<1>11. \A j \in 1..m : f[j] \in A /\ f[j] \in DOMAIN steps /\ steps'[j] = steps[f[j]]
                       /\ steps'[j].status = "done" /\ steps'[j].key \in Done(steps)
  <2>1. SUFFICES ASSUME NEW j \in 1..m
                 PROVE  f[j] \in A /\ f[j] \in DOMAIN steps /\ steps'[j] = steps[f[j]]
                        /\ steps'[j].status = "done" /\ steps'[j].key \in Done(steps)
    OBVIOUS
  <2>2. f[j] \in A /\ steps'[j] = steps[f[j]]
    BY <1>7, <1>9, <1>10 DEF Lists
  <2>3. QED
    BY <1>3, <2>2 DEF Done
<1>12. \A j \in 1..n : g[j] \in B /\ g[j] \in DOMAIN p /\ steps'[m + j] = N[g[j]]
                       /\ steps'[m + j].key = p[g[j]].key /\ steps'[m + j].deps = p[g[j]].deps
                       /\ steps'[m + j].status = "pending"
                       /\ steps'[m + j].key \notin Done(steps)
  <2>1. SUFFICES ASSUME NEW j \in 1..n
                 PROVE  g[j] \in B /\ g[j] \in DOMAIN p /\ steps'[m + j] = N[g[j]]
                        /\ steps'[m + j].key = p[g[j]].key /\ steps'[m + j].deps = p[g[j]].deps
                        /\ steps'[m + j].status = "pending"
                        /\ steps'[m + j].key \notin Done(steps)
    OBVIOUS
  <2>2. g[j] \in B /\ steps'[m + j] = N[g[j]]
    BY <1>8, <1>9, <1>10 DEF Lists
  <2>3. QED
    BY <1>2, <1>4, <2>2
<1>13. \A j \in 1..(m + n) : j \in 1..m \/ (j - m \in 1..n /\ j = m + (j - m))
  BY <1>9
<1>14. ASSUME NEW i \in DOMAIN steps', NEW j \in DOMAIN steps', steps'[i].key = steps'[j].key
       PROVE  i = j
  <2>1. CASE i \in 1..m /\ j \in 1..m
    <3>1. f[i] = f[j]
      BY <1>11, <1>14, <2>1 DEF Table
    <3>2. QED
      BY <1>7, <1>9, <2>1, <3>1 DEF Lists
  <2>2. CASE i - m \in 1..n /\ j - m \in 1..n
    <3> DEFINE x == i - m
               y == j - m
    <3>1. i = m + x /\ j = m + y
      BY <1>9, <1>10, <1>13
    <3>2. x \in 1..n /\ y \in 1..n
      BY <2>2
    <3> HIDE DEF x, y
    <3>3. g[x] = g[y]
      BY <1>2, <1>12, <1>14, <3>1, <3>2
    <3>4. x = y
      BY <1>8, <1>9, <3>2, <3>3 DEF Lists
    <3>5. QED
      BY <3>1, <3>4
  <2>3. CASE i \in 1..m /\ j - m \in 1..n
    <3>1. steps'[i].key \in Done(steps)
      BY <1>11, <2>3
    <3>2. steps'[m + (j - m)].key \notin Done(steps)
      BY <1>12, <2>3
    <3>3. j = m + (j - m)
      BY <1>9, <1>10
    <3>4. QED
      BY <1>14, <3>1, <3>2, <3>3
  <2>4. CASE j \in 1..m /\ i - m \in 1..n
    <3>1. steps'[j].key \in Done(steps)
      BY <1>11, <2>4
    <3>2. steps'[m + (i - m)].key \notin Done(steps)
      BY <1>12, <2>4
    <3>3. i = m + (i - m)
      BY <1>9, <1>10
    <3>4. QED
      BY <1>14, <3>1, <3>2, <3>3
  <2>5. QED
    BY <1>10, <1>13, <2>1, <2>2, <2>3, <2>4
<1>15. ASSUME NEW i \in DOMAIN steps, steps[i].status = "done"
       PROVE  \E j \in DOMAIN steps' : steps'[j] = steps[i]
  <2>1. PICK j \in 1..m : f[j] = i
    BY <1>3, <1>7, <1>9, <1>15 DEF Lists
  <2>2. j \in DOMAIN steps' /\ steps'[j] = steps[i]
    BY <1>9, <1>10, <1>11, <2>1
  <2>3. QED
    BY <2>2
<1>16. ASSUME NEW j \in DOMAIN steps'
       PROVE  \/ \E i \in DOMAIN steps : steps[i].status = "done" /\ steps'[j] = steps[i]
              \/ steps'[j].status = "pending" /\ steps'[j].key \notin Done(steps)
  <2>1. CASE j \in 1..m
    BY <1>3, <1>11, <2>1
  <2>2. CASE j - m \in 1..n /\ j = m + (j - m)
    BY <1>12, <2>2
  <2>3. QED
    BY <1>10, <1>13, <2>1, <2>2
<1>17. \A q \in DOMAIN p : p[q].key \notin Done(steps) =>
          \E j \in 1..n : g[j] = q /\ m + j \in DOMAIN steps'
  <2>1. SUFFICES ASSUME NEW q \in DOMAIN p, p[q].key \notin Done(steps)
                 PROVE  \E j \in 1..n : g[j] = q /\ m + j \in DOMAIN steps'
    OBVIOUS
  <2>2. PICK j \in 1..n : g[j] = q
    BY <1>4, <1>8, <1>9, <2>1 DEF Lists
  <2>3. m + j \in DOMAIN steps'
    BY <1>9, <1>10
  <2>4. QED
    BY <2>2, <2>3
<1>18. \E j \in DOMAIN steps' : steps'[j].status = "pending"
  <2>1. PICK q \in DOMAIN p : p[q].key \notin Done(steps)
    BY DEF KeySet
  <2>2. QED
    BY <1>12, <1>17, <2>1
<1>19. Open(steps') \subseteq DOMAIN steps'
       /\ \A j \in Open(steps') : j - m \in 1..n /\ j = m + (j - m)
  BY <1>10, <1>11, <1>13 DEF Open
<1>20. KeySet(p) \cup done \subseteq KeySet(steps')
  <2>1. ASSUME NEW k \in Done(steps) PROVE k \in KeySet(steps')
    <3>1. PICK i \in DOMAIN steps : steps[i].status = "done" /\ steps[i].key = k
      BY DEF Done
    <3>2. QED
      BY <1>15, <3>1 DEF KeySet
  <2>2. ASSUME NEW k \in KeySet(p), k \notin Done(steps) PROVE k \in KeySet(steps')
    <3>1. PICK q \in DOMAIN p : p[q].key = k
      BY DEF KeySet
    <3>2. PICK j \in 1..n : g[j] = q /\ m + j \in DOMAIN steps'
      BY <1>17, <2>2, <3>1
    <3>3. steps'[m + j].key = k
      BY <1>12, <3>1, <3>2
    <3>4. QED
      BY <3>2, <3>3 DEF KeySet
  <2>3. QED
    BY <2>1, <2>2
<1>21. \A j \in Open(steps') : Range(steps'[j].deps) \subseteq KeySet(steps')
  <2>1. SUFFICES ASSUME NEW j \in Open(steps')
                 PROVE  Range(steps'[j].deps) \subseteq KeySet(steps')
    OBVIOUS
  <2>2. j - m \in 1..n /\ j = m + (j - m)
    BY <1>19
  <2>3. steps'[j].deps = p[g[j - m]].deps /\ g[j - m] \in DOMAIN p
    BY <1>12, <2>2
  <2>4. QED
    BY <1>2, <1>20, <2>3
<1>22. ASSUME NEW S \in SUBSET Open(steps'), S # {}
       PROVE  \E i \in S : \A j \in S : steps'[j].key \notin Range(steps'[i].deps)
  <2> DEFINE T == {g[j - m] : j \in S}
  <2>1. \A j \in S : /\ g[j - m] \in DOMAIN p
                     /\ steps'[j].key = p[g[j - m]].key /\ steps'[j].deps = p[g[j - m]].deps
    BY <1>12, <1>19
  <2>2. T \in (SUBSET DOMAIN p) \ {{}}
    BY <1>22, <2>1
  <2>3. PICK q \in T : \A r \in T : p[r].key \notin Range(p[q].deps)
    BY <1>2, <2>2 DEF Acyclic
  <2>4. PICK i \in S : g[i - m] = q
    OBVIOUS
  <2>5. QED
    BY <2>1, <2>3, <2>4
<1>23. GraphOf(steps')
  BY <1>21, <1>22 DEF GraphOf
<1>24. QED
  BY <1>10, <1>14, <1>15, <1>16, <1>18, <1>23 DEF RevisionKeeps
-----------------------------------------------------------------------------
(* The plan and its steps: PlanInv.                                        *)

\* NoTx is a transaction, and there is none open in it.
LEMMA NoTxType == NoTx \in Transactions /\ NoTx.phase = "none"
BY PlanAssumption DEF NoTx, NoStep, Transactions, StepRow, PlanStates, Revisions

\* In the initial state there is no plan.
LEMMA PlanInit == Init => PlanInv
<1> SUFFICES ASSUME Init PROVE PlanInv
  OBVIOUS
<1> USE DEF Init
<1>1. NoResult \in Results /\ NoStep \in StepRow
  BY PlanAssumption DEF Results, NoResult, NoStep, StepRow, Revisions
<1>2. Types
  BY <1>1, NoTxType DEF Types, PlanStates, Places
<1>3. Table
  BY DEF Table
<1>4. Graph
  BY DEF Graph, GraphOf, Open, Done
<1>5. Work
  BY NoTxType DEF Work, Working
<1>6. PlanStatusAgrees
  BY DEF PlanStatusAgrees
<1>7. QED
  BY <1>2, <1>3, <1>4, <1>5, <1>6 DEF PlanInv

\* A step that leaves the plan and its steps alone: what is left to show.
LEMMA QuietPlan ==
  ASSUME OneInstance, PlanInv, NEW e \in Executors, UNCHANGED <<plan, steps>>, Types',
         at'[e] = "plan" => plan = "none",
         at'[e] \notin {"idle", "plan"} => plan # "none",
         completed'[e] \subseteq Done(steps),
         at'[e] \in Working => \E i \in DOMAIN steps : WorksOn(e, i)',
         tx'[e].phase # "none" =>
           Updating(e)' /\ \E i \in DOMAIN steps : WorksOn(e, i)' /\ tx'[e].row = steps[i],
         tx'[e].phase = "written" =>
           tx'[e].plan = PlanStatus(Written(tx'[e].row, Updates[at'[e]]))
  PROVE  PlanInv'
<1>1. \A d \in Executors : d = e
  BY DEF OneInstance
<1>2. Table'
  BY <1>1 DEF PlanInv, Table
<1>3. Graph'
  BY <1>1 DEF PlanInv, Graph
<1>4. Work'
  BY <1>1 DEF Work, Written
<1>5. PlanStatusAgrees'
  BY DEF PlanInv, PlanStatusAgrees
<1>6. QED
  BY <1>2, <1>3, <1>4, <1>5 DEF PlanInv
\* An executor that is not in a transaction and moves to a place where it works
\* on no step.
LEMMA IdlePlan ==
  ASSUME OneInstance, PlanInv, NEW e \in Executors, UNCHANGED <<plan, steps, completed>>, Types',
         at'[e] = "plan" => plan = "none",
         at'[e] \notin {"idle", "plan"} => plan # "none",
         at'[e] \notin Working, tx'[e].phase = "none"
  PROVE  PlanInv'
<1>1. completed'[e] \subseteq Done(steps)
  BY DEF PlanInv, Graph
<1>2. QED
  BY <1>1, QuietPlan

\* An error return, an expired context or a crash.
LEMMA StopPlan ==
  ASSUME OneInstance, PlanInv, NEW e \in Executors, Stop(e)
  PROVE  PlanInv'
<1>1. UNCHANGED <<plan, steps, completed, saved, revisions, results, output, step>>
  BY DEF Stop, tables, locals
<1>2. at' = [at EXCEPT ![e] = "idle"] /\ tx' = [tx EXCEPT ![e] = NoTx]
  BY DEF Stop
<1>3. Types' /\ at'[e] = "idle" /\ tx'[e] = NoTx
  BY <1>1, <1>2, NoTxType DEF PlanInv, Types, Places
<1>4. tx'[e].phase = "none"
  BY <1>3, NoTxType
<1>5. QED
  BY <1>1, <1>3, <1>4, IdlePlan DEF Working

\* Results that were loaded are results.
LEMMA LoadedType ==
  ASSUME Types, NEW lost
  PROVE  LoadResults(lost) \in [Keys -> Results]
<1>1. NoResult \in Results
  BY DEF Results
<1>2. QED
  BY <1>1 DEF LoadResults, LoadTaskStepResult, Types

\* A result that is set in memory.
LEMMA ResultSet ==
  ASSUME Types, NEW e \in Executors, NEW k \in Keys, NEW v \in Results
  PROVE  /\ [results EXCEPT ![e][k] = v] \in [Executors -> [Keys -> Results]]
         /\ [results EXCEPT ![e][k] = v][e][k] = v
         /\ \A j \in Keys \ {k} : [results EXCEPT ![e][k] = v][e][j] = results[e][j]
<1> DEFINE r == [results[e] EXCEPT ![k] = v]
<1>1. results \in [Executors -> [Keys -> Results]]
  BY DEF Types
<1>2. r \in [Keys -> Results] /\ r[k] = v /\ \A j \in Keys \ {k} : r[j] = results[e][j]
  BY <1>1
<1>3. [results EXCEPT ![e][k] = v] = [results EXCEPT ![e] = r]
  OBVIOUS
<1> HIDE DEF r
<1>4. QED
  BY <1>1, <1>2, <1>3

\* The steps that are done have keys.
LEMMA DoneAreKeys ==
  ASSUME Types
  PROVE  Done(steps) \subseteq Keys /\ \A i \in DOMAIN steps : steps[i].key \in Keys
<1>1. \A i \in DOMAIN steps : steps[i] \in PlanRow
  BY DEF Types
<1>2. \A i \in DOMAIN steps : steps[i].key \in Keys
  BY <1>1 DEF PlanRow
<1>3. QED
  BY <1>2 DEF Done

\* An executor outside of a transaction has none open.
LEMMA NotUpdating ==
  ASSUME PlanInv, NEW e \in Executors, at[e] \notin {"start", "recover", "close", "fail"}
  PROVE  tx[e].phase = "none"
BY UpdatesAre DEF PlanInv, Work, Updating

\* The run reads the plan, if there is one.
LEMMA GetTaskPlanByRequestPlan ==
  ASSUME OneInstance, PlanInv, NEW e \in Executors, GetTaskPlanByRequest(e)
  PROVE  PlanInv'
<1>1. UNCHANGED <<plan, steps, completed, saved, revisions, output, step, tx>>
  BY DEF GetTaskPlanByRequest, tables
<1>2. \/ at' = [at EXCEPT ![e] = "plan"] /\ plan = "none" /\ results' = results
      \/ /\ at' = [at EXCEPT ![e] = "loop"] /\ plan # "none"
         /\ \E lost : results' = [results EXCEPT ![e] = LoadResults(lost)]
  BY DEF GetTaskPlanByRequest
<1>3. results' \in [Executors -> [Keys -> Results]]
  <2>1. \A lost : LoadResults(lost) \in [Keys -> Results]
    BY LoadedType DEF PlanInv
  <2>2. results \in [Executors -> [Keys -> Results]]
    BY DEF PlanInv, Types
  <2>3. QED
    BY <1>2, <2>1, <2>2
<1>4. at' \in [Executors -> Places] /\ at'[e] \in {"plan", "loop"}
      /\ (at'[e] = "plan" => plan = "none") /\ (at'[e] = "loop" => plan # "none")
  BY <1>2 DEF PlanInv, Types, Places
<1>5. Types'
  BY <1>1, <1>3, <1>4 DEF PlanInv, Types
<1>6. tx'[e].phase = "none"
  BY <1>1, NotUpdating DEF GetTaskPlanByRequest
<1>7. QED
  BY <1>1, <1>4, <1>5, <1>6, IdlePlan DEF Working

\* The answer is given.
LEMMA synthesizePlanResultPlan ==
  ASSUME OneInstance, PlanInv, NEW e \in Executors, synthesizePlanResult(e)
  PROVE  PlanInv'
<1>1. UNCHANGED <<plan, steps, completed, saved, revisions, results, output, step, tx>>
  BY DEF synthesizePlanResult, tables, locals
<1>2. at' = [at EXCEPT ![e] = "idle"] /\ at[e] = "loop"
  BY DEF synthesizePlanResult
<1>3. Types' /\ at'[e] = "idle"
  BY <1>1, <1>2 DEF PlanInv, Types, Places
<1>4. tx'[e].phase = "none"
  BY <1>1, <1>2, NotUpdating
<1>5. QED
  BY <1>1, <1>3, <1>4, IdlePlan DEF Working

\* What SelectStep takes: the next step that is ready, pending or running.
LEMMA Selects ==
  ASSUME PlanInv, NEW e \in Executors, SelectStep(e)
  PROVE  \E i \in DOMAIN steps :
           /\ IsNext(steps, i) /\ nextReadyStep(steps) = steps[i] /\ steps[i] \in PlanRow
           /\ step' = [step EXCEPT ![e] = steps[i]]
           /\ steps[i].status \in {"pending", "running"}
           /\ at' = [at EXCEPT ![e] = at'[e]]
           /\ at'[e] \in {"start", "recover", "call"}
           /\ at'[e] = "start" <=> steps[i].status = "pending"
           /\ \/ at'[e] # "recover" /\ UNCHANGED results
              \/ /\ at'[e] = "recover" /\ LoadTaskStepResult(steps[i].key) # NoResult
                 /\ results' = [results EXCEPT ![e][steps[i].key] =
                                   LoadTaskStepResult(steps[i].key)]
           /\ at'[e] = "call" => LoadTaskStepResult(steps[i].key) = NoResult \/ LoadMayFail
<1>1. PICK i \in DOMAIN steps : IsNext(steps, i) /\ nextReadyStep(steps) = steps[i]
  BY NextIsReady DEF SelectStep, PlanInv, Types
<1>2. steps[i] \in PlanRow /\ at \in [Executors -> Places]
  BY DEF PlanInv, Types
<1> DEFINE s == steps[i]
           found == LoadTaskStepResult(s.key)
<1>3. /\ step' = [step EXCEPT ![e] = s]
      /\ \/ /\ s.status = "pending"
            /\ at' = [at EXCEPT ![e] = "start"]
            /\ UNCHANGED results
         \/ /\ s.status = "running" /\ found # NoResult
            /\ at' = [at EXCEPT ![e] = "recover"]
            /\ results' = [results EXCEPT ![e][s.key] = found]
         \/ /\ s.status = "running" /\ (found = NoResult \/ LoadMayFail)
            /\ at' = [at EXCEPT ![e] = "call"]
            /\ UNCHANGED results
  BY <1>1 DEF SelectStep
<1>4. s.status \in {"pending", "running"}
  BY <1>3
<1> HIDE DEF s, found
<1>5. QED
  BY <1>1, <1>2, <1>3, <1>4 DEF s, found

\* SelectStep: the executor works on the next step.
LEMMA SelectStepPlan ==
  ASSUME OneInstance, PlanInv, NEW e \in Executors, SelectStep(e)
  PROVE  PlanInv'
<1>1. PICK i \in DOMAIN steps :
           /\ IsNext(steps, i) /\ nextReadyStep(steps) = steps[i] /\ steps[i] \in PlanRow
           /\ step' = [step EXCEPT ![e] = steps[i]]
           /\ steps[i].status \in {"pending", "running"}
           /\ at' = [at EXCEPT ![e] = at'[e]]
           /\ at'[e] \in {"start", "recover", "call"}
           /\ at'[e] = "start" <=> steps[i].status = "pending"
           /\ \/ at'[e] # "recover" /\ UNCHANGED results
              \/ /\ at'[e] = "recover" /\ LoadTaskStepResult(steps[i].key) # NoResult
                 /\ results' = [results EXCEPT ![e][steps[i].key] =
                                   LoadTaskStepResult(steps[i].key)]
           /\ at'[e] = "call" => LoadTaskStepResult(steps[i].key) = NoResult \/ LoadMayFail
  BY Selects
<1>2. UNCHANGED <<plan, steps, saved, revisions, output, tx>>
  BY DEF SelectStep, tables
<1>3. completed' = [completed EXCEPT ![e] = Done(steps)] /\ at[e] = "loop"
  BY DEF SelectStep
<1>4. steps[i] \in StepRow /\ steps[i].key \in Keys
  BY <1>1 DEF PlanRow, StepRow
<1>5. Done(steps) \subseteq Keys
  BY DoneAreKeys DEF PlanInv
<1>6. LoadTaskStepResult(steps[i].key) \in Results
  BY <1>4 DEF LoadTaskStepResult, PlanInv, Types, Results
<1>7. results' \in [Executors -> [Keys -> Results]]
  <2>1. results \in [Executors -> [Keys -> Results]]
    BY DEF PlanInv, Types
  <2>2. [results EXCEPT ![e][steps[i].key] = LoadTaskStepResult(steps[i].key)]
          \in [Executors -> [Keys -> Results]]
    BY <1>4, <1>6, ResultSet DEF PlanInv
  <2>3. QED
    BY <1>1, <2>1, <2>2
<1>8. at' \in [Executors -> Places]
  BY <1>1 DEF PlanInv, Types, Places
<1>9. Types'
  BY <1>1, <1>2, <1>3, <1>4, <1>5, <1>7, <1>8 DEF PlanInv, Types
<1>10. step'[e] = steps[i] /\ completed'[e] = Done(steps)
  BY <1>1, <1>3 DEF PlanInv, Types
<1>11. WorksOn(e, i)'
  BY <1>1, <1>2, <1>10 DEF WorksOn
<1>12. tx'[e].phase = "none"
  BY <1>2, <1>3, NotUpdating
<1>13. plan # "none"
  BY <1>3 DEF PlanInv, Table
<1>14. QED
  BY <1>1, <1>2, <1>9, <1>10, <1>11, <1>12, <1>13, QuietPlan
\* The step is executed, or fails.
LEMMA InvokePlan ==
  ASSUME OneInstance, PlanInv, NEW e \in Executors, Invoke(e)
  PROVE  PlanInv'
<1>1. UNCHANGED <<plan, steps, saved, revisions, step, completed, results, tx>> /\ at[e] = "call"
  BY DEF Invoke, tables
<1>2. PICK i \in DOMAIN steps : WorksOn(e, i)
  BY <1>1 DEF PlanInv, Work, Working
<1>3. step[e].rev \in Results /\ Blank \in Results
  BY DEF PlanInv, Types, StepRow, Results
<1>4. at' = [at EXCEPT ![e] = at'[e]] /\ at'[e] \in {"save", "fail"}
      /\ (output' = output
          \/ \E out \in {step[e].rev, Blank} : output' = [output EXCEPT ![e] = out])
  <2>1. at \in [Executors -> Places]
    BY DEF PlanInv, Types
  <2>2. CASE /\ at' = [at EXCEPT ![e] = "save"]
             /\ \E out \in {step[e].rev} \cup (IF BlankOutput THEN {Blank} ELSE {}) :
                  output' = [output EXCEPT ![e] = out]
    BY <2>1, <2>2
  <2>3. CASE at' = [at EXCEPT ![e] = "fail"] /\ UNCHANGED output
    BY <2>1, <2>3
  <2>4. QED
    BY <2>2, <2>3 DEF Invoke
<1>5. Types'
  <2>1. output' \in [Executors -> Results]
    <3>1. output \in [Executors -> Results]
      BY DEF PlanInv, Types
    <3>2. QED
      BY <1>3, <1>4, <3>1
  <2>2. at' \in [Executors -> Places]
    <3>1. at \in [Executors -> Places] /\ at'[e] \in Places
      BY <1>4 DEF PlanInv, Types, Places
    <3>2. QED
      BY <1>4, <3>1
  <2>3. QED
    BY <1>1, <2>1, <2>2 DEF PlanInv, Types
<1>6. WorksOn(e, i)'
  BY <1>1, <1>2, <1>4 DEF WorksOn
<1>7. tx'[e].phase = "none"
  BY <1>1, NotUpdating
<1>8. plan # "none" /\ completed'[e] \subseteq Done(steps)
  BY <1>1 DEF PlanInv, Table, Graph
<1>9. QED
  BY <1>1, <1>4, <1>5, <1>6, <1>7, <1>8, QuietPlan

\* The result is saved.
LEMMA SaveTaskStepResultPlan ==
  ASSUME OneInstance, PlanInv, NEW e \in Executors, SaveTaskStepResult(e)
  PROVE  PlanInv'
<1> DEFINE k == step[e].key
<1>1. UNCHANGED <<plan, steps, revisions, step, completed, output, tx>> /\ at[e] = "save"
      /\ at' = [at EXCEPT ![e] = "close"]
      /\ saved' = (IF saved[k] = NoResult THEN [saved EXCEPT ![k] = output[e]] ELSE saved)
      /\ results' = [results EXCEPT ![e][k] = output[e]]
  BY DEF SaveTaskStepResult
<1>2. PICK i \in DOMAIN steps : WorksOn(e, i)
  BY <1>1 DEF PlanInv, Work, Working
<1>3. k \in Keys /\ output[e] \in Results
  BY <1>2, DoneAreKeys DEF PlanInv, Types, WorksOn
<1> HIDE DEF k
<1>4. results' \in [Executors -> [Keys -> Results]]
  BY <1>1, <1>3, ResultSet DEF PlanInv
<1>5. Types' /\ at'[e] = "close"
  BY <1>1, <1>3, <1>4 DEF PlanInv, Types, Places
<1>6. WorksOn(e, i)'
  BY <1>1, <1>2, <1>5 DEF WorksOn
<1>7. tx'[e].phase = "none"
  BY <1>1, NotUpdating
<1>8. plan # "none" /\ completed'[e] \subseteq Done(steps)
  BY <1>1 DEF PlanInv, Table, Graph
<1>9. QED
  BY <1>1, <1>5, <1>6, <1>7, <1>8, QuietPlan

\* UpdateTaskStep reads the row of the step that the executor works on.
LEMMA ReadRowPlan ==
  ASSUME OneInstance, PlanInv, NEW e \in Executors, ReadRow(e)
  PROVE  PlanInv'
<1>1. UNCHANGED <<plan, steps, saved, revisions, at, step, completed, results, output>>
  BY DEF ReadRow, tables, locals
<1>2. PICK j \in Rows(step[e].key) :
        tx' = [tx EXCEPT ![e] = [phase |-> "checked", row |-> steps[j], plan |-> "none"]]
  BY DEF ReadRow
<1>3. at[e] \in Working /\ Updating(e)
  BY UpdatesAre DEF ReadRow, Updating, Working
<1>4. PICK i \in DOMAIN steps : WorksOn(e, i)
  BY <1>3 DEF PlanInv, Work
<1>5. j = i
  BY <1>4 DEF Rows, WorksOn, PlanInv, Table
<1>6. steps[i] \in PlanRow
  BY DEF PlanInv, Types
<1>7. steps[i] \in StepRow
  BY <1>6 DEF PlanRow, StepRow
<1> DEFINE t == [phase |-> "checked", row |-> steps[i], plan |-> "none"]
<1>8. t \in Transactions /\ t.phase = "checked" /\ t.row = steps[i]
  BY <1>7 DEF Transactions, PlanStates
<1>9. tx' = [tx EXCEPT ![e] = t]
  BY <1>2, <1>5
<1> HIDE DEF t
<1>10. Types' /\ tx'[e] = t
  BY <1>1, <1>8, <1>9 DEF PlanInv, Types
<1>11. WorksOn(e, i)' /\ Updating(e)'
  BY <1>1, <1>3, <1>4 DEF WorksOn, Updating
<1>12. plan # "none" /\ completed'[e] \subseteq Done(steps)
  BY <1>1, <1>3 DEF PlanInv, Table, Graph, Working
<1>13. at'[e] # "plan"
  BY <1>1, <1>3 DEF Working
<1>14. QED
  BY <1>1, <1>8, <1>10, <1>11, <1>12, <1>13, QuietPlan

\* The update to failed is given up.
LEMMA IgnoreErrorPlan ==
  ASSUME OneInstance, PlanInv, NEW e \in Executors, IgnoreError(e)
  PROVE  PlanInv'
<1>1. UNCHANGED <<plan, steps, completed, saved, revisions, results, output, step>>
  BY DEF IgnoreError, tables, locals
<1>2. at' = [at EXCEPT ![e] = "replan"] /\ tx' = [tx EXCEPT ![e] = NoTx] /\ at[e] = "fail"
  BY DEF IgnoreError
<1>3. Types' /\ at'[e] = "replan" /\ tx'[e] = NoTx
  BY <1>1, <1>2, NoTxType DEF PlanInv, Types, Places
<1>4. tx'[e].phase = "none" /\ plan # "none"
  BY <1>2, <1>3, NoTxType DEF PlanInv, Table
<1>5. QED
  BY <1>1, <1>3, <1>4, IdlePlan DEF Working

\* What the transaction of an executor is about.
LEMMA InTransaction ==
  ASSUME PlanInv, NEW e \in Executors, tx[e].phase # "none"
  PROVE  /\ at[e] \in {"start", "recover", "close", "fail"}
         /\ plan # "none"
         /\ Updates[at[e]] \in {"running", "done", "failed"}
         /\ \E i \in DOMAIN steps :
              /\ WorksOn(e, i) /\ tx[e].row = steps[i]
              /\ RowSet(Written(tx[e].row, Updates[at[e]]), i, Updates[at[e]])
              /\ steps[i].status \in {"pending", "running"}
<1>1. at[e] \in {"start", "recover", "close", "fail"}
  BY UpdatesAre DEF PlanInv, Work, Updating
<1>2. plan # "none"
  BY <1>1 DEF PlanInv, Table
<1>3. Updates[at[e]] \in {"running", "done", "failed"}
  BY <1>1, UpdatesAre
<1>4. PICK i \in DOMAIN steps : WorksOn(e, i) /\ tx[e].row = steps[i]
  BY DEF PlanInv, Work
<1>5. RowSet(Written(steps[i], Updates[at[e]]), i, Updates[at[e]])
  BY <1>3, WrittenIs DEF PlanInv
<1>6. steps[i].status \in {"pending", "running"}
  BY <1>4 DEF WorksOn
<1>7. QED
  BY <1>1, <1>2, <1>3, <1>4, <1>5, <1>6

\* UpdateTaskStep writes the row and counts.
LEMMA WriteRowPlan ==
  ASSUME OneInstance, PlanInv, NEW e \in Executors, WriteRow(e)
  PROVE  PlanInv'
<1>1. UNCHANGED <<plan, steps, saved, revisions, at, step, completed, results, output>>
      /\ Updating(e) /\ tx[e].phase = "checked"
  BY DEF WriteRow, tables, locals
<1> DEFINE s == PlanStatus(Written(tx[e].row, Updates[at[e]]))
           t == [tx[e] EXCEPT !.phase = "written", !.plan = s]
<1>2. tx[e] \in Transactions
  BY DEF PlanInv, Types
<1>3. PICK i \in DOMAIN steps :
        /\ WorksOn(e, i) /\ tx[e].row = steps[i]
        /\ RowSet(Written(tx[e].row, Updates[at[e]]), i, Updates[at[e]])
  BY <1>1, InTransaction
<1>4. s \in PlanStates
  <2>1. Written(tx[e].row, Updates[at[e]]) \in Seq(PlanRow)
        /\ DOMAIN Written(tx[e].row, Updates[at[e]]) # {}
    BY <1>3 DEF RowSet
  <2>2. Written(tx[e].row, Updates[at[e]]) # <<>>
    BY <2>1
  <2>3. QED
    BY <2>1, <2>2, StatusAgrees
<1> HIDE DEF s
<1>5. t \in Transactions /\ t.phase = "written" /\ t.row = tx[e].row /\ t.plan = s
  BY <1>2, <1>4 DEF Transactions
<1>6. tx' = [tx EXCEPT ![e] = t]
  BY <1>2 DEF WriteRow, s, PlanInv, Types
<1> HIDE DEF t
<1>7. Types' /\ tx'[e] = t
  BY <1>1, <1>5, <1>6 DEF PlanInv, Types
<1>8. WorksOn(e, i)' /\ Updating(e)'
  BY <1>1, <1>3 DEF WorksOn, Updating
<1>9. plan # "none" /\ completed'[e] \subseteq Done(steps) /\ at'[e] # "plan"
  <2>1. plan # "none" /\ at[e] \in {"start", "recover", "close", "fail"}
    BY <1>1, InTransaction
  <2>2. QED
    BY <1>1, <2>1 DEF PlanInv, Graph
<1>10. tx'[e].plan = PlanStatus(Written(tx'[e].row, Updates[at'[e]]))
  BY <1>1, <1>5, <1>7 DEF s
<1>11. QED
  BY <1>1, <1>3, <1>5, <1>7, <1>8, <1>9, <1>10, QuietPlan
\* The plan is created; with one executor there is none before.
LEMMA CreateTaskPlanPlan ==
  ASSUME OneInstance, PlanInv, NEW e \in Executors, CreateTaskPlan(e)
  PROVE  PlanInv'
<1>1. \A d \in Executors : d = e
  BY DEF OneInstance
<1>2. plan = "none" /\ steps = <<>> /\ at[e] = "plan"
  BY DEF CreateTaskPlan, PlanInv, Table
<1>3. PICK p \in generatePlan({}) : plan' = "pending" /\ steps' = toNewTaskSteps(p, 0)
  BY <1>2 DEF CreateTaskPlan
<1>4. UNCHANGED <<saved, revisions, step, completed, output, tx>>
      /\ at' = [at EXCEPT ![e] = "loop"]
      /\ \E lost : results' = [results EXCEPT ![e] = LoadResults(lost)]
  BY DEF CreateTaskPlan
<1>5. 0 \in Revisions
  BY PlanAssumption DEF Revisions
<1>6. /\ steps' \in Seq(PlanRow)
      /\ \A i \in DOMAIN steps' : steps'[i].status = "pending"
      /\ \A i, j \in DOMAIN steps' : steps'[i].key = steps'[j].key => i = j
      /\ 1 \in DOMAIN steps'
  <2>1. /\ toNewTaskSteps(p, 0) \in Seq(PlanRow)
        /\ DOMAIN toNewTaskSteps(p, 0) = DOMAIN p
        /\ \A i \in DOMAIN p : /\ toNewTaskSteps(p, 0)[i].key = p[i].key
                               /\ toNewTaskSteps(p, 0)[i].status = "pending"
        /\ \A i, j \in DOMAIN p : p[i].key = p[j].key => i = j
        /\ Len(p) \in Nat /\ Len(p) >= 2 /\ DOMAIN p = 1..Len(p)
    BY <1>5, NewRows DEF PlanInv
  <2>2. 1 \in DOMAIN p
    BY <2>1
  <2>3. QED
    BY <1>3, <2>1, <2>2
<1>7. Types'
  <2>1. results' \in [Executors -> [Keys -> Results]]
    <3>1. \A lost : LoadResults(lost) \in [Keys -> Results]
      BY LoadedType DEF PlanInv
    <3>2. results \in [Executors -> [Keys -> Results]]
      BY DEF PlanInv, Types
    <3>3. QED
      BY <1>4, <3>1, <3>2
  <2>2. at' \in [Executors -> Places] /\ plan' \in PlanStates
    BY <1>3, <1>4 DEF PlanInv, Types, Places, PlanStates
  <2>3. QED
    BY <1>4, <1>6, <2>1, <2>2 DEF PlanInv, Types
<1>8. at'[e] = "loop" /\ tx'[e].phase = "none"
  BY <1>2, <1>4, NotUpdating DEF PlanInv, Types
<1>9. Table'
  BY <1>1, <1>3, <1>6, <1>8 DEF Table
<1>10. Graph'
  <2>1. GraphOf(steps')
    BY <1>3, <1>5, NewGraph DEF PlanInv
  <2>2. Done(steps) = {}
    BY <1>2 DEF Done
  <2>3. QED
    BY <1>4, <2>1, <2>2 DEF PlanInv, Graph
<1>11. Work'
  BY <1>1, <1>8 DEF Work, Working
<1>12. PlanStatusAgrees'
  BY <1>3, <1>6 DEF PlanStatusAgrees, allPlanStepsDone
<1>13. QED
  BY <1>7, <1>9, <1>10, <1>11, <1>12 DEF PlanInv

\* Steps stay done when a row that is not is written.
LEMMA DoneGrows ==
  ASSUME NEW rows, NEW i \in DOMAIN steps, NEW next, RowSet(rows, i, next),
         steps[i].status # "done"
  PROVE  Done(steps) \subseteq Done(rows)
BY DEF Done, RowSet

\* A step that starts stays the next one.
LEMMA StartedIsNext ==
  ASSUME NEW rows, NEW i \in DOMAIN steps, RowSet(rows, i, "running"),
         steps[i].status = "pending", IsNext(steps, i)
  PROVE  IsNext(rows, i)
<1>1. Done(rows) = Done(steps)
  BY DEF Done, RowSet
<1>2. Ready(rows) = Ready(steps)
  BY <1>1 DEF Ready, RowSet
<1>3. QED
  BY <1>2 DEF IsNext

\* What Commit does: one row gets its new status, the plan the status that goes
\* with it.
LEMMA Commits ==
  ASSUME PlanInv, NEW e \in Executors, Commit(e)
  PROVE  \E i \in DOMAIN steps :
           /\ WorksOn(e, i) /\ steps[i].status \in {"pending", "running"}
           /\ RowSet(steps', i, Updates[at[e]])
           /\ plan' = PlanStatus(steps') /\ steps' # <<>>
           /\ at[e] \in {"start", "recover", "close", "fail"}
           /\ at' = [at EXCEPT ![e] = After[at[e]]] /\ at'[e] = After[at[e]]
           /\ tx' = [tx EXCEPT ![e] = NoTx] /\ tx'[e].phase = "none"
           /\ UNCHANGED <<saved, revisions, step, completed, results, output, answer, kept>>
<1>1. tx[e].phase = "written"
  BY DEF Commit
<1>2. PICK i \in DOMAIN steps :
        /\ WorksOn(e, i) /\ tx[e].row = steps[i]
        /\ RowSet(Written(tx[e].row, Updates[at[e]]), i, Updates[at[e]])
        /\ steps[i].status \in {"pending", "running"}
  BY <1>1, InTransaction
<1>3. at[e] \in {"start", "recover", "close", "fail"}
  BY <1>1, InTransaction
<1>4. steps' = Written(tx[e].row, Updates[at[e]]) /\ plan' = tx[e].plan
      /\ at' = [at EXCEPT ![e] = After[at[e]]] /\ tx' = [tx EXCEPT ![e] = NoTx]
      /\ UNCHANGED <<saved, revisions, step, completed, results, output, answer, kept>>
  BY DEF Commit, locals
<1>5. plan' = PlanStatus(steps')
  BY <1>1, <1>4 DEF PlanInv, Work
<1>6. at'[e] = After[at[e]] /\ tx'[e].phase = "none"
  BY <1>4, NoTxType DEF PlanInv, Types
<1>7. steps' # <<>>
  <2>1. DOMAIN steps' # {}
    BY <1>2, <1>4 DEF RowSet
  <2>2. QED
    BY <2>1
<1>8. QED
  BY <1>2, <1>3, <1>4, <1>5, <1>6, <1>7

\* UpdateTaskStep commits.
LEMMA CommitPlan ==
  ASSUME OneInstance, PlanInv, NEW e \in Executors, Commit(e)
  PROVE  PlanInv'
<1>1. \A d \in Executors : d = e
  BY DEF OneInstance
<1>2. PICK i \in DOMAIN steps :
           /\ WorksOn(e, i) /\ steps[i].status \in {"pending", "running"}
           /\ RowSet(steps', i, Updates[at[e]])
           /\ plan' = PlanStatus(steps') /\ steps' # <<>>
           /\ at[e] \in {"start", "recover", "close", "fail"}
           /\ at' = [at EXCEPT ![e] = After[at[e]]] /\ at'[e] = After[at[e]]
           /\ tx' = [tx EXCEPT ![e] = NoTx] /\ tx'[e].phase = "none"
           /\ UNCHANGED <<saved, revisions, step, completed, results, output, answer, kept>>
  BY Commits
<1>3. steps' \in Seq(PlanRow) /\ DOMAIN steps' = DOMAIN steps
  BY <1>2 DEF RowSet
<1>4. /\ plan' \in PlanStates /\ plan' # "none"
      /\ plan' = "done" <=> allPlanStepsDone(steps')
      /\ plan' = "failed" <=> \E j \in DOMAIN steps' : steps'[j].status = "failed"
  BY <1>2, <1>3, StatusAgrees
<1>5. at'[e] \in {"call", "loop", "replan"} /\ (at'[e] = "call" => at[e] = "start")
  BY <1>2, UpdatesAre
<1>6. Types'
  <2>1. at' \in [Executors -> Places]
    <3>1. at'[e] \in Places /\ at \in [Executors -> Places]
      BY <1>5 DEF Places, PlanInv, Types
    <3>2. QED
      BY <1>2, <3>1
  <2>2. tx' \in [Executors -> Transactions]
    BY <1>2, NoTxType DEF PlanInv, Types
  <2>3. QED
    BY <1>2, <1>3, <1>4, <2>1, <2>2 DEF PlanInv, Types
<1>7. Table'
  <2>1. \A j, k \in DOMAIN steps' : steps'[j].key = steps'[k].key => j = k
    BY <1>2, <1>3 DEF RowSet, PlanInv, Table
  <2>2. QED
    BY <1>1, <1>2, <1>4, <1>5, <2>1 DEF Table
<1>8. Graph'
  <2>1. GraphOf(steps')
    BY <1>2, GraphShrinks DEF PlanInv, Graph
  <2>2. Done(steps) \subseteq Done(steps')
    BY <1>2, DoneGrows
  <2>3. QED
    BY <1>2, <2>1, <2>2 DEF PlanInv, Graph
<1>9. at'[e] = "call" => WorksOn(e, i)'
  <2>1. SUFFICES ASSUME at'[e] = "call" PROVE WorksOn(e, i)'
    OBVIOUS
  <2>2. RowSet(steps', i, "running") /\ steps[i].status = "pending" /\ IsNext(steps, i)
    BY <1>2, <1>5, <2>1, UpdatesAre DEF WorksOn
  <2>3. IsNext(steps', i)
    BY <2>2, StartedIsNext
  <2>4. QED
    BY <1>2, <1>3, <2>1, <2>2, <2>3 DEF WorksOn, RowSet
<1>10. Work'
  BY <1>1, <1>2, <1>3, <1>5, <1>9 DEF Work, Working
<1>11. PlanStatusAgrees'
  BY <1>4 DEF PlanStatusAgrees
<1>12. QED
  BY <1>6, <1>7, <1>8, <1>10, <1>11 DEF PlanInv

\* What ReviseTaskPlan does.
LEMMA Revises ==
  ASSUME PlanInv, NEW e \in Executors, ReviseTaskPlan(e)
  PROVE  /\ RevisionKeeps
         /\ plan' = "pending" /\ revisions' = revisions + 1 /\ revisions' \in Nat
         /\ at[e] = "replan" /\ at' = [at EXCEPT ![e] = "loop"] /\ at'[e] = "loop"
         /\ UNCHANGED <<saved, step, completed, results, output, tx, answer, kept>>
<1>1. PICK p \in generatePlan(completed[e]) :
        KeySet(p) \ Done(steps) # {} /\ steps' \in Revised(p)
  BY DEF ReviseTaskPlan
<1>2. revisions + 1 \in Revisions /\ revisions \in Nat
  BY PlanAssumption DEF ReviseTaskPlan, PlanInv, Types, Revisions
<1>3. completed[e] \in SUBSET Done(steps)
  BY DEF PlanInv, Graph
<1>4. RevisionKeeps
  BY <1>1, <1>2, <1>3, RevisedKeeps DEF PlanInv
<1>5. QED
  BY <1>2, <1>4 DEF ReviseTaskPlan, PlanInv, Types

\* Every step that is done stays done when the plan is revised.
LEMMA RevisionDone ==
  ASSUME RevisionKeeps
  PROVE  Done(steps) \subseteq Done(steps')
<1>1. SUFFICES ASSUME NEW k \in Done(steps) PROVE k \in Done(steps')
  OBVIOUS
<1>2. PICK i \in DOMAIN steps : steps[i].status = "done" /\ steps[i].key = k
  BY DEF Done
<1>3. PICK j \in DOMAIN steps' : steps'[j] = steps[i]
  BY <1>2 DEF RevisionKeeps
<1>4. QED
  BY <1>2, <1>3 DEF Done

\* The plan is revised.
LEMMA ReviseTaskPlanPlan ==
  ASSUME OneInstance, PlanInv, NEW e \in Executors, ReviseTaskPlan(e)
  PROVE  PlanInv'
<1>1. \A d \in Executors : d = e
  BY DEF OneInstance
<1>2. /\ RevisionKeeps
      /\ plan' = "pending" /\ revisions' = revisions + 1 /\ revisions' \in Nat
      /\ at[e] = "replan" /\ at' = [at EXCEPT ![e] = "loop"] /\ at'[e] = "loop"
      /\ UNCHANGED <<saved, step, completed, results, output, tx, answer, kept>>
  BY Revises
<1>3. Types'
  BY <1>2 DEF PlanInv, Types, Places, PlanStates, RevisionKeeps
<1>4. tx'[e].phase = "none"
  BY <1>2, NotUpdating
<1>5. \A i, j \in DOMAIN steps' : steps'[i].key = steps'[j].key => i = j
  BY <1>2 DEF RevisionKeeps
<1>6. PICK x \in DOMAIN steps' : steps'[x].status = "pending"
  BY <1>2 DEF RevisionKeeps
<1>7. Table'
  BY <1>1, <1>2, <1>5, <1>6 DEF Table
<1>8. Graph'
  BY <1>2, RevisionDone DEF PlanInv, Graph, RevisionKeeps
<1>9. Work'
  BY <1>1, <1>2, <1>4 DEF Work, Working
<1>10. PlanStatusAgrees'
  <2>1. \A j \in DOMAIN steps' : steps'[j].status \in {"done", "pending"}
    BY <1>2 DEF RevisionKeeps
  <2>2. QED
    BY <1>2, <1>6, <2>1 DEF PlanStatusAgrees, allPlanStepsDone
<1>11. QED
  BY <1>3, <1>7, <1>8, <1>9, <1>10 DEF PlanInv

\* Every step of the executor keeps PlanInv.
LEMMA PlanNext ==
  ASSUME OneInstance, PlanInv, [Next]_vars
  PROVE  PlanInv'
<1>1. CASE \E e \in Executors : executePlannedTask(e) \/ Stop(e)
  BY <1>1, StopPlan, GetTaskPlanByRequestPlan, CreateTaskPlanPlan, synthesizePlanResultPlan,
     SelectStepPlan, InvokePlan, SaveTaskStepResultPlan, ReadRowPlan, IgnoreErrorPlan,
     WriteRowPlan, CommitPlan, ReviseTaskPlanPlan DEF executePlannedTask
<1>2. CASE UNCHANGED vars
  BY <1>2 DEF vars, PlanInv, Types, Table, Graph, Work, PlanStatusAgrees, WorksOn, Updating,
              Written
<1>3. QED
  BY <1>1, <1>2 DEF Next
-----------------------------------------------------------------------------
(* The results of steps: ResultInv.                                        *)

\* There is one next step.
LEMMA NextIsOne ==
  ASSUME Types, NEW i, NEW j, IsNext(steps, i), IsNext(steps, j)
  PROVE  i = j
<1>1. i \in Nat /\ j \in Nat
  BY DEF IsNext, Ready, Types
<1>2. i <= j /\ j <= i
  BY DEF IsNext
<1>3. QED
  BY <1>1, <1>2

\* The row of a key with a usable result.
LEMMA UsableRow ==
  ASSUME PlanInv, Outcomes, NEW i \in DOMAIN steps, Usable(steps[i].key)
  PROVE  /\ steps[i].rev = saved[steps[i].key]
         /\ steps[i].status = "done" \/ (steps[i].status = "running" /\ IsNext(steps, i))
<1>1. steps[i].key \in Keys
  BY DoneAreKeys DEF PlanInv
<1>2. PICK j \in DOMAIN steps :
         /\ steps[j].key = steps[i].key /\ steps[j].rev = saved[steps[i].key]
         /\ steps[j].status = "done" \/ (steps[j].status = "running" /\ IsNext(steps, j))
  BY <1>1 DEF Outcomes
<1>3. j = i
  BY <1>2 DEF PlanInv, Table
<1>4. QED
  BY <1>2, <1>3

\* While a step without a usable result is the next one, usable results are those
\* of steps that are done.
LEMMA UsableIsDone ==
  ASSUME PlanInv, Outcomes, NEW i \in DOMAIN steps, IsNext(steps, i),
         ~Usable(steps[i].key) \/ steps[i].status = "pending",
         NEW k \in Keys, Usable(k)
  PROVE  /\ \E j \in DOMAIN steps : /\ steps[j].key = k /\ steps[j].rev = saved[k]
                                    /\ steps[j].status = "done"
         /\ k \in Done(steps)
<1>1. PICK j \in DOMAIN steps :
         /\ steps[j].key = k /\ steps[j].rev = saved[k]
         /\ steps[j].status = "done" \/ (steps[j].status = "running" /\ IsNext(steps, j))
  BY DEF Outcomes
<1>2. ~(steps[j].status = "running" /\ IsNext(steps, j))
  BY <1>1, NextIsOne DEF PlanInv
<1>3. steps[j].status = "done"
  BY <1>1, <1>2
<1>4. QED
  BY <1>1, <1>3 DEF Done

\* The results of completed steps.
LEMMA DoneResult ==
  ASSUME PlanInv, Outcomes, NEW i \in DOMAIN steps, steps[i].status = "done",
         saved[steps[i].key] # Blank
  PROVE  Usable(steps[i].key) /\ saved[steps[i].key] = steps[i].rev
<1>1. Usable(steps[i].key)
  BY DEF Outcomes, Usable
<1>2. QED
  BY <1>1, UsableRow

\* Revisions are no markers.
LEMMA RevIsResult ==
  ASSUME NEW r \in Revisions
  PROVE  r # NoResult /\ r # Blank
BY PlanAssumption DEF Revisions, NoResult, Blank

\* Nothing is saved at first.
LEMMA ResultInit == Init => ResultInv
<1> SUFFICES ASSUME Init PROVE ResultInv
  OBVIOUS
<1>1. Outcomes
  BY DEF Init, Outcomes, Usable
<1>2. \A e \in Executors : Knows(e)
  BY DEF Init, Knows
<1>3. AnswerComplete
  BY DEF Init, AnswerComplete
<1>4. QED
  BY <1>1, <1>2, <1>3 DEF ResultInv

\* A step that leaves the steps and the results in the tables alone.
LEMMA QuietResult ==
  ASSUME OneInstance, ResultInv, NEW e \in Executors,
         UNCHANGED <<steps, saved, answer, kept>>, Knows(e)'
  PROVE  ResultInv'
<1>1. \A d \in Executors : d = e
  BY DEF OneInstance
<1>2. Outcomes'
  BY DEF ResultInv, Outcomes, Usable
<1>3. \A d \in Executors : Knows(d)'
  BY <1>1
<1>4. AnswerComplete'
  BY DEF ResultInv, AnswerComplete
<1>5. QED
  BY <1>2, <1>3, <1>4 DEF ResultInv

\* A step that changes the steps or the results while no answer is given.
LEMMA BusyResult ==
  ASSUME OneInstance, NEW e \in Executors, answer' = NoAnswer, Outcomes', Knows(e)'
  PROVE  ResultInv'
<1>1. \A d \in Executors : d = e
  BY DEF OneInstance
<1>2. \A d \in Executors : Knows(d)'
  BY <1>1
<1>3. AnswerComplete'
  BY DEF AnswerComplete
<1>4. QED
  BY <1>2, <1>3 DEF ResultInv

\* Stop.
LEMMA StopResult ==
  ASSUME OneInstance, PlanInv, ResultInv, NEW e \in Executors, Stop(e)
  PROVE  ResultInv'
<1>1. UNCHANGED <<steps, saved, answer, kept>>
  BY DEF Stop, tables
<1>2. at'[e] = "idle"
  BY DEF Stop, PlanInv, Types
<1>3. Knows(e)'
  BY <1>2 DEF Knows
<1>4. QED
  BY <1>1, <1>3, QuietResult

\* The run loads the results of the steps that are done.
LEMMA GetTaskPlanByRequestResult ==
  ASSUME OneInstance, ~LoadMayFail, PlanInv, ResultInv, NEW e \in Executors,
         GetTaskPlanByRequest(e)
  PROVE  ResultInv'
<1>1. UNCHANGED <<steps, saved, answer, kept>> /\ answer = NoAnswer
  BY DEF GetTaskPlanByRequest, tables
<1>2. \/ at' = [at EXCEPT ![e] = "plan"]
      \/ /\ at' = [at EXCEPT ![e] = "loop"]
         /\ results' = [results EXCEPT ![e] = LoadResults({})]
  BY DEF GetTaskPlanByRequest, LostReads
<1>3. CASE at' = [at EXCEPT ![e] = "plan"]
  <2>1. at'[e] = "plan"
    BY <1>3 DEF PlanInv, Types
  <2>2. Knows(e)'
    BY <1>1, <2>1 DEF Knows
  <2>3. QED
    BY <1>1, <2>2, QuietResult
<1>4. CASE /\ at' = [at EXCEPT ![e] = "loop"]
           /\ results' = [results EXCEPT ![e] = LoadResults({})]
  <2>1. at'[e] = "loop" /\ results'[e] = LoadResults({})
    BY <1>4 DEF PlanInv, Types
  <2>2. ASSUME NEW i \in DOMAIN steps, steps[i].status = "done", saved[steps[i].key] # Blank
        PROVE  LoadResults({})[steps[i].key] = steps[i].rev
    <3>1. saved[steps[i].key] = steps[i].rev
      BY <2>2, DoneResult DEF ResultInv
    <3>2. steps[i].key \in Done(steps) /\ steps[i].key \in Keys
      BY <2>2, DoneAreKeys DEF Done, PlanInv
    <3>3. QED
      BY <2>2, <3>1, <3>2 DEF LoadResults, LoadTaskStepResult
  <2>3. Knows(e)'
    BY <1>1, <2>1, <2>2 DEF Knows
  <2>4. QED
    BY <1>1, <2>3, QuietResult
<1>5. QED
  BY <1>2, <1>3, <1>4

\* The first plan: nothing is saved.
LEMMA CreateTaskPlanResult ==
  ASSUME OneInstance, PlanInv, ResultInv, NEW e \in Executors, CreateTaskPlan(e)
  PROVE  ResultInv'
<1>1. plan = "none" /\ steps = <<>> /\ at[e] = "plan"
  BY DEF CreateTaskPlan, PlanInv, Table
<1>2. PICK p \in generatePlan({}) : steps' = toNewTaskSteps(p, 0)
  BY <1>1 DEF CreateTaskPlan
<1>3. UNCHANGED <<saved, answer, kept>> /\ at' = [at EXCEPT ![e] = "loop"]
  BY DEF CreateTaskPlan
<1>4. at'[e] = "loop" /\ answer' = NoAnswer
  BY <1>1, <1>3 DEF PlanInv, Types, ResultInv, Knows
<1>5. \A i \in DOMAIN steps' : steps'[i].status = "pending"
  <2>1. 0 \in Revisions
    BY PlanAssumption DEF Revisions
  <2>2. QED
    BY <1>2, <2>1, NewRows DEF PlanInv
<1>6. \A k \in Keys : ~Usable(k)
  BY <1>1 DEF ResultInv, Outcomes
<1>7. Outcomes'
  BY <1>3, <1>5, <1>6 DEF ResultInv, Outcomes, Usable
<1>8. Knows(e)'
  BY <1>4, <1>5 DEF Knows
<1>9. QED
  BY <1>4, <1>7, <1>8, BusyResult

\* The answer is made of the results in memory.
LEMMA synthesizePlanResultResult ==
  ASSUME OneInstance, PlanInv, ResultInv, NEW e \in Executors, synthesizePlanResult(e)
  PROVE  ResultInv'
<1>1. UNCHANGED <<steps, saved, kept>> /\ answer' = results[e] /\ at[e] = "loop"
      /\ allPlanStepsDone(steps)
  BY DEF synthesizePlanResult, tables
<1>2. at'[e] = "idle"
  BY DEF synthesizePlanResult, PlanInv, Types
<1>3. \A d \in Executors : d = e
  BY DEF OneInstance
<1>4. \A d \in Executors : Knows(d)'
  BY <1>2, <1>3 DEF Knows
<1>5. Outcomes'
  BY <1>1 DEF ResultInv, Outcomes, Usable
<1>6. \A i \in DOMAIN steps : saved[steps[i].key] # Blank =>
         results[e][steps[i].key] = steps[i].rev
  BY <1>1 DEF ResultInv, Knows, allPlanStepsDone
<1>7. AnswerComplete'
  BY <1>1, <1>6 DEF AnswerComplete
<1>8. QED
  BY <1>4, <1>5, <1>7 DEF ResultInv

\* A step with a usable result is recovered, not called.
LEMMA SelectStepResult ==
  ASSUME OneInstance, ~LoadMayFail, PlanInv, ResultInv, NEW e \in Executors, SelectStep(e)
  PROVE  ResultInv'
<1>1. PICK i \in DOMAIN steps :
           /\ IsNext(steps, i) /\ nextReadyStep(steps) = steps[i] /\ steps[i] \in PlanRow
           /\ step' = [step EXCEPT ![e] = steps[i]]
           /\ steps[i].status \in {"pending", "running"}
           /\ at' = [at EXCEPT ![e] = at'[e]]
           /\ at'[e] \in {"start", "recover", "call"}
           /\ at'[e] = "start" <=> steps[i].status = "pending"
           /\ \/ at'[e] # "recover" /\ UNCHANGED results
              \/ /\ at'[e] = "recover" /\ LoadTaskStepResult(steps[i].key) # NoResult
                 /\ results' = [results EXCEPT ![e][steps[i].key] =
                                   LoadTaskStepResult(steps[i].key)]
           /\ at'[e] = "call" => LoadTaskStepResult(steps[i].key) = NoResult \/ LoadMayFail
  BY Selects
<1> DEFINE k == steps[i].key
<1>2. UNCHANGED <<steps, saved, answer, kept>> /\ at[e] = "loop"
  BY DEF SelectStep, tables
<1>3. step'[e] = steps[i] /\ k \in Keys
  BY <1>1, DoneAreKeys DEF PlanInv, Types
<1>4. at'[e] = "call" => ~Usable(k)
  BY <1>1 DEF LoadTaskStepResult, Usable
<1>5. at'[e] = "recover" =>
        /\ Usable(k) /\ saved[k] = steps[i].rev /\ LoadTaskStepResult(k) = saved[k]
        /\ results'[e][k] = steps[i].rev
        /\ \A j \in Keys \ {k} : results'[e][j] = results[e][j]
  <2>1. SUFFICES ASSUME at'[e] = "recover"
                 PROVE  /\ Usable(k) /\ saved[k] = steps[i].rev
                        /\ LoadTaskStepResult(k) = saved[k]
                        /\ results'[e][k] = steps[i].rev
                        /\ \A j \in Keys \ {k} : results'[e][j] = results[e][j]
    OBVIOUS
  <2>2. Usable(k) /\ LoadTaskStepResult(k) = saved[k]
    BY <1>1, <2>1 DEF LoadTaskStepResult, Usable
  <2>3. saved[k] = steps[i].rev
    BY <2>2, UsableRow DEF ResultInv
  <2>4. results' = [results EXCEPT ![e][k] = saved[k]] /\ saved[k] \in Results
    BY <1>1, <1>3, <2>1, <2>2 DEF PlanInv, Types
  <2>5. QED
    BY <1>3, <2>2, <2>3, <2>4, ResultSet DEF PlanInv
<1>6. ASSUME NEW j \in DOMAIN steps, steps[j].status = "done", saved[steps[j].key] # Blank
      PROVE  results'[e][steps[j].key] = steps[j].rev
  <2>1. results[e][steps[j].key] = steps[j].rev
    BY <1>2, <1>6 DEF ResultInv, Knows
  <2>2. steps[j].key # k /\ steps[j].key \in Keys
    BY <1>1, <1>6, DoneAreKeys DEF PlanInv, Table
  <2>3. QED
    BY <1>1, <1>5, <2>1, <2>2
<1>7. answer = NoAnswer
  BY <1>2 DEF ResultInv, Knows
<1>8. Knows(e)'
  <2>1. step'[e].key = k /\ step'[e].rev = steps[i].rev
    BY <1>3
  <2>2. Usable(step[e].key)' <=> Usable(k)
    BY <1>2, <2>1 DEF Usable
  <2> HIDE DEF k
  <2>3. at'[e] \in {"start", "recover", "call"} /\ answer' = NoAnswer
    BY <1>1, <1>2, <1>7
  <2>4. at'[e] = "call" => ~Usable(step[e].key)'
    BY <1>4, <2>2
  <2>5. at'[e] = "recover" =>
          Usable(step[e].key)' /\ results'[e][step'[e].key] = step'[e].rev
    BY <1>5, <2>1, <2>2
  <2>6. \A j \in DOMAIN steps' : steps'[j].status = "done" /\ saved'[steps'[j].key] # Blank =>
           results'[e][steps'[j].key] = steps'[j].rev
    BY <1>2, <1>6
  <2>7. QED
    BY <2>3, <2>4, <2>5, <2>6 DEF Knows
<1>9. QED
  BY <1>2, <1>8, QuietResult
\* The step is carried out, or fails.
LEMMA InvokeResult ==
  ASSUME OneInstance, PlanInv, ResultInv, NEW e \in Executors, Invoke(e)
  PROVE  ResultInv'
<1>1. UNCHANGED <<steps, saved, step, results, answer, kept>> /\ at[e] = "call"
  BY DEF Invoke, tables
<1>2. at'[e] \in {"save", "fail"} /\ (at'[e] = "save" => output'[e] \in {step[e].rev, Blank})
  <2>1. at \in [Executors -> Places] /\ output \in [Executors -> Results]
    BY DEF PlanInv, Types
  <2>2. CASE /\ at' = [at EXCEPT ![e] = "save"]
             /\ \E out \in {step[e].rev} \cup (IF BlankOutput THEN {Blank} ELSE {}) :
                  output' = [output EXCEPT ![e] = out]
    BY <2>1, <2>2
  <2>3. CASE at' = [at EXCEPT ![e] = "fail"]
    BY <2>1, <2>3
  <2>4. QED
    BY <2>2, <2>3 DEF Invoke
<1>3. ~Usable(step[e].key)' /\ answer' = NoAnswer
  BY <1>1 DEF ResultInv, Knows, Usable
<1>4. \A i \in DOMAIN steps' : steps'[i].status = "done" /\ saved'[steps'[i].key] # Blank =>
         results'[e][steps'[i].key] = steps'[i].rev
  BY <1>1 DEF ResultInv, Knows
<1>5. Knows(e)'
  BY <1>1, <1>2, <1>3, <1>4 DEF Knows
<1>6. QED
  BY <1>1, <1>5, QuietResult

\* UpdateTaskStep before it commits: results are left alone.
LEMMA UpdateResult ==
  ASSUME OneInstance, PlanInv, ResultInv, NEW e \in Executors, ReadRow(e) \/ WriteRow(e)
  PROVE  ResultInv'
<1>1. UNCHANGED <<steps, saved, at, step, results, output, answer, kept>>
  BY DEF ReadRow, WriteRow, tables, locals
<1>2. Knows(e)'
  BY <1>1 DEF ResultInv, Knows, Usable
<1>3. QED
  BY <1>1, <1>2, QuietResult

\* The update to failed is given up: no other step than those that are done has a
\* usable result.
LEMMA IgnoreErrorResult ==
  ASSUME OneInstance, PlanInv, ResultInv, NEW e \in Executors, IgnoreError(e)
  PROVE  ResultInv'
<1>1. UNCHANGED <<steps, saved, step, results, output, answer, kept>> /\ at[e] = "fail"
  BY DEF IgnoreError, tables, locals
<1>2. at'[e] = "replan"
  BY DEF IgnoreError, PlanInv, Types
<1>3. PICK i \in DOMAIN steps : WorksOn(e, i)
  BY <1>1 DEF PlanInv, Work, Working
<1>4. ~Usable(steps[i].key) /\ IsNext(steps, i)
  BY <1>1, <1>3 DEF ResultInv, Knows, WorksOn
<1>5. \A k \in Keys : Usable(k) => k \in Done(steps)
  BY <1>4, UsableIsDone DEF ResultInv
<1>6. \A k \in Keys : Usable(k)' => k \in Done(steps')
  BY <1>1, <1>5 DEF Usable
<1>7. answer' = NoAnswer
  BY <1>1 DEF ResultInv, Knows
<1>8. \A j \in DOMAIN steps' : steps'[j].status = "done" /\ saved'[steps'[j].key] # Blank =>
         results'[e][steps'[j].key] = steps'[j].rev
  BY <1>1 DEF ResultInv, Knows
<1>9. Knows(e)'
  BY <1>2, <1>6, <1>7, <1>8 DEF Knows
<1>10. QED
  BY <1>1, <1>9, QuietResult

\* The result is saved under the key of the next step, which is running; a step that
\* is done has another key.
LEMMA SaveTaskStepResultResult ==
  ASSUME OneInstance, PlanInv, ResultInv, NEW e \in Executors, SaveTaskStepResult(e)
  PROVE  ResultInv'
<1>1. UNCHANGED <<steps, step, answer>> /\ at[e] = "save"
      /\ at' = [at EXCEPT ![e] = "close"]
      /\ saved' = (IF saved[step[e].key] = NoResult
                   THEN [saved EXCEPT ![step[e].key] = output[e]] ELSE saved)
      /\ results' = [results EXCEPT ![e][step[e].key] = output[e]]
      /\ kept' = (IF saved'[step[e].key] = Blank THEN kept
                  ELSE kept \cup {<<step[e].key, step[e].rev>>})
  BY DEF SaveTaskStepResult
<1>2. PICK i \in DOMAIN steps : WorksOn(e, i)
  BY <1>1 DEF PlanInv, Work, Working
<1>3. PICK k \in Keys : k = step[e].key
  BY <1>2, DoneAreKeys DEF PlanInv, WorksOn
<1>4. PICK r \in Revisions : r = step[e].rev
  BY DEF PlanInv, Types, StepRow
<1>5. /\ steps[i].key = k /\ steps[i].rev = r /\ steps[i].status = "running"
      /\ IsNext(steps, i)
  BY <1>1, <1>2, <1>3, <1>4 DEF WorksOn
<1>6. ~Usable(k) /\ output[e] \in {r, Blank} /\ answer' = NoAnswer
  BY <1>1, <1>3, <1>4 DEF ResultInv, Knows
<1>7. r # NoResult /\ r # Blank /\ Blank # NoResult
  BY <1>4, RevIsResult DEF Blank, NoResult
<1>8. /\ saved'[k] \in {r, Blank} /\ saved'[k] # NoResult
      /\ saved'[k] # Blank => output[e] = r
      /\ \A j \in Keys \ {k} : saved'[j] = saved[j]
  BY <1>1, <1>3, <1>6, <1>7 DEF Usable, PlanInv, Types
<1>9. results'[e][k] = output[e] /\ \A j \in Keys \ {k} : results'[e][j] = results[e][j]
  <2>1. output[e] \in Results
    BY DEF PlanInv, Types
  <2>2. QED
    BY <1>1, <1>3, <2>1, ResultSet DEF PlanInv
<1>10. \A j \in DOMAIN steps : /\ steps[j].key \in Keys
                               /\ steps[j].status = "done" => steps[j].key # k
  BY <1>5, DoneAreKeys DEF PlanInv, Table
<1>11. Outcomes'
  <2>1. ASSUME NEW j \in Keys, Usable(j)'
        PROVE  \E x \in DOMAIN steps :
                 /\ steps[x].key = j /\ steps[x].rev = saved'[j]
                 /\ steps[x].status = "done" \/ (steps[x].status = "running" /\ IsNext(steps, x))
    <3>1. CASE j = k
      BY <1>5, <1>8, <2>1, <3>1 DEF Usable
    <3>2. CASE j # k
      <4>1. saved'[j] = saved[j] /\ Usable(j)
        BY <1>8, <2>1, <3>2 DEF Usable
      <4>2. QED
        BY <4>1 DEF ResultInv, Outcomes
    <3>3. QED
      BY <3>1, <3>2
  <2>2. \A j \in DOMAIN steps : steps[j].status = "done" => saved'[steps[j].key] # NoResult
    BY <1>8, <1>10 DEF ResultInv, Outcomes
  <2>3. \A x \in kept' : x[1] \in Keys /\ Usable(x[1])'
    <3>1. \A x \in kept : x[1] \in Keys /\ Usable(x[1])'
      BY <1>6, <1>8 DEF ResultInv, Outcomes, Usable
    <3>2. saved'[k] # Blank => Usable(k)'
      BY <1>8 DEF Usable
    <3>3. CASE saved'[k] = Blank
      BY <1>1, <1>3, <3>1, <3>3
    <3>4. CASE saved'[k] # Blank
      <4>1. kept' = kept \cup {<<k, r>>}
        BY <1>1, <1>3, <1>4, <3>4
      <4>2. <<k, r>>[1] = k
        OBVIOUS
      <4>3. QED
        BY <3>1, <3>2, <3>4, <4>1, <4>2
    <3>5. QED
      BY <3>3, <3>4
  <2>4. QED
    BY <1>1, <2>1, <2>2, <2>3 DEF Outcomes
<1>12. Knows(e)'
  <2>1. at'[e] = "close" /\ step'[e].key = k /\ step'[e].rev = r
    BY <1>1, <1>3, <1>4 DEF PlanInv, Types
  <2>2. \A j \in DOMAIN steps : steps[j].status = "done" /\ saved'[steps[j].key] # Blank =>
           results'[e][steps[j].key] = steps[j].rev
    BY <1>1, <1>8, <1>9, <1>10 DEF ResultInv, Knows
  <2>3. saved'[k] # Blank => results'[e][k] = r
    BY <1>8, <1>9
  <2>4. QED
    BY <1>1, <1>6, <1>8, <2>1, <2>2, <2>3 DEF Knows
<1>13. QED
  BY <1>6, <1>11, <1>12, BusyResult
\* A row of the step that the executor works on is written: the rows that were done
\* stay, and if usable results were theirs or that of the row, now done, they still are.
LEMMA CommitResult ==
  ASSUME OneInstance, PlanInv, ResultInv, NEW e \in Executors, Commit(e)
  PROVE  ResultInv'
<1>1. PICK i \in DOMAIN steps :
           /\ WorksOn(e, i) /\ steps[i].status \in {"pending", "running"}
           /\ RowSet(steps', i, Updates[at[e]])
           /\ plan' = PlanStatus(steps') /\ steps' # <<>>
           /\ at[e] \in {"start", "recover", "close", "fail"}
           /\ at' = [at EXCEPT ![e] = After[at[e]]] /\ at'[e] = After[at[e]]
           /\ tx' = [tx EXCEPT ![e] = NoTx] /\ tx'[e].phase = "none"
           /\ UNCHANGED <<saved, revisions, step, completed, results, output, answer, kept>>
  BY Commits
<1>2. UNCHANGED <<saved, step, results, answer, kept>> /\ answer' = NoAnswer
  BY <1>1 DEF ResultInv, Knows
<1>3. /\ DOMAIN steps' = DOMAIN steps
      /\ \A j \in DOMAIN steps \ {i} : steps'[j] = steps[j]
      /\ steps'[i].key = steps[i].key /\ steps'[i].rev = steps[i].rev
      /\ steps'[i].status = Updates[at[e]]
  BY <1>1 DEF RowSet
<1>4. \A j \in DOMAIN steps : steps[j].status = "done" => j # i /\ steps'[j] = steps[j]
  BY <1>1, <1>3
<1>5. /\ steps[i].key = step[e].key /\ steps[i].rev = step[e].rev
      /\ IsNext(steps, i) /\ steps[i].key \in Keys
  BY <1>1, DoneAreKeys DEF WorksOn, PlanInv
<1>6. \A k \in Keys : Usable(k)' <=> Usable(k)
  BY <1>2 DEF Usable
<1>7. \A x \in kept' : x[1] \in Keys /\ Usable(x[1])'
  BY <1>2, <1>6 DEF ResultInv, Outcomes
<1>8. \A j \in DOMAIN steps : steps[j].status = "done" =>
         /\ saved[steps[j].key] # NoResult
         /\ saved[steps[j].key] # Blank => results[e][steps[j].key] = steps[j].rev
  BY <1>1 DEF ResultInv, Outcomes, Knows
<1>9. CASE at[e] \in {"recover", "close"}
  <2>1. steps[i].status = "running" /\ steps'[i].status = "done" /\ at'[e] = "loop"
    BY <1>1, <1>3, <1>9, UpdatesAre DEF WorksOn
  <2>2. /\ saved[steps[i].key] # NoResult
        /\ saved[steps[i].key] # Blank => results[e][steps[i].key] = steps[i].rev
    BY <1>5, <1>9 DEF ResultInv, Knows, Usable
  <2>3. \A j \in DOMAIN steps' : steps'[j].status = "done" =>
           /\ saved[steps'[j].key] # NoResult
           /\ saved[steps'[j].key] # Blank => results[e][steps'[j].key] = steps'[j].rev
    BY <1>3, <1>8, <2>2
  <2>4. ASSUME NEW k \in Keys, Usable(k)
        PROVE  \E j \in DOMAIN steps' : /\ steps'[j].key = k /\ steps'[j].rev = saved[k]
                                        /\ steps'[j].status = "done"
    <3>1. PICK j \in DOMAIN steps :
             /\ steps[j].key = k /\ steps[j].rev = saved[k]
             /\ steps[j].status = "done" \/ (steps[j].status = "running" /\ IsNext(steps, j))
      BY <2>4 DEF ResultInv, Outcomes
    <3>2. CASE steps[j].status = "done"
      BY <1>3, <1>4, <3>1, <3>2
    <3>3. CASE IsNext(steps, j)
      <4>1. j = i
        BY <1>5, <3>3, NextIsOne DEF PlanInv
      <4>2. QED
        BY <1>3, <2>1, <3>1, <4>1
    <3>4. QED
      BY <3>1, <3>2, <3>3
  <2>5. Outcomes'
    BY <1>2, <1>6, <1>7, <2>3, <2>4 DEF Outcomes
  <2>6. Knows(e)'
    BY <1>2, <2>1, <2>3 DEF Knows
  <2>7. QED
    BY <1>2, <2>5, <2>6, BusyResult
<1>10. CASE at[e] \in {"start", "fail"}
  <2>1. /\ steps'[i].status # "done"
        /\ at[e] = "start" => at'[e] = "call" /\ steps[i].status = "pending"
        /\ at[e] = "fail" => at'[e] = "replan"
    BY <1>1, <1>3, <1>10, UpdatesAre DEF WorksOn
  <2>2. \A j \in DOMAIN steps' : steps'[j].status = "done" =>
           /\ saved[steps'[j].key] # NoResult
           /\ saved[steps'[j].key] # Blank => results[e][steps'[j].key] = steps'[j].rev
    BY <1>3, <1>8, <2>1
  <2>3. ~Usable(steps[i].key) \/ steps[i].status = "pending"
    BY <1>5, <1>10, <2>1 DEF ResultInv, Knows
  <2>4. ASSUME NEW k \in Keys, Usable(k)
        PROVE  \E j \in DOMAIN steps' : /\ steps'[j].key = k /\ steps'[j].rev = saved[k]
                                        /\ steps'[j].status = "done"
    <3>1. PICK j \in DOMAIN steps : /\ steps[j].key = k /\ steps[j].rev = saved[k]
                                    /\ steps[j].status = "done"
      BY <1>5, <2>3, <2>4, UsableIsDone DEF ResultInv
    <3>2. QED
      BY <1>3, <1>4, <3>1
  <2>5. Outcomes'
    BY <1>2, <1>6, <1>7, <2>2, <2>4 DEF Outcomes
  <2>6. \A k \in Keys : Usable(k)' => k \in Done(steps')
    BY <1>6, <2>4 DEF Done
  <2>7. at'[e] = "call" => ~Usable(step[e].key)'
    <3>1. SUFFICES ASSUME at'[e] = "call" PROVE ~Usable(steps[i].key)
      BY <1>2, <1>5, <1>6
    <3>2. at[e] = "start" /\ steps[i].status = "pending"
      BY <1>10, <2>1, <3>1
    <3>3. QED
      BY <3>2, UsableRow DEF ResultInv
  <2>8. at'[e] \in {"call", "replan"}
    BY <1>10, <2>1
  <2>9. Knows(e)'
    BY <1>2, <2>2, <2>6, <2>7, <2>8 DEF Knows
  <2>10. QED
    BY <1>2, <2>5, <2>9, BusyResult
<1>11. QED
  BY <1>1, <1>9, <1>10

\* The plan is revised once all usable results are those of steps that are done, which
\* the revision keeps: no new step finds a result under its key.
LEMMA ReviseTaskPlanResult ==
  ASSUME OneInstance, PlanInv, ResultInv, NEW e \in Executors, ReviseTaskPlan(e)
  PROVE  ResultInv'
<1>1. /\ RevisionKeeps
      /\ plan' = "pending" /\ revisions' = revisions + 1 /\ revisions' \in Nat
      /\ at[e] = "replan" /\ at' = [at EXCEPT ![e] = "loop"] /\ at'[e] = "loop"
      /\ UNCHANGED <<saved, step, completed, results, output, tx, answer, kept>>
  BY Revises
<1>2. UNCHANGED <<saved, step, results, answer, kept>> /\ answer' = NoAnswer
  BY <1>1 DEF ResultInv, Knows
<1>3. \A k \in Keys : Usable(k)' <=> Usable(k)
  BY <1>2 DEF Usable
<1>4. \A k \in Keys : Usable(k) => k \in Done(steps)
  BY <1>1 DEF ResultInv, Knows
<1>5. \A j \in DOMAIN steps' : steps'[j].status = "done" =>
        \E i \in DOMAIN steps : steps[i].status = "done" /\ steps'[j] = steps[i]
  BY <1>1 DEF RevisionKeeps
<1>6. \A i \in DOMAIN steps : steps[i].status = "done" =>
         /\ saved[steps[i].key] # NoResult
         /\ saved[steps[i].key] # Blank => results[e][steps[i].key] = steps[i].rev
  BY <1>1 DEF ResultInv, Outcomes, Knows
<1>7. \A j \in DOMAIN steps' : steps'[j].status = "done" =>
         /\ saved[steps'[j].key] # NoResult
         /\ saved[steps'[j].key] # Blank => results[e][steps'[j].key] = steps'[j].rev
  BY <1>5, <1>6
<1>8. ASSUME NEW k \in Keys, Usable(k)
      PROVE  \E j \in DOMAIN steps' : /\ steps'[j].key = k /\ steps'[j].rev = saved[k]
                                      /\ steps'[j].status = "done"
  <2>1. PICK i \in DOMAIN steps : steps[i].key = k /\ steps[i].status = "done"
    BY <1>4, <1>8 DEF Done
  <2>2. steps[i].rev = saved[k]
    BY <1>8, <2>1, UsableRow DEF ResultInv
  <2>3. QED
    BY <1>1, <2>1, <2>2 DEF RevisionKeeps
<1>9. \A x \in kept' : x[1] \in Keys /\ Usable(x[1])'
  BY <1>2, <1>3 DEF ResultInv, Outcomes
<1>10. Outcomes'
  BY <1>2, <1>3, <1>7, <1>8, <1>9 DEF Outcomes
<1>11. Knows(e)'
  BY <1>1, <1>2, <1>7 DEF Knows
<1>12. QED
  BY <1>2, <1>10, <1>11, BusyResult

\* Every step of the executor keeps ResultInv.
LEMMA ResultNext ==
  ASSUME OneInstance, ~LoadMayFail, PlanInv, ResultInv, [Next]_vars
  PROVE  ResultInv'
<1>1. CASE \E e \in Executors : executePlannedTask(e) \/ Stop(e)
  BY <1>1, StopResult, GetTaskPlanByRequestResult, CreateTaskPlanResult,
     synthesizePlanResultResult, SelectStepResult, InvokeResult, SaveTaskStepResultResult,
     UpdateResult, IgnoreErrorResult, CommitResult, ReviseTaskPlanResult DEF executePlannedTask
<1>2. CASE UNCHANGED vars
  <2>1. Outcomes' /\ AnswerComplete'
    BY <1>2 DEF vars, ResultInv, Outcomes, Usable, AnswerComplete
  <2>2. \A e \in Executors : Knows(e)'
    BY <1>2 DEF vars, ResultInv, Knows, Usable
  <2>3. QED
    BY <2>1, <2>2 DEF ResultInv
<1>3. QED
  BY <1>1, <1>2 DEF Next
-----------------------------------------------------------------------------
(* The theorems.                                                           *)

\* With one instance of the service, in every reachable state the row that an open
\* UpdateTaskStep transaction read is still the row in the table and the next ready
\* step, and the steps that are not done depend on each other without a cycle.
THEOREM PlanInvariant ==
  ASSUME OneInstance
  PROVE  Spec => []PlanInv
<1>1. Init => PlanInv
  BY PlanInit
<1>2. PlanInv /\ [Next]_vars => PlanInv'
  BY PlanNext
<1>3. QED
  BY <1>1, <1>2, PTL DEF Spec

\* The plan's own status, which UpdateTaskStep computes from a count of its steps and
\* ReviseTaskPlan resets, always agrees with the steps.
THEOREM PlanStatusAgreesAlways ==
  ASSUME OneInstance
  PROVE  Spec => []PlanStatusAgrees
<1>1. PlanInv => PlanStatusAgrees
  BY DEF PlanInv
<1>2. Spec => []PlanInv
  BY PlanInvariant
<1>3. QED
  BY <1>1, <1>2, PTL

\* executePlannedTask always finds a ready step, until all steps are done or one has
\* failed, and UpdateTaskStep lets it start unless its depends_on names a step twice:
\* the check of the proposals against cycles is enough, for plans of any size and after
\* any number of revisions.
THEOREM NeverStuckAlways ==
  ASSUME OneInstance
  PROVE  Spec => []NeverStuck
<1>1. PlanInv => NeverStuck
  BY SomeReady DEF PlanInv, Graph
<1>2. Spec => []PlanInv
  BY PlanInvariant
<1>3. QED
  BY <1>1, <1>2, PTL

\* No step of the executor loses or changes a row that is done: UpdateTaskStep writes
\* a row that is not, and ReviseTaskPlan keeps those that are.
THEOREM DonePreservedAlways ==
  ASSUME OneInstance
  PROVE  Spec => DonePreserved
<1> DEFINE Kept == \A i \in DOMAIN steps : steps[i].status = "done" =>
                     \E j \in DOMAIN steps' : steps'[j] = steps[i]
<1>1. ASSUME UNCHANGED steps PROVE Kept
  BY <1>1
<1>2. ASSUME PlanInv, Next PROVE Kept
  <2>1. PICK e \in Executors : executePlannedTask(e) \/ Stop(e)
    BY <1>2 DEF Next
  <2>2. CASE Commit(e)
    <3>1. PICK i \in DOMAIN steps :
             /\ WorksOn(e, i) /\ steps[i].status \in {"pending", "running"}
             /\ RowSet(steps', i, Updates[at[e]])
             /\ plan' = PlanStatus(steps') /\ steps' # <<>>
             /\ at[e] \in {"start", "recover", "close", "fail"}
             /\ at' = [at EXCEPT ![e] = After[at[e]]] /\ at'[e] = After[at[e]]
             /\ tx' = [tx EXCEPT ![e] = NoTx] /\ tx'[e].phase = "none"
             /\ UNCHANGED <<saved, revisions, step, completed, results, output, answer, kept>>
      BY <1>2, <2>2, Commits
    <3>2. \A j \in DOMAIN steps : steps[j].status = "done" => steps'[j] = steps[j]
      BY <3>1 DEF RowSet
    <3>3. DOMAIN steps' = DOMAIN steps
      BY <3>1 DEF RowSet
    <3>4. QED
      BY <3>2, <3>3
  <2>3. CASE ReviseTaskPlan(e)
    <3>1. RevisionKeeps
      BY <1>2, <2>3, Revises
    <3>2. QED
      BY <3>1 DEF RevisionKeeps
  <2>4. CASE CreateTaskPlan(e)
    <3>1. steps = <<>>
      BY <1>2, <2>4 DEF CreateTaskPlan, PlanInv, Table
    <3>2. QED
      BY <3>1
  <2>5. CASE Stop(e) \/ GetTaskPlanByRequest(e) \/ synthesizePlanResult(e) \/ SelectStep(e)
             \/ Invoke(e) \/ SaveTaskStepResult(e) \/ ReadRow(e) \/ IgnoreError(e) \/ WriteRow(e)
    <3>1. UNCHANGED steps
      BY <2>5 DEF Stop, GetTaskPlanByRequest, synthesizePlanResult, SelectStep, Invoke,
                  SaveTaskStepResult, ReadRow, IgnoreError, WriteRow, tables
    <3>2. QED
      BY <1>1, <3>1
  <2>6. QED
    BY <2>1, <2>2, <2>3, <2>4, <2>5 DEF executePlannedTask
<1>3. PlanInv /\ [Next]_vars => [Kept]_vars
  BY <1>2
<1>4. Spec => []PlanInv
  BY PlanInvariant
<1>5. Spec => [][Kept]_vars
  <2> HIDE DEF Kept
  <2>1. QED
    BY <1>3, <1>4, PTL DEF Spec
<1>6. QED
  BY <1>5 DEF DonePreserved

\* With one instance, and when reads of results succeed, a usable result always
\* belongs to a step that is done or to the next ready step, and what an executor
\* holds in memory are the results of the steps that are done.
THEOREM ResultInvariant ==
  ASSUME OneInstance, ~LoadMayFail
  PROVE  Spec => []ResultInv
<1>1. Init => ResultInv
  BY ResultInit
<1>2. PlanInv /\ ResultInv /\ [Next]_vars => ResultInv'
  BY ResultNext
<1>3. Spec => []PlanInv
  BY PlanInvariant
<1>4. QED
  BY <1>1, <1>2, <1>3, PTL DEF Spec

\* The answer that synthesizePlanResult gives is made of the result of every step of
\* the plan, of the revision that the step is from, in whatever runs they were executed.
THEOREM AnswerCompleteAlways ==
  ASSUME OneInstance, ~LoadMayFail
  PROVE  Spec => []AnswerComplete
<1>1. ResultInv => AnswerComplete
  BY DEF ResultInv
<1>2. Spec => []ResultInv
  BY ResultInvariant
<1>3. QED
  BY <1>1, <1>2, PTL

\* A step whose result SaveTaskStepResult has saved is not executed again, wherever the
\* run was interrupted.
THEOREM NoRepeatAlways ==
  ASSUME OneInstance, ~LoadMayFail
  PROVE  Spec => NoRepeat
<1> DEFINE Fresh == \A e \in Executors : at[e] = "call" /\ at'[e] \in {"save", "fail"} =>
                      <<step[e].key, step[e].rev>> \notin kept
<1>1. ResultInv => Fresh
  <2>1. SUFFICES ASSUME ResultInv, NEW e \in Executors, at[e] = "call"
                 PROVE  <<step[e].key, step[e].rev>> \notin kept
    OBVIOUS
  <2>2. ~Usable(step[e].key)
    BY <2>1 DEF ResultInv, Knows
  <2>3. <<step[e].key, step[e].rev>>[1] = step[e].key
    OBVIOUS
  <2>4. QED
    BY <2>1, <2>2, <2>3 DEF ResultInv, Outcomes
<1>2. ResultInv /\ [Next]_vars => [Fresh]_vars
  BY <1>1
<1>3. Spec => []ResultInv
  BY ResultInvariant
<1>4. Spec => [][Fresh]_vars
  <2> HIDE DEF Fresh
  <2>1. QED
    BY <1>2, <1>3, PTL DEF Spec
<1>5. QED
  BY <1>4 DEF NoRepeat
=============================================================================
