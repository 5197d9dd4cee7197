------------------------------- MODULE TaskPlan -------------------------------
(***************************************************************************)
(* The agent's plan executor and the tables it works on: one user request, *)
(* its plan, the steps of the plan, and the step results kept in the       *)
(* transcript.  A request may be retried until it is answered; the         *)
(* singleflight group of an instance lets one run at a time, so the        *)
(* executors are the instances of the agent service.                       *)
(*                                                                         *)
(* A step's result is the revision of the plan that wrote the step, so     *)
(* that results of two steps with the same key can be told apart.  Every   *)
(* error return, expired context or crash is the action Stop.              *)
(***************************************************************************)
EXTENDS Integers, Sequences, FiniteSets, SequencesExt

CONSTANTS
  Executors,
  Keys,              \* step keys
  Dependencies,      \* lists of keys a planner may write as depends_on
  maxSteps, maxReplans,
  BlankOutput,       \* may a step be done with an empty output?
  LoadMayFail,       \* may the read of a step result fail?
  MaxRuns,           \* bound of the model: executions of the request
  MaxRevisions       \* bound of the model: revisions of the plan

ASSUME PlanAssumption ==
  /\ Dependencies \subseteq Seq(Keys)
  /\ maxSteps \in Nat \ {0} /\ maxReplans \in Nat \ {0}
  /\ BlankOutput \in BOOLEAN /\ LoadMayFail \in BOOLEAN
  /\ MaxRuns \in Nat /\ MaxRevisions \in Nat

NoResult == -2     \* no row
Blank == -1        \* a row with empty content
NoKey == "none"

VARIABLES
  plan,        \* status of the plan; "none" before it is created
  steps,       \* rows of the plan, by id
  saved,       \* key -> result in the transcript
  revisions,   \* calls of ReviseTaskPlan that succeeded
  runs,
  at,          \* executor -> where executePlannedTask is
  step,        \* executor -> the step it read and works on
  completed,   \* executor -> completedStepKeys of the rows it read with it
  results,     \* executor -> results in memory
  output,      \* executor -> result not yet saved
  replans, iterations,
  tx,          \* executor -> its open UpdateTaskStep transaction
  answer,      \* results the answer was made of
  kept         \* history: steps with a saved result, not empty, as <<key, revision>>

tables == <<plan, steps, saved, revisions>>
locals == <<step, completed, results, output, replans, iterations>>
vars == <<plan, steps, saved, revisions, runs, at, step, completed, results, output,
          replans, iterations, tx, answer, kept>>

Revisions == 0..MaxRevisions
Results == Revisions \cup {NoResult, Blank}
StepRow == [key : Keys \cup {NoKey}, status : {"pending", "running", "done", "failed"},
            deps : Dependencies \cup {<<>>}, rev : Revisions]
NoStep == [key |-> NoKey, status |-> "pending", deps |-> <<>>, rev |-> 0]
NoTx == [phase |-> "none", row |-> NoStep, plan |-> "none"]
NoAnswer == [k \in {} |-> Blank]

TypeOK ==
  /\ plan \in {"none", "pending", "running", "done", "failed"}
  /\ steps \in Seq(StepRow) /\ IsInjective([i \in DOMAIN steps |-> steps[i].key])
  /\ Cardinality({i \in DOMAIN steps : steps[i].status # "done"}) <= maxSteps
  /\ saved \in [Keys -> Results]
  /\ revisions \in Revisions /\ runs \in 0..MaxRuns
  /\ at \in [Executors -> {"idle", "plan", "loop", "start", "recover", "call", "save", "close",
                           "fail", "replan"}]
  /\ step \in [Executors -> StepRow]
  /\ completed \in [Executors -> SUBSET Keys]
  /\ results \in [Executors -> [Keys -> Results]]
  /\ output \in [Executors -> Results]
  /\ replans \in [Executors -> 0..maxReplans] /\ iterations \in [Executors -> Nat]
  /\ \A e \in Executors : tx[e].phase \in {"none", "checked", "written"} /\ tx[e].row \in StepRow
  /\ kept \subseteq Keys \X Revisions

Init ==
  /\ plan = "none" /\ steps = <<>>
  /\ saved = [k \in Keys |-> NoResult]
  /\ revisions = 0 /\ runs = 0
  /\ at = [e \in Executors |-> "idle"]
  /\ step = [e \in Executors |-> NoStep]
  /\ completed = [e \in Executors |-> {}]
  /\ results = [e \in Executors |-> [k \in Keys |-> NoResult]]
  /\ output = [e \in Executors |-> NoResult]
  /\ replans = [e \in Executors |-> 0] /\ iterations = [e \in Executors |-> 0]
  /\ tx = [e \in Executors |-> NoTx]
  /\ answer = NoAnswer /\ kept = {}

-----------------------------------------------------------------------------
(* Proposals of the planner                                                *)

KeySet(p) == {p[i].key : i \in DOMAIN p}
Proposals == UNION {[1..n -> [key : Keys, deps : Dependencies]] : n \in 1..maxSteps}

\* Mutant of Acyclic: no cycle check.
AnyGraph(p) == TRUE

\* What the depth-first search accepts: every set of steps has one without a
\* dependency in the set.
Acyclic(p) ==
  \A S \in (SUBSET DOMAIN p) \ {{}} :
    \E i \in S : \A j \in S : p[j].key \notin Range(p[i].deps)

validatePlanProposal(p, minSteps, done) ==
  /\ Len(p) \in minSteps..maxSteps
  /\ IsInjective([i \in DOMAIN p |-> p[i].key])
  /\ \A i \in DOMAIN p :
       Range(p[i].deps) \subseteq (KeySet(p) \cup done) \ {p[i].key}
  /\ Acyclic(p)

\* generatePlan's answer, or the fallback plan, which is a valid proposal too.
generatePlan(done) == {p \in Proposals : validatePlanProposal(p, 2, done)}

toNewTaskSteps(p, rev) ==
  [i \in DOMAIN p |-> [key |-> p[i].key, status |-> "pending", deps |-> p[i].deps, rev |-> rev]]

-----------------------------------------------------------------------------
(* Reading the plan                                                        *)

Done(rows) == {rows[i].key : i \in {j \in DOMAIN rows : rows[j].status = "done"}}
allPlanStepsDone(rows) == rows # <<>> /\ \A i \in DOMAIN rows : rows[i].status = "done"

Ready(rows) ==
  {i \in DOMAIN rows : /\ rows[i].status \in {"pending", "running"}
                       /\ Range(rows[i].deps) \subseteq Done(rows)}
nextReadyStep(rows) == rows[CHOOSE i \in Ready(rows) : \A j \in Ready(rows) : i <= j]

\* Mutant of LoadTaskStepResult: nothing is found.
LoadNothing(k) == NoResult

\* An empty result is taken for none.
LoadTaskStepResult(k) == IF saved[k] = Blank THEN NoResult ELSE saved[k]

\* Mutant of LoadResults: only what this run does is known.
LoadNone(lost) == [k \in Keys |-> NoResult]

LoadResults(lost) ==
  [k \in Keys |-> IF k \in Done(steps) \ lost THEN LoadTaskStepResult(k) ELSE NoResult]
LostReads == IF LoadMayFail THEN SUBSET Done(steps) ELSE {{}}

-----------------------------------------------------------------------------
(* executePlannedTask                                                      *)

Stop(e) ==
  /\ at[e] # "idle"
  /\ at' = [at EXCEPT ![e] = "idle"]
  /\ tx' = [tx EXCEPT ![e] = NoTx]
  /\ UNCHANGED <<tables, runs, locals, answer, kept>>

GetTaskPlanByRequest(e) ==
  /\ at[e] = "idle" /\ runs < MaxRuns /\ answer = NoAnswer
  /\ runs' = runs + 1
  /\ replans' = [replans EXCEPT ![e] = 0] /\ iterations' = [iterations EXCEPT ![e] = 0]
  /\ \/ /\ plan = "none"
        /\ at' = [at EXCEPT ![e] = "plan"]
        /\ UNCHANGED results
     \/ /\ plan # "none"
        /\ at' = [at EXCEPT ![e] = "loop"]
        /\ \E lost \in LostReads : results' = [results EXCEPT ![e] = LoadResults(lost)]
  /\ UNCHANGED <<tables, step, completed, output, tx, answer, kept>>

\* The unique index on (session_id, request_id) keeps the first plan.
CreateTaskPlan(e) ==
  /\ at[e] = "plan"
  /\ \E p \in generatePlan({}) :
       IF plan = "none" THEN plan' = "pending" /\ steps' = toNewTaskSteps(p, 0)
                        ELSE UNCHANGED <<plan, steps>>
  /\ \E lost \in LostReads : results' = [results EXCEPT ![e] = LoadResults(lost)]
  /\ at' = [at EXCEPT ![e] = "loop"]
  /\ UNCHANGED <<saved, revisions, runs, step, completed, output, replans, iterations, tx,
                 answer, kept>>

IterationLimit == maxSteps * (maxReplans + 1) + maxReplans + 1

synthesizePlanResult(e) ==
  /\ at[e] = "loop" /\ iterations[e] < IterationLimit /\ allPlanStepsDone(steps)
  /\ answer' = results[e]
  /\ at' = [at EXCEPT ![e] = "idle"]
  /\ UNCHANGED <<tables, runs, locals, tx, kept>>

\* Without a ready step, or at the limit, the run ends with an error: Stop.
SelectStep(e) ==
  /\ at[e] = "loop" /\ iterations[e] < IterationLimit
  /\ ~allPlanStepsDone(steps) /\ Ready(steps) # {}
  /\ iterations' = [iterations EXCEPT ![e] = @ + 1]
  /\ completed' = [completed EXCEPT ![e] = Done(steps)]
  /\ LET s == nextReadyStep(steps)
         found == LoadTaskStepResult(s.key)
     IN  /\ step' = [step EXCEPT ![e] = s]
         /\ \/ /\ s.status = "pending"
               /\ at' = [at EXCEPT ![e] = "start"]
               /\ UNCHANGED results
            \/ /\ s.status = "running" /\ found # NoResult
               /\ at' = [at EXCEPT ![e] = "recover"]
               /\ results' = [results EXCEPT ![e][s.key] = found]
            \/ /\ s.status = "running" /\ (found = NoResult \/ LoadMayFail)
               /\ at' = [at EXCEPT ![e] = "call"]
               /\ UNCHANGED results
  /\ UNCHANGED <<tables, runs, output, replans, tx, answer, kept>>

\* The step's ReAct run and the parsing of what it returns.
Invoke(e) ==
  /\ at[e] = "call"
  /\ \/ /\ at' = [at EXCEPT ![e] = "save"]
        /\ \E out \in {step[e].rev} \cup (IF BlankOutput THEN {Blank} ELSE {}) :
             output' = [output EXCEPT ![e] = out]
     \/ /\ at' = [at EXCEPT ![e] = "fail"]
        /\ UNCHANGED output
  /\ UNCHANGED <<tables, runs, step, completed, results, replans, iterations, tx, answer, kept>>

\* A row with the same event key is left as it is.
SaveTaskStepResult(e) ==
  LET k == step[e].key IN
  /\ at[e] = "save"
  /\ saved' = IF saved[k] = NoResult THEN [saved EXCEPT ![k] = output[e]] ELSE saved
  /\ results' = [results EXCEPT ![e][k] = output[e]]
  /\ kept' = IF saved'[k] = Blank THEN kept ELSE kept \cup {<<k, step[e].rev>>}
  /\ at' = [at EXCEPT ![e] = "close"]
  /\ UNCHANGED <<plan, steps, revisions, runs, step, completed, output, replans, iterations,
                 tx, answer>>

-----------------------------------------------------------------------------
(* UpdateTaskStep: a transaction that reads the row, then writes it and    *)
(* counts, then writes the plan and commits.  The read takes no lock.      *)

Updates == [start |-> "running", recover |-> "done", close |-> "done", fail |-> "failed"]
After == [start |-> "call", recover |-> "loop", close |-> "loop", fail |-> "replan"]
Updating(e) == at[e] \in DOMAIN Updates

validTaskTransition(current, next) ==
  \/ current = next
  \/ current = "pending" /\ next \in {"running", "failed"}
  \/ current = "running" /\ next \in {"done", "failed"}

DependenciesComplete(row) ==
  Cardinality(Range(row.deps) \cap Done(steps)) = Len(row.deps)

Rows(k) == {i \in DOMAIN steps : steps[i].key = k}
Allows(row, next) == /\ validTaskTransition(row.status, next)
                     /\ next = "running" => DependenciesComplete(row)

ReadRow(e) ==
  /\ Updating(e) /\ tx[e].phase = "none"
  /\ \E i \in Rows(step[e].key) :
       /\ Allows(steps[i], Updates[at[e]])
       /\ tx' = [tx EXCEPT ![e] = [phase |-> "checked", row |-> steps[i], plan |-> "none"]]
  /\ UNCHANGED <<tables, runs, at, locals, answer, kept>>

\* Only the update to failed is carried on from when it is refused or fails.
IgnoreError(e) ==
  /\ at[e] = "fail"
  /\ tx' = [tx EXCEPT ![e] = NoTx]
  /\ at' = [at EXCEPT ![e] = "replan"]
  /\ UNCHANGED <<tables, runs, locals, answer, kept>>

\* The row is found by its id: a row that was replaced is not written.
Written(row, next) ==
  [i \in DOMAIN steps |->
     IF steps[i].key = row.key /\ steps[i].rev = row.rev
     THEN [steps[i] EXCEPT !.status = next] ELSE steps[i]]

\* Mutant of PlanStatus: the last step decides, also when one has failed.
PlanStatusEager(rows) ==
  IF \A i \in DOMAIN rows : rows[i].status \in {"done", "failed"} THEN "done"
  ELSE IF \E i \in DOMAIN rows : rows[i].status = "failed" THEN "failed" ELSE "running"

PlanStatus(rows) ==
  IF \E i \in DOMAIN rows : rows[i].status = "failed" THEN "failed"
  ELSE IF \A i \in DOMAIN rows : rows[i].status = "done" THEN "done" ELSE "running"

WriteRow(e) ==
  /\ Updating(e) /\ tx[e].phase = "checked"
  /\ \A d \in Executors : tx[d].phase = "written" => tx[d].row.key # tx[e].row.key
  /\ tx' = [tx EXCEPT ![e].phase = "written",
                      ![e].plan = PlanStatus(Written(tx[e].row, Updates[at[e]]))]
  /\ UNCHANGED <<tables, runs, at, locals, answer, kept>>

Commit(e) ==
  /\ Updating(e) /\ tx[e].phase = "written"
  /\ steps' = Written(tx[e].row, Updates[at[e]])
  /\ plan' = tx[e].plan
  /\ tx' = [tx EXCEPT ![e] = NoTx]
  /\ at' = [at EXCEPT ![e] = After[at[e]]]
  /\ UNCHANGED <<saved, revisions, runs, locals, answer, kept>>

-----------------------------------------------------------------------------
(* Replanning                                                              *)

IsDone(row) == row.status = "done"

IsNew(s) == s.key \notin Done(steps)

\* The rows at the positions S, in their order.
InOrder(S) ==
  {f \in [1..Cardinality(S) -> S] : Range(f) = S /\ \A m, n \in DOMAIN f : m < n => f[m] < f[n]}
Select(rows, S) == {[n \in DOMAIN f |-> rows[f[n]]] : f \in InOrder(S)}

\* Mutant of Revised: completed steps are replaced as well.
RevisedAll(p) == {toNewTaskSteps(p, revisions + 1)}

\* The completed steps, and behind them the proposed ones that are not among them.
Revised(p) ==
  LET new == toNewTaskSteps(p, revisions + 1) IN
  {old \o added : old \in Select(steps, {i \in DOMAIN steps : IsDone(steps[i])}),
                 added \in Select(new, {i \in DOMAIN new : IsNew(new[i])})}

\* The deletion waits for rows that are being written.
ReviseTaskPlan(e) ==
  /\ at[e] = "replan" /\ replans[e] < maxReplans /\ revisions < MaxRevisions
  /\ \A d \in Executors : tx[d].phase # "written"
  /\ \E p \in generatePlan(completed[e]) :
       KeySet(p) \ Done(steps) # {} /\ steps' \in Revised(p)
  /\ plan' = "pending" /\ revisions' = revisions + 1
  /\ replans' = [replans EXCEPT ![e] = @ + 1]
  /\ at' = [at EXCEPT ![e] = "loop"]
  /\ UNCHANGED <<saved, runs, step, completed, results, output, iterations, tx, answer, kept>>

executePlannedTask(e) ==
  \/ GetTaskPlanByRequest(e) \/ CreateTaskPlan(e)
  \/ synthesizePlanResult(e) \/ SelectStep(e) \/ Invoke(e) \/ SaveTaskStepResult(e)
  \/ ReadRow(e) \/ IgnoreError(e) \/ WriteRow(e) \/ Commit(e) \/ ReviseTaskPlan(e)

Next == \E e \in Executors : executePlannedTask(e) \/ Stop(e)
Spec == Init /\ [][Next]_vars

-----------------------------------------------------------------------------
(* Properties                                                              *)

\* The plan is done exactly when all its steps are, and failed exactly when one
\* of them is, after every revision and in every run of the request.
PlanStatusAgrees ==
  plan # "none" =>
    /\ plan = "done" <=> allPlanStepsDone(steps)
    /\ plan = "failed" <=> \E i \in DOMAIN steps : steps[i].status = "failed"

\* What the planner may propose, on top of the steps that are done, always
\* leaves a ready step until all are done or one has failed, and UpdateTaskStep
\* agrees that it may start.  The two judge dependencies differently: a step that
\* lists one twice is ready, and refused, as rows are counted against the list.
NeverStuck ==
  steps # <<>> =>
    \/ allPlanStepsDone(steps)
    \/ \E i \in DOMAIN steps : steps[i].status = "failed"
    \/ /\ Ready(steps) # {}
       /\ \A i \in Ready(steps) : IsInjective(steps[i].deps) =>
            steps[i].status = "running" \/ Allows(steps[i], "running")

\* A completed step stays in the plan, completed, through replanning and
\* restarts.
DonePreserved ==
  [][\A i \in DOMAIN steps : steps[i].status = "done" =>
       \E j \in DOMAIN steps' : steps'[j] = steps[i]]_vars

\* A step whose result was saved is not executed again, whatever interrupts
\* the run between saving the result and marking the step done.  (A step with
\* an empty result is: executePlannedTask takes it for one without.)
NoRepeat ==
  [][\A e \in Executors : at[e] = "call" /\ at'[e] \in {"save", "fail"} =>
       <<step[e].key, step[e].rev>> \notin kept]_vars

\* The answer is made of the results of all steps of the plan as it was finally
\* carried out, also of those that earlier runs of the request executed, but
\* for results that were saved empty.
AnswerComplete ==
  answer # NoAnswer =>
    \A i \in DOMAIN steps : LET k == steps[i].key IN
      saved[k] # Blank => answer[k] = steps[i].rev
=============================================================================
