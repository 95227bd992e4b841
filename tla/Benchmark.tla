------------------------------ MODULE Benchmark ------------------------------
(***************************************************************************)
(* Benchmark runners on one set of business tables: the advisory lock, the *)
(* planned runs one after another, the evaluation that follows each of     *)
(* them, and the results that are rebuilt from the database.               *)
(*                                                                         *)
(* The business tables are known by the run that has reset them and by the *)
(* runs that have written since.  Besides the runners, who take the lock,  *)
(* there are outsiders, who do not: the scripts that run, pause and resume *)
(* one task, and the ones that evaluate a run again.                       *)
(*                                                                         *)
(* What happens inside of a run is RunLifecycle, AgentGraph and            *)
(* ToolOperations; here a tool call writes, or leaves an unresolved        *)
(* operation whose COMMIT may still be on its way.                         *)
(***************************************************************************)
EXTENDS Integers, FiniteSets, Sequences

CONSTANTS Runners,      \* processes that execute a plan, each for an experiment of its own
          Outsiders,    \* processes that execute one task without the lock
          Plans,        \* the plans each runner may be given
          Nobody,       \* no holder of the lock, no run that has reset the tables
          None,         \* no row, no execution, no evaluation
          Budgets       \* bounds: who takes part, how many faults and evaluations by scripts

ASSUME BudgetsAssumption ==
  Budgets \subseteq [processes : SUBSET (Runners \cup Outsiders), faults : Nat, scripts : Nat]

\* BenchmarkRunPlan: what is to be run, how often, when to stop, and which runs to evaluate.
RunPlans ==
  [tasks : Seq(STRING), repetitions : Nat \ {0}, failFast : BOOLEAN,
   policy : {"always", "succeeded_only", "disabled"}]

ASSUME PlansAssumption ==
  \A r \in Runners : \A p \in Plans[r] : p \in RunPlans /\ p.tasks # <<>>

\* len(plan.tasks) * plan.repetitions
PlannedRuns(p) == Len(p.tasks) * p.repetitions

\* expand_benchmark_plan: all tasks of the first repetition, then of the second, ...
Expand(p) ==
  [n \in 1..PlannedRuns(p) |->
     [task |-> p.tasks[((n - 1) % Len(p.tasks)) + 1], repetition |-> ((n - 1) \div Len(p.tasks)) + 1]]

\* A run is known by its process and, in a plan, its sequence number.
RunnerIds(r) == {<<r, n>> : n \in UNION {1..PlannedRuns(p) : p \in Plans[r]}}

Ids == (UNION {RunnerIds(r) : r \in Runners}) \cup {<<o, 1>> : o \in Outsiders}

Worlds == [of : Ids \cup {Nobody}, by : SUBSET Ids]

Terminal == {"succeeded", "failed"}

\* How one execution ended for its runner.  A runtime error does not even know its run.
Executions ==
  [outcome : {"passed", "failed"}, evaluation : {"completed", "skipped"}]
    \cup {[outcome |-> "runtime_error", evaluation |-> "skipped"],
          [outcome |-> "evaluation_error", evaluation |-> "failed"]}

\* The row of evaluation_results.
Evaluations == [tickets : Worlds, mutations : Worlds, passed : BOOLEAN, source : {"live", "persisted"}]

ASSUME NamesAssumption ==
  /\ Runners \cap Outsiders = {}
  /\ Nobody \notin Runners \cup Ids
  /\ None \notin Worlds \cup Executions \cup Evaluations \cup RunPlans \cup {"running"} \cup Terminal

VARIABLES
  lock,         \* the session that holds the advisory lock
  stage,        \* where each process is
  plan,         \* the plan of each runner
  at,           \* the sequence number a runner is at
  execution,    \* what a runner has noted of each planned run
  result,       \* the BenchmarkExperimentResult that run_plan has returned
  row,          \* agent_runs
  world,        \* the business tables
  unresolved,   \* runs with an unresolved tool operation
  open,         \* runs with a COMMIT the server has not decided
  evaluating,   \* evaluations between their first and their last statement
  evaluation,   \* evaluation_results
  \* History, read by properties only.
  hung,         \* runs that ever had an unresolved operation
  final,        \* the business tables when a run reached its terminal status
  lost,         \* runners whose lock connection was lost
  recaptured,   \* runs a script has evaluated with --capture-live-state
  budget        \* what may still happen

planVars == <<plan, at, execution, result>>
operationVars == <<unresolved, open, hung>>
evaluationVars == <<evaluating, evaluation, recaptured>>
historyVars == <<final, lost>>
vars == <<lock, stage, row, world, planVars, operationVars, evaluationVars, historyVars, budget>>

Init ==
  /\ lock = Nobody
  /\ stage = [a \in Runners \cup Outsiders |-> "idle"]
  /\ plan = [r \in Runners |-> None]
  /\ at = [r \in Runners |-> 0]
  /\ execution = [i \in Ids |-> None]
  /\ result = [r \in Runners |-> None]
  /\ row = [i \in Ids |-> None]
  /\ world = [of |-> Nobody, by |-> {}]
  /\ unresolved = {}
  /\ open = {}
  /\ evaluating = [i \in Ids |-> None]
  /\ evaluation = [i \in Ids |-> None]
  /\ hung = {}
  /\ final = [i \in Ids |-> None]
  /\ lost = {}
  /\ recaptured = {}
  /\ budget \in Budgets

\* Something goes wrong.
Fault == budget.faults > 0 /\ budget' = [budget EXCEPT !.faults = @ - 1]

\* A script evaluates a run.
Script == budget.scripts > 0 /\ budget' = [budget EXCEPT !.scripts = @ - 1]

\* The run a process is working on.
Current(a) == IF a \in Runners THEN <<a, at[a]>> ELSE <<a, 1>>

-----------------------------------------------------------------------------
(* The results of an experiment, as the runner returns them and as they are *)
(* rebuilt from the database.                                              *)

\* All runs of an experiment, or those of one task.
Planned(r, tasks) == {<<r, n>> : n \in {k \in 1..PlannedRuns(plan[r]) : Expand(plan[r])[k].task \in tasks}}

Tasks(r) == {plan[r].tasks[k] : k \in 1..Len(plan[r].tasks)}

\* build_experiment_result
Immediate(r, tasks) ==
  LET Noted(S) == Cardinality({i \in Planned(r, tasks) : execution[i] # None /\ execution[i].outcome \in S})
  IN  [executed |-> Noted({"passed", "failed", "runtime_error", "evaluation_error"}),
       passed |-> Noted({"passed"}),
       runtimeErrors |-> Noted({"runtime_error"}),
       evaluationErrors |-> Noted({"evaluation_error"}),
       evaluated |-> Cardinality({i \in Planned(r, tasks) :
                                    execution[i] # None /\ execution[i].evaluation = "completed"})]

\* persisted.passed = (evaluation_passed is True)
PersistedPassed(i) == evaluation[i] # None /\ evaluation[i].passed

\* get_experiment_from_session: the rows of an experiment, here of some of its tasks.
Rows(r, tasks) == {i \in Planned(r, tasks) : row[i] # None}

Counted(runs) ==
  LET Count(P(_)) == Cardinality({i \in runs : P(i)})
  IN  [executed |-> Cardinality(runs),
       terminal |-> Count(LAMBDA i : row[i] \in Terminal),
       succeeded |-> Count(LAMBDA i : row[i] = "succeeded"),
       evaluated |-> Count(LAMBDA i : evaluation[i] # None),
       passed |-> Count(PersistedPassed)]

\* build_persisted_experiment
Persisted(r) == Counted(Rows(r, Tasks(r)))

\* build_task_aggregates, for one task.
TaskAggregate(r, task) == Counted(Rows(r, {task}))

-----------------------------------------------------------------------------
(* The execution lock.                                                     *)

\* Bug: the default factory no_benchmark_execution_lock.
NoLock == TRUE

LockIsFree == lock = Nobody

\* pg_try_advisory_lock answers at once; run_plan expands the plan.
Acquire(r) ==
  /\ stage[r] = "idle"
  /\ r \in budget.processes
  /\ LockIsFree
  /\ \E p \in Plans[r] : plan' = [plan EXCEPT ![r] = p]
  /\ lock' = r
  /\ at' = [at EXCEPT ![r] = 1]
  /\ stage' = [stage EXCEPT ![r] = "next"]
  /\ UNCHANGED <<execution, result, row, world, operationVars, evaluationVars, historyVars, budget>>

\* BenchmarkExecutionLockBusyError
Busy(r) ==
  /\ stage[r] = "idle"
  /\ r \in budget.processes
  /\ ~LockIsFree
  /\ stage' = [stage EXCEPT ![r] = "refused"]
  /\ UNCHANGED <<lock, row, world, planVars, operationVars, evaluationVars, historyVars, budget>>

\* The connection that holds the lock is lost; nothing tells the runner.
LoseLock(r) ==
  /\ Fault
  /\ lock = r
  /\ lock' = Nobody
  /\ lost' = lost \cup {r}
  /\ UNCHANGED <<stage, row, world, final, planVars, operationVars, evaluationVars>>

\* The end of run_plan.  If pg_advisory_unlock says that the lock was not owned, the result is
\* never returned: BenchmarkExecutionLockReleaseError leaves run_plan.
Release(r) ==
  /\ stage[r] = "release"
  /\ IF lock = r
     THEN /\ lock' = Nobody
          /\ result' = [result EXCEPT ![r] = [t \in SUBSET Tasks(r) |-> Immediate(r, t)]]
          /\ stage' = [stage EXCEPT ![r] = "done"]
     ELSE /\ stage' = [stage EXCEPT ![r] = "unreleased"]
          /\ UNCHANGED <<lock, result>>
  /\ UNCHANGED <<plan, at, execution, row, world, operationVars, evaluationVars, historyVars, budget>>

-----------------------------------------------------------------------------
(* Runs: of a runner or of an outsider.  An outsider may pause between two  *)
(* steps, and another process resume it whatever has become of the tables:  *)
(* nothing says when an outsider takes its next step.                      *)

\* assert_business_state_reset_safe
ResetIsSafe == unresolved = {}

\* The deletes of a reset wait for a transaction that has written to the tables.
ResetWaits == open # {}

\* _prepare_run: the reset and the row of the run, in one transaction.
PrepareRun(a) ==
  /\ ResetIsSafe
  /\ ~ResetWaits
  /\ world' = [of |-> Current(a), by |-> {}]
  /\ row' = [row EXCEPT ![Current(a)] = "running"]
  /\ stage' = [stage EXCEPT ![a] = "running"]
  /\ UNCHANGED <<lock, planVars, operationVars, evaluationVars, historyVars>>

Prepare(r) == stage[r] = "next" /\ PrepareRun(r) /\ UNCHANGED budget

PrepareOutside(o) ==
  /\ stage[o] = "idle"
  /\ PrepareRun(o)
  /\ o \in budget.processes
  /\ UNCHANGED budget

\* A tool call of the run.
Write(a) ==
  /\ stage[a] = "running"
  /\ Current(a) \notin world.by
  /\ world' = [world EXCEPT !.by = @ \cup {Current(a)}]
  /\ UNCHANGED <<lock, stage, row, planVars, operationVars, evaluationVars, historyVars, budget>>

\* A tool call that times out during its COMMIT: the operation is unknown, and the run goes on.
Hang(a) ==
  /\ Fault
  /\ stage[a] = "running"
  /\ Current(a) \notin unresolved \cup open
  /\ unresolved' = unresolved \cup {Current(a)}
  /\ open' = open \cup {Current(a)}
  /\ hung' = hung \cup {Current(a)}
  /\ UNCHANGED <<lock, stage, row, world, planVars, evaluationVars, historyVars>>

\* The server decides about that COMMIT.
CommitLands(i) ==
  /\ i \in open
  /\ world' = [world EXCEPT !.by = @ \cup {i}]
  /\ open' = open \ {i}
  /\ UNCHANGED <<lock, stage, row, unresolved, hung, planVars, evaluationVars, historyVars, budget>>

CommitDropped(i) ==
  /\ i \in open
  /\ open' = open \ {i}
  /\ UNCHANGED <<lock, stage, row, world, unresolved, hung, planVars, evaluationVars, historyVars, budget>>

\* UnknownOperationRecoveryService.recover; it does not take operations a crash has left
\* prepared or running.
Recover(i) ==
  /\ i \in unresolved
  /\ stage[i[1]] # "crashed"
  /\ unresolved' = unresolved \ {i}
  /\ UNCHANGED <<lock, stage, row, world, open, hung, planVars, evaluationVars, historyVars, budget>>

\* The verdict of run_benchmark_task, committed by _finalize_result.
Terminate(a) ==
  /\ stage[a] = "running"
  /\ \E s \in Terminal : row' = [row EXCEPT ![Current(a)] = s]
  /\ final' = [final EXCEPT ![Current(a)] = world]
  /\ stage' = [stage EXCEPT ![a] = IF a \in Runners THEN "returned" ELSE "done"]
  /\ UNCHANGED <<lock, world, lost, planVars, operationVars, evaluationVars, budget>>

\* The process is gone, with its session; a tool call under way is never settled.
Crash(r) ==
  /\ Fault
  /\ stage[r] \in {"next", "running", "returned", "evaluating", "release"}
  /\ stage' = [stage EXCEPT ![r] = "crashed"]
  /\ lock' = IF lock = r THEN Nobody ELSE lock
  /\ evaluating' = [evaluating EXCEPT ![Current(r)] = IF stage[r] = "evaluating" THEN None ELSE @]
  /\ \/ UNCHANGED <<operationVars>>
     \/ /\ stage[r] = "running"
        /\ unresolved' = unresolved \cup {Current(r)}
        /\ open' = open \cup {Current(r)}
        /\ hung' = hung \cup {Current(r)}
  /\ UNCHANGED <<row, world, evaluation, recaptured, planVars, historyVars>>

-----------------------------------------------------------------------------
(* The runner.                                                             *)

\* The bottom of the loop of _run_plan_locked.
Ends(r, passed) == at[r] = PlannedRuns(plan[r]) \/ (plan[r].failFast /\ ~passed)

\* executions.append(...)
Note(r, outcome, evaluated) ==
  /\ execution' = [execution EXCEPT ![Current(r)] = [outcome |-> outcome, evaluation |-> evaluated]]
  /\ IF Ends(r, outcome = "passed")
     THEN /\ stage' = [stage EXCEPT ![r] = "release"]
          /\ UNCHANGED at
     ELSE /\ stage' = [stage EXCEPT ![r] = "next"]
          /\ at' = [at EXCEPT ![r] = @ + 1]

\* The run never comes to exist.
NoRun(r) ==
  /\ stage[r] = "next"
  /\ Note(r, "runtime_error", "skipped")
  /\ UNCHANGED <<lock, plan, result, row, world, operationVars, evaluationVars, historyVars>>

\* Bug: a runner that tries again until the operations are settled.
RetriesReset(r) == stage[r] = "next" /\ ~ResetIsSafe /\ UNCHANGED vars

\* BusinessStateResetBlockedError
ResetRefused(r) == ~ResetIsSafe /\ NoRun(r) /\ UNCHANGED budget

\* Any other exception out of _prepare_run.
PrepareRaises(r) == Fault /\ NoRun(r)

\* An exception leaves run_benchmark_task: after _finalize_exception, out of its transaction or
\* out of that of _finalize_result, which may have committed any verdict before it raises.
RunRaises(r) ==
  /\ Fault
  /\ stage[r] = "running"
  /\ \/ /\ \E s \in Terminal : row' = [row EXCEPT ![Current(r)] = s]
        /\ final' = [final EXCEPT ![Current(r)] = world]
     \/ UNCHANGED <<row, final>>
  /\ Note(r, "runtime_error", "skipped")
  /\ UNCHANGED <<lock, plan, result, world, lost, operationVars, evaluationVars>>

\* should_evaluate_runtime_result
ShouldEvaluate(r) ==
  \/ plan[r].policy = "always"
  \/ plan[r].policy = "succeeded_only" /\ row[Current(r)] = "succeeded"

Outcome(passed) == IF passed THEN "passed" ELSE "failed"

SkipEvaluation(r) ==
  /\ stage[r] = "returned"
  /\ ~ShouldEvaluate(r)
  /\ Note(r, Outcome(row[Current(r)] = "succeeded"), "skipped")
  /\ UNCHANGED <<lock, plan, result, row, world, operationVars, evaluationVars, historyVars, budget>>

-----------------------------------------------------------------------------
(* Evaluation: evaluate_run_from_session under the row lock of the run.    *)

\* The statements of capture_from_session see what is committed when each begins; the tickets
\* are read before the mutations.
ReadTickets(i) ==
  /\ evaluating[i] = None
  /\ row[i] \in Terminal
  /\ evaluating' = [evaluating EXCEPT ![i] = world]

\* runtime_passed and the four oracles, whose verdict is open here.
Passed(i, oracles) == row[i] = "succeeded" /\ oracles

\* The rest of a live evaluation: the mutations, the oracles, _persist_report.
PersistLive(i, oracles) ==
  /\ evaluation' = [evaluation EXCEPT ![i] = [tickets |-> evaluating[i], mutations |-> world,
                                              passed |-> Passed(i, oracles), source |-> "live"]]
  /\ evaluating' = [evaluating EXCEPT ![i] = None]

StartEvaluation(r) ==
  /\ stage[r] = "returned"
  /\ ShouldEvaluate(r)
  /\ ReadTickets(Current(r))
  /\ stage' = [stage EXCEPT ![r] = "evaluating"]
  /\ UNCHANGED <<lock, row, world, evaluation, recaptured, planVars, operationVars, historyVars, budget>>

\* Bug: what the oracles found does not count.
RuntimeAlone(r, oracles) == row[Current(r)] = "succeeded"

\* runtime_status == "succeeded" and evaluation_report.passed
ExecutionPassed(r, oracles) == row[Current(r)] = "succeeded" /\ Passed(Current(r), oracles)

FinishEvaluation(r) ==
  /\ stage[r] = "evaluating"
  /\ \E oracles \in BOOLEAN :
       /\ PersistLive(Current(r), oracles)
       /\ Note(r, Outcome(ExecutionPassed(r, oracles)), "completed")
  /\ UNCHANGED <<lock, plan, result, row, world, recaptured, operationVars, historyVars, budget>>

\* evaluate_run raises: nothing is stored, or only the answer to the COMMIT is lost.
EvaluationRaises(r) ==
  /\ Fault
  /\ stage[r] = "evaluating"
  /\ \/ \E oracles \in BOOLEAN : PersistLive(Current(r), oracles)
     \/ /\ evaluating' = [evaluating EXCEPT ![Current(r)] = None]
        /\ UNCHANGED evaluation
  /\ Note(r, "evaluation_error", "failed")
  /\ UNCHANGED <<lock, plan, result, row, world, recaptured, operationVars, historyVars>>

\* The statement under way of an evaluation is a script's, not the runner's.
ByScript(i) == evaluating[i] # None /\ ~(stage[i[1]] = "evaluating" /\ Current(i[1]) = i)

\* resolve_evaluation_state_source
StateSource(i, capture) ==
  IF capture THEN "live"
  ELSE IF evaluation[i] # None THEN "persisted" ELSE "error"

\* evaluate_agent_run.py on any run that is over, with or without --capture-live-state.
StartScript(i, capture) ==
  /\ StateSource(i, capture) = "live"
  /\ ReadTickets(i)
  /\ Script
  /\ recaptured' = IF capture THEN recaptured \cup {i} ELSE recaptured
  /\ UNCHANGED <<lock, stage, row, world, evaluation, planVars, operationVars, historyVars>>

FinishScript(i) ==
  /\ ByScript(i)
  /\ \E oracles \in BOOLEAN : PersistLive(i, oracles)
  /\ UNCHANGED <<lock, stage, row, world, recaptured, planVars, operationVars, historyVars, budget>>

\* The trace is read again, and may have changed by a recovery.
Reevaluate(i) ==
  /\ StateSource(i, FALSE) = "persisted"
  /\ evaluating[i] = None
  /\ Script
  /\ \E oracles \in BOOLEAN :
       evaluation' = [evaluation EXCEPT ![i].passed = Passed(i, oracles), ![i].source = "persisted"]
  /\ UNCHANGED <<lock, stage, row, world, evaluating, recaptured, planVars, operationVars, historyVars>>

-----------------------------------------------------------------------------
RunnerStep(r) ==
  \/ Prepare(r) \/ ResetRefused(r) \/ Terminate(r)
  \/ SkipEvaluation(r) \/ FinishEvaluation(r) \/ Release(r)

Next ==
  \/ \E r \in Runners : \/ Acquire(r) \/ Busy(r) \/ LoseLock(r) \/ Crash(r)
                        \/ RunnerStep(r) \/ StartEvaluation(r)
                        \/ PrepareRaises(r) \/ RunRaises(r) \/ EvaluationRaises(r)
  \/ \E a \in Runners \cup Outsiders : Write(a) \/ Hang(a)
  \/ \E o \in Outsiders : PrepareOutside(o) \/ Terminate(o)
  \/ \E i \in Ids : \/ CommitLands(i) \/ CommitDropped(i) \/ Recover(i)
                    \/ \E capture \in BOOLEAN : StartScript(i, capture)
                    \/ FinishScript(i) \/ Reevaluate(i)

Spec == Init /\ [][Next]_vars

\* A runner goes on, a run ends, the server decides about a COMMIT, an evaluation by a script
\* ends; and a runner that waits for the row lock of its run gets it.
Fairness ==
  /\ \A r \in Runners : WF_vars(RunnerStep(r)) /\ SF_vars(StartEvaluation(r))
  /\ \A i \in Ids : WF_vars(CommitLands(i) \/ CommitDropped(i)) /\ WF_vars(FinishScript(i))

FairSpec == Spec /\ Fairness

-----------------------------------------------------------------------------
\* The shape of every variable; whoever holds the lock is in the middle of a plan.
TypeOK ==
  /\ lock \in Runners \cup {Nobody}
  /\ lock # Nobody => stage[lock] \in {"next", "running", "returned", "evaluating", "release"}
  /\ stage \in [Runners \cup Outsiders -> {"idle", "refused", "next", "running", "returned",
                                           "evaluating", "release", "done", "unreleased", "crashed"}]
  /\ DOMAIN plan = Runners /\ \A r \in Runners : plan[r] \in Plans[r] \cup {None}
  /\ at \in [Runners -> Nat]
  /\ \A r \in Runners : stage[r] \notin {"idle", "refused"} => Current(r) \in Ids /\ plan[r] # None
  /\ execution \in [Ids -> Executions \cup {None}]
  /\ row \in [Ids -> {None, "running"} \cup Terminal]
  /\ world \in Worlds
  /\ unresolved \subseteq Ids /\ open \subseteq hung /\ hung \subseteq Ids
  /\ evaluating \in [Ids -> Worlds \cup {None}]
  /\ evaluation \in [Ids -> Evaluations \cup {None}]
  /\ final \in [Ids -> Worlds \cup {None}]
  /\ lost \subseteq Runners /\ recaptured \subseteq Ids
  /\ budget \in [processes : SUBSET (Runners \cup Outsiders), faults : Nat, scripts : Nat]

\* Runs other than i that have left something in a state of the tables.
Foreign(i, w) == ({w.of} \cup w.by) \ {i}

\* What a runner's evaluation has captured, and keeps when it is repeated from the persisted
\* state, is what its run has left in the tables.  Only a process that works without the lock
\* can have put anything else there: an outsider, or a runner, of either run, whose lock
\* connection was lost.  Without them tickets and mutations are those of the moment the run
\* ended, unless a COMMIT of the run was still on its way
\* (runner.py: the evaluation precedes the next reset; locking.py; evaluator.py:66).
EvaluatedIsOwn ==
  \A i \in Ids :
    (execution[i] # None /\ execution[i].evaluation = "completed" /\ i \notin recaptured) =>
      LET seen == Foreign(i, evaluation[i].tickets) \cup Foreign(i, evaluation[i].mutations)
      IN  /\ i[1] \notin lost => \A j \in seen : j[1] \in Outsiders \cup lost
          /\ (seen = {} /\ i \notin hung) =>
               evaluation[i].tickets = final[i] /\ evaluation[i].mutations = final[i]

\* As long as nobody else evaluates the runs again, the result that run_plan has returned and
\* the one rebuilt from the database agree, for the experiment and for each of its tasks: they
\* differ by the runs that never came to exist, by those that are a runtime_error here and a
\* success there because the COMMIT of their verdict raised, and by the evaluations whose COMMIT
\* was not answered; and the rates of the latter are rates (results.py: calculate_rate raises
\* if not).
ResultsAgree ==
  \A r \in Runners : result[r] # None =>
    LET Agree(tasks, now, stored) ==
          LET runs == Planned(r, tasks)
              untouched == \A i \in runs : i \notin recaptured /\ (evaluation[i] # None => evaluation[i].source = "live")
          IN  untouched =>
                /\ now.executed - now.runtimeErrors <= stored.executed /\ stored.executed <= now.executed
                /\ now.evaluated <= stored.evaluated /\ stored.evaluated <= now.evaluated + now.evaluationErrors
                /\ IF plan[r].policy = "disabled"
                   THEN /\ now.passed <= stored.succeeded /\ stored.succeeded <= now.passed + now.runtimeErrors
                        /\ stored.evaluated = 0
                   ELSE now.passed <= stored.passed /\ stored.passed <= now.passed + now.evaluationErrors
                /\ stored.passed <= stored.evaluated /\ stored.evaluated <= stored.terminal
                /\ now.executed < Cardinality(runs) =>
                     plan[r].failFast /\ \E i \in Ids : i[1] = r /\ execution[i] # None /\ execution[i].outcome # "passed"
    IN  /\ Agree(Tasks(r), result[r][Tasks(r)], Persisted(r))
        /\ \A t \in Tasks(r) : Agree({t}, result[r][{t}], TaskAggregate(r, t))

\* A runner that has taken the lock gives it back, whatever becomes of its runs: operations
\* that are never settled refuse resets and do not hold the plan (runner.py:795).
PlansEnd == \A r \in Runners : lock = r ~> lock # r
=============================================================================
