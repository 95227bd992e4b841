# Verification of agent-bench-ops

agent-bench-ops runs LLM agents against simulated IT-operations tasks: a task
resets the business tables (employees, accounts, permissions, tickets), an agent
graph alternates between a model and tool calls, every tool call goes through a
gateway with a persistent operation ledger, runs can be paused at a checkpoint
and resumed by another process, and an evaluation compares the final business
state and the trace with the task's expectations. The TLA+ modules here model
what happens between the transactions of that program: crashes, lost answers,
timeouts, concurrent resumes, recovery, reconciliation, runners that share one set
of tables, and what an evaluation makes of all this.

Paths below are relative to the repository (`app/...`).

## 1. Inventory

| Part | State it keeps | Operations | Talks to |
|---|---|---|---|
| Tool gateway (`app/tools/gateway.py`, `schemas.py`, `registry.py`) | none of its own | `execute`: claim, replay or refuse, mark running, run handler and COMMIT under `asyncio.timeout`, finalize | ledger (own transactions), the caller's session |
| Operation ledger (`app/tools/ledger.py`) | `tool_operations`: status, request, retry and recovery counts | `claim`, `mark_running`, `finalize`, one transaction each | PostgreSQL row locks, unique (run_id, idempotency_key) |
| Unknown-operation recovery (`app/tools/recovery.py`) | the same rows | `recover`: look for the ticket or the mutation an operation should have left | started by an operator |
| Business reset (`app/benchmark/reset.py`) | business tables | safety check on unresolved operations, delete and seed | called by every run that starts |
| Agent runtime (`app/agent/runtime.py`) | `agent_runs`: status, checkpoint_ref, resume markers in `configuration` | prepare, claim a resume, execute a graph segment, pause, finalize | reset, graph, checkpointer |
| Stale-run reconciler (`app/agent/reconciliation.py`) | the same rows | retain, release a resume claim, close a stale run, close inconclusive operations | started by an operator with `older_than` |
| Agent graph and recorder (`app/agent/graph.py`, `nodes.py`, `state.py`, `recorder.py`) | LangGraph checkpoint, `run_steps` | model node, tools node, `start_step`, `finish_step` | model adapter, gateway |
| Business tools (`app/tools/implementations/`, `app/domain/`) | business tables | reads, `create_ticket`, `update_ticket` with optimistic locking | the session the gateway commits |
| Benchmark runner and lock (`app/benchmark/runner.py`, `locking.py`) | session-level advisory lock | expand a plan, run serially, evaluate at once, stop on failure | runtime, evaluation |
| Evaluation (`app/evaluation/`) | `evaluation_results` with a state snapshot | choose live or persisted state, four oracles, persist | business tables, steps, operations |
| Experiment results (`app/benchmark/results.py`) | none | rebuild counts and rates from rows | database |
| Experiment script (`scripts/run_benchmark_experiment.py`) | none of its own | check that the id is unused, run the plan, read back, verify, publish | runner, results, database |
| Task loading, model adapters, API, configuration, other scripts | none that matters here | | |

What is hard, and what makes each part correct:

* **Ledger, gateway, recovery, reset, reconciler.** Three short transactions
  surround one long business transaction, and each of the four can be lost
  separately. Correct means: an operation takes effect at most once; a success is
  never reported for something that did not commit; a failure is only final when
  nothing happened; recovery finds the truth as long as the evidence is there;
  a reset cannot remove evidence that is still needed; a replay never answers
  another request.
* **Runtime and reconciler.** Ownership of a run is a marker in a JSON column that
  outlives the transaction that sets it. Correct means: one executor per run,
  verdicts are final, closed runs are quiet, claims of dead executors expire.
* **Graph and recorder.** A node may be executed again from an older checkpoint.
  Correct means: recorded steps are reused or the run stops, budgets hold.
* **Runner and evaluation.** The business tables are shared by all runs. Correct
  means: what is evaluated is the state the run has produced.
* **Business tools.** A handler reads a ticket, decides, and updates it under READ
  COMMITTED. Correct means: no update is lost, none lands on a row other than the one
  it was decided on, a repeated call answers as the first one did.
* **Oracles.** They judge rows, not events. Correct means: the verdict on the rows is
  the verdict on what has happened, as far as the ledger can have learned of it, and scores and
  verdicts say the same.
* **Results.** The runner's own aggregate and the one rebuilt from the database
  differ by nothing but the failures that come between the two.

* **Experiment script.** It checks its id before it has the lock and reads its results
  after it has given the lock back. Correct means: what it publishes is its own work.

Every hazard found in the source is listed with its line in `PROJECT.json`.

## 2. Plan

| Step | Modules | Status |
|---|---|---|
| 1 | `ToolOperations`, abstract `OperationPromise`, proofs | done |
| 2 | `RunLifecycle`, abstract `RunOwnership`, proofs | done |
| 3 | `AgentGraph`: checkpoints, replay of recorded steps, budgets, on top of the ledger's promise, proofs | done |
| 4 | `TicketTools`: idempotence, optimistic locking, status transitions, proofs | done |
| 5 | `Benchmark`: execution lock, plans, evaluations, results, proofs | done |
| 6 | `Oracles`: the four oracles and the report against the history of a run, proofs | done |
| 7 | `Experiments`: scripts that may share an id, and what they publish, proofs | done |

The modules meet at these seams. `OperationPromise` is implemented by
`ToolOperations` and used by `AgentGraph`. `SegmentsEnd` of `AgentGraph` is what
`RunLifecycle` assumes of a segment, `OneExecutor` of `RunLifecycle` what `AgentGraph`
assumes of its executor. `AtMostOnce` and `ResetSafe` of `ToolOperations` are what
`TicketTools` sees of the gateway: calls of one operation id, and resets only when
the ledger is settled. `Benchmark` takes a tool call as a write or as an operation that
stays unresolved, and a run as `RunLifecycle` ends it; `Oracles` takes the operations of
one run as the ledger leaves them. `Experiments` reduces a run of `Benchmark` to its rows and adds
what comes before and after the lock.

## 3. ToolOperations

`ToolOperations` models `ToolGateway.execute` as the sequence of transactions it
is made of, together with everyone else who writes `tool_operations`. A *call* is
one invocation of `execute` (a coroutine in some process), an *operation* one
ledger row, `(run, idempotency key)`. The action names follow the code:

| Actions | Code |
|---|---|
| `Claim` (`InsertRow`, `CountRetry`), `ClaimFails` | `ledger.claim`, called first by `execute` |
| `Replay` | the answer from an existing row, `_response_from_existing`, and the check that it is the same request |
| `Refuse` | unknown tool, not available, permissions, approval, invalid arguments; the refusal is finalized as well |
| `MarkRunning`, `MarkRunningFails` | `ledger.mark_running` |
| `HandlerCommits`, `HandlerFails`, `AbandonCommit` | handler and COMMIT under `asyncio.timeout` |
| `CommitLands`, `CommitDropped` | the server, once the client has stopped waiting for a COMMIT |
| `ResultArrives`, `ResponseLost`, `CommitReplyRaises` | what the client learns of a COMMIT that took effect |
| `Finalize`, `FinalizeFails` | `_complete`: `ledger.finalize` and the answer |
| `Recover` | `UnknownOperationRecoveryService.recover` |
| `Reset` | `assert_business_state_reset_safe` and `reset_business_state` |
| `ReadStale`, `CloseStale` | the reconciler's unlocked read of the operations and its later write |
| `Crash` | the process is gone, or the call leaves by `CancelledError`, which `except Exception` does not catch |

`Faults` selects what may go wrong: `crash`, `ledger_error` (a ledger transaction
raises), `commit_lost` (COMMIT took effect and raised something other than a
timeout), `late_commit` (COMMIT takes effect after the client gave up). History
variables record commits and executions, nothing reads them but properties.

Facts of the environment the model relies on: a claim inserts a row with a foreign
key to `agent_runs` and waits for a reconciler that holds that row `FOR UPDATE`;
the deletes and locks of a reset wait for a COMMIT that is under way on a row they
touch; the runtime always passes a run id (without one the gateway bypasses the
ledger); no code writes the status `cancelled`.

`OperationPromise` is what a caller may rely on: an operation is opened once, takes
effect at most once, is settled once as done or not done, and done is never said of
an operation without effect. If `Certain`, not done means that there was no effect and
will be none; otherwise the effect may still follow. `ToolOperations` implements
the promise where no operator forces operations closed, and the certain one if `Faults`
leaves COMMIT outcomes certain.

| Run | Question and bounds | Result |
|---|---|---|
| `ops_faults` | three calls, two runs, one idempotency key that different requests share, all faults | `OwnershipInv`, `AtMostOnce`, `SucceededMeansCommitted`, `ReplayOnlySameRequest`, `AnswersAgree`, `SettledIsFinal`, `StrandedForever`, `KeepsPromise` with uncertain failures hold |
| `ops_live` | two calls, all five requests, crashes and ledger errors but COMMIT outcomes certain; resets and forced closing beside calls and recovery; fairness | `AtMostOnce`, `RecoveryVerdictIsTrue`, `FailedMeansNoEffect`, `EvidenceKept`, `EverythingSettles` hold |
| `ops_commit_lost` | a COMMIT that took effect and raised | `FailedMeansNoEffect` is violated (finding) |
| `ops_close_race` | recovery between read and write of the reconciler | `InconclusiveClosesUnknown` is violated (finding) |

Two operations and three calls are enough for the interesting cases: two calls
contend for one operation while the third works on another one, which is what
resets, recovery and the reconciler tell apart; a further call or operation meets
the same rows in the same statuses. A replay is refused because it asks for something else, whatever
that is, so that three requests tell what `ops_faults` asks. `ops_live` has every kind of request.
One of its runs has no checkpoint, so that the reconciler closes it, and any operation with it; two resets
come before and after. Resets, retries and recoveries are bounded by
the constants named in the configurations; the bounds stand in guards. The promise with
certain failures, where COMMIT tells its outcome, is proved (`PromiseKept`) and has no run of its own.

`AtMostOnce` is checked twice because forced closing is where it is most at risk: `close_inconclusive`
records an operation as failed that may well have taken effect.

## 4. RunLifecycle

`RunLifecycle` models `agent_runs` and everyone who writes it. An *executor* is one
invocation of `AgentRuntime.run_benchmark_task` or `resume_benchmark_run`. Every
transaction locks the row (`SELECT ... FOR UPDATE`) and is one action; the graph
in between is reduced to `BeginTool`, `EndTool` and `GraphEnds`, because reset and
reconciler look at the operations of a run.

| Actions | Code |
|---|---|
| `Prepare` | `_prepare_run`, including the reset check on the operations of all runs |
| `Claim` | `_claim_resume` with `validate_resume_configuration` |
| `FinalizeResult`, `RecordPause`, `FinalizeException` | the transaction that ends a segment; none checks ownership |
| `SaveFails` | that transaction raises out of the runtime |
| `ReleaseClaim`, `CloseStale`, `CloseInconclusive` | the decisions of `classify_stale_run` and the writes of `_apply_action` |
| `RecoverUnknown` | the recovery service on the unknown operations of a run |
| `Tick` | the clock |

`created_at` and `resume_started_at` are only ever compared with `now - older_than`,
so the model keeps ages, capped just beyond `OlderThan`. Clock skew between
processes is ignored. `MaxSegment` bounds how long an executor may work from its
start or claim to its last write. **The code does not enforce such a bound**; it
follows only from step budgets and model and tool timeouts, and it has to stay below the
operator's `older_than`. Properties that need it say so: `LeaseOutlivesSegment ==
MaxSegment < OlderThan`.

`RunOwnership` is the protocol behind it: a run is new, owned, paused, lost or over;
it changes hands only by being paused, or lost and reopened; over is final. The
refinement maps `phase` and `owner` to the executors that are at work.

| Run | Question and bounds | Result |
|---|---|---|
| `run_lifecycle` | one run, four executors of two models, one of them without checkpointer, three resumes, all faults, the operator goes on | `LeaseInv`, `OneExecutor`, `ClosedIsQuiet`, `VerdictIsFinal`, `OrphanedForever`, `KeepsOwnership`, `ClaimsExpire`, `AbandonedRunsClose` hold |

One run is enough: runs meet only in the reset check of `Prepare`, which can
only refuse a start, and in their executors, which look idle to one run while they work on another. What
one run goes through among others it can also go through alone. That a reset
is refused because of another run's operation is a matter of `ToolOperations` and `Benchmark`, and the proofs are for
any number of runs. Two executors of one model contend for a claim, the third is of another model and the fourth
has no checkpointer. A released claim needs a second resume to do harm; three let it be released again. One tick of
distance between `MaxSegment` and `OlderThan` is the tightest case allowed.

`OrphanedForever` states something the program does that its operators should
know: a checkpointed run whose process dies before the first pause can be neither
resumed (it is not paused) nor closed (the reconciler retains it for its
checkpoint).

## 5. AgentGraph

`AgentGraph` is one run from the inside: the two nodes of the graph, the steps they
record, and the checkpoints a resumed run starts from. One executor at a time works on
it, which is what `OneExecutor` of `RunLifecycle` says. The executions between
start, pause, crash and resume are *segments*.

| Actions | Code |
|---|---|
| `ModelOverBudget`, `ModelStarts`, `ModelStepRefused` | the beginning of the model node: step budget, `start_step`, its exceptions |
| `ModelAnswers`, `ModelFails`, `ModelWriteFails` | the answer of the model, `finish_step`, `route_after_model` |
| `ToolsOverBudget`, `ToolStarts`, `ToolStepRefused` | the beginning of the tools node and of each call of its batch |
| `CallReplayed`, `ClaimFails`, `CallClaimed`, `CallSucceeds`, `CallFails` | `ToolGateway.execute` as the node sees it |
| `ToolFinishes`, `ToolRaises`, `ToolWriteFails` | the end of a call, of the batch, `route_after_tools` |
| `OperationMoves` | everyone else who settles operations; steps of `OperationPromise` |
| `Pause`, `Finalize`, `FinalizeException` | `_record_pause`, `_finalize_result`, `_finalize_exception` |
| `Crash`, `Resume` | the process is gone; a paused or released run is taken up again |

The tool operations are those of `OperationPromise` with `Certain` false: what
`KeepsPromise` shows of `ToolOperations` is all the graph uses. Nothing forces an open
operation to be settled, so that a call may fail while its operation still takes
effect.

Checkpoints: LangGraph writes a checkpoint after each node while the next node
already runs, and waits for the writes when the graph stops. `durable` is the checkpoint
that is certainly saved, `unsaved` are the later ones; a crash leaves any
of them as the last one. Rows of `run_steps` are committed by transactions of their own and
stay in any case, which is where repeated nodes meet their earlier attempts.

Abstractions: a message is known by its kind, its tool calls and the segment that
produced it, because `add_messages` gives each new message an id that `serialize_message`
records, and a repeated node therefore never produces an equal message; the request of the user, which never
changes, is left out of `messages`. A step number stands for the id of its row.
A tool call is an id and a request; `Batches` is the set of answers a model can
give. `"failed"` stands for every answer of a tool but success,
`"rejected"` is only kept apart where the node or the gateway itself refuses.
A run without checkpointer is a run with `interrupts` false and no resume.

| Run | Question and bounds | Result |
|---|---|---|
| `graph` | three model steps, three tool calls, three segments, all faults, fairness | `TraceIsHistory`, `SuccessIsAnAnswer`, `OperationsAreTraced`, `BudgetsHold`, `SucceededStepsHappened`, `SegmentsEnd` hold |
| `graph_downgrade` | a crash and a failing claim | `CompletedStepsStand` is violated (finding) |

The answers of the model are a final answer, one call, the same id with
another request, and a batch of two; the same id may be asked for in two
batches. Three tool calls let the call budget be exceeded by a batch of two and by a
single call, three model steps let the step budget be reached after two
batches. A run that pauses before two batches needs three segments, and so does
a run that is resumed after a pause, crashes, and repeats the nodes whose checkpoints
were not saved; a fourth segment starts from states of the same kind.

What `TraceIsHistory` does not say: that a resumed run gets anywhere. If a
crash loses the checkpoint after a tools node, and the next model step had already
been started, the repeated tools produce messages that differ from the ones the recorded model
step was given; `start_step` reports a conflict and the run ends with
`agent_model_error`. The property says that this, and never a wrong trace, is the result.

## 6. TicketTools

`TicketTools` models the handlers `create_ticket` and `update_ticket` inside the
transaction that the gateway opens. PostgreSQL runs it READ COMMITTED, and each statement is
an action; a *call* is one execution of a handler, with the operation id of its ledger
row or, when it has no run, without one.

| Actions | Code |
|---|---|
| `Begin` | `ToolGateway.execute` calls the handler |
| `CreateReplays`, `UpdateReplays`, `FindsNothing` | the handler looks for the effect of its own operation first |
| `CheckEmployees`, `InsertTicket` | the rest of `create_ticket`; the INSERT meets the unique `source_operation_id` |
| `ReadTicket` | SELECT of the ticket, version, changes and transition checks, each with its error |
| `UpdateTicket` | the UPDATE by id and version, with the row lock it takes and waits for |
| `CommitUpdate` | the mutation and COMMIT, against the unique operation and the CHECK constraints of `tickets` |
| `Abandon` | timeout or death: the transaction is rolled back |
| `Reset` | `reset_business_state`, which the unresolved operations of the ledger refuse; one step |

| Run | Question and bounds | Result |
|---|---|---|
| `tickets` | three calls of two operations or none, six requests, three seeds, one reset | `MutationLog`, `RepeatedCallsAgree`, `ReplacesWhatItRead`, `TransitionsAllowed` hold |

Two calls contend for a version and the third finds what they have left; two of
them may belong to one operation. One reset replaces the ticket between any two
statements of a call outside the ledger, which is the only one that it does not wait for.

What the model says of the code: the gateway never runs a handler twice for one
operation (`AtMostOnce`), so that the idempotence of the handlers is a second line of
defence, and `RepeatedCallsAgree` shows that it holds on its own. A repeated creation answers with
the ticket as it is now, a repeated update with the snapshot of its mutation. Changes to
`in_progress` and `closed` are allowed by `ALLOWED_STATUS_TRANSITIONS`
and always fail at the CHECK constraint (`domain/tickets.py:31`). A call without a run id is
not protected from resets: the version it has read may be that of another ticket with the
same id, which is why two of the properties speak of calls with an operation.

## 7. Benchmark

`Benchmark` has the processes that share one set of business tables. *Runners*
execute a plan under the advisory lock; *outsiders* are scripts that execute one task
without it, and may pause and be resumed any time later; other scripts evaluate a
run again. The tables are known by the run that has reset them and by the runs that have
written since.

| Actions | Code |
|---|---|
| `Acquire`, `Busy`, `Release` | `postgres_benchmark_execution_lock` around `run_plan` |
| `LoseLock` | the connection of the lock is lost, which its runner does not notice |
| `Prepare`, `PrepareOutside` | `_prepare_run` with its reset |
| `ResetRefused`, `PrepareRaises`, `RunRaises` | the exceptions that become `runtime_error` |
| `Write`, `Hang`, `CommitLands`, `CommitDropped`, `Recover` | a tool call, one that times out in its COMMIT, and what becomes of it |
| `Terminate` | `_finalize_result` |
| `SkipEvaluation`, `StartEvaluation`, `FinishEvaluation`, `EvaluationRaises` | `_execute_run` behind the run; the statements of the capture see different moments |
| `StartScript`, `FinishScript`, `Reevaluate` | `evaluate_agent_run.py`, with and without `--capture-live-state` |
| `Crash` | the process of a runner is gone, and its lock with it |

| Run | Question and bounds | Result |
|---|---|---|
| `benchmark` | two runners and an outsider; plans of one and two tasks, with and without fail-fast, with every policy; up to two faults, one evaluation by a script; fairness | `EvaluatedIsOwn`, `ResultsAgree`, `PlansEnd` hold |

`EvaluatedIsOwn` says what the lock is worth: what an evaluation has captured was left
by its own run, unless a process that works without the lock was there, and a runner whose
connection was lost is one of these. Without them tickets and mutations are those of the
moment the run ended, unless a COMMIT was still on its way. `ResultsAgree` compares the
`BenchmarkExperimentResult` of `run_plan` with what `results.py` rebuilds, for
the experiment and for each task: they differ by runs that never came to exist, by runs whose verdict was
committed by a transaction that raised (under the policy `disabled` such a succeeded run counts
there and not here), and by evaluations that were stored although they raised. `PlansEnd` says that operations
that are never settled fail the runs behind them and do not hold the plan.

The instance lists the combinations of processes and faults that tell something: two
runners with one fault (a lost lock lets the second one in), one runner with two
faults, with a fault and a script, and a runner beside an outsider. Two planned runs are
enough for a reset behind an unresolved operation and for fail-fast. The verdict
of the oracles is a free choice. Each runner has an experiment of its own.

What the model says of the code: when the lock was lost, the result of `run_plan` is replaced by
`BenchmarkExecutionLockReleaseError`, although all runs and evaluations are stored. Under the
policy `disabled` the runner counts succeeded runs as passed, the rebuilt result
counts none. A `runtime_error` does not know its run, which may nevertheless have a row, of any verdict:
`_finalize_result` is awaited outside of the `try` (`runtime.py:380`), so that an exception out of its COMMIT
reaches the runner while the row says `succeeded`.
Runs are never `paused` for a runner. A tool call is one step unless it hangs or the process
dies in it; a late COMMIT is one that a reset waits for.

## 8. Oracles

`Oracles` runs one run with its tool calls one after another, keeps a `log` of what
really happened, and evaluates tasks over the rows that are left: the trace,
temporal, budget and final state oracles and the report as operators of the same names. A
model turn makes one call, so that steps, tokens and calls go together; the fields of
records are names, a path like `result_snapshot.status` being one of them.

| Actions | Code |
|---|---|
| `Call`, `Replay`, `Start`, `Finalize` | `ledger.claim` of a new and of a known operation, `mark_running`, `finalize` |
| `Refuse`, `Succeed`, `Fail`, `TimeOut` | the exits of `ToolGateway.execute` |
| `Commit` (`Effect`) | the transaction of the handler; what comes after it is a step of its own |
| `Leave`, `Land` | an exception or a timeout out of that transaction: before the COMMIT, behind it, or while it is under way and may land later (external) |
| `LedgerFails` | `mark_running` or `finalize` raises and the row stays as it was |
| `Recover`, `Close` | recovery and reconciler settle what is unknown |
| `Crash`, `End`, `Tick` | the process dies between any two steps of a call, the runtime finishes the run, time passes |

| Run | Question and bounds | Result |
|---|---|---|
| `oracles` | two calls of three tools; one repeated call, or one tick, or two clocks one apart; four tasks; all faults | `TraceMatchesHistory`, `TemporalMatchesHistory`, `ScoresMatchVerdicts` hold |

Two operations are what an order of events, an ambiguous match and a missing event need;
a third one repeats these. One tick lets two events have the same time or different ones. Ids of
operations are drawn at random in the code; they are the constant `Ids`, whose order in the run is
not that of the calls. The proofs allow any distinct ids, any skew and any number of repetitions and ticks together.

The log has the calls, how they ended for their caller, the moment each transaction took effect and the moment
a recovery looked. What has *happened* is read from it alone, with the status of the run (`Happened`): an operation
counts as a success if it took effect and its call was answered, or if a recovery looked when the effect was there
(`Learned`); as a failure if its call ended in an exception, or if a timeout was decided and nobody has
found the effect (`Decided`); and as neither while a timeout is open, or when the process or the ledger failed
before the end was recorded. No operation is excused because the reconciler has closed its run. So `TraceMatchesHistory` says what a
`tool_failed` of the trace oracle is worth: its COMMIT may have raised, may have landed after recovery had
looked, or may be one that the reconciler gave up without looking (`reconciliation.py:321`).
A `tool_succeeded` always took effect.

`created_at` is set by the database, `started_at` and `finished_at` by the
application. `TemporalMatchesHistory` shows where this matters: only for a refused
operation, which never started, may the end appear to precede the call. A late verdict stands where the call
ended. A call
that comes back under its key is counted for the tool of its operation, whatever it asked
for, and is no event for temporal rules.
A run that the reconciler closed has no latency, which costs its budget metric.

Python rounds a score as a double: what is in the middle of two numbers of six digits may go either way. The
constant `TieUp` decides it. The run takes half to even, the theorem holds for every choice.

## 9. Experiments

`Experiments` has the processes of `run_benchmark_experiment.py`. Nothing reserves an
experiment id, so that scripts with the same id may both find it unused; they get the lock one after
the other, unless one has lost it. Of a run there are its row, its one tool call, its ticket and its
evaluation; how a script was called and what it has noted, listed and counted are its local variables.

| Actions | Code |
|---|---|
| `CheckUnused` | `resolve_experiment_id`, `assert_experiment_id_unused` |
| `Acquire`, `Busy`, `LoseLock`, `Release` | the lock around `run_plan`; a lost lock makes `run_plan` raise at its end |
| `Prepare`, `Call`, `Terminate` | a run: reset and row, the tool call, the verdict |
| `NoRun`, `RunRaises` | the two kinds of `runtime_error`: without a row, and with a row of any verdict or none yet |
| `Evaluate`, `EvaluationRaises` | `evaluate_run` inside of `_execute_run` |
| `GetExperiment` (`Listing`, `Refuses`) | one statement for all rows; no rows, different plans and more runs than planned are refused |
| `ReadDatabase` (`Answer`) | the four statements of `read_database_verification`, each at its own moment |
| `VerifyExperiment` | `verify_experiment`: `ImmediateIsRight`, `PersistedIsRight`, `DatabaseIsRight` |
| `Crash`, `Recover`, `Reevaluate` | the process is gone; `recovery.py` and `evaluate_agent_run.py` on its runs |

| Run | Question and bounds | Result |
|---|---|---|
| `experiments` | two scripts, the same id or two, plans of two runs with and without fail-fast, up to two incidents | `PublishedIsOwn`, `PublishedOnce`, `OnlyTicketsMislead` hold |
| `experiments_race` | no incident; both scripts check their id before one of them runs | `PublishedStays` is violated (finding) |

`MaxIncidents` counts faults, runs that go otherwise than the script's own scripted model makes them
go, and evaluations by others. Two are what it takes to let a second script in (its lock is lost) and to
let a run disappear or fail under it. With one id, two scripts are all a conflict needs: a third one
adds rows, which only makes more of them refused. One repetition is two runs, one that looks up and
one that creates a ticket. The verdict of the oracles is a free choice, except that they require
the call to have succeeded. A call that has not succeeded (failed, unknown, or still running because the ledger
could not record its end) may or may not have left its ticket; only unknown calls are recovered. The runs have checkpoints, so the reconciler keeps them and has no action.

That `PublishedIsOwn` holds is not obvious from the script: if a script has lost its lock, or
none of its runs came to exist, what it reads back may be another script's experiment, complete,
passed and of the same size. Each of the comparisons is needed somewhere; the one with the outcomes that
`run_plan` has returned is what makes rows of others show up as too many.

`OnlyTicketsMislead` is about the opposite mistake. The verification reads after the lock has been given
back, so that the reset of the next runner may take away, or a run of it replace, the one ticket it
asserts to be there; then an experiment all of whose runs have passed is turned down, without any
incident. The invariant says that this is the only way: the counts of runs, evaluations and tool operations
are filtered by the id and are right for such an experiment at whatever moment they are read.

## 10. Fairness

* Coroutines are run by the event loop and tool handlers end by `asyncio.timeout`:
  weak fairness of the steps of a call, except the ones that are faults.
* A graph segment ends: `SegmentsEnd` of `AgentGraph`, from weak fairness of the two nodes and
  of the runtime that waits for them, without any assumption on operations, crashes
  or resumes. `RunLifecycle` uses it as strong fairness of `GraphEnds`, which
  is disabled while a tool call is going on.
* Recovery and reconciliation are started by an operator. The liveness runs assume
  that the operator keeps doing so; nothing in the program does it alone.
* Time passes: weak fairness of `Tick`.
* A runner of `Benchmark` goes on, as its loop does: weak fairness of its next step. The
  server decides about a COMMIT and the evaluation of a script ends: weak fairness. An
  evaluation waits for the row lock of its run behind others, and PostgreSQL grants
  it in turn: strong fairness of `StartEvaluation`.
* `Experiments` has no liveness property and no fairness: its scripts end, or do not, as
  the runners of `Benchmark` do.
* No fairness for crashes, faults, resets, claims or new calls.

## 11. What is proved

TLAPS checks the theorems for every value of the constants that the named
assumptions allow (`ASSUME` in the component modules: kinds of faults, bounds in
`Nat`). Type correctness is a theorem for each component (of `Oracles` it is the conjunct `Shape` of
`OracleInv`), and no run of its own asks for it; the runs that check `OwnershipInv` and `LeaseInv` check
the types as parts of them.

`ToolOperationsProofs`: `TypeCorrect`, `Ownership`, `EffectAtMostOnce`,
`SuccessIsCommitted`, `EvidenceSurvives`. `AtMostOnce` is not inductive: that
a second call cannot run the handler follows from what the first call's stage says
about its ledger row, and that a row which stays prepared or running belongs to
at most one call. `OwnershipInv` states exactly this: which call owns an operation, what its
stage implies for the row and the commits, and which rows may still have a COMMIT
under way. Each action is shown to keep it, the theorems follow.

The second part of `ToolOperationsProofs` is about what is recorded and answered. `OutcomeInv` adds to `OwnershipInv`
that a reconciler has read only what an operator wants closed (`ForcedOnly`), that a replay was
answered from a row of its own request (`ReplayedRows`; a row keeps its request),
that a final answer is the status of the row it was written to or read from
(`RecordedAnswers`), what a recovery has decided (`Verdicts`) and that a call which is
about to record a failure knows that nothing has committed (`KnownFailures`).
None of the properties is inductive without them: an answer is given long after, or before, the
row gets the status it must agree with. What each theorem needs beside the names:

| Theorem | Property | Needs |
|---|---|---|
| `ReplaysAnswerTheirRequest`, `StrandedOperationsStay` | `ReplayOnlySameRequest`, `StrandedForever` | nothing: all faults, all operations closed by force |
| `SettledUnlessForced` | `SettledIsFinal` for operations that nobody closes by force | nothing |
| `AnswersNeverContradict`, `SettledStaysFinal`, `PromiseKept` | `AnswersAgree`, `SettledIsFinal`, `KeepsPromise` | `Inconclusive = {}`: `--mark-inconclusive` is not used |
| `RecoveryIsRight` | `RecoveryVerdictIsTrue` | no COMMIT lands after its caller has given up |
| `FailureIsKnown` | `FailedMeansNoEffect` | `TellsOutcome`: moreover no COMMIT takes effect and raises |

The hypotheses are choices of the environment, and each is needed: without it TLC finds the
property violated (with `Inconclusive <- Ops`, `AnswersAgree` and `SettledIsFinal`; with a
late COMMIT, `RecoveryVerdictIsTrue`; for `FailedMeansNoEffect` it is the run `ops_commit_lost`). `PromiseKept` is the
refinement of `OperationPromise`, step by step: every action of the ledger, the gateway,
recovery and reset is a step of the promise for one operation, or none.

`RunLifecycleProofs`: `TypeCorrect` and `OrphansStay` without any assumption on
time; `LeaseHolds`, `SingleExecutor`, `ClosedRunsAreQuiet`, `VerdictsAreFinal`
under `LeaseOutlivesSegment`. `OneExecutor` is not inductive: the reconciler
releases claims without looking at executors. `LeaseInv` adds `LiveIsYounger`
(the age of the run, or of its claim if it has one, is at most the age of the segment that works on it),
`MarkersCoherent` (what the markers imply about each other) and `PausesAreKept`;
then a claim that is old enough to be released has no live executor (lemma
`StaleIsFree`). The assumption is needed: with `MaxSegment = OlderThan` TLC finds two
executors of one run.

`OwnershipKept` is the refinement of `RunOwnership` under the same assumption. Each action of `RunLifecycle` moves one run along one edge of the
protocol (`MoveOne`, `MoveIsStep`) or none (`Stutter`).

`AgentGraphProofs`: `GraphTypes` and `SuccessHappened`. `SucceededStepsHappened`
is not inductive: that a step which is finished as succeeded is about an operation that took
effect depends on where the node stands. `GraphInv` adds `Place` (a node in a call
is inside its batch, and the row it has opened has the definition of that call),
`CallTrusted` (while a call executes, the operation under its id is its own; an answer
of success means that it is done) and `RowsTrusted`, which speaks of `done` rather than
of the effect, because only `done` excludes that the row is claimed again. One lemma per
action that writes steps says what `start_step` and `finish_step` do to the table.

`AgentTraceProofs`: `TraceInvariant`, `HistoryIsTheTrace`, `SuccessAnswers`,
`OperationsHaveTraces`, `BudgetsAreKept`, without any hypothesis, for all batches, budgets,
faults and numbers of segments. A run can fall back to any state that is saved or about to be, while
`run_steps` keeps what was recorded after it; so `TraceInv` speaks of all of these states at once:
each has counters that fit its messages, and a recorded step for each of them
(`Conversations`); the steps recorded beyond such a state are at most those that the run
will come to again from it, none of them under a parent that is not in it (`Reach`). It adds
where a segment may stand (`Segment`), which step it is working on (`Underway`), and that every tool
step, and every operation, lies under the answer that asked for it (`Traces`). The budgets then
follow by counting: steps are numbered without gaps up to the longest of these states
and one batch. `SequenceTheorems` and `FiniteSetTheorems` are used for messages and counts.

`TicketToolsProofs`: `TicketTypes`, `NoLostUpdate`, `Idempotent`,
`DecidedIsReplaced`, `TransitionsHold`, for any number of calls, operations, requests,
seeds and resets. `MutationLog` and `RepeatedCallsAgree` are not inductive. `TicketInv` adds what
an open call relies on: a call of an operation that has read its ticket finds it there
until it writes, and a row that still has the expected version is the row it has read (`ReadFits`, because a reset
waits for the ledger); a row that is written is held by one call (`Held`); an operation has one
request, at most one mutation and at most one ticket (`OneRequest`, `OneMutation`,
`OneSource`); and what a call was answered in this world can be found in the tables (`AnswersStand`).

`BenchmarkProofs`: `BenchmarkTypes`, `EvaluationsAreOwn`, `ResultsAreTheSame`, for any number of runners,
outsiders, plans, faults and scripts. `EvaluatedIsOwn` speaks of a stored evaluation, and says
nothing of how it came about. `BenchmarkInv` adds who has the lock (`HoldsLock`: two runners in the
middle of their plans cannot both have kept it), whose the tables and the COMMITs on their way
are while a runner is engaged (`OwnTables`), what an evaluation has already captured
(`OwnCapture`, `CaptureFits`), that the tables of a run which is over change only by another
run or by a COMMIT that was on its way (`LastWords`), that a run has no final state and no note before
its process comes to its end (`NotOver`, `NotNoted`), and that a script which captures live
state was told to (`ScriptsCapture`). `PrepareInv` shows where the refused and the waiting
reset count, `FinishEvaluationInv` where all of it comes together. The proof needs only that the
names are distinct and the plans are not empty.

`ResultsAgree` compares numbers; `ResultInv` says of each single run what makes them agree.
`RunsAgree`: a run that its runner has not come to has no row; one that it is done with is noted;
and what is noted fits the row and the stored evaluation (`Matches`), unless a
script has touched the run; a runtime error fits no row and a row of any verdict. `Progress`: a plan is left at its end or because of a run that did not
pass. `Returned`: what was returned is what is still noted. The counts follow
because each set of runs that one side counts is part of the set that the other side counts, or of
that set and the set of the errors in between (`CountPart`, `CountParts`).

`OraclesProofs`: `TraceIsCounted` and `TemporalIsOrder`, for any tools and tasks, any number of
calls, repetitions and ticks, any two clocks and all faults. Both follow from one invariant of the rows and
the log, `OracleInv`, without looking at a run again. It says that a transaction that has committed is in the
log and one that may still commit belongs to an operation that writes (`Transactions`); that
calls and ends stand in the log once, in the order of the operations and of their steps
(`LogOrdered`, `LogComplete`, `StepsGrow`); that the status of an operation is what its end and what
was learned of its effect make of it (`Ends`, operation by operation `EndedAs`), for which recovery must find
an effect exactly if one has landed (`Evidence`); what the timestamps say of each other (`Timed`); and that as many
calls and repetitions are counted from the rows as from the log (`CallCounts`). Outcomes need no counting of their
own: late decisions change what earlier entries mean, but at every moment the ends in the log that are an
event, and the rows that have the status of it, correspond one to one (`MatchingNamed`, `OutcomesCounted`).
For a temporal rule, the operations that a reference may
mean (`Named`) and their entries (`Matching`) are in the same order, so that the first or last of one
is the first or last of the other (`SelectedIs`, `IndexIs`); two different operations are then ordered by
their steps (`StepDecides`), call and end of one by its times (`TimesDecide`).
The exception for two clocks is needed exactly where `TimesDecide` asks for one of them.

`ScoresAreVerdicts` is about every state of a run, and needs no invariant: `Tells` says of an oracle that its
score is full if it passed and at most `Full - 3` otherwise, which the mean of four
notices even when it is rounded up; nothing is assumed of `TieUp`. Passed and counted rules are sums over sequences of any length,
which the module defines as recursive functions. That such a sum exists, is unique, adds up
two sums that are added term by term and is zero only if each term is, is proved by looking at the
smallest place at which it would fail; no induction theorem of the library is used. The hypothesis
`FewRules` (fewer than 400000 rules in an oracle) is what the rounding to six digits needs here; whether a
larger number still suffices depends on the doubles, and nothing is said of it.

`ExperimentsProofs`: `ExperimentTypes`, `PublishedRunsAreOwn`, `IdsArePublishedOnce`, for any number of
scripts, ids, repetitions and incidents. What is published says nothing of how its rows were read. `ExperimentInv`
adds that a run has a row if it has passed and only after its script has checked its id (`RowsFit`), that who
has read has read all of his passed runs (`ReadsOwn`), and that of two scripts with one id the one who
reads later reads the other's passed runs as well (`LaterReadsBoth`, because rows stay). What was
verified has as many rows as planned (`Verified`) and, if every own run has passed, contains as many of its
own; so it contains nothing else (`PublishedReads`). If two scripts with one id both published, the later one
would have read the passed runs of the other among its own.

`OnlyTheTicketsMislead` rests on a second invariant, `ReadInv`, of what the four statements may see. Calls,
evaluations and tickets belong to rows, and a passed evaluation has seen its call succeed (`Marks`), which
no later step takes back (`Later`, `ListedStays`); rows are numbered as the script has got on (`RowsNumbered`); if no
other script has run, the tickets are those of the last run, and its ticket is there if its call has succeeded
(`TicketsAlone`, because every reset is followed by the row of the run it is for). A script that was right when it
was turned down was right at each of its answers (`RightBefore`), and then the answer is the expected one
(`AnswerIsRight`). What is left is why it was turned down (`Rejections`).

Only model-checked: liveness, and everything with fairness (`EverythingSettles`,
`ClaimsExpire`, `AbandonedRunsClose`, `SegmentsEnd`, `PlansEnd`), because the prover has no support for
ENABLED. Every invariant and every action property of the passing runs is proved.

## 12. Findings

* `ops_commit_lost`: any exception out of COMMIT other than a timeout is recorded
  as `failed`, although the ticket may exist. `docs/project-handoff.tex` defines
  `failed` as "the effect definitely did not happen".
* `ops_close_race`: the reconciler reads operations without a lock and may replace
  a `succeeded` that recovery has just written by `failed`.
* `graph_downgrade`: `finish_step` overwrites a succeeded step when its node is repeated;
  a comment in `recorder.py` says that completed steps are not downgraded.
* `experiments_race`: the id is checked before the lock is taken. A second script adds its runs to a
  published experiment, which `get_experiment` refuses from then on.

Four more facts that an operator should know and no run refutes: a resume claim is
released by its age alone and the finalizers do not check ownership, so that an executor
slower than `older_than` shares its run with the next one; a batch whose later
call raises is not counted in `total_tool_calls`, although its earlier calls took effect;
`close_inconclusive` stores that no business effect was found without looking, while the ticket may still be there
(`AtMostOnce` and `EvidenceKept` hold nevertheless); and the experiment script counts the tickets after the lock is
given back, so that a correct experiment may be turned down for the next one's tables (`OnlyTicketsMislead`).

## 13. Not modelled

Contents of messages, arguments and results; token, latency and step statistics;
averages, percentiles and costs of an experiment, and experiments whose metadata is missing; seed rows other than tickets, which no tool changes; the tools that only
read; migrations (apart from the columns and constraints the modules use); parsing of task
files; HTTP API, configuration, observability; model adapters, whose answers are
nondeterministic; demonstration scripts, and the parameters of the others, which are constants.
