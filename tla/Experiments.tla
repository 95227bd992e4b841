------------------------------ MODULE Experiments ------------------------------
(***************************************************************************)
(* run_benchmark_experiment.py: several scripts execute experiments on one  *)
(* database and publish their results.  A script checks that its            *)
(* experiment_id is unused, runs its plan under the execution lock, and     *)
(* then, without the lock, reads back what is stored under this id and      *)
(* compares it with what its own plan has returned.                         *)
(*                                                                         *)
(* Nothing reserves an id: two scripts may both find the same one unused.   *)
(*                                                                         *)
(* Of a run only its rows matter here: agent_runs, its one tool operation,  *)
(* its ticket and its evaluation.  Benchmark has the steps inside of it.    *)
(***************************************************************************)
EXTENDS Integers, FiniteSets, Sequences

CONSTANTS Scripts,      \* processes that execute the script once
          Names,        \* values of experiment_id
          Arguments,    \* what a script may be called with
          Nobody,       \* no holder of the lock
          None,         \* no arguments, no row, no operation, no evaluation, no answer
          MaxIncidents  \* bound: how many faults and evaluations by others

Runs == [name : Names, repetitions : Nat \ {0}, failFast : BOOLEAN]

ASSUME ArgumentsAssumption == Arguments \subseteq Runs

ASSUME IncidentsAssumption == MaxIncidents \in Nat

\* expected_runs: the plan has two tasks.
Planned(a) == 2 * a.repetitions

\* The run with sequence number n of a plan: the tasks take turns.
Task(n) == IF n % 2 = 1 THEN "employee_lookup" ELSE "create_ticket"

\* A run is known by its script and its sequence number.
Ids == Scripts \X UNION {1..Planned(a) : a \in Arguments}

Terminal == {"succeeded", "failed"}

Evaluations == [passed : BOOLEAN, source : {"live", "persisted"}]

\* How a run ended for its runner.  A runtime error does not know its run.
Outcomes == {"passed", "failed", "runtime_error", "evaluation_error"}

ASSUME NamesAssumption ==
  Nobody \notin Scripts /\ None \notin Runs \cup Terminal \cup Evaluations \cup {"running", "unknown"}

VARIABLES
  stage,        \* where each script is
  arguments,    \* what each script was called with
  noted,        \* executions of run_plan: the outcomes so far, then the returned ones
  listed,       \* what get_experiment has read, by run
  answers,      \* what read_database_verification has read so far
  lock,         \* the session that holds the advisory lock
  row,          \* agent_runs.status
  call,         \* tool_operations.status of the one call of a run
  evaluation,   \* evaluation_results
  tickets,      \* runs whose ticket is in the table
  incidents     \* faults and evaluations by others so far

scriptVars == <<arguments, noted, listed, answers>>
tableVars == <<row, call, evaluation, tickets>>
vars == <<stage, scriptVars, lock, tableVars, incidents>>

Init ==
  /\ stage = [s \in Scripts |-> "idle"]
  /\ arguments = [s \in Scripts |-> None]
  /\ noted = [s \in Scripts |-> <<>>]
  /\ listed = [s \in Scripts |-> <<>>]
  /\ answers = [s \in Scripts |-> <<>>]
  /\ lock = Nobody
  /\ row = [i \in Ids |-> None]
  /\ call = [i \in Ids |-> None]
  /\ evaluation = [i \in Ids |-> None]
  /\ tickets = {}
  /\ incidents = 0

Incident == incidents < MaxIncidents /\ incidents' = incidents + 1

\* Something goes as the script, whose model is scripted, expects it to go; or it does not.
Expected(ok) == IF ok THEN UNCHANGED incidents ELSE Incident

\* The run a script is at.
Current(s) == <<s, Len(noted[s]) + 1>>

\* agent_runs with this experiment_id, whichever script has written them.
Rows(name) == {i \in Ids : row[i] # None /\ arguments[i[1]].name = name}

Go(s, from, to) == stage[s] = from /\ stage' = [stage EXCEPT ![s] = to]

-----------------------------------------------------------------------------
(* The id and the lock.                                                    *)

\* resolve_experiment_id and assert_experiment_id_unused: in a transaction of its own.
CheckUnused(s) ==
  \E a \in Arguments :
    /\ arguments' = [arguments EXCEPT ![s] = a]
    /\ Go(s, "idle", IF Rows(a.name) = {} THEN "unused" ELSE "exists")
    /\ UNCHANGED <<noted, listed, answers, lock, tableVars, incidents>>

\* run_plan: pg_try_advisory_lock answers at once.
Acquire(s) ==
  /\ lock = Nobody
  /\ lock' = s
  /\ Go(s, "unused", "next")
  /\ UNCHANGED <<scriptVars, tableVars, incidents>>

\* BenchmarkExecutionLockBusyError
Busy(s) ==
  /\ lock # Nobody
  /\ Go(s, "unused", "busy")
  /\ UNCHANGED <<scriptVars, lock, tableVars, incidents>>

\* The connection that holds the lock is lost; nothing tells the script.
LoseLock(s) ==
  /\ Incident
  /\ lock = s
  /\ lock' = Nobody
  /\ UNCHANGED <<stage, scriptVars, tableVars>>

\* The end of run_plan; it raises if pg_advisory_unlock says that the lock was not owned.
Release(s) ==
  /\ IF lock = s
     THEN lock' = Nobody /\ Go(s, "release", "returned")
     ELSE UNCHANGED lock /\ Go(s, "release", "unreleased")
  /\ UNCHANGED <<scriptVars, tableVars, incidents>>

-----------------------------------------------------------------------------
(* The plan.                                                               *)

\* assert_business_state_reset_safe
ResetIsSafe == \A i \in Ids : call[i] \notin {"running", "unknown"}

\* _prepare_run: the reset, which leaves no ticket, and the row of the run.
Prepare(s) ==
  /\ Go(s, "next", "running")
  /\ ResetIsSafe
  /\ row' = [row EXCEPT ![Current(s)] = "running"]
  /\ tickets' = {}
  /\ UNCHANGED <<scriptVars, lock, call, evaluation, incidents>>

\* What the one tool call of a run leaves behind; whether one that has not succeeded has taken
\* effect is open.
Leaves(i, status) ==
  LET created == tickets \cup {i}
  IN  /\ call' = [call EXCEPT ![i] = status]
      /\ tickets' \in CASE Task(i[2]) # "create_ticket" -> {tickets}
                        [] status = "succeeded"         -> {created}
                        [] OTHER                        -> {tickets, created}

\* A timeout is unknown for the tool that writes and failed for the one that reads; the
\* operation stays running if the ledger cannot record its end.
Call(s) ==
  /\ stage[s] = "running"
  /\ call[Current(s)] = None
  /\ \E status \in {"succeeded", "failed", "running", "unknown"} :
       /\ status = "unknown" => Task(Current(s)[2]) = "create_ticket"
       /\ Leaves(Current(s), status) /\ Expected(status = "succeeded")
  /\ UNCHANGED <<stage, scriptVars, lock, row, evaluation>>

\* The verdict of run_benchmark_task.
Terminate(s) ==
  /\ Go(s, "running", "evaluating")
  /\ \E status \in Terminal : /\ row' = [row EXCEPT ![Current(s)] = status]
                             /\ Expected(call[Current(s)] # None /\ (call[Current(s)] = "succeeded" => status = "succeeded"))
  /\ UNCHANGED <<scriptVars, lock, call, evaluation, tickets>>

\* executions.append, and the bottom of the loop of _run_plan_locked.
Note(s, from, outcome) ==
  /\ noted' = [noted EXCEPT ![s] = Append(@, outcome)]
  /\ Go(s, from, IF Len(noted[s]) + 1 = Planned(arguments[s]) \/ (arguments[s].failFast /\ outcome # "passed")
                 THEN "release" ELSE "next")
  /\ UNCHANGED <<arguments, listed, answers>>

\* The run never comes to exist: the reset is refused, or _prepare_run raises.
NoRun(s) ==
  /\ Note(s, "next", "runtime_error")
  /\ Expected(~ResetIsSafe)
  /\ UNCHANGED <<lock, tableVars>>

\* An exception leaves run_benchmark_task: after _finalize_exception, out of its transaction or
\* out of that of _finalize_result, which may have committed any verdict before it raises.
RunRaises(s) ==
  /\ Incident
  /\ stage[s] = "running"
  /\ Note(s, "running", "runtime_error")
  /\ row' \in {row} \cup {[row EXCEPT ![Current(s)] = status] : status \in Terminal}
  /\ UNCHANGED <<lock, call, evaluation, tickets>>

\* evaluate_run.  Both tasks require that the call succeeded; the rest of the oracles is open.
Evaluated(i, oracles, source) ==
  evaluation' = [evaluation EXCEPT ![i] =
    [passed |-> row[i] = "succeeded" /\ call[i] = "succeeded" /\ oracles, source |-> source]]

Evaluate(s) ==
  /\ stage[s] = "evaluating"
  /\ \E oracles \in BOOLEAN : Evaluated(Current(s), oracles, "live") /\ Expected(oracles)
  /\ Note(s, "evaluating", IF evaluation'[Current(s)].passed THEN "passed" ELSE "failed")
  /\ UNCHANGED <<lock, row, call, tickets>>

\* evaluate_run raises: nothing is stored, or only the answer to the COMMIT is lost.
EvaluationRaises(s) ==
  /\ Incident
  /\ stage[s] = "evaluating"
  /\ \/ \E oracles \in BOOLEAN : Evaluated(Current(s), oracles, "live")
     \/ UNCHANGED evaluation
  /\ Note(s, "evaluating", "evaluation_error")
  /\ UNCHANGED <<lock, row, call, tickets>>

\* The process is gone, with its session; a tool call under way is never settled.
Crash(s) ==
  /\ Incident
  /\ stage[s] \notin {"idle", "exists", "busy", "unreleased", "published", "rejected", "crashed"}
  /\ stage' = [stage EXCEPT ![s] = "crashed"]
  /\ lock' = IF lock = s THEN Nobody ELSE lock
  /\ \/ UNCHANGED <<call, tickets>>
     \/ stage[s] = "running" /\ call[Current(s)] = None /\ Leaves(Current(s), "running")
  /\ UNCHANGED <<scriptVars, row, evaluation>>

-----------------------------------------------------------------------------
(* Operators: recovery and evaluate_agent_run.py.  The reconciler keeps what *)
(* has a checkpoint, as all these runs have.                               *)

\* UnknownOperationRecoveryService.recover looks for the ticket; only calls that write
\* are ever unknown.
Recover(i) ==
  /\ call[i] = "unknown"
  /\ call' = [call EXCEPT ![i] = IF i \in tickets THEN "succeeded" ELSE "failed"]
  /\ UNCHANGED <<stage, scriptVars, lock, row, evaluation, tickets, incidents>>

\* A run that is over is evaluated again, from the live or from the stored state.
Reevaluate(i) ==
  /\ Incident
  /\ row[i] \in Terminal
  /\ \E oracles \in BOOLEAN, source \in {"live", "persisted"} :
       /\ source = "persisted" => evaluation[i] # None
       /\ Evaluated(i, oracles, source)
  /\ UNCHANGED <<stage, scriptVars, lock, row, call, tickets>>

-----------------------------------------------------------------------------
(* The results.                                                            *)

\* get_experiment_from_session: one statement reads every row.
Listing(name) == [i \in Rows(name) |-> [status |-> row[i], evaluation |-> evaluation[i]]]

\* build_persisted_experiment: no rows, two values of planned_runs, or more runs than planned.
\* The rows carry the metadata of the script that has written them; all scripts have the same
\* runner version and policy.
Refuses(runs) ==
  LET planned == {Planned(arguments[i[1]]) : i \in runs}
  IN  runs = {} \/ (\E p, q \in planned : p # q) \/ (\E p \in planned : Cardinality(runs) > p)

GetExperiment(s) ==
  LET name == arguments[s].name
  IN  /\ listed' = [listed EXCEPT ![s] = Listing(name)]
      /\ Go(s, "returned", IF Refuses(Rows(name)) THEN "rejected" ELSE "reading")
      /\ UNCHANGED <<arguments, noted, answers, lock, tableVars, incidents>>

\* Tool operations of these runs by tool and by success.
CallCounts(runs) ==
  LET Calls(ok, tasks) == Cardinality({i \in runs :
        call[i] # None /\ (call[i] = "succeeded") = ok /\ Task(i[2]) \in tasks})
  IN  [lookup |-> Calls(TRUE, {"employee_lookup"}), create |-> Calls(TRUE, {"create_ticket"}),
       other |-> Calls(FALSE, {"employee_lookup", "create_ticket"})]

\* Bug: the operations are not filtered by experiment_id.
CallsOfAll(name) == CallCounts(Ids)

CallsOf(name) == CallCounts(Rows(name))

\* The statements of read_database_verification: each sees what is committed when it begins.
Answer(name, question) ==
  CASE question = 1 -> Cardinality(Rows(name))
    [] question = 2 -> Cardinality({i \in Rows(name) : evaluation[i] # None})
    [] question = 3 -> CallsOf(name)
    [] question = 4 -> Cardinality(tickets)

ReadDatabase(s) ==
  /\ stage[s] = "reading"
  /\ Len(answers[s]) < 4
  /\ answers' = [answers EXCEPT ![s] = Append(@, Answer(arguments[s].name, Len(@) + 1))]
  /\ UNCHANGED <<stage, arguments, noted, listed, lock, tableVars, incidents>>

\* Bug: the outcomes are not looked at.
AllExecuted(s) == Len(noted[s]) = Planned(arguments[s])

\* verify_experiment: immediate.
ImmediateIsRight(s) ==
  /\ Len(noted[s]) = Planned(arguments[s])
  /\ \A n \in 1..Len(noted[s]) : noted[s][n] = "passed"

\* verify_experiment: persisted.  The order of the tasks follows from the sequence numbers, the
\* score of 1.0 from a passed evaluation (ScoresMatchVerdicts of Oracles).
PersistedIsRight(s) ==
  LET runs == DOMAIN listed[s]
      expected == Planned(arguments[s])
  IN  /\ \A i \in runs : Planned(arguments[i[1]]) = expected
      /\ Cardinality(runs) = expected
      /\ {i[2] : i \in runs} = 1..expected
      /\ \A i \in runs : /\ listed[s][i].status = "succeeded"
                         /\ listed[s][i].evaluation = [passed |-> TRUE, source |-> "live"]

\* verify_experiment: database.
Expectation(s) ==
  LET repetitions == arguments[s].repetitions
      expected == Planned(arguments[s])
  IN  <<expected, expected, [lookup |-> repetitions, create |-> repetitions, other |-> 0], 1>>

DatabaseIsRight(s) == answers[s] = Expectation(s)

VerifyExperiment(s) ==
  /\ Len(answers[s]) = 4
  /\ Go(s, "reading", IF ImmediateIsRight(s) /\ PersistedIsRight(s) /\ DatabaseIsRight(s)
                      THEN "published" ELSE "rejected")
  /\ UNCHANGED <<scriptVars, lock, tableVars, incidents>>

-----------------------------------------------------------------------------
Next ==
  \/ \E s \in Scripts :
       \/ CheckUnused(s) \/ Acquire(s) \/ Busy(s) \/ LoseLock(s) \/ Release(s)
       \/ Prepare(s) \/ Call(s) \/ Terminate(s) \/ NoRun(s) \/ RunRaises(s)
       \/ Evaluate(s) \/ EvaluationRaises(s) \/ Crash(s)
       \/ GetExperiment(s) \/ ReadDatabase(s) \/ VerifyExperiment(s)
  \/ \E i \in Ids : Recover(i) \/ Reevaluate(i)

Spec == Init /\ [][Next]_vars
-----------------------------------------------------------------------------
\* The shape of every variable.
TypeOK ==
  /\ stage \in [Scripts -> {"idle", "exists", "unused", "busy", "next", "running", "evaluating", "release",
                            "unreleased", "returned", "reading", "published", "rejected", "crashed"}]
  /\ arguments \in [Scripts -> Arguments \cup {None}]
  /\ noted \in [Scripts -> Seq(Outcomes)]
  /\ DOMAIN listed = Scripts /\ DOMAIN answers = Scripts
  /\ \A s \in Scripts : stage[s] # "idle" => arguments[s] # None
  /\ \A s \in Scripts : stage[s] \in {"idle", "unused"} => noted[s] = <<>>
  /\ \A s \in Scripts : stage[s] \in {"next", "running", "evaluating"} => Len(noted[s]) < Planned(arguments[s])
  /\ lock \in Scripts \cup {Nobody}
  /\ row \in [Ids -> Terminal \cup {None, "running"}]
  /\ call \in [Ids -> Terminal \cup {None, "running", "unknown"}]
  /\ evaluation \in [Ids -> Evaluations \cup {None}]
  /\ tickets \subseteq Ids
  /\ incidents \in 0..MaxIncidents

\* The runs of a script's own plan.
Own(s) == {s} \X (1..Planned(arguments[s]))

\* What is published is the script's own: although another script may have found the same id
\* unused and have left rows under it, the runs that were read back are exactly those that
\* this script has planned and has seen pass (run_benchmark_experiment.py: verify_experiment
\* compares immediate and persisted results; results.py: more runs than planned are refused).
\* Without the former a script whose runs never came to exist would publish another one's.
PublishedIsOwn ==
  \A s \in Scripts : stage[s] = "published" =>
    /\ DOMAIN listed[s] = Own(s)
    /\ \A n \in 1..Planned(arguments[s]) : noted[s][n] = "passed"

\* Of all scripts with one experiment_id at most one publishes, whoever of them has found it
\* unused, has had the lock and has read when (run_benchmark_experiment.py:93).
PublishedOnce ==
  \A s, t \in Scripts :
    (s # t /\ stage[s] = "published" /\ stage[t] = "published") => arguments[s].name # arguments[t].name

\* A published experiment has its id for itself ("Unique experiment identifier"): no other
\* script's run is ever stored under it.
PublishedStays ==
  \A s \in Scripts : stage[s] = "published" => Rows(arguments[s].name) = Own(s)

\* When a script turns its own experiment down although all of its runs have passed, are stored
\* and have been read, and nobody else has used its id, then the tickets have misled it: they are
\* read after the lock is given back (run_benchmark_experiment.py:163), and another script has
\* run.  The other statements find what they ought to find whenever they are executed.
OnlyTicketsMislead ==
  \A s \in Scripts :
    (/\ stage[s] = "rejected" /\ Rows(arguments[s].name) = Own(s)
     /\ ImmediateIsRight(s) /\ PersistedIsRight(s))
    => /\ \A question \in 1..3 : answers[s][question] = Expectation(s)[question]
       /\ answers[s][4] # 1
       /\ \E i \in Ids : i[1] # s /\ row[i] # None
=============================================================================
