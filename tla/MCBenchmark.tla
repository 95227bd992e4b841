----------------------------- MODULE MCBenchmark -----------------------------
(***************************************************************************)
(* A small instance of Benchmark.                                          *)
(***************************************************************************)
EXTENDS Benchmark

CONSTANTS r1, r2, o1

Plan(tasks, repetitions, failFast, policy) ==
  [tasks |-> tasks, repetitions |-> repetitions, failFast |-> failFast, policy |-> policy]

\* Two tasks or a single one for one runner, a single one for the other; every policy.
MCPlans ==
  [r \in Runners |->
     IF r = r1
     THEN { Plan(<<"lookup", "create">>, 1, TRUE, "succeeded_only"),
            Plan(<<"create">>, 1, FALSE, "disabled") }
     ELSE { Plan(<<"create">>, 1, FALSE, "always") }]

Budget(processes, faults, scripts) == [processes |-> processes, faults |-> faults, scripts |-> scripts]

\* Two runners and a fault; a runner with two faults, or a fault and a script; a runner
\* beside an outsider.
MCBudgets ==
  { Budget({r1, r2}, 1, 0), Budget({r1}, 2, 0), Budget({r1}, 1, 1), Budget({r1, o1}, 0, 0), Budget({r2, o1}, 1, 0) }
=============================================================================
