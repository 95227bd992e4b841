------------------------------- MODULE Oracles -------------------------------
(***************************************************************************)
(* The four oracles against the history they judge.                        *)
(*                                                                         *)
(* A run makes its tool calls one after another.  What it leaves are rows: *)
(* operations with timestamps, steps, tickets and mutations, counters.     *)
(* The oracles see these rows, while `log' is what has really happened:    *)
(* the calls and how they ended, the effects when they took place, and the *)
(* recoveries when they looked for them.                                   *)
(*                                                                         *)
(* There are two clocks: created_at is the database's, started_at and      *)
(* finished_at are the application's, which may be behind it by Skew.      *)
(* A field path of a record is one name, "result_snapshot.status" too; two *)
(* values are compared after both have been normalised to JSON.            *)
(***************************************************************************)
EXTENDS Integers, FiniteSets, Sequences

CONSTANTS Tools,          \* "create", "update" and tools that only read
          Tasks,          \* the tasks whose rules are evaluated
          Skews,          \* how far the clock of the database may be ahead
          Never,          \* a timestamp or a metric that was not recorded
          MaxCalls,       \* a bound on the operations
          Ids,            \* the ids that they draw
          MaxExtras,      \* a bound on the skew, the repeated calls and the ticks, together
          TieUp(_, _)     \* whether a score half a digit above another is rounded up

TraceEvents == {"tool_called", "tool_succeeded", "tool_failed", "tool_rejected", "tool_replayed"}
TemporalEvents == TraceEvents \ {"tool_replayed"}

\* What a task may ask for.
TraceEventRules == [event : TraceEvents, tool : Tools]
TemporalReferences == [event : TemporalEvents, tool : Tools, occurrence : {"first", "last"}]
TemporalRules ==
  {rule \in [first : TemporalReferences, relation : {"before", "after"}, second : TemporalReferences] :
     rule.first # rule.second}

IsSequence(s) == Len(s) \in Nat /\ DOMAIN s = 1..Len(s)

\* exists and not_exists have no value, the others must have one, and a list must have members.
IsAssertion(a) ==
  /\ a.operator \in {"exists", "not_exists", "eq", "ne", "in", "not_in"}
  /\ a.operator \in {"exists", "not_exists"} <=> "value" \notin DOMAIN a
  /\ a.operator \in {"in", "not_in"} => a.value # {}

\* About the two tables that the tools of a run change.
IsExpectation(e) ==
  /\ e.entity \in {"tickets", "ticket_mutations"}
  /\ IsSequence(e.assertions) /\ e.assertions # <<>>
  /\ \A k \in DOMAIN e.assertions : IsAssertion(e.assertions[k])

\* The metrics with a limit.
Metrics == {"agent_steps", "tool_calls", "tokens", "latency_ms"}
TaskBudgets == [Metrics -> Nat \ {0}]

ASSUME BoundsAssumption ==
  /\ Skews \subseteq Nat
  /\ MaxCalls \in Nat /\ MaxExtras \in Nat
  /\ Ids \in [1..MaxCalls -> Nat] /\ \A j, k \in 1..MaxCalls : Ids[j] = Ids[k] => j = k
  /\ Never \notin Int

ASSUME TasksAssumption ==
  \A task \in Tasks :
    /\ task.required \in Seq(TraceEventRules) /\ task.forbidden \in Seq(TraceEventRules)
    /\ task.rules \in Seq(TemporalRules)
    /\ IsSequence(task.expectations)
    /\ \A k \in DOMAIN task.expectations : IsExpectation(task.expectations[k])
    /\ task.budget \in TaskBudgets

\* The tools that change a row.
Writes == {"create", "update"}

TerminalEvents == [succeeded |-> "tool_succeeded", failed |-> "tool_failed", rejected |-> "tool_rejected"]

Full == 1000000    \* a score of 1, rounded to six digits

VARIABLES
  clock, skew,
  checkpointed, \* a resume brings the run back when its process dies
  alive,        \* a process executes the run
  status,       \* of the run
  steps,        \* the last step number
  calls,        \* the graph's count of tool calls
  current,      \* the operation being executed, or 0
  committed,    \* its transaction has, and the answer is on its way
  late,         \* transactions that may still commit, although their caller has left
  operations,   \* tool_operations in the order of their creation
  tickets, mutations,
  totals,       \* the counters of the run's row
  \* History, read by properties only.
  log           \* what has happened, in its order

data == <<tickets, mutations>>
run == <<skew, checkpointed, status, totals>>
vars == <<clock, run, alive, steps, calls, current, committed, late, operations, data, log>>

\* A row of tool_operations as the trace oracle reads it.
NewOperation(id, tool, step, now) ==
  [id |-> id, tool |-> tool, step |-> step, status |-> "prepared", retries |-> 0,
   created |-> now, started |-> Never, finished |-> Never]

\* The counters of a run as the budget oracle reads them.
BudgetSnapshot(agentSteps, toolCalls, tokens, latency) ==
  [agent_steps |-> agentSteps, tool_calls |-> toolCalls, tokens |-> tokens, latency_ms |-> latency]

\* The business tables as the final state oracle reads them.
StateSnapshot == [tickets |-> tickets, ticket_mutations |-> mutations]

Event(kind, o) == [event |-> kind, operation |-> o]

Init ==
  /\ clock = 0
  /\ skew \in Skews
  /\ checkpointed \in BOOLEAN
  /\ alive = TRUE
  /\ status = "running"
  /\ steps = 0
  /\ calls = 0
  /\ current = 0
  /\ committed = FALSE
  /\ late = {}
  /\ operations = <<>>
  /\ tickets = {}
  /\ mutations = {}
  /\ totals = BudgetSnapshot(0, 0, 0, Never)
  /\ log = <<>>

-----------------------------------------------------------------------------
(* The run.                                                                *)

Ready == alive /\ status = "running" /\ current = 0

\* ledger.claim of a new operation.
Call(tool) ==
  /\ Ready
  /\ Len(operations) < MaxCalls
  /\ steps' = steps + 1
  /\ calls' = calls + 1
  /\ current' = Len(operations) + 1
  /\ operations' = Append(operations, NewOperation(Ids[current'], tool, steps', clock + skew))
  /\ log' = Append(log, Event("tool_called", current'))
  /\ UNCHANGED <<clock, run, alive, committed, late, data>>

\* A bound.
More == skew + clock + Len(SelectSeq(log, LAMBDA e : e.event = "tool_replayed")) < MaxExtras

\* ledger.claim of a known one: by a later call with its id, or by its own step when the
\* node is repeated after a crash.
Replay(o) ==
  /\ Ready /\ More
  /\ \/ /\ steps' = steps + 1
        /\ calls' = calls + 1
     \/ /\ checkpointed /\ operations[o].step = steps
        /\ UNCHANGED <<steps, calls>>
  /\ operations' = [operations EXCEPT ![o].retries = @ + 1]
  /\ log' = Append(log, Event("tool_replayed", o))
  /\ UNCHANGED <<clock, run, alive, current, committed, late, data>>

\* ledger.mark_running
Start ==
  /\ alive /\ current # 0 /\ operations[current].status = "prepared"
  /\ operations' = [operations EXCEPT ![current].status = "running", ![current].started = clock]
  /\ UNCHANGED <<clock, run, alive, steps, calls, current, committed, late, data, log>>

\* ledger.finalize
Finalize(to, event) ==
  /\ operations' = [operations EXCEPT ![current].status = to, ![current].finished = clock]
  /\ log' = Append(log, Event(event, current))
  /\ current' = 0 /\ committed' = FALSE
  /\ UNCHANGED <<clock, run, alive, steps, calls, data>>

\* A refusal (of the call, or of its arguments): the operation never starts.
Refuse(to) ==
  /\ alive /\ current # 0 /\ operations[current].status = "prepared"
  /\ Finalize(to, IF to = "rejected" THEN "tool_rejected" ELSE "raised")
  /\ UNCHANGED late

Executing == alive /\ current # 0 /\ operations[current].status = "running"

\* What the handler of an operation writes to: its new ticket, or one that no other open
\* transaction has locked.
Targets(o) ==
  IF operations[o].tool = "create" THEN {o}
  ELSE {t.id : t \in tickets} \ {l.ticket : l \in late}

\* create_ticket leaves an open ticket, update_ticket a resolved one and its mutation.
Creates(ticket) ==
  /\ tickets' = tickets \cup {[id |-> ticket, status |-> "open"]}
  /\ UNCHANGED mutations

Updates(o, ticket) ==
  /\ tickets' = {IF t.id = ticket THEN [t EXCEPT !.status = "resolved"] ELSE t : t \in tickets}
  /\ mutations' = mutations \cup {[id |-> o, ticket |-> ticket]}

\* What is in the business tables when the transaction of an operation has committed.
Effect(o, ticket) == IF operations[o].tool = "create" THEN Creates(ticket) ELSE Updates(o, ticket)

\* The transaction of the handler.
Commit ==
  /\ Executing /\ ~committed
  /\ IF operations[current].tool \in Writes
     THEN \E ticket \in Targets(current) : Effect(current, ticket)
     ELSE UNCHANGED data
  /\ committed' = TRUE
  /\ log' = Append(log, Event("took_effect", current))
  /\ UNCHANGED <<clock, run, alive, steps, calls, current, late, operations>>

Succeed == Executing /\ committed /\ Finalize("succeeded", "answered") /\ UNCHANGED late

\* The caller leaves the transaction: it has committed, it is rolled back, or its COMMIT is
\* under way.
Leave ==
  \/ UNCHANGED late
  \/ /\ ~committed /\ operations[current].tool \in Writes
     /\ \E ticket \in Targets(current) : late' = late \cup {[operation |-> current, ticket |-> ticket]}

\* An exception out of the handler or out of its COMMIT, or a timeout of a tool that only reads.
Fail == Executing /\ Leave /\ Finalize("failed", "raised")

\* A timeout of a tool that writes.
TimeOut ==
  /\ Executing
  /\ operations[current].tool \in Writes
  /\ Leave
  /\ Finalize("unknown", "timed_out")

\* The call comes to an end of which the ledger records nothing.
Vanish ==
  /\ IF Executing THEN Leave ELSE UNCHANGED late
  /\ current' = 0 /\ committed' = FALSE
  /\ UNCHANGED <<clock, run, steps, calls, operations, data, log>>

\* mark_running or finalize raises; the run goes on.
LedgerFails == alive /\ current # 0 /\ Vanish /\ UNCHANGED alive

\* The process dies, in the middle of a call or between two.
Crash == alive /\ status = "running" /\ alive' = checkpointed /\ Vanish

\* A COMMIT under way takes effect, or the server has never received it.
Land(l) ==
  /\ late' = late \ {l}
  /\ \/ /\ Effect(l.operation, l.ticket)
        /\ log' = Append(log, Event("took_effect", l.operation))
     \/ UNCHANGED <<data, log>>
  /\ UNCHANGED <<clock, run, alive, steps, calls, current, committed, operations>>

\* recover: the effect is looked up by the id of the operation; finished_at stays.
Recover(o) ==
  /\ operations[o].status = "unknown"
  /\ LET found == \E r \in IF operations[o].tool = "create" THEN tickets ELSE mutations : r.id = o
     IN  operations' = [operations EXCEPT ![o].status = IF found THEN "succeeded" ELSE "failed"]
  /\ log' = Append(log, Event("looked", o))
  /\ UNCHANGED <<clock, run, alive, steps, calls, current, committed, late, data>>

\* The runtime ends the run and writes its counters: a step of the model, and a token, for
\* each call and for the answer.
End(to) ==
  /\ Ready
  /\ status' = to
  /\ totals' = BudgetSnapshot(calls + 1, calls, calls + 1, clock)
  /\ UNCHANGED <<clock, skew, checkpointed, alive, steps, calls, current, committed, late, operations, data, log>>

\* The reconciler ends it: what is unknown becomes failed, the counters stay as they are.
Close ==
  /\ ~alive /\ ~checkpointed /\ status = "running"
  /\ \A o \in DOMAIN operations : operations[o].status \notin {"prepared", "running"}
  /\ status' = "failed"
  /\ operations' = [o \in DOMAIN operations |->
                      IF operations[o].status = "unknown"
                      THEN [operations[o] EXCEPT !.status = "failed", !.finished = clock]
                      ELSE operations[o]]
  /\ UNCHANGED <<clock, skew, checkpointed, alive, steps, calls, current, committed, late, data, totals, log>>

Tick ==
  /\ status = "running" /\ More
  /\ clock' = clock + 1
  /\ UNCHANGED <<run, alive, steps, calls, current, committed, late, operations, data, log>>

Next ==
  \/ \E tool \in Tools : Call(tool)
  \/ \E o \in DOMAIN operations : Replay(o) \/ Recover(o)
  \/ Start \/ Commit \/ Succeed \/ Fail \/ TimeOut \/ LedgerFails \/ Crash \/ Close \/ Tick
  \/ \E l \in late : Land(l)
  \/ \E to \in {"rejected", "failed"} : Refuse(to)
  \/ \E to \in {"succeeded", "failed"} : End(to)

Spec == Init /\ [][Next]_vars

-----------------------------------------------------------------------------
(* Scores.                                                                 *)

\* round(n / d, 6) of doubles, in units of the sixth digit: the nearest one.  Which one it is
\* when n / d is in the middle depends on the doubles.
Rounded(n, d) ==
  LET down == n \div d
      rest == n - d * down
  IN  IF 2 * rest > d \/ (2 * rest = d /\ TieUp(n, d)) THEN down + 1 ELSE down

\* round(passed / total, 6), and 1 when there is nothing to fail.
Ratio(passed, total) == IF total = 0 THEN Full ELSE Rounded(passed * Full, total)

SumOf(numbers) ==
  LET sum[k \in 0..Len(numbers)] == IF k = 0 THEN 0 ELSE sum[k - 1] + numbers[k]
  IN  sum[Len(numbers)]

\* The result of an oracle from what it has passed, out of how much, with its violations.
Result(passed, total, violations) ==
  [passed |-> violations = {}, score |-> Ratio(passed, total), violations |-> violations]

-----------------------------------------------------------------------------
(* The trace oracle.                                                       *)

\* Bug: a repeated call is not counted as a call.
FirstCallOnly(op, event) ==
  CASE event = "tool_called" -> 1
    [] event = "tool_replayed" -> op.retries
    [] OTHER -> IF op.status \in DOMAIN TerminalEvents /\ TerminalEvents[op.status] = event THEN 1 ELSE 0

OperationEventCount(op, event) ==
  CASE event = "tool_called" -> 1 + op.retries
    [] event = "tool_replayed" -> op.retries
    [] OTHER -> IF op.status \in DOMAIN TerminalEvents /\ TerminalEvents[op.status] = event THEN 1 ELSE 0

\* The events of the operations of one tool; several ones of an operation are numbered.
CountTraceEvent(rule) ==
  LET Events(k) == {k} \X (1..OperationEventCount(operations[k], rule.event))
  IN  Cardinality(UNION {Events(k) : k \in {j \in DOMAIN operations : operations[j].tool = rule.tool}})

EvaluateTrace(required, forbidden) ==
  LET missing == {k \in DOMAIN required : CountTraceEvent(required[k]) = 0}
      observed == {k \in DOMAIN forbidden : CountTraceEvent(forbidden[k]) > 0}
      total == Len(required) + Len(forbidden)
  IN  Result(total - Cardinality(missing) - Cardinality(observed), total,
             {<<"required_trace_event_missing", k>> : k \in missing}
               \cup {<<"forbidden_trace_event_observed", k>> : k \in observed})

-----------------------------------------------------------------------------
(* The temporal oracle.                                                    *)

\* A tool event that can be ordered, and its position.
Occurrence(op, event, time, phase) ==
  [event |-> event, tool |-> op.tool, position |-> <<op.step, time, op.id, phase>>]

\* The first timestamp that was recorded.
Recorded(times) ==
  times[CHOOSE k \in DOMAIN times : times[k] # Never /\ \A j \in 1..k - 1 : times[j] = Never]

Occurrences ==
  LET Called(op) == Occurrence(op, "tool_called", Recorded(<<op.started, op.created>>), 0)
      Final(op) == Occurrence(op, TerminalEvents[op.status],
                              Recorded(<<op.finished, op.started, op.created>>), 1)
      ops == {operations[k] : k \in DOMAIN operations}
  IN  {Called(op) : op \in ops} \cup {Final(op) : op \in {p \in ops : p.status \in DOMAIN TerminalEvents}}

\* Bug: the events are ordered by their times only.
ByTime(p, q) ==
  \E k \in 2..4 : p[k] < q[k] /\ \A j \in 2..k - 1 : p[j] = q[j]

\* p is smaller than q in the lexicographic order of tuples.
Precedes(p, q) ==
  \E k \in 1..4 : p[k] < q[k] /\ \A j \in 1..k - 1 : p[j] = q[j]

\* The occurrence a reference selects, as a set of at most one.
Selected(occurrences, ref) ==
  LET matches == {c \in occurrences : c.event = ref.event /\ c.tool = ref.tool}
  IN  {c \in matches : \A d \in matches \ {c} :
         IF ref.occurrence = "first" THEN Precedes(c.position, d.position)
                                     ELSE Precedes(d.position, c.position)}

RelationPasses(p, relation, q) ==
  IF relation = "before" THEN Precedes(p, q) ELSE Precedes(q, p)

MissingReason(first, second) ==
  CASE first = {} /\ second = {} -> "both_events_missing"
    [] first = {} /\ second # {} -> "first_event_missing"
    [] OTHER -> "second_event_missing"

\* "passed", or why a rule does not.
RuleVerdict(occurrences, rule) ==
  LET first == Selected(occurrences, rule.first)
      second == Selected(occurrences, rule.second)
  IN  CASE first = {} \/ second = {} -> MissingReason(first, second)
        [] \E c \in first, d \in second : RelationPasses(c.position, rule.relation, d.position) -> "passed"
        [] OTHER -> "order_violation"

EvaluateTemporal(rules) ==
  LET occurrences == Occurrences
      verdict == [k \in DOMAIN rules |-> RuleVerdict(occurrences, rules[k])]
      failed == {k \in DOMAIN rules : verdict[k] # "passed"}
  IN  Result(Len(rules) - Cardinality(failed), Len(rules), {<<verdict[k], k>> : k \in failed})

-----------------------------------------------------------------------------
(* The budget oracle.                                                      *)

EvaluateBudget(budget) ==
  LET missing == {m \in Metrics : totals[m] = Never}
      exceeded == {m \in Metrics \ missing : totals[m] > budget[m]}
  IN  Result(4 - Cardinality(missing \cup exceeded), 4,
             {<<"budget_metric_missing", m>> : m \in missing}
               \cup {<<"budget_exceeded", m>> : m \in exceeded})

-----------------------------------------------------------------------------
(* The final state oracle.                                                 *)

\* record and where are functions from field paths to values.
RecordMatchesWhere(record, where) ==
  \A path \in DOMAIN where : path \in DOMAIN record /\ record[path] = where[path]

AssertionPasses(record, a) ==
  LET exists == a.field \in DOMAIN record
  IN  CASE a.operator = "exists"     -> exists
        [] a.operator = "not_exists" -> ~exists
        [] a.operator = "eq"     -> exists /\ record[a.field] = a.value
        [] a.operator = "ne"     -> exists /\ record[a.field] # a.value
        [] a.operator = "in"     -> exists /\ record[a.field] \in a.value
        [] a.operator = "not_in" -> exists /\ record[a.field] \notin a.value

\* Bug: one of several matches is judged, all its assertions being counted.
JudgeAnyMatch(records, e) ==
  LET matches == {r \in records : RecordMatchesWhere(r, e.where)}
      Passing(r) == {k \in DOMAIN e.assertions : AssertionPasses(r, e.assertions[k])}
  IN  IF matches = {} THEN [passed |-> 0, violations |-> {"state_entity_not_found"}]
      ELSE LET r == CHOOSE x \in matches : TRUE
           IN  [passed |-> Cardinality(Passing(r)),
                violations |-> (IF Cardinality(matches) > 1 THEN {"state_entity_ambiguous"} ELSE {})
                  \cup {"state_assertion_failed" : k \in DOMAIN e.assertions \ Passing(r)}]

\* An expectation must match one record exactly.
EvaluateExpectation(records, e) ==
  LET matches == {r \in records : RecordMatchesWhere(r, e.where)}
      Passing(r) == {k \in DOMAIN e.assertions : AssertionPasses(r, e.assertions[k])}
  IN  CASE matches = {} -> [passed |-> 0, violations |-> {"state_entity_not_found"}]
        [] Cardinality(matches) > 1 -> [passed |-> 0, violations |-> {"state_entity_ambiguous"}]
        [] OTHER -> LET r == CHOOSE x \in matches : TRUE
                    IN  [passed |-> Cardinality(Passing(r)),
                         violations |-> {"state_assertion_failed" : k \in DOMAIN e.assertions \ Passing(r)}]

AssertionCounts(expectations) == [k \in DOMAIN expectations |-> Len(expectations[k].assertions)]

EvaluateState(expectations) ==
  LET verdict == [k \in DOMAIN expectations |->
                    EvaluateExpectation(StateSnapshot[expectations[k].entity], expectations[k])]
  IN  Result(SumOf([k \in DOMAIN expectations |-> verdict[k].passed]), SumOf(AssertionCounts(expectations)),
             UNION {verdict[k].violations \X {k} : k \in DOMAIN expectations})

-----------------------------------------------------------------------------
(* The report.                                                             *)

\* evaluate_run_from_session
Results(task) ==
  <<EvaluateState(task.expectations), EvaluateTrace(task.required, task.forbidden),
    EvaluateTemporal(task.rules), EvaluateBudget(task.budget)>>

\* build_evaluation_report
Report(task) ==
  LET results == Results(task)
  IN  [runtime_passed |-> status = "succeeded",
       passed |-> status = "succeeded" /\ \A k \in 1..4 : results[k].passed,
       overall_score |-> Rounded(SumOf([k \in 1..4 |-> results[k].score]), 4)]

-----------------------------------------------------------------------------
(* What the history says.                                                  *)

\* evaluate_run refuses any other.
Evaluable == status # "running"

\* The reconciler has ended the run: it has failed, and no process is there that has ended it.
Closed == status = "failed" /\ ~alive

\* The ledger has learned that an operation took effect: its call was answered, or a recovery
\* has looked for the effect when it was there.
Learned(o) ==
  \E j \in DOMAIN log :
    /\ log[j] = Event("took_effect", o)
    /\ \E k \in DOMAIN log : j < k /\ log[k] \in {Event("answered", o), Event("looked", o)}

\* A recovery or the reconciler has decided what a timeout left open.
Decided(o) == Closed \/ \E k \in DOMAIN log : log[k] = Event("looked", o)

\* What an entry of the log is for the oracles.
EventOf(k) ==
  LET e == log[k]
  IN  CASE e.event \in TraceEvents -> e.event
        [] e.event \in {"answered", "raised"} \/ (e.event = "timed_out" /\ Decided(e.operation)) ->
             IF Learned(e.operation) THEN "tool_succeeded" ELSE "tool_failed"
        [] OTHER -> "none"

Happened == [k \in DOMAIN log |-> EventOf(k)]

-----------------------------------------------------------------------------
(* Properties.                                                             *)

\* The trace oracle counts from the rows exactly what has happened: every call the ledger has
\* claimed, also a repeated one that was answered from it; a rejection for every refused call;
\* a success for every operation that took effect and whose call was answered or whose
\* effect a recovery has found; and a failure for every other end on record.  Such a failure is
\* no proof that nothing took place: its COMMIT may have raised, have landed after recovery
\* had looked, or never have been looked for before the reconciler gave up.  A timeout nobody
\* has decided, a process that died and a ledger that failed leave no outcome to count.
TraceMatchesHistory ==
  Evaluable => LET happened == Happened IN \A tool \in Tools, event \in TraceEvents :
    LET Is(k) == /\ operations[log[k].operation].tool = tool
                 /\ happened[k] \in {event} \cup IF event = "tool_called" THEN {"tool_replayed"} ELSE {}
    IN  CountTraceEvent([tool |-> tool, event |-> event]) = Cardinality({k \in DOMAIN log : Is(k)})

\* A temporal rule passes exactly when the events it names, successes and failures being those
\* that TraceMatchesHistory counts, happened in its order, the verdict of a recovery or of the
\* reconciler standing where the call ended, whichever clocks the timestamps come from.
\* Repeated calls are not events of their own.  The clocks matter only inside a refused
\* operation, whose call is timed by the database and whose end by the application.
TemporalMatchesHistory ==
  Evaluable => LET occurrences == Occurrences
                   happened == Happened
               IN \A task \in Tasks : \A n \in DOMAIN task.rules :
    LET rule == task.rules[n]
        Matches(ref) == {k \in DOMAIN log : operations[log[k].operation].tool = ref.tool
                                              /\ happened[k] = ref.event}
        Of(matches, ref) == CHOOSE k \in matches : \A j \in matches :
                              IF ref.occurrence = "first" THEN k <= j ELSE j <= k
        firsts == Matches(rule.first)
        seconds == Matches(rule.second)
        first == Of(firsts, rule.first)
        second == Of(seconds, rule.second)
        observed == firsts # {} /\ seconds # {}
        ordered == IF rule.relation = "before" THEN first < second ELSE first > second
        twoClocks == /\ skew > 0
                     /\ log[first].operation = log[second].operation
                     /\ operations[log[first].operation].started = Never
    IN  \/ RuleVerdict(occurrences, rule) = "passed" <=> observed /\ ordered
        \/ observed /\ twoClocks

\* Fewer than 400000 rules are few enough for six digits to tell one violation from none.
FewRules(task) ==
  LET Few(total) == 5 * total < 2 * Full
  IN  /\ Few(SumOf(AssertionCounts(task.expectations)))
      /\ Few(Len(task.required) + Len(task.forbidden))
      /\ Few(Len(task.rules))

FewTasks == {t \in Tasks : FewRules(t)}

\* The score of a report is full exactly when the report says passed, apart from the status of
\* the run, which has no score: no rounding hides a violation, a rule that matches too much
\* costs its assertions, and what was not recorded costs its metric.
ScoresMatchVerdicts ==
  Evaluable => \A task \in FewTasks :
    LET report == Report(task)
    IN  report.passed <=> report.overall_score = Full /\ report.runtime_passed
=============================================================================
