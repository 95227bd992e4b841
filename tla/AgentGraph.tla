----------------------------- MODULE AgentGraph -----------------------------
(***************************************************************************)
(* One AgentRun inside its graph: the model node and the tools node         *)
(* (app/agent/nodes.py) with their routes (app/agent/graph.py), the steps   *)
(* they record (app/agent/recorder.py), the checkpoints a resumed run       *)
(* starts from, and the tool operations behind it, of which the graph knows *)
(* what OperationPromise says (ToolOperations implements it).               *)
(*                                                                         *)
(* The run is executed in segments, by one executor at a time (RunLifecycle *)
(* shows why).  LangGraph saves the state behind the node's back while the  *)
(* next node already runs: a crash leaves any state of the segment as the   *)
(* last checkpoint, and the steps recorded after it stay.                   *)
(***************************************************************************)
EXTENDS Naturals, Sequences, FiniteSets

CONSTANTS
  Ids,          \* tool_call_ids; the idempotency key is the digest of the id, and
                \* all calls without an id share "missing_tool_call_id"
  Requests,     \* (tool name, arguments)
  NoRequest,
  Batches,      \* the tool_calls a model may answer with; << >> is a final answer
  MaxSteps, MaxToolCalls,  \* the budgets of the task
  MaxSegments,  \* bound on the segments of the run
  Faults        \* what the environment may do, see GraphFaults

\* crash         the process executing the segment dies
\* ledger_error  the gateway cannot claim an operation
\* step_error    a transaction of the recorder raises, whether or not it took effect
\* model_error   the model raises
\* session_error the session of a tool call cannot be opened or closed
GraphFaults == {"crash", "ledger_error", "step_error", "model_error", "session_error"}

Calls == [id : Ids, request : Requests]

ASSUME GraphAssumption ==
  /\ NoRequest \notin Requests
  /\ Batches \subseteq Seq(Calls)
  /\ MaxSteps \in Nat \ {0}
  /\ MaxToolCalls \in Nat
  /\ MaxSegments \in Nat
  /\ Faults \subseteq GraphFaults

VARIABLES
  interrupts,   \* pause_before_tools
  run,          \* running, paused, claimed (its executor died after a resume),
                \* lost (it died before the first pause), succeeded, failed
  totals,       \* total_steps and total_tool_calls of agent_runs
  segment,      \* resume_count + 1
  state,        \* AgentState and the node that comes next
  durable,      \* the last checkpoint that is certainly saved
  unsaved,      \* later states of the segment, saved or not
  pc,           \* idle, between (nodes), asked (the model), batch (between two calls),
                \* calling (the gateway), executing, answered, raised
  released,     \* the breakpoint of the resumed checkpoint does not hold again
  results,      \* tool messages of the batch so far
  answer,       \* response.status of the call that was just answered
  steps,        \* run_steps: step_no -> row
  opRequest, outcome, applied  \* tool_operations of the run, by tool_call_id

graphVars == <<state, durable, unsaved, pc, released, results, answer>>
runVars == <<interrupts, run, totals, segment>>
ledgerVars == <<opRequest, outcome, applied>>
vars == <<graphVars, runVars, steps, ledgerVars>>

Ledger == INSTANCE OperationPromise WITH Ops <- Ids, Certain <- FALSE

NoAnswer == "none"
NoError == "none"
NoStep == 0
NoOutput == << >>

\* A message is known by the segment that produced it: add_messages gives every
\* message an id of its own, and serialize_message records it.
AnswerMessage(calls) == [kind |-> "ai", segment |-> segment, calls |-> calls, answer |-> NoAnswer]
ToolMessage(status)  == [kind |-> "tool", segment |-> segment, calls |-> << >>, answer |-> status]

Message == [kind : {"ai", "tool"}, segment : Nat, calls : Seq(Calls),
            answer : {"succeeded", "failed", "rejected", NoAnswer}]

Errors == {"agent_step_budget_exceeded", "agent_model_error",
           "agent_tool_budget_exceeded", "agent_tool_execution_error"}

GraphState ==
  [messages : Seq(Message), stepCount : Nat, toolCallCount : Nat, runStepCount : Nat,
   lastStep : Nat, error : Errors \cup {NoError}, next : {"model", "tools", "end"}]

\* The request of the user is left out of messages: it never changes.
InitialState ==
  [messages |-> << >>, stepCount |-> 0, toolCallCount |-> 0, runStepCount |-> 0,
   lastStep |-> NoStep, error |-> NoError, next |-> "model"]

LastMessage == state.messages[Len(state.messages)]
Batch == LastMessage.calls
Call == Batch[Len(results) + 1]
ModelStepNo == state.runStepCount + 1
ToolStepNo == state.runStepCount + Len(results) + 1

(***************************************************************************)
(* run_steps.                                                              *)
(***************************************************************************)

\* start_step: what a step is defined by; a recorded step is taken up again only
\* if all of it agrees.  The step number stands for the id of its row.
ModelStep == [type |-> "model", parent |-> state.lastStep, input |-> state.messages]
ToolStep  == [type |-> "tool",  parent |-> state.lastStep, input |-> <<Call>>]

Definition(row) == [type |-> row.type, parent |-> row.parent, input |-> row.input]

Recorded(n) == n \in DOMAIN steps

\* Bug: what a step was given is not compared.
ReplayableBySlot(n, step) ==
  Recorded(n) => steps[n].type = step.type /\ steps[n].parent = step.parent

Replayable(n, step) == Recorded(n) => Definition(steps[n]) = step

PutRow(n, row) == [m \in DOMAIN steps \cup {n} |-> IF m = n THEN row ELSE steps[m]]

\* A step that succeeded stays so until it is finished again.
StartedStep(n, step) ==
  IF Recorded(n) /\ steps[n].status = "succeeded"
  THEN steps
  ELSE PutRow(n, [type |-> step.type, parent |-> step.parent, input |-> step.input,
                  status |-> "running", output |-> NoOutput])

FinishedStep(n, status, output) ==
  PutRow(n, [steps[n] EXCEPT !.status = status, !.output = output])

\* start_step raises: a conflict, or its transaction fails.
StartStepRaises(n, step) ==
  \/ ~Replayable(n, step) /\ UNCHANGED steps
  \/ "step_error" \in Faults /\ UNCHANGED steps
  \/ "step_error" \in Faults /\ Replayable(n, step) /\ steps' = StartedStep(n, step)

\* finish_step raises: the node raises, and with it the graph.
FinishStepRaises(n, status, output) ==
  /\ "step_error" \in Faults
  /\ steps' \in {steps, FinishedStep(n, status, output)}
  /\ pc' = "raised"
  /\ UNCHANGED <<state, durable, unsaved, released, results, answer, runVars, ledgerVars>>

-----------------------------------------------------------------------------

Init ==
  /\ interrupts \in BOOLEAN
  /\ run = "running"
  /\ totals = [steps |-> 0, calls |-> 0]
  /\ segment = 1
  /\ state = InitialState /\ durable = InitialState
  /\ unsaved = {}
  /\ pc = "between" /\ released = FALSE
  /\ results = << >> /\ answer = NoAnswer
  /\ steps = << >>
  /\ opRequest = [k \in Ids |-> NoRequest]
  /\ outcome = [k \in Ids |-> "none"] /\ applied = [k \in Ids |-> FALSE]

\* The node returns an update, which becomes the next state of the graph.
NodeReturns(s) ==
  /\ state' = s
  /\ unsaved' = unsaved \cup {s}
  /\ pc' = "between"
  /\ released' = FALSE
  /\ results' = << >>
  /\ answer' = NoAnswer
  /\ UNCHANGED durable

NodeGoesOn(where) ==
  /\ pc' = where
  /\ UNCHANGED <<state, durable, unsaved, released>>

(***************************************************************************)
(* The model node.                                                         *)
(***************************************************************************)

AtModel == pc = "between" /\ state.next = "model"

\* Bug: the exhausted budget ends the run without an error.
ModelStopsQuietly ==
  /\ AtModel
  /\ state.stepCount >= MaxSteps
  /\ NodeReturns([state EXCEPT !.next = "end"])
  /\ UNCHANGED <<runVars, steps, ledgerVars>>

ModelOverBudget ==
  /\ AtModel
  /\ state.stepCount >= MaxSteps
  /\ NodeReturns([state EXCEPT !.error = "agent_step_budget_exceeded", !.next = "end"])
  /\ UNCHANGED <<runVars, steps, ledgerVars>>

ModelStarts ==
  /\ AtModel
  /\ state.stepCount < MaxSteps
  /\ Replayable(ModelStepNo, ModelStep)
  /\ steps' = StartedStep(ModelStepNo, ModelStep)
  /\ NodeGoesOn("asked")
  /\ UNCHANGED <<results, answer, runVars, ledgerVars>>

ModelError(lastStep) ==
  NodeReturns([state EXCEPT
    !.stepCount = @ + 1, !.runStepCount = ModelStepNo, !.lastStep = lastStep,
    !.error = "agent_model_error", !.next = "end"])

ModelStepRefused ==
  /\ AtModel
  /\ state.stepCount < MaxSteps
  /\ StartStepRaises(ModelStepNo, ModelStep)
  /\ ModelError(state.lastStep)
  /\ UNCHANGED <<runVars, ledgerVars>>

\* route_after_model goes to the tools if the answer asks for any.
ModelAnswers ==
  /\ pc = "asked"
  /\ \E calls \in Batches :
       /\ steps' = FinishedStep(ModelStepNo, "succeeded", AnswerMessage(calls))
       /\ NodeReturns([state EXCEPT
            !.messages = Append(@, AnswerMessage(calls)),
            !.stepCount = @ + 1, !.runStepCount = ModelStepNo, !.lastStep = ModelStepNo,
            !.next = IF calls = << >> THEN "end" ELSE "tools"])
  /\ UNCHANGED <<runVars, ledgerVars>>

ModelFails ==
  /\ pc = "asked"
  /\ "model_error" \in Faults
  /\ steps' = FinishedStep(ModelStepNo, "failed", NoOutput)
  /\ ModelError(ModelStepNo)
  /\ UNCHANGED <<runVars, ledgerVars>>

ModelWriteFails ==
  /\ pc = "asked"
  /\ \/ \E calls \in Batches :
          FinishStepRaises(ModelStepNo, "succeeded", AnswerMessage(calls))
     \/ "model_error" \in Faults /\ FinishStepRaises(ModelStepNo, "failed", NoOutput)

(***************************************************************************)
(* The tools node.                                                         *)
(***************************************************************************)

\* Bug: a resumed graph is compiled without its breakpoint.
EntersToolsUnasked == pc = "between" /\ state.next = "tools"

\* interrupt_before: a segment stops before the tools unless it was resumed there.
EntersTools == pc = "between" /\ state.next = "tools" /\ (interrupts => released)

\* Bug: the calls of the batch are not counted in.
OneMoreFits == state.toolCallCount < MaxToolCalls

WithinBudget == state.toolCallCount + Len(Batch) <= MaxToolCalls

ToolsOverBudget ==
  /\ EntersTools
  /\ ~WithinBudget
  /\ NodeReturns([state EXCEPT
       !.messages = @ \o [i \in 1 .. Len(Batch) |-> ToolMessage("rejected")],
       !.error = "agent_tool_budget_exceeded", !.next = "end"])
  /\ UNCHANGED <<runVars, steps, ledgerVars>>

BeforeCall == (EntersTools /\ WithinBudget) \/ pc = "batch"

ToolStarts ==
  /\ BeforeCall
  /\ Replayable(ToolStepNo, ToolStep)
  /\ steps' = StartedStep(ToolStepNo, ToolStep)
  /\ NodeGoesOn("calling")
  /\ UNCHANGED <<results, answer, runVars, ledgerVars>>

\* An exception ends the batch: its results are dropped, its calls not counted.
ToolError(lastStep) ==
  NodeReturns([state EXCEPT
    !.runStepCount = ToolStepNo, !.lastStep = lastStep,
    !.error = "agent_tool_execution_error", !.next = "end"])

ToolStepRefused ==
  /\ BeforeCall
  /\ StartStepRaises(ToolStepNo, ToolStep)
  /\ ToolError(IF results = << >> THEN state.lastStep ELSE ToolStepNo - 1)
  /\ UNCHANGED <<runVars, ledgerVars>>

Answered(status) ==
  /\ NodeGoesOn("answered")
  /\ answer' = status
  /\ UNCHANGED <<results, runVars, steps>>

\* _response_from_existing, whatever was asked for: "failed" stands for every answer
\* but success, a refusal of the tool included.
RecordedAnswer == IF outcome[Call.id] = "done" THEN "succeeded" ELSE "failed"

\* ToolGateway.execute, as its caller sees it.  A recorded operation is answered
\* from its row, if it was the same request.
ReplayedAnswer == IF opRequest[Call.id] # Call.request THEN "rejected" ELSE RecordedAnswer

CallReplayed ==
  /\ pc = "calling"
  /\ outcome[Call.id] # "none"
  /\ Answered(ReplayedAnswer)
  /\ UNCHANGED ledgerVars

ClaimFails ==
  /\ pc = "calling"
  /\ "ledger_error" \in Faults
  /\ Answered("failed")
  /\ UNCHANGED ledgerVars

CallClaimed ==
  /\ pc = "calling"
  /\ Ledger!Open(Call.id)
  /\ opRequest' = [opRequest EXCEPT ![Call.id] = Call.request]
  /\ NodeGoesOn("executing")
  /\ UNCHANGED <<results, answer, runVars, steps>>

CallSucceeds ==
  /\ pc = "executing"
  /\ outcome[Call.id] = "done"
  /\ Answered("succeeded")
  /\ UNCHANGED ledgerVars

\* Bug: the handler runs without a timeout.
WaitsForOperation ==
  /\ pc = "executing"
  /\ outcome[Call.id] = "not_done"
  /\ Answered("failed")
  /\ UNCHANGED ledgerVars

\* Refused, failed, timed out, or executed and not saved: all end in a failed step.
CallFails ==
  /\ pc = "executing"
  /\ Answered("failed")
  /\ UNCHANGED ledgerVars

StatusOf(response) == IF response = "succeeded" THEN "succeeded" ELSE "failed"

\* The node returns with its last call; route_after_tools goes back to the model.
ToolFinishes ==
  /\ pc = "answered"
  /\ steps' = FinishedStep(ToolStepNo, StatusOf(answer), ToolMessage(answer))
  /\ IF Len(results) + 1 = Len(Batch)
     THEN NodeReturns([state EXCEPT
            !.messages = @ \o Append(results, ToolMessage(answer)),
            !.toolCallCount = @ + Len(Batch),
            !.runStepCount = ToolStepNo, !.lastStep = ToolStepNo, !.next = "model"])
     ELSE /\ NodeGoesOn("batch")
          /\ results' = Append(results, ToolMessage(answer))
          /\ answer' = NoAnswer
  /\ UNCHANGED <<runVars, ledgerVars>>

\* The session of the call raises, before the gateway is called or after it.
ToolRaises ==
  /\ pc \in {"calling", "answered"}
  /\ "session_error" \in Faults
  /\ steps' = FinishedStep(ToolStepNo, "failed", NoOutput)
  /\ ToolError(ToolStepNo)
  /\ UNCHANGED <<runVars, ledgerVars>>

ToolWriteFails ==
  \/ /\ pc = "answered"
     /\ FinishStepRaises(ToolStepNo, StatusOf(answer), ToolMessage(answer))
  \/ /\ pc \in {"calling", "answered"}
     /\ "session_error" \in Faults
     /\ FinishStepRaises(ToolStepNo, "failed", NoOutput)

\* The gateway, the database and the recovery service settle operations whenever
\* they please.
OperationMoves ==
  /\ \E k \in Ids : Ledger!Apply(k) \/ Ledger!Done(k) \/ Ledger!NotDone(k)
  /\ UNCHANGED <<graphVars, runVars, steps, opRequest>>

(***************************************************************************)
(* The segment.                                                            *)
(***************************************************************************)

\* The executor leaves; all states of the segment have been saved.
SegmentEnds ==
  /\ pc' = "idle"
  /\ durable' = state
  /\ unsaved' = {}
  /\ released' = FALSE
  /\ results' = << >>
  /\ answer' = NoAnswer
  /\ UNCHANGED <<interrupts, segment, state, steps, ledgerVars>>

CountsOfState == [steps |-> state.stepCount, calls |-> state.toolCallCount]

RowsOf(type) == {n \in DOMAIN steps : steps[n].type = type}

CountsOfRows == [steps |-> Cardinality(RowsOf("model")), calls |-> Cardinality(RowsOf("tool"))]

\* _record_pause
Pause ==
  /\ pc = "between" /\ state.next = "tools"
  /\ interrupts /\ ~released
  /\ run' = "paused"
  /\ totals' = CountsOfState
  /\ SegmentEnds

\* _finalize_result
Finalize ==
  /\ pc = "between" /\ state.next = "end"
  /\ run' = IF state.error = NoError THEN "succeeded" ELSE "failed"
  /\ totals' = CountsOfState
  /\ SegmentEnds

\* _finalize_exception
FinalizeException ==
  /\ pc = "raised"
  /\ run' = "failed"
  /\ totals' = CountsOfRows
  /\ SegmentEnds

\* The process dies.  Before the first pause nobody can resume the run.
Crash ==
  /\ pc # "idle"
  /\ "crash" \in Faults
  /\ pc' = "idle"
  /\ durable' \in unsaved \cup {durable}
  /\ state' = durable'
  /\ unsaved' = {}
  /\ released' = FALSE
  /\ results' = << >>
  /\ answer' = NoAnswer
  /\ run' = IF segment = 1 THEN "lost" ELSE "claimed"
  /\ UNCHANGED <<interrupts, totals, segment, steps, ledgerVars>>

\* A claimed run is released by the reconciler before it is resumed.
Resume ==
  /\ run \in {"paused", "claimed"}
  /\ segment < MaxSegments
  /\ run' = "running"
  /\ segment' = segment + 1
  /\ state' = durable
  /\ pc' = "between"
  /\ released' = TRUE
  /\ results' = << >>
  /\ answer' = NoAnswer
  /\ UNCHANGED <<durable, unsaved, interrupts, totals, steps, ledgerVars>>

-----------------------------------------------------------------------------

ModelNode ==
  \/ ModelOverBudget \/ ModelStarts \/ ModelStepRefused
  \/ ModelAnswers \/ ModelFails \/ ModelWriteFails

ToolsNode ==
  \/ ToolsOverBudget \/ ToolStarts \/ ToolStepRefused
  \/ CallReplayed \/ ClaimFails \/ CallClaimed \/ CallSucceeds \/ CallFails
  \/ ToolFinishes \/ ToolRaises \/ ToolWriteFails

Leaves == Pause \/ Finalize \/ FinalizeException

Next == ModelNode \/ ToolsNode \/ OperationMoves \/ Leaves \/ Crash \/ Resume

Spec == Init /\ [][Next]_vars

(***************************************************************************)
(* Properties.                                                             *)
(***************************************************************************)

Rows ==
  [type : {"model", "tool"}, parent : Nat, input : Seq(Message) \cup Seq(Calls),
   status : {"running", "succeeded", "failed"}, output : {NoOutput} \cup Message]

\* AgentState, checkpoints, steps and operations have the shapes the code gives them.
TypeOK ==
  /\ interrupts \in BOOLEAN
  /\ run \in {"running", "paused", "claimed", "lost", "succeeded", "failed"}
  /\ totals \in [steps : Nat, calls : Nat]
  /\ segment \in Nat
  /\ state \in GraphState /\ durable \in GraphState /\ unsaved \subseteq GraphState
  /\ pc \in {"idle", "between", "asked", "batch", "calling", "executing", "answered", "raised"}
  /\ released \in BOOLEAN
  /\ results \in Seq(Message)
  /\ answer \in {"succeeded", "failed", "rejected", NoAnswer}
  /\ DOMAIN steps \subseteq Nat \ {NoStep}
  /\ \A n \in DOMAIN steps : steps[n] \in Rows
  /\ opRequest \in [Ids -> Requests \cup {NoRequest}]
  /\ Ledger!TypeOK

\* The steps that record a conversation: one per message, a model step with the
\* messages it was shown, a tool step with the call it made, each tool step under
\* the model step that asked for it.
RecordsMessage(n, messages) ==
  LET row == steps[n] IN
  /\ Recorded(n)
  /\ row.output = messages[n]
  /\ row.type = (IF messages[n].kind = "ai" THEN "model" ELSE "tool")
  /\ row.type = "model" =>
       /\ row.input = SubSeq(messages, 1, n - 1)
       /\ row.parent = n - 1
  /\ row.type = "tool" =>
       /\ row.parent \in 1 .. n - 1
       /\ messages[row.parent].kind = "ai"
       /\ n - row.parent \in DOMAIN messages[row.parent].calls
       /\ row.input = <<messages[row.parent].calls[n - row.parent]>>

\* However often it was interrupted, a run that succeeded has recorded the
\* conversation that led to its answer and nothing else: no step of an abandoned
\* attempt, no step without end, none that was fed with other messages.
TraceIsHistory ==
  run = "succeeded" =>
    /\ DOMAIN steps = 1 .. Len(durable.messages)
    /\ \A n \in DOMAIN steps : RecordsMessage(n, durable.messages)
    /\ totals = CountsOfRows

\* A run succeeds with an answer, never because it ran out of a budget or stopped
\* between two nodes.
SuccessIsAnAnswer ==
  run = "succeeded" =>
    /\ durable.messages # << >>
    /\ LET last == durable.messages[Len(durable.messages)] IN
         last.kind = "ai" /\ last.calls = << >>

\* Every operation of the run, also of one that was killed or has failed, is the
\* call of a recorded tool step, and that call was asked for by the model step
\* recorded as its parent.
OperationsAreTraced ==
  \A k \in Ids : outcome[k] # "none" =>
    \E n \in RowsOf("tool") :
      LET parent == steps[n].parent IN
      /\ steps[n].input = <<[id |-> k, request |-> opRequest[k]]>>
      /\ Recorded(parent) /\ steps[parent].type = "model"
      /\ steps[parent].output # NoOutput
      /\ n - parent \in DOMAIN steps[parent].output.calls
      /\ steps[n].input[1] = steps[parent].output.calls[n - parent]

\* Crashes, resumes and repeated nodes do not add up to more steps, or more tool
\* calls, than the task allows.
BudgetsHold ==
  /\ Cardinality(RowsOf("model")) <= MaxSteps
  /\ Cardinality(RowsOf("tool")) <= MaxToolCalls
  /\ Cardinality({k \in Ids : applied[k]}) <= MaxToolCalls

\* A tool step that is recorded as succeeded is about an operation that took
\* effect, and about its own request.
SucceededStepsHappened ==
  \A n \in RowsOf("tool") : steps[n].status = "succeeded" =>
    LET call == steps[n].input[1] IN
    /\ opRequest[call.id] = call.request
    /\ applied[call.id]

\* recorder.py: a step that has completed is not downgraded when it is repeated;
\* the gateway replays the original result.
CompletedStepsStand ==
  [][\A n \in DOMAIN steps :
       steps[n].status = "succeeded" => steps'[n].status = "succeeded"]_vars

(***************************************************************************)
(* Liveness.  The event loop runs the segment's coroutine, asyncio.timeout  *)
(* and the client of the model answer every call; nothing is assumed of     *)
(* operations, crashes or resumes.                                         *)
(***************************************************************************)

Fairness == WF_vars(ModelNode) /\ WF_vars(ToolsNode) /\ WF_vars(Leaves)

LiveSpec == Spec /\ Fairness

\* A segment ends: the budgets bound the loop of model and tools, and no node waits
\* for an operation to be settled.  (RunLifecycle relies on it for GraphEnds.)
SegmentsEnd == pc # "idle" ~> pc = "idle"

=============================================================================
