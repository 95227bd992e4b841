-------------------------- MODULE AgentGraphProofs --------------------------
(***************************************************************************)
(* For every set of batches and all budgets: the types of AgentGraph, and  *)
(* what a step recorded as succeeded says about its operation.             *)
(***************************************************************************)
EXTENDS AgentGraph, FiniteSetTheorems, TLAPS

\* Before the tools there is an answer that asks for some.
AsksForTools(s) ==
  s.next = "tools" =>
    s.messages # << >> /\ s.messages[Len(s.messages)].calls # << >>

NodeOK ==
  /\ state \in GraphState /\ AsksForTools(state)
  /\ durable \in GraphState /\ AsksForTools(durable)
  /\ unsaved \subseteq GraphState /\ \A s \in unsaved : AsksForTools(s)
  /\ pc \in {"idle", "between", "asked", "batch", "calling", "executing", "answered", "raised"}
  /\ released \in BOOLEAN
  /\ results \in Seq(Message)
  /\ answer \in {"succeeded", "failed", "rejected", NoAnswer}

RunOK ==
  /\ interrupts \in BOOLEAN
  /\ run \in {"running", "paused", "claimed", "lost", "succeeded", "failed"}
  /\ totals \in [steps : Nat, calls : Nat]
  /\ segment \in Nat

RowsOK ==
  /\ DOMAIN steps \subseteq Nat \ {NoStep}
  /\ IsFiniteSet(DOMAIN steps)
  /\ \A n \in DOMAIN steps :
       /\ steps[n] \in Rows
       /\ steps[n].type = "tool" => steps[n].input[1] \in Calls

OperationsOK ==
  /\ opRequest \in [Ids -> Requests \cup {NoRequest}]
  /\ Ledger!TypeOK
  /\ \A k \in Ids : outcome[k] = "done" => applied[k]

InCall == {"calling", "executing", "answered"}

\* Where an executor is in its node, and the row it has opened there.
Place ==
  /\ pc \in {"idle", "between", "asked"} => results = << >>
  /\ pc \in {"batch"} \cup InCall => state.next = "tools" /\ Len(results) < Len(Batch)
  /\ pc = "asked" =>
       /\ Recorded(ModelStepNo)
       /\ steps[ModelStepNo].type = "model"
  /\ pc \in InCall =>
       /\ Recorded(ToolStepNo)
       /\ steps[ToolStepNo].type = "tool"
       /\ steps[ToolStepNo].input = <<Call>>

\* The operation of a call that is being executed is its own, and is done when the
\* call has succeeded; the recorded steps stay true of their operations.
Owned(call) == opRequest[call.id] = call.request
DoneBy(call) == Owned(call) /\ outcome[call.id] = "done"

CallTrusted ==
  /\ pc = "executing" => Owned(Call)
  /\ pc = "answered" /\ answer = "succeeded" => DoneBy(Call)

RowsTrusted ==
  \A n \in RowsOf("tool") : steps[n].status = "succeeded" => DoneBy(steps[n].input[1])

GraphInv ==
  NodeOK /\ RunOK /\ RowsOK /\ OperationsOK /\ Place /\ CallTrusted /\ RowsTrusted

-----------------------------------------------------------------------------

\* The call a node is about is one of the batch, and its step has a number.
LEMMA CallInBatch ==
  ASSUME NodeOK, state.next = "tools", Len(results) < Len(Batch)
  PROVE  /\ LastMessage \in Message /\ Batch \in Seq(Calls) /\ Call \in Calls
         /\ ToolStepNo \in Nat \ {NoStep} /\ Len(results) \in Nat
<1>1. state.messages \in Seq(Message) /\ state.messages # << >> /\ state.runStepCount \in Nat
  BY DEF NodeOK, GraphState, AsksForTools
<1>2. LastMessage \in Message
  BY <1>1 DEF LastMessage
<1>3. Batch \in Seq(Calls)
  BY <1>2 DEF Batch, Message
<1>4. Len(results) \in Nat
  BY DEF NodeOK
<1>5. Len(results) + 1 \in 1 .. Len(Batch)
  BY <1>3, <1>4
<1> QED BY <1>1, <1>2, <1>3, <1>4, <1>5 DEF Call, ToolStepNo, NoStep

LEMMA ModelStepNumbered ==
  ASSUME NodeOK
  PROVE  ModelStepNo \in Nat \ {NoStep} /\ state.lastStep \in Nat /\ state.stepCount \in Nat
BY DEF NodeOK, GraphState, ModelStepNo, NoStep

\* Tools are entered with an empty list of results.
LEMMA EntersCall ==
  ASSUME NodeOK, Place, BeforeCall
  PROVE  state.next = "tools" /\ Len(results) < Len(Batch)
<1>1. CASE pc = "batch"
  BY <1>1 DEF Place
<1>2. CASE EntersTools
  <2>1. results = << >> /\ state.next = "tools"
    BY <1>2 DEF Place, EntersTools
  <2>2. state.messages \in Seq(Message) /\ state.messages # << >> /\ Batch # << >>
    BY <2>1 DEF NodeOK, GraphState, AsksForTools, Batch, LastMessage
  <2>3. LastMessage \in Message
    BY <2>2 DEF LastMessage
  <2>4. Batch \in Seq(Calls)
    BY <2>3 DEF Batch, Message
  <2> QED BY <2>1, <2>2, <2>4
<1> QED BY <1>1, <1>2 DEF BeforeCall

-----------------------------------------------------------------------------
(* The recorder. *)

\* A typed row put in its place keeps the table typed and finite.
LEMMA PutTyped ==
  ASSUME RowsOK, NEW n \in Nat \ {NoStep}, NEW row \in Rows,
         row.type = "tool" => row.input[1] \in Calls,
         steps' = PutRow(n, row)
  PROVE  /\ RowsOK'
         /\ DOMAIN steps' = DOMAIN steps \cup {n}
         /\ \A m \in DOMAIN steps' : steps'[m] = IF m = n THEN row ELSE steps[m]
<1>1. DOMAIN steps' = DOMAIN steps \cup {n}
  BY DEF PutRow
<1>2. \A m \in DOMAIN steps' : steps'[m] = IF m = n THEN row ELSE steps[m]
  BY DEF PutRow
<1>3. IsFiniteSet(DOMAIN steps')
  BY <1>1, FS_AddElement DEF RowsOK
<1> QED BY <1>1, <1>2, <1>3 DEF RowsOK

StepDefinitions ==
  [type : {"model", "tool"}, parent : Nat, input : Seq(Message) \cup Seq(Calls)]

\* start_step leaves a row with the wanted definition, and no new success.
LEMMA StartTyped ==
  ASSUME RowsOK, NEW n \in Nat \ {NoStep}, NEW step \in StepDefinitions,
         step.type = "tool" => step.input[1] \in Calls,
         Replayable(n, step), steps' = StartedStep(n, step)
  PROVE  /\ RowsOK'
         /\ n \in DOMAIN steps' /\ steps'[n].type = step.type /\ steps'[n].input = step.input
         /\ \A m \in DOMAIN steps' : steps'[m].status = "succeeded" =>
              m \in DOMAIN steps /\ steps'[m] = steps[m]
<1>1. CASE Recorded(n) /\ steps[n].status = "succeeded"
  <2>1. steps' = steps /\ Definition(steps[n]) = step
    BY <1>1 DEF StartedStep, Replayable
  <2>2. RowsOK'
    BY <2>1 DEF RowsOK
  <2> QED BY <1>1, <2>1, <2>2 DEF Definition, Recorded
<1>2. CASE ~(Recorded(n) /\ steps[n].status = "succeeded")
  <2> DEFINE row == [type |-> step.type, parent |-> step.parent, input |-> step.input,
                     status |-> "running", output |-> NoOutput]
  <2>1. row \in Rows /\ (row.type = "tool" => row.input[1] \in Calls)
    BY DEF StepDefinitions, Rows
  <2>2. steps' = PutRow(n, row)
    BY <1>2 DEF StartedStep
  <2>3. /\ row.type = step.type /\ row.input = step.input /\ row.status = "running"
    OBVIOUS
  <2> HIDE DEF row
  <2>4. /\ RowsOK'
        /\ DOMAIN steps' = DOMAIN steps \cup {n}
        /\ \A m \in DOMAIN steps' : steps'[m] = IF m = n THEN row ELSE steps[m]
    BY <2>1, <2>2, PutTyped
  <2> QED BY <2>3, <2>4
<1> QED BY <1>1, <1>2

\* finish_step changes the outcome of one row and nothing else.
LEMMA FinishTyped ==
  ASSUME RowsOK, NEW n \in DOMAIN steps, NEW status \in {"succeeded", "failed"},
         NEW output \in {NoOutput} \cup Message,
         steps' = FinishedStep(n, status, output)
  PROVE  /\ RowsOK' /\ DOMAIN steps' = DOMAIN steps
         /\ \A m \in DOMAIN steps :
              /\ steps'[m].type = steps[m].type /\ steps'[m].input = steps[m].input
              /\ steps'[m].status = IF m = n THEN status ELSE steps[m].status
<1> DEFINE row == [steps[n] EXCEPT !.status = status, !.output = output]
<1>1. n \in Nat \ {NoStep} /\ steps[n] \in Rows
  BY DEF RowsOK
<1>2. row \in Rows
  BY <1>1 DEF Rows
<1>3. row.type = steps[n].type /\ row.input = steps[n].input /\ row.status = status
  BY <1>1 DEF Rows
<1>4. steps' = PutRow(n, row)
  BY DEF FinishedStep
<1>5. row.type = "tool" => row.input[1] \in Calls
  BY <1>3 DEF RowsOK
<1> HIDE DEF row
<1>6. /\ RowsOK' /\ DOMAIN steps' = DOMAIN steps \cup {n}
      /\ \A m \in DOMAIN steps' : steps'[m] = IF m = n THEN row ELSE steps[m]
  BY <1>1, <1>2, <1>4, <1>5, PutTyped
<1> QED BY <1>3, <1>6

\* Starting a step keeps the trust in the rows, finishing one does if a success is
\* about an operation that is done.
LEMMA StartTrusted ==
  ASSUME RowsOK, RowsTrusted, UNCHANGED ledgerVars,
         NEW n \in Nat \ {NoStep}, NEW step \in StepDefinitions,
         step.type = "tool" => step.input[1] \in Calls,
         Replayable(n, step), steps' = StartedStep(n, step)
  PROVE  RowsTrusted'
BY StartTyped DEF RowsTrusted, RowsOf, DoneBy, Owned, ledgerVars

LEMMA FinishTrusted ==
  ASSUME RowsOK, RowsTrusted, UNCHANGED ledgerVars,
         NEW n \in DOMAIN steps, NEW status \in {"succeeded", "failed"},
         NEW output \in {NoOutput} \cup Message,
         steps' = FinishedStep(n, status, output),
         steps[n].type = "tool" /\ status = "succeeded" => DoneBy(steps[n].input[1])
  PROVE  RowsTrusted'
<1>1. /\ DOMAIN steps' = DOMAIN steps
      /\ \A m \in DOMAIN steps :
           /\ steps'[m].type = steps[m].type /\ steps'[m].input = steps[m].input
           /\ steps'[m].status = IF m = n THEN status ELSE steps[m].status
  BY FinishTyped
<1>2. \A c : DoneBy(c)' = DoneBy(c)
  BY DEF DoneBy, Owned, ledgerVars
<1> QED BY <1>1, <1>2 DEF RowsTrusted, RowsOf

\* start_step raises, with or without a row of its own.
LEMMA StartRaises ==
  ASSUME RowsOK, RowsTrusted, UNCHANGED ledgerVars,
         NEW n \in Nat \ {NoStep}, NEW step \in StepDefinitions,
         step.type = "tool" => step.input[1] \in Calls,
         StartStepRaises(n, step)
  PROVE  RowsOK' /\ RowsTrusted'
<1>1. CASE UNCHANGED steps
  BY <1>1 DEF RowsOK, RowsTrusted, RowsOf, DoneBy, Owned, ledgerVars
<1>2. CASE Replayable(n, step) /\ steps' = StartedStep(n, step)
  BY <1>2, StartTyped, StartTrusted
<1> QED BY <1>1, <1>2 DEF StartStepRaises

-----------------------------------------------------------------------------
(* The moves of an executor. *)

\* The updates the nodes return are states of the graph again.
LEMMA ErrorOfModel ==
  ASSUME NEW s \in GraphState, NEW count \in Nat, NEW n \in Nat, NEW last \in Nat,
         NEW error \in Errors
  PROVE  [s EXCEPT !.stepCount = count, !.runStepCount = n, !.lastStep = last,
                   !.error = error, !.next = "end"] \in GraphState
BY DEF GraphState

LEMMA AnswerOfModel ==
  ASSUME NEW s \in GraphState, NEW messages \in Seq(Message), NEW count \in Nat,
         NEW n \in Nat, NEW last \in Nat, NEW next \in {"tools", "end"}
  PROVE  [s EXCEPT !.messages = messages, !.stepCount = count, !.runStepCount = n,
                   !.lastStep = last, !.next = next] \in GraphState
BY DEF GraphState

LEMMA ErrorOfTools ==
  ASSUME NEW s \in GraphState, NEW n \in Nat, NEW last \in Nat, NEW error \in Errors
  PROVE  [s EXCEPT !.runStepCount = n, !.lastStep = last,
                   !.error = error, !.next = "end"] \in GraphState
BY DEF GraphState

LEMMA AnswerOfTools ==
  ASSUME NEW s \in GraphState, NEW messages \in Seq(Message), NEW count \in Nat,
         NEW n \in Nat, NEW last \in Nat
  PROVE  [s EXCEPT !.messages = messages, !.toolCallCount = count, !.runStepCount = n,
                   !.lastStep = last, !.next = "model"] \in GraphState
BY DEF GraphState

\* A node that returns leaves the executor between two nodes.
LEMMA ReturnKeeps ==
  ASSUME NodeOK, NEW s \in GraphState, AsksForTools(s), NodeReturns(s)
  PROVE  NodeOK' /\ Place' /\ CallTrusted'
<1>1. state' = s /\ unsaved' = unsaved \cup {s} /\ pc' = "between" /\ results' = << >>
  BY DEF NodeReturns
<1>2. NodeOK'
  <2>1. state' \in GraphState /\ durable' \in GraphState /\ unsaved' \subseteq GraphState
    BY <1>1 DEF NodeReturns, NodeOK
  <2>2. AsksForTools(state)' /\ AsksForTools(durable)' /\ \A t \in unsaved' : AsksForTools(t)
    BY <1>1 DEF NodeReturns, NodeOK, AsksForTools
  <2>3. results' \in Seq(Message) /\ answer' = NoAnswer /\ released' = FALSE
    BY DEF NodeReturns
  <2> QED BY <1>1, <2>1, <2>2, <2>3 DEF NodeOK
<1>3. Place' /\ CallTrusted'
  BY <1>1 DEF Place, CallTrusted, InCall
<1> QED BY <1>2, <1>3

\* A segment that ends keeps its state as the checkpoint.
LEMMA EndKeeps ==
  ASSUME NodeOK, RowsOK, RowsTrusted, OperationsOK, SegmentEnds
  PROVE  NodeOK' /\ Place' /\ CallTrusted' /\ RowsOK' /\ RowsTrusted' /\ OperationsOK'
<1>1. NodeOK'
  <2>1. state' = state /\ durable' = state /\ unsaved' = {} /\ pc' = "idle"
    BY DEF SegmentEnds
  <2>2. AsksForTools(state)' /\ AsksForTools(durable)' /\ \A t \in unsaved' : AsksForTools(t)
    BY <2>1 DEF NodeOK, AsksForTools
  <2>3. results' \in Seq(Message) /\ answer' = NoAnswer /\ released' = FALSE
    BY DEF SegmentEnds
  <2> QED BY <2>1, <2>2, <2>3 DEF NodeOK
<1>2. Place' /\ CallTrusted'
  BY DEF SegmentEnds, Place, CallTrusted, InCall
<1>3. RowsOK' /\ RowsTrusted' /\ OperationsOK'
  BY DEF SegmentEnds, RowsOK, RowsTrusted, RowsOf, DoneBy, Owned, OperationsOK,
         Ledger!TypeOK, ledgerVars
<1> QED BY <1>1, <1>2, <1>3

\* What a step that touches neither the run nor its operations leaves as it is.
LEMMA Frame ==
  ASSUME RunOK, OperationsOK, UNCHANGED <<runVars, ledgerVars>>
  PROVE  RunOK' /\ OperationsOK'
BY DEF RunOK, OperationsOK, Ledger!TypeOK, runVars, ledgerVars

\* finish_step raises out of a node.
LEMMA FinishRaises ==
  ASSUME GraphInv, NEW n \in DOMAIN steps, NEW status \in {"succeeded", "failed"},
         NEW output \in {NoOutput} \cup Message,
         steps[n].type = "tool" /\ status = "succeeded" => DoneBy(steps[n].input[1]),
         FinishStepRaises(n, status, output)
  PROVE  GraphInv'
<1>1. /\ pc' = "raised" /\ steps' \in {steps, FinishedStep(n, status, output)}
      /\ UNCHANGED <<runVars, ledgerVars>>
      /\ UNCHANGED <<state, durable, unsaved, released, results, answer>>
  BY DEF FinishStepRaises
<1>2. NodeOK'
  BY <1>1 DEF GraphInv, NodeOK, AsksForTools
<1>3. Place' /\ CallTrusted'
  BY <1>1 DEF Place, CallTrusted, InCall
<1>4. RunOK' /\ OperationsOK'
  BY <1>1, Frame DEF GraphInv
<1>5. CASE steps' = steps
  BY <1>1, <1>2, <1>3, <1>4, <1>5
  DEF GraphInv, RowsOK, RowsTrusted, RowsOf, DoneBy, Owned, ledgerVars
<1>6. CASE steps' = FinishedStep(n, status, output)
  BY <1>1, <1>2, <1>3, <1>4, <1>6, FinishTyped, FinishTrusted DEF GraphInv
<1> QED BY <1>1, <1>5, <1>6

-----------------------------------------------------------------------------
(* The model node. *)

LEMMA ModelStepDefined ==
  ASSUME NodeOK
  PROVE  ModelStep \in StepDefinitions /\ ModelStep.type # "tool" /\ ModelStep.type = "model"
BY DEF NodeOK, GraphState, ModelStep, StepDefinitions

LEMMA LastAppended ==
  ASSUME NEW messages \in Seq(Message), NEW message \in Message
  PROVE  LET longer == Append(messages, message) IN
         longer # << >> /\ longer[Len(longer)] = message
OBVIOUS

LEMMA ModelErrorKeeps ==
  ASSUME NodeOK, NEW last \in Nat, ModelError(last)
  PROVE  NodeOK' /\ Place' /\ CallTrusted'
<1> DEFINE s == [state EXCEPT
      !.stepCount = @ + 1, !.runStepCount = ModelStepNo, !.lastStep = last,
      !.error = "agent_model_error", !.next = "end"]
<1>1. s \in GraphState /\ AsksForTools(s)
  <2>1. state \in GraphState /\ ModelStepNo \in Nat /\ state.stepCount + 1 \in Nat
    BY ModelStepNumbered DEF NodeOK
  <2>2. s \in GraphState
    BY <2>1, ErrorOfModel DEF Errors
  <2>3. s.next = "end"
    BY <2>1 DEF GraphState
  <2> QED BY <2>2, <2>3 DEF AsksForTools
<1>2. NodeReturns(s)
  BY DEF ModelError
<1> HIDE DEF s
<1> QED BY <1>1, <1>2, ReturnKeeps

LEMMA ModelNodeKeeps ==
  ASSUME GraphInv, ModelNode
  PROVE  GraphInv'
<1> USE DEF GraphInv
<1>1. CASE ModelOverBudget
  <2> DEFINE s == [state EXCEPT !.error = "agent_step_budget_exceeded", !.next = "end"]
  <2>1. s \in GraphState /\ AsksForTools(s)
    BY DEF NodeOK, GraphState, AsksForTools, Errors
  <2>2. NodeReturns(s) /\ UNCHANGED <<runVars, steps, ledgerVars>>
    BY <1>1 DEF ModelOverBudget
  <2> HIDE DEF s
  <2>3. NodeOK' /\ Place' /\ CallTrusted'
    BY <2>1, <2>2, ReturnKeeps
  <2>4. RunOK' /\ OperationsOK'
    BY <2>2, Frame
  <2>5. RowsOK' /\ RowsTrusted'
    BY <2>2 DEF RowsOK, RowsTrusted, RowsOf, DoneBy, Owned, ledgerVars
  <2> QED BY <2>3, <2>4, <2>5
<1>2. CASE ModelStarts
  <2>1. /\ pc = "between" /\ pc' = "asked" /\ UNCHANGED <<runVars, ledgerVars>>
        /\ UNCHANGED <<state, durable, unsaved, released, results, answer>>
        /\ Replayable(ModelStepNo, ModelStep)
        /\ steps' = StartedStep(ModelStepNo, ModelStep)
    BY <1>2 DEF ModelStarts, AtModel, NodeGoesOn
  <2>2. RowsOK' /\ RowsTrusted'
        /\ ModelStepNo \in DOMAIN steps' /\ steps'[ModelStepNo].type = "model"
    BY <2>1, ModelStepNumbered, ModelStepDefined, StartTyped, StartTrusted
  <2>3. NodeOK' /\ CallTrusted'
    BY <2>1 DEF NodeOK, AsksForTools, CallTrusted
  <2>4. Place'
    BY <2>1, <2>2 DEF Place, InCall, Recorded, ModelStepNo
  <2> QED BY <2>1, <2>2, <2>3, <2>4, Frame
<1>3. CASE ModelStepRefused
  <2>1. /\ StartStepRaises(ModelStepNo, ModelStep) /\ ModelError(state.lastStep)
        /\ UNCHANGED <<runVars, ledgerVars>>
    BY <1>3 DEF ModelStepRefused
  <2> QED BY <2>1, ModelStepNumbered, ModelStepDefined, StartRaises, ModelErrorKeeps, Frame
<1>4. CASE ModelAnswers
  <2>1. PICK calls \in Batches :
          /\ steps' = FinishedStep(ModelStepNo, "succeeded", AnswerMessage(calls))
          /\ NodeReturns([state EXCEPT
               !.messages = Append(@, AnswerMessage(calls)),
               !.stepCount = @ + 1, !.runStepCount = ModelStepNo, !.lastStep = ModelStepNo,
               !.next = IF calls = << >> THEN "end" ELSE "tools"])
    BY <1>4 DEF ModelAnswers
  <2>2. /\ ModelStepNo \in DOMAIN steps /\ steps[ModelStepNo].type = "model"
        /\ UNCHANGED <<runVars, ledgerVars>>
    BY <1>4 DEF ModelAnswers, Place, Recorded
  <2>3. AnswerMessage(calls) \in Message /\ AnswerMessage(calls).calls = calls
    BY GraphAssumption DEF AnswerMessage, Message, RunOK
  <2> DEFINE s == [state EXCEPT
        !.messages = Append(@, AnswerMessage(calls)),
        !.stepCount = @ + 1, !.runStepCount = ModelStepNo, !.lastStep = ModelStepNo,
        !.next = IF calls = << >> THEN "end" ELSE "tools"]
  <2>4. s \in GraphState
    <3>1. state \in GraphState /\ ModelStepNo \in Nat /\ state.stepCount + 1 \in Nat
      BY ModelStepNumbered DEF NodeOK
    <3>2. Append(state.messages, AnswerMessage(calls)) \in Seq(Message)
      BY <2>3, <3>1 DEF GraphState
    <3> QED BY <3>1, <3>2, AnswerOfModel
  <2>5. /\ state.messages \in Seq(Message) /\ s.messages = Append(state.messages, AnswerMessage(calls))
        /\ s.next = "tools" => calls # << >>
    BY DEF NodeOK, GraphState
  <2>6. AsksForTools(s)
    <3> HIDE DEF s
    <3>1. /\ s.messages # << >>
          /\ s.messages[Len(s.messages)] = AnswerMessage(calls)
      BY <2>3, <2>5, LastAppended
    <3> QED BY <2>3, <2>5, <3>1 DEF AsksForTools
  <2>7. NodeReturns(s)
    BY <2>1
  <2> HIDE DEF s
  <2>8. NodeOK' /\ Place' /\ CallTrusted'
    BY <2>4, <2>6, <2>7, ReturnKeeps
  <2>9. RowsOK' /\ RowsTrusted'
    BY <2>1, <2>2, <2>3, FinishTyped, FinishTrusted
  <2> QED BY <2>2, <2>8, <2>9, Frame
<1>5. CASE ModelFails
  <2>1. /\ steps' = FinishedStep(ModelStepNo, "failed", NoOutput)
        /\ ModelError(ModelStepNo) /\ UNCHANGED <<runVars, ledgerVars>>
        /\ ModelStepNo \in DOMAIN steps /\ steps[ModelStepNo].type = "model"
    BY <1>5 DEF ModelFails, Place, Recorded
  <2>2. RowsOK' /\ RowsTrusted'
    BY <2>1, FinishTyped, FinishTrusted
  <2> QED BY <2>1, <2>2, ModelStepNumbered, ModelErrorKeeps, Frame
<1>6. CASE ModelWriteFails
  <2>1. ModelStepNo \in DOMAIN steps /\ steps[ModelStepNo].type = "model"
    BY <1>6 DEF ModelWriteFails, Place, Recorded
  <2>2. \A calls \in Batches : AnswerMessage(calls) \in Message
    BY GraphAssumption DEF AnswerMessage, Message, RunOK
  <2> QED BY <1>6, <2>1, <2>2, FinishRaises DEF ModelWriteFails
<1> QED BY <1>1, <1>2, <1>3, <1>4, <1>5, <1>6 DEF ModelNode

-----------------------------------------------------------------------------
(* The tools node. *)

LEMMA ToolStepDefined ==
  ASSUME NodeOK, Call \in Calls
  PROVE  ToolStep \in StepDefinitions /\ ToolStep.type = "tool" /\ ToolStep.input = <<Call>>
         /\ ToolStep.input[1] = Call
<1>1. state.lastStep \in Nat /\ <<Call>> \in Seq(Calls)
  BY DEF NodeOK, GraphState
<1> HIDE DEF Call
<1> QED BY <1>1 DEF ToolStep, StepDefinitions

LEMMA ToolMessageTyped ==
  ASSUME RunOK, NEW status \in {"succeeded", "failed", "rejected", NoAnswer}
  PROVE  ToolMessage(status) \in Message
<1>1. << >> \in Seq(Calls)
  OBVIOUS
<1> QED BY <1>1 DEF ToolMessage, Message, RunOK

LEMMA ToolErrorKeeps ==
  ASSUME NodeOK, ToolStepNo \in Nat, NEW last \in Nat, ToolError(last)
  PROVE  NodeOK' /\ Place' /\ CallTrusted'
<1> DEFINE s == [state EXCEPT
      !.runStepCount = ToolStepNo, !.lastStep = last,
      !.error = "agent_tool_execution_error", !.next = "end"]
<1>1. s \in GraphState
  BY ErrorOfTools DEF NodeOK, Errors
<1>2. s.next = "end"
  BY DEF NodeOK, GraphState
<1>3. NodeReturns(s)
  BY DEF ToolError
<1> HIDE DEF s
<1> QED BY <1>1, <1>2, <1>3, ReturnKeeps DEF AsksForTools

\* The gateway answers: a success is about an operation that is done.
LEMMA AnsweredKeeps ==
  ASSUME GraphInv, pc \in {"calling", "executing"},
         NEW status \in {"succeeded", "failed", "rejected"},
         status = "succeeded" => DoneBy(Call),
         Answered(status), UNCHANGED ledgerVars
  PROVE  GraphInv'
<1>1. /\ pc' = "answered" /\ answer' = status
      /\ UNCHANGED <<state, durable, unsaved, released, results, runVars, steps, ledgerVars>>
  BY DEF Answered, NodeGoesOn
<1>2. NodeOK'
  BY <1>1 DEF GraphInv, NodeOK, AsksForTools
<1>3. Call' = Call /\ ToolStepNo' = ToolStepNo /\ Batch' = Batch
  BY <1>1 DEF Call, ToolStepNo, Batch, LastMessage
<1>4. Place'
  <2>1. /\ state.next = "tools" /\ Len(results) < Len(Batch)
        /\ Recorded(ToolStepNo) /\ steps[ToolStepNo].type = "tool"
        /\ steps[ToolStepNo].input = <<Call>>
    BY DEF GraphInv, Place, InCall
  <2> QED BY <1>1, <1>3, <2>1 DEF Place, InCall, Recorded
<1>5. CallTrusted'
  BY <1>1, <1>3 DEF CallTrusted, DoneBy, Owned, ledgerVars
<1>6. RowsOK' /\ RowsTrusted'
  BY <1>1 DEF GraphInv, RowsOK, RowsTrusted, RowsOf, DoneBy, Owned, ledgerVars
<1> QED BY <1>1, <1>2, <1>4, <1>5, <1>6, Frame DEF GraphInv

\* A row that is being worked on belongs to the current call.
LEMMA CurrentRow ==
  ASSUME GraphInv, pc \in InCall
  PROVE  /\ state.next = "tools" /\ Len(results) < Len(Batch) /\ Call \in Calls
         /\ ToolStepNo \in DOMAIN steps /\ ToolStepNo \in Nat \ {NoStep}
         /\ steps[ToolStepNo].type = "tool" /\ steps[ToolStepNo].input[1] = Call
<1>1. /\ state.next = "tools" /\ Len(results) < Len(Batch)
      /\ ToolStepNo \in DOMAIN steps
      /\ steps[ToolStepNo].type = "tool" /\ steps[ToolStepNo].input = <<Call>>
  BY DEF GraphInv, Place, Recorded
<1>2. Call \in Calls /\ ToolStepNo \in Nat \ {NoStep}
  BY <1>1, CallInBatch DEF GraphInv
<1> HIDE DEF Call
<1> QED BY <1>1, <1>2

LEMMA ToolsOverBudgetKeeps ==
  ASSUME GraphInv, ToolsOverBudget
  PROVE  GraphInv'
<1> DEFINE rejections == [i \in 1 .. Len(Batch) |-> ToolMessage("rejected")]
           s == [state EXCEPT !.messages = @ \o rejections,
                   !.error = "agent_tool_budget_exceeded", !.next = "end"]
<1>1. state.next = "tools" /\ results = << >>
  BY DEF ToolsOverBudget, EntersTools, GraphInv, Place
<1>2. Batch \in Seq(Calls)
  <2>1. state.messages \in Seq(Message) /\ state.messages # << >>
    BY <1>1 DEF GraphInv, NodeOK, GraphState, AsksForTools
  <2>2. LastMessage \in Message
    BY <2>1 DEF LastMessage
  <2> QED BY <2>2 DEF Batch, Message
<1>3. rejections \in Seq(Message)
  <2>1. Len(Batch) \in Nat
    BY <1>2
  <2>2. ToolMessage("rejected") \in Message
    BY ToolMessageTyped DEF GraphInv
  <2> QED BY <2>1, <2>2
<1>4. s \in GraphState /\ s.next = "end"
  <2>1. state \in GraphState /\ state.messages \o rejections \in Seq(Message)
    BY <1>3 DEF GraphInv, NodeOK, GraphState
  <2> HIDE DEF rejections
  <2> QED BY <2>1 DEF GraphState, Errors
<1>5. NodeReturns(s) /\ UNCHANGED <<runVars, steps, ledgerVars>>
  BY DEF ToolsOverBudget
<1> HIDE DEF s
<1>6. NodeOK' /\ Place' /\ CallTrusted'
  BY <1>4, <1>5, ReturnKeeps DEF AsksForTools, GraphInv
<1>7. RowsOK' /\ RowsTrusted'
  BY <1>5 DEF GraphInv, RowsOK, RowsTrusted, RowsOf, DoneBy, Owned, ledgerVars
<1> QED BY <1>5, <1>6, <1>7, Frame DEF GraphInv

\* The last call of a batch returns all of its messages, an earlier one goes on.
LEMMA ToolFinishesKeeps ==
  ASSUME GraphInv, ToolFinishes
  PROVE  GraphInv'
<1>1. /\ pc = "answered" /\ UNCHANGED <<runVars, ledgerVars>>
      /\ steps' = FinishedStep(ToolStepNo, StatusOf(answer), ToolMessage(answer))
  BY DEF ToolFinishes
<1>2. /\ state.next = "tools" /\ Len(results) < Len(Batch) /\ Call \in Calls
      /\ ToolStepNo \in DOMAIN steps /\ ToolStepNo \in Nat \ {NoStep}
      /\ steps[ToolStepNo].type = "tool" /\ steps[ToolStepNo].input[1] = Call
  BY <1>1, CurrentRow DEF InCall
<1>3. ToolMessage(answer) \in Message /\ StatusOf(answer) \in {"succeeded", "failed"}
  BY ToolMessageTyped DEF GraphInv, NodeOK, StatusOf
<1>4. StatusOf(answer) = "succeeded" => DoneBy(steps[ToolStepNo].input[1])
  BY <1>1, <1>2 DEF StatusOf, GraphInv, CallTrusted
<1>5. /\ RowsOK' /\ RowsTrusted' /\ RunOK' /\ OperationsOK'
      /\ DOMAIN steps' = DOMAIN steps
  BY <1>1, <1>2, <1>3, <1>4, FinishTyped, FinishTrusted, Frame DEF GraphInv
<1>6. Append(results, ToolMessage(answer)) \in Seq(Message) /\ Len(results) \in Nat
      /\ Len(Append(results, ToolMessage(answer))) = Len(results) + 1
  BY <1>3 DEF GraphInv, NodeOK
<1>7. CASE Len(results) + 1 = Len(Batch)
  <2> DEFINE messages == state.messages \o Append(results, ToolMessage(answer))
             s == [state EXCEPT
                    !.messages = messages, !.toolCallCount = state.toolCallCount + Len(Batch),
                    !.runStepCount = ToolStepNo, !.lastStep = ToolStepNo, !.next = "model"]
  <2>1. messages \in Seq(Message) /\ state.toolCallCount + Len(Batch) \in Nat
        /\ state \in GraphState
    BY <1>6, <1>7 DEF GraphInv, NodeOK, GraphState
  <2>2. NodeReturns(s)
    BY <1>7 DEF ToolFinishes
  <2> HIDE DEF messages
  <2>3. s \in GraphState
    BY <1>2, <2>1, AnswerOfTools
  <2>4. s.next = "model"
    BY <2>1 DEF GraphState
  <2> HIDE DEF s
  <2>5. NodeOK' /\ Place' /\ CallTrusted'
    BY <2>2, <2>3, <2>4, ReturnKeeps DEF AsksForTools, GraphInv
  <2> QED BY <1>5, <2>5 DEF GraphInv
<1>8. CASE Len(results) + 1 # Len(Batch)
  <2>1. /\ pc' = "batch" /\ UNCHANGED <<state, durable, unsaved, released>>
        /\ results' = Append(results, ToolMessage(answer)) /\ answer' = NoAnswer
    BY <1>8 DEF ToolFinishes, NodeGoesOn
  <2>2. NodeOK'
    BY <1>6, <2>1 DEF GraphInv, NodeOK, AsksForTools
  <2>3. Len(Batch) \in Nat /\ Batch' = Batch
    BY <1>2, <2>1, CallInBatch DEF GraphInv, Batch, LastMessage
  <2>4. Place'
    BY <1>2, <1>6, <1>8, <2>1, <2>3 DEF Place, InCall
  <2>5. CallTrusted'
    BY <2>1 DEF CallTrusted
  <2> QED BY <1>5, <2>2, <2>4, <2>5 DEF GraphInv
<1> QED BY <1>7, <1>8

LEMMA ToolsNodeKeeps ==
  ASSUME GraphInv, ToolsNode
  PROVE  GraphInv'
<1>1. CASE ToolsOverBudget
  BY <1>1, ToolsOverBudgetKeeps
<1>2. ASSUME BeforeCall
      PROVE  /\ state.next = "tools" /\ Len(results) < Len(Batch)
             /\ Call \in Calls /\ ToolStepNo \in Nat \ {NoStep}
             /\ ToolStep \in StepDefinitions /\ ToolStep.type = "tool"
             /\ ToolStep.input = <<Call>> /\ ToolStep.input[1] = Call
  <2>1. state.next = "tools" /\ Len(results) < Len(Batch)
    BY <1>2, EntersCall DEF GraphInv
  <2>2. Call \in Calls /\ ToolStepNo \in Nat \ {NoStep}
    BY <2>1, CallInBatch DEF GraphInv
  <2> QED BY <2>1, <2>2, ToolStepDefined DEF GraphInv
<1>3. CASE ToolStarts
  <2>1. /\ pc' = "calling" /\ UNCHANGED <<runVars, ledgerVars>>
        /\ UNCHANGED <<state, durable, unsaved, released, results, answer>>
        /\ Replayable(ToolStepNo, ToolStep)
        /\ steps' = StartedStep(ToolStepNo, ToolStep) /\ BeforeCall
    BY <1>3 DEF ToolStarts, NodeGoesOn
  <2>2. /\ RowsOK' /\ RowsTrusted'
        /\ ToolStepNo \in DOMAIN steps' /\ steps'[ToolStepNo].type = "tool"
        /\ steps'[ToolStepNo].input = <<Call>>
    BY <1>2, <2>1, StartTyped, StartTrusted DEF GraphInv
  <2>3. NodeOK' /\ CallTrusted'
    BY <2>1 DEF GraphInv, NodeOK, AsksForTools, CallTrusted
  <2>4. Call' = Call /\ ToolStepNo' = ToolStepNo /\ Batch' = Batch
    BY <2>1 DEF Call, ToolStepNo, Batch, LastMessage
  <2>5. Place'
    BY <1>2, <2>1, <2>2, <2>4 DEF Place, InCall, Recorded
  <2> QED BY <2>1, <2>2, <2>3, <2>5, Frame DEF GraphInv
<1>4. CASE ToolStepRefused
  <2> DEFINE last == IF results = << >> THEN state.lastStep ELSE ToolStepNo - 1
  <2>1. /\ StartStepRaises(ToolStepNo, ToolStep) /\ ToolError(last)
        /\ UNCHANGED <<runVars, ledgerVars>> /\ BeforeCall
    BY <1>4 DEF ToolStepRefused
  <2>2. last \in Nat
    BY <1>2, <2>1 DEF GraphInv, NodeOK, GraphState, NoStep
  <2> HIDE DEF last
  <2>3. NodeOK' /\ Place' /\ CallTrusted'
    BY <1>2, <2>1, <2>2, ToolErrorKeeps DEF GraphInv
  <2>4. RowsOK' /\ RowsTrusted'
    BY <1>2, <2>1, StartRaises DEF GraphInv
  <2> QED BY <2>1, <2>3, <2>4, Frame DEF GraphInv
<1>5. CASE CallReplayed
  <2>1. pc = "calling" /\ Answered(ReplayedAnswer) /\ UNCHANGED ledgerVars
    BY <1>5 DEF CallReplayed
  <2>2. /\ ReplayedAnswer \in {"succeeded", "failed", "rejected"}
        /\ ReplayedAnswer = "succeeded" => DoneBy(Call)
    BY DEF ReplayedAnswer, RecordedAnswer, DoneBy, Owned
  <2> QED BY <2>1, <2>2, AnsweredKeeps
<1>6. CASE ClaimFails \/ CallFails
  BY <1>6, AnsweredKeeps DEF ClaimFails, CallFails
<1>7. CASE CallClaimed
  <2>1. /\ pc = "calling" /\ pc' = "executing" /\ UNCHANGED <<runVars, steps>>
        /\ UNCHANGED <<state, durable, unsaved, released, results, answer>>
        /\ opRequest' = [opRequest EXCEPT ![Call.id] = Call.request]
        /\ outcome[Call.id] = "none" /\ UNCHANGED applied
        /\ outcome' = [outcome EXCEPT ![Call.id] = "open"]
    BY <1>7 DEF CallClaimed, NodeGoesOn, Ledger!Open
  <2>2. /\ state.next = "tools" /\ Len(results) < Len(Batch) /\ Call \in Calls
        /\ ToolStepNo \in DOMAIN steps
        /\ steps[ToolStepNo].type = "tool" /\ steps[ToolStepNo].input = <<Call>>
    BY <2>1, CurrentRow DEF InCall, GraphInv, Place
  <2>3. Call.id \in Ids /\ Call.request \in Requests
    BY <2>2 DEF Calls
  <2>4. Call' = Call /\ ToolStepNo' = ToolStepNo /\ Batch' = Batch
    BY <2>1 DEF Call, ToolStepNo, Batch, LastMessage
  <2>5. NodeOK' /\ RunOK'
    BY <2>1 DEF GraphInv, NodeOK, AsksForTools, RunOK, runVars
  <2>6. OperationsOK'
    BY <2>1, <2>3 DEF GraphInv, OperationsOK, Ledger!TypeOK
  <2>7. Place'
    BY <2>1, <2>2, <2>4 DEF Place, InCall, Recorded
  <2>8. CallTrusted'
    BY <2>1, <2>3, <2>4 DEF CallTrusted, Owned, GraphInv, OperationsOK
  <2>9. \A c \in Calls : DoneBy(c) => DoneBy(c)'
    BY <2>1 DEF DoneBy, Owned, Calls, GraphInv, OperationsOK, Ledger!TypeOK
  <2>10. RowsOK' /\ RowsTrusted'
    BY <2>1, <2>9 DEF GraphInv, RowsOK, RowsTrusted, RowsOf
  <2> QED BY <2>5, <2>6, <2>7, <2>8, <2>10 DEF GraphInv
<1>8. CASE CallSucceeds
  <2>1. pc = "executing" /\ Answered("succeeded") /\ UNCHANGED ledgerVars /\ DoneBy(Call)
    BY <1>8 DEF CallSucceeds, GraphInv, CallTrusted, DoneBy
  <2> QED BY <2>1, AnsweredKeeps
<1>9. CASE ToolFinishes
  BY <1>9, ToolFinishesKeeps
<1>10. CASE ToolRaises
  <2>1. /\ steps' = FinishedStep(ToolStepNo, "failed", NoOutput) /\ ToolError(ToolStepNo)
        /\ UNCHANGED <<runVars, ledgerVars>> /\ pc \in InCall
    BY <1>10 DEF ToolRaises, InCall
  <2>2. ToolStepNo \in DOMAIN steps /\ ToolStepNo \in Nat
    BY <2>1, CurrentRow
  <2>3. NodeOK' /\ Place' /\ CallTrusted'
    BY <2>1, <2>2, ToolErrorKeeps DEF GraphInv
  <2>4. RowsOK' /\ RowsTrusted'
    BY <2>1, <2>2, FinishTyped, FinishTrusted DEF GraphInv
  <2> QED BY <2>1, <2>3, <2>4, Frame DEF GraphInv
<1>11. CASE ToolWriteFails
  <2>1. pc \in InCall /\ ToolStepNo \in DOMAIN steps
        /\ steps[ToolStepNo].input[1] = Call
    BY <1>11, CurrentRow DEF ToolWriteFails, InCall
  <2>2. CASE pc = "answered"
             /\ FinishStepRaises(ToolStepNo, StatusOf(answer), ToolMessage(answer))
    <3>1. ToolMessage(answer) \in Message /\ StatusOf(answer) \in {"succeeded", "failed"}
      BY ToolMessageTyped DEF GraphInv, NodeOK, StatusOf
    <3>2. StatusOf(answer) = "succeeded" => DoneBy(steps[ToolStepNo].input[1])
      BY <2>1, <2>2 DEF StatusOf, GraphInv, CallTrusted
    <3> QED BY <2>1, <2>2, <3>1, <3>2, FinishRaises
  <2>3. CASE FinishStepRaises(ToolStepNo, "failed", NoOutput)
    BY <2>1, <2>3, FinishRaises
  <2> QED BY <1>11, <2>2, <2>3 DEF ToolWriteFails
<1> QED BY <1>1, <1>3, <1>4, <1>5, <1>6, <1>7, <1>8, <1>9, <1>10, <1>11 DEF ToolsNode

-----------------------------------------------------------------------------
(* Operations, the segment, and the whole. *)

\* What moves an operation leaves "done" and its request alone.
LEMMA OperationMovesKeeps ==
  ASSUME GraphInv, OperationMoves
  PROVE  GraphInv'
<1>1. PICK k \in Ids : Ledger!Apply(k) \/ Ledger!Done(k) \/ Ledger!NotDone(k)
  BY DEF OperationMoves
<1>2. UNCHANGED <<graphVars, runVars, steps, opRequest>>
  BY DEF OperationMoves
<1>3. Ledger!TypeOK /\ (\A o \in Ids : outcome[o] = "done" => applied[o])
  BY DEF GraphInv, OperationsOK
<1>4. /\ Ledger!TypeOK'
      /\ \A o \in Ids : outcome[o] = "done" => outcome'[o] = "done"
      /\ \A o \in Ids : outcome'[o] = "done" => applied'[o]
  <2>1. CASE Ledger!Apply(k)
    BY <1>3, <2>1 DEF Ledger!Apply, Ledger!TypeOK
  <2>2. CASE Ledger!Done(k)
    BY <1>3, <2>2 DEF Ledger!Done, Ledger!TypeOK
  <2>3. CASE Ledger!NotDone(k)
    BY <1>3, <2>3 DEF Ledger!NotDone, Ledger!TypeOK
  <2> QED BY <1>1, <2>1, <2>2, <2>3
<1>5. OperationsOK'
  BY <1>2, <1>4 DEF GraphInv, OperationsOK
<1>6. NodeOK' /\ RunOK' /\ RowsOK' /\ Place'
  <2>1. NodeOK' /\ RunOK'
    BY <1>2 DEF GraphInv, NodeOK, AsksForTools, RunOK, graphVars, runVars
  <2>2. RowsOK'
    BY <1>2 DEF GraphInv, RowsOK
  <2>3. Call' = Call /\ ToolStepNo' = ToolStepNo /\ Batch' = Batch /\ ModelStepNo' = ModelStepNo
    BY <1>2 DEF Call, ToolStepNo, Batch, LastMessage, ModelStepNo, graphVars
  <2>4. Place'
    BY <1>2, <2>3 DEF GraphInv, Place, InCall, Recorded, graphVars
  <2> QED BY <2>1, <2>2, <2>4
<1>7. \A c \in Calls : DoneBy(c) => DoneBy(c)'
  BY <1>2, <1>4 DEF DoneBy, Owned, Calls
<1>8. RowsTrusted'
  <2>1. \A n \in RowsOf("tool") : steps[n].input[1] \in Calls
    BY DEF GraphInv, RowsOK, RowsOf
  <2> QED BY <1>2, <1>7, <2>1 DEF GraphInv, RowsTrusted, RowsOf, DoneBy, Owned
<1>9. CallTrusted'
  <2>1. Call' = Call /\ pc' = pc /\ answer' = answer /\ opRequest' = opRequest
    BY <1>2 DEF Call, Batch, LastMessage, graphVars
  <2>2. pc = "answered" => Call \in Calls
    BY CallInBatch DEF GraphInv, Place, InCall
  <2> QED BY <1>7, <2>1, <2>2 DEF GraphInv, CallTrusted, Owned, DoneBy
<1> QED BY <1>5, <1>6, <1>8, <1>9 DEF GraphInv

LEMMA CountsTyped ==
  ASSUME NodeOK, RowsOK
  PROVE  CountsOfState \in [steps : Nat, calls : Nat] /\ CountsOfRows \in [steps : Nat, calls : Nat]
<1>1. CountsOfState \in [steps : Nat, calls : Nat]
  BY DEF NodeOK, GraphState, CountsOfState
<1>2. RowsOf("model") \subseteq DOMAIN steps /\ RowsOf("tool") \subseteq DOMAIN steps
  BY DEF RowsOf
<1>3. Cardinality(RowsOf("model")) \in Nat /\ Cardinality(RowsOf("tool")) \in Nat
  BY <1>2, FS_Subset, FS_CardinalityType DEF RowsOK
<1> QED BY <1>1, <1>3 DEF CountsOfRows

\* The executor leaves.
LEMMA LeavesKeeps ==
  ASSUME GraphInv, Leaves
  PROVE  GraphInv'
<1>1. SegmentEnds
  BY DEF Leaves, Pause, Finalize, FinalizeException
<1>2. run' \in {"paused", "succeeded", "failed"} /\ totals' \in {CountsOfState, CountsOfRows}
  BY DEF Leaves, Pause, Finalize, FinalizeException
<1>3. RunOK'
  BY <1>1, <1>2, CountsTyped DEF GraphInv, RunOK, SegmentEnds
<1> QED BY <1>1, <1>3, EndKeeps DEF GraphInv

\* A crash falls back to a state of the segment, a resume to the saved one; rows and
\* operations stay.
LEMMA RestartKeeps ==
  ASSUME GraphInv, Crash \/ Resume
  PROVE  GraphInv'
<1>1. /\ UNCHANGED <<interrupts, totals, steps, ledgerVars>>
      /\ pc' \in {"idle", "between"} /\ results' = << >> /\ answer' = NoAnswer
      /\ released' \in BOOLEAN
      /\ run' \in {"lost", "claimed", "running"} /\ segment' \in {segment, segment + 1}
      /\ state' \in unsaved \cup {durable} /\ durable' \in unsaved \cup {durable}
      /\ unsaved' \subseteq unsaved
  BY DEF Crash, Resume
<1>2. NodeOK'
  <2>1. \A s \in unsaved \cup {durable} : s \in GraphState /\ AsksForTools(s)
    BY DEF GraphInv, NodeOK
  <2>2. /\ state' \in GraphState /\ durable' \in GraphState /\ unsaved' \subseteq GraphState
        /\ AsksForTools(state)' /\ AsksForTools(durable)'
        /\ \A t \in unsaved' : AsksForTools(t)
    BY <1>1, <2>1 DEF AsksForTools
  <2>3. results' \in Seq(Message)
    BY <1>1
  <2> QED BY <1>1, <2>2, <2>3 DEF NodeOK
<1>3. RunOK' /\ OperationsOK'
  BY <1>1 DEF GraphInv, RunOK, OperationsOK, Ledger!TypeOK, ledgerVars
<1>4. RowsOK' /\ RowsTrusted'
  BY <1>1 DEF GraphInv, RowsOK, RowsTrusted, RowsOf, DoneBy, Owned, ledgerVars
<1>5. Place' /\ CallTrusted'
  BY <1>1 DEF Place, CallTrusted, InCall
<1> QED BY <1>2, <1>3, <1>4, <1>5 DEF GraphInv

LEMMA GraphStarts ==
  ASSUME Init
  PROVE  GraphInv
<1>1. DOMAIN steps = {}
  BY DEF Init
<1>2. RowsOK /\ RowsTrusted
  BY <1>1, FS_EmptySet DEF RowsOK, RowsTrusted, RowsOf
<1>3. InitialState \in GraphState /\ AsksForTools(InitialState)
  BY DEF InitialState, GraphState, AsksForTools, NoStep, NoError
<1>4. NodeOK
  <2>1. /\ state = InitialState /\ durable = InitialState /\ unsaved = {}
        /\ pc = "between" /\ released = FALSE /\ results = << >> /\ answer = NoAnswer
    BY DEF Init
  <2>2. state \in GraphState /\ durable \in GraphState
    BY <1>3, <2>1
  <2>3. AsksForTools(state) /\ AsksForTools(durable)
    BY <2>1 DEF AsksForTools, InitialState
  <2>4. results \in Seq(Message)
    BY <2>1
  <2> QED BY <2>1, <2>2, <2>3, <2>4 DEF NodeOK
<1>5. RunOK /\ OperationsOK
  BY DEF Init, RunOK, OperationsOK, Ledger!TypeOK
<1>6. Place /\ CallTrusted
  BY DEF Init, Place, CallTrusted, InCall
<1> QED BY <1>2, <1>4, <1>5, <1>6 DEF GraphInv

LEMMA GraphKeeps == GraphInv /\ [Next]_vars => GraphInv'
<1> SUFFICES ASSUME GraphInv, [Next]_vars PROVE GraphInv'
  OBVIOUS
<1>1. CASE ModelNode
  BY <1>1, ModelNodeKeeps
<1>2. CASE ToolsNode
  BY <1>2, ToolsNodeKeeps
<1>3. CASE OperationMoves
  BY <1>3, OperationMovesKeeps
<1>4. CASE Leaves
  BY <1>4, LeavesKeeps
<1>5. CASE Crash \/ Resume
  BY <1>5, RestartKeeps
<1>6. CASE UNCHANGED vars
  <2>1. UNCHANGED <<graphVars, runVars, steps, ledgerVars>>
    BY <1>6 DEF vars
  <2>2. NodeOK' /\ RunOK'
    BY <2>1 DEF GraphInv, NodeOK, AsksForTools, RunOK, graphVars, runVars
  <2>3. OperationsOK' /\ RowsOK' /\ RowsTrusted'
    BY <2>1 DEF GraphInv, OperationsOK, Ledger!TypeOK, RowsOK, RowsTrusted, RowsOf,
                DoneBy, Owned, ledgerVars
  <2>4. /\ Call' = Call /\ ToolStepNo' = ToolStepNo
        /\ Batch' = Batch /\ ModelStepNo' = ModelStepNo
    BY <2>1 DEF Call, ToolStepNo, Batch, LastMessage, ModelStepNo, graphVars
  <2>5. Place' /\ CallTrusted'
    BY <2>1, <2>4 DEF GraphInv, Place, CallTrusted, InCall, Recorded, Owned, DoneBy,
                      graphVars, ledgerVars
  <2> QED BY <2>2, <2>3, <2>5 DEF GraphInv
<1> QED BY <1>1, <1>2, <1>3, <1>4, <1>5, <1>6 DEF Next

\* The invariant holds in every state of every run of the graph.
THEOREM GraphInvariant == Spec => []GraphInv
BY GraphStarts, GraphKeeps, PTL DEF Spec

\* nodes.py, recorder.py, runtime.py: the state of the graph, its checkpoints, the
\* steps and the operations keep the shapes the code gives them.
THEOREM GraphTypes == Spec => []TypeOK
<1>1. GraphInv => TypeOK
  BY DEF GraphInv, NodeOK, RunOK, RowsOK, OperationsOK, TypeOK
<1> QED BY <1>1, GraphInvariant, PTL

\* nodes.py 374-403: however the run was interrupted, repeated and resumed, and
\* whatever was asked under one tool_call_id, a tool step recorded as succeeded is
\* about an operation of the very same request, and that operation took effect.
THEOREM SuccessHappened == Spec => []SucceededStepsHappened
<1>1. GraphInv => SucceededStepsHappened
  <2> SUFFICES ASSUME GraphInv, NEW n \in RowsOf("tool"), steps[n].status = "succeeded"
               PROVE  /\ opRequest[steps[n].input[1].id] = steps[n].input[1].request
                      /\ applied[steps[n].input[1].id]
    BY DEF SucceededStepsHappened
  <2>1. steps[n].input[1] \in Calls /\ DoneBy(steps[n].input[1])
    BY DEF GraphInv, RowsOK, RowsTrusted, RowsOf
  <2> QED BY <2>1 DEF GraphInv, OperationsOK, DoneBy, Owned, Calls
<1> QED BY <1>1, GraphInvariant, PTL
=============================================================================
