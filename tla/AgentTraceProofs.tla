-------------------------- MODULE AgentTraceProofs --------------------------
(***************************************************************************)
(* What the steps of an AgentGraph run record: the conversation that led to *)
(* its answer, every operation under the answer that asked for it, and no   *)
(* more than the budgets allow.                                             *)
(***************************************************************************)
EXTENDS AgentGraphProofs, SequenceTheorems

\* The states a crash or a resume can fall back to, and those from which the run
\* can still go on.
States == {state, durable} \cup unsaved

GoesOn == IF interrupts THEN States ELSE IF pc # "idle" THEN {state} ELSE {}

Said(messages, kind) == {i \in DOMAIN messages : messages[i].kind = kind}

Last(messages) == messages[Len(messages)]

\* The counters of a state without error count its messages.
Talk(s) ==
  /\ s.next # "end" => s.error = NoError
  /\ s.error = NoError =>
       /\ s.runStepCount = Len(s.messages) /\ s.lastStep = Len(s.messages)
       /\ s.stepCount = Cardinality(Said(s.messages, "ai"))
       /\ s.toolCallCount = Cardinality(Said(s.messages, "tool"))
       /\ s.next = "tools" => Last(s.messages).kind = "ai"
       /\ s.next = "end" =>
            s.messages # << >> /\ Last(s.messages).kind = "ai" /\ Last(s.messages).calls = << >>

\* Its messages are recorded.
Told(s) == s.error = NoError => \A i \in DOMAIN s.messages : RecordsMessage(i, s.messages)

\* The last step that can have been recorded when the run falls back to s: the tools
\* of its last message and the answer to them.
Limit(s) ==
  Len(s.messages) +
    (IF s.next = "tools" THEN Len(Last(s.messages).calls) + 1
     ELSE IF s.next = "model" THEN 1 ELSE 0)

Within(s) ==
  s.error = NoError =>
    \A n \in DOMAIN steps :
      /\ n <= Limit(s)
      /\ n = Limit(s) /\ Len(s.messages) < n => steps[n].type = "model"

Anchored(s) ==
  s.error = NoError => \A n \in RowsOf("tool") : steps[n].parent <= Len(s.messages)

Conversations == \A s \in States : Talk(s) /\ Told(s) /\ Len(s.messages) <= Len(state.messages)

Reach == \A s \in GoesOn : Within(s) /\ Anchored(s)

\* The segment.  Only a resumed segment enters the tools of a run that interrupts,
\* and then with the state it was resumed from.
Segment ==
  /\ run = "running" <=> pc # "idle"
  /\ pc = "idle" => state = durable /\ unsaved = {}
  /\ released => state = durable /\ unsaved = {}
  /\ ~interrupts => segment = 1 /\ run \notin {"paused", "claimed"}
  /\ interrupts /\ pc \in {"batch"} \cup InCall => released
  /\ pc = "asked" => state.next = "model"
  /\ interrupts /\ state.next = "model" =>
       \A s \in States : s.error = NoError /\ Limit(s) = Limit(state)

\* The step that is being worked on, and those of the batch that are finished.
Underway ==
  /\ pc = "asked" => Definition(steps[ModelStepNo]) = ModelStep
  /\ pc \in InCall => Definition(steps[ToolStepNo]) = ToolStep
  /\ pc \in {"batch"} \cup InCall =>
       /\ WithinBudget
       /\ \A i \in DOMAIN results :
            LET n == Len(state.messages) + i IN
            /\ Recorded(n) /\ steps[n].output = results[i] /\ results[i].kind = "tool"
            /\ Definition(steps[n]) =
                 [type |-> "tool", parent |-> Len(state.messages), input |-> <<Batch[i]>>]

\* A tool step lies under the answer that asked for its call.
Asked(n) ==
  LET parent == steps[n].parent IN
  /\ Recorded(parent) /\ steps[parent].type = "model" /\ steps[parent].output # NoOutput
  /\ n - parent \in DOMAIN steps[parent].output.calls
  /\ steps[n].input = <<steps[parent].output.calls[n - parent]>>

Traces ==
  /\ \A n \in RowsOf("tool") : Asked(n)
  /\ \A k \in Ids :
       /\ applied[k] => outcome[k] # "none"
       /\ outcome[k] # "none" =>
            \E n \in RowsOf("tool") : steps[n].input = <<[id |-> k, request |-> opRequest[k]]>>

Budgets ==
  Cardinality(RowsOf("model")) <= MaxSteps /\ Cardinality(RowsOf("tool")) <= MaxToolCalls

Ended == TraceIsHistory /\ SuccessIsAnAnswer

TraceInv ==
  /\ GraphInv
  /\ Conversations /\ Reach /\ Segment /\ Underway /\ Traces /\ Budgets /\ Ended

-----------------------------------------------------------------------------
(***************************************************************************)
(* Conversations and their counts.                                         *)
(***************************************************************************)

LEMMA SaidFinite ==
  ASSUME NEW m \in Seq(Message), NEW kind
  PROVE  /\ Said(m, kind) \subseteq 1 .. Len(m)
         /\ IsFiniteSet(Said(m, kind)) /\ Cardinality(Said(m, kind)) \in Nat
<1>1. Said(m, kind) \subseteq 1 .. Len(m) /\ Len(m) \in Nat
  BY LenProperties DEF Said
<1>2. IsFiniteSet(1 .. Len(m))
  BY <1>1, FS_Interval
<1>3. IsFiniteSet(Said(m, kind))
  BY <1>1, <1>2, FS_Subset
<1> QED BY <1>1, <1>3, FS_CardinalityType

\* What was shown before a message does not depend on what came after it.
LEMMA SameBefore ==
  ASSUME NEW m \in Seq(Message), NEW r \in Seq(Message), NEW i \in 1 .. Len(m) + 1
  PROVE  SubSeq(m \o r, 1, i - 1) = SubSeq(m, 1, i - 1)
<1>1. /\ Len(m) \in Nat /\ Len(r) \in Nat /\ m \o r \in Seq(Message)
      /\ \A j \in 1 .. Len(m) : m[j] \in Message /\ (m \o r)[j] = m[j]
  BY ConcatProperties, LenProperties, ElementOfSeq
<1>2. /\ SubSeq(m, 1, i - 1) \in Seq(Message)
      /\ Len(SubSeq(m, 1, i - 1)) = i - 1
      /\ \A j \in 1 .. i - 1 : SubSeq(m, 1, i - 1)[j] = m[j]
  <2>1. \A j \in 1 .. i - 1 : m[j] \in Message
    BY <1>1
  <2> QED BY <1>1, <2>1, SubSeqProperties
<1>3. /\ SubSeq(m \o r, 1, i - 1) \in Seq(Message)
      /\ Len(SubSeq(m \o r, 1, i - 1)) = i - 1
      /\ \A j \in 1 .. i - 1 : SubSeq(m \o r, 1, i - 1)[j] = (m \o r)[j]
  <2>1. \A j \in 1 .. i - 1 : (m \o r)[j] \in Message
    BY <1>1
  <2> QED BY <1>1, <2>1, SubSeqProperties
<1>4. \A j \in 1 .. i - 1 : SubSeq(m \o r, 1, i - 1)[j] = SubSeq(m, 1, i - 1)[j]
  BY <1>1, <1>2, <1>3
<1> QED BY <1>2, <1>3, <1>4, SeqEqual

\* An answer of the model adds one to its kind, the results of a batch their number.
LEMMA SaidAppend ==
  ASSUME NEW m \in Seq(Message), NEW x \in Message, x.kind = "ai"
  PROVE  /\ Cardinality(Said(Append(m, x), "ai")) = Cardinality(Said(m, "ai")) + 1
         /\ Said(Append(m, x), "tool") = Said(m, "tool")
<1>1. /\ Len(m) \in Nat /\ Len(Append(m, x)) = Len(m) + 1 /\ Append(m, x) \in Seq(Message)
      /\ \A i \in 1 .. Len(m) : Append(m, x)[i] = m[i]
      /\ Append(m, x)[Len(m) + 1] = x
  BY AppendProperties, LenProperties
<1>2. DOMAIN m = 1 .. Len(m) /\ DOMAIN Append(m, x) = 1 .. Len(m) + 1
  BY <1>1, LenProperties
<1>3. Said(Append(m, x), "ai") = Said(m, "ai") \cup {Len(m) + 1}
  BY <1>1, <1>2 DEF Said
<1>4. Len(m) + 1 \notin Said(m, "ai") /\ IsFiniteSet(Said(m, "ai"))
  BY <1>1, SaidFinite
<1>5. Said(Append(m, x), "tool") = Said(m, "tool")
  BY <1>1, <1>2 DEF Said
<1> QED BY <1>3, <1>4, <1>5, FS_AddElement

LEMMA IntervalCount ==
  ASSUME NEW a \in Nat, NEW k \in Nat
  PROVE  IsFiniteSet(a + 1 .. a + k) /\ Cardinality(a + 1 .. a + k) = k
<1> DEFINE from == a + 1
           to   == a + k
<1>1. from \in Int /\ to \in Int /\ (from > to <=> k = 0) /\ to - from + 1 = k
  OBVIOUS
<1> HIDE DEF from, to
<1>2. IsFiniteSet(from .. to) /\ Cardinality(from .. to) = k
  BY <1>1, FS_Interval
<1> QED BY <1>2 DEF from, to

LEMMA SaidConcat ==
  ASSUME NEW m \in Seq(Message), NEW r \in Seq(Message), \A i \in 1 .. Len(r) : r[i].kind = "tool"
  PROVE  /\ Cardinality(Said(m \o r, "tool")) = Cardinality(Said(m, "tool")) + Len(r)
         /\ Said(m \o r, "ai") = Said(m, "ai")
<1>1. /\ Len(m) \in Nat /\ Len(r) \in Nat /\ m \o r \in Seq(Message)
      /\ Len(m \o r) = Len(m) + Len(r)
      /\ \A i \in 1 .. Len(m) + Len(r) : (m \o r)[i] = IF i <= Len(m) THEN m[i] ELSE r[i - Len(m)]
  BY ConcatProperties, LenProperties
<1>2. DOMAIN m = 1 .. Len(m) /\ DOMAIN (m \o r) = 1 .. Len(m) + Len(r)
  BY <1>1, LenProperties
<1>3. \A i \in Len(m) + 1 .. Len(m) + Len(r) : (m \o r)[i].kind = "tool"
  <2> SUFFICES ASSUME NEW i \in Len(m) + 1 .. Len(m) + Len(r)
               PROVE  (m \o r)[i].kind = "tool"
    OBVIOUS
  <2>1. i - Len(m) \in 1 .. Len(r) /\ (m \o r)[i] = r[i - Len(m)]
    BY <1>1
  <2> QED BY <2>1
<1> DEFINE added == Len(m) + 1 .. Len(m) + Len(r)
<1>4. Said(m \o r, "tool") = Said(m, "tool") \cup added
  <2>1. \A i \in DOMAIN (m \o r) : (i \in DOMAIN m /\ (m \o r)[i] = m[i]) \/ i \in added
    BY <1>1, <1>2
  <2>2. added \subseteq DOMAIN (m \o r) /\ DOMAIN m \subseteq DOMAIN (m \o r)
    BY <1>1, <1>2
  <2>3. \A i \in DOMAIN m : (m \o r)[i] = m[i]
    BY <1>1, <1>2
  <2> QED BY <1>3, <2>1, <2>2, <2>3, Zenon DEF Said
<1>5. Said(m \o r, "ai") = Said(m, "ai")
  BY <1>1, <1>2, <1>3 DEF Said
<1>6. IsFiniteSet(added) /\ Cardinality(added) = Len(r)
  BY <1>1, IntervalCount
<1>7. Said(m, "tool") \cap added = {} /\ IsFiniteSet(Said(m, "tool"))
  BY <1>1, SaidFinite
<1>8. Cardinality({}) = 0
  BY FS_EmptySet
<1> HIDE DEF added
<1>9. Cardinality(Said(m, "tool")) \in Nat
  BY SaidFinite
<1>10. Cardinality(Said(m, "tool") \cup added) =
         Cardinality(Said(m, "tool")) + Cardinality(added) - Cardinality(Said(m, "tool") \cap added)
  BY <1>6, <1>7, FS_Union
<1>11. Cardinality(Said(m, "tool") \cup added) = Cardinality(Said(m, "tool")) + Len(r)
  <2>1. Len(r) \in Nat
    BY <1>1
  <2>2. Cardinality(Said(m, "tool") \cap added) = 0
    BY <1>7, <1>8, Zenon
  <2> QED BY <1>6, <1>9, <1>10, <2>1, <2>2
<1> QED BY <1>4, <1>5, <1>11, Zenon

-----------------------------------------------------------------------------
(***************************************************************************)
(* Rows.                                                                   *)
(***************************************************************************)

\* One row is written; a row that was there keeps its definition.
Changes(n) ==
  /\ DOMAIN steps' = DOMAIN steps \cup {n}
  /\ \A m \in DOMAIN steps : m # n => steps'[m] = steps[m]
  /\ n \in DOMAIN steps =>
       /\ steps'[n].type = steps[n].type /\ steps'[n].parent = steps[n].parent
       /\ steps'[n].input = steps[n].input

LEMMA StartChanges ==
  ASSUME NEW n, NEW step \in StepDefinitions,
         Replayable(n, step), steps' = StartedStep(n, step)
  PROVE  /\ Changes(n) /\ Definition(steps'[n]) = step
         /\ steps'[n].type = step.type /\ steps'[n].parent = step.parent
         /\ steps'[n].input = step.input
<1>1. step = [type |-> step.type, parent |-> step.parent, input |-> step.input]
  BY DEF StepDefinitions
<1>2. CASE Recorded(n) /\ steps[n].status = "succeeded"
  <2>1. steps' = steps /\ Definition(steps[n]) = step
    BY <1>2 DEF StartedStep, Replayable
  <2> QED BY <1>2, <2>1 DEF Changes, Definition, Recorded
<1>3. CASE ~(Recorded(n) /\ steps[n].status = "succeeded")
  <2> DEFINE row == [type |-> step.type, parent |-> step.parent, input |-> step.input,
                     status |-> "running", output |-> NoOutput]
  <2>1. steps' = PutRow(n, row)
    BY <1>3 DEF StartedStep
  <2>2. /\ row.type = step.type /\ row.parent = step.parent /\ row.input = step.input
    OBVIOUS
  <2>3. Recorded(n) => /\ steps[n].type = step.type /\ steps[n].parent = step.parent
                       /\ steps[n].input = step.input
    BY DEF Replayable, Definition
  <2> HIDE DEF row
  <2>4. /\ DOMAIN steps' = DOMAIN steps \cup {n}
        /\ \A m \in DOMAIN steps \cup {n} : steps'[m] = IF m = n THEN row ELSE steps[m]
    BY <2>1 DEF PutRow
  <2> QED BY <1>1, <2>2, <2>3, <2>4 DEF Changes, Definition, Recorded
<1> QED BY <1>2, <1>3

LEMMA FinishChanges ==
  ASSUME RowsOK, NEW n \in DOMAIN steps, NEW status, NEW output,
         steps' = FinishedStep(n, status, output)
  PROVE  /\ Changes(n) /\ Definition(steps'[n]) = Definition(steps[n])
         /\ steps'[n].output = output /\ DOMAIN steps' = DOMAIN steps
<1> DEFINE row == [steps[n] EXCEPT !.status = status, !.output = output]
<1>1. /\ row.type = steps[n].type /\ row.parent = steps[n].parent
      /\ row.input = steps[n].input /\ row.output = output
  BY DEF RowsOK, Rows
<1>2. steps' = PutRow(n, row)
  BY DEF FinishedStep
<1> HIDE DEF row
<1>3. /\ DOMAIN steps' = DOMAIN steps \cup {n}
      /\ \A m \in DOMAIN steps \cup {n} : steps'[m] = IF m = n THEN row ELSE steps[m]
  BY <1>2 DEF PutRow
<1> QED BY <1>1, <1>3 DEF Changes, Definition

\* A row behind a conversation does not change what is recorded of it.
LEMMA ToldStays ==
  ASSUME NEW s \in GraphState, NEW n \in Nat, Changes(n), Len(s.messages) < n, Told(s)
  PROVE  Told(s)'
<1> SUFFICES ASSUME s.error = NoError, NEW i \in DOMAIN s.messages
             PROVE  RecordsMessage(i, s.messages)'
  BY DEF Told
<1>1. s.messages \in Seq(Message)
  BY DEF GraphState
<1>2. i \in 1 .. Len(s.messages) /\ Len(s.messages) \in Nat
  BY <1>1, LenProperties
<1>3. RecordsMessage(i, s.messages)
  BY DEF Told
<1>4. i \in DOMAIN steps /\ i # n
  BY <1>2, <1>3 DEF RecordsMessage, Recorded
<1>5. i \in DOMAIN steps' /\ steps'[i] = steps[i]
  BY <1>4 DEF Changes
<1> QED BY <1>3, <1>5 DEF RecordsMessage, Recorded

\* A row that was there, or one that s still has room for, keeps s in reach.
LEMMA ReachStays ==
  ASSUME NEW s, NEW n, Changes(n), Within(s), Anchored(s),
         s.error = NoError /\ n \notin DOMAIN steps =>
           /\ n <= Limit(s)
           /\ n = Limit(s) => steps'[n].type = "model"
           /\ steps'[n].type = "tool" => steps'[n].parent <= Len(s.messages)
  PROVE  Within(s)' /\ Anchored(s)'
<1>1. \A m \in DOMAIN steps : /\ m \in DOMAIN steps' /\ steps'[m].type = steps[m].type
                              /\ steps'[m].parent = steps[m].parent
  BY DEF Changes
<1>2. \A m \in DOMAIN steps' : m \in DOMAIN steps \/ m = n
  BY DEF Changes
<1>3. Limit(s)' = Limit(s)
  BY DEF Limit
<1>4. Within(s)'
  BY <1>1, <1>2, <1>3 DEF Within
<1>5. Anchored(s)'
  BY <1>1, <1>2 DEF Anchored, RowsOf
<1> QED BY <1>4, <1>5

\* A step that writes no row, or a row behind the conversation of the run, leaves
\* every state told, and those the run can fall back to in reach.
FineRows ==
  /\ \A s \in States : Told(s)'
  /\ \A s \in GoesOn : Within(s)' /\ Anchored(s)'

\* Sums of lengths.
LEMMA OneMore ==
  ASSUME NEW l, NEW a \in Nat, NEW b \in Nat, l = a + (b + 1)
  PROVE  l \in Nat /\ l = a + b + 1
OBVIOUS

LEMMA StatesTyped ==
  ASSUME NodeOK, NEW s \in States
  PROVE  /\ s \in GraphState /\ s.messages \in Seq(Message) /\ Len(s.messages) \in Nat
         /\ s.next = "tools" =>
              /\ s.messages # << >> /\ Last(s.messages) \in Message
              /\ Last(s.messages).calls \in Seq(Calls) /\ Last(s.messages).calls # << >>
              /\ Len(Last(s.messages).calls) \in Nat \ {0}
         /\ Limit(s) \in Nat
<1>1. s \in GraphState /\ AsksForTools(s)
  BY DEF NodeOK, States
<1>2. s.messages \in Seq(Message) /\ Len(s.messages) \in Nat
  BY <1>1, LenProperties DEF GraphState
<1>3. ASSUME s.next = "tools"
      PROVE  /\ s.messages # << >> /\ Last(s.messages) \in Message
             /\ Last(s.messages).calls \in Seq(Calls) /\ Last(s.messages).calls # << >>
             /\ Len(Last(s.messages).calls) \in Nat \ {0}
  <2>1. s.messages # << >> /\ Last(s.messages).calls # << >>
    BY <1>1, <1>3 DEF AsksForTools, Last
  <2>2. Len(s.messages) \in 1 .. Len(s.messages)
    BY <1>2, <2>1, EmptySeq
  <2>3. Last(s.messages) \in Message
    BY <1>2, <2>2, ElementOfSeq DEF Last
  <2>4. Last(s.messages).calls \in Seq(Calls)
    BY <2>3 DEF Message
  <2> QED BY <2>1, <2>3, <2>4, EmptySeq
<1>4. Limit(s) \in Nat
  <2>1. CASE s.next = "tools"
    <3>1. Limit(s) = Len(s.messages) + (Len(Last(s.messages).calls) + 1)
      BY <2>1 DEF Limit
    <3>2. Len(s.messages) \in Nat /\ Len(Last(s.messages).calls) \in Nat
      BY <1>2, <1>3, <2>1
    <3> QED BY <3>1, <3>2, OneMore
  <2>2. CASE s.next # "tools"
    <3>1. Limit(s) = Len(s.messages) + 1 \/ Limit(s) = Len(s.messages) + 0
      BY <2>2 DEF Limit
    <3> QED BY <1>2, <3>1
  <2> QED BY <2>1, <2>2
<1> QED BY <1>1, <1>2, <1>3, <1>4

LEMMA FineUnchanged ==
  ASSUME TraceInv, UNCHANGED steps
  PROVE  FineRows
<1>1. \A s \in States : Told(s)'
  BY DEF TraceInv, Conversations, Told, RecordsMessage, Recorded
<1>2. \A s \in GoesOn : Within(s)' /\ Anchored(s)'
  <2>1. \A s : Limit(s)' = Limit(s)
    BY DEF Limit
  <2>2. RowsOf("tool")' = RowsOf("tool")
    BY DEF RowsOf
  <2> QED BY <2>1, <2>2 DEF TraceInv, Reach, Within, Anchored
<1> QED BY <1>1, <1>2 DEF FineRows

LEMMA FineChanged ==
  ASSUME TraceInv, NEW n \in Nat, Changes(n), Len(state.messages) < n,
         \/ n \in DOMAIN steps
         \/ \A s \in GoesOn : s.error = NoError =>
              /\ n <= Limit(s)
              /\ n = Limit(s) => steps'[n].type = "model"
              /\ steps'[n].type = "tool" => steps'[n].parent <= Len(s.messages)
  PROVE  FineRows
<1>1. ASSUME NEW s \in States
      PROVE  Told(s)'
  <2>1. /\ s \in GraphState /\ Len(s.messages) <= Len(state.messages) /\ Told(s)
        /\ Len(s.messages) \in Nat /\ Len(state.messages) \in Nat
    BY StatesTyped DEF TraceInv, GraphInv, Conversations, States
  <2> QED BY <2>1, ToldStays
<1>2. ASSUME NEW s \in GoesOn
      PROVE  Within(s)' /\ Anchored(s)'
  BY <1>2, ReachStays DEF TraceInv, Reach
<1> QED BY <1>1, <1>2 DEF FineRows

\* Where the model node stands.
LEMMA ModelStands ==
  ASSUME TraceInv, AtModel \/ pc = "asked"
  PROVE  /\ state \in GraphState /\ state.next = "model" /\ state.error = NoError
         /\ run = "running" /\ pc # "idle"
         /\ Len(state.messages) \in Nat /\ state.lastStep = Len(state.messages)
         /\ ModelStepNo = Len(state.messages) + 1 /\ ModelStepNo \in Nat \ {NoStep}
         /\ Limit(state) = ModelStepNo
         /\ \A s \in GoesOn : s.error = NoError /\ Limit(s) = ModelStepNo
<1>1. pc # "idle" /\ state.next = "model" /\ state \in States
  BY DEF AtModel, TraceInv, Segment, States
<1>2. state \in GraphState /\ Len(state.messages) \in Nat /\ Talk(state)
  BY <1>1, StatesTyped DEF TraceInv, GraphInv, Conversations
<1>3. /\ state.error = NoError
      /\ state.runStepCount = Len(state.messages) /\ state.lastStep = Len(state.messages)
  BY <1>1, <1>2 DEF Talk
<1>4. ModelStepNo = Len(state.messages) + 1 /\ Limit(state) = Len(state.messages) + 1
  BY <1>1, <1>2, <1>3 DEF ModelStepNo, Limit
<1>5. run = "running"
  BY <1>1 DEF TraceInv, Segment
<1>6. \A s \in GoesOn : s.error = NoError /\ Limit(s) = Limit(state)
  <2>1. CASE interrupts
    BY <1>1, <2>1 DEF GoesOn, TraceInv, Segment
  <2>2. CASE ~interrupts
    BY <1>1, <1>3, <2>2 DEF GoesOn
  <2> QED BY <2>1, <2>2
<1> QED BY <1>1, <1>2, <1>3, <1>4, <1>5, <1>6 DEF NoStep

\* Where the tools node stands: at a state that nothing of its segment precedes, or
\* in a run that cannot be resumed.
LEMMA ToolsStand ==
  ASSUME TraceInv, EntersTools \/ pc \in {"batch"} \cup InCall
  PROVE  /\ state \in GraphState /\ state.next = "tools" /\ state.error = NoError
         /\ run = "running" /\ pc # "idle" /\ GoesOn = {state}
         /\ interrupts => States = {state}
         /\ state.messages \in Seq(Message) /\ state.messages # << >>
         /\ Len(state.messages) \in Nat \ {0}
         /\ state.runStepCount = Len(state.messages) /\ state.lastStep = Len(state.messages)
         /\ LastMessage = Last(state.messages) /\ LastMessage \in Message
         /\ LastMessage.kind = "ai"
         /\ Batch = LastMessage.calls /\ Batch \in Seq(Calls) /\ Len(Batch) \in Nat \ {0}
         /\ Limit(state) = Len(state.messages) + Len(Batch) + 1
<1>1. pc # "idle" /\ state.next = "tools" /\ state \in States
  BY DEF EntersTools, InCall, TraceInv, GraphInv, Place, States
<1>2. /\ state \in GraphState /\ Len(state.messages) \in Nat /\ Talk(state)
      /\ state.messages \in Seq(Message) /\ state.messages # << >>
      /\ Last(state.messages) \in Message /\ Last(state.messages).calls \in Seq(Calls)
      /\ Len(Last(state.messages).calls) \in Nat \ {0}
  BY <1>1, StatesTyped DEF TraceInv, GraphInv, Conversations
<1>3. /\ state.error = NoError /\ Last(state.messages).kind = "ai"
      /\ state.runStepCount = Len(state.messages) /\ state.lastStep = Len(state.messages)
  BY <1>1, <1>2 DEF Talk
<1>4. LastMessage = Last(state.messages) /\ Batch = Last(state.messages).calls
  BY DEF LastMessage, Last, Batch
<1>5. Limit(state) = Len(state.messages) + Len(Batch) + 1
  <2> DEFINE shown == Len(state.messages)
             asked == Len(Batch)
  <2>1. Limit(state) = shown + (asked + 1)
    BY <1>1, <1>4 DEF Limit
  <2>2. asked \in Nat /\ shown \in Nat
    BY <1>2, <1>4
  <2> HIDE DEF shown, asked
  <2>3. Limit(state) = shown + asked + 1
    BY <2>1, <2>2, OneMore
  <2> QED BY <2>3 DEF shown, asked
<1>6. run = "running"
  BY <1>1 DEF TraceInv, Segment
<1>7. interrupts => States = {state}
  <2>1. interrupts => released
    BY DEF EntersTools, TraceInv, Segment
  <2> QED BY <2>1 DEF TraceInv, Segment, States
<1>8. GoesOn = {state}
  BY <1>1, <1>7 DEF GoesOn
<1>9. Len(state.messages) # 0
  BY <1>2, EmptySeq
<1> QED BY <1>1, <1>2, <1>3, <1>4, <1>5, <1>6, <1>7, <1>8, <1>9

-----------------------------------------------------------------------------
(***************************************************************************)
(* How the states of a run come and go.                                    *)
(***************************************************************************)

\* A step inside a node.
LEMMA Stays ==
  ASSUME TraceInv, FineRows, UNCHANGED <<state, durable, unsaved, interrupts>>,
         pc # "idle", pc' # "idle"
  PROVE  Conversations' /\ Reach'
<1>1. States' = States /\ GoesOn' = GoesOn
  BY DEF States, GoesOn
<1>2. \A s \in States : Talk(s)' /\ Told(s)' /\ Len(s.messages) <= Len(state.messages)
  BY DEF TraceInv, Conversations, FineRows, Talk, Said, Last
<1>3. Conversations'
  BY <1>1, <1>2 DEF Conversations
<1>4. Reach'
  BY <1>1 DEF Reach, FineRows
<1> QED BY <1>3, <1>4

\* A node returns a state that has forgotten nothing and is recorded.
LEMMA Returns ==
  ASSUME TraceInv, FineRows, pc # "idle", UNCHANGED interrupts,
         NEW s \in GraphState, NodeReturns(s), Len(state.messages) <= Len(s.messages),
         Talk(s), Told(s)', Within(s)', Anchored(s)'
  PROVE  Conversations' /\ Reach'
<1>1. States' \subseteq States \cup {s} /\ state' = s
  BY DEF States, NodeReturns
<1>2. GoesOn' \subseteq GoesOn \cup {s}
  BY <1>1 DEF GoesOn, NodeReturns
<1>3. Talk(s)' /\ \A t \in States : Talk(t)'
  BY DEF TraceInv, Conversations, Talk, Said, Last
<1>4. \A t \in States : Len(t.messages) <= Len(s.messages)
  <2> SUFFICES ASSUME NEW t \in States PROVE Len(t.messages) <= Len(s.messages)
    OBVIOUS
  <2>1. Len(t.messages) \in Nat /\ Len(t.messages) <= Len(state.messages)
    BY StatesTyped DEF TraceInv, GraphInv, Conversations
  <2>2. state \in States
    BY DEF States
  <2>3. Len(state.messages) \in Nat
    BY <2>2, StatesTyped DEF TraceInv, GraphInv
  <2>4. Len(s.messages) \in Nat
    BY LenProperties DEF GraphState
  <2> QED BY <2>1, <2>3, <2>4
<1>5. Len(s.messages) <= Len(s.messages)
  BY LenProperties DEF GraphState
<1>6. Conversations'
  BY <1>1, <1>3, <1>4, <1>5 DEF Conversations, FineRows
<1>7. Reach'
  BY <1>2 DEF Reach, FineRows
<1> QED BY <1>6, <1>7

\* While the run goes on nothing is claimed of its end.
LEMMA RunsOn ==
  ASSUME run' = "running"
  PROVE  Ended'
BY DEF Ended, TraceIsHistory, SuccessIsAnAnswer

\* A node that gives up says so, and the run is over.
LEMMA ErrorReturns ==
  ASSUME TraceInv, FineRows, pc # "idle", UNCHANGED runVars,
         NEW s \in GraphState, NodeReturns(s), Len(state.messages) <= Len(s.messages),
         s.error # NoError, s.next = "end"
  PROVE  Conversations' /\ Reach' /\ Segment' /\ Underway' /\ Ended'
<1>1. Talk(s) /\ Told(s)' /\ Within(s)' /\ Anchored(s)'
  BY DEF Talk, Told, Within, Anchored
<1>2. /\ run = "running" /\ run' = "running" /\ UNCHANGED <<interrupts, segment>>
  BY DEF runVars, TraceInv, Segment
<1>3. Conversations' /\ Reach'
  BY <1>1, <1>2, Returns
<1>4. pc' = "between" /\ state' = s /\ released' = FALSE
  BY DEF NodeReturns
<1>5. Segment'
  BY <1>2, <1>4 DEF Segment, InCall, TraceInv
<1>6. Underway'
  BY <1>4 DEF Underway, InCall
<1> QED BY <1>2, <1>3, <1>5, <1>6, RunsOn

\* A recorder that raises leaves the state of the node as it was.
LEMMA RaisedKeeps ==
  ASSUME TraceInv, FineRows, pc # "idle", pc' = "raised",
         UNCHANGED <<state, durable, unsaved, released, runVars>>
  PROVE  Conversations' /\ Reach' /\ Segment' /\ Underway' /\ Ended'
<1>1. Conversations' /\ Reach'
  BY Stays DEF runVars
<1>2. run = "running" /\ run' = "running" /\ UNCHANGED <<interrupts, segment>>
  BY DEF runVars, TraceInv, Segment
<1>3. States' = States
  BY DEF States
<1>4. \A s : Limit(s)' = Limit(s)
  BY DEF Limit
<1>5. Segment'
  BY <1>2, <1>3, <1>4 DEF Segment, InCall, TraceInv, Limit
<1>6. Underway'
  BY DEF Underway, InCall
<1> QED BY <1>1, <1>2, <1>5, <1>6, RunsOn

-----------------------------------------------------------------------------
(***************************************************************************)
(* Traces and budgets.                                                     *)
(***************************************************************************)

\* The row of an answer is not written again while it has tool steps; a new tool
\* step must have been asked for.
LEMMA TracesStay ==
  ASSUME Traces, NEW n, Changes(n), UNCHANGED ledgerVars,
         \A t \in RowsOf("tool") : steps[t].parent # n,
         n \notin DOMAIN steps /\ steps'[n].type = "tool" => Asked(n)'
  PROVE  Traces'
<1>1. ASSUME NEW t \in RowsOf("tool")
      PROVE  /\ t \in RowsOf("tool")' /\ Asked(t)'
             /\ steps'[t].input = steps[t].input
  <2>1. /\ t \in DOMAIN steps /\ t \in DOMAIN steps' /\ steps[t].type = "tool"
        /\ steps'[t].type = steps[t].type /\ steps'[t].parent = steps[t].parent
        /\ steps'[t].input = steps[t].input
    BY DEF RowsOf, Changes
  <2> DEFINE parent == steps[t].parent
  <2>2. /\ parent \in DOMAIN steps /\ steps[parent].type = "model"
        /\ steps[parent].output # NoOutput
        /\ t - parent \in DOMAIN steps[parent].output.calls
        /\ steps[t].input = <<steps[parent].output.calls[t - parent]>>
    BY DEF Traces, Asked, Recorded
  <2>3. parent \in DOMAIN steps' /\ steps'[parent] = steps[parent]
    BY <2>2 DEF Changes
  <2> QED BY <2>1, <2>2, <2>3 DEF RowsOf, Asked, Recorded
<1>2. ASSUME NEW t \in RowsOf("tool")', t \notin RowsOf("tool")
      PROVE  Asked(t)'
  <2>1. t = n /\ n \notin DOMAIN steps /\ steps'[n].type = "tool"
    BY <1>2 DEF RowsOf, Changes
  <2> QED BY <2>1
<1>3. \A t \in RowsOf("tool")' : Asked(t)'
  BY <1>1, <1>2
<1>4. ASSUME NEW k \in Ids
      PROVE  /\ applied'[k] => outcome'[k] # "none"
             /\ outcome'[k] # "none" =>
                  \E t \in RowsOf("tool")' :
                    steps'[t].input = <<[id |-> k, request |-> opRequest'[k]]>>
  <2>1. /\ applied[k] => outcome[k] # "none"
        /\ outcome[k] # "none" =>
             \E t \in RowsOf("tool") : steps[t].input = <<[id |-> k, request |-> opRequest[k]]>>
    BY DEF Traces
  <2> QED BY <1>1, <2>1 DEF ledgerVars
<1> QED BY <1>3, <1>4 DEF Traces

LEMMA TracesUnchanged ==
  ASSUME Traces, UNCHANGED <<steps, ledgerVars>>
  PROVE  Traces'
<1>1. RowsOf("tool")' = RowsOf("tool") /\ \A n : Asked(n) => Asked(n)'
  BY DEF RowsOf, Asked, Recorded
<1>2. \A n \in RowsOf("tool")' : Asked(n)'
  BY <1>1 DEF Traces
<1> QED BY <1>1, <1>2 DEF Traces, ledgerVars

\* A row that was there does not count twice.
LEMMA BudgetsStay ==
  ASSUME Budgets, UNCHANGED steps \/ \E n \in DOMAIN steps : Changes(n)
  PROVE  Budgets'
<1>1. RowsOf("model")' = RowsOf("model") /\ RowsOf("tool")' = RowsOf("tool")
  BY DEF RowsOf, Changes
<1> QED BY <1>1 DEF Budgets

\* The rows of a recorded conversation are its messages.
LEMMA RowsBelow ==
  ASSUME RowsOK, NEW s \in GraphState, s.error = NoError, Told(s),
         NEW n \in DOMAIN steps, n <= Len(s.messages)
  PROVE  /\ n \in DOMAIN s.messages /\ RecordsMessage(n, s.messages)
         /\ steps[n].type = "model" <=> n \in Said(s.messages, "ai")
         /\ steps[n].type = "tool" <=> n \in Said(s.messages, "tool")
<1>1. s.messages \in Seq(Message) /\ Len(s.messages) \in Nat
      /\ DOMAIN s.messages = 1 .. Len(s.messages)
  BY LenProperties DEF GraphState
<1>2. n \in DOMAIN s.messages
  BY <1>1 DEF RowsOK, NoStep
<1>3. RecordsMessage(n, s.messages)
  BY <1>2 DEF Told
<1>4. s.messages[n] \in Message
  BY <1>1, <1>2, ElementOfSeq
<1>5. s.messages[n].kind \in {"ai", "tool"}
  BY <1>4 DEF Message
<1>6. steps[n].type = IF s.messages[n].kind = "ai" THEN "model" ELSE "tool"
  BY <1>3 DEF RecordsMessage
<1> QED BY <1>2, <1>3, <1>5, <1>6 DEF Said

\* A new model step is one more than the answers of a conversation that is within
\* its budget.
LEMMA NewModelRow ==
  ASSUME TraceInv, AtModel, state.stepCount < MaxSteps,
         Changes(ModelStepNo), ModelStepNo \notin DOMAIN steps,
         steps'[ModelStepNo].type = "model"
  PROVE  Budgets'
<1> DEFINE said == Said(state.messages, "ai")
           n    == ModelStepNo
<1>1. /\ state \in GraphState /\ state.error = NoError /\ state \in GoesOn /\ state \in States
      /\ Limit(state) = n /\ n = Len(state.messages) + 1 /\ Len(state.messages) \in Nat
  BY ModelStands DEF GoesOn, States
<1>2. Told(state) /\ Within(state) /\ RowsOK /\ Talk(state)
  BY <1>1 DEF TraceInv, GraphInv, Conversations, Reach
<1>3. /\ IsFiniteSet(said) /\ Cardinality(said) \in Nat /\ n \notin said
      /\ Cardinality(said) = state.stepCount
  <2>1. state.messages \in Seq(Message)
    BY <1>1 DEF GraphState
  <2>2. IsFiniteSet(said) /\ Cardinality(said) \in Nat /\ said \subseteq 1 .. Len(state.messages)
    BY <2>1, SaidFinite
  <2> QED BY <1>1, <1>2, <2>2 DEF Talk
<1>4. RowsOf("model")' \subseteq said \cup {n}
  <2> SUFFICES ASSUME NEW m \in RowsOf("model")', m # n
               PROVE  m \in said
    OBVIOUS
  <2>1. m \in DOMAIN steps /\ steps[m].type = "model"
    BY DEF RowsOf, Changes
  <2>2. m <= Len(state.messages)
    <3>1. m <= n /\ m \in Nat
      BY <1>1, <1>2, <2>1 DEF Within, RowsOK
    <3> QED BY <1>1, <3>1
  <2> QED BY <1>1, <1>2, <2>1, <2>2, RowsBelow
<1>5. IsFiniteSet(said \cup {n}) /\ Cardinality(said \cup {n}) = Cardinality(said) + 1
  BY <1>3, FS_AddElement
<1>6. Cardinality(RowsOf("model")') <= Cardinality(said \cup {n})
      /\ IsFiniteSet(RowsOf("model")')
  BY <1>4, <1>5, FS_Subset
<1>7. Cardinality(RowsOf("model")') \in Nat
  BY <1>6, FS_CardinalityType
<1>8. Cardinality(RowsOf("model")') <= MaxSteps
  BY <1>3, <1>5, <1>6, <1>7, GraphAssumption
<1>9. RowsOf("tool")' = RowsOf("tool")
  BY DEF RowsOf, Changes
<1> QED BY <1>8, <1>9 DEF Budgets, TraceInv

\* A new tool step belongs to a batch that fits into the budget as a whole.
LEMMA NewToolRow ==
  ASSUME TraceInv, BeforeCall, Changes(ToolStepNo), steps'[ToolStepNo].type = "tool",
         ToolStepNo \in Len(state.messages) + 1 .. Len(state.messages) + Len(Batch),
         ToolStepNo \notin DOMAIN steps
  PROVE  Budgets'
<1> DEFINE said  == Said(state.messages, "tool")
           batch == Len(state.messages) + 1 .. Len(state.messages) + Len(Batch)
           n     == ToolStepNo
<1>1. /\ state \in GraphState /\ state.error = NoError /\ state \in GoesOn /\ state \in States
      /\ Limit(state) = Len(state.messages) + Len(Batch) + 1
      /\ Len(state.messages) \in Nat /\ Len(Batch) \in Nat
  BY ToolsStand DEF BeforeCall, InCall, States
<1>2. Told(state) /\ Within(state) /\ RowsOK /\ Talk(state)
  BY <1>1 DEF TraceInv, GraphInv, Conversations, Reach
<1>3. /\ IsFiniteSet(said) /\ Cardinality(said) \in Nat
      /\ Cardinality(said) = state.toolCallCount
  <2>1. state.messages \in Seq(Message)
    BY <1>1 DEF GraphState
  <2>2. IsFiniteSet(said) /\ Cardinality(said) \in Nat
    BY <2>1, SaidFinite
  <2> QED BY <1>1, <1>2, <2>2 DEF Talk
<1>4. RowsOf("tool")' \subseteq said \cup batch
  <2> SUFFICES ASSUME NEW m \in RowsOf("tool")', m \notin batch
               PROVE  m \in said
    OBVIOUS
  <2>1. m \in DOMAIN steps /\ steps[m].type = "tool"
    BY DEF RowsOf, Changes
  <2>2. m <= Len(state.messages)
    <3>1. m \in Nat
      BY <1>2, <2>1 DEF RowsOK
    <3>2. m <= Limit(state) /\ ~(m = Limit(state) /\ Len(state.messages) < m)
      BY <1>1, <1>2, <2>1 DEF Within
    <3> QED BY <1>1, <3>1, <3>2
  <2> QED BY <1>1, <1>2, <2>1, <2>2, RowsBelow
<1>5. IsFiniteSet(batch) /\ Cardinality(batch) = Len(Batch)
  BY <1>1, IntervalCount
<1> HIDE DEF batch
<1>6. /\ IsFiniteSet(said \cup batch)
      /\ Cardinality(said \cup batch) =
           Cardinality(said) + Cardinality(batch) - Cardinality(said \cap batch)
  BY <1>3, <1>5, FS_Union
<1>7. Cardinality(said \cap batch) \in Nat
  BY <1>5, FS_Subset, FS_CardinalityType
<1>8. Cardinality(said \cup batch) <= MaxToolCalls
  <2>1. state.toolCallCount + Len(Batch) <= MaxToolCalls
    BY DEF BeforeCall, WithinBudget, TraceInv, Underway
  <2> QED BY <1>1, <1>3, <1>5, <1>6, <1>7, <2>1, GraphAssumption
<1>9. Cardinality(RowsOf("tool")') <= Cardinality(said \cup batch)
      /\ IsFiniteSet(RowsOf("tool")')
  BY <1>4, <1>6, FS_Subset
<1>10. Cardinality(RowsOf("tool")') \in Nat /\ Cardinality(said \cup batch) \in Nat
  BY <1>6, <1>9, FS_CardinalityType
<1>11. Cardinality(RowsOf("tool")') <= MaxToolCalls
  BY <1>8, <1>9, <1>10, GraphAssumption
<1>12. RowsOf("model")' = RowsOf("model")
  BY DEF RowsOf, Changes
<1> QED BY <1>11, <1>12 DEF Budgets, TraceInv

\* A message is not the empty output of a step that has not finished.
LEMMA MessageIsOutput ==
  ASSUME NEW m \in Message
  PROVE  m # NoOutput
<1>1. "kind" \in DOMAIN m
  BY DEF Message
<1>2. DOMAIN << >> = {}
  OBVIOUS
<1> QED BY <1>1, <1>2 DEF NoOutput

\* No tool step hangs under a row behind the conversation.
LEMMA ParentsBefore ==
  ASSUME TraceInv, state \in GoesOn, state.error = NoError,
         NEW n \in Nat, Len(state.messages) < n
  PROVE  \A t \in RowsOf("tool") : steps[t].parent # n
<1> SUFFICES ASSUME NEW t \in RowsOf("tool") PROVE steps[t].parent # n
  OBVIOUS
<1>1. steps[t].parent <= Len(state.messages)
  BY DEF TraceInv, Reach, Anchored
<1>2. steps[t].parent \in Nat
  BY DEF TraceInv, GraphInv, RowsOK, RowsOf, Rows
<1>3. Len(state.messages) \in Nat
  BY StatesTyped DEF States, TraceInv, GraphInv
<1> QED BY <1>1, <1>2, <1>3

\* The rows a model node writes: its own, which it found or which is one more.
LEMMA ModelRow ==
  ASSUME TraceInv, AtModel \/ pc = "asked", Changes(ModelStepNo), UNCHANGED ledgerVars,
         \/ ModelStepNo \in DOMAIN steps
         \/ AtModel /\ state.stepCount < MaxSteps /\ steps'[ModelStepNo].type = "model"
  PROVE  FineRows /\ Traces' /\ Budgets'
<1>1. /\ state \in GoesOn /\ state.error = NoError
      /\ Len(state.messages) \in Nat /\ ModelStepNo \in Nat
      /\ ModelStepNo = Len(state.messages) + 1
      /\ \A s \in GoesOn : Limit(s) = ModelStepNo
  BY ModelStands DEF GoesOn, States
<1>2. ModelStepNo \notin DOMAIN steps => steps'[ModelStepNo].type = "model"
  OBVIOUS
<1>3. Len(state.messages) < ModelStepNo
  BY <1>1
<1>4. FineRows
  <2> DEFINE n == ModelStepNo
  <2> HIDE DEF n
  <2>1. n \in DOMAIN steps \/ \A s \in GoesOn : s.error = NoError =>
              /\ n <= Limit(s)
              /\ n = Limit(s) => steps'[n].type = "model"
              /\ steps'[n].type = "tool" => steps'[n].parent <= Len(s.messages)
    BY <1>1, <1>2 DEF n
  <2>2. n \in Nat /\ Changes(n) /\ Len(state.messages) < n
    BY <1>1, <1>3 DEF n
  <2> QED BY <2>1, <2>2, FineChanged
<1>5. \A t \in RowsOf("tool") : steps[t].parent # ModelStepNo
  BY <1>1, <1>3, ParentsBefore
<1>6. Traces'
  <2>1. PICK n : n = ModelStepNo
    OBVIOUS
  <2>2. /\ Changes(n) /\ \A t \in RowsOf("tool") : steps[t].parent # n
        /\ ~(n \notin DOMAIN steps /\ steps'[n].type = "tool")
    BY <1>2, <1>5, <2>1
  <2> QED BY <2>2, TracesStay DEF TraceInv
<1>7. Budgets'
  BY NewModelRow, BudgetsStay DEF TraceInv
<1> QED BY <1>4, <1>6, <1>7

\* Where a call of the batch stands.
LEMMA CallStands ==
  ASSUME TraceInv, BeforeCall \/ pc \in InCall
  PROVE  /\ EntersTools \/ pc \in {"batch"} \cup InCall
         /\ Len(results) \in Nat /\ Len(results) < Len(Batch)
         /\ results \in Seq(Message)
         /\ Call \in Calls /\ Call = Batch[ToolStepNo - Len(state.messages)]
         /\ ToolStepNo = Len(state.messages) + Len(results) + 1
         /\ ToolStepNo \in Len(state.messages) + 1 .. Len(state.messages) + Len(Batch)
         /\ ToolStepNo \in Nat \ {NoStep}
         /\ ToolStep = [type |-> "tool", parent |-> Len(state.messages), input |-> <<Call>>]
<1>1. EntersTools \/ pc \in {"batch"} \cup InCall
  BY DEF BeforeCall
<1>2. /\ Len(state.messages) \in Nat /\ Len(Batch) \in Nat
      /\ state.runStepCount = Len(state.messages) /\ state.lastStep = Len(state.messages)
  BY <1>1, ToolsStand
<1>3. state.next = "tools" /\ Len(results) < Len(Batch)
  BY EntersCall DEF Place, TraceInv, GraphInv
<1>4. Call \in Calls /\ Len(results) \in Nat
  BY <1>3, CallInBatch DEF TraceInv, GraphInv
<1>5. ToolStepNo = Len(state.messages) + Len(results) + 1
  BY <1>2 DEF ToolStepNo
<1>6. ToolStepNo - Len(state.messages) = Len(results) + 1
  <2> DEFINE shown == Len(state.messages)
             made  == Len(results)
  <2>1. shown \in Nat /\ made \in Nat /\ ToolStepNo = shown + made + 1
    BY <1>2, <1>4, <1>5
  <2> HIDE DEF shown, made
  <2>2. ToolStepNo - shown = made + 1
    BY <2>1
  <2> QED BY <2>2 DEF shown, made
<1>7. Call = Batch[ToolStepNo - Len(state.messages)]
  BY <1>6 DEF Call
<1>8. results \in Seq(Message)
  BY DEF TraceInv, GraphInv, NodeOK
<1>9. ToolStepNo \in Len(state.messages) + 1 .. Len(state.messages) + Len(Batch)
      /\ ToolStepNo \in Nat \ {NoStep}
  BY <1>2, <1>3, <1>4, <1>5 DEF NoStep
<1>10. ToolStep = [type |-> "tool", parent |-> Len(state.messages), input |-> <<Call>>]
  BY <1>2 DEF ToolStep
<1> QED BY <1>1, <1>3, <1>4, <1>5, <1>7, <1>8, <1>9, <1>10

\* The answer that asked for the batch is recorded.
LEMMA AskedFor ==
  ASSUME TraceInv, EntersTools \/ pc \in {"batch"} \cup InCall
  PROVE  LET n == Len(state.messages) IN
         /\ n \in DOMAIN steps /\ steps[n].type = "model"
         /\ steps[n].output = LastMessage /\ LastMessage # NoOutput
<1> DEFINE n == Len(state.messages)
<1>1. /\ n \in Nat \ {0} /\ state.error = NoError /\ state \in States
      /\ state.messages \in Seq(Message)
      /\ LastMessage = state.messages[n] /\ LastMessage \in Message /\ LastMessage.kind = "ai"
  BY ToolsStand DEF Last, States
<1>2. n \in DOMAIN state.messages
  BY <1>1, LenProperties
<1>3. RecordsMessage(n, state.messages)
  BY <1>1, <1>2 DEF TraceInv, Conversations, Told
<1>4. LastMessage # NoOutput
  BY <1>1, MessageIsOutput
<1> HIDE DEF n
<1>5. n \in DOMAIN steps /\ steps[n].type = "model" /\ steps[n].output = LastMessage
  BY <1>1, <1>3 DEF RecordsMessage, Recorded
<1> QED BY <1>4, <1>5 DEF n

\* The rows a tools node writes.
LEMMA ToolRow ==
  ASSUME TraceInv, BeforeCall \/ pc \in InCall, Changes(ToolStepNo), UNCHANGED ledgerVars,
         \/ ToolStepNo \in DOMAIN steps
         \/ BeforeCall /\ Definition(steps'[ToolStepNo]) = ToolStep
  PROVE  FineRows /\ Traces' /\ Budgets'
<1> DEFINE n == ToolStepNo
           m == Len(state.messages)
<1>1. /\ EntersTools \/ pc \in {"batch"} \cup InCall
      /\ n \in Nat /\ n \in m + 1 .. m + Len(Batch) /\ Call = Batch[n - m]
      /\ ToolStep = [type |-> "tool", parent |-> m, input |-> <<Call>>]
  BY CallStands
<1>2. /\ state.error = NoError /\ GoesOn = {state} /\ m \in Nat \ {0} /\ Len(Batch) \in Nat
      /\ Limit(state) = m + Len(Batch) + 1 /\ Batch \in Seq(Calls) /\ Batch = LastMessage.calls
  BY <1>1, ToolsStand
<1>3. /\ m \in DOMAIN steps /\ steps[m].type = "model"
      /\ steps[m].output = LastMessage /\ LastMessage # NoOutput
  BY <1>1, AskedFor
<1>4. m < n /\ n <= Limit(state) /\ n # Limit(state) /\ m # n /\ m <= m /\ n - m \in 1 .. Len(Batch)
  <2> DEFINE size  == Len(Batch)
             limit == Limit(state)
  <2>1. /\ n \in Nat /\ m \in Nat /\ size \in Nat
        /\ n \in m + 1 .. m + size /\ limit = m + size + 1
    BY <1>1, <1>2
  <2> HIDE DEF n, m, size, limit
  <2>2. m < n /\ n <= limit /\ n # limit /\ m # n /\ m <= m /\ n - m \in 1 .. size
    BY <2>1
  <2> QED BY <2>2 DEF size, limit
<1>5. n \notin DOMAIN steps =>
        steps'[n].type = "tool" /\ steps'[n].parent = m /\ steps'[n].input = <<Batch[n - m]>>
  BY <1>1 DEF Definition
<1>6. n - m \in DOMAIN Batch
  BY <1>2, <1>4, LenProperties
<1> HIDE DEF n, m
<1>7. FineRows
  <2>1. n \in DOMAIN steps \/ \A s \in GoesOn : s.error = NoError =>
              /\ n <= Limit(s)
              /\ n = Limit(s) => steps'[n].type = "model"
              /\ steps'[n].type = "tool" => steps'[n].parent <= Len(s.messages)
    BY <1>2, <1>4, <1>5 DEF m
  <2>2. n \in Nat /\ Changes(n) /\ Len(state.messages) < n
    BY <1>1, <1>4 DEF n, m
  <2> QED BY <2>1, <2>2, FineChanged
<1>8. \A t \in RowsOf("tool") : steps[t].parent # n
  BY <1>1, <1>2, <1>4, ParentsBefore DEF m
<1>9. Changes(n)
  BY DEF n
<1>10. ASSUME NEW b, b = n, b \notin DOMAIN steps
       PROVE  Asked(b)'
  <2>1. steps'[b].parent = m /\ steps'[b].input = <<Batch[b - m]>>
    BY <1>5, <1>10
  <2>2. m \in DOMAIN steps' /\ steps'[m] = steps[m]
    BY <1>3, <1>4, <1>9 DEF Changes
  <2>3. /\ steps'[m].type = "model" /\ steps'[m].output # NoOutput
        /\ b - m \in DOMAIN steps'[m].output.calls
        /\ steps'[b].input = <<steps'[m].output.calls[b - m]>>
    BY <1>2, <1>3, <1>6, <1>10, <2>1, <2>2
  <2> QED BY <2>1, <2>2, <2>3 DEF Asked, Recorded
<1>11. Traces'
  <2>1. PICK b : b = n
    OBVIOUS
  <2>2. b \notin DOMAIN steps => Asked(b)'
    BY <1>10, <2>1
  <2> QED BY <1>8, <1>9, <2>1, <2>2, TracesStay DEF TraceInv
<1>12. Budgets'
  BY <1>1, <1>5, <1>9, NewToolRow, BudgetsStay DEF TraceInv, n, m
<1> QED BY <1>7, <1>11, <1>12

LEMMA NoRow ==
  ASSUME TraceInv, UNCHANGED <<steps, ledgerVars>>
  PROVE  FineRows /\ Traces' /\ Budgets'
BY FineUnchanged, TracesUnchanged, BudgetsStay DEF TraceInv

-----------------------------------------------------------------------------
(***************************************************************************)
(* The model node.                                                         *)
(***************************************************************************)

\* What is recorded of a conversation stays recorded when it grows.
LEMMA LongerRecorded ==
  ASSUME NEW m \in Seq(Message), NEW r \in Seq(Message), NEW i \in DOMAIN m,
         RecordsMessage(i, m)'
  PROVE  RecordsMessage(i, m \o r)'
<1>1. /\ Len(m) \in Nat /\ Len(r) \in Nat /\ i \in 1 .. Len(m)
      /\ \A j \in 1 .. Len(m) : (m \o r)[j] = m[j]
  BY ConcatProperties, LenProperties
<1>2. SubSeq(m \o r, 1, i - 1) = SubSeq(m, 1, i - 1)
  BY <1>1, SameBefore
<1>3. (m \o r)[i] = m[i] /\ \A j \in 1 .. i - 1 : (m \o r)[j] = m[j]
  BY <1>1
<1> DEFINE longer == m \o r
<1> HIDE DEF longer
<1>4. RecordsMessage(i, longer)'
  BY <1>2, <1>3 DEF RecordsMessage, longer
<1> QED BY <1>4 DEF longer

\* All that was shown is what the conversation was.
LEMMA ShownAll ==
  ASSUME NEW m \in Seq(Message), NEW r \in Seq(Message)
  PROVE  SubSeq(m \o r, 1, Len(m)) = m
<1>1. /\ Len(m) \in Nat /\ Len(r) \in Nat /\ m \o r \in Seq(Message)
      /\ \A j \in 1 .. Len(m) : m[j] \in Message /\ (m \o r)[j] = m[j]
  BY ConcatProperties, LenProperties, ElementOfSeq
<1>2. /\ SubSeq(m \o r, 1, Len(m)) \in Seq(Message)
      /\ Len(SubSeq(m \o r, 1, Len(m))) = Len(m)
      /\ \A j \in 1 .. Len(m) : SubSeq(m \o r, 1, Len(m))[j] = (m \o r)[j]
  <2>1. \A j \in 1 .. Len(m) : (m \o r)[j] \in Message
    BY <1>1
  <2> QED BY <1>1, <2>1, SubSeqProperties
<1> QED BY <1>1, <1>2, SeqEqual

LEMMA ModelErrorReturns ==
  ASSUME TraceInv, FineRows, pc # "idle", UNCHANGED runVars,
         NEW last \in Nat, ModelError(last)
  PROVE  Conversations' /\ Reach' /\ Segment' /\ Underway' /\ Ended'
<1> DEFINE s == [state EXCEPT
      !.stepCount = @ + 1, !.runStepCount = ModelStepNo, !.lastStep = last,
      !.error = "agent_model_error", !.next = "end"]
<1>1. /\ state \in GraphState /\ ModelStepNo \in Nat /\ state.stepCount + 1 \in Nat
  BY ModelStepNumbered DEF TraceInv, GraphInv, NodeOK
<1>2. s \in GraphState
  BY <1>1, ErrorOfModel DEF Errors
<1>3. s.next = "end" /\ s.error # NoError /\ s.messages = state.messages
  BY <1>1 DEF GraphState, NoError
<1>4. NodeReturns(s)
  BY DEF ModelError
<1>5. Len(state.messages) <= Len(state.messages)
  BY <1>1, LenProperties DEF GraphState
<1> HIDE DEF s
<1> QED BY <1>2, <1>3, <1>4, <1>5, ErrorReturns

LEMMA ModelOverBudgetTraced ==
  ASSUME TraceInv, ModelOverBudget, GraphInv'
  PROVE  TraceInv'
<1> DEFINE s == [state EXCEPT !.error = "agent_step_budget_exceeded", !.next = "end"]
<1>1. /\ AtModel /\ NodeReturns(s) /\ UNCHANGED <<runVars, steps, ledgerVars>>
  BY DEF ModelOverBudget
<1>2. state \in GraphState /\ pc # "idle"
  BY <1>1, ModelStands
<1>3. /\ s \in GraphState /\ s.next = "end" /\ s.error # NoError
      /\ s.messages = state.messages
  BY <1>2 DEF GraphState, Errors, NoError
<1>4. Len(state.messages) <= Len(state.messages)
  BY <1>2, LenProperties DEF GraphState
<1>5. FineRows /\ Traces' /\ Budgets'
  BY <1>1, NoRow
<1> HIDE DEF s
<1>6. Conversations' /\ Reach' /\ Segment' /\ Underway' /\ Ended'
  BY <1>1, <1>2, <1>3, <1>4, <1>5, ErrorReturns
<1> QED BY <1>5, <1>6 DEF TraceInv

LEMMA ModelStartsTraced ==
  ASSUME TraceInv, ModelStarts, GraphInv'
  PROVE  TraceInv'
<1>1. /\ AtModel /\ state.stepCount < MaxSteps /\ UNCHANGED <<runVars, ledgerVars>>
      /\ Replayable(ModelStepNo, ModelStep)
      /\ steps' = StartedStep(ModelStepNo, ModelStep)
      /\ pc' = "asked"
      /\ UNCHANGED <<state, durable, unsaved, released, results, answer>>
  BY DEF ModelStarts, NodeGoesOn
<1>2. ModelStep \in StepDefinitions /\ ModelStep.type = "model"
  BY ModelStepDefined DEF TraceInv, GraphInv
<1>3. /\ Changes(ModelStepNo) /\ Definition(steps'[ModelStepNo]) = ModelStep
      /\ steps'[ModelStepNo].type = "model"
  BY <1>1, <1>2, StartChanges
<1>4. FineRows /\ Traces' /\ Budgets'
  BY <1>1, <1>3, ModelRow
<1>5. /\ pc # "idle" /\ run = "running" /\ state.next = "model"
      /\ run' = run /\ interrupts' = interrupts /\ segment' = segment
  BY <1>1, ModelStands DEF runVars
<1>6. Conversations' /\ Reach'
  BY <1>1, <1>4, <1>5, Stays
<1>7. Segment'
  <2>1. States' = States /\ \A s : Limit(s)' = Limit(s)
    BY <1>1 DEF States, Limit
  <2> QED BY <1>1, <1>5, <2>1 DEF Segment, InCall, TraceInv, Limit
<1>8. Underway'
  <2>1. ModelStepNo' = ModelStepNo /\ ModelStep' = ModelStep
    BY <1>1 DEF ModelStepNo, ModelStep
  <2> QED BY <1>1, <1>3, <2>1 DEF Underway, InCall, Definition
<1> QED BY <1>4, <1>5, <1>6, <1>7, <1>8, RunsOn DEF TraceInv

LEMMA ModelStepRefusedTraced ==
  ASSUME TraceInv, ModelStepRefused, GraphInv'
  PROVE  TraceInv'
<1>1. /\ AtModel /\ state.stepCount < MaxSteps /\ UNCHANGED <<runVars, ledgerVars>>
      /\ StartStepRaises(ModelStepNo, ModelStep) /\ ModelError(state.lastStep)
  BY DEF ModelStepRefused
<1>2. FineRows /\ Traces' /\ Budgets'
  <2>1. CASE UNCHANGED steps
    BY <1>1, <2>1, NoRow
  <2>2. CASE Replayable(ModelStepNo, ModelStep) /\ steps' = StartedStep(ModelStepNo, ModelStep)
    <3>1. ModelStep \in StepDefinitions /\ ModelStep.type = "model"
      BY ModelStepDefined DEF TraceInv, GraphInv
    <3>2. Changes(ModelStepNo) /\ steps'[ModelStepNo].type = "model"
      BY <2>2, <3>1, StartChanges
    <3> QED BY <1>1, <3>2, ModelRow
  <2> QED BY <1>1, <2>1, <2>2 DEF StartStepRaises
<1>3. pc # "idle" /\ state.lastStep \in Nat
  BY <1>1, ModelStands, ModelStepNumbered DEF TraceInv, GraphInv
<1>4. Conversations' /\ Reach' /\ Segment' /\ Underway' /\ Ended'
  BY <1>1, <1>2, <1>3, ModelErrorReturns
<1> QED BY <1>2, <1>4 DEF TraceInv

\* Finishing the model step writes its own row.
LEMMA ModelFinishes ==
  ASSUME TraceInv, pc = "asked", UNCHANGED ledgerVars, NEW status, NEW output,
         steps' \in {steps, FinishedStep(ModelStepNo, status, output)}
  PROVE  FineRows /\ Traces' /\ Budgets'
<1>1. ModelStepNo \in DOMAIN steps /\ RowsOK
  BY DEF TraceInv, GraphInv, Place, Recorded
<1>2. CASE steps' = steps
  BY <1>2, NoRow
<1>3. CASE steps' = FinishedStep(ModelStepNo, status, output)
  BY <1>1, <1>3, FinishChanges, ModelRow
<1> QED BY <1>2, <1>3

LEMMA ModelFailsTraced ==
  ASSUME TraceInv, ModelFails \/ ModelWriteFails, GraphInv'
  PROVE  TraceInv'
<1>1. CASE ModelFails
  <2>1. /\ pc = "asked" /\ UNCHANGED <<runVars, ledgerVars>>
        /\ steps' = FinishedStep(ModelStepNo, "failed", NoOutput)
        /\ ModelError(ModelStepNo)
    BY <1>1 DEF ModelFails
  <2>2. FineRows /\ Traces' /\ Budgets'
    BY <2>1, ModelFinishes
  <2>3. ModelStepNo \in Nat
    BY ModelStepNumbered DEF TraceInv, GraphInv
  <2>4. Conversations' /\ Reach' /\ Segment' /\ Underway' /\ Ended'
    BY <2>1, <2>2, <2>3, ModelErrorReturns
  <2> QED BY <2>2, <2>4 DEF TraceInv
<1>2. CASE ModelWriteFails
  <2>1. PICK status, output : FinishStepRaises(ModelStepNo, status, output)
    BY <1>2 DEF ModelWriteFails
  <2>2. /\ pc = "asked" /\ pc' = "raised"
        /\ steps' \in {steps, FinishedStep(ModelStepNo, status, output)}
        /\ UNCHANGED <<state, durable, unsaved, released, runVars, ledgerVars>>
    BY <1>2, <2>1 DEF ModelWriteFails, FinishStepRaises
  <2>3. FineRows /\ Traces' /\ Budgets'
    BY <2>2, ModelFinishes
  <2>4. Conversations' /\ Reach' /\ Segment' /\ Underway' /\ Ended'
    BY <2>2, <2>3, RaisedKeeps
  <2> QED BY <2>3, <2>4 DEF TraceInv
<1> QED BY <1>1, <1>2

\* An answer is recorded with all that was shown to the model.
LEMMA AnswerTold ==
  ASSUME TraceInv, FineRows, pc = "asked", NEW x \in Message, x.kind = "ai",
         steps' = FinishedStep(ModelStepNo, "succeeded", x),
         NEW s, s.messages = Append(state.messages, x)
  PROVE  Told(s)'
<1>1. PICK o, m, n : o \in States /\ o = state /\ m = state.messages /\ n = ModelStepNo
  BY DEF States
<1>2. /\ state \in GraphState /\ state.error = NoError
      /\ n = Len(m) + 1 /\ Len(m) \in Nat /\ n \in Nat \ {NoStep}
      /\ state.lastStep = Len(m) /\ m \in Seq(Message) /\ o.messages = m
  BY <1>1, ModelStands DEF GraphState
<1>3. \A i \in DOMAIN m : RecordsMessage(i, m)'
  BY <1>1, <1>2 DEF FineRows, Told
<1>4. <<x>> \in Seq(Message) /\ Append(m, x) = m \o <<x>>
  BY <1>2
<1>5. ASSUME NEW i \in DOMAIN m
      PROVE  RecordsMessage(i, Append(m, x))'
  <2>1. RecordsMessage(i, m \o <<x>>)'
    BY <1>2, <1>3, <1>4, LongerRecorded
  <2>2. PICK longer : longer = m \o <<x>>
    OBVIOUS
  <2>3. RecordsMessage(i, longer)'
    BY <2>1, <2>2
  <2>4. longer = Append(m, x)
    BY <1>4, <2>2
  <2> QED BY <2>3, <2>4
<1>6. RecordsMessage(n, Append(m, x))'
  <2>1. n \in DOMAIN steps /\ RowsOK /\ Definition(steps[n]) = ModelStep
    BY <1>1 DEF TraceInv, GraphInv, Place, Recorded, Underway
  <2>2. /\ n \in DOMAIN steps' /\ Definition(steps'[n]) = ModelStep /\ steps'[n].output = x
    BY <1>1, <2>1, FinishChanges
  <2>3. steps'[n].type = "model" /\ steps'[n].parent = Len(m) /\ steps'[n].input = m
    BY <1>1, <1>2, <2>2 DEF Definition, ModelStep
  <2>4. Append(m, x)[n] = x
    BY <1>2, AppendProperties
  <2>5. SubSeq(Append(m, x), 1, n - 1) = m
    <3>1. n - 1 = Len(m)
      BY <1>2
    <3> QED BY <1>2, <1>4, <3>1, ShownAll
  <2>6. n - 1 = Len(m)
    BY <1>2
  <2>7. PICK longer : longer = Append(m, x)
    OBVIOUS
  <2>8. RecordsMessage(n, longer)'
    BY <2>2, <2>3, <2>4, <2>5, <2>6, <2>7 DEF RecordsMessage, Recorded
  <2> QED BY <2>7, <2>8
<1>7. DOMAIN s.messages = DOMAIN m \cup {n} /\ s.messages = Append(m, x)
  <2>1. /\ Len(Append(m, x)) = Len(m) + 1 /\ Append(m, x) \in Seq(Message)
    BY <1>2, AppendProperties
  <2>2. DOMAIN m = 1 .. Len(m) /\ DOMAIN Append(m, x) = 1 .. Len(m) + 1
    BY <1>2, <2>1, LenProperties
  <2> QED BY <1>1, <1>2, <2>2
<1> QED BY <1>5, <1>6, <1>7 DEF Told

LEMMA ModelAnswersTraced ==
  ASSUME TraceInv, ModelAnswers, GraphInv'
  PROVE  TraceInv'
<1>1. PICK calls \in Batches :
        /\ steps' = FinishedStep(ModelStepNo, "succeeded", AnswerMessage(calls))
        /\ NodeReturns([state EXCEPT
             !.messages = Append(@, AnswerMessage(calls)),
             !.stepCount = @ + 1, !.runStepCount = ModelStepNo, !.lastStep = ModelStepNo,
             !.next = IF calls = << >> THEN "end" ELSE "tools"])
  BY DEF ModelAnswers
<1>2. pc = "asked" /\ UNCHANGED <<runVars, ledgerVars>>
  BY DEF ModelAnswers
<1>3. PICK x : x = AnswerMessage(calls)
  OBVIOUS
<1>4. x \in Message /\ x.kind = "ai" /\ x.calls = calls
  BY <1>3, GraphAssumption DEF AnswerMessage, Message, TraceInv, GraphInv, RunOK
<1>5. PICK s : s = [state EXCEPT
        !.messages = Append(@, x),
        !.stepCount = @ + 1, !.runStepCount = ModelStepNo, !.lastStep = ModelStepNo,
        !.next = IF calls = << >> THEN "end" ELSE "tools"]
  OBVIOUS
<1>6. PICK m, n : m = state.messages /\ n = ModelStepNo
  OBVIOUS
<1>7. /\ state \in GraphState /\ state.error = NoError /\ state.next = "model"
      /\ run = "running" /\ pc # "idle" /\ state \in States /\ state \in GoesOn
      /\ n = Len(m) + 1 /\ Len(m) \in Nat /\ m \in Seq(Message) /\ Limit(state) = n
  BY <1>2, <1>6, ModelStands DEF GraphState, States, GoesOn
<1>8. /\ s.messages = Append(m, x) /\ s.stepCount = state.stepCount + 1
      /\ s.toolCallCount = state.toolCallCount /\ s.runStepCount = n /\ s.lastStep = n
      /\ s.error = NoError /\ s.next = IF calls = << >> THEN "end" ELSE "tools"
  BY <1>5, <1>6, <1>7 DEF GraphState
<1>9. NodeReturns(s) /\ steps' = FinishedStep(ModelStepNo, "succeeded", x)
  BY <1>1, <1>3, <1>5
<1>10. s \in GraphState /\ state' = s
  BY <1>9 DEF NodeReturns, GraphInv, NodeOK
<1>11. FineRows /\ Traces' /\ Budgets'
  BY <1>2, <1>9, ModelFinishes
<1>12. /\ Append(m, x) \in Seq(Message) /\ Len(Append(m, x)) = n
       /\ Last(s.messages) = x /\ s.messages # << >>
  <2>1. /\ Append(m, x) \in Seq(Message) /\ Len(Append(m, x)) = Len(m) + 1
        /\ Append(m, x)[Len(m) + 1] = x
    BY <1>4, <1>7, AppendProperties
  <2>2. Append(m, x) # << >>
    BY <1>4, <1>7, LastAppended
  <2> QED BY <1>7, <1>8, <2>1, <2>2 DEF Last
<1>13. Talk(s)
  <2>1. Talk(state)
    BY <1>7 DEF TraceInv, Conversations
  <2>2. /\ Cardinality(Said(Append(m, x), "ai")) = Cardinality(Said(m, "ai")) + 1
        /\ Said(Append(m, x), "tool") = Said(m, "tool")
    BY <1>4, <1>7, SaidAppend
  <2>3. /\ s.runStepCount = Len(s.messages) /\ s.lastStep = Len(s.messages)
    BY <1>8, <1>12
  <2>4. /\ s.stepCount = Cardinality(Said(s.messages, "ai"))
        /\ s.toolCallCount = Cardinality(Said(s.messages, "tool"))
    BY <1>6, <1>7, <1>8, <2>1, <2>2 DEF Talk
  <2>5. s.next = "end" => calls = << >>
    BY <1>8
  <2> QED BY <1>4, <1>8, <1>12, <2>3, <2>4, <2>5 DEF Talk
<1>14. Told(s)'
  BY <1>2, <1>4, <1>6, <1>8, <1>9, <1>11, AnswerTold
<1>15. DOMAIN steps' = DOMAIN steps /\ Changes(n)
  <2>1. RowsOK /\ ModelStepNo \in DOMAIN steps
    BY <1>2 DEF TraceInv, GraphInv, Place, Recorded
  <2> QED BY <1>6, <1>9, <2>1, FinishChanges
<1>16. Within(s)' /\ Anchored(s)'
  <2>1. Within(state) /\ Anchored(state) /\ RowsOK
    BY <1>7 DEF TraceInv, GraphInv, Reach
  <2>2. \A k \in DOMAIN steps' : k \in Nat /\ k <= n
    BY <1>7, <1>15, <2>1 DEF Within, RowsOK
  <2>3. Len(s.messages) = n /\ n \in Nat
    BY <1>7, <1>8, <1>12
  <2>4. Limit(s) = n \/ (Limit(s) \in Nat /\ n < Limit(s))
    <3>1. CASE s.next = "tools"
      <4>1. Limit(s) = n + (Len(calls) + 1) /\ Len(calls) \in Nat
        BY <1>4, <1>12, <2>3, <3>1, GraphAssumption DEF Limit
      <4> QED BY <2>3, <4>1
    <3>2. CASE s.next # "tools"
      BY <1>8, <2>3, <3>2 DEF Limit
    <3> QED BY <3>1, <3>2
  <2>5. Limit(s)' = Limit(s)
    BY DEF Limit
  <2>6. Within(s)'
    <3> SUFFICES ASSUME NEW k \in DOMAIN steps'
                 PROVE  k <= Limit(s) /\ ~(k = Limit(s) /\ n < k)
      BY <2>3, <2>5 DEF Within
    <3>1. k \in Nat /\ k <= n
      BY <2>2
    <3> QED BY <2>3, <2>4, <3>1
  <2>7. Anchored(s)'
    <3> SUFFICES ASSUME NEW k \in RowsOf("tool")'
                 PROVE  steps'[k].parent <= n
      BY <2>3 DEF Anchored
    <3>1. k \in RowsOf("tool") /\ steps'[k].parent = steps[k].parent
      BY <1>15 DEF RowsOf, Changes
    <3>2. steps[k].parent <= Len(m)
      BY <1>6, <1>7, <2>1, <3>1 DEF Anchored
    <3>3. steps[k].parent \in Nat
      BY <2>1, <3>1 DEF RowsOK, RowsOf, Rows
    <3> QED BY <1>7, <3>1, <3>2, <3>3
  <2> QED BY <2>6, <2>7
<1>17. Len(state.messages) <= Len(s.messages) /\ run' = run
       /\ interrupts' = interrupts /\ segment' = segment
  BY <1>2, <1>6, <1>7, <1>8, <1>12 DEF runVars
<1>18. Conversations' /\ Reach'
  BY <1>7, <1>9, <1>10, <1>11, <1>13, <1>14, <1>16, <1>17, Returns
<1>19. pc' = "between" /\ released' = FALSE /\ state'.next # "model"
  BY <1>8, <1>9 DEF NodeReturns
<1>20. Segment' /\ Underway'
  BY <1>7, <1>17, <1>19 DEF Segment, Underway, InCall, TraceInv
<1> QED BY <1>7, <1>11, <1>17, <1>18, <1>20, RunsOn DEF TraceInv

LEMMA ModelNodeTraced ==
  ASSUME TraceInv, ModelNode, GraphInv'
  PROVE  TraceInv'
BY ModelOverBudgetTraced, ModelStartsTraced, ModelStepRefusedTraced, ModelAnswersTraced,
   ModelFailsTraced DEF ModelNode

-----------------------------------------------------------------------------
(***************************************************************************)
(* The tools node.                                                         *)
(***************************************************************************)

\* The calls that are finished stay finished while the next one is worked on.
LEMMA ResultsStay ==
  ASSUME TraceInv, BeforeCall \/ pc \in InCall, Changes(ToolStepNo) \/ UNCHANGED steps
  PROVE  /\ WithinBudget
         /\ \A i \in DOMAIN results :
              LET n == Len(state.messages) + i IN
              /\ n \in DOMAIN steps' /\ steps'[n].output = results[i]
              /\ results[i].kind = "tool"
              /\ Definition(steps'[n]) =
                   [type |-> "tool", parent |-> Len(state.messages), input |-> <<Batch[i]>>]
<1>1. WithinBudget
  BY DEF BeforeCall, TraceInv, Underway
<1>2. CASE EntersTools
  <2>1. results = << >>
    BY <1>2 DEF EntersTools, TraceInv, GraphInv, Place
  <2>2. DOMAIN results = {}
    BY <2>1
  <2> QED BY <1>1, <2>2
<1>3. CASE pc \in {"batch"} \cup InCall
  <2> DEFINE m == Len(state.messages)
  <2>1. /\ m \in Nat /\ Len(results) \in Nat /\ ToolStepNo = m + Len(results) + 1
        /\ DOMAIN results = 1 .. Len(results)
    BY <1>3, CallStands, ToolsStand, LenProperties
  <2>2. ASSUME NEW i \in DOMAIN results
        PROVE  /\ m + i \in DOMAIN steps /\ m + i # ToolStepNo
               /\ steps[m + i].output = results[i] /\ results[i].kind = "tool"
               /\ Definition(steps[m + i]) =
                    [type |-> "tool", parent |-> m, input |-> <<Batch[i]>>]
    <3>1. m + i # ToolStepNo
      BY <2>1
    <3>2. /\ Recorded(m + i)
          /\ steps[m + i].output = results[i] /\ results[i].kind = "tool"
          /\ Definition(steps[m + i]) =
               [type |-> "tool", parent |-> m, input |-> <<Batch[i]>>]
      BY <1>3 DEF TraceInv, Underway
    <3> QED BY <3>1, <3>2 DEF Recorded
  <2> HIDE DEF m
  <2>3. ASSUME NEW i \in DOMAIN results
        PROVE  m + i \in DOMAIN steps' /\ steps'[m + i] = steps[m + i]
    BY <2>2, <2>3 DEF Changes
  <2> QED BY <1>1, <2>2, <2>3 DEF m
<1> QED BY <1>2, <1>3 DEF BeforeCall

LEMMA ToolErrorReturns ==
  ASSUME TraceInv, FineRows, BeforeCall \/ pc \in InCall, UNCHANGED runVars,
         NEW last \in Nat, ToolError(last)
  PROVE  Conversations' /\ Reach' /\ Segment' /\ Underway' /\ Ended'
<1> DEFINE s == [state EXCEPT
      !.runStepCount = ToolStepNo, !.lastStep = last,
      !.error = "agent_tool_execution_error", !.next = "end"]
<1>1. state \in GraphState /\ ToolStepNo \in Nat /\ pc # "idle"
  BY CallStands, ToolsStand
<1>2. s \in GraphState
  BY <1>1, ErrorOfTools DEF Errors
<1>3. s.next = "end" /\ s.error # NoError /\ s.messages = state.messages
  BY <1>1 DEF GraphState, NoError
<1>4. NodeReturns(s)
  BY DEF ToolError
<1>5. Len(state.messages) <= Len(state.messages)
  BY <1>1, LenProperties DEF GraphState
<1> HIDE DEF s
<1> QED BY <1>1, <1>2, <1>3, <1>4, <1>5, ErrorReturns

LEMMA ToolsOverBudgetTraced ==
  ASSUME TraceInv, ToolsOverBudget, GraphInv'
  PROVE  TraceInv'
<1> DEFINE rejections == [i \in 1 .. Len(Batch) |-> ToolMessage("rejected")]
           s == [state EXCEPT !.messages = @ \o rejections,
                   !.error = "agent_tool_budget_exceeded", !.next = "end"]
<1>1. /\ EntersTools /\ NodeReturns(s) /\ UNCHANGED <<runVars, steps, ledgerVars>>
  BY DEF ToolsOverBudget
<1>2. /\ state \in GraphState /\ pc # "idle" /\ Len(Batch) \in Nat
      /\ state.messages \in Seq(Message) /\ Len(state.messages) \in Nat
  BY <1>1, ToolsStand
<1>3. rejections \in Seq(Message)
  <2>1. ToolMessage("rejected") \in Message
    BY ToolMessageTyped DEF TraceInv, GraphInv
  <2> QED BY <1>2, <2>1
<1> HIDE DEF rejections
<1>4. /\ s.next = "end" /\ s.error # NoError /\ s.messages = state.messages \o rejections
  BY <1>2 DEF GraphState, NoError
<1> HIDE DEF s
<1>5. s \in GraphState
  BY <1>1 DEF NodeReturns, GraphInv, NodeOK
<1>6. Len(state.messages) <= Len(s.messages)
  <2>1. Len(state.messages \o rejections) = Len(state.messages) + Len(rejections)
        /\ Len(rejections) \in Nat
    BY <1>2, <1>3, ConcatProperties, LenProperties
  <2> QED BY <1>2, <1>4, <2>1
<1>7. FineRows /\ Traces' /\ Budgets'
  BY <1>1, NoRow
<1>8. Conversations' /\ Reach' /\ Segment' /\ Underway' /\ Ended'
  BY <1>1, <1>2, <1>4, <1>5, <1>6, <1>7, ErrorReturns
<1> QED BY <1>7, <1>8 DEF TraceInv

LEMMA ToolStartsTraced ==
  ASSUME TraceInv, ToolStarts, GraphInv'
  PROVE  TraceInv'
<1>1. /\ BeforeCall /\ UNCHANGED <<runVars, ledgerVars>>
      /\ Replayable(ToolStepNo, ToolStep)
      /\ steps' = StartedStep(ToolStepNo, ToolStep)
      /\ pc' = "calling"
      /\ UNCHANGED <<state, durable, unsaved, released, results, answer>>
  BY DEF ToolStarts, NodeGoesOn
<1>2. ToolStep \in StepDefinitions
  BY <1>1, CallStands, ToolStepDefined DEF TraceInv, GraphInv
<1>3. Changes(ToolStepNo) /\ Definition(steps'[ToolStepNo]) = ToolStep
  BY <1>1, <1>2, StartChanges
<1>4. FineRows /\ Traces' /\ Budgets'
  BY <1>1, <1>3, ToolRow
<1>5. EntersTools \/ pc \in {"batch"} \cup InCall
  BY <1>1, CallStands
<1>6. /\ pc # "idle" /\ run = "running" /\ state.next = "tools"
      /\ run' = run /\ interrupts' = interrupts /\ segment' = segment
  BY <1>1, <1>5, ToolsStand DEF runVars
<1>7. Conversations' /\ Reach'
  BY <1>1, <1>4, <1>6, Stays
<1>8. Segment'
  <2>1. interrupts => released
    BY <1>5 DEF EntersTools, TraceInv, Segment
  <2> QED BY <1>1, <1>6, <2>1 DEF Segment, InCall, TraceInv
<1>9. Underway'
  <2>1. ToolStepNo' = ToolStepNo /\ ToolStep' = ToolStep /\ Batch' = Batch
        /\ WithinBudget' = WithinBudget
    BY <1>1 DEF ToolStepNo, ToolStep, Call, Batch, LastMessage, WithinBudget
  <2>2. /\ WithinBudget
        /\ \A i \in DOMAIN results :
             LET n == Len(state.messages) + i IN
             /\ n \in DOMAIN steps' /\ steps'[n].output = results[i]
             /\ results[i].kind = "tool"
             /\ Definition(steps'[n]) =
                  [type |-> "tool", parent |-> Len(state.messages), input |-> <<Batch[i]>>]
    BY <1>1, <1>3, ResultsStay
  <2> QED BY <1>1, <1>3, <2>1, <2>2 DEF Underway, InCall, Definition, Recorded
<1> QED BY <1>4, <1>6, <1>7, <1>8, <1>9, RunsOn DEF TraceInv

LEMMA ToolStepRefusedTraced ==
  ASSUME TraceInv, ToolStepRefused, GraphInv'
  PROVE  TraceInv'
<1> DEFINE last == IF results = << >> THEN state.lastStep ELSE ToolStepNo - 1
<1>1. /\ BeforeCall /\ UNCHANGED <<runVars, ledgerVars>>
      /\ StartStepRaises(ToolStepNo, ToolStep) /\ ToolError(last)
  BY DEF ToolStepRefused
<1>2. FineRows /\ Traces' /\ Budgets'
  <2>1. CASE UNCHANGED steps
    BY <1>1, <2>1, NoRow
  <2>2. CASE Replayable(ToolStepNo, ToolStep) /\ steps' = StartedStep(ToolStepNo, ToolStep)
    <3>1. ToolStep \in StepDefinitions
      BY <1>1, CallStands, ToolStepDefined DEF TraceInv, GraphInv
    <3>2. Changes(ToolStepNo) /\ Definition(steps'[ToolStepNo]) = ToolStep
      BY <2>2, <3>1, StartChanges
    <3> QED BY <1>1, <3>2, ToolRow
  <2> QED BY <1>1, <2>1, <2>2 DEF StartStepRaises
<1>3. last \in Nat
  <2>1. ToolStepNo \in Nat \ {NoStep} /\ state.lastStep \in Nat
    BY <1>1, CallStands DEF TraceInv, GraphInv, NodeOK, GraphState
  <2> QED BY <2>1 DEF NoStep
<1> HIDE DEF last
<1>4. Conversations' /\ Reach' /\ Segment' /\ Underway' /\ Ended'
  BY <1>1, <1>2, <1>3, ToolErrorReturns
<1> QED BY <1>2, <1>4 DEF TraceInv

\* The gateway is called and answers: no step is written.
LEMMA CallGoesOn ==
  ASSUME TraceInv, FineRows, Traces', Budgets', GraphInv', pc \in InCall, pc' \in InCall,
         UNCHANGED <<state, durable, unsaved, released, results, runVars, steps>>
  PROVE  TraceInv'
<1>1. /\ pc # "idle" /\ pc' # "idle" /\ run = "running" /\ state.next = "tools"
      /\ run' = run /\ interrupts' = interrupts /\ segment' = segment
  BY ToolsStand DEF runVars, InCall
<1>2. Conversations' /\ Reach'
  BY <1>1, Stays
<1>3. Segment'
  BY <1>1 DEF Segment, InCall, TraceInv
<1>4. Underway'
  <2>1. ToolStepNo' = ToolStepNo /\ ToolStep' = ToolStep /\ Batch' = Batch
        /\ WithinBudget' = WithinBudget
    BY DEF ToolStepNo, ToolStep, Call, Batch, LastMessage, WithinBudget
  <2>2. /\ WithinBudget /\ Definition(steps[ToolStepNo]) = ToolStep
        /\ \A i \in DOMAIN results :
             LET n == Len(state.messages) + i IN
             /\ Recorded(n) /\ steps[n].output = results[i] /\ results[i].kind = "tool"
             /\ Definition(steps[n]) =
                  [type |-> "tool", parent |-> Len(state.messages), input |-> <<Batch[i]>>]
    BY DEF TraceInv, Underway
  <2>3. pc' # "asked"
    BY DEF InCall
  <2> QED BY <2>1, <2>2, <2>3 DEF Underway, Definition, Recorded
<1> QED BY <1>1, <1>2, <1>3, <1>4, RunsOn DEF TraceInv

LEMMA AnsweredTraced ==
  ASSUME TraceInv, pc \in {"calling", "executing"}, NEW status, Answered(status),
         UNCHANGED ledgerVars, GraphInv'
  PROVE  TraceInv'
<1>1. /\ pc \in InCall /\ pc' \in InCall
      /\ UNCHANGED <<state, durable, unsaved, released, results, runVars, steps>>
  BY DEF Answered, NodeGoesOn, InCall
<1> QED BY <1>1, NoRow, CallGoesOn

\* The operation that is opened is the call of the current step.
LEMMA CallClaimedTraced ==
  ASSUME TraceInv, CallClaimed, GraphInv'
  PROVE  TraceInv'
<1>1. /\ pc = "calling" /\ pc' = "executing" /\ UNCHANGED <<runVars, steps>>
      /\ UNCHANGED <<state, durable, unsaved, released, results, answer>>
      /\ opRequest' = [opRequest EXCEPT ![Call.id] = Call.request]
      /\ outcome[Call.id] = "none" /\ UNCHANGED applied
      /\ outcome' = [outcome EXCEPT ![Call.id] = "open"]
  BY DEF CallClaimed, NodeGoesOn, Ledger!Open
<1>2. FineRows /\ Budgets'
  BY <1>1, FineUnchanged, BudgetsStay DEF TraceInv
<1>3. PICK call, n : call = Call /\ n = ToolStepNo
  OBVIOUS
<1>4. /\ n \in RowsOf("tool") /\ steps[n].input = <<call>> /\ call \in Calls
  BY <1>1, <1>3, CurrentRow DEF TraceInv, GraphInv, Place, InCall, Recorded, RowsOf
<1>5. /\ call.id \in Ids /\ call = [id |-> call.id, request |-> call.request]
  BY <1>4 DEF Calls
<1>6. /\ opRequest \in [Ids -> Requests \cup {NoRequest}]
      /\ outcome \in [Ids -> {"none", "open", "done", "not_done"}]
  BY DEF TraceInv, GraphInv, OperationsOK, Ledger!TypeOK
<1>7. RowsOf("tool")' = RowsOf("tool") /\ \A t : Asked(t) => Asked(t)'
  BY <1>1 DEF RowsOf, Asked, Recorded
<1>8. ASSUME NEW k \in Ids
      PROVE  /\ applied'[k] => outcome'[k] # "none"
             /\ outcome'[k] # "none" =>
                  \E t \in RowsOf("tool") :
                    steps[t].input = <<[id |-> k, request |-> opRequest'[k]]>>
  <2>1. CASE k = call.id
    <3>1. outcome'[k] = "open" /\ opRequest'[k] = call.request
      BY <1>1, <1>3, <1>6, <2>1
    <3> QED BY <1>4, <1>5, <2>1, <3>1
  <2>2. CASE k # call.id
    <3>1. outcome'[k] = outcome[k] /\ opRequest'[k] = opRequest[k] /\ applied' = applied
      BY <1>1, <1>3, <1>6, <2>2
    <3> QED BY <3>1 DEF TraceInv, Traces
  <2> QED BY <2>1, <2>2
<1>9. Traces'
  <2>1. \A t \in RowsOf("tool")' : Asked(t)'
    BY <1>7 DEF TraceInv, Traces
  <2> QED BY <1>1, <1>7, <1>8, <2>1 DEF Traces
<1> QED BY <1>1, <1>2, <1>9, CallGoesOn DEF InCall

\* A finished call is the next result of its batch.
LEMMA ResultsGrow ==
  ASSUME TraceInv, pc = "answered", NEW status, NEW x \in Message, x.kind = "tool",
         steps' = FinishedStep(ToolStepNo, status, x)
  PROVE  LET R == Append(results, x) IN
         /\ R \in Seq(Message) /\ Len(R) = Len(results) + 1 /\ WithinBudget
         /\ \A i \in 1 .. Len(R) :
              LET n == Len(state.messages) + i IN
              /\ n \in DOMAIN steps' /\ steps'[n].output = R[i] /\ R[i].kind = "tool"
              /\ Definition(steps'[n]) =
                   [type |-> "tool", parent |-> Len(state.messages), input |-> <<Batch[i]>>]
<1> DEFINE R == Append(results, x)
           m == Len(state.messages)
           k == Len(results)
<1>1. /\ results \in Seq(Message) /\ k \in Nat /\ ToolStepNo = m + k + 1 /\ m \in Nat
      /\ Call = Batch[ToolStepNo - m]
      /\ ToolStep = [type |-> "tool", parent |-> m, input |-> <<Call>>]
  BY CallStands, ToolsStand DEF InCall
<1>2. /\ R \in Seq(Message) /\ Len(R) = k + 1 /\ R[k + 1] = x
      /\ \A i \in 1 .. k : R[i] = results[i]
      /\ DOMAIN results = 1 .. k
  BY <1>1, AppendProperties, LenProperties
<1>3. /\ ToolStepNo \in DOMAIN steps /\ RowsOK /\ Definition(steps[ToolStepNo]) = ToolStep
  BY DEF TraceInv, GraphInv, Place, InCall, Recorded, Underway
<1>4. /\ Changes(ToolStepNo) /\ Definition(steps'[ToolStepNo]) = ToolStep
      /\ steps'[ToolStepNo].output = x /\ DOMAIN steps' = DOMAIN steps
  BY <1>3, FinishChanges
<1>5. /\ WithinBudget
      /\ \A i \in 1 .. k :
           /\ m + i \in DOMAIN steps' /\ steps'[m + i].output = results[i]
           /\ results[i].kind = "tool"
           /\ Definition(steps'[m + i]) = [type |-> "tool", parent |-> m, input |-> <<Batch[i]>>]
  BY <1>2, <1>4, ResultsStay DEF InCall
<1> HIDE DEF R, m, k
<1>6. ToolStepNo = m + (k + 1) /\ ToolStepNo - m = k + 1
  BY <1>1
<1>7. ASSUME NEW i \in 1 .. k + 1
      PROVE  /\ m + i \in DOMAIN steps' /\ steps'[m + i].output = R[i] /\ R[i].kind = "tool"
             /\ Definition(steps'[m + i]) = [type |-> "tool", parent |-> m, input |-> <<Batch[i]>>]
  <2>1. CASE i = k + 1
    <3>1. m + i = ToolStepNo /\ Call = Batch[i] /\ R[i] = x
      BY <1>1, <1>2, <1>6, <2>1
    <3> QED BY <1>1, <1>3, <1>4, <3>1
  <2>2. CASE i # k + 1
    <3>1. i \in 1 .. k
      BY <1>1, <2>2
    <3> QED BY <1>2, <1>5, <3>1
  <2> QED BY <2>1, <2>2
<1> QED BY <1>2, <1>5, <1>7 DEF R, m, k

\* A result is recorded under the answer that asked for its call.
LEMMA ResultRecorded ==
  ASSUME NEW m \in Seq(Message), m # << >>, Last(m).kind = "ai",
         NEW R \in Seq(Message), NEW i \in 1 .. Len(R), R[i].kind = "tool",
         Last(m).calls \in Seq(Calls), Len(Last(m).calls) = Len(R),
         Len(m) + i \in DOMAIN steps', steps'[Len(m) + i].output = R[i],
         Definition(steps'[Len(m) + i]) =
           [type |-> "tool", parent |-> Len(m), input |-> <<Last(m).calls[i]>>]
  PROVE  RecordsMessage(Len(m) + i, m \o R)'
<1> DEFINE l == Len(m)
<1>1. l \in Nat \ {0} /\ Len(R) \in Nat /\ i \in Nat \ {0}
  BY EmptySeq, LenProperties
<1>2. /\ (m \o R)[l + i] = R[i] /\ (m \o R)[l] = Last(m)
  <2>1. \A j \in 1 .. l + Len(R) : (m \o R)[j] = IF j <= l THEN m[j] ELSE R[j - l]
    BY ConcatProperties
  <2>2. m[l] = Last(m)
    BY DEF Last
  <2> HIDE DEF l
  <2>3. /\ l + i \in 1 .. l + Len(R) /\ ~(l + i <= l) /\ l + i - l = i
        /\ l \in 1 .. l + Len(R) /\ l <= l
    BY <1>1
  <2>4. (m \o R)[l + i] = R[i]
    <3>1. PICK j : j = l + i
      OBVIOUS
    <3>2. j \in 1 .. l + Len(R) /\ ~(j <= l) /\ j - l = i
      BY <2>3, <3>1
    <3>3. (m \o R)[j] = R[j - l]
      BY <2>1, <3>2
    <3> QED BY <3>1, <3>2, <3>3
  <2>5. (m \o R)[l] = m[l]
    BY <2>1, <2>3
  <2> QED BY <2>2, <2>4, <2>5
<1>3. DOMAIN Last(m).calls = 1 .. Len(R)
  BY LenProperties
<1>4. /\ steps'[l + i].type = "tool" /\ steps'[l + i].parent = l
      /\ steps'[l + i].input = <<Last(m).calls[i]>>
  BY DEF Definition
<1>5. PICK n, longer : n = l + i /\ longer = m \o R
  OBVIOUS
<1>6. n \in DOMAIN steps' /\ steps'[n].output = R[i]
  BY <1>5
<1> HIDE DEF l
<1>7. n - l = i /\ l \in 1 .. n - 1
  BY <1>1, <1>5
<1>8. /\ steps'[n].type = "tool" /\ steps'[n].parent = l
      /\ steps'[n].input = <<Last(m).calls[n - l]>>
      /\ longer[n] = R[i] /\ longer[l] = Last(m) /\ n - l \in DOMAIN Last(m).calls
  BY <1>2, <1>3, <1>4, <1>5, <1>7
<1>9. RecordsMessage(n, longer)'
  BY <1>6, <1>7, <1>8 DEF RecordsMessage, Recorded
<1> QED BY <1>5, <1>9 DEF l

LEMMA ToolFinishesTraced ==
  ASSUME TraceInv, ToolFinishes, GraphInv'
  PROVE  TraceInv'
<1>1. PICK x : x = ToolMessage(answer)
  OBVIOUS
<1>2. /\ pc = "answered" /\ UNCHANGED <<runVars, ledgerVars>>
      /\ steps' = FinishedStep(ToolStepNo, StatusOf(answer), x)
  BY <1>1 DEF ToolFinishes
<1>3. x \in Message /\ x.kind = "tool"
  BY <1>1, ToolMessageTyped DEF TraceInv, GraphInv, NodeOK, ToolMessage
<1>4. PICK R, m, n : R = Append(results, x) /\ m = state.messages /\ n = ToolStepNo
  OBVIOUS
<1>5. /\ R \in Seq(Message) /\ Len(R) = Len(results) + 1 /\ WithinBudget
      /\ \A i \in 1 .. Len(R) :
           /\ Len(m) + i \in DOMAIN steps' /\ steps'[Len(m) + i].output = R[i]
           /\ R[i].kind = "tool"
           /\ Definition(steps'[Len(m) + i]) =
                [type |-> "tool", parent |-> Len(m), input |-> <<Batch[i]>>]
  BY <1>2, <1>3, <1>4, ResultsGrow
<1>6. /\ state \in GraphState /\ state.error = NoError /\ run = "running" /\ pc # "idle"
      /\ GoesOn = {state} /\ (interrupts => States = {state}) /\ state.next = "tools"
      /\ m \in Seq(Message) /\ m # << >> /\ Len(m) \in Nat \ {0}
      /\ Last(m).kind = "ai" /\ Batch = Last(m).calls
      /\ Batch \in Seq(Calls) /\ Len(Batch) \in Nat \ {0}
      /\ Limit(state) = Len(m) + Len(Batch) + 1 /\ state \in States
  BY <1>2, <1>4, ToolsStand DEF InCall, States
<1>7. /\ n = Len(m) + Len(results) + 1 /\ Len(results) \in Nat
  BY <1>2, <1>4, CallStands DEF InCall
<1>8. DOMAIN steps' = DOMAIN steps /\ Changes(n)
  <2>1. RowsOK /\ ToolStepNo \in DOMAIN steps
    BY <1>2 DEF TraceInv, GraphInv, Place, Recorded, InCall
  <2> QED BY <1>2, <1>4, <2>1, FinishChanges
<1>9. FineRows /\ Traces' /\ Budgets'
  <2>1. ToolStepNo \in DOMAIN steps
    BY <1>2 DEF TraceInv, GraphInv, Place, Recorded, InCall
  <2> QED BY <1>2, <1>4, <1>8, <2>1, ToolRow DEF InCall
<1>10. run' = run /\ interrupts' = interrupts /\ segment' = segment
  BY <1>2 DEF runVars
<1>11. CASE Len(results) + 1 = Len(Batch)
  <2>1. PICK s : s = [state EXCEPT
          !.messages = @ \o R, !.toolCallCount = @ + Len(Batch),
          !.runStepCount = ToolStepNo, !.lastStep = ToolStepNo, !.next = "model"]
    OBVIOUS
  <2>2. NodeReturns(s)
    BY <1>1, <1>4, <1>11, <2>1 DEF ToolFinishes
  <2>3. s \in GraphState /\ state' = s /\ pc' = "between" /\ released' = FALSE
    BY <2>2 DEF NodeReturns, GraphInv, NodeOK
  <2>4. /\ s.messages = m \o R /\ s.stepCount = state.stepCount
        /\ s.toolCallCount = state.toolCallCount + Len(Batch)
        /\ s.runStepCount = n /\ s.lastStep = n /\ s.error = NoError /\ s.next = "model"
    BY <1>4, <1>6, <2>1 DEF GraphState
  <2>5. /\ Len(m \o R) = n /\ n = Len(m) + Len(Batch) /\ Len(R) = Len(Batch) /\ n \in Nat
        /\ m \o R \in Seq(Message)
    <3>1. Len(m \o R) = Len(m) + Len(R) /\ m \o R \in Seq(Message)
      BY <1>5, <1>6, ConcatProperties
    <3> DEFINE shown == Len(m)
               made  == Len(results)
    <3>2. /\ shown \in Nat /\ made \in Nat /\ n = shown + made + 1
          /\ Len(R) = made + 1 /\ Len(Batch) = made + 1 /\ Len(m \o R) = shown + Len(R)
      BY <1>5, <1>6, <1>7, <1>11, <3>1
    <3> HIDE DEF shown, made
    <3>3. Len(m \o R) = n /\ n = shown + Len(Batch) /\ Len(R) = Len(Batch) /\ n \in Nat
      BY <3>2
    <3> QED BY <3>1, <3>3 DEF shown
  <2>6. Talk(s)
    <3>1. Talk(state)
      BY <1>6 DEF TraceInv, Conversations
    <3>2. /\ Cardinality(Said(m \o R, "tool")) = Cardinality(Said(m, "tool")) + Len(R)
          /\ Said(m \o R, "ai") = Said(m, "ai")
      BY <1>5, <1>6, SaidConcat
    <3>3. /\ s.stepCount = Cardinality(Said(s.messages, "ai"))
          /\ s.toolCallCount = Cardinality(Said(s.messages, "tool"))
      BY <1>4, <1>6, <2>4, <2>5, <3>1, <3>2 DEF Talk
    <3> QED BY <2>4, <2>5, <3>3 DEF Talk
  <2>7. Told(s)'
    <3>1. PICK o \in States : o = state
      BY <1>6
    <3>2. o.messages = m /\ o.error = NoError
      BY <1>4, <1>6, <3>1
    <3>3. \A i \in DOMAIN m : RecordsMessage(i, m)'
      BY <1>9, <3>2 DEF FineRows, Told
    <3>4. \A i \in DOMAIN m : RecordsMessage(i, m \o R)'
      BY <1>5, <1>6, <3>3, LongerRecorded
    <3>5. \A i \in 1 .. Len(R) : RecordsMessage(Len(m) + i, m \o R)'
      <4> SUFFICES ASSUME NEW i \in 1 .. Len(R)
                   PROVE  RecordsMessage(Len(m) + i, m \o R)'
        OBVIOUS
      <4>1. Len(Last(m).calls) = Len(R) /\ Last(m).calls \in Seq(Calls)
        BY <1>6, <2>5
      <4>2. /\ Len(m) + i \in DOMAIN steps' /\ steps'[Len(m) + i].output = R[i]
            /\ R[i].kind = "tool"
            /\ Definition(steps'[Len(m) + i]) =
                 [type |-> "tool", parent |-> Len(m), input |-> <<Last(m).calls[i]>>]
        BY <1>5, <1>6
      <4> QED BY <1>5, <1>6, <4>1, <4>2, ResultRecorded
    <3>6. \A i \in DOMAIN (m \o R) :
            i \in DOMAIN m \/ \E j \in 1 .. Len(R) : i = Len(m) + j
      <4>1. DOMAIN (m \o R) = 1 .. Len(m) + Len(R) /\ DOMAIN m = 1 .. Len(m)
        BY <1>6, <2>5, LenProperties
      <4>2. \A i \in 1 .. Len(m) + Len(R) :
              i \in 1 .. Len(m) \/ (i - Len(m) \in 1 .. Len(R) /\ i = Len(m) + (i - Len(m)))
        BY <1>6, <2>5
      <4> QED BY <4>1, <4>2
    <3>7. PICK longer : longer = m \o R
      OBVIOUS
    <3>8. \A i \in DOMAIN longer : RecordsMessage(i, longer)'
      <4>1. \A i \in DOMAIN m : RecordsMessage(i, longer)'
        BY <3>4, <3>7
      <4>2. \A i \in 1 .. Len(R) : RecordsMessage(Len(m) + i, longer)'
        BY <3>5, <3>7
      <4> QED BY <3>6, <3>7, <4>1, <4>2
    <3> QED BY <2>4, <3>7, <3>8 DEF Told
  <2>8. Limit(s) = Limit(state)
    <3>1. Limit(s) = n + 1
      BY <2>4, <2>5 DEF Limit
    <3> QED BY <1>6, <2>5, <3>1
  <2>9. Within(s)' /\ Anchored(s)'
    <3>1. Within(state) /\ Anchored(state) /\ RowsOK
      BY <1>6 DEF TraceInv, GraphInv, Reach
    <3>2. Within(s)'
      <4> SUFFICES ASSUME NEW k \in DOMAIN steps'
                   PROVE  /\ k <= Limit(s)
                          /\ k = Limit(s) /\ n < k => steps'[k].type = "model"
        <5>1. Limit(s)' = Limit(s)
          BY DEF Limit
        <5> QED BY <2>4, <2>5, <5>1 DEF Within
      <4>1. k \in DOMAIN steps /\ steps'[k].type = steps[k].type
        BY <1>8 DEF Changes
      <4>2. /\ k <= Limit(state)
            /\ k = Limit(state) /\ Len(m) < k => steps[k].type = "model"
        BY <1>4, <1>6, <3>1, <4>1 DEF Within
      <4>3. n < k => Len(m) < k
        <5>1. k \in Nat
          BY <3>1, <4>1 DEF RowsOK
        <5> QED BY <1>6, <2>5, <5>1
      <4> QED BY <2>8, <4>1, <4>2, <4>3
    <3>3. Anchored(s)'
      <4> SUFFICES ASSUME NEW k \in RowsOf("tool")'
                   PROVE  steps'[k].parent <= n
        BY <2>4, <2>5 DEF Anchored
      <4>1. k \in RowsOf("tool") /\ steps'[k].parent = steps[k].parent
        BY <1>8 DEF RowsOf, Changes
      <4>2. steps[k].parent <= Len(m)
        BY <1>4, <1>6, <3>1, <4>1 DEF Anchored
      <4>3. steps[k].parent \in Nat
        BY <3>1, <4>1 DEF RowsOK, RowsOf, Rows
      <4>4. Len(m) <= n
        BY <1>6, <2>5
      <4> QED BY <1>6, <2>5, <4>1, <4>2, <4>3, <4>4
    <3> QED BY <3>2, <3>3
  <2>10. Len(state.messages) <= Len(s.messages)
    <3>1. Len(m) \in Nat /\ Len(Batch) \in Nat /\ Len(s.messages) = Len(m) + Len(Batch)
      BY <1>6, <2>4, <2>5
    <3> QED BY <1>4, <3>1
  <2>11. Conversations' /\ Reach'
    BY <1>6, <1>9, <1>10, <2>2, <2>3, <2>6, <2>7, <2>9, <2>10, Returns
  <2>12. Segment'
    <3>1. interrupts => \A t \in States' : t.error = NoError /\ Limit(t) = Limit(s)
      <4>1. interrupts => States' \subseteq {state, s}
        BY <1>6, <2>2 DEF States, NodeReturns
      <4> QED BY <1>6, <2>4, <2>8, <4>1
    <3>2. \A t : Limit(t)' = Limit(t)
      BY DEF Limit
    <3>3. Limit(state)' = Limit(s)
      BY <2>3 DEF Limit
    <3> QED BY <1>6, <1>10, <2>3, <3>1, <3>2, <3>3 DEF Segment, InCall, TraceInv
  <2>13. Underway'
    BY <2>3 DEF Underway, InCall
  <2> QED BY <1>6, <1>9, <1>10, <2>11, <2>12, <2>13, RunsOn DEF TraceInv
<1>12. CASE Len(results) + 1 # Len(Batch)
  <2>1. /\ pc' = "batch" /\ UNCHANGED <<state, durable, unsaved, released>>
        /\ results' = R
    BY <1>1, <1>4, <1>12 DEF ToolFinishes, NodeGoesOn
  <2>2. Conversations' /\ Reach'
    BY <1>6, <1>9, <1>10, <2>1, Stays
  <2>3. Segment'
    <3>1. interrupts => released
      BY <1>2 DEF TraceInv, Segment, InCall
    <3> QED BY <1>6, <1>10, <2>1, <3>1 DEF Segment, InCall, TraceInv
  <2>4. Underway'
    <3>1. Batch' = Batch /\ WithinBudget' = WithinBudget
      BY <2>1 DEF Batch, LastMessage, WithinBudget
    <3>2. DOMAIN R = 1 .. Len(R)
      BY <1>5, LenProperties
    <3> QED BY <1>4, <1>5, <2>1, <3>1, <3>2 DEF Underway, InCall, Recorded
  <2> QED BY <1>6, <1>9, <1>10, <2>2, <2>3, <2>4, RunsOn DEF TraceInv
<1> QED BY <1>11, <1>12

LEMMA ToolFailsTraced ==
  ASSUME TraceInv, ToolRaises \/ ToolWriteFails, GraphInv'
  PROVE  TraceInv'
<1>1. pc \in InCall /\ UNCHANGED <<runVars, ledgerVars>>
  BY DEF ToolRaises, ToolWriteFails, FinishStepRaises, InCall
<1>2. ToolStepNo \in DOMAIN steps /\ RowsOK /\ ToolStepNo \in Nat
  BY <1>1, CurrentRow DEF TraceInv, GraphInv
<1>3. ASSUME NEW status, NEW output,
             steps' \in {steps, FinishedStep(ToolStepNo, status, output)}
      PROVE  FineRows /\ Traces' /\ Budgets'
  <2>1. CASE steps' = steps
    BY <1>1, <2>1, NoRow
  <2>2. CASE steps' = FinishedStep(ToolStepNo, status, output)
    BY <1>1, <1>2, <2>2, FinishChanges, ToolRow
  <2> QED BY <1>3, <2>1, <2>2
<1>4. CASE ToolRaises
  <2>1. steps' = FinishedStep(ToolStepNo, "failed", NoOutput) /\ ToolError(ToolStepNo)
    BY <1>4 DEF ToolRaises
  <2>2. FineRows /\ Traces' /\ Budgets'
    BY <1>3, <2>1
  <2>3. Conversations' /\ Reach' /\ Segment' /\ Underway' /\ Ended'
    BY <1>1, <1>2, <2>1, <2>2, ToolErrorReturns
  <2> QED BY <2>2, <2>3 DEF TraceInv
<1>5. CASE ToolWriteFails
  <2>1. PICK status, output : FinishStepRaises(ToolStepNo, status, output)
    BY <1>5 DEF ToolWriteFails
  <2>2. /\ pc' = "raised" /\ steps' \in {steps, FinishedStep(ToolStepNo, status, output)}
        /\ UNCHANGED <<state, durable, unsaved, released>>
    BY <2>1 DEF FinishStepRaises
  <2>3. FineRows /\ Traces' /\ Budgets'
    BY <1>3, <2>2
  <2>4. Conversations' /\ Reach' /\ Segment' /\ Underway' /\ Ended'
    BY <1>1, <2>2, <2>3, RaisedKeeps DEF InCall
  <2> QED BY <2>3, <2>4 DEF TraceInv
<1> QED BY <1>4, <1>5

LEMMA ToolsNodeTraced ==
  ASSUME TraceInv, ToolsNode, GraphInv'
  PROVE  TraceInv'
<1>1. CASE CallReplayed \/ ClaimFails \/ CallSucceeds \/ CallFails
  <2>1. PICK status : Answered(status) /\ UNCHANGED ledgerVars /\ pc \in {"calling", "executing"}
    BY <1>1 DEF CallReplayed, ClaimFails, CallSucceeds, CallFails
  <2> QED BY <2>1, AnsweredTraced
<1> QED BY <1>1, ToolsOverBudgetTraced, ToolStartsTraced, ToolStepRefusedTraced,
           CallClaimedTraced, ToolFinishesTraced, ToolFailsTraced DEF ToolsNode

-----------------------------------------------------------------------------
(***************************************************************************)
(* Operations and the segment.                                             *)
(***************************************************************************)

\* A step of the ledger alone leaves a trace that ended as it is.
LEMMA GraphRests ==
  ASSUME TraceInv, UNCHANGED <<graphVars, runVars, steps>>
  PROVE  /\ Conversations' /\ Reach' /\ Segment' /\ Underway' /\ Ended' /\ Budgets'
         /\ FineRows
<1>1. /\ UNCHANGED <<state, durable, unsaved, pc, released, results, answer>>
      /\ UNCHANGED <<interrupts, run, totals, segment>>
  BY DEF graphVars, runVars
<1>2. FineRows
  BY FineUnchanged
<1>3. States' = States /\ GoesOn' = GoesOn /\ \A s : Limit(s)' = Limit(s)
  BY <1>1 DEF States, GoesOn, Limit
<1>4. Conversations' /\ Reach'
  <2>1. \A s \in States : Talk(s)'
    BY DEF TraceInv, Conversations, Talk, Said, Last
  <2> QED BY <1>1, <1>2, <1>3, <2>1 DEF Conversations, Reach, FineRows, TraceInv
<1>5. Segment'
  BY <1>1, <1>3 DEF Segment, TraceInv, InCall, Limit
<1>6. Underway'
  <2>1. /\ ToolStepNo' = ToolStepNo /\ ToolStep' = ToolStep /\ Batch' = Batch
        /\ WithinBudget' = WithinBudget /\ ModelStepNo' = ModelStepNo /\ ModelStep' = ModelStep
    BY <1>1 DEF ToolStepNo, ToolStep, Call, Batch, LastMessage, WithinBudget, ModelStepNo,
                ModelStep
  <2> QED BY <1>1, <2>1 DEF Underway, TraceInv, Definition, Recorded, InCall
<1>7. Ended'
  BY <1>1 DEF Ended, TraceIsHistory, SuccessIsAnAnswer, RecordsMessage, Recorded,
              CountsOfRows, RowsOf, TraceInv
<1>8. Budgets'
  BY BudgetsStay DEF TraceInv
<1> QED BY <1>2, <1>4, <1>5, <1>6, <1>7, <1>8

LEMMA OperationMovesTraced ==
  ASSUME TraceInv, OperationMoves, GraphInv'
  PROVE  TraceInv'
<1>1. UNCHANGED <<graphVars, runVars, steps, opRequest>>
  BY DEF OperationMoves
<1>2. PICK k \in Ids : Ledger!Apply(k) \/ Ledger!Done(k) \/ Ledger!NotDone(k)
  BY DEF OperationMoves
<1>3. Ledger!TypeOK
  BY DEF TraceInv, GraphInv, OperationsOK
<1>4. \A o \in Ids : /\ outcome'[o] # "none" <=> outcome[o] # "none"
                     /\ applied'[o] => applied[o] \/ outcome[o] # "none"
  <2>1. CASE Ledger!Apply(k)
    BY <1>3, <2>1 DEF Ledger!Apply, Ledger!TypeOK
  <2>2. CASE Ledger!Done(k)
    BY <1>3, <2>2 DEF Ledger!Done, Ledger!TypeOK
  <2>3. CASE Ledger!NotDone(k)
    BY <1>3, <2>3 DEF Ledger!NotDone, Ledger!TypeOK
  <2> QED BY <1>2, <2>1, <2>2, <2>3
<1>5. RowsOf("tool")' = RowsOf("tool") /\ \A n : Asked(n) => Asked(n)'
  BY <1>1 DEF RowsOf, Asked, Recorded
<1>6. Traces'
  <2>1. \A n \in RowsOf("tool")' : Asked(n)'
    BY <1>5 DEF TraceInv, Traces
  <2>2. \A o \in Ids : applied'[o] => outcome'[o] # "none"
    BY <1>4 DEF TraceInv, Traces
  <2>3. \A o \in Ids : outcome'[o] # "none" =>
          \E n \in RowsOf("tool") : steps[n].input = <<[id |-> o, request |-> opRequest[o]]>>
    BY <1>4 DEF TraceInv, Traces
  <2> QED BY <1>1, <1>5, <2>1, <2>2, <2>3 DEF Traces
<1> QED BY <1>1, <1>6, GraphRests DEF TraceInv

\* The rows of a run that ends with an answer are its conversation.
LEMMA EndIsHistory ==
  ASSUME TraceInv, pc = "between", state.next = "end", state.error = NoError
  PROVE  /\ DOMAIN steps = 1 .. Len(state.messages)
         /\ \A n \in DOMAIN steps : RecordsMessage(n, state.messages)
         /\ CountsOfState = CountsOfRows
<1>1. /\ state \in GraphState /\ state \in States /\ state \in GoesOn /\ RowsOK
      /\ Talk(state) /\ Told(state) /\ Within(state)
  BY StatesTyped DEF TraceInv, GraphInv, Conversations, Reach, States, GoesOn
<1>2. /\ state.messages \in Seq(Message) /\ Len(state.messages) \in Nat
      /\ DOMAIN state.messages = 1 .. Len(state.messages)
  BY <1>1, LenProperties DEF GraphState
<1>3. Limit(state) = Len(state.messages)
  BY <1>2 DEF Limit
<1>4. \A n \in DOMAIN steps : n <= Len(state.messages)
  BY <1>1, <1>3 DEF Within
<1>5. DOMAIN steps = DOMAIN state.messages
  <2>1. \A n \in DOMAIN steps : n \in DOMAIN state.messages
    BY <1>1, <1>4, RowsBelow
  <2>2. \A n \in DOMAIN state.messages : n \in DOMAIN steps
    BY <1>1 DEF Told, RecordsMessage, Recorded
  <2> QED BY <2>1, <2>2
<1>6. /\ RowsOf("model") = Said(state.messages, "ai")
      /\ RowsOf("tool") = Said(state.messages, "tool")
  <2>1. \A n \in DOMAIN steps :
          /\ steps[n].type = "model" <=> n \in Said(state.messages, "ai")
          /\ steps[n].type = "tool" <=> n \in Said(state.messages, "tool")
    BY <1>1, <1>4, RowsBelow
  <2> QED BY <1>5, <2>1 DEF RowsOf, Said
<1>7. /\ state.stepCount = Cardinality(RowsOf("model"))
      /\ state.toolCallCount = Cardinality(RowsOf("tool"))
  BY <1>1, <1>6 DEF Talk
<1>8. CountsOfState = CountsOfRows
  BY <1>7, Zenon DEF CountsOfState, CountsOfRows
<1> QED BY <1>1, <1>2, <1>5, <1>8 DEF Told

LEMMA LeavesTraced ==
  ASSUME TraceInv, Leaves, GraphInv'
  PROVE  TraceInv'
<1>1. /\ SegmentEnds /\ pc # "idle"
      /\ run' = "paused" => interrupts /\ state.next = "tools"
      /\ run' \in {"paused", "succeeded", "failed"}
      /\ run' = "succeeded" => pc = "between" /\ state.next = "end" /\ state.error = NoError
                               /\ totals' = CountsOfState
  BY DEF Leaves, Pause, Finalize, FinalizeException
<1>2. /\ pc' = "idle" /\ durable' = state /\ unsaved' = {} /\ released' = FALSE
      /\ results' = << >> /\ UNCHANGED <<interrupts, segment, state, steps, ledgerVars>>
  BY <1>1 DEF SegmentEnds
<1>3. FineRows /\ Traces' /\ Budgets'
  BY <1>2, NoRow
<1>4. PICK s : s = state
  OBVIOUS
<1>5. /\ States' = {s} /\ GoesOn' \subseteq {s} /\ s \in States /\ s \in GoesOn
  BY <1>1, <1>2, <1>4 DEF States, GoesOn
<1>6. Conversations'
  <2>1. Talk(s)'
    BY <1>5 DEF TraceInv, Conversations, Talk, Said, Last
  <2>2. Len(s.messages) <= Len(s.messages)
    BY <1>5, StatesTyped DEF TraceInv, GraphInv
  <2> QED BY <1>2, <1>3, <1>4, <1>5, <2>1, <2>2 DEF Conversations, FineRows
<1>7. Reach'
  BY <1>3, <1>5 DEF Reach, FineRows
<1>8. Segment'
  <2>1. state.next = "model" => state.error = NoError
    BY <1>4, <1>5 DEF TraceInv, Conversations, Talk
  <2>2. \A t : Limit(t)' = Limit(t)
    BY DEF Limit
  <2>3. Limit(state)' = Limit(s)
    BY <1>2, <1>4 DEF Limit
  <2>4. interrupts' /\ state'.next = "model" =>
          \A t \in States' : t.error = NoError /\ Limit(t)' = Limit(state)'
    BY <1>2, <1>4, <1>5, <2>1, <2>2, <2>3
  <2>5. ~interrupts => segment = 1
    BY DEF TraceInv, Segment
  <2> QED BY <1>1, <1>2, <2>4, <2>5 DEF Segment, InCall
<1>9. Underway'
  BY <1>2 DEF Underway, InCall
<1>10. Ended'
  <2>1. CASE run' # "succeeded"
    BY <2>1 DEF Ended, TraceIsHistory, SuccessIsAnAnswer
  <2>2. CASE run' = "succeeded"
    <3>1. /\ pc = "between" /\ s.next = "end" /\ s.error = NoError
          /\ totals' = CountsOfState /\ state = s
      BY <1>1, <1>4, <2>2
    <3>2. /\ DOMAIN steps = 1 .. Len(s.messages)
          /\ \A n \in DOMAIN steps : RecordsMessage(n, s.messages)
          /\ CountsOfState = CountsOfRows
      BY <3>1, EndIsHistory
    <3>3. Talk(s)
      BY <1>5 DEF TraceInv, Conversations
    <3>4. s.messages # << >> /\ Last(s.messages).kind = "ai" /\ Last(s.messages).calls = << >>
      BY <3>1, <3>3 DEF Talk
    <3>5. durable' = s /\ steps' = steps
      BY <1>2, <1>4
    <3>6. totals' = CountsOfRows'
      BY <1>2, <3>1, <3>2 DEF CountsOfRows, RowsOf
    <3>7. TraceIsHistory'
      <4>1. \A n \in DOMAIN steps' : RecordsMessage(n, s.messages)'
        BY <3>2, <3>5 DEF RecordsMessage, Recorded
      <4> QED BY <3>2, <3>5, <3>6, <4>1 DEF TraceIsHistory
    <3>8. SuccessIsAnAnswer'
      BY <3>4, <3>5 DEF SuccessIsAnAnswer, Last
    <3> QED BY <3>7, <3>8 DEF Ended
  <2> QED BY <2>1, <2>2
<1> QED BY <1>3, <1>6, <1>7, <1>8, <1>9, <1>10 DEF TraceInv

\* A segment starts over from a state it can fall back to: after a crash, which
\* keeps one of them, and when the run is resumed.
LEMMA StartsOver ==
  ASSUME TraceInv, UNCHANGED <<steps, ledgerVars, interrupts>>, NEW s \in States,
         interrupts \/ pc' = "idle", state' = s, durable' = s, unsaved' = {}
  PROVE  Conversations' /\ Reach' /\ Traces' /\ Budgets' /\ States' = {s}
<1>1. FineRows /\ Traces' /\ Budgets'
  BY NoRow
<1>2. States' = {s} /\ GoesOn' \subseteq GoesOn
  BY DEF States, GoesOn
<1>3. Talk(s)'
  BY DEF TraceInv, Conversations, Talk, Said, Last
<1>4. Conversations'
  <2>1. Len(s.messages) \in Nat
    BY StatesTyped DEF TraceInv, GraphInv
  <2> QED BY <1>1, <1>2, <1>3, <2>1 DEF Conversations, FineRows
<1>5. Reach'
  BY <1>1, <1>2 DEF Reach, FineRows
<1> QED BY <1>1, <1>2, <1>4, <1>5

LEMMA CrashTraced ==
  ASSUME TraceInv, Crash, GraphInv'
  PROVE  TraceInv'
<1>1. /\ pc # "idle" /\ pc' = "idle" /\ state' = durable' /\ unsaved' = {} /\ released' = FALSE
      /\ durable' \in unsaved \cup {durable} /\ results' = << >>
      /\ run' = (IF segment = 1 THEN "lost" ELSE "claimed")
      /\ UNCHANGED <<interrupts, totals, segment, steps, ledgerVars>>
  BY DEF Crash
<1>2. PICK s \in States : s = durable'
  BY <1>1 DEF States
<1>3. Conversations' /\ Reach' /\ Traces' /\ Budgets' /\ States' = {s}
  BY <1>1, <1>2, StartsOver
<1>4. Segment'
  <2>1. s.next = "model" => s.error = NoError
    BY DEF TraceInv, Conversations, Talk
  <2>2. \A t : Limit(t)' = Limit(t)
    BY DEF Limit
  <2>3. Limit(state)' = Limit(s)
    BY <1>1, <1>2 DEF Limit
  <2>4. interrupts' /\ state'.next = "model" =>
          \A t \in States' : t.error = NoError /\ Limit(t)' = Limit(state)'
    BY <1>1, <1>2, <1>3, <2>1, <2>2, <2>3
  <2>5. ~interrupts => segment = 1
    BY DEF TraceInv, Segment
  <2> QED BY <1>1, <2>4, <2>5 DEF Segment, InCall
<1>5. Underway' /\ Ended'
  BY <1>1 DEF Underway, InCall, Ended, TraceIsHistory, SuccessIsAnAnswer
<1> QED BY <1>3, <1>4, <1>5 DEF TraceInv

LEMMA ResumeTraced ==
  ASSUME TraceInv, Resume, GraphInv'
  PROVE  TraceInv'
<1>1. /\ run \in {"paused", "claimed"} /\ run' = "running"
      /\ segment' = segment + 1 /\ state' = durable /\ pc' = "between" /\ released' = TRUE
      /\ UNCHANGED <<durable, unsaved, interrupts, totals, steps, ledgerVars>>
  BY DEF Resume
<1>2. interrupts /\ pc = "idle" /\ unsaved = {}
  BY <1>1 DEF TraceInv, Segment
<1>3. PICK s \in States : s = durable
  BY DEF States
<1>4. Conversations' /\ Reach' /\ Traces' /\ Budgets' /\ States' = {s}
  BY <1>1, <1>2, <1>3, StartsOver
<1>5. Segment'
  <2>1. s.next = "model" => s.error = NoError
    BY DEF TraceInv, Conversations, Talk
  <2>2. \A t : Limit(t)' = Limit(t)
    BY DEF Limit
  <2>3. Limit(state)' = Limit(s)
    BY <1>1, <1>3 DEF Limit
  <2>4. state'.next = "model" =>
          \A t \in States' : t.error = NoError /\ Limit(t)' = Limit(state)'
    BY <1>1, <1>3, <1>4, <2>1, <2>2, <2>3
  <2> QED BY <1>1, <1>2, <2>4 DEF Segment, InCall
<1>6. Underway'
  BY <1>1 DEF Underway, InCall
<1> QED BY <1>1, <1>4, <1>5, <1>6, RunsOn DEF TraceInv

LEMMA StartTraced ==
  ASSUME Init, GraphInv
  PROVE  TraceInv
<1>1. /\ run = "running" /\ segment = 1 /\ state = InitialState /\ durable = InitialState
      /\ unsaved = {} /\ pc = "between" /\ released = FALSE /\ steps = << >>
      /\ outcome = [k \in Ids |-> "none"] /\ applied = [k \in Ids |-> FALSE]
  BY DEF Init
<1>2. States = {InitialState} /\ GoesOn \subseteq {InitialState}
  BY <1>1 DEF States, GoesOn
<1>3. DOMAIN steps = {} /\ DOMAIN << >> = {} /\ Len(<< >>) = 0
  BY <1>1
<1>4. RowsOf("tool") = {} /\ RowsOf("model") = {}
  BY <1>3 DEF RowsOf
<1>5. \A kind : Said(<< >>, kind) = {}
  BY <1>3 DEF Said
<1>6. Cardinality({}) = 0
  BY FS_EmptySet
<1>7. /\ InitialState.messages = << >> /\ InitialState.next = "model"
      /\ InitialState.error = NoError
  BY DEF InitialState
<1>8. Talk(InitialState)
  <2>1. Cardinality(Said(<< >>, "ai")) = 0 /\ Cardinality(Said(<< >>, "tool")) = 0
    BY <1>5, <1>6
  <2> QED BY <1>3, <2>1 DEF Talk, InitialState, NoStep
<1>9. Told(InitialState) /\ Within(InitialState) /\ Anchored(InitialState)
  BY <1>3, <1>4, <1>7 DEF Told, Within, Anchored
<1>10. Conversations /\ Reach
  BY <1>1, <1>2, <1>3, <1>7, <1>8, <1>9 DEF Conversations, Reach
<1>11. Segment /\ Underway
  BY <1>1, <1>2, <1>7 DEF Segment, Underway, InCall
<1>12. Traces
  BY <1>1, <1>4 DEF Traces
<1>13. Budgets
  <2>1. 0 <= MaxSteps /\ 0 <= MaxToolCalls
    BY GraphAssumption
  <2> QED BY <1>4, <1>6, <2>1, Zenon DEF Budgets
<1>14. Ended
  BY <1>1 DEF Ended, TraceIsHistory, SuccessIsAnAnswer
<1> QED BY <1>10, <1>11, <1>12, <1>13, <1>14 DEF TraceInv

\* recorder.py, nodes.py: however often the run is interrupted, the steps on record
\* are those of the conversation of every state it can go on from, with at most the
\* steps that were under way after it.
THEOREM TraceInvariant == Spec => []TraceInv
<1>1. Init => GraphInv
  BY GraphStarts
<1>2. Init => TraceInv
  BY <1>1, StartTraced
<1>3. TraceInv /\ [Next]_vars => TraceInv'
  <2> SUFFICES ASSUME TraceInv, [Next]_vars PROVE TraceInv'
    OBVIOUS
  <2>1. GraphInv'
    BY GraphKeeps DEF TraceInv
  <2>2. CASE Next
    BY <2>1, <2>2, ModelNodeTraced, ToolsNodeTraced, OperationMovesTraced, LeavesTraced,
       CrashTraced, ResumeTraced DEF Next
  <2>3. CASE UNCHANGED vars
    <3>1. UNCHANGED <<graphVars, runVars, steps, ledgerVars>>
      BY <2>3 DEF vars
    <3> QED BY <2>1, <3>1, GraphRests, NoRow DEF TraceInv
  <2> QED BY <2>2, <2>3
<1> QED BY <1>2, <1>3, PTL DEF Spec

\* runtime.py _finalize_result: a run that succeeded has recorded the conversation
\* that led to its answer, each message once and nothing else, and agent_runs counts
\* what run_steps holds: for all batches, budgets, faults and numbers of segments.
THEOREM HistoryIsTheTrace == Spec => []TraceIsHistory
<1>1. TraceInv => TraceIsHistory
  BY DEF TraceInv, Ended
<1> QED BY <1>1, TraceInvariant, PTL

\* graph.py route_after_model: a run succeeds with an answer that asks for nothing
\* more, never by running out of a budget.
THEOREM SuccessAnswers == Spec => []SuccessIsAnAnswer
<1>1. TraceInv => SuccessIsAnAnswer
  BY DEF TraceInv, Ended
<1> QED BY <1>1, TraceInvariant, PTL

\* nodes.py: every operation of the run lies under the recorded answer that asked for
\* it, also when the run was killed or has failed.
THEOREM OperationsHaveTraces == Spec => []OperationsAreTraced
<1>1. TraceInv => OperationsAreTraced
  <2> SUFFICES ASSUME TraceInv, NEW k \in Ids, outcome[k] # "none"
               PROVE  \E n \in RowsOf("tool") :
                        LET parent == steps[n].parent IN
                        /\ steps[n].input = <<[id |-> k, request |-> opRequest[k]]>>
                        /\ Recorded(parent) /\ steps[parent].type = "model"
                        /\ steps[parent].output # NoOutput
                        /\ n - parent \in DOMAIN steps[parent].output.calls
                        /\ steps[n].input[1] = steps[parent].output.calls[n - parent]
    BY DEF OperationsAreTraced
  <2>1. PICK n \in RowsOf("tool") : steps[n].input = <<[id |-> k, request |-> opRequest[k]]>>
    BY DEF TraceInv, Traces
  <2>2. Asked(n)
    BY DEF TraceInv, Traces
  <2>3. steps[n].input[1] = steps[steps[n].parent].output.calls[n - steps[n].parent]
    BY <2>2 DEF Asked
  <2> QED BY <2>1, <2>2, <2>3 DEF Asked
<1> QED BY <1>1, TraceInvariant, PTL

\* nodes.py, budgets of the task: neither crashes nor repeated nodes add up to more
\* steps, tool calls or effects than the task allows.
THEOREM BudgetsAreKept == Spec => []BudgetsHold
<1>1. TraceInv => BudgetsHold
  <2> SUFFICES ASSUME TraceInv PROVE BudgetsHold
    OBVIOUS
  <2> DEFINE done  == {k \in Ids : applied[k]}
             rows  == RowsOf("tool")
             rowOf == [k \in done |-> CHOOSE n \in rows :
                         steps[n].input = <<[id |-> k, request |-> opRequest[k]]>>]
  <2>1. ASSUME NEW k \in done
        PROVE  /\ rowOf[k] \in rows
               /\ steps[rowOf[k]].input = <<[id |-> k, request |-> opRequest[k]]>>
    <3>1. \E n \in rows : steps[n].input = <<[id |-> k, request |-> opRequest[k]]>>
      BY DEF TraceInv, Traces
    <3> QED BY <3>1
  <2>2. \A k, l \in done : rowOf[k] = rowOf[l] => k = l
    <3> SUFFICES ASSUME NEW k \in done, NEW l \in done, rowOf[k] = rowOf[l]
                 PROVE  k = l
      OBVIOUS
    <3>1. <<[id |-> k, request |-> opRequest[k]]>> = <<[id |-> l, request |-> opRequest[l]]>>
      BY <2>1
    <3>2. [id |-> k, request |-> opRequest[k]] = [id |-> l, request |-> opRequest[l]]
      BY <3>1
    <3> QED BY <3>2
  <2>3. rowOf \in Injection(done, rows)
    <3>1. rowOf \in [done -> rows]
      BY <2>1
    <3> HIDE DEF rowOf
    <3> QED BY <2>2, <3>1 DEF Injection, IsInjective
  <2>4. IsFiniteSet(rows)
    BY FS_Subset DEF TraceInv, GraphInv, RowsOK, RowsOf
  <2> HIDE DEF rowOf
  <2>5. /\ IsFiniteSet(done) /\ Cardinality(done) <= Cardinality(rows)
    BY <2>3, <2>4, FS_Injection
  <2>6. Cardinality(done) \in Nat /\ Cardinality(rows) \in Nat
    BY <2>4, <2>5, FS_CardinalityType
  <2>7. Cardinality(RowsOf("model")) <= MaxSteps /\ Cardinality(rows) <= MaxToolCalls
    BY DEF TraceInv, Budgets
  <2>8. Cardinality(done) <= MaxToolCalls
    BY <2>5, <2>6, <2>7, GraphAssumption
  <2> QED BY <2>7, <2>8 DEF BudgetsHold
<1> QED BY <1>1, TraceInvariant, PTL
=============================================================================
