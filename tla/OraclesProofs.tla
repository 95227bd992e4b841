---------------------------- MODULE OraclesProofs ----------------------------
(***************************************************************************)
(* Theorems about the oracles and the scores of their reports, for any     *)
(* number of calls, repetitions and ticks, any tools and tasks, any two    *)
(* clocks, and any way to round what is in the middle.                     *)
(***************************************************************************)
EXTENDS Oracles, TLAPS, FiniteSetTheorems, FunctionTheorems, SequenceTheorems

Waiting == {"prepared", "running"}
CallEvents == {"tool_called", "tool_replayed"}
EndEvents == {"answered", "raised", "timed_out", "tool_rejected"}
Marks == {"tool_called"} \cup EndEvents

Operation ==
  [id : Nat, tool : Tools, step : Nat,
   status : Waiting \cup {"succeeded", "failed", "rejected", "unknown"}, retries : Nat,
   created : Nat, started : Nat \cup {Never}, finished : Nat \cup {Never}]

Entry == [event : CallEvents \cup EndEvents \cup {"took_effect", "looked"}, operation : Nat]

Logged(event, o) == \E k \in DOMAIN log : log[k] = Event(event, o)

\* The shapes; only the last operation can be the current one.
Shape ==
  /\ clock \in Nat /\ skew \in Nat /\ steps \in Nat
  /\ tickets \subseteq [id : Nat, status : {"open", "resolved"}]
  /\ operations \in Seq(Operation) /\ log \in Seq(Entry)
  /\ \A k \in DOMAIN log : log[k].operation \in DOMAIN operations
  /\ current # 0 =>
       current = Len(operations) /\ current \in DOMAIN operations /\ operations[current].status \in Waiting
  /\ Closed => \A o \in DOMAIN operations : operations[o].status \notin Waiting \cup {"unknown"}

\* The transactions that have committed, or still may.
Transactions ==
  /\ committed => current # 0 /\ Logged("took_effect", current)
  /\ \A l \in late : /\ l.operation \in DOMAIN operations /\ operations[l.operation].tool \in Writes
                     /\ operations[l.operation].tool = "create" => l.ticket = l.operation

\* The steps of the operations, in their order.
StepsGrow ==
  /\ \A o \in DOMAIN operations : operations[o].step <= steps
  /\ \A o, p \in DOMAIN operations : o < p => operations[o].step < operations[p].step

\* What the clocks say of one operation.
Timed(o) ==
  LET op == operations[o]
  IN  /\ op.created <= clock + skew
      /\ op.started # Never => op.started <= clock
      /\ op.status \in Waiting <=> op.finished = Never
      /\ op.status \notin Waiting =>
           /\ op.created <= op.finished + skew
           /\ op.started # Never => op.started <= op.finished

\* The calls and the ends of operations are in the log once, each operation before the next.
LogOrdered ==
  \A j, k \in DOMAIN log :
    (j < k /\ log[j].event \in Marks /\ log[k].event \in Marks) =>
      \/ log[j].operation < log[k].operation
      \/ log[j].operation = log[k].operation /\ log[j].event = "tool_called" /\ log[k].event # "tool_called"

LogComplete ==
  \A o \in DOMAIN operations :
    /\ Logged("tool_called", o)
    /\ operations[o].status \notin Waiting <=> \E event \in EndEvents : Logged(event, o)

\* What the log says has become of an operation.
EndedAs(o) ==
  LET now == operations[o].status
  IN  /\ Logged("answered", o) => now = "succeeded"
      /\ Logged("raised", o) => now = "failed"
      /\ Logged("tool_rejected", o) => now = "rejected"
      /\ Logged("timed_out", o) => now \in {"unknown", "succeeded", "failed"} /\ operations[o].tool \in Writes
      /\ Logged("timed_out", o) => (now = "unknown" <=> ~Decided(o))
      /\ Logged("looked", o) => Logged("timed_out", o)
      /\ now = "succeeded" <=> Learned(o)

Ends == \A o \in DOMAIN operations : EndedAs(o)

\* What recovery looks for is there exactly if the operation has taken effect.
Left(o, tool) == operations[o].tool = tool /\ Logged("took_effect", o)

Evidence ==
  /\ \A t \in tickets : t.id \in DOMAIN operations /\ Left(t.id, "create")
  /\ \A m \in mutations : m.id \in DOMAIN operations /\ Left(m.id, "update")
  /\ \A o \in DOMAIN operations :
       /\ Left(o, "create") => \E t \in tickets : t.id = o
       /\ Left(o, "update") => \E m \in mutations : m.id = o

\* What the trace oracle counts for one tool and one event.
Events(tool, event) ==
  UNION {{o} \X (1..OperationEventCount(operations[o], event)) :
           o \in {p \in DOMAIN operations : operations[p].tool = tool}}

\* The entries of the log that are calls, and of these the repeated ones.
CallEntries(tool, event) ==
  {k \in DOMAIN log : /\ operations[log[k].operation].tool = tool
                      /\ log[k].event = event \/ (event = "tool_called" /\ log[k].event = "tool_replayed")}

SameCount(tool, event) ==
  /\ IsFiniteSet(Events(tool, event))
  /\ Cardinality(Events(tool, event)) = Cardinality(CallEntries(tool, event))

CallCounts == \A tool \in Tools, event \in CallEvents : SameCount(tool, event)

OracleInv ==
  /\ Shape /\ Transactions /\ StepsGrow /\ (\A o \in DOMAIN operations : Timed(o))
  /\ LogOrdered /\ LogComplete /\ Ends /\ Evidence /\ CallCounts

-----------------------------------------------------------------------------
(* Operations and entries.                                                 *)

\* Operations and entries are numbered from 1.
LEMMA Lengths ==
  ASSUME Shape
  PROVE  /\ Len(operations) \in Nat /\ DOMAIN operations = 1..Len(operations)
         /\ Len(log) \in Nat /\ DOMAIN log = 1..Len(log)
         /\ \A o \in DOMAIN operations : operations[o] \in Operation /\ o \in Nat /\ o # 0 /\ o <= Len(operations)
         /\ \A k \in DOMAIN log : log[k] \in Entry /\ k \in Nat
<1>1. operations \in Seq(Operation) /\ log \in Seq(Entry)
  BY DEF Shape
<1>2. /\ Len(operations) \in Nat /\ DOMAIN operations = 1..Len(operations)
      /\ Len(log) \in Nat /\ DOMAIN log = 1..Len(log)
  BY <1>1, LenProperties
<1>3. /\ \A o \in DOMAIN operations : operations[o] \in Operation
      /\ \A k \in DOMAIN log : log[k] \in Entry
  BY <1>1, <1>2, ElementOfSeq
<1> QED BY <1>2, <1>3

\* A step that writes to the log.
LEMMA Logs ==
  ASSUME Shape, NEW e \in Entry, log' = Append(log, e)
  PROVE  /\ log' \in Seq(Entry) /\ Len(log') = Len(log) + 1 /\ DOMAIN log' = DOMAIN log \cup {Len(log) + 1}
         /\ Len(log) + 1 \notin DOMAIN log /\ log'[Len(log) + 1] = e
         /\ \A k \in DOMAIN log : log'[k] = log[k] /\ k < Len(log) + 1
<1>1. log \in Seq(Entry) /\ Len(log) \in Nat /\ DOMAIN log = 1..Len(log)
  BY Lengths DEF Shape
<1>2. /\ log' \in Seq(Entry) /\ Len(log') = Len(log) + 1
      /\ \A i \in 1..Len(log) : log'[i] = log[i]
      /\ log'[Len(log) + 1] = e
  BY <1>1, AppendProperties
<1>3. DOMAIN log' = 1..Len(log) + 1
  BY <1>2, LenProperties
<1> QED BY <1>1, <1>2, <1>3

\* An entry, by its parts.
LEMMA LoggedIs ==
  ASSUME Shape, NEW event, NEW o
  PROVE  Logged(event, o) <=> \E k \in DOMAIN log : log[k].event = event /\ log[k].operation = o
<1>1. \A k \in DOMAIN log : log[k] \in Entry
  BY Lengths
<1> QED BY <1>1 DEF Logged, Event, Entry

\* What the log says after one entry more.
LEMMA LogsSay ==
  ASSUME Shape, NEW e \in Entry, log' = Append(log, e)
  PROVE  /\ \A event, o : Logged(event, o)' <=> Logged(event, o) \/ e = Event(event, o)
         /\ \A o : Learned(o)' <=> \/ Learned(o)
                                   \/ /\ e \in {Event("answered", o), Event("looked", o)}
                                      /\ Logged("took_effect", o)
<1>1. PICK n : n = Len(log) + 1
  OBVIOUS
<1>2. /\ DOMAIN log' = DOMAIN log \cup {n} /\ n \notin DOMAIN log /\ log'[n] = e
      /\ \A k \in DOMAIN log : log'[k] = log[k] /\ k < n /\ k \in Nat
      /\ n \in Nat
  BY <1>1, Logs, Lengths
<1>3. ASSUME NEW event, NEW o
      PROVE  Logged(event, o)' <=> Logged(event, o) \/ e = Event(event, o)
  <2>1. Logged(event, o)' <=> \E k \in DOMAIN log' : log'[k] = Event(event, o)
    BY DEF Logged, Event
  <2> QED BY <1>2, <2>1 DEF Logged
<1>4. ASSUME NEW o
      PROVE  Learned(o)' <=> \/ Learned(o)
                             \/ /\ e \in {Event("answered", o), Event("looked", o)}
                                /\ Logged("took_effect", o)
  <2>1. PICK took, answered, looked :
          took = Event("took_effect", o) /\ answered = Event("answered", o) /\ looked = Event("looked", o)
    OBVIOUS
  <2>2. Learned(o)' <=> \E j, k \in DOMAIN log' : j < k /\ log'[j] = took /\ log'[k] \in {answered, looked}
    BY <2>1 DEF Learned, Event
  <2>3. Learned(o) <=> \E j, k \in DOMAIN log : j < k /\ log[j] = took /\ log[k] \in {answered, looked}
    BY <2>1 DEF Learned
  <2>4. Logged("took_effect", o) <=> \E j \in DOMAIN log : log[j] = took
    BY <2>1 DEF Logged
  <2>5. ~(n < n) /\ \A k \in DOMAIN log : ~(n < k)
    BY <1>2
  <2>6. Learned(o)' => Learned(o) \/ (e \in {answered, looked} /\ \E j \in DOMAIN log : log[j] = took)
    BY <1>2, <2>2, <2>3, <2>5
  <2>7. Learned(o) \/ (e \in {answered, looked} /\ \E j \in DOMAIN log : log[j] = took) => Learned(o)'
    BY <1>2, <2>2, <2>3
  <2> QED BY <2>1, <2>4, <2>6, <2>7
<1> QED BY <1>3, <1>4

\* A step that writes nothing to the log.
LEMMA LogSame ==
  ASSUME log' = log
  PROVE  \A o : (Learned(o)' <=> Learned(o)) /\ \A event : Logged(event, o)' <=> Logged(event, o)
BY DEF Learned, Logged, Event

\* Only the reconciler decides without having looked.
LEMMA DecidedIs == \A o : Decided(o) <=> Closed \/ Logged("looked", o)
BY DEF Decided, Logged

\* An entry that is no mark, or that comes last.
LEMMA OrderKept ==
  ASSUME Shape, LogOrdered, NEW e \in Entry, log' = Append(log, e),
         e.event \in Marks =>
           \A k \in DOMAIN log : log[k].event \in Marks =>
             \/ log[k].operation < e.operation
             \/ log[k].operation = e.operation /\ log[k].event = "tool_called" /\ e.event # "tool_called"
  PROVE  LogOrdered'
<1>1. PICK n : n = Len(log) + 1
  OBVIOUS
<1>2. /\ DOMAIN log' = DOMAIN log \cup {n} /\ log'[n] = e
      /\ \A k \in DOMAIN log : log'[k] = log[k] /\ k < n /\ k \in Nat
      /\ n \in Nat
  BY <1>1, Logs, Lengths
<1> SUFFICES ASSUME NEW j \in DOMAIN log', NEW k \in DOMAIN log', j < k,
                    log'[j].event \in Marks, log'[k].event \in Marks
             PROVE  \/ log'[j].operation < log'[k].operation
                    \/ /\ log'[j].operation = log'[k].operation
                       /\ log'[j].event = "tool_called" /\ log'[k].event # "tool_called"
  BY DEF LogOrdered
<1>3. j \in DOMAIN log
  BY <1>2
<1>4. CASE k = n
  BY <1>2, <1>3, <1>4
<1>5. CASE k \in DOMAIN log
  BY <1>2, <1>3, <1>5 DEF LogOrdered
<1> QED BY <1>2, <1>4, <1>5

\* A step that changes one operation.
LEMMA Changes ==
  ASSUME Shape, NEW o \in DOMAIN operations, NEW op \in Operation, operations' = [operations EXCEPT ![o] = op]
  PROVE  /\ operations' \in Seq(Operation) /\ Len(operations') = Len(operations)
         /\ DOMAIN operations' = DOMAIN operations /\ operations'[o] = op
         /\ \A p \in DOMAIN operations : p # o => operations'[p] = operations[p]
<1>1. operations \in Seq(Operation) /\ DOMAIN operations = 1..Len(operations)
  BY Lengths DEF Shape
<1> QED BY <1>1, ExceptSeq, LenProperties

\* A step that adds an operation.
LEMMA Adds ==
  ASSUME Shape, NEW op \in Operation, operations' = Append(operations, op), NEW c, c = Len(operations) + 1
  PROVE  /\ operations' \in Seq(Operation) /\ Len(operations') = c
         /\ DOMAIN operations' = DOMAIN operations \cup {c} /\ c \notin DOMAIN operations /\ c \in Nat /\ c # 0
         /\ operations'[c] = op
         /\ \A o \in DOMAIN operations : operations'[o] = operations[o] /\ o \in Nat /\ o < c
<1>1. operations \in Seq(Operation) /\ Len(operations) \in Nat /\ DOMAIN operations = 1..Len(operations)
  BY Lengths DEF Shape
<1>2. /\ operations' \in Seq(Operation) /\ Len(operations') = Len(operations) + 1
      /\ \A i \in 1..Len(operations) : operations'[i] = operations[i]
      /\ operations'[Len(operations) + 1] = op
  BY <1>1, AppendProperties
<1>3. DOMAIN operations' = 1..Len(operations) + 1
  BY <1>2, LenProperties
<1> QED BY <1>1, <1>2, <1>3

-----------------------------------------------------------------------------
(* Counts.                                                                 *)

\* What one operation counts for each event.
LEMMA EventCounts ==
  ASSUME NEW op \in Operation
  PROVE  /\ OperationEventCount(op, "tool_called") = op.retries + 1
         /\ OperationEventCount(op, "tool_replayed") = op.retries
         /\ OperationEventCount(op, "tool_succeeded") = IF op.status = "succeeded" THEN 1 ELSE 0
         /\ OperationEventCount(op, "tool_failed") = IF op.status = "failed" THEN 1 ELSE 0
         /\ OperationEventCount(op, "tool_rejected") = IF op.status = "rejected" THEN 1 ELSE 0
         /\ op.retries \in Nat
         /\ \A event \in TraceEvents : OperationEventCount(op, event) \in Nat
<1>1. op.retries \in Nat /\ op.status \in Waiting \cup {"succeeded", "failed", "rejected", "unknown"}
  BY DEF Operation
<1>2. /\ OperationEventCount(op, "tool_called") = op.retries + 1
      /\ OperationEventCount(op, "tool_replayed") = op.retries
  BY <1>1 DEF OperationEventCount
<1>3. /\ OperationEventCount(op, "tool_succeeded") = IF op.status = "succeeded" THEN 1 ELSE 0
      /\ OperationEventCount(op, "tool_failed") = IF op.status = "failed" THEN 1 ELSE 0
      /\ OperationEventCount(op, "tool_rejected") = IF op.status = "rejected" THEN 1 ELSE 0
  BY <1>1 DEF OperationEventCount, TerminalEvents, Waiting
<1> QED BY <1>1, <1>2, <1>3 DEF TraceEvents

\* Membership in Events.
LEMMA EventIn ==
  ASSUME NEW tool, NEW event, NEW x
  PROVE  x \in Events(tool, event) <=>
           \E o \in DOMAIN operations : /\ operations[o].tool = tool
                                        /\ x \in {o} \X (1..OperationEventCount(operations[o], event))
BY DEF Events

\* A new operation, with one event.
LEMMA EventsNew ==
  ASSUME NEW c, c \notin DOMAIN operations, DOMAIN operations' = DOMAIN operations \cup {c},
         \A o \in DOMAIN operations : operations'[o] = operations[o],
         NEW tool, NEW event, operations'[c].tool = tool, OperationEventCount(operations'[c], event) = 1
  PROVE  Events(tool, event)' = Events(tool, event) \cup {<<c, 1>>} /\ <<c, 1>> \notin Events(tool, event)
<1>1. ASSUME NEW x
      PROVE  x \in Events(tool, event)' <=>
               \E o \in DOMAIN operations' : /\ operations'[o].tool = tool
                                             /\ x \in {o} \X (1..OperationEventCount(operations'[o], event))
  BY DEF Events
<1>2. \A x : x \in {c} \X (1..1) <=> x = <<c, 1>>
  OBVIOUS
<1>3. ASSUME NEW x
      PROVE  x \in Events(tool, event)' <=> x \in Events(tool, event) \/ x = <<c, 1>>
  BY <1>1, <1>2, EventIn
<1>4. <<c, 1>> \notin Events(tool, event)
  <2> SUFFICES ASSUME NEW o \in DOMAIN operations,
                      <<c, 1>> \in {o} \X (1..OperationEventCount(operations[o], event))
               PROVE  FALSE
    BY EventIn
  <2>1. c = o
    OBVIOUS
  <2> QED BY <2>1
<1> QED BY <1>3, <1>4

\* One more event of an operation.
LEMMA EventsAdd ==
  ASSUME NEW c, DOMAIN operations' = DOMAIN operations \cup {c},
         \A o \in DOMAIN operations : o # c => operations'[o] = operations[o],
         NEW tool, NEW event, operations'[c].tool = tool, NEW m \in Nat,
         OperationEventCount(operations'[c], event) = m + 1,
         c \in DOMAIN operations, operations[c].tool = tool, OperationEventCount(operations[c], event) = m
  PROVE  Events(tool, event)' = Events(tool, event) \cup {<<c, m + 1>>} /\ <<c, m + 1>> \notin Events(tool, event)
<1>1. ASSUME NEW x
      PROVE  x \in Events(tool, event)' <=>
               \E o \in DOMAIN operations' : /\ operations'[o].tool = tool
                                             /\ x \in {o} \X (1..OperationEventCount(operations'[o], event))
  BY DEF Events
<1>2. 1..m + 1 = (1..m) \cup {m + 1} /\ m + 1 \notin 1..m
  OBVIOUS
<1>3. {c} \X (1..m + 1) = ({c} \X (1..m)) \cup {<<c, m + 1>>} /\ <<c, m + 1>> \notin {c} \X (1..m)
  BY <1>2
<1>4. ASSUME NEW x
      PROVE  x \in Events(tool, event)' <=> x \in Events(tool, event) \/ x = <<c, m + 1>>
  BY <1>1, <1>3, EventIn
<1>5. <<c, m + 1>> \notin Events(tool, event)
  <2> SUFFICES ASSUME NEW o \in DOMAIN operations, operations[o].tool = tool,
                      <<c, m + 1>> \in {o} \X (1..OperationEventCount(operations[o], event))
               PROVE  FALSE
    BY EventIn
  <2> QED BY <1>3
<1> QED BY <1>4, <1>5

\* Membership in CallEntries.
LEMMA CallEntryIn ==
  ASSUME NEW tool, NEW event, NEW k
  PROVE  k \in CallEntries(tool, event) <=>
           /\ k \in DOMAIN log /\ operations[log[k].operation].tool = tool
           /\ log[k].event = event \/ (event = "tool_called" /\ log[k].event = "tool_replayed")
BY DEF CallEntries

\* What a new entry is counted as.
LEMMA CallEntriesLogged ==
  ASSUME Shape, NEW e \in Entry, log' = Append(log, e),
         \A k \in DOMAIN log : operations'[log[k].operation].tool = operations[log[k].operation].tool,
         NEW tool, NEW event
  PROVE  /\ Len(log) + 1 \notin CallEntries(tool, event)
         /\ CallEntries(tool, event)' = CallEntries(tool, event) \cup
              IF /\ operations'[e.operation].tool = tool
                 /\ e.event = event \/ (event = "tool_called" /\ e.event = "tool_replayed")
              THEN {Len(log) + 1} ELSE {}
<1>1. /\ DOMAIN log' = DOMAIN log \cup {Len(log) + 1} /\ Len(log) + 1 \notin DOMAIN log /\ log'[Len(log) + 1] = e
      /\ \A k \in DOMAIN log : log'[k] = log[k]
  BY Logs
<1>2. ASSUME NEW k
      PROVE  k \in CallEntries(tool, event)' <=>
               /\ k \in DOMAIN log' /\ operations'[log'[k].operation].tool = tool
               /\ log'[k].event = event \/ (event = "tool_called" /\ log'[k].event = "tool_replayed")
  BY DEF CallEntries
<1> QED BY <1>1, <1>2, CallEntryIn

\* The log is finite.
LEMMA CallEntriesFinite ==
  ASSUME Shape, NEW tool, NEW event
  PROVE  IsFiniteSet(CallEntries(tool, event))
<1>1. Len(log) \in Nat /\ CallEntries(tool, event) \in SUBSET (1..Len(log))
  BY Lengths DEF CallEntries
<1>2. IsFiniteSet(1..Len(log))
  BY <1>1, FS_Interval
<1> QED BY <1>1, <1>2, FS_Subset

\* An event more, and an entry more.
LEMMA CountGrows ==
  ASSUME Shape, NEW tool, NEW event, SameCount(tool, event),
         NEW x, Events(tool, event)' = Events(tool, event) \cup {x}, x \notin Events(tool, event),
         NEW k, CallEntries(tool, event)' = CallEntries(tool, event) \cup {k}, k \notin CallEntries(tool, event)
  PROVE  SameCount(tool, event)'
<1>1. IsFiniteSet(CallEntries(tool, event)) /\ IsFiniteSet(Events(tool, event))
  BY CallEntriesFinite DEF SameCount
<1>2. /\ IsFiniteSet(Events(tool, event) \cup {x})
      /\ Cardinality(Events(tool, event) \cup {x}) = Cardinality(Events(tool, event)) + 1
      /\ Cardinality(CallEntries(tool, event) \cup {k}) = Cardinality(CallEntries(tool, event)) + 1
  BY <1>1, FS_AddElement
<1> QED BY <1>2 DEF SameCount

\* Neither an event nor an entry more.
LEMMA CountSame ==
  ASSUME NEW tool, NEW event, SameCount(tool, event),
         Events(tool, event)' = Events(tool, event), CallEntries(tool, event)' = CallEntries(tool, event)
  PROVE  SameCount(tool, event)'
BY DEF SameCount

\* Operations change, and nothing that is counted.
LEMMA EventsSame ==
  ASSUME DOMAIN operations \subseteq DOMAIN operations', NEW tool, NEW event,
         \A o \in DOMAIN operations :
           /\ operations'[o].tool = operations[o].tool
           /\ operations[o].tool = tool =>
                OperationEventCount(operations'[o], event) = OperationEventCount(operations[o], event),
         \A o \in DOMAIN operations' \ DOMAIN operations :
           operations'[o].tool # tool \/ OperationEventCount(operations'[o], event) = 0
  PROVE  Events(tool, event)' = Events(tool, event)
<1>1. ASSUME NEW x
      PROVE  x \in Events(tool, event)' <=>
               \E o \in DOMAIN operations' : /\ operations'[o].tool = tool
                                             /\ x \in {o} \X (1..OperationEventCount(operations'[o], event))
  BY DEF Events
<1>2. \A o : OperationEventCount(operations'[o], event) = 0 =>
               {o} \X (1..OperationEventCount(operations'[o], event)) = {}
  OBVIOUS
<1>3. ASSUME NEW x
      PROVE  x \in Events(tool, event)' <=> x \in Events(tool, event)
  BY <1>1, <1>2, EventIn
<1> QED BY <1>3

\* Operations that stay what they are, but for their status and its times.
Kept ==
  /\ operations' \in Seq(Operation) /\ Len(operations') = Len(operations) /\ DOMAIN operations' = DOMAIN operations
  /\ \A o \in DOMAIN operations :
       /\ operations'[o] \in Operation
       /\ operations'[o].tool = operations[o].tool /\ operations'[o].step = operations[o].step
       /\ operations'[o].created = operations[o].created /\ operations'[o].retries = operations[o].retries

\* The calls are counted only when they are made.
LEMMA CallCountsKept ==
  ASSUME Shape, CallCounts, Kept, log' # log => \E e \in Entry : e.event \notin CallEvents /\ log' = Append(log, e)
  PROVE  CallCounts'
<1> SUFFICES ASSUME NEW tool \in Tools, NEW event \in CallEvents
             PROVE  SameCount(tool, event)'
  BY DEF CallCounts
<1>1. Events(tool, event)' = Events(tool, event)
  <2>1. \A o \in DOMAIN operations :
          OperationEventCount(operations'[o], event) = OperationEventCount(operations[o], event)
    BY Lengths, EventCounts DEF Kept, CallEvents
  <2> QED BY <2>1, EventsSame DEF Kept
<1>2. \A k \in DOMAIN log : operations'[log[k].operation].tool = operations[log[k].operation].tool
  BY DEF Kept, Shape
<1>3. CASE log' = log
  <2>1. ASSUME NEW k
        PROVE  k \in CallEntries(tool, event)' <=>
                 /\ k \in DOMAIN log /\ operations'[log[k].operation].tool = tool
                 /\ log[k].event = event \/ (event = "tool_called" /\ log[k].event = "tool_replayed")
    BY <1>3 DEF CallEntries
  <2>2. ASSUME NEW k
        PROVE  k \in CallEntries(tool, event)' <=> k \in CallEntries(tool, event)
    BY <1>2, <2>1, CallEntryIn
  <2>3. CallEntries(tool, event)' = CallEntries(tool, event)
    BY <2>2
  <2> QED BY <1>1, <2>3, CountSame DEF CallCounts
<1>4. ASSUME NEW e \in Entry, e.event \notin CallEvents, log' = Append(log, e)
      PROVE  SameCount(tool, event)'
  <2>1. e.event # event /\ ~(event = "tool_called" /\ e.event = "tool_replayed")
    BY <1>4 DEF CallEvents
  <2>2. CallEntries(tool, event)' = CallEntries(tool, event) \cup
          IF /\ operations'[e.operation].tool = tool
             /\ e.event = event \/ (event = "tool_called" /\ e.event = "tool_replayed")
          THEN {Len(log) + 1} ELSE {}
    BY <1>2, <1>4, CallEntriesLogged
  <2>3. CallEntries(tool, event)' = CallEntries(tool, event)
    BY <2>1, <2>2
  <2> QED BY <1>1, <2>3, CountSame DEF CallCounts
<1> QED BY <1>3, <1>4

\* The steps of the operations stay in their order.
LEMMA StepsKept ==
  ASSUME StepsGrow, Kept, steps' = steps
  PROVE  StepsGrow'
BY DEF StepsGrow, Kept

-----------------------------------------------------------------------------
(* The steps.                                                              *)

\* The start: no operation, no entry.
LEMMA InitKeeps ==
  ASSUME Init
  PROVE  OracleInv
<1>1. operations = <<>> /\ log = <<>> /\ DOMAIN operations = {} /\ DOMAIN log = {}
  BY DEF Init
<1>2. Shape
  BY <1>1, BoundsAssumption DEF Init, Shape, Closed
<1>3. CallCounts
  <2> SUFFICES ASSUME NEW tool \in Tools, NEW event \in CallEvents
               PROVE  SameCount(tool, event)
    BY DEF CallCounts
  <2>1. Events(tool, event) = {} /\ CallEntries(tool, event) = {}
    BY <1>1, EventIn, CallEntryIn
  <2> QED BY <2>1, FS_EmptySet DEF SameCount
<1>4. StepsGrow /\ (\A o \in DOMAIN operations : Timed(o)) /\ LogOrdered /\ LogComplete /\ Ends
  BY <1>1 DEF StepsGrow, LogOrdered, LogComplete, Ends, EndedAs
<1>5. Evidence /\ Transactions
  BY <1>1 DEF Init, Evidence, Transactions
<1> QED BY <1>2, <1>3, <1>4, <1>5 DEF OracleInv

\* A new operation.
LEMMA CallKeeps ==
  ASSUME OracleInv, NEW tool \in Tools, Call(tool)
  PROVE  OracleInv'
<1>1. PICK c : c = Len(operations) + 1
  OBVIOUS
<1>2. PICK op \in Operation :
        /\ operations' = Append(operations, op)
        /\ op.tool = tool /\ op.step = steps + 1 /\ op.status = "prepared" /\ op.retries = 0
        /\ op.created = clock + skew /\ op.started = Never /\ op.finished = Never
  <2> DEFINE id == Ids[Len(operations) + 1]
  <2>1. operations' = Append(operations, NewOperation(id, tool, steps', clock + skew))
    BY DEF Call
  <2>2. /\ id \in Nat /\ steps' = steps + 1 /\ steps' \in Nat /\ clock + skew \in Nat
    <3>1. clock \in Nat /\ skew \in Nat /\ steps \in Nat
      BY DEF OracleInv, Shape
    <3>2. steps' = steps + 1
      BY DEF Call
    <3>3. id \in Nat
      <4>1. Len(operations) \in Nat /\ Len(operations) < MaxCalls /\ MaxCalls \in Nat
        BY Lengths, BoundsAssumption DEF OracleInv, Call
      <4>2. Len(operations) + 1 \in 1..MaxCalls
        BY <4>1
      <4> QED BY <4>2, BoundsAssumption
    <3> QED BY <3>1, <3>2, <3>3
  <2> HIDE DEF id
  <2> QED BY <2>1, <2>2 DEF Operation, NewOperation, Waiting
<1>3. /\ operations' \in Seq(Operation) /\ Len(operations') = c
      /\ DOMAIN operations' = DOMAIN operations \cup {c} /\ c \notin DOMAIN operations /\ c \in Nat /\ c # 0
      /\ operations'[c] = op
      /\ \A o \in DOMAIN operations : operations'[o] = operations[o] /\ o \in Nat /\ o < c
  BY <1>1, <1>2, Adds DEF OracleInv
<1>4. PICK e \in Entry : /\ e.event = "tool_called" /\ e.operation = c /\ e = Event("tool_called", c)
                         /\ log' = Append(log, e)
  BY <1>3 DEF Call, Event, Entry, CallEvents
<1>5. /\ Shape /\ log' \in Seq(Entry) /\ DOMAIN log' = DOMAIN log \cup {Len(log) + 1}
      /\ log'[Len(log) + 1] = e
      /\ \A k \in DOMAIN log : log'[k] = log[k]
      /\ \A k \in DOMAIN log : log[k].operation \in DOMAIN operations
  BY <1>4, Logs DEF OracleInv, Shape
<1>6. /\ steps' = steps + 1 /\ current' = c /\ current = 0
      /\ UNCHANGED <<clock, skew, status, alive, committed, late, tickets, mutations>>
      /\ ~Closed /\ ~Closed'
  BY <1>3 DEF Call, Ready, run, data, Closed
<1>7. /\ \A event, o : Logged(event, o)' <=> Logged(event, o) \/ (event = "tool_called" /\ o = c)
      /\ \A o : Learned(o)' <=> Learned(o)
      /\ \A event : ~Logged(event, c)
      /\ ~Learned(c)
  <2>1. \A event, o : Logged(event, o)' <=> Logged(event, o) \/ e = Event(event, o)
    BY <1>4, <1>5, LogsSay
  <2>2. \A o : Learned(o)' <=> \/ Learned(o)
                               \/ /\ e \in {Event("answered", o), Event("looked", o)}
                                  /\ Logged("took_effect", o)
    BY <1>4, <1>5, LogsSay
  <2>3. \A event, o : e = Event(event, o) <=> event = "tool_called" /\ o = c
    BY <1>4 DEF Event
  <2>4. \A event : ~Logged(event, c)
    BY <1>3, <1>5, LoggedIs
  <2>5. ~Learned(c)
    BY <1>3, <1>5 DEF Learned, Event
  <2> QED BY <2>1, <2>2, <2>3, <2>4, <2>5
<1>8. Shape'
  BY <1>2, <1>3, <1>4, <1>5, <1>6 DEF Shape, Waiting
<1>9. Transactions'
  <2>1. ~committed
    BY <1>6 DEF OracleInv, Transactions
  <2> QED BY <1>3, <1>6, <2>1 DEF OracleInv, Transactions
<1>10. StepsGrow'
  <2>1. \A o \in DOMAIN operations : operations[o].step \in Nat /\ operations[o].step <= steps /\ steps \in Nat
    BY Lengths DEF OracleInv, Shape, StepsGrow, Operation
  <2>2. \A o \in DOMAIN operations : operations'[o].step < operations'[c].step /\ ~(c < o) /\ ~(c < c)
    BY <1>2, <1>3, <2>1
  <2>3. operations'[c].step <= steps' /\ \A o \in DOMAIN operations : operations'[o].step <= steps'
    <3>1. steps' = steps + 1 /\ steps \in Nat
      BY <1>6 DEF OracleInv, Shape
    <3> QED BY <1>2, <1>3, <2>1, <3>1
  <2> QED BY <1>3, <2>2, <2>3 DEF OracleInv, StepsGrow
<1>11. ASSUME NEW o \in DOMAIN operations'
       PROVE  Timed(o)'
  <2>1. CASE o = c
    BY <1>2, <1>3, <1>6, <2>1 DEF OracleInv, Shape, Timed, Waiting
  <2>2. CASE o \in DOMAIN operations
    BY <1>3, <1>6, <2>2 DEF OracleInv, Timed
  <2> QED BY <1>3, <2>1, <2>2
<1>12. LogOrdered'
  BY <1>3, <1>4, <1>5, OrderKept DEF OracleInv
<1>13. LogComplete'
  <2>1. \A event \in EndEvents : \A o : Logged(event, o)' <=> Logged(event, o)
    BY <1>7 DEF EndEvents
  <2>2. operations'[c].status \in Waiting
    BY <1>2, <1>3 DEF Waiting
  <2> QED BY <1>3, <1>7, <2>1, <2>2 DEF OracleInv, LogComplete
<1>14. Ends'
  <2>1. \A o : Decided(o)' <=> Logged("looked", o)
    BY <1>6, <1>7, DecidedIs DEF Decided, Logged
  <2>2. \A o : Decided(o) <=> Logged("looked", o)
    BY <1>6, DecidedIs
  <2> QED BY <1>2, <1>3, <1>7, <2>1, <2>2 DEF OracleInv, Ends, EndedAs
<1>15. Evidence'
  <2>1. ASSUME NEW o \in DOMAIN operations, NEW t
        PROVE  Left(o, t)' <=> Left(o, t)
    BY <1>3, <1>7 DEF Left
  <2>2. ASSUME NEW t
        PROVE  ~Left(c, t)'
    BY <1>3, <1>7 DEF Left
  <2> QED BY <1>3, <1>6, <2>1, <2>2 DEF OracleInv, Evidence
<1>16. CallCounts'
  <2> SUFFICES ASSUME NEW t \in Tools, NEW event \in CallEvents
               PROVE  SameCount(t, event)'
    BY DEF CallCounts
  <2>1. SameCount(t, event) /\ event \in TraceEvents
    BY DEF OracleInv, CallCounts, CallEvents, TraceEvents
  <2>2. /\ Len(log) + 1 \notin CallEntries(t, event)
        /\ CallEntries(t, event)' = CallEntries(t, event) \cup
             IF tool = t /\ event = "tool_called" THEN {Len(log) + 1} ELSE {}
    <3>1. /\ operations'[e.operation].tool = tool
          /\ \A k \in DOMAIN log : operations'[log[k].operation].tool = operations[log[k].operation].tool
      BY <1>2, <1>3, <1>4, <1>5
    <3>2. /\ Len(log) + 1 \notin CallEntries(t, event)
          /\ CallEntries(t, event)' = CallEntries(t, event) \cup
               IF /\ operations'[e.operation].tool = t
                  /\ e.event = event \/ (event = "tool_called" /\ e.event = "tool_replayed")
               THEN {Len(log) + 1} ELSE {}
      BY <1>4, <1>5, <3>1, CallEntriesLogged
    <3> QED BY <1>4, <3>1, <3>2
  <2>3. /\ OperationEventCount(op, "tool_called") = 1 /\ OperationEventCount(op, "tool_replayed") = 0
    BY <1>2, EventCounts
  <2>4. CASE tool = t /\ event = "tool_called"
    <3>1. operations'[c].tool = t /\ OperationEventCount(operations'[c], event) = 1
      BY <1>2, <1>3, <2>3, <2>4
    <3>2. Events(t, event)' = Events(t, event) \cup {<<c, 1>>} /\ <<c, 1>> \notin Events(t, event)
      BY <1>3, <3>1, EventsNew
    <3> QED BY <1>5, <2>1, <2>2, <2>4, <3>2, CountGrows
  <2>5. CASE ~(tool = t /\ event = "tool_called")
    <3>1. operations'[c].tool # t \/ OperationEventCount(operations'[c], event) = 0
      BY <1>2, <1>3, <2>3, <2>5 DEF CallEvents
    <3>2. Events(t, event)' = Events(t, event)
      BY <1>3, <3>1, EventsSame
    <3> QED BY <2>1, <2>2, <2>5, <3>2, CountSame
  <2> QED BY <2>4, <2>5
<1> QED BY <1>8, <1>9, <1>10, <1>11, <1>12, <1>13, <1>14, <1>15, <1>16 DEF OracleInv

\* A known operation again.
LEMMA ReplayKeeps ==
  ASSUME OracleInv, NEW o \in DOMAIN operations, Replay(o)
  PROVE  OracleInv'
<1>1. operations[o] \in Operation /\ Shape /\ o \in Nat
  BY Lengths DEF OracleInv
<1>2. PICK op \in Operation : /\ operations' = [operations EXCEPT ![o] = op]
                              /\ op = [operations[o] EXCEPT !.retries = @ + 1]
  <2>1. [operations[o] EXCEPT !.retries = @ + 1] \in Operation
    BY <1>1 DEF Operation
  <2>2. operations' = [operations EXCEPT ![o] = [operations[o] EXCEPT !.retries = @ + 1]]
    BY DEF Replay
  <2> QED BY <2>1, <2>2
<1>3. /\ operations' \in Seq(Operation) /\ Len(operations') = Len(operations)
      /\ DOMAIN operations' = DOMAIN operations /\ operations'[o] = op
      /\ \A p \in DOMAIN operations : p # o => operations'[p] = operations[p]
  BY <1>1, <1>2, Changes
<1>4. \A p \in DOMAIN operations :
        /\ operations'[p].tool = operations[p].tool /\ operations'[p].step = operations[p].step
        /\ operations'[p].status = operations[p].status /\ operations'[p].created = operations[p].created
        /\ operations'[p].started = operations[p].started /\ operations'[p].finished = operations[p].finished
  BY <1>1, <1>2, <1>3 DEF Operation
<1>5. op.retries = operations[o].retries + 1 /\ operations[o].retries \in Nat
  BY <1>1, <1>2 DEF Operation
<1>6. PICK e \in Entry : /\ e.event = "tool_replayed" /\ e.operation = o /\ e = Event("tool_replayed", o)
                         /\ log' = Append(log, e)
  BY <1>1 DEF Replay, Event, Entry, CallEvents
<1>7. /\ log' \in Seq(Entry) /\ DOMAIN log' = DOMAIN log \cup {Len(log) + 1} /\ log'[Len(log) + 1] = e
      /\ \A k \in DOMAIN log : log'[k] = log[k]
      /\ \A k \in DOMAIN log : log[k].operation \in DOMAIN operations
  BY <1>1, <1>6, Logs DEF Shape
<1>8. /\ steps' \in {steps, steps + 1} /\ current' = current /\ current = 0
      /\ UNCHANGED <<clock, skew, status, alive, committed, late, tickets, mutations>>
      /\ ~Closed /\ ~Closed'
  BY DEF Replay, Ready, run, data, Closed
<1>9. /\ \A event, p : event # "tool_replayed" => (Logged(event, p)' <=> Logged(event, p))
      /\ \A p : Learned(p)' <=> Learned(p)
  <2>1. \A event, p : e = Event(event, p) => event = "tool_replayed"
    BY <1>6 DEF Event
  <2>2. \A event, p : Logged(event, p)' <=> Logged(event, p) \/ e = Event(event, p)
    BY <1>1, <1>6, LogsSay
  <2>3. \A p : Learned(p)' <=> \/ Learned(p)
                               \/ /\ e \in {Event("answered", p), Event("looked", p)}
                                  /\ Logged("took_effect", p)
    BY <1>1, <1>6, LogsSay
  <2> QED BY <2>1, <2>2, <2>3
<1>10. Shape'
  BY <1>1, <1>3, <1>6, <1>7, <1>8 DEF Shape
<1>11. Transactions'
  BY <1>3, <1>4, <1>8 DEF OracleInv, Transactions
<1>12. StepsGrow'
  <2>1. \A p \in DOMAIN operations : operations[p].step \in Nat /\ steps \in Nat
    BY <1>1, Lengths DEF Shape, Operation
  <2> QED BY <1>3, <1>4, <1>8, <2>1 DEF OracleInv, StepsGrow
<1>13. ASSUME NEW p \in DOMAIN operations'
       PROVE  Timed(p)'
  BY <1>3, <1>4, <1>8 DEF OracleInv, Timed
<1>14. LogOrdered'
  BY <1>1, <1>6, OrderKept DEF OracleInv, Marks, EndEvents
<1>15. LogComplete'
  <2>1. "tool_replayed" \notin EndEvents
    BY DEF EndEvents
  <2> QED BY <1>3, <1>4, <1>9, <2>1 DEF OracleInv, LogComplete
<1>16. Ends'
  <2>1. \A p : Decided(p)' <=> Logged("looked", p)
    BY <1>8, <1>9, DecidedIs DEF Decided, Logged
  <2>2. \A p : Decided(p) <=> Logged("looked", p)
    BY <1>8, DecidedIs
  <2> QED BY <1>3, <1>4, <1>9, <2>1, <2>2 DEF OracleInv, Ends, EndedAs
<1>17. Evidence'
  <2>1. ASSUME NEW p \in DOMAIN operations, NEW t
        PROVE  Left(p, t)' <=> Left(p, t)
    BY <1>4, <1>9 DEF Left
  <2> QED BY <1>3, <1>8, <2>1 DEF OracleInv, Evidence
<1>18. CallCounts'
  <2> SUFFICES ASSUME NEW t \in Tools, NEW event \in CallEvents
               PROVE  SameCount(t, event)'
    BY DEF CallCounts
  <2>1. SameCount(t, event)
    BY DEF OracleInv, CallCounts
  <2>2. /\ Len(log) + 1 \notin CallEntries(t, event)
        /\ CallEntries(t, event)' = CallEntries(t, event) \cup
             IF operations[o].tool = t THEN {Len(log) + 1} ELSE {}
    <3>1. /\ operations'[e.operation].tool = operations[o].tool
          /\ \A k \in DOMAIN log : operations'[log[k].operation].tool = operations[log[k].operation].tool
      BY <1>4, <1>6, <1>7
    <3>2. /\ Len(log) + 1 \notin CallEntries(t, event)
          /\ CallEntries(t, event)' = CallEntries(t, event) \cup
               IF /\ operations'[e.operation].tool = t
                  /\ e.event = event \/ (event = "tool_called" /\ e.event = "tool_replayed")
               THEN {Len(log) + 1} ELSE {}
      BY <1>1, <1>6, <3>1, CallEntriesLogged
    <3>3. e.event = event \/ (event = "tool_called" /\ e.event = "tool_replayed")
      BY <1>6 DEF CallEvents
    <3> QED BY <3>1, <3>2, <3>3
  <2>3. /\ operations'[o].tool = operations[o].tool /\ operations'[o] = op
        /\ DOMAIN operations' = DOMAIN operations \cup {o}
        /\ \A p \in DOMAIN operations : p # o => operations'[p] = operations[p]
    BY <1>3, <1>4
  <2>4. CASE operations[o].tool = t
    <3>1. PICK m \in Nat : /\ OperationEventCount(operations[o], event) = m
                           /\ OperationEventCount(op, event) = m + 1
      BY <1>1, <1>5, EventCounts DEF CallEvents
    <3>2. Events(t, event)' = Events(t, event) \cup {<<o, m + 1>>} /\ <<o, m + 1>> \notin Events(t, event)
      BY <2>3, <2>4, <3>1, EventsAdd
    <3> QED BY <1>1, <2>1, <2>2, <2>4, <3>2, CountGrows
  <2>5. CASE operations[o].tool # t
    <3>1. Events(t, event)' = Events(t, event)
      BY <1>3, <1>4, <2>5, EventsSame
    <3> QED BY <2>1, <2>2, <2>5, <3>1, CountSame
  <2> QED BY <2>4, <2>5
<1> QED BY <1>10, <1>11, <1>12, <1>13, <1>14, <1>15, <1>16, <1>17, <1>18 DEF OracleInv

\* The handler starts.
LEMMA StartKeeps ==
  ASSUME OracleInv, Start
  PROVE  OracleInv'
<1>1. PICK o \in DOMAIN operations : o = current
  BY DEF OracleInv, Shape, Start
<1>2. operations[o] \in Operation /\ Shape /\ operations[o].status = "prepared"
  BY <1>1, Lengths DEF OracleInv, Start
<1>3. PICK op \in Operation : /\ operations' = [operations EXCEPT ![o] = op]
                              /\ op = [operations[o] EXCEPT !.status = "running", !.started = clock]
  <2>1. [operations[o] EXCEPT !.status = "running", !.started = clock] \in Operation
    BY <1>2 DEF Operation, Shape, Waiting
  <2>2. operations' = [operations EXCEPT ![o] = [operations[o] EXCEPT !.status = "running", !.started = clock]]
    BY <1>1, <1>2 DEF Start
  <2> QED BY <2>1, <2>2
<1>4. /\ operations' \in Seq(Operation) /\ Len(operations') = Len(operations)
      /\ DOMAIN operations' = DOMAIN operations /\ operations'[o] = op
      /\ \A p \in DOMAIN operations : p # o => operations'[p] = operations[p]
  BY <1>2, <1>3, Changes
<1>5. operations'[o].status = "running" /\ operations'[o].started = clock
      /\ operations'[o].finished = operations[o].finished
  BY <1>2, <1>3, <1>4 DEF Operation
<1>6. Kept
  BY <1>2, <1>3, <1>4, Lengths DEF Kept, Operation
<1>7. /\ UNCHANGED <<clock, skew, steps, current, committed, late, status, alive, tickets, mutations, log>>
      /\ ~Closed /\ ~Closed'
  BY DEF Start, run, data, Closed
<1>8. \A p : (Learned(p)' <=> Learned(p)) /\ \A event : Logged(event, p)' <=> Logged(event, p)
  BY <1>7, LogSame
<1>9. Shape' /\ Transactions'
  BY <1>2, <1>4, <1>5, <1>6, <1>7, <1>8 DEF OracleInv, Shape, Transactions, Kept, Waiting
<1>10. ASSUME NEW p \in DOMAIN operations'
       PROVE  Timed(p)'
  <2>1. CASE p = o
    BY <1>2, <1>4, <1>5, <1>6, <1>7, <2>1 DEF OracleInv, Timed, Waiting, Shape, Kept
  <2>2. CASE p # o
    BY <1>4, <1>7, <2>2 DEF OracleInv, Timed
  <2> QED BY <2>1, <2>2
<1>11. LogOrdered' /\ StepsGrow' /\ CallCounts'
  BY <1>2, <1>6, <1>7, StepsKept, CallCountsKept DEF OracleInv, LogOrdered
<1>12. LogComplete'
  BY <1>2, <1>4, <1>5, <1>8 DEF OracleInv, LogComplete, Waiting
<1>13. Ends'
  <2>1. \A p : Decided(p)' <=> Decided(p)
    BY <1>7 DEF Decided, Event
  <2>2. ~Logged("answered", o) /\ ~Logged("raised", o) /\ ~Logged("tool_rejected", o) /\ ~Logged("timed_out", o)
    BY <1>2 DEF OracleInv, Ends, EndedAs
  <2>3. ~Logged("looked", o) /\ ~Learned(o)
    BY <1>2, <2>2 DEF OracleInv, Ends, EndedAs
  <2> QED BY <1>4, <1>5, <1>8, <2>1, <2>2, <2>3 DEF OracleInv, Ends, EndedAs
<1>14. Evidence'
  <2>1. ASSUME NEW p \in DOMAIN operations, NEW t
        PROVE  Left(p, t)' <=> Left(p, t)
    BY <1>6, <1>8 DEF Left, Kept
  <2> QED BY <1>4, <1>7, <2>1 DEF OracleInv, Evidence
<1> QED BY <1>9, <1>10, <1>11, <1>12, <1>13, <1>14 DEF OracleInv

\* The transaction of an operation takes effect.
LEMMA TakesEffect ==
  ASSUME OracleInv, NEW o \in DOMAIN operations, log' = Append(log, Event("took_effect", o)),
         UNCHANGED <<operations, clock, skew, steps, status, alive, current>>, Transactions',
         IF operations[o].tool \in Writes
         THEN \E ticket : Effect(o, ticket) /\ (operations[o].tool = "create" => ticket = o)
         ELSE UNCHANGED data
  PROVE  OracleInv'
<1>1. PICK e \in Entry : /\ e.event = "took_effect" /\ e.operation = o /\ e = Event("took_effect", o)
                         /\ log' = Append(log, e)
  <2>1. o \in Nat
    BY Lengths DEF OracleInv
  <2> QED BY <2>1 DEF Event, Entry
<1>2. /\ Shape /\ log' \in Seq(Entry) /\ DOMAIN log' = DOMAIN log \cup {Len(log) + 1} /\ log'[Len(log) + 1] = e
      /\ \A k \in DOMAIN log : log'[k] = log[k]
  BY <1>1, Logs DEF OracleInv
<1>3. /\ \A event, p : Logged(event, p)' <=> Logged(event, p) \/ (event = "took_effect" /\ p = o)
      /\ \A p : Learned(p)' <=> Learned(p)
  <2>1. \A event, p : e = Event(event, p) <=> event = "took_effect" /\ p = o
    BY <1>1 DEF Event
  <2>2. \A event, p : Logged(event, p)' <=> Logged(event, p) \/ e = Event(event, p)
    BY <1>1, <1>2, LogsSay
  <2>3. \A p : Learned(p)' <=> \/ Learned(p)
                               \/ /\ e \in {Event("answered", p), Event("looked", p)}
                                  /\ Logged("took_effect", p)
    BY <1>1, <1>2, LogsSay
  <2> QED BY <2>1, <2>2, <2>3
<1>4. Kept /\ (Closed' <=> Closed)
  BY <1>2, Lengths DEF Shape, Kept, Operation, Closed
<1>5. ASSUME NEW p \in DOMAIN operations, NEW t
      PROVE  Left(p, t)' <=> Left(p, t) \/ (p = o /\ operations[o].tool = t)
  BY <1>3 DEF Left
<1>6. tickets' \subseteq [id : Nat, status : {"open", "resolved"}] /\ Evidence'
  <2>1. /\ Evidence /\ tickets \subseteq [id : Nat, status : {"open", "resolved"}] /\ o \in Nat
        /\ DOMAIN operations' = DOMAIN operations
    BY <1>2, Lengths DEF OracleInv, Shape
  <2>2. CASE operations[o].tool \notin Writes
    <3>1. tickets' = tickets /\ mutations' = mutations
      BY <2>2 DEF data
    <3>2. operations[o].tool # "create" /\ operations[o].tool # "update"
      BY <2>2 DEF Writes
    <3> QED BY <1>5, <2>1, <3>1, <3>2 DEF Evidence
  <2>3. CASE operations[o].tool = "create"
    <3>1. Creates(o)
      BY <2>3 DEF Writes, Effect
    <3>2. PICK new : new = [id |-> o, status |-> "open"]
      OBVIOUS
    <3>3. /\ new.id = o /\ new \in [id : Nat, status : {"open", "resolved"}]
          /\ \A x : x \in tickets' <=> x \in tickets \/ x = new
          /\ mutations' = mutations
      BY <2>1, <3>1, <3>2 DEF Creates
    <3>4. tickets' \subseteq [id : Nat, status : {"open", "resolved"}]
      BY <2>1, <3>3
    <3>5. Evidence'
      BY <1>5, <2>1, <2>3, <3>3 DEF Evidence
    <3> QED BY <3>4, <3>5
  <2>4. CASE operations[o].tool = "update"
    <3>1. PICK ticket : Updates(o, ticket)
      BY <2>4 DEF Writes, Effect
    <3> DEFINE After(t) == IF t.id = ticket THEN [t EXCEPT !.status = "resolved"] ELSE t
    <3>2. tickets' = {After(t) : t \in tickets} /\ mutations' = mutations \cup {[id |-> o, ticket |-> ticket]}
      BY <3>1 DEF Updates
    <3>3. \A t \in tickets : After(t) \in [id : Nat, status : {"open", "resolved"}] /\ After(t).id = t.id
      BY <2>1
    <3> HIDE DEF After
    <3>4. /\ tickets' \subseteq [id : Nat, status : {"open", "resolved"}]
          /\ \A id : (\E x \in tickets' : x.id = id) <=> (\E x \in tickets : x.id = id)
      BY <3>2, <3>3
    <3>5. PICK new : new = [id |-> o, ticket |-> ticket]
      OBVIOUS
    <3>6. new.id = o /\ \A x : x \in mutations' <=> x \in mutations \/ x = new
      BY <3>2, <3>5
    <3>7. Evidence'
      BY <1>5, <2>1, <2>4, <3>4, <3>6 DEF Evidence
    <3> QED BY <3>4, <3>7
  <2> QED BY <2>2, <2>3, <2>4 DEF Writes
<1>7. Shape'
  BY <1>1, <1>2, <1>4, <1>6 DEF Shape
<1>8. \A p \in DOMAIN operations' : Timed(p)'
  BY DEF OracleInv, Timed
<1>9. LogOrdered' /\ StepsGrow' /\ CallCounts'
  <2>1. e.event \notin Marks /\ e.event \notin CallEvents
    BY <1>1 DEF Marks, EndEvents, CallEvents
  <2>2. LogOrdered'
    BY <1>1, <1>2, <2>1, OrderKept DEF OracleInv
  <2>3. CallCounts'
    BY <1>1, <1>2, <1>4, <2>1, CallCountsKept DEF OracleInv
  <2> QED BY <1>4, <2>2, <2>3, StepsKept DEF OracleInv
<1>10. LogComplete'
  <2>1. "took_effect" \notin EndEvents
    BY DEF EndEvents
  <2> QED BY <1>3, <2>1 DEF OracleInv, LogComplete
<1>11. Ends'
  <2>1. \A p : Decided(p)' <=> Closed' \/ Logged("looked", p)'
    BY DEF Decided, Logged, Event
  <2>2. \A p : Decided(p)' <=> Decided(p)
    BY <1>3, <1>4, <2>1, DecidedIs
  <2> QED BY <1>3, <2>2 DEF OracleInv, Ends, EndedAs
<1> QED BY <1>6, <1>7, <1>8, <1>9, <1>10, <1>11 DEF OracleInv

\* The handler commits.
LEMMA CommitKeeps ==
  ASSUME OracleInv, Commit
  PROVE  OracleInv'
<1>1. PICK o \in DOMAIN operations : o = current
  BY DEF OracleInv, Shape, Commit, Executing
<1>2. /\ log' = Append(log, Event("took_effect", o))
      /\ UNCHANGED <<operations, clock, skew, steps, status, alive, current, late>>
  BY <1>1 DEF Commit, run
<1>3. IF operations[o].tool \in Writes
      THEN \E ticket : Effect(o, ticket) /\ (operations[o].tool = "create" => ticket = o)
      ELSE UNCHANGED data
  BY <1>1 DEF Commit, Targets
<1>4. Transactions'
  <2>1. Logged("took_effect", o)'
    <3>1. Event("took_effect", o) \in Entry
      BY <1>1, Lengths DEF OracleInv, Event, Entry
    <3> QED BY <1>2, <3>1, LogsSay DEF OracleInv
  <2> QED BY <1>1, <1>2, <2>1 DEF OracleInv, Transactions, Commit, Executing
<1> QED BY <1>2, <1>3, <1>4, TakesEffect

\* The caller leaves.
LEMMA LeaveKeeps ==
  ASSUME OracleInv, Executing, Leave
  PROVE  \A l \in late' : /\ l.operation \in DOMAIN operations /\ operations[l.operation].tool \in Writes
                          /\ operations[l.operation].tool = "create" => l.ticket = l.operation
<1>1. current \in DOMAIN operations
  BY DEF OracleInv, Shape, Executing
<1>2. CASE UNCHANGED late
  BY <1>2 DEF OracleInv, Transactions
<1>3. CASE operations[current].tool \in Writes
           /\ \E ticket \in Targets(current) : late' = late \cup {[operation |-> current, ticket |-> ticket]}
  <2>1. PICK ticket \in Targets(current) : late' = late \cup {[operation |-> current, ticket |-> ticket]}
    BY <1>3
  <2>2. PICK new : new = [operation |-> current, ticket |-> ticket]
    OBVIOUS
  <2>3. /\ new.operation = current /\ (operations[current].tool = "create" => new.ticket = current)
        /\ \A l \in late' : l \in late \/ l = new
    BY <2>1, <2>2 DEF Targets
  <2> QED BY <1>1, <1>3, <2>3 DEF OracleInv, Transactions
<1> QED BY <1>2, <1>3 DEF Leave

\* How a call can end: the status of its operation, and the entry in the log.
Outcomes ==
  {<<"succeeded", "answered">>, <<"failed", "raised">>, <<"rejected", "tool_rejected">>, <<"unknown", "timed_out">>}

\* The call ends.
LEMMA FinalizeKeeps ==
  ASSUME OracleInv, alive, current # 0, NEW to, NEW kind, <<to, kind>> \in Outcomes, Finalize(to, kind),
         kind = "answered" => Logged("took_effect", current),
         kind = "timed_out" => operations[current].tool \in Writes,
         \A l \in late' : /\ l.operation \in DOMAIN operations /\ operations[l.operation].tool \in Writes
                          /\ operations[l.operation].tool = "create" => l.ticket = l.operation
  PROVE  OracleInv'
<1>1. PICK o \in DOMAIN operations : o = current
  BY DEF OracleInv, Shape
<1>2. /\ operations[o] \in Operation /\ Shape /\ operations[o].status \in Waiting /\ o = Len(operations)
      /\ \A k \in DOMAIN log : log[k].operation \in DOMAIN operations /\ k \in Nat
      /\ \A p \in DOMAIN operations : p \in Nat /\ p <= o
  BY <1>1, Lengths DEF OracleInv, Shape
<1>3. /\ kind \in EndEvents /\ kind \in Marks /\ kind \notin CallEvents /\ kind \notin {"looked", "took_effect", "tool_called"}
      /\ to \notin Waiting /\ to \in {"succeeded", "failed", "rejected", "unknown"}
      /\ to = "succeeded" <=> kind = "answered"
      /\ to = "failed" <=> kind = "raised"
      /\ to = "rejected" <=> kind = "tool_rejected"
      /\ to = "unknown" <=> kind = "timed_out"
  BY DEF Outcomes, EndEvents, Marks, CallEvents, Waiting
<1>4. PICK op \in Operation : /\ operations' = [operations EXCEPT ![o] = op]
                              /\ op = [operations[o] EXCEPT !.status = to, !.finished = clock]
  <2>1. [operations[o] EXCEPT !.status = to, !.finished = clock] \in Operation
    BY <1>2, <1>3 DEF Operation, Shape
  <2>2. operations' = [operations EXCEPT ![o] = [operations[o] EXCEPT !.status = to, !.finished = clock]]
    BY <1>1, <1>2 DEF Finalize
  <2> QED BY <2>1, <2>2
<1>5. /\ operations' \in Seq(Operation) /\ Len(operations') = Len(operations)
      /\ DOMAIN operations' = DOMAIN operations /\ operations'[o] = op
      /\ \A p \in DOMAIN operations : p # o => operations'[p] = operations[p]
  BY <1>2, <1>4, Changes
<1>6. /\ operations'[o].status = to /\ operations'[o].finished = clock
      /\ operations'[o].started = operations[o].started
  BY <1>2, <1>4, <1>5 DEF Operation
<1>7. Kept
  BY <1>2, <1>4, <1>5, Lengths DEF Kept, Operation
<1>8. PICK e \in Entry : e.event = kind /\ e.operation = o /\ e = Event(kind, o) /\ log' = Append(log, e)
  <2>1. Event(kind, o) \in Entry
    BY <1>2, <1>3 DEF Event, Entry
  <2> QED BY <1>1, <2>1 DEF Finalize, Event
<1>9. /\ log' \in Seq(Entry) /\ DOMAIN log' = DOMAIN log \cup {Len(log) + 1} /\ log'[Len(log) + 1] = e
      /\ \A k \in DOMAIN log : log'[k] = log[k]
  BY <1>2, <1>8, Logs
<1>10. /\ UNCHANGED <<clock, skew, steps, status, alive, tickets, mutations>> /\ current' = 0 /\ committed' = FALSE
       /\ ~Closed /\ ~Closed'
  BY DEF Finalize, run, data, Closed
<1>11. /\ \A event \in EndEvents : ~Logged(event, o)
       /\ ~Logged("looked", o) /\ ~Learned(o)
  <2>1. \A event \in EndEvents : ~Logged(event, o)
    BY <1>2 DEF OracleInv, LogComplete
  <2>2. ~Logged("looked", o)
    BY <2>1 DEF OracleInv, Ends, EndedAs, EndEvents
  <2>3. operations[o].status # "succeeded"
    BY <1>2 DEF Waiting
  <2> QED BY <2>1, <2>2, <2>3 DEF OracleInv, Ends, EndedAs
<1>12. /\ \A event, p : Logged(event, p)' <=> Logged(event, p) \/ (event = kind /\ p = o)
       /\ \A p : Learned(p)' <=> Learned(p) \/ (p = o /\ kind = "answered")
  <2>1. \A event, p : e = Event(event, p) <=> event = kind /\ p = o
    BY <1>8 DEF Event
  <2>2. \A event, p : Logged(event, p)' <=> Logged(event, p) \/ e = Event(event, p)
    BY <1>2, <1>8, LogsSay
  <2>3. \A p : Learned(p)' <=> \/ Learned(p)
                               \/ /\ e \in {Event("answered", p), Event("looked", p)}
                                  /\ Logged("took_effect", p)
    BY <1>2, <1>8, LogsSay
  <2> QED BY <1>1, <1>3, <2>1, <2>2, <2>3
<1>13. Shape' /\ Transactions'
  <2>1. Shape'
    BY <1>2, <1>5, <1>7, <1>8, <1>9, <1>10 DEF Shape
  <2>2. \A l \in late' : /\ l.operation \in DOMAIN operations' /\ operations'[l.operation].tool \in Writes
                         /\ operations'[l.operation].tool = "create" => l.ticket = l.operation
    BY <1>7 DEF Kept
  <2>3. Transactions'
    BY <1>10, <2>2 DEF Transactions
  <2> QED BY <2>1, <2>3
<1>14. ASSUME NEW p \in DOMAIN operations'
       PROVE  Timed(p)'
  <2>1. CASE p = o
    <3>1. /\ operations[o].created <= clock + skew /\ clock \in Nat /\ Never \notin Int
          /\ operations[o].started = Never \/ operations[o].started <= clock
      BY <1>2, BoundsAssumption DEF OracleInv, Timed, Waiting, Shape
    <3> QED BY <1>3, <1>5, <1>6, <1>7, <1>10, <2>1, <3>1 DEF Timed, Kept
  <2>2. CASE p # o
    BY <1>5, <1>10, <2>2 DEF OracleInv, Timed
  <2> QED BY <2>1, <2>2
<1>15. LogOrdered' /\ StepsGrow' /\ CallCounts'
  <2>1. ASSUME NEW k \in DOMAIN log, log[k].event \in Marks
        PROVE  \/ log[k].operation < e.operation
               \/ log[k].operation = e.operation /\ log[k].event = "tool_called" /\ e.event # "tool_called"
    <3>1. CASE log[k].operation = o
      <4>1. log[k].event \notin EndEvents
        BY <1>2, <1>11, <3>1, LoggedIs
      <4> QED BY <1>3, <1>8, <2>1, <3>1, <4>1 DEF Marks
    <3>2. CASE log[k].operation # o
      BY <1>2, <1>8, <3>2
    <3> QED BY <3>1, <3>2
  <2>2. LogOrdered'
    BY <1>2, <1>8, <2>1, OrderKept DEF OracleInv
  <2>3. CallCounts'
    BY <1>2, <1>3, <1>7, <1>8, CallCountsKept DEF OracleInv
  <2> QED BY <1>7, <1>10, <2>2, <2>3, StepsKept DEF OracleInv
<1>16. LogComplete'
  <2> SUFFICES ASSUME NEW p \in DOMAIN operations
               PROVE  /\ Logged("tool_called", p)'
                      /\ operations'[p].status \notin Waiting <=> \E event \in EndEvents : Logged(event, p)'
    BY <1>5, Zenon DEF LogComplete
  <2>1. Logged("tool_called", p)'
    BY <1>12 DEF OracleInv, LogComplete
  <2>2. CASE p = o
    BY <1>3, <1>6, <1>12, <2>1, <2>2
  <2>3. CASE p # o
    <3>1. operations[p].status \notin Waiting <=> \E event \in EndEvents : Logged(event, p)
      BY DEF OracleInv, LogComplete
    <3> QED BY <1>5, <1>12, <2>1, <2>3, <3>1
  <2> QED BY <2>2, <2>3
<1>17. Ends'
  <2>1. \A p : Decided(p)' <=> Closed' \/ Logged("looked", p)'
    BY DEF Decided, Logged, Event
  <2>2. \A p : (Decided(p)' <=> Logged("looked", p)) /\ (Decided(p) <=> Logged("looked", p))
    BY <1>3, <1>10, <1>12, <2>1, DecidedIs
  <2>3. EndedAs(o)'
    <3>1. /\ ~Logged("answered", o) /\ ~Logged("raised", o) /\ ~Logged("tool_rejected", o) /\ ~Logged("timed_out", o)
          /\ ~Logged("looked", o)
      BY <1>11 DEF EndEvents
    <3>2. operations'[o].tool = operations[o].tool
      BY <1>7 DEF Kept
    <3>3. Logged("timed_out", o)' => operations[o].tool \in Writes
      BY <1>1, <1>12, <3>1
    <3> QED BY <1>3, <1>6, <1>11, <1>12, <2>2, <3>1, <3>2, <3>3 DEF EndedAs
  <2>4. ASSUME NEW p \in DOMAIN operations, p # o
        PROVE  EndedAs(p)'
    BY <1>5, <1>12, <2>2, <2>4 DEF OracleInv, Ends, EndedAs
  <2> QED BY <1>5, <2>3, <2>4 DEF Ends
<1>18. Evidence'
  <2>1. ASSUME NEW p \in DOMAIN operations, NEW t
        PROVE  Left(p, t)' <=> Left(p, t)
    BY <1>3, <1>7, <1>12 DEF Left, Kept
  <2> QED BY <1>5, <1>10, <2>1 DEF OracleInv, Evidence
<1> QED BY <1>13, <1>14, <1>15, <1>16, <1>17, <1>18 DEF OracleInv

\* An unknown outcome is found out.
LEMMA RecoverKeeps ==
  ASSUME OracleInv, NEW o \in DOMAIN operations, Recover(o)
  PROVE  OracleInv'
<1>1. operations[o] \in Operation /\ Shape /\ operations[o].status = "unknown" /\ o \in Nat
  BY Lengths DEF OracleInv, Recover
<1>2. /\ UNCHANGED <<clock, skew, steps, current, committed, late, status, alive, tickets, mutations>>
      /\ ~Closed /\ ~Closed'
  BY <1>1 DEF Recover, run, data, Closed, Shape
<1>3. /\ Logged("timed_out", o) /\ operations[o].tool \in Writes
      /\ ~Logged("answered", o) /\ ~Logged("raised", o) /\ ~Logged("tool_rejected", o) /\ ~Learned(o)
  <2>1. /\ ~Logged("answered", o) /\ ~Logged("raised", o) /\ ~Logged("tool_rejected", o) /\ ~Learned(o)
    BY <1>1 DEF OracleInv, Ends, EndedAs
  <2>2. \E event \in EndEvents : Logged(event, o)
    BY <1>1 DEF OracleInv, LogComplete, Waiting
  <2>3. Logged("timed_out", o)
    BY <2>1, <2>2 DEF EndEvents
  <2> QED BY <2>1, <2>3 DEF OracleInv, Ends, EndedAs
<1>4. PICK to \in {"succeeded", "failed"} :
        /\ to = "succeeded" <=> Logged("took_effect", o)
        /\ operations' = [operations EXCEPT ![o].status = to]
  <2> DEFINE found == \E r \in IF operations[o].tool = "create" THEN tickets ELSE mutations : r.id = o
  <2>1. found <=> Left(o, operations[o].tool)
    BY <1>3 DEF OracleInv, Evidence, Writes
  <2>2. found <=> Logged("took_effect", o)
    BY <2>1 DEF Left
  <2>3. operations' = [operations EXCEPT ![o].status = IF found THEN "succeeded" ELSE "failed"]
    BY DEF Recover
  <2> HIDE DEF found
  <2> QED BY <2>2, <2>3
<1>5. PICK op \in Operation : /\ operations' = [operations EXCEPT ![o] = op]
                              /\ op = [operations[o] EXCEPT !.status = to]
  <2>1. [operations[o] EXCEPT !.status = to] \in Operation
    BY <1>1 DEF Operation
  <2>2. operations' = [operations EXCEPT ![o] = [operations[o] EXCEPT !.status = to]]
    BY <1>4
  <2> QED BY <2>1, <2>2
<1>6. /\ operations' \in Seq(Operation) /\ Len(operations') = Len(operations)
      /\ DOMAIN operations' = DOMAIN operations /\ operations'[o] = op
      /\ \A p \in DOMAIN operations : p # o => operations'[p] = operations[p]
  BY <1>1, <1>5, Changes
<1>7. /\ operations'[o].status = to /\ operations'[o].started = operations[o].started
      /\ operations'[o].finished = operations[o].finished
  BY <1>1, <1>5, <1>6 DEF Operation
<1>8. Kept
  BY <1>1, <1>5, <1>6, Lengths DEF Kept, Operation
<1>9. PICK e \in Entry : e.event = "looked" /\ e.operation = o /\ e = Event("looked", o) /\ log' = Append(log, e)
  <2>1. Event("looked", o) \in Entry
    BY <1>1 DEF Event, Entry
  <2> QED BY <2>1 DEF Recover, Event
<1>10. /\ log' \in Seq(Entry) /\ DOMAIN log' = DOMAIN log \cup {Len(log) + 1} /\ log'[Len(log) + 1] = e
       /\ \A k \in DOMAIN log : log'[k] = log[k]
  BY <1>1, <1>9, Logs
<1>11. /\ \A event, p : Logged(event, p)' <=> Logged(event, p) \/ (event = "looked" /\ p = o)
       /\ \A p : Learned(p)' <=> Learned(p) \/ (p = o /\ Logged("took_effect", o))
  <2>1. \A event, p : e = Event(event, p) <=> event = "looked" /\ p = o
    BY <1>9 DEF Event
  <2>2. \A event, p : Logged(event, p)' <=> Logged(event, p) \/ e = Event(event, p)
    BY <1>1, <1>9, LogsSay
  <2>3. \A p : Learned(p)' <=> \/ Learned(p)
                               \/ /\ e \in {Event("answered", p), Event("looked", p)}
                                  /\ Logged("took_effect", p)
    BY <1>1, <1>9, LogsSay
  <2> QED BY <2>1, <2>2, <2>3
<1>12. Shape' /\ Transactions'
  <2>1. Shape'
    BY <1>1, <1>2, <1>6, <1>7, <1>8, <1>9, <1>10 DEF Shape, Waiting, Kept
  <2>2. Transactions'
    BY <1>2, <1>8, <1>11 DEF OracleInv, Transactions, Kept
  <2> QED BY <2>1, <2>2
<1>13. ASSUME NEW p \in DOMAIN operations'
       PROVE  Timed(p)'
  <2>1. CASE p = o
    BY <1>1, <1>2, <1>7, <1>8, <2>1 DEF OracleInv, Timed, Waiting, Kept
  <2>2. CASE p # o
    BY <1>2, <1>6, <2>2 DEF OracleInv, Timed
  <2> QED BY <2>1, <2>2
<1>14. LogOrdered' /\ StepsGrow' /\ CallCounts'
  <2>1. e.event \notin Marks /\ e.event \notin CallEvents
    BY <1>9 DEF Marks, EndEvents, CallEvents
  <2>2. LogOrdered'
    BY <1>1, <1>9, <2>1, OrderKept DEF OracleInv
  <2>3. CallCounts'
    BY <1>1, <1>8, <1>9, <2>1, CallCountsKept DEF OracleInv
  <2> QED BY <1>2, <1>8, <2>2, <2>3, StepsKept DEF OracleInv
<1>15. LogComplete'
  <2>1. "looked" \notin EndEvents /\ "looked" # "tool_called"
    BY DEF EndEvents
  <2>2. \A p \in DOMAIN operations : operations'[p].status \in Waiting <=> operations[p].status \in Waiting
    BY <1>1, <1>6, <1>7 DEF Waiting
  <2> QED BY <1>6, <1>11, <2>1, <2>2 DEF OracleInv, LogComplete
<1>16. Ends'
  <2>1. \A p : Decided(p)' <=> Closed' \/ Logged("looked", p)'
    BY DEF Decided, Logged, Event
  <2>2. \A p : /\ Decided(p)' <=> Logged("looked", p) \/ p = o
               /\ Decided(p) <=> Logged("looked", p)
    BY <1>2, <1>11, <2>1, DecidedIs
  <2>3. operations'[o].tool = operations[o].tool
    BY <1>8 DEF Kept
  <2>4. \A p \in DOMAIN operations : p # o => operations'[p] = operations[p]
    BY <1>6
  <2> QED BY <1>3, <1>4, <1>6, <1>7, <1>11, <2>2, <2>3, <2>4 DEF OracleInv, Ends, EndedAs
<1>17. Evidence'
  <2>1. ASSUME NEW p \in DOMAIN operations, NEW t
        PROVE  Left(p, t)' <=> Left(p, t)
    BY <1>8, <1>11 DEF Left, Kept
  <2> QED BY <1>2, <1>6, <2>1 DEF OracleInv, Evidence
<1> QED BY <1>12, <1>13, <1>14, <1>15, <1>16, <1>17 DEF OracleInv

\* The reconciler ends the run.
LEMMA CloseKeeps ==
  ASSUME OracleInv, Close
  PROVE  OracleInv'
<1>1. /\ Shape /\ operations \in Seq(Operation) /\ Len(operations) \in Nat /\ DOMAIN operations = 1..Len(operations)
      /\ \A o \in DOMAIN operations : operations[o] \in Operation
      /\ clock \in Nat
  BY Lengths DEF OracleInv, Shape
<1>2. /\ UNCHANGED <<clock, skew, steps, current, committed, late, tickets, mutations, log>>
      /\ ~Closed /\ Closed'
      /\ \A o \in DOMAIN operations : operations[o].status \notin Waiting
  BY DEF Close, data, Closed, Waiting
<1>3. /\ DOMAIN operations' = DOMAIN operations
      /\ \A o \in DOMAIN operations :
           /\ operations[o].status # "unknown" => operations'[o] = operations[o]
           /\ operations[o].status = "unknown" =>
                operations'[o] = [operations[o] EXCEPT !.status = "failed", !.finished = clock]
  BY DEF Close
<1>4. \A o \in DOMAIN operations :
           /\ operations'[o] \in Operation
           /\ operations'[o].tool = operations[o].tool /\ operations'[o].step = operations[o].step
           /\ operations'[o].created = operations[o].created /\ operations'[o].started = operations[o].started
           /\ operations'[o].retries = operations[o].retries
           /\ operations'[o].status \notin Waiting \cup {"unknown"}
           /\ operations[o].status = "unknown" => /\ operations'[o].status = "failed"
                                                  /\ operations'[o].finished = clock
  <2> SUFFICES ASSUME NEW o \in DOMAIN operations
               PROVE  /\ operations'[o] \in Operation
                      /\ operations'[o].tool = operations[o].tool /\ operations'[o].step = operations[o].step
                      /\ operations'[o].created = operations[o].created
                      /\ operations'[o].started = operations[o].started
                      /\ operations'[o].retries = operations[o].retries
                      /\ operations'[o].status \notin Waiting \cup {"unknown"}
                      /\ operations[o].status = "unknown" => /\ operations'[o].status = "failed"
                                                             /\ operations'[o].finished = clock
    OBVIOUS
  <2>1. CASE operations[o].status # "unknown"
    BY <1>1, <1>2, <1>3, <2>1 DEF Waiting
  <2>2. CASE operations[o].status = "unknown"
    <3>1. operations[o] \in Operation
      BY <1>1
    <3>2. operations'[o] = [operations[o] EXCEPT !.status = "failed", !.finished = clock]
      BY <1>3, <2>2
    <3> QED BY <1>1, <3>1, <3>2 DEF Operation, Waiting
  <2> QED BY <2>1, <2>2
<1>5. Kept
  <2>1. operations' \in [1..Len(operations) -> Operation]
    <3>1. operations' = [o \in DOMAIN operations |-> operations'[o]]
      BY DEF Close
    <3> QED BY <1>1, <1>4, <3>1
  <2>2. operations' \in Seq(Operation) /\ Len(operations') = Len(operations)
    BY <1>1, <2>1, SeqDef, LenProperties
  <2> QED BY <1>3, <1>4, <2>2 DEF Kept
<1>6. \A o : (Learned(o)' <=> Learned(o)) /\ \A event : Logged(event, o)' <=> Logged(event, o)
  BY <1>2, LogSame
<1>7. Shape' /\ Transactions'
  <2>1. current = 0
    BY <1>1, <1>2 DEF Shape
  <2> QED BY <1>1, <1>2, <1>4, <1>5, <1>6, <2>1 DEF OracleInv, Shape, Transactions, Kept
<1>8. ASSUME NEW o \in DOMAIN operations'
      PROVE  Timed(o)'
  <2>1. CASE operations[o].status # "unknown"
    BY <1>2, <1>3, <2>1 DEF OracleInv, Timed
  <2>2. CASE operations[o].status = "unknown"
    <3>1. /\ operations[o].created <= clock + skew /\ Never \notin Int
          /\ operations[o].started # Never => operations[o].started <= clock
      BY <1>3, BoundsAssumption DEF OracleInv, Timed
    <3>2. clock' = clock /\ skew' = skew /\ clock # Never /\ clock <= clock
      BY <1>1, <1>2, <3>1
    <3>3. /\ operations'[o].created = operations[o].created /\ operations'[o].started = operations[o].started
          /\ operations'[o].status \notin Waiting /\ operations'[o].finished = clock
      BY <1>3, <1>4, <2>2
    <3> QED BY <3>1, <3>2, <3>3 DEF Timed
  <2> QED BY <2>1, <2>2
<1>9. LogOrdered' /\ StepsGrow' /\ CallCounts'
  BY <1>1, <1>2, <1>5, StepsKept, CallCountsKept DEF OracleInv, LogOrdered
<1>10. LogComplete'
  BY <1>2, <1>3, <1>4, <1>6 DEF OracleInv, LogComplete
<1>11. Ends'
  <2>1. \A p : Decided(p)'
    BY <1>2 DEF Decided
  <2>2. ASSUME NEW p \in DOMAIN operations
        PROVE  EndedAs(p)'
    <3>1. EndedAs(p)
      BY DEF OracleInv, Ends
    <3>2. operations'[p].tool = operations[p].tool /\ operations'[p].status # "unknown" /\ Decided(p)'
      BY <1>4, <2>1
    <3>3. CASE operations[p].status # "unknown"
      <4>1. operations'[p] = operations[p]
        BY <1>3, <3>3
      <4> QED BY <1>6, <3>1, <3>2, <3>3, <4>1 DEF EndedAs
    <3>4. CASE operations[p].status = "unknown"
      <4>1. operations'[p].status = "failed"
        BY <1>4, <3>4
      <4> QED BY <1>6, <3>1, <3>2, <3>4, <4>1 DEF EndedAs
    <3> QED BY <3>3, <3>4
  <2> QED BY <1>3, <2>2 DEF Ends
<1>12. Evidence'
  <2>1. ASSUME NEW p \in DOMAIN operations, NEW t
        PROVE  Left(p, t)' <=> Left(p, t)
    BY <1>4, <1>6 DEF Left
  <2> QED BY <1>2, <1>3, <2>1 DEF OracleInv, Evidence
<1> QED BY <1>7, <1>8, <1>9, <1>10, <1>11, <1>12 DEF OracleInv

\* Neither the operations change, nor the log, nor what the tools have left.
LEMMA OthersKeep ==
  ASSUME OracleInv, UNCHANGED <<skew, steps, operations, tickets, mutations, log>>,
         clock' \in {clock, clock + 1}, current' \in {0, current}, Closed' <=> Closed, Transactions'
  PROVE  OracleInv'
<1>1. Shape'
  BY DEF OracleInv, Shape
<1>2. StepsGrow' /\ LogOrdered'
  BY DEF OracleInv, StepsGrow, LogOrdered
<1>3. ASSUME NEW o \in DOMAIN operations'
      PROVE  Timed(o)'
  <2>1. /\ o \in DOMAIN operations /\ operations[o] \in Operation /\ clock \in Nat /\ skew \in Nat /\ Never \notin Int
    BY Lengths, BoundsAssumption DEF OracleInv, Shape
  <2>2. /\ Timed(o) /\ operations[o].created \in Nat
    BY <2>1 DEF OracleInv, Operation
  <2> QED BY <2>1, <2>2 DEF Timed, Operation
<1>4. \A o : (Learned(o)' <=> Learned(o)) /\ \A event : Logged(event, o)' <=> Logged(event, o)
  BY LogSame
<1>5. LogComplete'
  BY <1>4 DEF OracleInv, LogComplete
<1>6. Ends'
  <2>1. \A p : Decided(p)' <=> Closed' \/ Logged("looked", p)'
    BY DEF Decided, Logged, Event
  <2>2. \A p : Decided(p)' <=> Decided(p)
    BY <1>4, <2>1, DecidedIs
  <2> QED BY <1>4, <2>2 DEF OracleInv, Ends, EndedAs
<1>7. Evidence'
  BY <1>4 DEF OracleInv, Evidence, Left
<1>8. CallCounts'
  <2>1. Kept
    BY Lengths DEF OracleInv, Shape, Kept
  <2> QED BY <2>1, CallCountsKept DEF OracleInv
<1> QED BY <1>1, <1>2, <1>3, <1>5, <1>6, <1>7, <1>8 DEF OracleInv

\* A COMMIT under way.
LEMMA LandKeeps ==
  ASSUME OracleInv, NEW l \in late, Land(l)
  PROVE  OracleInv'
<1>1. /\ l.operation \in DOMAIN operations /\ operations[l.operation].tool \in Writes
      /\ operations[l.operation].tool = "create" => l.ticket = l.operation
  BY DEF OracleInv, Transactions
<1>2. UNCHANGED <<operations, clock, skew, steps, status, alive, current, committed>> /\ late' \subseteq late
  BY DEF Land, run
<1>3. CASE Effect(l.operation, l.ticket) /\ log' = Append(log, Event("took_effect", l.operation))
  <2>1. Transactions'
    <3>1. Event("took_effect", l.operation) \in Entry
      BY <1>1, Lengths DEF OracleInv, Event, Entry
    <3>2. Logged("took_effect", current) => Logged("took_effect", current)'
      BY <1>2, <1>3, <3>1, LogsSay DEF OracleInv
    <3> QED BY <1>2, <3>2 DEF OracleInv, Transactions
  <2> QED BY <1>1, <1>2, <1>3, <2>1, TakesEffect
<1>4. CASE UNCHANGED <<data, log>>
  <2>1. Transactions'
    BY <1>2, <1>4 DEF OracleInv, Transactions, Logged
  <2>2. Closed' <=> Closed
    BY <1>2 DEF Closed
  <2>3. clock' \in {clock, clock + 1} /\ UNCHANGED <<tickets, mutations>>
    BY <1>2, <1>4 DEF data
  <2> QED BY <1>2, <1>4, <2>1, <2>2, <2>3, OthersKeep
<1> QED BY <1>3, <1>4 DEF Land

\* The ledger has no answer, the process dies, the run ends, time passes, or nothing happens.
LEMMA RestKeeps ==
  ASSUME OracleInv,
         \/ LedgerFails \/ Crash \/ Tick \/ UNCHANGED vars
         \/ \E to \in {"succeeded", "failed"} : End(to)
  PROVE  OracleInv'
<1>1. CASE LedgerFails \/ Crash
  <2>1. /\ Vanish
        /\ Closed' <=> Closed
    BY <1>1 DEF LedgerFails, Crash, Vanish, run, Closed
  <2>2. /\ UNCHANGED <<clock, skew, steps, operations, tickets, mutations, log>>
        /\ current' = 0 /\ committed' = FALSE
        /\ IF Executing THEN Leave ELSE UNCHANGED late
    BY <2>1 DEF Vanish, run, data
  <2>3. \A l \in late' : /\ l.operation \in DOMAIN operations /\ operations[l.operation].tool \in Writes
                         /\ operations[l.operation].tool = "create" => l.ticket = l.operation
    BY <2>2, LeaveKeeps DEF OracleInv, Transactions
  <2>4. Transactions'
    BY <2>2, <2>3 DEF Transactions
  <2> QED BY <2>1, <2>2, <2>4, OthersKeep
<1>2. CASE \/ Tick \/ UNCHANGED vars \/ \E to \in {"succeeded", "failed"} : End(to)
  <2>1. /\ UNCHANGED <<skew, steps, operations, tickets, mutations, log, current, committed, late>>
        /\ clock' \in {clock, clock + 1}
    BY <1>2 DEF Tick, End, vars, run, data
  <2>2. Closed' <=> Closed
    BY <1>2 DEF Tick, End, Ready, vars, run, Closed
  <2>3. Transactions'
    BY <2>1 DEF OracleInv, Transactions, Logged
  <2> QED BY <2>1, <2>2, <2>3, OthersKeep
<1> QED BY <1>1, <1>2

-----------------------------------------------------------------------------
(* Every step keeps the invariant.                                         *)

\* The rows and the log fit each other in every state.
LEMMA OracleInvariant == Spec => []OracleInv
<1>1. Init => OracleInv
  BY InitKeeps
<1>2. ASSUME OracleInv, [Next]_vars
      PROVE  OracleInv'
  <2>1. CASE \E tool \in Tools : Call(tool)
    BY <1>2, <2>1, CallKeeps
  <2>2. CASE \E o \in DOMAIN operations : Replay(o) \/ Recover(o)
    BY <1>2, <2>2, ReplayKeeps, RecoverKeeps
  <2>3. CASE Start \/ Commit
    BY <1>2, <2>3, StartKeeps, CommitKeeps
  <2>4. CASE Succeed
    <3>1. /\ alive /\ current # 0 /\ Finalize("succeeded", "answered") /\ UNCHANGED late
          /\ <<"succeeded", "answered">> \in Outcomes /\ "answered" # "timed_out"
      BY <2>4 DEF Succeed, Executing, Outcomes
    <3>2. Logged("took_effect", current)
      BY <1>2, <2>4 DEF Succeed, OracleInv, Transactions
    <3>3. \A l \in late' : /\ l.operation \in DOMAIN operations /\ operations[l.operation].tool \in Writes
                           /\ operations[l.operation].tool = "create" => l.ticket = l.operation
      BY <1>2, <3>1 DEF OracleInv, Transactions
    <3> QED BY <1>2, <3>1, <3>2, <3>3, FinalizeKeeps
  <2>5. CASE Fail
    <3>1. /\ alive /\ current # 0 /\ Finalize("failed", "raised") /\ Executing /\ Leave
          /\ <<"failed", "raised">> \in Outcomes /\ "raised" # "answered" /\ "raised" # "timed_out"
      BY <2>5 DEF Fail, Executing, Outcomes
    <3> QED BY <1>2, <3>1, LeaveKeeps, FinalizeKeeps
  <2>6. CASE TimeOut
    <3>1. /\ alive /\ current # 0 /\ Finalize("unknown", "timed_out") /\ Executing /\ Leave
          /\ operations[current].tool \in Writes
          /\ <<"unknown", "timed_out">> \in Outcomes /\ "timed_out" # "answered"
      BY <2>6 DEF TimeOut, Executing, Outcomes
    <3> QED BY <1>2, <3>1, LeaveKeeps, FinalizeKeeps
  <2>7. CASE \E to \in {"rejected", "failed"} : Refuse(to)
    <3>1. PICK to \in {"rejected", "failed"} : Refuse(to)
      BY <2>7
    <3>2. PICK kind : kind = IF to = "rejected" THEN "tool_rejected" ELSE "raised"
      OBVIOUS
    <3>3. /\ alive /\ current # 0 /\ Finalize(to, kind) /\ UNCHANGED late
      BY <3>1, <3>2 DEF Refuse
    <3>4. <<to, kind>> \in Outcomes /\ kind # "answered" /\ kind # "timed_out"
      BY <3>2 DEF Outcomes
    <3>5. \A l \in late' : /\ l.operation \in DOMAIN operations /\ operations[l.operation].tool \in Writes
                           /\ operations[l.operation].tool = "create" => l.ticket = l.operation
      BY <1>2, <3>3 DEF OracleInv, Transactions
    <3> QED BY <1>2, <3>3, <3>4, <3>5, FinalizeKeeps
  <2>8. CASE Close
    BY <1>2, <2>8, CloseKeeps
  <2>9. CASE \E l \in late : Land(l)
    BY <1>2, <2>9, LandKeeps
  <2>10. CASE \/ LedgerFails \/ Crash \/ Tick \/ UNCHANGED vars
              \/ \E to \in {"succeeded", "failed"} : End(to)
    BY <1>2, <2>10, RestKeeps
  <2> QED BY <1>2, <2>1, <2>2, <2>3, <2>4, <2>5, <2>6, <2>7, <2>8, <2>9, <2>10 DEF Next
<1> QED BY <1>1, <1>2, PTL DEF Spec

-----------------------------------------------------------------------------
(* The trace oracle.                                                       *)

\* An operation has an outcome.
Final(o) == operations[o].status \in DOMAIN TerminalEvents

\* The operations that have an event a reference may mean, and their entries in the log.
Named(ref) ==
  {o \in DOMAIN operations :
     /\ operations[o].tool = ref.tool
     /\ ref.event = "tool_called" \/ (Final(o) /\ TerminalEvents[operations[o].status] = ref.event)}

Matching(ref) == {k \in DOMAIN log : operations[log[k].operation].tool = ref.tool /\ Happened[k] = ref.event}

\* What an entry is for the oracles, by what has become of its operation.
LEMMA EventOfIs ==
  ASSUME OracleInv, NEW k \in DOMAIN log, NEW o, o = log[k].operation
  PROVE  /\ o \in DOMAIN operations
         /\ log[k].event \in CallEvents => Happened[k] = log[k].event
         /\ log[k].event \in EndEvents =>
              Happened[k] = IF Final(o) THEN TerminalEvents[operations[o].status] ELSE "none"
         /\ log[k].event \notin CallEvents \cup EndEvents => Happened[k] = "none"
<1>1. /\ log[k] \in Entry /\ o \in DOMAIN operations /\ Happened[k] = EventOf(k) /\ EndedAs(o)
      /\ operations[o].status \in Waiting \cup {"succeeded", "failed", "rejected", "unknown"}
  BY Lengths DEF OracleInv, Shape, Ends, Happened, Operation
<1>2. Logged(log[k].event, o)
  BY <1>1, LoggedIs DEF OracleInv
<1>3. log[k].event \in CallEvents => EventOf(k) = log[k].event
  BY DEF EventOf, TraceEvents, CallEvents
<1>4. CASE log[k].event = "tool_rejected"
  <2>1. EventOf(k) = "tool_rejected"
    BY <1>4 DEF EventOf, TraceEvents
  <2>2. operations[o].status = "rejected"
    BY <1>1, <1>2, <1>4 DEF EndedAs
  <2> QED BY <1>1, <1>4, <2>1, <2>2 DEF Final, TerminalEvents, CallEvents, EndEvents
<1>5. CASE log[k].event \in {"answered", "raised"}
  <2>1. EventOf(k) = IF Learned(o) THEN "tool_succeeded" ELSE "tool_failed"
    BY <1>5 DEF EventOf, TraceEvents
  <2>2. operations[o].status = IF Learned(o) THEN "succeeded" ELSE "failed"
    BY <1>1, <1>2, <1>5 DEF EndedAs
  <2> QED BY <1>1, <1>5, <2>1, <2>2 DEF Final, TerminalEvents, CallEvents, EndEvents
<1>6. CASE log[k].event = "timed_out"
  <2>1. EventOf(k) = IF Decided(o) THEN (IF Learned(o) THEN "tool_succeeded" ELSE "tool_failed") ELSE "none"
    BY <1>6 DEF EventOf, TraceEvents
  <2>2. /\ operations[o].status \in {"unknown", "succeeded", "failed"}
        /\ operations[o].status = "unknown" <=> ~Decided(o)
        /\ operations[o].status = "succeeded" <=> Learned(o)
    BY <1>1, <1>2, <1>6 DEF EndedAs
  <2> QED BY <1>1, <1>6, <2>1, <2>2 DEF Final, TerminalEvents, CallEvents, EndEvents
<1>7. CASE log[k].event \notin CallEvents \cup EndEvents
  <2>1. EventOf(k) = "none"
    BY <1>1, <1>7 DEF EventOf, TraceEvents, CallEvents, EndEvents, Entry
  <2> QED BY <1>1, <1>7, <2>1
<1> QED BY <1>1, <1>3, <1>4, <1>5, <1>6, <1>7 DEF EndEvents

\* The entries a reference may mean, in the order of their operations.
LEMMA MatchingNamed ==
  ASSUME OracleInv, NEW ref \in TemporalReferences
  PROVE  /\ \A k \in Matching(ref) : log[k].operation \in Named(ref)
         /\ \A o \in Named(ref) : \E k \in Matching(ref) : log[k].operation = o
         /\ \A j, k \in Matching(ref) : j < k => log[j].operation < log[k].operation
         /\ \A k \in Matching(ref) : /\ k \in DOMAIN log /\ log[k].event \in Marks
                                     /\ ref.event = "tool_called" <=> log[k].event = "tool_called"
<1>1. /\ ref.event \in TemporalEvents
      /\ \A k \in DOMAIN log : log[k] \in Entry /\ log[k].operation \in DOMAIN operations /\ k \in Nat
  BY Lengths DEF OracleInv, Shape, TemporalReferences
<1>2. ASSUME NEW k \in DOMAIN log
      PROVE  /\ Happened[k] = "tool_called" <=> log[k].event = "tool_called"
             /\ Happened[k] \in TemporalEvents /\ Happened[k] # "tool_called" =>
                  /\ log[k].event \in EndEvents /\ Final(log[k].operation)
                  /\ TerminalEvents[operations[log[k].operation].status] = Happened[k]
             /\ log[k].event \in EndEvents /\ Final(log[k].operation) =>
                  Happened[k] = TerminalEvents[operations[log[k].operation].status]
  <2>1. CASE log[k].event \in CallEvents
    BY <2>1, EventOfIs DEF CallEvents, EndEvents, TemporalEvents, TraceEvents
  <2>2. CASE log[k].event \in EndEvents
    <3>1. "tool_called" \notin EndEvents /\ "none" \notin TemporalEvents /\ "none" # "tool_called"
          /\ \A to \in DOMAIN TerminalEvents : TerminalEvents[to] # "tool_called"
      BY DEF EndEvents, TemporalEvents, TraceEvents, TerminalEvents
    <3> QED BY <2>2, <3>1, EventOfIs DEF Final
  <2>3. CASE log[k].event \notin CallEvents \cup EndEvents
    <3>1. Happened[k] = "none" /\ "none" \notin TemporalEvents /\ "tool_called" \in CallEvents /\ "none" # "tool_called"
      BY <2>3, EventOfIs DEF CallEvents, TemporalEvents, TraceEvents
    <3> QED BY <2>3, <3>1
  <2> QED BY <2>1, <2>2, <2>3
<1>3. \A j, k \in DOMAIN log : j < k /\ log[j].event \in Marks /\ log[k].event \in Marks =>
        \/ log[j].operation < log[k].operation
        \/ log[j].event = "tool_called" /\ log[k].event # "tool_called"
  BY DEF OracleInv, LogOrdered
<1>4. CASE ref.event = "tool_called"
  <2>1. \A k \in Matching(ref) : k \in DOMAIN log /\ log[k].event = "tool_called" /\ "tool_called" \in Marks
    BY <1>2, <1>4 DEF Matching, Marks
  <2>2. ASSUME NEW o \in Named(ref)
        PROVE  \E k \in Matching(ref) : log[k].operation = o
    <3>1. o \in DOMAIN operations /\ operations[o].tool = ref.tool
      BY DEF Named
    <3>2. PICK k \in DOMAIN log : log[k].event = "tool_called" /\ log[k].operation = o
      BY <3>1, LoggedIs DEF OracleInv, LogComplete
    <3> QED BY <1>2, <1>4, <3>1, <3>2 DEF Matching
  <2>3. \A k \in Matching(ref) : log[k].operation \in Named(ref)
    BY <1>1, <1>4 DEF Matching, Named
  <2> QED BY <1>3, <1>4, <2>1, <2>2, <2>3
<1>5. CASE ref.event # "tool_called"
  <2>1. \A k \in Matching(ref) :
          /\ k \in DOMAIN log /\ log[k].event \in EndEvents /\ Final(log[k].operation)
          /\ TerminalEvents[operations[log[k].operation].status] = ref.event
          /\ log[k].event \in Marks /\ log[k].event # "tool_called"
    BY <1>1, <1>2, <1>5 DEF Matching, Marks, EndEvents
  <2>2. ASSUME NEW o \in Named(ref)
        PROVE  \E k \in Matching(ref) : log[k].operation = o
    <3>1. /\ o \in DOMAIN operations /\ Final(o) /\ TerminalEvents[operations[o].status] = ref.event
          /\ operations[o].tool = ref.tool
      BY <1>5 DEF Named
    <3>2. operations[o].status \notin Waiting
      BY <3>1 DEF Final, TerminalEvents, Waiting
    <3>3. PICK event \in EndEvents : Logged(event, o)
      BY <3>1, <3>2 DEF OracleInv, LogComplete
    <3>4. PICK k \in DOMAIN log : log[k].operation = o /\ log[k].event \in EndEvents
      BY <3>3, LoggedIs DEF OracleInv
    <3>5. Happened[k] = ref.event
      BY <1>2, <3>1, <3>4
    <3> QED BY <3>1, <3>4, <3>5 DEF Matching
  <2>3. \A k \in Matching(ref) : log[k].operation \in Named(ref)
    BY <1>1, <2>1 DEF Matching, Named
  <2> QED BY <1>3, <1>5, <2>1, <2>2, <2>3
<1> QED BY <1>4, <1>5

\* There are as many of the one as of the other.
LEMMA OutcomesCounted ==
  ASSUME OracleInv, NEW ref \in TemporalReferences, ref.event # "tool_called"
  PROVE  Cardinality(Events(ref.tool, ref.event)) = Cardinality(Matching(ref))
<1>1. ASSUME NEW x
      PROVE  x \in Events(ref.tool, ref.event) <=> \E o \in Named(ref) : x = <<o, 1>>
  <2>1. ASSUME NEW o \in DOMAIN operations
        PROVE  OperationEventCount(operations[o], ref.event) =
                 IF Final(o) /\ TerminalEvents[operations[o].status] = ref.event THEN 1 ELSE 0
    <3>1. ref.event # "tool_replayed"
      BY DEF TemporalReferences, TemporalEvents
    <3> QED BY <3>1 DEF OperationEventCount, Final
  <2>2. 1..1 = {1} /\ 1..0 = {}
    OBVIOUS
  <2> QED BY <2>1, <2>2, EventIn DEF Named
<1> DEFINE F == [k \in Matching(ref) |-> <<log[k].operation, 1>>]
<1>2. F \in Bijection(Matching(ref), Events(ref.tool, ref.event))
  <2>1. \A k \in Matching(ref) : F[k] \in Events(ref.tool, ref.event)
    BY <1>1, MatchingNamed
  <2>2. \A x \in Events(ref.tool, ref.event) : \E k \in Matching(ref) : F[k] = x
    BY <1>1, MatchingNamed
  <2>3. ASSUME NEW j \in Matching(ref), NEW k \in Matching(ref), F[j] = F[k]
        PROVE  j = k
    <3>1. log[j].operation = log[k].operation
      BY <2>3
    <3>2. log[j].operation \in Nat /\ j \in Nat /\ k \in Nat
      BY MatchingNamed, Lengths DEF OracleInv, Shape
    <3>3. ~(j < k) /\ ~(k < j)
      BY <3>1, <3>2, MatchingNamed
    <3> QED BY <3>2, <3>3
  <2> HIDE DEF F
  <2>4. F \in [Matching(ref) -> Events(ref.tool, ref.event)]
    BY <2>1 DEF F
  <2> QED BY <2>2, <2>3, <2>4, Fun_IsBij
<1>3. IsFiniteSet(Matching(ref))
  <2>1. Len(log) \in Nat /\ Matching(ref) \in SUBSET (1..Len(log))
    BY Lengths DEF OracleInv, Matching
  <2>2. IsFiniteSet(1..Len(log))
    BY <2>1, FS_Interval
  <2> QED BY <2>1, <2>2, FS_Subset
<1> QED BY <1>2, <1>3, FS_Bijection DEF ExistsBijection

\* What count_trace_event returns.
LEMMA CountIsCardinality ==
  ASSUME NEW tool, NEW event
  PROVE  CountTraceEvent([tool |-> tool, event |-> event]) = Cardinality(Events(tool, event))
BY DEF CountTraceEvent, Events

\* For each tool and each event, the trace oracle counts from the rows of the operations what the
\* history of the run says happened, whatever the process, the ledger and the server have done:
\* repeated calls, late verdicts and those of the reconciler included, without an exception
\* (operation_event_count, count_trace_event).
THEOREM TraceIsCounted == Spec => []TraceMatchesHistory
<1>1. ASSUME OracleInv, NEW tool \in Tools, NEW event \in TraceEvents
      PROVE  CountTraceEvent([tool |-> tool, event |-> event]) =
               Cardinality({k \in DOMAIN log :
                  /\ operations[log[k].operation].tool = tool
                  /\ Happened[k] \in {event} \cup IF event = "tool_called" THEN {"tool_replayed"} ELSE {}})
  <2> DEFINE Entries == {k \in DOMAIN log :
                  /\ operations[log[k].operation].tool = tool
                  /\ Happened[k] \in {event} \cup IF event = "tool_called" THEN {"tool_replayed"} ELSE {}}
  <2>1. CASE event \in CallEvents
    <3>1. ASSUME NEW k \in DOMAIN log
          PROVE  \A call \in CallEvents : Happened[k] = call <=> log[k].event = call
      <4>1. CallEvents \cap EndEvents = {} /\ "none" \notin CallEvents
            /\ \A to \in DOMAIN TerminalEvents : TerminalEvents[to] \notin CallEvents
        BY DEF CallEvents, EndEvents, TerminalEvents
      <4> QED BY <1>1, <4>1, EventOfIs DEF Final
    <3>2. "tool_replayed" \in CallEvents
      BY DEF CallEvents
    <3>3. ASSUME NEW k
          PROVE  k \in Entries <=> k \in CallEntries(tool, event)
      BY <2>1, <3>1, <3>2, CallEntryIn
    <3>4. Entries = CallEntries(tool, event)
      BY <3>3
    <3>5. SameCount(tool, event)
      BY <1>1, <2>1 DEF OracleInv, CallCounts
    <3> QED BY <3>4, <3>5, CountIsCardinality DEF SameCount
  <2>2. CASE event \notin CallEvents
    <3>1. PICK ref \in TemporalReferences : ref.tool = tool /\ ref.event = event
      <4>1. event \in TemporalEvents
        BY <2>2 DEF TemporalEvents, CallEvents
      <4>2. [event |-> event, tool |-> tool, occurrence |-> "first"] \in TemporalReferences
        BY <4>1 DEF TemporalReferences
      <4> QED BY <4>2
    <3>2. event # "tool_called"
      BY <2>2 DEF CallEvents
    <3>3. Entries = Matching(ref)
      BY <3>1, <3>2 DEF Matching
    <3>4. Cardinality(Events(tool, event)) = Cardinality(Matching(ref))
      BY <1>1, <3>1, <3>2, OutcomesCounted
    <3> QED BY <3>3, <3>4, CountIsCardinality
  <2> QED BY <2>1, <2>2
<1>2. OracleInv => TraceMatchesHistory
  BY <1>1, Zenon DEF TraceMatchesHistory
<1> QED BY <1>2, OracleInvariant, PTL

-----------------------------------------------------------------------------
(* The temporal oracle.                                                    *)

CalledAt(o) ==
  Occurrence(operations[o], "tool_called", Recorded(<<operations[o].started, operations[o].created>>), 0)

EndedAt(o) ==
  Occurrence(operations[o], TerminalEvents[operations[o].status],
             Recorded(<<operations[o].finished, operations[o].started, operations[o].created>>), 1)

At(o, event) == IF event = "tool_called" THEN CalledAt(o) ELSE EndedAt(o)

\* s is the one of S that a reference selects.
Extreme(s, S, ref) ==
  s \in S /\ \A p \in S : IF ref.occurrence = "first" THEN s <= p ELSE p <= s

\* Some operations have a first and a last one.
LEMMA ExtremeExists ==
  ASSUME NEW n \in Nat, NEW S, S \subseteq 1..n, S # {}, NEW ref
  PROVE  \E s : Extreme(s, S, ref)
<1>1. CASE ref.occurrence = "first"
  <2>1. S \subseteq Nat
    OBVIOUS
  <2>2. PICK s \in S : \A p \in S : <<p, s>> \notin OpToRel(<, Nat)
    BY <2>1, NatLessThanWellFounded, WFMin
  <2>3. \A p \in S : ~(p < s)
    BY <2>1, <2>2 DEF OpToRel
  <2> QED BY <1>1, <2>1, <2>3 DEF Extreme
<1>2. CASE ref.occurrence # "first"
  <2> DEFINE T == {k \in 0..n : n - k \in S}
  <2>1. T \subseteq Nat /\ T # {}
    <3>1. PICK s \in S : TRUE
      OBVIOUS
    <3>2. s \in 1..n /\ n - s \in 0..n /\ n - (n - s) = s
      OBVIOUS
    <3>3. n - s \in T
      BY <3>1, <3>2
    <3>4. T \subseteq Nat
      OBVIOUS
    <3> QED BY <3>3, <3>4
  <2>2. PICK t \in T : \A p \in T : <<p, t>> \notin OpToRel(<, Nat)
    <3> HIDE DEF T
    <3> QED BY <2>1, NatLessThanWellFounded, WFMin
  <2>3. \A p \in T : ~(p < t)
    BY <2>1, <2>2 DEF OpToRel
  <2>4. ASSUME NEW p \in S
        PROVE  p <= n - t
    <3>1. p \in 1..n /\ n - p \in 0..n /\ n - (n - p) = p
      OBVIOUS
    <3>2. ~(n - p < t)
      BY <2>3, <3>1
    <3> QED BY <3>1, <3>2
  <2> QED BY <1>2, <2>4 DEF Extreme
<1> QED BY <1>1, <1>2

\* The time of a call is that of its start, if it has started.
LEMMA RecordedCall ==
  ASSUME NEW started, NEW created
  PROVE  /\ started # Never => Recorded(<<started, created>>) = started
         /\ started = Never /\ created # Never => Recorded(<<started, created>>) = created
<1> DEFINE times == <<started, created>>
           P(k) == times[k] # Never /\ \A j \in 1..k - 1 : times[j] = Never
<1>1. DOMAIN times = {1, 2} /\ times[1] = started /\ times[2] = created
  OBVIOUS
<1>2. 1..1 - 1 = {} /\ 1..2 - 1 = {1}
  OBVIOUS
<1>3. /\ P(1) <=> started # Never
      /\ P(2) <=> created # Never /\ started = Never
  BY <1>1, <1>2
<1>4. Recorded(times) = times[CHOOSE k \in DOMAIN times : P(k)]
  BY DEF Recorded
<1> HIDE DEF P, times
<1>5. ASSUME NEW i \in {1, 2}, P(i), \A k \in {1, 2} : P(k) => k = i
      PROVE  (CHOOSE k \in DOMAIN times : P(k)) = i
  BY <1>1, <1>5
<1>6. started # Never => Recorded(times) = started
  BY <1>1, <1>3, <1>4, <1>5
<1>7. started = Never /\ created # Never => Recorded(times) = created
  BY <1>1, <1>3, <1>4, <1>5
<1> QED BY <1>6, <1>7 DEF times

\* The time of an end is recorded.
LEMMA RecordedEnd ==
  ASSUME NEW finished, NEW started, NEW created, finished # Never
  PROVE  Recorded(<<finished, started, created>>) = finished
<1> DEFINE times == <<finished, started, created>>
           P(k) == times[k] # Never /\ \A j \in 1..k - 1 : times[j] = Never
<1>1. DOMAIN times = {1, 2, 3} /\ times[1] = finished
  OBVIOUS
<1>2. 1..1 - 1 = {} /\ 1 \in 1..2 - 1 /\ 1 \in 1..3 - 1
  OBVIOUS
<1>3. P(1) /\ ~P(2) /\ ~P(3)
  BY <1>1, <1>2
<1>4. Recorded(times) = times[CHOOSE k \in DOMAIN times : P(k)]
  BY DEF Recorded
<1> HIDE DEF P, times
<1>5. (CHOOSE k \in DOMAIN times : P(k)) = 1
  BY <1>1, <1>3
<1> QED BY <1>1, <1>4, <1>5 DEF times

\* The occurrences, each with the operation it is from.
LEMMA OccurrenceIn ==
  ASSUME NEW x
  PROVE  x \in Occurrences <=>
           \E o \in DOMAIN operations : x = CalledAt(o) \/ (Final(o) /\ x = EndedAt(o))
BY DEF Occurrences, CalledAt, EndedAt, Final

\* The occurrences a reference may mean are those of the operations it may mean.
LEMMA OccurrencesNamed ==
  ASSUME NEW ref, ref.event \in TemporalEvents, NEW x
  PROVE  x \in Occurrences /\ x.event = ref.event /\ x.tool = ref.tool
           <=> \E o \in Named(ref) : x = At(o, ref.event)
<1>1. \A o \in DOMAIN operations : CalledAt(o).event = "tool_called" /\ CalledAt(o).tool = operations[o].tool
  BY DEF CalledAt, Occurrence
<1>2. \A o \in DOMAIN operations : Final(o) =>
        /\ EndedAt(o).event = TerminalEvents[operations[o].status] /\ EndedAt(o).tool = operations[o].tool
        /\ TerminalEvents[operations[o].status] # "tool_called"
  BY DEF EndedAt, Occurrence, Final, TerminalEvents
<1>3. CASE ref.event = "tool_called"
  BY <1>1, <1>2, <1>3, OccurrenceIn DEF Named, At
<1>4. CASE ref.event # "tool_called"
  BY <1>1, <1>2, <1>4, OccurrenceIn DEF Named, At
<1> QED BY <1>3, <1>4

\* The positions of two operations are in their order, those of one by its times.
LEMMA StepDecides ==
  ASSUME OracleInv, NEW o \in DOMAIN operations, NEW p \in DOMAIN operations, o < p, NEW e, NEW f
  PROVE  /\ Precedes(At(o, e).position, At(p, f).position)
         /\ ~Precedes(At(p, f).position, At(o, e).position)
<1> DEFINE a == At(o, e).position
           b == At(p, f).position
<1>1. a[1] = operations[o].step /\ b[1] = operations[p].step
  BY DEF At, CalledAt, EndedAt, Occurrence
<1>2. a[1] \in Nat /\ b[1] \in Nat /\ a[1] < b[1]
  BY <1>1, Lengths DEF OracleInv, StepsGrow, Operation
<1> HIDE DEF a, b
<1>3. Precedes(a, b)
  <2>1. 1..1 - 1 = {}
    OBVIOUS
  <2> QED BY <1>2, <2>1 DEF Precedes
<1>4. ~Precedes(b, a)
  <2> SUFFICES ASSUME NEW k \in 1..4, b[k] < a[k], \A j \in 1..k - 1 : b[j] = a[j]
               PROVE  FALSE
    BY DEF Precedes
  <2>1. CASE k = 1
    BY <1>2, <2>1
  <2>2. CASE k # 1
    BY <1>2, <2>2
  <2> QED BY <2>1, <2>2
<1> QED BY <1>3, <1>4 DEF a, b

\* A call is before its end, by one clock.
LEMMA TimesDecide ==
  ASSUME OracleInv, NEW o \in DOMAIN operations, Final(o), operations[o].started # Never \/ skew = 0
  PROVE  /\ Precedes(CalledAt(o).position, EndedAt(o).position)
         /\ ~Precedes(EndedAt(o).position, CalledAt(o).position)
<1> DEFINE a == CalledAt(o).position
           b == EndedAt(o).position
           op == operations[o]
           called == Recorded(<<op.started, op.created>>)
           ended == Recorded(<<op.finished, op.started, op.created>>)
<1>1. /\ op \in Operation /\ op.status \notin Waiting /\ skew \in Nat /\ Timed(o)
      /\ op.created \in Nat /\ op.started \in Nat \cup {Never} /\ op.finished \in Nat \cup {Never}
      /\ op.id \in Nat /\ op.step \in Nat
  BY Lengths DEF OracleInv, Shape, Final, TerminalEvents, Waiting, Operation
<1>2. op.finished # Never /\ op.created # Never
  BY <1>1, BoundsAssumption DEF Timed
<1>3. ended = op.finished
  BY <1>2, RecordedEnd
<1>4. called \in Nat /\ called <= op.finished
  <2>1. CASE op.started # Never
    <3>1. called = op.started
      BY <2>1, RecordedCall
    <3> QED BY <1>1, <2>1, <3>1 DEF Timed
  <2>2. CASE op.started = Never
    <3>1. called = op.created /\ skew = 0
      BY <1>2, <2>2, RecordedCall
    <3> QED BY <1>1, <1>2, <3>1 DEF Timed
  <2> QED BY <2>1, <2>2
<1>5. /\ a[1] = op.step /\ a[2] = called /\ a[3] = op.id /\ a[4] = 0
      /\ b[1] = op.step /\ b[2] = op.finished /\ b[3] = op.id /\ b[4] = 1
  BY <1>3 DEF CalledAt, EndedAt, Occurrence
<1>6. op.finished \in Nat
  BY <1>1, <1>2
<1> HIDE DEF a, b, op, called, ended
<1>7. Precedes(a, b)
  <2>1. CASE called < op.finished
    BY <1>5, <2>1 DEF Precedes
  <2>2. CASE called = op.finished
    BY <1>5, <2>2 DEF Precedes
  <2> QED BY <1>4, <1>6, <2>1, <2>2
<1>8. ~Precedes(b, a)
  <2> SUFFICES ASSUME NEW k \in 1..4, b[k] < a[k], \A j \in 1..k - 1 : b[j] = a[j]
               PROVE  FALSE
    BY DEF Precedes
  <2>1. k = 1 \/ k = 2 \/ k = 3 \/ k = 4
    OBVIOUS
  <2> QED BY <1>1, <1>4, <1>5, <1>6, <2>1
<1> QED BY <1>7, <1>8 DEF a, b

\* What a reference selects.
LEMMA SelectedIs ==
  ASSUME OracleInv, NEW ref \in TemporalReferences
  PROVE  /\ Named(ref) = {} => Selected(Occurrences, ref) = {}
         /\ \A s : Extreme(s, Named(ref), ref) => Selected(Occurrences, ref) = {At(s, ref.event)}
<1> DEFINE M == {c \in Occurrences : c.event = ref.event /\ c.tool = ref.tool}
           Wins(c, d) == IF ref.occurrence = "first" THEN Precedes(c.position, d.position)
                                                     ELSE Precedes(d.position, c.position)
<1>1. ref.event \in TemporalEvents
  BY DEF TemporalReferences
<1>2. \A x : x \in M <=> \E o \in Named(ref) : x = At(o, ref.event)
  BY <1>1, OccurrencesNamed
<1>3. Selected(Occurrences, ref) = {c \in M : \A d \in M \ {c} : Wins(c, d)}
  BY DEF Selected
<1>4. \A o \in Named(ref) : o \in DOMAIN operations /\ o \in Nat
  BY Lengths DEF OracleInv, Named
<1>5. ASSUME NEW s, Extreme(s, Named(ref), ref), NEW p \in Named(ref), p # s
      PROVE  /\ Wins(At(s, ref.event), At(p, ref.event))
             /\ ~Wins(At(p, ref.event), At(s, ref.event))
  <2>1. CASE ref.occurrence = "first"
    <3>1. s < p
      BY <1>4, <1>5, <2>1 DEF Extreme
    <3> QED BY <1>4, <1>5, <2>1, <3>1, StepDecides DEF Extreme
  <2>2. CASE ref.occurrence # "first"
    <3>1. p < s
      BY <1>4, <1>5, <2>2 DEF Extreme
    <3> QED BY <1>4, <1>5, <2>2, <3>1, StepDecides DEF Extreme
  <2> QED BY <2>1, <2>2
<1> HIDE DEF M, Wins
<1>6. Named(ref) = {} => M = {}
  BY <1>2
<1>7. ASSUME NEW s, Extreme(s, Named(ref), ref)
      PROVE  \A x : x \in {c \in M : \A d \in M \ {c} : Wins(c, d)} <=> x = At(s, ref.event)
  <2>1. s \in Named(ref)
    BY <1>7 DEF Extreme
  <2>2. ASSUME NEW d \in M, d # At(s, ref.event)
        PROVE  Wins(At(s, ref.event), d) /\ ~Wins(d, At(s, ref.event))
    BY <1>2, <1>5, <1>7, <2>2
  <2> QED BY <1>2, <2>1, <2>2
<1> QED BY <1>3, <1>6, <1>7

\* The entry a reference means is the one of the operation it selects.
Index(ref) ==
  CHOOSE k \in Matching(ref) : \A j \in Matching(ref) : IF ref.occurrence = "first" THEN k <= j ELSE j <= k

\* That entry exists, and is the only one.
LEMMA IndexIs ==
  ASSUME OracleInv, NEW ref \in TemporalReferences, NEW s, Extreme(s, Named(ref), ref)
  PROVE  Index(ref) \in Matching(ref) /\ log[Index(ref)].operation = s
<1> DEFINE Best(k) == \A j \in Matching(ref) : IF ref.occurrence = "first" THEN k <= j ELSE j <= k
<1>1. /\ \A k \in Matching(ref) : k \in Nat /\ log[k].operation \in Nat
      /\ \A k \in Matching(ref) : log[k].operation \in Named(ref)
  BY MatchingNamed, Lengths DEF OracleInv, Matching, Named
<1>2. PICK k \in Matching(ref) : log[k].operation = s
  BY MatchingNamed DEF Extreme
<1>3. Best(k)
  <2> SUFFICES ASSUME NEW j \in Matching(ref)
               PROVE  IF ref.occurrence = "first" THEN k <= j ELSE j <= k
    OBVIOUS
  <2>1. IF ref.occurrence = "first" THEN log[k].operation <= log[j].operation
                                    ELSE log[j].operation <= log[k].operation
    BY <1>1, <1>2 DEF Extreme
  <2>2. j < k => log[j].operation < log[k].operation
    BY MatchingNamed
  <2>3. k < j => log[k].operation < log[j].operation
    BY MatchingNamed
  <2> QED BY <1>1, <2>1, <2>2, <2>3
<1>4. ASSUME NEW j \in Matching(ref), Best(j)
      PROVE  j = k
  <2>1. j <= k /\ k <= j
    BY <1>3, <1>4
  <2> QED BY <1>1, <2>1
<1>5. Index(ref) = CHOOSE i \in Matching(ref) : Best(i)
  BY DEF Index
<1> HIDE DEF Best
<1>6. Index(ref) = k
  BY <1>3, <1>4, <1>5
<1> QED BY <1>2, <1>6

\* The verdict compares the positions of the two operations that are selected.
LEMMA VerdictIs ==
  ASSUME OracleInv, NEW rule \in TemporalRules
  PROVE  /\ Named(rule.first) = {} \/ Named(rule.second) = {} => RuleVerdict(Occurrences, rule) # "passed"
         /\ \A s, t : Extreme(s, Named(rule.first), rule.first) /\ Extreme(t, Named(rule.second), rule.second) =>
              (RuleVerdict(Occurrences, rule) = "passed" <=>
                 RelationPasses(At(s, rule.first.event).position, rule.relation, At(t, rule.second.event).position))
<1>1. rule.first \in TemporalReferences /\ rule.second \in TemporalReferences
  BY DEF TemporalRules
<1>2. CASE Named(rule.first) = {} \/ Named(rule.second) = {}
  <2>1. Selected(Occurrences, rule.first) = {} \/ Selected(Occurrences, rule.second) = {}
    BY <1>1, <1>2, SelectedIs
  <2>2. RuleVerdict(Occurrences, rule) # "passed"
    BY <2>1 DEF RuleVerdict, MissingReason
  <2> QED BY <1>2, <2>2 DEF Extreme
<1>3. ASSUME NEW s, NEW t, Extreme(s, Named(rule.first), rule.first), Extreme(t, Named(rule.second), rule.second)
      PROVE  RuleVerdict(Occurrences, rule) = "passed" <=>
               RelationPasses(At(s, rule.first.event).position, rule.relation, At(t, rule.second.event).position)
  <2>1. /\ Selected(Occurrences, rule.first) = {At(s, rule.first.event)}
        /\ Selected(Occurrences, rule.second) = {At(t, rule.second.event)}
    BY <1>1, <1>3, SelectedIs
  <2> QED BY <2>1 DEF RuleVerdict
<1> QED BY <1>2, <1>3

\* Nothing is before itself.
LEMMA PositionsIrreflexive ==
  ASSUME OracleInv, NEW o \in DOMAIN operations, NEW event, event # "tool_called" => Final(o)
  PROVE  ~Precedes(At(o, event).position, At(o, event).position)
<1> DEFINE a == At(o, event).position
           op == operations[o]
<1>1. /\ op \in Operation /\ op.created \in Nat /\ op.started \in Nat \cup {Never} /\ op.id \in Nat /\ op.step \in Nat
      /\ op.finished \in Nat \cup {Never} /\ (Final(o) => op.finished # Never)
      /\ op.created # Never
  BY Lengths, BoundsAssumption DEF OracleInv, Timed, Final, TerminalEvents, Waiting, Operation
<1>2. Recorded(<<op.started, op.created>>) \in Nat
  BY <1>1, RecordedCall
<1>3. Final(o) => Recorded(<<op.finished, op.started, op.created>>) \in Nat
  BY <1>1, RecordedEnd
<1>4. a[1] \in Nat /\ a[2] \in Nat /\ a[3] \in Nat /\ a[4] \in Nat
  BY <1>1, <1>2, <1>3 DEF At, CalledAt, EndedAt, Occurrence
<1> HIDE DEF a
<1>5. ~Precedes(a, a)
  <2> SUFFICES ASSUME NEW k \in 1..4, a[k] < a[k]
               PROVE  FALSE
    BY DEF Precedes
  <2>1. k = 1 \/ k = 2 \/ k = 3 \/ k = 4
    OBVIOUS
  <2> QED BY <1>4, <2>1
<1> QED BY <1>5 DEF a

\* The positions of what two references select are in the order of the log.
LEMMA SameOrder ==
  ASSUME OracleInv, NEW first \in TemporalReferences, NEW second \in TemporalReferences,
         NEW s, Extreme(s, Named(first), first), NEW t, Extreme(t, Named(second), second),
         ~(skew > 0 /\ s = t /\ operations[s].started = Never)
  PROVE  Precedes(At(s, first.event).position, At(t, second.event).position) <=> Index(first) < Index(second)
<1> DEFINE i == Index(first)
           j == Index(second)
<1>1. i \in Matching(first) /\ log[i].operation = s /\ j \in Matching(second) /\ log[j].operation = t
  BY IndexIs
<1>2. /\ i \in DOMAIN log /\ j \in DOMAIN log /\ i \in Nat /\ j \in Nat
      /\ s \in DOMAIN operations /\ t \in DOMAIN operations /\ s \in Nat /\ t \in Nat
      /\ Happened[i] = first.event /\ Happened[j] = second.event
      /\ operations[s].tool = first.tool /\ operations[t].tool = second.tool
      /\ first.event \in TemporalEvents /\ second.event \in TemporalEvents
      /\ first.event # "tool_called" => Final(s) /\ TerminalEvents[operations[s].status] = first.event
      /\ second.event # "tool_called" => Final(t) /\ TerminalEvents[operations[t].status] = second.event
  BY <1>1, Lengths DEF OracleInv, Matching, Extreme, Named, TemporalReferences
<1>3. /\ log[i].event \in Marks /\ log[j].event \in Marks
      /\ first.event = "tool_called" <=> log[i].event = "tool_called"
      /\ second.event = "tool_called" <=> log[j].event = "tool_called"
  BY <1>1, MatchingNamed
<1> HIDE DEF i, j
<1>4. CASE s < t
  <2>1. ~(j < i) /\ i # j
    BY <1>1, <1>2, <1>3, <1>4 DEF OracleInv, LogOrdered
  <2> QED BY <1>2, <1>4, <2>1, StepDecides DEF i, j
<1>5. CASE t < s
  <2>1. ~(i < j)
    BY <1>1, <1>2, <1>3, <1>5 DEF OracleInv, LogOrdered
  <2> QED BY <1>2, <1>5, <2>1, StepDecides DEF i, j
<1>6. CASE s = t /\ first.event = second.event
  <2>1. Matching(first) = Matching(second)
    BY <1>2, <1>6 DEF Matching
  <2>2. ~(i < j)
    BY <1>1, <1>2, <1>6, <2>1, MatchingNamed
  <2>3. ~Precedes(At(s, first.event).position, At(s, first.event).position)
    BY <1>2, PositionsIrreflexive
  <2> QED BY <1>6, <2>2, <2>3 DEF i, j
<1>7. CASE s = t /\ first.event = "tool_called" /\ second.event # "tool_called"
  <2>1. ~(j < i) /\ i # j
    BY <1>1, <1>2, <1>3, <1>7 DEF OracleInv, LogOrdered
  <2>2. Precedes(CalledAt(s).position, EndedAt(s).position)
    <3>1. operations[s].started # Never \/ skew = 0
      BY <1>7 DEF OracleInv, Shape
    <3> QED BY <1>2, <1>7, <3>1, TimesDecide
  <2> QED BY <1>2, <1>7, <2>1, <2>2 DEF At, i, j
<1>8. CASE s = t /\ first.event # "tool_called" /\ second.event = "tool_called"
  <2>1. ~(i < j)
    BY <1>1, <1>2, <1>3, <1>8 DEF OracleInv, LogOrdered
  <2>2. ~Precedes(EndedAt(s).position, CalledAt(s).position)
    <3>1. operations[s].started # Never \/ skew = 0
      BY <1>8 DEF OracleInv, Shape
    <3> QED BY <1>2, <1>8, <3>1, TimesDecide
  <2> QED BY <1>2, <1>8, <2>1, <2>2 DEF At, i, j
<1>9. s = t /\ first.event # "tool_called" /\ second.event # "tool_called" => first.event = second.event
  BY <1>2
<1> QED BY <1>2, <1>4, <1>5, <1>6, <1>7, <1>8, <1>9

\* A temporal rule passes exactly when the history has the events it names in the order it asks
\* for, a late verdict standing where the call ended, also in a run the reconciler has ended; the
\* one exception is a refused operation, whose call and end two clocks time
\* (build_temporal_occurrences, temporal_relation_passes).
THEOREM TemporalIsOrder == Spec => []TemporalMatchesHistory
<1>1. ASSUME OracleInv, NEW task \in Tasks, NEW n \in DOMAIN task.rules,
             NEW rule, rule = task.rules[n]
      PROVE  \/ RuleVerdict(Occurrences, rule) = "passed" <=>
                  /\ Matching(rule.first) # {} /\ Matching(rule.second) # {}
                  /\ IF rule.relation = "before" THEN Index(rule.first) < Index(rule.second)
                                                 ELSE Index(rule.first) > Index(rule.second)
             \/ /\ Matching(rule.first) # {} /\ Matching(rule.second) # {}
                /\ skew > 0
                /\ log[Index(rule.first)].operation = log[Index(rule.second)].operation
                /\ operations[log[Index(rule.first)].operation].started = Never
  <2>1. rule \in TemporalRules
    BY <1>1, TasksAssumption, ElementOfSeq, LenProperties
  <2>2. rule.first \in TemporalReferences /\ rule.second \in TemporalReferences
    BY <2>1 DEF TemporalRules
  <2>3. CASE Named(rule.first) = {} \/ Named(rule.second) = {}
    <3>1. Matching(rule.first) = {} \/ Matching(rule.second) = {}
      BY <1>1, <2>2, <2>3, MatchingNamed
    <3> QED BY <1>1, <2>1, <2>3, <3>1, VerdictIs
  <2>4. CASE Named(rule.first) # {} /\ Named(rule.second) # {}
    <3>1. /\ Len(operations) \in Nat
          /\ Named(rule.first) \subseteq 1..Len(operations) /\ Named(rule.second) \subseteq 1..Len(operations)
      BY <1>1, Lengths DEF OracleInv, Named
    <3>2. PICK s : Extreme(s, Named(rule.first), rule.first)
      BY <2>4, <3>1, ExtremeExists
    <3>3. PICK t : Extreme(t, Named(rule.second), rule.second)
      BY <2>4, <3>1, ExtremeExists
    <3>4. /\ Index(rule.first) \in Matching(rule.first) /\ log[Index(rule.first)].operation = s
          /\ Index(rule.second) \in Matching(rule.second) /\ log[Index(rule.second)].operation = t
      BY <1>1, <2>2, <2>4, <3>2, <3>3, IndexIs
    <3>5. Index(rule.first) \in Nat /\ Index(rule.second) \in Nat
      BY <1>1, <3>4, Lengths DEF OracleInv, Matching
    <3>6. RuleVerdict(Occurrences, rule) = "passed" <=>
            RelationPasses(At(s, rule.first.event).position, rule.relation, At(t, rule.second.event).position)
      BY <1>1, <2>1, <3>2, <3>3, VerdictIs
    <3>7. CASE skew > 0 /\ s = t /\ operations[s].started = Never
      BY <3>4, <3>7
    <3>8. CASE ~(skew > 0 /\ s = t /\ operations[s].started = Never)
      <4>1. Precedes(At(s, rule.first.event).position, At(t, rule.second.event).position)
              <=> Index(rule.first) < Index(rule.second)
        BY <1>1, <2>2, <2>4, <3>2, <3>3, <3>8, SameOrder
      <4>2. Precedes(At(t, rule.second.event).position, At(s, rule.first.event).position)
              <=> Index(rule.second) < Index(rule.first)
        BY <1>1, <2>2, <2>4, <3>2, <3>3, <3>8, SameOrder
      <4> QED BY <3>4, <3>5, <3>6, <4>1, <4>2 DEF RelationPasses
    <3> QED BY <3>7, <3>8
  <2> QED BY <2>3, <2>4
<1>2. OracleInv => TemporalMatchesHistory
  <2> SUFFICES ASSUME OracleInv, Evaluable, NEW task \in Tasks, NEW n \in DOMAIN task.rules
               PROVE  LET rule == task.rules[n]
                      IN  \/ RuleVerdict(Occurrences, rule) = "passed" <=>
                               /\ Matching(rule.first) # {} /\ Matching(rule.second) # {}
                               /\ IF rule.relation = "before" THEN Index(rule.first) < Index(rule.second)
                                                              ELSE Index(rule.first) > Index(rule.second)
                          \/ /\ Matching(rule.first) # {} /\ Matching(rule.second) # {}
                             /\ skew > 0
                             /\ log[Index(rule.first)].operation = log[Index(rule.second)].operation
                             /\ operations[log[Index(rule.first)].operation].started = Never
    BY Zenon DEF TemporalMatchesHistory, Matching, Index
  <2> QED BY <1>1
<1> QED BY <1>2, OracleInvariant, PTL

-----------------------------------------------------------------------------
(* Sums.                                                                   *)

\* A set that holds 0 and what follows each of its numbers holds every number.
LEMMA Upwards ==
  ASSUME NEW S, 0 \in S, \A n \in Nat : n \in S => n + 1 \in S
  PROVE  Nat \subseteq S
<1> SUFFICES ASSUME Nat \ S # {}
             PROVE  FALSE
  OBVIOUS
<1> DEFINE T == Nat \ S
<1>1. T \subseteq Nat /\ T # {}
  OBVIOUS
<1>2. PICK t \in T : \A n \in T : <<n, t>> \notin OpToRel(<, Nat)
  <2> HIDE DEF T
  <2> QED BY <1>1, NatLessThanWellFounded, WFMin
<1>3. \A n \in T : ~(n < t)
  BY <1>1, <1>2 DEF OpToRel
<1>4. t # 0 /\ t \in Nat
  OBVIOUS
<1>5. t - 1 \in Nat /\ t - 1 < t /\ (t - 1) + 1 = t
  BY <1>4
<1>6. t - 1 \in S
  BY <1>3, <1>5
<1> QED BY <1>5, <1>6

\* The sums of the first numbers of v.
Sums(f, n, v) == f[0] = 0 /\ \A k \in 1..n : f[k] = f[k - 1] + v[k]

\* There are such sums.
LEMMA SumsExist ==
  ASSUME NEW n \in Nat, NEW v \in [1..n -> Nat]
  PROVE  \E f \in [0..n -> Nat] : Sums(f, n, v)
<1> DEFINE S == {m \in Nat : m <= n => \E f \in [0..m -> Nat] : Sums(f, m, v)}
<1>1. 0 \in S
  <2> DEFINE f == [k \in 0..0 |-> 0]
  <2>1. f \in [0..0 -> Nat] /\ Sums(f, 0, v)
    BY DEF Sums
  <2> QED BY <2>1
<1>2. ASSUME NEW m \in Nat, m \in S
      PROVE  m + 1 \in S
  <2> SUFFICES ASSUME m + 1 <= n
               PROVE  \E f \in [0..m + 1 -> Nat] : Sums(f, m + 1, v)
    OBVIOUS
  <2>1. PICK f \in [0..m -> Nat] : Sums(f, m, v)
    <3>1. m <= n
      OBVIOUS
    <3> QED BY <1>2, <3>1
  <2> DEFINE g == [k \in 0..m + 1 |-> IF k = m + 1 THEN f[m] + v[m + 1] ELSE f[k]]
  <2>2. g \in [0..m + 1 -> Nat]
    <3> SUFFICES ASSUME NEW k \in 0..m + 1
                 PROVE  g[k] \in Nat
      BY Zenon
    <3>1. CASE k = m + 1
      <4>1. m \in 0..m /\ m + 1 \in 1..n
        OBVIOUS
      <4>2. f[m] \in Nat /\ v[m + 1] \in Nat
        BY <2>1, <4>1
      <4> QED BY <3>1, <4>2
    <3>2. CASE k \in 0..m
      BY <2>1, <3>2
    <3> QED BY <3>1, <3>2
  <2>3. Sums(g, m + 1, v)
    <3>1. g[0] = 0
      BY <2>1 DEF Sums
    <3>2. ASSUME NEW k \in 1..m + 1
          PROVE  g[k] = g[k - 1] + v[k]
      <4>1. CASE k = m + 1
        BY <4>1
      <4>2. CASE k \in 1..m
        BY <4>2, <2>1 DEF Sums
      <4> QED BY <4>1, <4>2
    <3> QED BY <3>1, <3>2 DEF Sums
  <2> HIDE DEF g
  <2> QED BY <2>2, <2>3
<1>3. n \in S
  <2> HIDE DEF S
  <2> QED BY <1>1, <1>2, Upwards
<1>4. n <= n
  OBVIOUS
<1> QED BY <1>3, <1>4

\* The sum of a sequence is the last of these sums: its recursion has a solution, and only one.
LEMMA SumIs ==
  ASSUME NEW n \in Nat, NEW v \in [1..n -> Nat], Len(v) = n, NEW f \in [0..n -> Nat], Sums(f, n, v)
  PROVE  SumOf(v) = f[n]
<1> DEFINE Solves(g) == g = [k \in 0..n |-> IF k = 0 THEN 0 ELSE g[k - 1] + v[k]]
<1>1. Solves(f)
  BY DEF Sums
<1>2. Solves(CHOOSE g : Solves(g))
  <2> HIDE DEF Solves
  <2> QED BY <1>1
<1>3. PICK g : g = CHOOSE h : Solves(h)
  OBVIOUS
<1>4. SumOf(v) = g[n]
  BY <1>3 DEF SumOf
<1>5. g = [k \in 0..n |-> IF k = 0 THEN 0 ELSE g[k - 1] + v[k]]
  BY <1>2, <1>3
<1>6. g[0] = 0 /\ \A k \in 1..n : g[k] = g[k - 1] + v[k]
  <2>1. g[0] = 0
    BY <1>5
  <2>2. ASSUME NEW k \in 1..n
        PROVE  g[k] = g[k - 1] + v[k]
    BY <1>5
  <2> QED BY <2>1, <2>2
<1> DEFINE S == {m \in Nat : m <= n => g[m] = f[m]}
<1>7. 0 \in S
  BY <1>6 DEF Sums
<1>8. ASSUME NEW m \in Nat, m \in S
      PROVE  m + 1 \in S
  BY <1>6, <1>8 DEF Sums
<1>9. n \in S
  <2> HIDE DEF S
  <2> QED BY <1>7, <1>8, Upwards
<1> QED BY <1>4, <1>9

\* The numbers up to the next one.
LEMMA NextNumber ==
  ASSUME NEW m \in Nat
  PROVE  1..m + 1 = (1..m) \cup {m + 1}
OBVIOUS

\* Numbers, each at most as large as the other.
Below(v, w, n) == \A k \in 1..n : v[k] \in Nat /\ w[k] \in Nat /\ v[k] <= w[k]

\* The same numbers.
Same(v, w, n) == \A k \in 1..n : v[k] = w[k]

\* The sums of the smaller numbers are smaller, and the same only for the same numbers.
LEMMA SumsOrdered ==
  ASSUME NEW n \in Nat, NEW v, NEW w, Below(v, w, n), NEW f, Sums(f, n, v), NEW g, Sums(g, n, w)
  PROVE  f[n] \in Nat /\ g[n] \in Nat /\ f[n] <= g[n] /\ (f[n] = g[n] <=> Same(v, w, n))
<1> DEFINE Ordered(m) == f[m] \in Nat /\ g[m] \in Nat /\ f[m] <= g[m] /\ (f[m] = g[m] <=> Same(v, w, m))
           S == {m \in Nat : m <= n => Ordered(m)}
<1>1. 0 \in S
  BY DEF Sums, Same
<1>2. ASSUME NEW m \in Nat, m \in S
      PROVE  m + 1 \in S
  <2> SUFFICES ASSUME m + 1 <= n
               PROVE  Ordered(m + 1)
    OBVIOUS
  <2>1. m <= n /\ m + 1 \in 1..n /\ (m + 1) - 1 = m
    OBVIOUS
  <2>2. Ordered(m)
    BY <1>2, <2>1
  <2>3. f[m + 1] = f[m] + v[m + 1] /\ g[m + 1] = g[m] + w[m + 1]
    BY <2>1 DEF Sums
  <2>4. v[m + 1] \in Nat /\ w[m + 1] \in Nat /\ v[m + 1] <= w[m + 1]
    BY <2>1 DEF Below
  <2>5. Same(v, w, m + 1) <=> Same(v, w, m) /\ v[m + 1] = w[m + 1]
    BY NextNumber, Zenon DEF Same
  <2> HIDE DEF S
  <2>6. /\ f[m] + v[m + 1] \in Nat /\ g[m] + w[m + 1] \in Nat /\ f[m] + v[m + 1] <= g[m] + w[m + 1]
        /\ f[m] + v[m + 1] = g[m] + w[m + 1] <=> f[m] = g[m] /\ v[m + 1] = w[m + 1]
    <3> HIDE DEF Ordered
    <3>1. f[m] \in Nat /\ g[m] \in Nat /\ f[m] <= g[m]
      BY <2>2, Zenon DEF Ordered
    <3> QED BY <2>4, <3>1
  <2>7. f[m] = g[m] <=> Same(v, w, m)
    BY <2>2, Zenon
  <2> HIDE DEF Ordered
  <2>8. /\ f[m + 1] \in Nat /\ g[m + 1] \in Nat /\ f[m + 1] <= g[m + 1]
        /\ f[m + 1] = g[m + 1] <=> f[m] = g[m] /\ v[m + 1] = w[m + 1]
    BY <2>3, <2>6
  <2> QED BY <2>5, <2>7, <2>8, Zenon DEF Ordered
<1>3. n \in S
  <2> HIDE DEF S
  <2> QED BY <1>1, <1>2, Upwards
<1>4. n <= n
  OBVIOUS
<1> QED BY <1>3, <1>4

\* Of two sums, the one of smaller numbers is smaller, and the same only for the same numbers.
LEMMA SumBound ==
  ASSUME NEW n \in Nat, NEW v \in [1..n -> Nat], Len(v) = n, NEW w \in [1..n -> Nat], Len(w) = n,
         Below(v, w, n)
  PROVE  /\ SumOf(v) \in Nat /\ SumOf(w) \in Nat /\ SumOf(v) <= SumOf(w)
         /\ SumOf(v) = SumOf(w) <=> Same(v, w, n)
<1>1. PICK f \in [0..n -> Nat] : Sums(f, n, v)
  BY SumsExist
<1>2. PICK g \in [0..n -> Nat] : Sums(g, n, w)
  BY SumsExist
<1>3. SumOf(v) = f[n] /\ SumOf(w) = g[n]
  BY <1>1, <1>2, SumIs
<1>4. f[n] \in Nat /\ g[n] \in Nat /\ f[n] <= g[n] /\ (f[n] = g[n] <=> Same(v, w, n))
  BY <1>1, <1>2, SumsOrdered, Zenon
<1> QED BY <1>3, <1>4

\* A sum of four.
LEMMA SumOfFour ==
  ASSUME NEW v \in [1..4 -> Nat], Len(v) = 4
  PROVE  SumOf(v) = v[1] + v[2] + v[3] + v[4]
<1>1. PICK f \in [0..4 -> Nat] : Sums(f, 4, v)
  BY SumsExist
<1>2. SumOf(v) = f[4]
  BY <1>1, SumIs
<1>3. f[0] = 0 /\ f[1] = f[0] + v[1] /\ f[2] = f[1] + v[2] /\ f[3] = f[2] + v[3] /\ f[4] = f[3] + v[4]
  BY <1>1 DEF Sums
<1> QED BY <1>2, <1>3

-----------------------------------------------------------------------------
(* Scores.                                                                 *)

\* Some of n.
LEMMA SomeOf ==
  ASSUME NEW n \in Nat, NEW S, S \subseteq 1..n
  PROVE  /\ IsFiniteSet(S) /\ Cardinality(S) \in 0..n
         /\ Cardinality(S) = 0 <=> S = {}
         /\ Cardinality(S) = n <=> S = 1..n
<1>1. IsFiniteSet(1..n) /\ Cardinality(1..n) = n
  BY FS_Interval
<1>2. S \in SUBSET (1..n)
  OBVIOUS
<1>3. /\ IsFiniteSet(S) /\ Cardinality(S) <= Cardinality(1..n)
      /\ Cardinality(1..n) = Cardinality(S) => 1..n = S
  BY <1>1, <1>2, FS_Subset
<1>4. Cardinality(S) \in Nat /\ Cardinality(S) <= n
  BY <1>1, <1>3, FS_CardinalityType
<1>5. Cardinality(S) = 0 <=> S = {}
  BY <1>3, FS_EmptySet
<1>6. Cardinality(S) = n <=> S = 1..n
  BY <1>1, <1>3
<1> QED BY <1>3, <1>4, <1>5, <1>6

\* A quotient is below a number that its dividend does not reach.
LEMMA Quotient ==
  ASSUME NEW x \in Nat, NEW y \in Nat \ {0}, NEW c \in Nat, x < (c + 1) * y
  PROVE  x \div y \in Nat /\ x \div y <= c
OBVIOUS

\* What is below the middle of two numbers is rounded to the lower one or less.
LEMMA RoundedBelow ==
  ASSUME NEW n \in Nat, NEW d \in Nat \ {0}, NEW c \in Nat, 2 * n < (2 * c + 1) * d
  PROVE  Rounded(n, d) \in Nat /\ Rounded(n, d) <= c
<1> DEFINE down == n \div d
<1>1. down \in Nat /\ down <= c
  <2>1. n < (c + 1) * d
    OBVIOUS
  <2> QED BY <2>1, Quotient
<1>2. CASE down < c
  BY <1>1, <1>2 DEF Rounded
<1>3. CASE down = c
  <2>1. 2 * (n - d * c) < d /\ n - d * c \in Int
    OBVIOUS
  <2>2. PICK rest \in Int : rest = n - d * c
    BY <2>1
  <2>3. ~(2 * rest > d \/ (2 * rest = d /\ TieUp(n, d)))
    BY <2>1, <2>2
  <2>4. Rounded(n, d) = c
    BY <1>3, <2>2, <2>3 DEF Rounded
  <2> QED BY <2>4
<1> QED BY <1>1, <1>2, <1>3

\* A whole number is not rounded.
LEMMA RoundedExact ==
  ASSUME NEW c \in Nat, NEW d \in Nat \ {0}
  PROVE  Rounded(c * d, d) = c
<1>1. (c * d) \div d = c /\ c * d - d * c = 0
  OBVIOUS
<1>2. ~(2 * 0 > d \/ (2 * 0 = d /\ TieUp(c * d, d)))
  OBVIOUS
<1> QED BY <1>1, <1>2 DEF Rounded

\* A full score, and the best of the others.
LEMMA Ratios ==
  ASSUME NEW total \in Nat, NEW passed \in 0..total, 5 * total < 2 * Full
  PROVE  /\ passed = total => Ratio(passed, total) = Full
         /\ passed < total => Ratio(passed, total) \in Nat /\ Ratio(passed, total) <= Full - 3
<1>1. CASE total = 0
  BY <1>1 DEF Ratio
<1>2. CASE total # 0 /\ passed = total
  <2>1. Full \in Nat /\ passed * Full = Full * total
    BY <1>2, SMT DEF Full
  <2> QED BY <1>2, <2>1, RoundedExact DEF Ratio
<1>3. CASE passed < total
  <2> DEFINE n == passed * Full
             c == Full - 3
  <2>1. n \in Nat /\ total \in Nat \ {0} /\ c \in Nat /\ 2 * n < (2 * c + 1) * total
    BY <1>3, SMT DEF Full
  <2>2. Ratio(passed, total) = Rounded(n, total)
    BY <1>3 DEF Ratio
  <2> HIDE DEF n, c
  <2>3. Rounded(n, total) \in Nat /\ Rounded(n, total) <= c
    BY <2>1, RoundedBelow
  <2> QED BY <1>3, <2>2, <2>3 DEF c
<1> QED BY <1>1, <1>2, <1>3

\* The score is full if the oracle passes, and low enough to be noticed among four if it does not.
Tells(result) ==
  /\ result.score \in Nat /\ result.passed \in BOOLEAN
  /\ IF result.passed THEN result.score = Full ELSE result.score <= Full - 3

\* An oracle that passes everything exactly if it finds no violation.
LEMMA ResultTells ==
  ASSUME NEW total \in Nat, NEW passed \in 0..total, NEW violations, 5 * total < 2 * Full,
         violations = {} <=> passed = total
  PROVE  Tells(Result(passed, total, violations))
<1>1. Full \in Nat
  BY SMT DEF Full
<1>2. passed = total \/ passed < total
  OBVIOUS
<1> QED BY <1>1, <1>2, Ratios DEF Result, Tells

\* The trace oracle, from the rules that are missing and those that are broken.
LEMMA TraceTells ==
  ASSUME NEW task \in Tasks, FewRules(task)
  PROVE  Tells(EvaluateTrace(task.required, task.forbidden))
<1> DEFINE required == task.required
           forbidden == task.forbidden
           missing == {k \in DOMAIN required : CountTraceEvent(required[k]) = 0}
           observed == {k \in DOMAIN forbidden : CountTraceEvent(forbidden[k]) > 0}
           total == Len(required) + Len(forbidden)
           passed == total - Cardinality(missing) - Cardinality(observed)
           violations == {<<"required_trace_event_missing", k>> : k \in missing}
                           \cup {<<"forbidden_trace_event_observed", k>> : k \in observed}
<1>1. /\ Len(required) \in Nat /\ DOMAIN required = 1..Len(required)
      /\ Len(forbidden) \in Nat /\ DOMAIN forbidden = 1..Len(forbidden)
  BY TasksAssumption, LenProperties
<1>2. /\ Cardinality(missing) \in 0..Len(required) /\ (Cardinality(missing) = 0 <=> missing = {})
      /\ Cardinality(observed) \in 0..Len(forbidden) /\ (Cardinality(observed) = 0 <=> observed = {})
  <2>1. missing \subseteq 1..Len(required) /\ observed \subseteq 1..Len(forbidden)
    BY <1>1
  <2> HIDE DEF missing, observed, required, forbidden
  <2> QED BY <1>1, <2>1, SomeOf
<1>3. violations = {} <=> missing = {} /\ observed = {}
  <2> HIDE DEF missing, observed
  <2> QED OBVIOUS
<1>4. total \in Nat /\ 5 * total < 2 * Full
  <2>1. total \in Nat
    <3> HIDE DEF required, forbidden
    <3> QED BY <1>1
  <2>2. 5 * total < 2 * Full
    BY Zenon DEF FewRules
  <2> QED BY <2>1, <2>2
<1>5. passed \in 0..total /\ (violations = {} <=> passed = total)
  <2> HIDE DEF missing, observed, required, forbidden, violations
  <2> QED BY <1>1, <1>2, <1>3
<1>6. EvaluateTrace(task.required, task.forbidden) = Result(passed, total, violations)
  BY Zenon DEF EvaluateTrace
<1> HIDE DEF passed, total, violations
<1> QED BY <1>4, <1>5, <1>6, ResultTells

\* The temporal oracle, from the rules that fail.
LEMMA TemporalTells ==
  ASSUME NEW task \in Tasks, FewRules(task)
  PROVE  Tells(EvaluateTemporal(task.rules))
<1> DEFINE rules == task.rules
           verdict == [k \in DOMAIN rules |-> RuleVerdict(Occurrences, rules[k])]
           failed == {k \in DOMAIN rules : verdict[k] # "passed"}
           passed == Len(rules) - Cardinality(failed)
           violations == {<<verdict[k], k>> : k \in failed}
<1>1. Len(rules) \in Nat /\ DOMAIN rules = 1..Len(rules)
  BY TasksAssumption, LenProperties
<1>2. Cardinality(failed) \in 0..Len(rules) /\ (Cardinality(failed) = 0 <=> failed = {})
  <2>1. failed \subseteq 1..Len(rules)
    BY <1>1
  <2> HIDE DEF failed, rules
  <2> QED BY <1>1, <2>1, SomeOf
<1>3. violations = {} <=> failed = {}
  <2> HIDE DEF failed, verdict
  <2> QED OBVIOUS
<1>4. 5 * Len(rules) < 2 * Full
  BY DEF FewRules
<1>5. passed \in 0..Len(rules) /\ (violations = {} <=> passed = Len(rules))
  <2> HIDE DEF failed, rules, violations
  <2> QED BY <1>1, <1>2, <1>3
<1>6. EvaluateTemporal(task.rules) = Result(passed, Len(rules), violations)
  BY Zenon DEF EvaluateTemporal
<1> HIDE DEF passed, rules, violations
<1> QED BY <1>1, <1>4, <1>5, <1>6, ResultTells

\* The budget oracle, from the metrics that are missing and those that are exceeded.
LEMMA BudgetTells ==
  ASSUME NEW budget
  PROVE  Tells(EvaluateBudget(budget))
<1> DEFINE missing == {m \in Metrics : totals[m] = Never}
           exceeded == {m \in Metrics \ missing : totals[m] > budget[m]}
           both == missing \cup exceeded
           passed == 4 - Cardinality(both)
           violations == {<<"budget_metric_missing", m>> : m \in missing}
                           \cup {<<"budget_exceeded", m>> : m \in exceeded}
<1>1. IsFiniteSet(Metrics) /\ Cardinality(Metrics) = 4
  <2> DEFINE A == {"agent_steps"}
             B == A \cup {"tool_calls"}
             C == B \cup {"tokens"}
  <2>1. IsFiniteSet(A) /\ Cardinality(A) = 1
    BY FS_Singleton
  <2>2. IsFiniteSet(B) /\ Cardinality(B) = 2
    BY <2>1, FS_AddElement
  <2>3. IsFiniteSet(C) /\ Cardinality(C) = 3
    BY <2>2, FS_AddElement
  <2>4. IsFiniteSet(C \cup {"latency_ms"}) /\ Cardinality(C \cup {"latency_ms"}) = 4
    BY <2>3, FS_AddElement
  <2>5. Metrics = C \cup {"latency_ms"}
    BY DEF Metrics
  <2> QED BY <2>4, <2>5
<1>2. Cardinality(both) \in 0..4 /\ (Cardinality(both) = 0 <=> both = {})
  <2>1. both \in SUBSET Metrics
    OBVIOUS
  <2> HIDE DEF both
  <2>2. IsFiniteSet(both) /\ Cardinality(both) <= 4
    BY <1>1, <2>1, FS_Subset
  <2> QED BY <2>2, FS_CardinalityType, FS_EmptySet
<1>3. violations = {} <=> both = {}
  <2> HIDE DEF missing, exceeded
  <2> QED OBVIOUS
<1>4. passed \in 0..4 /\ (violations = {} <=> passed = 4)
  <2> HIDE DEF both, violations
  <2> QED BY <1>2, <1>3
<1>5. EvaluateBudget(budget) = Result(passed, 4, violations)
  BY Zenon DEF EvaluateBudget
<1>6. 5 * 4 < 2 * Full
  BY SMT DEF Full
<1> HIDE DEF passed, violations
<1> QED BY <1>4, <1>5, <1>6, ResultTells

\* One expectation: all its assertions pass exactly if it has no violation.
LEMMA ExpectationTells ==
  ASSUME NEW records, NEW x, IsExpectation(x)
  PROVE  LET verdict == EvaluateExpectation(records, x)
         IN  /\ verdict.passed \in 0..Len(x.assertions) /\ Len(x.assertions) \in Nat
             /\ verdict.violations = {} <=> verdict.passed = Len(x.assertions)
<1> DEFINE n == Len(x.assertions)
           matches == {r \in records : RecordMatchesWhere(r, x.where)}
           Passing(r) == {k \in DOMAIN x.assertions : AssertionPasses(r, x.assertions[k])}
           verdict == EvaluateExpectation(records, x)
<1>1. n \in Nat /\ n # 0 /\ DOMAIN x.assertions = 1..n
  <2>1. n \in Nat /\ DOMAIN x.assertions = 1..n /\ x.assertions # <<>>
    BY DEF IsExpectation, IsSequence
  <2> QED BY <2>1, EmptySeq
<1>2. CASE matches = {}
  <2>1. ~(Cardinality(matches) > 1)
    BY <1>2, FS_EmptySet
  <2>2. verdict = [passed |-> 0, violations |-> {"state_entity_not_found"}]
    BY <1>2, <2>1 DEF EvaluateExpectation
  <2> QED BY <1>1, <2>2
<1>3. CASE matches # {} /\ Cardinality(matches) > 1
  <2>1. verdict = [passed |-> 0, violations |-> {"state_entity_ambiguous"}]
    BY <1>3 DEF EvaluateExpectation
  <2> QED BY <1>1, <2>1
<1>4. CASE matches # {} /\ ~(Cardinality(matches) > 1)
  <2>1. PICK r : verdict = [passed |-> Cardinality(Passing(r)),
                            violations |-> {"state_assertion_failed" : k \in DOMAIN x.assertions \ Passing(r)}]
    BY <1>4 DEF EvaluateExpectation
  <2>2. Passing(r) \subseteq 1..n
    BY <1>1
  <2>3. Cardinality(Passing(r)) \in 0..n /\ (Cardinality(Passing(r)) = n <=> Passing(r) = 1..n)
    <3> HIDE DEF Passing, n
    <3> QED BY <1>1, <2>2, SomeOf
  <2>4. {"state_assertion_failed" : k \in DOMAIN x.assertions \ Passing(r)} = {} <=> Passing(r) = 1..n
    <3> HIDE DEF Passing, n
    <3> QED BY <1>1, <2>2
  <2> HIDE DEF Passing, verdict
  <2>5. verdict.passed = Cardinality(Passing(r)) /\ (verdict.violations = {} <=> Passing(r) = 1..n)
    BY <2>1, <2>4
  <2> QED BY <1>1, <2>3, <2>5 DEF verdict
<1> QED BY <1>2, <1>3, <1>4

\* The final state oracle, from the sums over its expectations.
LEMMA StateTells ==
  ASSUME NEW task \in Tasks, FewRules(task)
  PROVE  Tells(EvaluateState(task.expectations))
<1> DEFINE expectations == task.expectations
           n == Len(expectations)
           verdict == [k \in DOMAIN expectations |->
                         EvaluateExpectation(StateSnapshot[expectations[k].entity], expectations[k])]
           passed == [k \in DOMAIN expectations |-> verdict[k].passed]
           counts == AssertionCounts(expectations)
           violations == UNION {verdict[k].violations \X {k} : k \in DOMAIN expectations}
<1>1. n \in Nat /\ DOMAIN expectations = 1..n /\ \A k \in 1..n : IsExpectation(expectations[k])
  BY TasksAssumption DEF IsSequence
<1>2. ASSUME NEW k \in 1..n
      PROVE  /\ verdict[k].passed \in 0..Len(expectations[k].assertions) /\ Len(expectations[k].assertions) \in Nat
             /\ verdict[k].violations = {} <=> verdict[k].passed = Len(expectations[k].assertions)
  <2>1. verdict[k] = EvaluateExpectation(StateSnapshot[expectations[k].entity], expectations[k])
    BY <1>1
  <2>2. IsExpectation(expectations[k])
    BY <1>1
  <2> HIDE DEF verdict
  <2> QED BY <2>1, <2>2, ExpectationTells
<1> HIDE DEF verdict
<1>3. /\ passed \in [1..n -> Nat] /\ Len(passed) = n /\ counts \in [1..n -> Nat] /\ Len(counts) = n
      /\ \A k \in 1..n : passed[k] = verdict[k].passed /\ counts[k] = Len(expectations[k].assertions)
      /\ Below(passed, counts, n)
  <2>1. passed = [k \in 1..n |-> verdict[k].passed] /\ counts = [k \in 1..n |-> Len(expectations[k].assertions)]
    BY <1>1 DEF AssertionCounts
  <2> HIDE DEF passed, counts, expectations
  <2>2. passed \in [1..n -> Nat] /\ counts \in [1..n -> Nat]
    BY <1>2, <2>1
  <2>3. passed \in Seq(Nat) /\ counts \in Seq(Nat)
    BY <1>1, <2>2, SeqDef
  <2>4. Len(passed) = n /\ Len(counts) = n
    BY <1>1, <2>2, <2>3, LenProperties
  <2> QED BY <1>2, <2>1, <2>2, <2>4 DEF Below
<1>4. violations = {} <=> Same(passed, counts, n)
  <2>1. violations = {} <=> \A k \in 1..n : verdict[k].violations = {}
    <3> HIDE DEF n, expectations
    <3>1. violations = {} <=> \A k \in DOMAIN expectations : verdict[k].violations \X {k} = {}
      OBVIOUS
    <3>2. ASSUME NEW k
          PROVE  verdict[k].violations \X {k} = {} <=> verdict[k].violations = {}
      <4>1. ASSUME NEW x \in verdict[k].violations
            PROVE  <<x, k>> \in verdict[k].violations \X {k}
        OBVIOUS
      <4> QED BY <4>1
    <3> QED BY <1>1, <3>1, <3>2
  <2> HIDE DEF violations, passed, counts, n
  <2> QED BY <1>2, <1>3, <2>1 DEF Same
<1>5. /\ SumOf(passed) \in Nat /\ SumOf(counts) \in Nat /\ SumOf(passed) <= SumOf(counts)
      /\ SumOf(passed) = SumOf(counts) <=> Same(passed, counts, n)
  <2> HIDE DEF passed, counts, n
  <2> QED BY <1>1, <1>3, SumBound
<1>6. 5 * SumOf(counts) < 2 * Full
  BY DEF FewRules
<1>7. EvaluateState(task.expectations) = Result(SumOf(passed), SumOf(counts), violations)
  BY Zenon DEF EvaluateState, verdict
<1> HIDE DEF passed, counts, violations
<1>8. SumOf(passed) \in 0..SumOf(counts)
  BY <1>5
<1> QED BY <1>4, <1>5, <1>6, <1>7, <1>8, ResultTells

\* Four scores, of which one is noticed, and their rounded mean.
LEMMA MeanTells ==
  ASSUME NEW results, \A k \in 1..4 : Tells(results[k])
  PROVE  Rounded(SumOf([k \in 1..4 |-> results[k].score]), 4) = Full <=> \A k \in 1..4 : results[k].passed
<1> DEFINE scores == [k \in 1..4 |-> results[k].score]
<1>1. ASSUME NEW k \in 1..4
      PROVE  /\ scores[k] \in Nat /\ scores[k] <= Full /\ results[k].passed \in BOOLEAN
             /\ results[k].passed <=> scores[k] = Full
             /\ ~results[k].passed => scores[k] <= Full - 3
  <2>1. scores[k] = results[k].score
    OBVIOUS
  <2>2. Full \in Nat /\ Full - 3 < Full
    BY SMT DEF Full
  <2> HIDE DEF scores
  <2> QED BY <2>1, <2>2 DEF Tells
<1>2. scores \in [1..4 -> Nat] /\ Len(scores) = 4
  <2>1. scores \in [1..4 -> Nat]
    BY <1>1
  <2> HIDE DEF scores
  <2>2. scores \in Seq(Nat)
    BY <2>1, SeqDef
  <2> QED BY <2>1, <2>2, LenProperties
<1> HIDE DEF scores
<1>3. SumOf(scores) = scores[1] + scores[2] + scores[3] + scores[4]
  BY <1>2, SumOfFour
<1>4. CASE \A k \in 1..4 : results[k].passed
  <2>1. scores[1] = Full /\ scores[2] = Full /\ scores[3] = Full /\ scores[4] = Full
    BY <1>1, <1>4
  <2>2. SumOf(scores) = 4 * Full
    BY <1>3, <2>1, SMT DEF Full
  <2>3. Rounded(SumOf(scores), 4) = Full
    <3>1. Full \in Nat /\ SumOf(scores) = Full * 4
      BY <2>2, SMT DEF Full
    <3> QED BY <3>1, RoundedExact
  <2> QED BY <1>4, <2>3 DEF scores
<1>5. CASE \E k \in 1..4 : ~results[k].passed
  <2>1. \E k \in 1..4 : scores[k] <= Full - 3
    BY <1>1, <1>5
  <2>2. /\ scores[1] \in Nat /\ scores[2] \in Nat /\ scores[3] \in Nat /\ scores[4] \in Nat
        /\ scores[1] <= Full /\ scores[2] <= Full /\ scores[3] <= Full /\ scores[4] <= Full
    BY <1>1
  <2>3. SumOf(scores) \in Nat /\ SumOf(scores) <= 4 * Full - 3
    BY <1>3, <2>1, <2>2, SMT DEF Full
  <2>4. Rounded(SumOf(scores), 4) # Full
    <3>1. PICK c \in Nat : c = Full - 1 /\ 2 * SumOf(scores) < (2 * c + 1) * 4
      BY <2>3, SMT DEF Full
    <3>2. Rounded(SumOf(scores), 4) \in Nat /\ Rounded(SumOf(scores), 4) <= c
      BY <2>3, <3>1, RoundedBelow
    <3>3. Full \in Nat
      BY SMT DEF Full
    <3> QED BY <3>1, <3>2, <3>3
  <2> QED BY <1>5, <2>4 DEF scores
<1> QED BY <1>1, <1>4, <1>5

\* Whatever the rows of a run are and whichever way a tie is rounded: if the run has succeeded,
\* its report says passed exactly when its overall score is full (build_evaluation_report).
THEOREM ScoresAreVerdicts == Spec => []ScoresMatchVerdicts
<1>1. ASSUME NEW task \in Tasks, FewRules(task)
      PROVE  Report(task).passed <=> Report(task).overall_score = Full /\ Report(task).runtime_passed
  <2> DEFINE results == Results(task)
  <2>1. \A k \in 1..4 : Tells(results[k])
    <3>1. /\ results[1] = EvaluateState(task.expectations)
          /\ results[2] = EvaluateTrace(task.required, task.forbidden)
          /\ results[3] = EvaluateTemporal(task.rules)
          /\ results[4] = EvaluateBudget(task.budget)
      BY DEF Results
    <3>2. Tells(results[1]) /\ Tells(results[2]) /\ Tells(results[3]) /\ Tells(results[4])
      BY <1>1, <3>1, StateTells, TraceTells, TemporalTells, BudgetTells
    <3> QED BY <3>2
  <2> HIDE DEF results
  <2>2. Rounded(SumOf([k \in 1..4 |-> results[k].score]), 4) = Full <=> \A k \in 1..4 : results[k].passed
    BY <2>1, MeanTells
  <2>3. /\ Report(task).runtime_passed <=> status = "succeeded"
        /\ Report(task).passed <=> status = "succeeded" /\ \A k \in 1..4 : results[k].passed
        /\ Report(task).overall_score = Rounded(SumOf([k \in 1..4 |-> results[k].score]), 4)
    BY DEF Report, results
  <2> QED BY <2>2, <2>3
<1>2. ScoresMatchVerdicts
  BY <1>1 DEF ScoresMatchVerdicts, FewTasks
<1> QED BY <1>2, PTL
=============================================================================
