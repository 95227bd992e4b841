-------------------------- MODULE TicketToolsProofs --------------------------
(***************************************************************************)
(* Theorems about the ticket tools, for any number of calls, operations,   *)
(* tickets and resets.                                                     *)
(***************************************************************************)
EXTENDS TicketTools, TLAPS

\* The id of a ticket is not used before the call that creates it is over.
Unborn == \A c \in Calls : call[c].stage # "done" => tickets[c] = NoTicket

\* An operation has one request.
OneRequest ==
  \A c, d \in Calls : call[c].operation = call[d].operation /\ call[c].operation # NoOperation
                        => Request(c) = Request(d)

\* An updated row is locked: it keeps the version the call expects.
Held ==
  \A c \in Calls : call[c].stage = "written" =>
    LET q == Request(c) IN
    /\ q.tool = "update"
    /\ UpdateMatches(q)
    /\ Storable(q, Changes(q, call[c].read))
    /\ \A d \in Calls \ {c} : call[d].stage = "written" => Request(d).ticket # q.ticket

\* While a call of the ledger goes on no world is replaced: its ticket stays,
\* and as long as it has the version that was read it is what was read.
ReadFits ==
  \A c \in Calls : call[c].stage \in {"decided", "written"} /\ Request(c).tool = "update"
                     /\ call[c].operation # NoOperation =>
    LET q == Request(c) IN
    /\ call[c].read \in Row
    /\ TransitionAllowed(q, call[c].read)
    /\ Present(q.ticket) /\ tickets[q.ticket].version >= q.expected
    /\ tickets[q.ticket].version = q.expected => tickets[q.ticket] = call[c].read

OneMutation == \A m, n \in mutations : m.operation = n.operation => m = n

OneSource ==
  \A i, j \in Ids : Present(i) /\ Present(j) /\ tickets[i].source = tickets[j].source
                      /\ tickets[i].source # NoOperation => i = j

AnsweredOk(c) == call[c].answer.code = "ok"

\* A call is answered once, in the world there is.
AnsweredLast == \A c \in Calls : AnsweredOk(c) => call[c].stage = "done" /\ call[c].answer.world <= resets

\* An answer of the world there is can be found in the tables.
AnswersStand ==
  \A c \in Calls :
    AnsweredOk(c) /\ call[c].operation # NoOperation /\ call[c].answer.world = resets =>
      /\ Request(c).tool = "create" =>
           Present(call[c].answer.ticket) /\ tickets[call[c].answer.ticket].source = call[c].operation
      /\ Request(c).tool = "update" =>
           \E m \in mutations : /\ m.operation = call[c].operation
                                /\ m.ticket = call[c].answer.ticket
                                /\ m.snapshot = call[c].answer.row

TicketInv ==
  /\ TypeOK /\ Unborn /\ OneRequest /\ Held /\ ReadFits /\ MutationLog
  /\ OneMutation /\ OneSource /\ AnsweredLast /\ AnswersStand /\ RepeatedCallsAgree
-----------------------------------------------------------------------------
\* The arguments of a handler are those of its tool.
LEMMA RequestTypes ==
  ASSUME NEW q \in Requests
  PROVE  /\ q.tool = "create" \/ q.tool = "update"
         /\ q.tool = "update" => /\ q.ticket \in Ids /\ q.expected \in Nat \ {0}
                                 /\ q.status \in MutableStatuses \cup {Unset, Null}
                                 /\ q.title \in Titles \cup {Unset, Null}
<1> SUFFICES ASSUME q \in UpdateRequest
             PROVE  /\ q.tool = "update" /\ q.ticket \in Ids /\ q.expected \in Nat \ {0}
                    /\ q.status \in MutableStatuses \cup {Unset, Null}
                    /\ q.title \in Titles \cup {Unset, Null}
  BY TicketsAssumption DEF CreateRequest
<1> QED BY DEF UpdateRequest

\* What the columns of a row and the fields of a call may hold.
LEMMA Columns ==
  ASSUME NEW row \in Row
  PROVE  /\ row \in Row /\ row.status \in StoredStatuses /\ row.title \in Titles
         /\ row.version \in Nat /\ row.version > 0 /\ row.source \in Operations \cup {NoOperation}
         /\ row # NoTicket
BY TicketsAssumption DEF Row

LEMMA CallFields ==
  ASSUME TypeOK, NEW c \in Calls
  PROVE  /\ call[c].stage \in {"idle", "done"} \cup Open
         /\ call[c].operation \in Operations \cup {NoOperation}
         /\ call[c].read \in Row \cup {NoTicket}
         /\ call[c].answer \in Answers
         /\ call[c].stage # "idle" => Request(c) \in Requests
BY DEF TypeOK, CallState, Request

\* An ok answer.
LEMMA OkAnswers ==
  ASSUME NEW a \in Answers, a.code = "ok"
  PROVE  a.ticket \in Ids /\ a.row \in Row /\ a.world \in Nat
BY DEF Answers

\* What a step of call c leaves of the calls.
OnlyCall(c) ==
  /\ \A d \in Calls \ {c} : call'[d] = call[d]
  /\ call'[c].request = call[c].request /\ call'[c].operation = call[c].operation

LEMMA AnsweredCall ==
  ASSUME TypeOK, NEW c \in Calls, call[c].stage # "idle", NEW a \in Answers, Answered(c, a)
  PROVE  /\ OnlyCall(c)
         /\ call' \in [Calls -> CallState]
         /\ call'[c].stage = "done" /\ call'[c].answer = a /\ call'[c].read = call[c].read
<1>1. call[c] \in CallState /\ call \in [Calls -> CallState] /\ call[c].request \in Requests
  BY CallFields DEF TypeOK, Request
<1>0. PICK r \in CallState : r = call[c]
  BY <1>1
<1> DEFINE n == [r EXCEPT !.stage = "done", !.answer = a]
<1>2. call' = [call EXCEPT ![c] = n]
  BY <1>0, <1>1, Zenon DEF Answered
<1>3. /\ n \in CallState
      /\ n.stage = "done" /\ n.operation = r.operation /\ n.request = r.request
      /\ n.read = r.read /\ n.answer = a
  BY DEF CallState
<1> HIDE DEF n
<1> QED BY <1>0, <1>1, <1>2, <1>3 DEF OnlyCall

LEMMA MovedCall ==
  ASSUME TypeOK, NEW c \in Calls, NEW s \in Open, Moves(c, s)
  PROVE  /\ OnlyCall(c)
         /\ call' \in [Calls -> CallState]
         /\ call'[c].stage = s /\ call'[c].answer = call[c].answer /\ call'[c].read = call[c].read
<1>1. call[c] \in CallState /\ call \in [Calls -> CallState] /\ call[c].read \in Row \cup {NoTicket}
  BY CallFields DEF TypeOK
<1>0. PICK r \in CallState : r = call[c]
  BY <1>1
<1> DEFINE n == [r EXCEPT !.stage = s]
<1>2. call' = [call EXCEPT ![c] = n]
  BY <1>0, <1>1, Zenon DEF Moves
<1>3. /\ n \in CallState
      /\ n.stage = s /\ n.operation = r.operation /\ n.request = r.request
      /\ n.read = r.read /\ n.answer = r.answer
  BY DEF CallState
<1> HIDE DEF n
<1> QED BY <1>0, <1>1, <1>2, <1>3 DEF OnlyCall

LEMMA ReadCall ==
  ASSUME TypeOK, NEW c \in Calls, NEW row \in Row \cup {NoTicket}, Reads(c, row)
  PROVE  /\ OnlyCall(c)
         /\ call' \in [Calls -> CallState]
         /\ call'[c].stage = "decided" /\ call'[c].answer = call[c].answer /\ call'[c].read = row
<1>1. call[c] \in CallState /\ call \in [Calls -> CallState]
  BY DEF TypeOK
<1>0. PICK r \in CallState : r = call[c]
  BY <1>1
<1> DEFINE n == [r EXCEPT !.stage = "decided", !.read = row]
<1>2. call' = [call EXCEPT ![c] = n]
  BY <1>0, <1>1, Zenon DEF Reads
<1>a. "decided" \in Open
  BY DEF Open
<1>3. /\ n \in CallState
      /\ n.stage = "decided" /\ n.operation = r.operation /\ n.request = r.request
      /\ n.read = row /\ n.answer = r.answer
  BY <1>a DEF CallState
<1> HIDE DEF n
<1> QED BY <1>0, <1>1, <1>2, <1>3 DEF OnlyCall

LEMMA BegunCall ==
  ASSUME TypeOK, NEW c \in Calls, NEW o \in Operations \cup {NoOperation}, NEW q \in Requests, Begin(c, o, q)
  PROVE  /\ \A d \in Calls \ {c} : call'[d] = call[d]
         /\ call' \in [Calls -> CallState]
         /\ call'[c].stage = "begun" /\ call'[c].operation = o /\ call'[c].request = q
         /\ call'[c].answer = call[c].answer /\ call'[c].read = call[c].read
<1>1. call[c] \in CallState /\ call \in [Calls -> CallState]
  BY DEF TypeOK
<1>0. PICK r \in CallState : r = call[c]
  BY <1>1
<1> DEFINE n == [r EXCEPT !.stage = "begun", !.operation = o, !.request = q]
<1>2. call' = [call EXCEPT ![c] = n]
  BY <1>0, <1>1, Zenon DEF Begin
<1>3. /\ n \in CallState
      /\ n.stage = "begun" /\ n.operation = o /\ n.request = q
      /\ n.read = r.read /\ n.answer = r.answer
  BY DEF CallState, Open
<1> HIDE DEF n
<1> QED BY <1>0, <1>1, <1>2, <1>3

\* The answers are answers.
LEMMA ErrorAnswers ==
  \A k \in {"none", "lost", "ticket_not_found", "ticket_version_conflict", "no_ticket_changes",
            "invalid_ticket_status_transition", "employee_not_found", "tool_execution_error"} :
    [code |-> k] \in Answers
BY DEF Answers

LEMMA OkAnswer ==
  ASSUME TypeOK, NEW i \in Ids, NEW row \in Row
  PROVE  [code |-> "ok", ticket |-> i, row |-> row, world |-> resets] \in Answers
BY DEF Answers, TypeOK
-----------------------------------------------------------------------------
\* Two calls of one operation that were answered in the world there is agree,
\* because both answers are in the tables and an operation is in them once.
Agree(c, d) ==
  /\ call[c].answer.ticket = call[d].answer.ticket
  /\ Request(c).tool = "update" => call[c].answer.row = call[d].answer.row

CurrentAgree ==
  \A c, d \in Calls :
    /\ AnsweredOk(c) /\ AnsweredOk(d)
    /\ call[c].operation = call[d].operation /\ call[c].operation # NoOperation
    /\ call[c].answer.world = resets /\ call[d].answer.world = resets
    => Agree(c, d)

LEMMA AgreeNow ==
  TypeOK /\ OneRequest /\ OneMutation /\ OneSource /\ AnsweredLast /\ AnswersStand => CurrentAgree
<1> SUFFICES ASSUME TypeOK, OneRequest, OneMutation, OneSource, AnsweredLast, AnswersStand,
                    NEW c \in Calls, NEW d \in Calls, AnsweredOk(c), AnsweredOk(d),
                    call[c].operation = call[d].operation, call[c].operation # NoOperation,
                    call[c].answer.world = resets, call[d].answer.world = resets
             PROVE  Agree(c, d)
  BY DEF CurrentAgree
<1>1. Request(c) = Request(d)
  BY DEF OneRequest
<1>2. call[c].stage = "done" /\ Request(c) \in Requests
  BY CallFields DEF AnsweredLast
<1>3. CASE Request(c).tool = "create"
  <2>1. call[c].answer.ticket \in Ids /\ call[d].answer.ticket \in Ids
    BY OkAnswers, CallFields DEF AnsweredOk
  <2> QED BY <1>1, <1>3, <2>1 DEF AnswersStand, OneSource, Agree
<1>4. CASE Request(c).tool = "update"
  BY <1>1, <1>4 DEF AnswersStand, OneMutation, Agree
<1> QED BY <1>2, <1>3, <1>4, RequestTypes

LEMMA AgreeAfter ==
  (TypeOK /\ OneRequest /\ OneMutation /\ OneSource /\ AnsweredLast /\ AnswersStand)' => CurrentAgree'
BY AgreeNow, PTL

LEMMA AgreeNext ==
  ASSUME TypeOK', OneRequest', OneMutation', OneSource', AnsweredLast', AnswersStand',
         RepeatedCallsAgree,
         \A c \in Calls : AnsweredOk(c)' /\ call'[c].answer.world # resets' =>
           call'[c].answer = call[c].answer /\ call'[c].operation = call[c].operation
             /\ call'[c].request = call[c].request
  PROVE  RepeatedCallsAgree'
<1> SUFFICES ASSUME NEW c \in Calls, NEW d \in Calls, AnsweredOk(c)', AnsweredOk(d)',
                    call'[c].operation = call'[d].operation, call'[c].operation # NoOperation,
                    call'[c].answer.world = call'[d].answer.world
             PROVE  Agree(c, d)'
  BY DEF RepeatedCallsAgree, Agree, AnsweredOk
<1>1. CASE call'[c].answer.world = resets'
  BY <1>1, AgreeAfter DEF CurrentAgree
<1>2. CASE call'[c].answer.world # resets'
  <2>1. /\ call'[c].answer = call[c].answer /\ call'[c].operation = call[c].operation
        /\ call'[c].request = call[c].request
        /\ call'[d].answer = call[d].answer /\ call'[d].operation = call[d].operation
        /\ call'[d].request = call[d].request
    BY <1>2
  <2>2. /\ call[c].answer.code = "ok" /\ call[d].answer.code = "ok"
        /\ call[c].operation = call[d].operation /\ call[c].operation # NoOperation
        /\ call[c].answer.world = call[d].answer.world
    BY <2>1 DEF AnsweredOk
  <2>3. Agree(c, d)
    BY <2>2 DEF RepeatedCallsAgree, Agree
  <2> QED BY <2>1, <2>3 DEF Agree, Request
<1> QED BY <1>1, <1>2
-----------------------------------------------------------------------------
\* The parts of Held, ReadFits and AnswersStand that speak of one call.
HeldBy(c) ==
  call[c].stage = "written" =>
    /\ Request(c).tool = "update"
    /\ UpdateMatches(Request(c))
    /\ Storable(Request(c), Changes(Request(c), call[c].read))
    /\ \A d \in Calls \ {c} : call[d].stage = "written" => Request(d).ticket # Request(c).ticket

ReadFitsFor(c) ==
  call[c].stage \in {"decided", "written"} /\ Request(c).tool = "update" /\ call[c].operation # NoOperation =>
    /\ call[c].read \in Row
    /\ TransitionAllowed(Request(c), call[c].read)
    /\ Present(Request(c).ticket) /\ tickets[Request(c).ticket].version >= Request(c).expected
    /\ tickets[Request(c).ticket].version = Request(c).expected => tickets[Request(c).ticket] = call[c].read

AnswerStands(c) ==
  AnsweredOk(c) /\ call[c].operation # NoOperation /\ call[c].answer.world = resets =>
    /\ Request(c).tool = "create" =>
         Present(call[c].answer.ticket) /\ tickets[call[c].answer.ticket].source = call[c].operation
    /\ Request(c).tool = "update" =>
         \E m \in mutations : /\ m.operation = call[c].operation
                              /\ m.ticket = call[c].answer.ticket
                              /\ m.snapshot = call[c].answer.row

LEMMA Parts ==
  /\ Held <=> \A c \in Calls : HeldBy(c)
  /\ ReadFits <=> \A c \in Calls : ReadFitsFor(c)
  /\ AnswersStand <=> \A c \in Calls : AnswerStands(c)
BY Zenon DEF Held, HeldBy, ReadFits, ReadFitsFor, AnswersStand, AnswerStands

LEMMA PartsNext ==
  /\ Held' <=> \A c \in Calls : HeldBy(c)'
  /\ ReadFits' <=> \A c \in Calls : ReadFitsFor(c)'
  /\ AnswersStand' <=> \A c \in Calls : AnswerStands(c)'
BY Zenon DEF Held, HeldBy, ReadFits, ReadFitsFor, AnswersStand, AnswerStands

\* The calls keep what they were asked for.
LEMMA KeepsRequests ==
  ASSUME OneRequest, \A d \in Calls : call'[d].operation = call[d].operation /\ call'[d].request = call[d].request
  PROVE  OneRequest'
<1> SUFFICES ASSUME NEW c \in Calls, NEW d \in Calls,
                    call'[c].operation = call'[d].operation, call'[c].operation # NoOperation
             PROVE  call'[c].request = call'[d].request
  BY DEF OneRequest, Request
<1> QED BY DEF OneRequest, Request

\* A step of call c that only changes what the call itself is doing.
LEMMA QuietStep ==
  ASSUME TicketInv, NEW c \in Calls, OnlyCall(c), call' \in [Calls -> CallState],
         UNCHANGED <<tickets, mutations, employees, resets>>,
         call[c].stage \notin {"idle", "done"}, call'[c].stage # "idle",
         HeldBy(c)', ReadFitsFor(c)', AnswerStands(c)',
         AnsweredOk(c)' => call'[c].stage = "done" /\ call'[c].answer.world = resets
  PROVE  TicketInv'
<1> USE DEF TicketInv
<1>0. \A d \in Calls : /\ call'[d].operation = call[d].operation /\ call'[d].request = call[d].request
                       /\ d # c => call'[d] = call[d]
  BY DEF OnlyCall
<1>1. TypeOK'
  BY <1>0 DEF TypeOK
<1>2. Unborn'
  BY <1>0 DEF Unborn
<1>3. OneRequest'
  BY <1>0, KeepsRequests
<1>4. Held'
  <2> SUFFICES ASSUME NEW d \in Calls PROVE HeldBy(d)'
    BY PartsNext
  <2>1. CASE d # c
    <3> SUFFICES ASSUME call[d].stage = "written" PROVE HeldBy(d)'
      BY <1>0, <2>1 DEF HeldBy
    <3>1. HeldBy(d)
      BY Parts
    <3>2. \A e \in Calls \ {d} : call'[e].stage = "written" => Request(e)'.ticket # Request(d)'.ticket
      BY <1>0, <2>1, <3>1 DEF HeldBy, Request
    <3> QED BY <1>0, <2>1, <3>1, <3>2 DEF HeldBy, Request, UpdateMatches, Storable, Changes, Present
  <2> QED BY <2>1
<1>5. ReadFits'
  <2> SUFFICES ASSUME NEW d \in Calls, d # c PROVE ReadFitsFor(d)'
    BY PartsNext
  <2>1. ReadFitsFor(d)
    BY Parts
  <2> QED BY <1>0, <2>1 DEF ReadFitsFor, Request, Present, TransitionAllowed, Changes
<1>6. MutationLog' /\ OneMutation' /\ OneSource'
  BY DEF MutationLog, OneMutation, OneSource, Present
<1>7. AnsweredLast'
  <2>1. resets \in Nat
    BY DEF TypeOK
  <2> QED BY <1>0, <2>1 DEF AnsweredLast, AnsweredOk
<1>8. AnswersStand'
  <2> SUFFICES ASSUME NEW d \in Calls, d # c PROVE AnswerStands(d)'
    BY PartsNext
  <2>1. AnswerStands(d)
    BY Parts
  <2> QED BY <1>0, <2>1 DEF AnswerStands, AnsweredOk, Request, Present
<1>9. RepeatedCallsAgree'
  <2>1. \A d \in Calls : AnsweredOk(d)' /\ call'[d].answer.world # resets' =>
           call'[d].answer = call[d].answer /\ call'[d].operation = call[d].operation
             /\ call'[d].request = call[d].request
    BY <1>0 DEF AnsweredOk
  <2> QED BY <1>1, <1>3, <1>6, <1>7, <1>8, <2>1, AgreeNext
<1> QED BY <1>1, <1>2, <1>3, <1>4, <1>5, <1>6, <1>7, <1>8, <1>9

LEMMA RaisesStep ==
  ASSUME TicketInv, NEW c \in Calls, call[c].stage \notin {"idle", "done"}, NEW k, Raises(c, k),
         k \in {"none", "lost", "ticket_not_found", "ticket_version_conflict", "no_ticket_changes",
                "invalid_ticket_status_transition", "employee_not_found", "tool_execution_error"}
  PROVE  TicketInv'
<1>1. [code |-> k] \in Answers /\ k # "ok"
  BY ErrorAnswers
<1>2. /\ OnlyCall(c) /\ call' \in [Calls -> CallState]
      /\ call'[c].stage = "done" /\ call'[c].answer = [code |-> k]
  BY <1>1, AnsweredCall DEF Raises, TicketInv
<1>3. ~ AnsweredOk(c)'
  BY <1>1, <1>2 DEF AnsweredOk
<1>4. UNCHANGED <<tickets, mutations, employees, resets>>
  BY DEF Raises
<1>5. HeldBy(c)' /\ ReadFitsFor(c)' /\ AnswerStands(c)'
  BY <1>2, <1>3 DEF HeldBy, ReadFitsFor, AnswerStands
<1> QED BY <1>2, <1>3, <1>4, <1>5, QuietStep

\* A call moves on without an answer.
LEMMA MovesStep ==
  ASSUME TicketInv, NEW c \in Calls, call[c].stage \notin {"idle", "done"}, OnlyCall(c),
         call' \in [Calls -> CallState], call'[c].stage \in Open, call'[c].answer = call[c].answer,
         UNCHANGED <<tickets, mutations, employees, resets>>, HeldBy(c)', ReadFitsFor(c)'
  PROVE  TicketInv'
<1>1. ~ AnsweredOk(c)'
  BY DEF TicketInv, AnsweredLast, AnsweredOk
<1>2. AnswerStands(c)' /\ call'[c].stage # "idle"
  BY <1>1 DEF AnswerStands, Open
<1> QED BY <1>1, <1>2, QuietStep

LEMMA FindsNothingStep ==
  ASSUME TicketInv, NEW c \in Calls, FindsNothing(c)
  PROVE  TicketInv'
<1>0. TypeOK /\ "fresh" \in Open /\ Moves(c, "fresh")
  BY DEF TicketInv, FindsNothing, Open
<1>1. /\ OnlyCall(c) /\ call' \in [Calls -> CallState]
      /\ call'[c].stage = "fresh" /\ call'[c].answer = call[c].answer
  BY <1>0, MovedCall
<1>2. HeldBy(c)' /\ ReadFitsFor(c)'
  BY <1>1 DEF HeldBy, ReadFitsFor
<1> QED BY <1>0, <1>1, <1>2, MovesStep DEF FindsNothing

\* A call is answered with what the tables say.
LEMMA ReplayStep ==
  ASSUME TicketInv, NEW c \in Calls, call[c].stage \notin {"idle", "done"}, NEW i \in Ids, NEW row \in Row,
         Answered(c, [code |-> "ok", ticket |-> i, row |-> row, world |-> resets]),
         UNCHANGED <<tickets, mutations, employees, resets>>,
         Request(c).tool = "create" => Present(i) /\ tickets[i].source = call[c].operation,
         Request(c).tool = "update" =>
           \E m \in mutations : m.operation = call[c].operation /\ m.ticket = i /\ m.snapshot = row
  PROVE  TicketInv'
<1> DEFINE a == [code |-> "ok", ticket |-> i, row |-> row, world |-> resets]
<1>1. TypeOK /\ a \in Answers
  BY OkAnswer DEF TicketInv
<1>2. /\ OnlyCall(c) /\ call' \in [Calls -> CallState]
      /\ call'[c].stage = "done" /\ call'[c].answer = a
  BY <1>1, AnsweredCall
<1>3. HeldBy(c)' /\ ReadFitsFor(c)'
  BY <1>2 DEF HeldBy, ReadFitsFor
<1>4. AnswerStands(c)'
  BY <1>2 DEF AnswerStands, OnlyCall, Request, Present
<1> QED BY <1>2, <1>3, <1>4, QuietStep

LEMMA CreateReplaysStep ==
  ASSUME TicketInv, NEW c \in Calls, CreateReplays(c)
  PROVE  TicketInv'
<1>1. PICK i \in TicketsOf(call[c].operation) :
        Answered(c, [code |-> "ok", ticket |-> i, row |-> tickets[i], world |-> resets])
  BY DEF CreateReplays
<1>2. i \in Ids /\ Present(i) /\ tickets[i].source = call[c].operation
  BY DEF TicketsOf
<1>3. tickets[i] \in Row
  BY <1>2 DEF TicketInv, TypeOK, Present
<1>4. call[c].stage = "begun" /\ Request(c).tool = "create"
      /\ UNCHANGED <<tickets, mutations, employees, resets>>
  BY DEF CreateReplays, Is
<1> QED BY <1>1, <1>2, <1>3, <1>4, ReplayStep

LEMMA UpdateReplaysStep ==
  ASSUME TicketInv, NEW c \in Calls, UpdateReplays(c)
  PROVE  TicketInv'
<1>1. PICK m \in MutationsOf(call[c].operation) :
        Answered(c, [code |-> "ok", ticket |-> m.ticket, row |-> m.snapshot, world |-> resets])
  BY DEF UpdateReplays
<1>2. m \in mutations /\ m.operation = call[c].operation
  BY DEF MutationsOf
<1>3. m.ticket \in Ids /\ m.snapshot \in Row
  BY <1>2 DEF TicketInv, TypeOK, Mutation
<1>4. call[c].stage = "begun" /\ Request(c).tool = "update"
      /\ UNCHANGED <<tickets, mutations, employees, resets>>
  BY DEF UpdateReplays, Is
<1> QED BY <1>1, <1>2, <1>3, <1>4, ReplayStep

LEMMA CheckEmployeesStep ==
  ASSUME TicketInv, NEW c \in Calls, CheckEmployees(c)
  PROVE  TicketInv'
<1>1. call[c].stage = "fresh" /\ Request(c).tool = "create"
  BY DEF CheckEmployees, Is
<1>2. CASE Raises(c, "employee_not_found")
  BY <1>1, <1>2, RaisesStep
<1>3. CASE Reads(c, NoTicket)
  <2>1. /\ OnlyCall(c) /\ call' \in [Calls -> CallState]
        /\ call'[c].stage = "decided" /\ call'[c].answer = call[c].answer
    BY <1>3, ReadCall DEF TicketInv
  <2>2. HeldBy(c)' /\ ReadFitsFor(c)'
    BY <1>1, <2>1 DEF HeldBy, ReadFitsFor, OnlyCall, Request
  <2> QED BY <1>1, <1>3, <2>1, <2>2, MovesStep DEF Open, Reads
<1> QED BY <1>2, <1>3 DEF CheckEmployees

LEMMA ReadTicketStep ==
  ASSUME TicketInv, NEW c \in Calls, ReadTicket(c)
  PROVE  TicketInv'
<1> DEFINE q == Request(c)
           row == tickets[q.ticket]
<1>1. call[c].stage = "fresh" /\ q.tool = "update" /\ q \in Requests
  BY CallFields DEF ReadTicket, Is, TicketInv
<1>2. q.ticket \in Ids /\ q.expected \in Nat
  BY <1>1, RequestTypes
<1>3. CASE Present(q.ticket) /\ row.version = q.expected /\ TransitionAllowed(q, row) /\ Reads(c, row)
  <2>1. row \in Row
    BY <1>2, <1>3 DEF Present, TicketInv, TypeOK
  <2>2. /\ OnlyCall(c) /\ call' \in [Calls -> CallState]
        /\ call'[c].stage = "decided" /\ call'[c].answer = call[c].answer /\ call'[c].read = row
    BY <1>3, <2>1, ReadCall DEF TicketInv
  <2>3. HeldBy(c)'
    BY <2>2 DEF HeldBy
  <2>4. tickets' = tickets /\ Request(c)' = q
    BY <1>3, <2>2 DEF Reads, OnlyCall, Request
  <2>5. ReadFitsFor(c)'
    BY <1>2, <1>3, <2>1, <2>2, <2>4 DEF ReadFitsFor, Present
  <2> QED BY <1>1, <1>3, <2>2, <2>3, <2>5, MovesStep DEF Open, Reads
<1>4. CASE \/ Raises(c, "ticket_not_found") \/ Raises(c, "ticket_version_conflict")
           \/ Raises(c, "no_ticket_changes") \/ Raises(c, "invalid_ticket_status_transition")
  BY <1>1, <1>4, RaisesStep
<1> QED BY <1>3, <1>4 DEF ReadTicket

LEMMA UpdateTicketStep ==
  ASSUME TicketInv, NEW c \in Calls, UpdateTicket(c)
  PROVE  TicketInv'
<1> DEFINE q == Request(c)
<1>1. call[c].stage = "decided" /\ q.tool = "update"
  BY DEF UpdateTicket, Is
<1>2. CASE /\ UpdateMatches(q) /\ Storable(q, Changes(q, call[c].read))
           /\ Moves(c, "written") /\ UNCHANGED <<tickets, mutations, employees, resets>>
  <2>1. /\ OnlyCall(c) /\ call' \in [Calls -> CallState] /\ call'[c].stage = "written"
        /\ call'[c].answer = call[c].answer /\ call'[c].read = call[c].read
    BY <1>2, MovedCall DEF TicketInv, Open
  <2>2. \A d \in Calls \ {c} : call[d].stage = "written" => Request(d).ticket # q.ticket
    BY DEF UpdateTicket, Locked, Is, TicketInv, Held
  <2>3. \A d \in Calls : Request(d)' = Request(d)
    BY <2>1 DEF OnlyCall, Request
  <2>4. HeldBy(c)'
    BY <1>1, <1>2, <2>1, <2>2, <2>3 DEF HeldBy, OnlyCall, UpdateMatches, Present, Storable, Changes
  <2>5. ReadFitsFor(c)
    BY Parts DEF TicketInv
  <2>6. ReadFitsFor(c)'
    BY <1>1, <1>2, <2>1, <2>3, <2>5 DEF ReadFitsFor, OnlyCall, TransitionAllowed, Changes, Present
  <2> QED BY <1>1, <1>2, <2>1, <2>4, <2>6, MovesStep DEF Open
<1>3. CASE \/ Raises(c, "tool_execution_error") \/ Raises(c, "ticket_version_conflict")
           \/ Raises(c, "ticket_not_found")
  BY <1>1, <1>3, RaisesStep
<1> QED BY <1>2, <1>3 DEF UpdateTicket

LEMMA AbandonStep ==
  ASSUME TicketInv, NEW c \in Calls, Abandon(c)
  PROVE  TicketInv'
<1>1. call[c].stage \notin {"idle", "done"} /\ Raises(c, "lost")
  BY DEF Abandon, Open
<1> QED BY <1>1, RaisesStep

LEMMA BeginStep ==
  ASSUME TicketInv, NEW c \in Calls, NEW o \in Operations \cup {NoOperation}, NEW q \in Requests, Begin(c, o, q)
  PROVE  TicketInv'
<1> USE DEF TicketInv
<1>1. /\ \A d \in Calls \ {c} : call'[d] = call[d]
      /\ call' \in [Calls -> CallState]
      /\ call'[c].stage = "begun" /\ call'[c].operation = o /\ call'[c].request = q
      /\ call'[c].answer = call[c].answer
  BY BegunCall
<1>2. /\ call[c].stage = "idle"
      /\ UNCHANGED <<tickets, mutations, employees, resets>>
      /\ \A d \in Calls : call[d].operation = o /\ o # NoOperation => Request(d) = q
  BY DEF Begin
<1>3. ~ AnsweredOk(c)'
  BY <1>1, <1>2 DEF AnsweredLast, AnsweredOk
<1>4. TypeOK' /\ Unborn'
  BY <1>1, <1>2 DEF TypeOK, Unborn
<1>5. OneRequest'
  BY <1>1, <1>2 DEF OneRequest, Request
<1>7. Held'
  <2> SUFFICES ASSUME NEW d \in Calls, d # c PROVE HeldBy(d)'
    BY <1>1, PartsNext DEF HeldBy
  <2>1. HeldBy(d)
    BY Parts
  <2> QED BY <1>1, <1>2, <2>1 DEF HeldBy, Request, UpdateMatches, Storable, Changes, Present
<1>8. ReadFits'
  <2> SUFFICES ASSUME NEW d \in Calls, d # c PROVE ReadFitsFor(d)'
    BY <1>1, PartsNext DEF ReadFitsFor
  <2>1. ReadFitsFor(d)
    BY Parts
  <2> QED BY <1>1, <1>2, <2>1 DEF ReadFitsFor, Request, Present, TransitionAllowed, Changes
<1>9. MutationLog' /\ OneMutation' /\ OneSource'
  BY <1>2 DEF MutationLog, OneMutation, OneSource, Present
<1>10. AnsweredLast'
  BY <1>1, <1>2, <1>3 DEF AnsweredLast, AnsweredOk
<1>11. AnswersStand'
  <2> SUFFICES ASSUME NEW d \in Calls, d # c PROVE AnswerStands(d)'
    BY <1>3, PartsNext DEF AnswerStands
  <2>1. AnswerStands(d)
    BY Parts
  <2> QED BY <1>1, <1>2, <2>1 DEF AnswerStands, AnsweredOk, Request, Present
<1>12. RepeatedCallsAgree'
  <2>1. \A d \in Calls : AnsweredOk(d)' => call'[d] = call[d]
    BY <1>1, <1>3
  <2> QED BY <1>4, <1>5, <1>9, <1>10, <1>11, <2>1, AgreeNext
<1> QED BY <1>4, <1>5, <1>7, <1>8, <1>9, <1>10, <1>11, <1>12

LEMMA NewRows ==
  ASSUME NEW o \in Operations \cup {NoOperation}
  PROVE  NewRow(o) \in Row /\ NewRow(o).source = o
<1>1. (CHOOSE t \in Titles : TRUE) \in Titles
  BY TicketsAssumption
<1> QED BY <1>1 DEF NewRow, Row, StoredStatuses

LEMMA InsertTicketStep ==
  ASSUME TicketInv, NEW c \in Calls, InsertTicket(c)
  PROVE  TicketInv'
<1> USE DEF TicketInv
<1> DEFINE o == call[c].operation
           row == NewRow(o)
           a == [code |-> "ok", ticket |-> c, row |-> row, world |-> resets]
<1>1. call[c].stage = "decided" /\ Request(c).tool = "create"
  BY DEF InsertTicket, Is
<1>2. CASE Raises(c, "tool_execution_error")
  BY <1>1, <1>2, RaisesStep
<1>3. CASE /\ o = NoOperation \/ TicketsOf(o) = {}
           /\ tickets' = [tickets EXCEPT ![c] = row] /\ Answered(c, a)
           /\ UNCHANGED <<mutations, employees, resets>>
  <2>0. row \in Row /\ row.source = o /\ c \in Ids
    BY NewRows, CallFields DEF Ids
  <2>1. a \in Answers
    BY <2>0, OkAnswer
  <2>2. /\ OnlyCall(c) /\ call' \in [Calls -> CallState] /\ call'[c].stage = "done" /\ call'[c].answer = a
    BY <1>1, <1>3, <2>1, AnsweredCall
  <2> HIDE DEF row
  <2>3. /\ tickets \in [Ids -> Row \cup {NoTicket}] /\ tickets[c] = NoTicket
        /\ tickets'[c] = row /\ row # NoTicket
        /\ \A i \in Ids \ {c} : tickets'[i] = tickets[i]
    BY <1>1, <1>3, <2>0, Columns DEF TypeOK, Unborn
  <2>4. \A d \in Calls : /\ call'[d].operation = call[d].operation /\ call'[d].request = call[d].request
                         /\ d # c => call'[d] = call[d]
    BY <2>2 DEF OnlyCall
  <2>5. TypeOK' /\ Unborn'
    BY <1>1, <1>3, <2>0, <2>2, <2>3, <2>4 DEF TypeOK, Unborn
  <2>6. OneRequest'
    BY <2>4, KeepsRequests
  <2>7. Held'
    <3> SUFFICES ASSUME NEW d \in Calls, call'[d].stage = "written" PROVE HeldBy(d)'
      BY PartsNext DEF HeldBy
    <3>1. d # c /\ HeldBy(d) /\ call[d].stage = "written"
      BY <2>2, <2>4, Parts
    <3>2. Request(d).ticket \in Ids \ {c}
      BY <2>3, <3>1, RequestTypes, CallFields DEF HeldBy, UpdateMatches, Present
    <3> QED BY <2>2, <2>3, <2>4, <3>1, <3>2 DEF HeldBy, Request, UpdateMatches, Storable, Changes, Present
  <2>8. ReadFits'
    <3> SUFFICES ASSUME NEW d \in Calls, call'[d].stage \in {"decided", "written"}, Request(d)'.tool = "update",
                        call'[d].operation # NoOperation
                 PROVE ReadFitsFor(d)'
      BY PartsNext DEF ReadFitsFor
    <3>1. d # c /\ ReadFitsFor(d) /\ call'[d] = call[d]
      BY <2>2, <2>4, Parts
    <3>2. Request(d).ticket \in Ids \ {c}
      BY <2>3, <3>1, RequestTypes, CallFields DEF ReadFitsFor, Present, Request
    <3> QED BY <2>3, <3>1, <3>2 DEF ReadFitsFor, Request, Present, TransitionAllowed, Changes
  <2>9. MutationLog'
    <3>1. \A m \in mutations : m.ticket \in Ids \ {c}
      BY <2>3 DEF MutationLog, Present, TypeOK, Mutation
    <3> QED BY <1>3, <2>3, <3>1 DEF MutationLog, Present
  <2>10. OneMutation'
    BY <1>3 DEF OneMutation
  <2>11. OneSource'
    BY <1>3, <2>0, <2>3 DEF OneSource, TicketsOf, Present
  <2>12. AnsweredLast'
    BY <1>3, <2>2, <2>4 DEF AnsweredLast, AnsweredOk, TypeOK
  <2>13. AnswersStand'
    <3> SUFFICES ASSUME NEW d \in Calls PROVE AnswerStands(d)'
      BY PartsNext
    <3>1. CASE d = c
      BY <1>1, <2>0, <2>2, <2>3, <2>4, <3>1 DEF AnswerStands, Request, Present
    <3>2. CASE d # c
      <4>1. AnswerStands(d) /\ call'[d] = call[d]
        BY <2>4, <3>2, Parts
      <4>2. AnsweredOk(d) => call[d].answer.ticket \in Ids
        BY OkAnswers, CallFields DEF AnsweredOk
      <4>3. Present(call[d].answer.ticket) => call[d].answer.ticket # c
        BY <2>3 DEF Present
      <4> QED BY <1>3, <2>3, <4>1, <4>2, <4>3 DEF AnswerStands, AnsweredOk, Request, Present
    <3> QED BY <3>1, <3>2
  <2>14. RepeatedCallsAgree'
    <3>1. \A d \in Calls : AnsweredOk(d)' /\ call'[d].answer.world # resets' => call'[d] = call[d]
      BY <1>3, <2>2, <2>4
    <3> QED BY <2>5, <2>6, <2>10, <2>11, <2>12, <2>13, <3>1, AgreeNext
  <2> QED BY <2>5, <2>6, <2>7, <2>8, <2>9, <2>10, <2>11, <2>12, <2>13, <2>14
<1> QED BY <1>2, <1>3 DEF InsertTicket

\* A row that is updated with storable changes remains a row, one version later.
LEMMA UpdatedRow ==
  ASSUME NEW c \in Calls, Request(c) \in Requests, Request(c).tool = "update",
         Storable(Request(c), Changes(Request(c), call[c].read)), NEW r \in Row
  PROVE  /\ Updated(c, r) \in Row
         /\ Updated(c, r).version = r.version + 1 /\ Updated(c, r).source = r.source
         /\ \/ Updated(c, r).status = r.status
            \/ /\ "status" \in Changes(Request(c), call[c].read)
               /\ Updated(c, r).status = Request(c).status /\ Request(c).status \in StoredStatuses
<1> DEFINE q == Request(c)
           changes == Changes(q, call[c].read)
           st == IF "status" \in changes THEN q.status ELSE r.status
           ti == IF "title" \in changes THEN q.title ELSE r.title
<1>1. st \in StoredStatuses
  BY Columns DEF Storable
<1>2. ti \in Titles
  <2>1. CASE "title" \in changes
    BY <2>1, RequestTypes DEF Storable, Changes
  <2>2. CASE "title" \notin changes
    BY <2>2, Columns
  <2> QED BY <2>1, <2>2
<1>3. Updated(c, r) = [status |-> st, title |-> ti, version |-> r.version + 1, source |-> r.source]
  BY DEF Updated
<1>4. st = r.status \/ ("status" \in changes /\ st = q.status)
  OBVIOUS
<1> HIDE DEF st, ti, changes
<1> QED BY <1>1, <1>2, <1>3, <1>4, Columns DEF Row, changes

LEMMA CommitUpdateStep ==
  ASSUME TicketInv, NEW c \in Calls, CommitUpdate(c)
  PROVE  TicketInv'
<1> USE DEF TicketInv
<1> DEFINE q == Request(c)
           o == call[c].operation
           t == q.ticket
           row == Updated(c, tickets[t])
           a == [code |-> "ok", ticket |-> t, row |-> row, world |-> resets]
<1>1. call[c].stage = "written" /\ q.tool = "update" /\ q \in Requests
  BY CallFields DEF CommitUpdate, Is
<1>2. CASE Raises(c, "tool_execution_error")
  BY <1>1, <1>2, RaisesStep
<1>3. CASE /\ MutationsOf(o) = {}
           /\ tickets' = [tickets EXCEPT ![t] = row]
           /\ mutations' = mutations \cup (IF o = NoOperation THEN {} ELSE {MutationFor(c, row)})
           /\ Answered(c, a) /\ UNCHANGED <<employees, resets>>
  <2>1. /\ HeldBy(c) /\ t \in Ids /\ q.expected \in Nat /\ q.expected > 0 /\ o \in Operations \cup {NoOperation}
        /\ tickets \in [Ids -> Row \cup {NoTicket}]
    BY <1>1, Parts, RequestTypes, CallFields DEF TypeOK
  <2>2. /\ tickets[t] \in Row /\ tickets[t] # NoTicket /\ tickets[t].version = q.expected
        /\ Storable(q, Changes(q, call[c].read))
    BY <1>1, <2>1 DEF HeldBy, UpdateMatches, Present
  <2>3. row \in Row /\ row.version = q.expected + 1 /\ row.source = tickets[t].source /\ row # NoTicket
    BY <1>1, <2>2, UpdatedRow, Columns
  <2>4. a \in Answers
    BY <2>1, <2>3, OkAnswer
  <2>5. /\ OnlyCall(c) /\ call' \in [Calls -> CallState] /\ call'[c].stage = "done" /\ call'[c].answer = a
    BY <1>1, <1>3, <2>4, AnsweredCall
  <2>6. \A d \in Calls : /\ call'[d].operation = call[d].operation /\ call'[d].request = call[d].request
                         /\ d # c => call'[d] = call[d]
    BY <2>5 DEF OnlyCall
  <2> DEFINE new == MutationFor(c, row)
  <2>7. /\ new.ticket = t /\ new.operation = o /\ new.previous = q.expected
        /\ new.new = q.expected + 1 /\ new.snapshot = row
        /\ o # NoOperation => new \in Mutation
    BY <2>1, <2>3 DEF MutationFor, Mutation
  <2> HIDE DEF row, new
  <2>8. /\ tickets'[t] = row
        /\ \A i \in Ids \ {t} : tickets'[i] = tickets[i]
        /\ \A i \in Ids : Present(i)' <=> Present(i)
        /\ \A i \in Ids : Present(i) => tickets'[i].source = tickets[i].source
    BY <1>3, <2>1, <2>2, <2>3 DEF Present
  <2>9. /\ mutations \subseteq mutations'
        /\ \A m \in mutations' : m \in mutations \/ (m = new /\ o # NoOperation)
        /\ o # NoOperation => new \in mutations'
    <3>1. mutations' = mutations \cup (IF o = NoOperation THEN {} ELSE {new})
      <4>1. mutations' = mutations \cup (IF o = NoOperation THEN {} ELSE {MutationFor(c, row)})
        BY <1>3
      <4>2. new = MutationFor(c, row)
        BY DEF new
      <4> QED BY <4>1, <4>2
    <3>2. CASE o = NoOperation
      BY <3>1, <3>2
    <3>3. CASE o # NoOperation
      BY <3>1, <3>3
    <3> QED BY <3>2, <3>3
  <2>10. TypeOK'
    BY <1>1, <1>3, <2>3, <2>5, <2>6, <2>7, <2>9 DEF TypeOK
  <2>11. Unborn'
    <3> SUFFICES ASSUME NEW d \in Calls, call'[d].stage # "done" PROVE tickets'[d] = NoTicket
      BY DEF Unborn
    <3>1. d # c /\ tickets[d] = NoTicket /\ d \in Ids
      BY <2>5, <2>6 DEF Unborn, Ids
    <3> QED BY <2>2, <2>8, <3>1
  <2>12. OneRequest'
    BY <2>6, KeepsRequests
  <2>13. Held'
    <3> SUFFICES ASSUME NEW d \in Calls, call'[d].stage = "written" PROVE HeldBy(d)'
      BY PartsNext DEF HeldBy
    <3>1. d # c /\ HeldBy(d) /\ call[d].stage = "written"
      BY <2>5, <2>6, Parts
    <3>2. Request(d).ticket \in Ids \ {t}
      BY <1>1, <2>1, <3>1, RequestTypes, CallFields DEF HeldBy
    <3> QED BY <2>5, <2>6, <2>8, <3>1, <3>2 DEF HeldBy, Request, UpdateMatches, Storable, Changes, Present
  <2>14. ReadFits'
    <3> SUFFICES ASSUME NEW d \in Calls, call'[d].stage \in {"decided", "written"}, Request(d)'.tool = "update",
                        call'[d].operation # NoOperation
                 PROVE ReadFitsFor(d)'
      BY PartsNext DEF ReadFitsFor
    <3>1. d # c /\ ReadFitsFor(d) /\ call'[d] = call[d]
      BY <2>5, <2>6, Parts
    <3>2. Request(d).ticket \in Ids /\ Request(d).expected \in Nat
      BY <3>1, RequestTypes, CallFields DEF Request
    <3>3. CASE Request(d).ticket = t
      BY <2>1, <2>2, <2>3, <2>8, <3>1, <3>2, <3>3, SMTT(20)
         DEF ReadFitsFor, Request, Present, TransitionAllowed, Changes
    <3>4. CASE Request(d).ticket # t
      BY <2>8, <3>1, <3>2, <3>4 DEF ReadFitsFor, Request, Present, TransitionAllowed, Changes
    <3> QED BY <3>3, <3>4
  <2>15. MutationLog'
    <3>1. \A m \in mutations : m.ticket \in Ids /\ m.new \in Nat /\ m.previous \in Nat
      BY DEF TypeOK, Mutation
    <3>2. \A m \in mutations : m.ticket = t => m.new <= q.expected /\ m.new = m.previous + 1
      BY <2>2 DEF MutationLog
    <3>3. \A m, n \in mutations' : m.ticket = n.ticket /\ m.previous = n.previous => m = n
      BY <2>1, <2>7, <2>9, <3>1, <3>2 DEF MutationLog
    <3>4. \A m \in mutations' :
             /\ Present(m.ticket)'
             /\ m.new = m.previous + 1 /\ m.snapshot.version = m.new
             /\ m.new <= tickets'[m.ticket].version
             /\ m.new = tickets'[m.ticket].version => m.snapshot = tickets'[m.ticket]
      <4> SUFFICES ASSUME NEW m \in mutations'
                   PROVE  /\ Present(m.ticket)'
                          /\ m.new = m.previous + 1 /\ m.snapshot.version = m.new
                          /\ m.new <= tickets'[m.ticket].version
                          /\ m.new = tickets'[m.ticket].version => m.snapshot = tickets'[m.ticket]
        OBVIOUS
      <4>1. CASE m \in mutations /\ m.ticket = t
        BY <2>1, <2>2, <2>3, <2>8, <3>1, <3>2, <4>1 DEF MutationLog
      <4>2. CASE m \in mutations /\ m.ticket # t
        BY <2>8, <3>1, <4>2 DEF MutationLog
      <4>3. CASE m = new
        BY <2>1, <2>2, <2>3, <2>7, <2>8, <4>3 DEF Present
      <4> QED BY <2>9, <4>1, <4>2, <4>3
    <3> QED BY <3>3, <3>4 DEF MutationLog
  <2>16. OneMutation'
    BY <1>3, <2>7, <2>9 DEF OneMutation, MutationsOf
  <2>17. OneSource'
    BY <2>8 DEF OneSource
  <2>18. AnsweredLast'
    BY <1>3, <2>5, <2>6 DEF AnsweredLast, AnsweredOk, TypeOK
  <2>19. AnswersStand'
    <3> SUFFICES ASSUME NEW d \in Calls PROVE AnswerStands(d)'
      BY PartsNext
    <3>1. CASE d = c
      BY <1>1, <2>5, <2>6, <2>7, <2>9, <3>1 DEF AnswerStands, Request
    <3>2. CASE d # c
      <4>1. AnswerStands(d) /\ call'[d] = call[d]
        BY <2>6, <3>2, Parts
      <4>2. AnsweredOk(d) => call[d].answer.ticket \in Ids
        BY OkAnswers, CallFields DEF AnsweredOk
      <4> QED BY <1>3, <2>8, <2>9, <4>1, <4>2 DEF AnswerStands, AnsweredOk, Request
    <3> QED BY <3>1, <3>2
  <2>20. RepeatedCallsAgree'
    <3>1. \A d \in Calls : AnsweredOk(d)' /\ call'[d].answer.world # resets' => call'[d] = call[d]
      BY <1>3, <2>5, <2>6
    <3> QED BY <2>10, <2>12, <2>16, <2>17, <2>18, <2>19, <3>1, AgreeNext
  <2> QED BY <2>10, <2>11, <2>12, <2>13, <2>14, <2>15, <2>16, <2>17, <2>18, <2>19, <2>20
<1> QED BY <1>2, <1>3 DEF CommitUpdate

\* A world has no created tickets, and its seeded ticket has no operation.
LEMMA Worlds ==
  ASSUME NEW s \in Seeds
  PROVE  /\ World(s) \in [Ids -> Row \cup {NoTicket}]
         /\ \A c \in Calls : World(s)[c] = NoTicket
         /\ \A i \in Ids : World(s)[i] # NoTicket => World(s)[i].source = NoOperation
         /\ s.employees \subseteq Employees
<1>1. s.ticket \in Row \cup {NoTicket} /\ s.employees \subseteq Employees
      /\ (s.ticket # NoTicket => s.ticket.source = NoOperation)
  BY TicketsAssumption DEF Seed
<1> QED BY <1>1, TicketsAssumption DEF World, Ids

LEMMA ResetStep ==
  ASSUME TicketInv, NEW s \in Seeds, Reset(s)
  PROVE  TicketInv'
<1> USE DEF TicketInv
<1>1. /\ tickets' = World(s) /\ mutations' = {} /\ employees' = s.employees
      /\ resets' = resets + 1 /\ resets \in Nat /\ UNCHANGED call
      /\ \A c \in Calls : call[c].stage \in Open => call[c].operation = NoOperation
      /\ \A c \in Calls : call[c].stage # "written"
  BY DEF Reset, TypeOK
<1>2. TypeOK'
  BY <1>1, Worlds DEF TypeOK
<1>3. Unborn' /\ OneRequest'
  BY <1>1, Worlds DEF Unborn, OneRequest, Request
<1>4. Held' /\ ReadFits'
  BY <1>1 DEF Held, ReadFits, Request, Open
<1>5. MutationLog' /\ OneMutation'
  BY <1>1 DEF MutationLog, OneMutation
<1>6. OneSource'
  BY <1>1, Worlds DEF OneSource, Present
<1>7. \A c \in Calls : AnsweredOk(c) => call[c].answer.world <= resets /\ call[c].answer.world \in Nat
  BY CallFields, OkAnswers DEF AnsweredLast, AnsweredOk
<1>8. AnsweredLast' /\ AnswersStand'
  BY <1>1, <1>7 DEF AnsweredLast, AnswersStand, AnsweredOk
<1>9. RepeatedCallsAgree'
  BY <1>1 DEF RepeatedCallsAgree, Request
<1> QED BY <1>2, <1>3, <1>4, <1>5, <1>6, <1>8, <1>9

LEMMA TicketInit == Init => TicketInv
<1> SUFFICES ASSUME Init PROVE TicketInv
  OBVIOUS
<1>1. PICK s \in Seeds : tickets = World(s) /\ employees = s.employees
  BY DEF Init
<1>2. /\ mutations = {} /\ resets = 0
      /\ \A c \in Calls : /\ call[c].stage = "idle" /\ call[c].operation = NoOperation
                          /\ call[c].answer.code = "none"
  BY DEF Init
<1>3. [stage |-> "idle", operation |-> NoOperation, request |-> Unset,
       read |-> NoTicket, answer |-> [code |-> "none"]] \in CallState
  BY ErrorAnswers DEF CallState
<1>4. TypeOK
  BY <1>1, <1>2, <1>3, Worlds DEF TypeOK, Init
<1>5. Unborn /\ OneRequest /\ Held /\ ReadFits /\ OneMutation /\ AnsweredLast /\ AnswersStand
  BY <1>1, <1>2, Worlds DEF Unborn, OneRequest, Held, ReadFits, OneMutation, AnsweredLast, AnswersStand, AnsweredOk
<1>6. MutationLog /\ RepeatedCallsAgree
  BY <1>2 DEF MutationLog, RepeatedCallsAgree
<1>7. OneSource
  BY <1>1, Worlds DEF OneSource, Present
<1> QED BY <1>4, <1>5, <1>6, <1>7 DEF TicketInv

LEMMA TicketStep == TicketInv /\ [Next]_vars => TicketInv'
<1> SUFFICES ASSUME TicketInv, [Next]_vars PROVE TicketInv'
  OBVIOUS
<1>1. ASSUME NEW c \in Calls, NEW o \in Operations \cup {NoOperation}, NEW q \in Requests, Begin(c, o, q)
      PROVE  TicketInv'
  BY <1>1, BeginStep
<1>2. ASSUME NEW c \in Calls, CreateReplays(c) PROVE TicketInv'
  BY <1>2, CreateReplaysStep
<1>3. ASSUME NEW c \in Calls, UpdateReplays(c) PROVE TicketInv'
  BY <1>3, UpdateReplaysStep
<1>4. ASSUME NEW c \in Calls, FindsNothing(c) PROVE TicketInv'
  BY <1>4, FindsNothingStep
<1>5. ASSUME NEW c \in Calls, CheckEmployees(c) PROVE TicketInv'
  BY <1>5, CheckEmployeesStep
<1>6. ASSUME NEW c \in Calls, InsertTicket(c) PROVE TicketInv'
  BY <1>6, InsertTicketStep
<1>7. ASSUME NEW c \in Calls, ReadTicket(c) PROVE TicketInv'
  BY <1>7, ReadTicketStep
<1>8. ASSUME NEW c \in Calls, UpdateTicket(c) PROVE TicketInv'
  BY <1>8, UpdateTicketStep
<1>9. ASSUME NEW c \in Calls, CommitUpdate(c) PROVE TicketInv'
  BY <1>9, CommitUpdateStep
<1>10. ASSUME NEW c \in Calls, Abandon(c) PROVE TicketInv'
  BY <1>10, AbandonStep
<1>11. ASSUME NEW s \in Seeds, Reset(s) PROVE TicketInv'
  BY <1>11, ResetStep
<1>12. CASE UNCHANGED vars
  <2>1. UNCHANGED <<tickets, mutations, employees, call, resets>>
    BY <1>12 DEF vars
  <2> QED BY <2>1 DEF TicketInv, TypeOK, Unborn, OneRequest, Held, ReadFits, MutationLog, OneMutation,
                      OneSource, AnsweredLast, AnswersStand, RepeatedCallsAgree, AnsweredOk, Request,
                      Present, UpdateMatches, Storable, Changes, TransitionAllowed
<1> QED BY <1>1, <1>2, <1>3, <1>4, <1>5, <1>6, <1>7, <1>8, <1>9, <1>10, <1>11, <1>12 DEF Next

LEMMA TicketInvariant == Spec => []TicketInv
BY TicketInit, TicketStep, PTL DEF Spec
-----------------------------------------------------------------------------
\* Nothing that the table refuses is stored, and every call is answered with an
\* error of its handler or a ticket.
THEOREM TicketTypes == Spec => []TypeOK
<1>1. TicketInv => TypeOK
  BY DEF TicketInv
<1> QED BY <1>1, TicketInvariant, PTL

\* No update is lost: the mutations of a ticket are its versions, one after another.
THEOREM NoLostUpdate == Spec => []MutationLog
<1>1. TicketInv => MutationLog
  BY DEF TicketInv
<1> QED BY <1>1, TicketInvariant, PTL

\* The handlers are idempotent on their own, also when their calls overlap.
THEOREM Idempotent == Spec => []RepeatedCallsAgree
<1>1. TicketInv => RepeatedCallsAgree
  BY DEF TicketInv
<1> QED BY <1>1, TicketInvariant, PTL

\* update_ticket replaces the row it has looked at.
Replaces ==
  \A c \in Calls : Commits(c) /\ call[c].operation # NoOperation
                     => tickets[Request(c).ticket] = call[c].read

THEOREM DecidedIsReplaced == Spec => ReplacesWhatItRead
<1>1. TicketInv => [Replaces]_vars
  <2> SUFFICES ASSUME TicketInv, NEW c \in Calls, Commits(c), call[c].operation # NoOperation
               PROVE  tickets[Request(c).ticket] = call[c].read
    BY DEF Replaces
  <2>1. HeldBy(c) /\ ReadFitsFor(c)
    BY Parts DEF TicketInv
  <2> QED BY <2>1 DEF Commits, Is, HeldBy, ReadFitsFor, UpdateMatches
<1>2. []TicketInv => [][Replaces]_vars
  BY <1>1, PTL
<1>3. [][Replaces]_vars => ReplacesWhatItRead
  BY DEF Replaces, ReplacesWhatItRead
<1> QED BY <1>2, <1>3, TicketInvariant, PTL

\* Statuses change along the transitions, for every row that the ledger's updates replace.
Transitions ==
  \A i \in Ids :
     tickets[i] # NoTicket /\ tickets'[i] # NoTicket /\ tickets'[i].status # tickets[i].status =>
       \/ tickets'[i].status \in AllowedFrom(tickets[i].status)
       \/ resets' # resets
       \/ \E c \in Calls : Commits(c) /\ call[c].operation = NoOperation

LEMMA CommitTransitions ==
  ASSUME TicketInv, NEW c \in Calls, CommitUpdate(c)
  PROVE  Transitions
<1> SUFFICES ASSUME NEW i \in Ids, tickets'[i] # tickets[i], tickets'[i].status # tickets[i].status
             PROVE  \/ tickets'[i].status \in AllowedFrom(tickets[i].status)
                    \/ Commits(c) /\ call[c].operation = NoOperation
  BY DEF Transitions
<1> DEFINE q == Request(c)
           o == call[c].operation
           row == Updated(c, tickets[q.ticket])
           a == [code |-> "ok", ticket |-> q.ticket, row |-> row, world |-> resets]
<1>1. /\ call[c].stage = "written" /\ q.tool = "update" /\ q \in Requests
      /\ tickets \in [Ids -> Row \cup {NoTicket}]
  BY CallFields DEF CommitUpdate, Is, TicketInv, TypeOK
<1>2. tickets' = [tickets EXCEPT ![q.ticket] = row] /\ Answered(c, a)
  <2>1. ~ Raises(c, "tool_execution_error")
    BY DEF Raises
  <2> QED BY <2>1 DEF CommitUpdate
<1>3. HeldBy(c) /\ ReadFitsFor(c) /\ q.ticket \in Ids
  BY <1>1, Parts, RequestTypes DEF TicketInv
<1>4. tickets[q.ticket] \in Row /\ Storable(q, Changes(q, call[c].read)) /\ UpdateMatches(q)
  BY <1>1, <1>3 DEF HeldBy, UpdateMatches, Present
<1>5. row \in Row /\ (\/ row.status = tickets[q.ticket].status
                      \/ /\ "status" \in Changes(q, call[c].read)
                         /\ row.status = q.status /\ q.status \in StoredStatuses)
  BY <1>1, <1>4, UpdatedRow
<1> HIDE DEF row
<1>6. i = q.ticket /\ tickets'[i] = row
  BY <1>1, <1>2, <1>3
<1>7. "status" \in Changes(q, call[c].read) /\ row.status = q.status /\ q.status \in StoredStatuses
  BY <1>5, <1>6
<1>8. CASE o = NoOperation
  <2>1. a \in Answers
    BY <1>3, <1>5, OkAnswer DEF TicketInv
  <2>2. call'[c].answer = a
    BY <1>1, <1>2, <2>1, AnsweredCall DEF TicketInv
  <2> QED BY <1>1, <1>8, <2>2 DEF Commits, Is
<1>9. CASE o # NoOperation
  <2>1. tickets[q.ticket] = call[c].read /\ TransitionAllowed(q, call[c].read)
    BY <1>1, <1>3, <1>4, <1>9 DEF ReadFitsFor, UpdateMatches
  <2>2. q.status # Null
    BY <1>7, TicketsAssumption
  <2> QED BY <1>6, <1>7, <2>1, <2>2 DEF TransitionAllowed
<1> QED BY <1>8, <1>9

THEOREM TransitionsHold == Spec => TransitionsAllowed
<1>1. TicketInv /\ [Next]_vars => [Transitions]_vars
  <2> SUFFICES ASSUME TicketInv, Next PROVE Transitions
    BY DEF vars, Transitions
  <2>1. ASSUME NEW c \in Calls, CommitUpdate(c) PROVE Transitions
    BY <2>1, CommitTransitions
  <2>2. ASSUME NEW c \in Calls, InsertTicket(c) PROVE Transitions
    <3>1. /\ tickets[c] = NoTicket /\ tickets \in [Ids -> Row \cup {NoTicket}]
      BY <2>2 DEF InsertTicket, Is, TicketInv, Unborn, TypeOK
    <3>2. \A i \in Ids : tickets'[i] = tickets[i] \/ i = c
      BY <2>2, <3>1 DEF InsertTicket, Raises
    <3> QED BY <3>1, <3>2 DEF Transitions
  <2>3. ASSUME NEW s \in Seeds, Reset(s) PROVE Transitions
    BY <2>3 DEF Reset, Transitions, TicketInv, TypeOK
  <2>4. ASSUME UNCHANGED tickets PROVE Transitions
    BY <2>4 DEF Transitions
  <2> QED BY <2>1, <2>2, <2>3, <2>4 DEF Next, Begin, CreateReplays, UpdateReplays, FindsNothing,
             CheckEmployees, ReadTicket, UpdateTicket, Abandon, Raises, Reads
<1>2. []TicketInv /\ [][Next]_vars => [][Transitions]_vars
  BY <1>1, PTL
<1>3. [][Transitions]_vars => TransitionsAllowed
  BY DEF Transitions, TransitionsAllowed
<1> QED BY <1>2, <1>3, TicketInvariant, PTL DEF Spec
=============================================================================
