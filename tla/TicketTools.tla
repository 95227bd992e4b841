----------------------------- MODULE TicketTools -----------------------------
(***************************************************************************)
(* The ticket tools on the business tables: create_ticket, update_ticket   *)
(* and the reset between two benchmark runs.                               *)
(*                                                                         *)
(* A call is one execution of a handler inside the transaction that the    *)
(* gateway opens.  PostgreSQL runs it READ COMMITTED: every statement sees *)
(* what is committed when the statement begins, and an UPDATE waits for    *)
(* the row lock and looks at its WHERE clause again.  Each statement is an *)
(* action, except that an INSERT and the COMMIT right behind it are one.   *)
(*                                                                         *)
(* The gateway gives a call the operation id of its ledger row; a call     *)
(* without a run has none.  The handlers are modelled by their own promise *)
(* that an operation id may come back, on which the ledger does not draw.  *)
(***************************************************************************)
EXTENDS Integers, FiniteSets

CONSTANTS Calls,        \* executions of a handler
          Operations,   \* operation ids of the ledger
          NoOperation,  \* what a call outside the ledger has instead
          Employees,    \* employees a ticket may refer to
          Seeded,       \* the id of the ticket a task may seed
          Titles,       \* everything about a ticket but its status
          Unset,        \* a field the caller does not mention
          Null,         \* a field the caller sets to null
          NoTicket,     \* a missing row, or nothing read yet
          Requests,     \* the arguments the calls may come with
          Seeds,        \* the initial states of the tasks
          MaxResets

\* A created ticket has a fresh id: it is known by the call that creates it.
Ids == Calls \cup {Seeded}

\* The statuses the CHECK constraint of the table admits.
StoredStatuses == {"open", "pending_approval", "approved", "rejected", "resolved", "cancelled"}

MutableStatuses == {"open", "in_progress", "resolved", "closed", "cancelled"}

\* ALLOWED_STATUS_TRANSITIONS.get(status, set())
AllowedFrom(status) ==
  CASE status = "open"        -> {"in_progress", "resolved", "cancelled"}
    [] status = "in_progress" -> {"open", "resolved", "cancelled"}
    [] status = "resolved"    -> {"in_progress", "closed"}
    [] OTHER                  -> {}

Row == [status: StoredStatuses, title: Titles, version: Nat \ {0},
        source: Operations \cup {NoOperation}]

CreateRequest == [tool: {"create"}, employee: Employees]

Fields == {"status", "title"}

UpdateRequest ==
  {q \in [tool: {"update"}, ticket: Ids, expected: Nat \ {0},
          status: MutableStatuses \cup {Unset, Null}, title: Titles \cup {Unset, Null}] :
     \E f \in Fields : q[f] # Unset}

\* One row of ticket_mutations; its result_snapshot is the row it left.
Mutation == [ticket: Ids, operation: Operations, previous: Nat, new: Nat, snapshot: Row]

Seed == [employees: SUBSET Employees, ticket: Row \cup {NoTicket}]

ASSUME TicketsAssumption ==
  /\ Seeded \notin Calls /\ Titles # {}
  /\ NoOperation \notin Operations
  /\ NoTicket \notin Row
  /\ Unset \notin MutableStatuses \cup Titles
  /\ Null \notin StoredStatuses \cup MutableStatuses \cup Titles
  /\ Requests \subseteq CreateRequest \cup UpdateRequest
  /\ Seeds \subseteq Seed
  /\ \A s \in Seeds : s.ticket # NoTicket => s.ticket.source = NoOperation
  /\ MaxResets \in Nat
-----------------------------------------------------------------------------
VARIABLES tickets,    \* the table of tickets, by id
          mutations,  \* the rows of ticket_mutations
          employees,  \* the employees there are
          call,       \* what each call is doing
          resets      \* how many worlds there have been

vars == <<tickets, mutations, employees, call, resets>>

\* begun: nothing read; fresh: no earlier effect found; decided: every check
\* passed on `read'; written: the row is updated and locked.
Open == {"begun", "fresh", "decided", "written"}

Answers ==
  [code: {"ok"}, ticket: Ids, row: Row, world: Nat] \cup
  [code: {"none", "lost", "ticket_not_found", "ticket_version_conflict", "no_ticket_changes",
          "invalid_ticket_status_transition", "employee_not_found", "tool_execution_error"}]

CallState == [stage: {"idle", "done"} \cup Open,
              operation: Operations \cup {NoOperation},
              request: Requests \cup {Unset},
              read: Row \cup {NoTicket},
              answer: Answers]

TypeOK ==
  /\ tickets \in [Ids -> Row \cup {NoTicket}]
  /\ mutations \subseteq Mutation
  /\ employees \subseteq Employees
  /\ call \in [Calls -> CallState]
  /\ \A c \in Calls : call[c].stage # "idle" => call[c].request \in Requests
  /\ resets \in Nat

World(s) == [i \in Ids |-> IF i = Seeded THEN s.ticket ELSE NoTicket]

Init ==
  /\ \E s \in Seeds : tickets = World(s) /\ employees = s.employees
  /\ mutations = {}
  /\ call = [c \in Calls |-> [stage |-> "idle", operation |-> NoOperation, request |-> Unset,
                              read |-> NoTicket, answer |-> [code |-> "none"]]]
  /\ resets = 0
-----------------------------------------------------------------------------
Request(c) == call[c].request

Is(c, stage, tool) == call[c].stage = stage /\ Request(c).tool = tool

Present(i) == tickets[i] # NoTicket

Moves(c, stage) == call' = [call EXCEPT ![c].stage = stage]

Answered(c, answer) == call' = [call EXCEPT ![c].stage = "done", ![c].answer = answer]

\* A handler that raises: the transaction is rolled back.
Raises(c, code) == Answered(c, [code |-> code]) /\ UNCHANGED <<tickets, mutations, employees, resets>>

Reads(c, row) ==
  /\ call' = [call EXCEPT ![c].stage = "decided", ![c].read = row]
  /\ UNCHANGED <<tickets, mutations, employees, resets>>

\* A call begins.  An operation never comes back with another request.
Begin(c, o, q) ==
  /\ call[c].stage = "idle"
  /\ \A d \in Calls : call[d].operation = o /\ o # NoOperation => Request(d) = q
  /\ call' = [call EXCEPT ![c].stage = "begun", ![c].operation = o, ![c].request = q]
  /\ UNCHANGED <<tickets, mutations, employees, resets>>

MutationsOf(o) == {m \in mutations : m.operation = o}

TicketsOf(o) == {i \in Ids : Present(i) /\ tickets[i].source = o}

\* The operation has created a ticket before: the answer is that ticket as it is now.
CreateReplays(c) ==
  /\ Is(c, "begun", "create") /\ call[c].operation # NoOperation
  /\ \E i \in TicketsOf(call[c].operation) :
       Answered(c, [code |-> "ok", ticket |-> i, row |-> tickets[i], world |-> resets])
  /\ UNCHANGED <<tickets, mutations, employees, resets>>

\* Bug: the replay reads the ticket, as the one of create_ticket does.
LooseUpdateReplays(c) ==
  /\ Is(c, "begun", "update") /\ call[c].operation # NoOperation
  /\ \E m \in MutationsOf(call[c].operation) :
       Answered(c, [code |-> "ok", ticket |-> m.ticket, row |-> tickets[m.ticket], world |-> resets])
  /\ UNCHANGED <<tickets, mutations, employees, resets>>

\* The operation has updated a ticket before: the answer is the recorded snapshot.
UpdateReplays(c) ==
  /\ Is(c, "begun", "update") /\ call[c].operation # NoOperation
  /\ \E m \in MutationsOf(call[c].operation) :
       Answered(c, [code |-> "ok", ticket |-> m.ticket, row |-> m.snapshot, world |-> resets])
  /\ UNCHANGED <<tickets, mutations, employees, resets>>

FindsNothing(c) ==
  /\ call[c].stage = "begun"
  /\ \/ call[c].operation = NoOperation
     \/ Request(c).tool = "create" /\ TicketsOf(call[c].operation) = {}
     \/ Request(c).tool = "update" /\ MutationsOf(call[c].operation) = {}
  /\ Moves(c, "fresh")
  /\ UNCHANGED <<tickets, mutations, employees, resets>>

CheckEmployees(c) ==
  /\ Is(c, "fresh", "create")
  /\ IF Request(c).employee \in employees THEN Reads(c, NoTicket)
                                          ELSE Raises(c, "employee_not_found")

NewRow(o) == [status |-> "open", title |-> CHOOSE t \in Titles : TRUE, version |-> 1, source |-> o]

\* Foreign key and unique source_operation_id are looked at again by the INSERT.
InsertTicket(c) ==
  /\ Is(c, "decided", "create")
  /\ LET o == call[c].operation
         row == NewRow(o)
     IN  IF Request(c).employee \in employees /\ (o = NoOperation \/ TicketsOf(o) = {})
         THEN /\ tickets' = [tickets EXCEPT ![c] = row]
              /\ Answered(c, [code |-> "ok", ticket |-> c, row |-> row, world |-> resets])
              /\ UNCHANGED <<mutations, employees, resets>>
         ELSE Raises(c, "tool_execution_error")

\* effective_changes: the fields mentioned that differ from the row.
Changes(q, row) == {f \in Fields : q[f] # Unset /\ q[f] # row[f]}

\* Bug: the status may be reached, whatever it is reached from.
TransitionFromAny(q, row) ==
  "status" \in Changes(q, row) /\ q.status # Null => \E s \in MutableStatuses : q.status \in AllowedFrom(s)

\* A status set to null is not a string and escapes the check.
TransitionAllowed(q, row) ==
  "status" \in Changes(q, row) /\ q.status # Null => q.status \in AllowedFrom(row.status)

\* What update_ticket decides from the row it reads.
ReadTicket(c) ==
  LET q == Request(c)
      row == tickets[q.ticket]
  IN  /\ Is(c, "fresh", "update")
      /\ IF ~ Present(q.ticket) THEN Raises(c, "ticket_not_found")
         ELSE IF row.version # q.expected THEN Raises(c, "ticket_version_conflict")
         ELSE IF Changes(q, row) = {} THEN Raises(c, "no_ticket_changes")
         ELSE IF ~ TransitionAllowed(q, row) THEN Raises(c, "invalid_ticket_status_transition")
         ELSE Reads(c, row)

\* Another transaction has updated the row and not committed yet.
Locked(c, i) == \E d \in Calls \ {c} : Is(d, "written", "update") /\ Request(d).ticket = i

\* NOT NULL and the CHECK on the status.
Storable(q, changes) ==
  /\ "status" \in changes => q.status \in StoredStatuses
  /\ "title" \in changes => q.title # Null

\* Bug: the UPDATE relies on the version check of the SELECT.
UnversionedMatches(q) == Present(q.ticket)

\* WHERE id = ... AND version = expected_version
UpdateMatches(q) == Present(q.ticket) /\ tickets[q.ticket].version = q.expected

\* The UPDATE, once it has the row lock.  No row: the handler looks again why.
UpdateTicket(c) ==
  LET q == Request(c)
  IN  /\ Is(c, "decided", "update")
      /\ ~ Locked(c, q.ticket)
      /\ IF UpdateMatches(q)
         THEN IF Storable(q, Changes(q, call[c].read))
              THEN Moves(c, "written") /\ UNCHANGED <<tickets, mutations, employees, resets>>
              ELSE Raises(c, "tool_execution_error")
         ELSE Raises(c, IF Present(q.ticket) THEN "ticket_version_conflict" ELSE "ticket_not_found")

\* SET of the changes decided on the row that was read, version + 1.
Updated(c, row) ==
  LET q == Request(c)
      changes == Changes(q, call[c].read)
  IN  [status |-> IF "status" \in changes THEN q.status ELSE row.status,
       title |-> IF "title" \in changes THEN q.title ELSE row.title,
       version |-> row.version + 1,
       source |-> row.source]

MutationFor(c, row) ==
  [ticket |-> Request(c).ticket, operation |-> call[c].operation,
   previous |-> Request(c).expected, new |-> row.version, snapshot |-> row]

\* INSERT of the mutation, whose operation id is unique, and COMMIT.
CommitUpdate(c) ==
  LET q == Request(c)
      o == call[c].operation
      row == Updated(c, tickets[q.ticket])
  IN  /\ Is(c, "written", "update")
      /\ IF MutationsOf(o) = {}
         THEN /\ tickets' = [tickets EXCEPT ![q.ticket] = row]
              /\ mutations' = mutations \cup (IF o = NoOperation THEN {} ELSE {MutationFor(c, row)})
              /\ Answered(c, [code |-> "ok", ticket |-> q.ticket, row |-> row, world |-> resets])
              /\ UNCHANGED <<employees, resets>>
         ELSE Raises(c, "tool_execution_error")

\* Timeout, cancellation or death before COMMIT: the server rolls back.
Abandon(c) == call[c].stage \in Open /\ Raises(c, "lost")

\* Bug: a reset that does not look at the ledger.
UncheckedReset(s) ==
  /\ resets < MaxResets
  /\ \A c \in Calls : call[c].stage # "written"
  /\ tickets' = World(s) /\ mutations' = {} /\ employees' = s.employees
  /\ resets' = resets + 1
  /\ UNCHANGED call

\* The rows of tool_operations are unresolved while their calls are open, and
\* the DELETE waits for row locks.  The mutations go with their tickets.
Reset(s) ==
  /\ resets < MaxResets
  /\ \A c \in Calls : call[c].stage \in Open => call[c].operation = NoOperation
  /\ \A c \in Calls : call[c].stage # "written"
  /\ tickets' = World(s)
  /\ mutations' = {}
  /\ employees' = s.employees
  /\ resets' = resets + 1
  /\ UNCHANGED call

Next ==
  \/ \E c \in Calls :
       \/ \E o \in Operations \cup {NoOperation}, q \in Requests : Begin(c, o, q)
       \/ CreateReplays(c) \/ UpdateReplays(c) \/ FindsNothing(c)
       \/ CheckEmployees(c) \/ InsertTicket(c)
       \/ ReadTicket(c) \/ UpdateTicket(c) \/ CommitUpdate(c)
       \/ Abandon(c)
  \/ \E s \in Seeds : Reset(s)

Spec == Init /\ [][Next]_vars
-----------------------------------------------------------------------------
\* The mutations of a ticket are its history: no version is left twice, each
\* mutation leads to the next version, and the last one describes the row.
\* Two updates decided on the same version can only break this together.
MutationLog ==
  /\ \A m, n \in mutations : m.ticket = n.ticket /\ m.previous = n.previous => m = n
  /\ \A m \in mutations :
       /\ Present(m.ticket)
       /\ m.new = m.previous + 1 /\ m.snapshot.version = m.new
       /\ m.new <= tickets[m.ticket].version
       /\ m.new = tickets[m.ticket].version => m.snapshot = tickets[m.ticket]

Commits(c) == Is(c, "written", "update") /\ call'[c].answer.code = "ok"

\* An update that the ledger knows replaces exactly the row on which its
\* changes and its transition were decided, although others write and worlds
\* are reset between its SELECT and its UPDATE.
ReplacesWhatItRead ==
  [][\A c \in Calls : Commits(c) /\ call[c].operation # NoOperation
                        => tickets[Request(c).ticket] = call[c].read]_vars

\* A ticket goes from status to status only as ALLOWED_STATUS_TRANSITIONS says,
\* unless its world is replaced or a call outside the ledger writes it.
TransitionsAllowed ==
  [][\A i \in Ids :
       tickets[i] # NoTicket /\ tickets'[i] # NoTicket /\ tickets'[i].status # tickets[i].status =>
         \/ tickets'[i].status \in AllowedFrom(tickets[i].status)
         \/ resets' # resets
         \/ \E c \in Calls : Commits(c) /\ call[c].operation = NoOperation]_vars

\* Whatever two calls of one operation do at the same time, in one world they
\* are told of the same ticket; of an update both are told the same row.
RepeatedCallsAgree ==
  \A c, d \in Calls :
    /\ call[c].answer.code = "ok" /\ call[d].answer.code = "ok"
    /\ call[c].operation = call[d].operation /\ call[c].operation # NoOperation
    /\ call[c].answer.world = call[d].answer.world
    => /\ call[c].answer.ticket = call[d].answer.ticket
       /\ Request(c).tool = "update" => call[c].answer.row = call[d].answer.row
=============================================================================
