------------------------------ MODULE MCOracles ------------------------------
(***************************************************************************)
(* Small instances of Oracles.                                             *)
(***************************************************************************)
EXTENDS Oracles

Rule(event, tool) == [event |-> event, tool |-> tool]
First(event, tool) == [event |-> event, tool |-> tool, occurrence |-> "first"]
Last(event, tool) == [event |-> event, tool |-> tool, occurrence |-> "last"]
Ordered(first, relation, second) == [first |-> first, relation |-> relation, second |-> second]

\* A task that asks for nothing but its budget.
Lookup ==
  [required |-> <<>>, forbidden |-> <<>>, rules |-> <<>>, expectations |-> <<>>,
   budget |-> [agent_steps |-> 2, tool_calls |-> 1, tokens |-> 2, latency_ms |-> 1]]

\* One ticket, still open, created without a repeated call.
CreateTicket ==
  [required |-> <<Rule("tool_succeeded", "create")>>,
   forbidden |-> <<Rule("tool_rejected", "create"), Rule("tool_replayed", "create")>>,
   rules |-> <<Ordered(First("tool_called", "create"), "before", Last("tool_succeeded", "create"))>>,
   expectations |-> << [entity |-> "tickets", where |-> <<>>,
                        assertions |-> << [field |-> "status", operator |-> "eq", value |-> "open"],
                                          [field |-> "owner", operator |-> "not_exists"] >>] >>,
   budget |-> [agent_steps |-> 3, tool_calls |-> 2, tokens |-> 3, latency_ms |-> 2]]

\* A resolved ticket and its one mutation.
ResolveTicket ==
  [required |-> <<Rule("tool_succeeded", "update")>>,
   forbidden |-> <<Rule("tool_failed", "update")>>,
   rules |-> <<Ordered(Last("tool_succeeded", "update"), "after", Last("tool_succeeded", "create"))>>,
   expectations |->
     << [entity |-> "tickets", where |-> [status |-> "resolved"],
         assertions |-> << [field |-> "status", operator |-> "ne", value |-> "open"],
                           [field |-> "status", operator |-> "in", value |-> {"resolved", "closed"}] >>],
        [entity |-> "ticket_mutations", where |-> <<>>,
         assertions |-> << [field |-> "ticket", operator |-> "exists"],
                           [field |-> "ticket", operator |-> "not_in", value |-> {0}] >>] >>,
   budget |-> [agent_steps |-> 3, tool_calls |-> 2, tokens |-> 3, latency_ms |-> 2]]

\* The order of a refusal or a failure and what surrounds it: a call that is refused after it
\* was made, one that is tried again after it has failed, one that follows a lookup.
TryAgain ==
  [required |-> <<>>, forbidden |-> <<>>, expectations |-> <<>>,
   rules |-> << Ordered(First("tool_succeeded", "read"), "before", First("tool_called", "create")),
                Ordered(Last("tool_rejected", "create"), "after", First("tool_called", "create")),
                Ordered(Last("tool_succeeded", "create"), "after", Last("tool_failed", "create")),
                Ordered(First("tool_called", "create"), "before", Last("tool_called", "create")) >>,
   budget |-> [agent_steps |-> 4, tool_calls |-> 3, tokens |-> 4, latency_ms |-> 2]]

\* Half to even.
MCTieUp(n, d) == (n \div d) % 2 = 1

\* The order of the ids is not that of the calls.
MCIds == <<2, 1>>

MCTasks == {Lookup, CreateTicket, ResolveTicket, TryAgain}
=============================================================================
