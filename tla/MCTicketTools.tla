---------------------------- MODULE MCTicketTools ----------------------------
(***************************************************************************)
(* Small instances of TicketTools.                                         *)
(***************************************************************************)
EXTENDS TicketTools, TLC

CONSTANTS c1, c2, c3, e1, t1, t2, seeded

Update(i, v, s, t) == [tool |-> "update", ticket |-> i, expected |-> v, status |-> s, title |-> t]

\* Changes of two versions of the seeded ticket, some of them void or forbidden after
\* others, and of the ticket that a call creates, to what cannot be stored.
MCRequests ==
  { [tool |-> "create", employee |-> e1],
    Update(seeded, 1, "resolved", Unset), Update(seeded, 1, Unset, t2),
    Update(seeded, 2, "resolved", Unset), Update(seeded, 2, Null, Unset),
    Update(c1, 1, "in_progress", Unset) }

Seeding(s) == [status |-> s, title |-> t1, version |-> 1, source |-> NoOperation]

\* An open ticket, a cancelled one, and a task without tickets or employees.
MCSeeds ==
  { [employees |-> {e1}, ticket |-> Seeding("open")],
    [employees |-> {e1}, ticket |-> Seeding("cancelled")],
    [employees |-> {}, ticket |-> NoTicket] }

\* No request names c2 or c3, and none an operation.
Symmetry == Permutations({c2, c3}) \cup Permutations(Operations)
=============================================================================
