---------------------------- MODULE RunOwnership ----------------------------
(***************************************************************************)
(* What AgentRuntime and StaleRunReconciler promise to each other: a run   *)
(* has at most one owner at a time; it changes hands only by being paused, *)
(* or by being lost and reopened; and once it is over nobody owns it and   *)
(* it stays over.                                                          *)
(***************************************************************************)
CONSTANTS Runs, Executors, Nobody

VARIABLES phase, owner

TypeOK ==
  /\ phase \in [Runs -> {"new", "owned", "paused", "lost", "over"}]
  /\ owner \in [Runs -> Executors \cup {Nobody}]

Init ==
  /\ phase = [r \in Runs |-> "new"]
  /\ owner = [r \in Runs |-> Nobody]

Move(r, from, to, who) ==
  /\ phase[r] = from
  /\ phase' = [phase EXCEPT ![r] = to]
  /\ owner' = [owner EXCEPT ![r] = who]

Start(r)  == \E e \in Executors : Move(r, "new", "owned", e)
Take(r)   == \E e \in Executors : Move(r, "paused", "owned", e)
Yield(r)  == Move(r, "owned", "paused", Nobody)
Finish(r) == Move(r, "owned", "over", Nobody)
Lose(r)   == Move(r, "owned", "lost", Nobody)
Reopen(r) == Move(r, "lost", "paused", Nobody)
Close(r)  == Move(r, "lost", "over", Nobody)

Next ==
  \E r \in Runs : \/ Start(r) \/ Take(r) \/ Yield(r) \/ Finish(r)
                  \/ Lose(r) \/ Reopen(r) \/ Close(r)

Spec == Init /\ [][Next]_<<phase, owner>>
=============================================================================
