-------------------------- MODULE OperationPromise --------------------------
(***************************************************************************)
(* What the operation ledger promises to the agent that calls tools: an     *)
(* operation is opened once, takes effect at most once, and is then settled *)
(* once; "done" is never said of an operation that did not take effect.    *)
(* If Certain, "not_done" is knowledge too: the operation never takes       *)
(* effect afterwards and did not before.                                   *)
(***************************************************************************)
CONSTANTS Ops, Certain

VARIABLES outcome, applied

TypeOK ==
  /\ outcome \in [Ops -> {"none", "open", "done", "not_done"}]
  /\ applied \in [Ops -> BOOLEAN]

Init ==
  /\ outcome = [o \in Ops |-> "none"]
  /\ applied = [o \in Ops |-> FALSE]

Open(o) ==
  /\ outcome[o] = "none"
  /\ outcome' = [outcome EXCEPT ![o] = "open"]
  /\ UNCHANGED applied

Apply(o) ==
  /\ outcome[o] = "open" \/ (outcome[o] = "not_done" /\ ~Certain)
  /\ ~applied[o]
  /\ applied' = [applied EXCEPT ![o] = TRUE]
  /\ UNCHANGED outcome

Done(o) ==
  /\ outcome[o] = "open"
  /\ applied[o]
  /\ outcome' = [outcome EXCEPT ![o] = "done"]
  /\ UNCHANGED applied

NotDone(o) ==
  /\ outcome[o] = "open"
  /\ Certain => ~applied[o]
  /\ outcome' = [outcome EXCEPT ![o] = "not_done"]
  /\ UNCHANGED applied

Next == \E o \in Ops : Open(o) \/ Apply(o) \/ Done(o) \/ NotDone(o)

Spec == Init /\ [][Next]_<<outcome, applied>>
=============================================================================
