---------------------------- MODULE MCAgentGraph ----------------------------
(* Small instances of AgentGraph. *)
EXTENDS AgentGraph

Ask(k, r) == [id |-> k, request |-> r]

\* Two calls in one answer, a single call, the same id with another request, and
\* the final answer.
MCBatches ==
  {<< >>, <<Ask("k1", "r1")>>, <<Ask("k1", "r1"), Ask("k2", "r1")>>, <<Ask("k2", "r2")>>}
=============================================================================
