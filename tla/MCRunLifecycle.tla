--------------------------- MODULE MCRunLifecycle ---------------------------
(***************************************************************************)
(* A small instance of RunLifecycle.                                       *)
(***************************************************************************)
EXTENDS RunLifecycle

CONSTANTS e1, e2, e3, e4, scripted, openai

\* e3 has another model than the others.
TwoModels == [e \in Executors |-> IF e = e3 THEN openai ELSE scripted]
=============================================================================
