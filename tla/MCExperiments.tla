---------------------------- MODULE MCExperiments ----------------------------
(***************************************************************************)
(* A small instance of Experiments.                                        *)
(***************************************************************************)
EXTENDS Experiments, TLC

CONSTANTS s1, s2, e1, e2

\* Two scripts of one repetition with one id, and a second id.
MCArguments ==
  {[name |-> e1, repetitions |-> 1, failFast |-> FALSE], [name |-> e2, repetitions |-> 1, failFast |-> TRUE]}

\* Scripts are alike.
Symmetry == Permutations(Scripts)
=============================================================================
