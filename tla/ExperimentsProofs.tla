-------------------------- MODULE ExperimentsProofs --------------------------
(***************************************************************************)
(* Theorems about Experiments, for any number of scripts, any ids, numbers  *)
(* of repetitions and faults.                                              *)
(***************************************************************************)
EXTENDS Experiments, FiniteSetTheorems, TLAPS

(***************************************************************************)
(* The inductive invariant.                                                *)
(***************************************************************************)

\* The runs a script has seen pass.
Passed(s) == {i \in Ids : i[1] = s /\ i[2] \in 1..Len(noted[s]) /\ noted[s][i[2]] = "passed"}

\* A script that has read the stored runs and has not been turned down.
HasRead(s) == stage[s] \in {"reading", "published"}

Stored == {i \in Ids : row[i] # None}

\* A run has a row only if its script has checked its id, and has one if it is under way or
\* has passed.
RowsFit ==
  /\ IsFiniteSet(Stored)
  /\ \A i \in Stored : stage[i[1]] # "idle"
  /\ \A s \in Scripts : stage[s] \in {"running", "evaluating"} => row[Current(s)] # None
  /\ \A s \in Scripts : Passed(s) \subseteq Stored

\* What a script has read contains all of its runs that have passed.
ReadsOwn ==
  \A s \in Scripts : HasRead(s) =>
    IsFiniteSet(DOMAIN listed[s]) /\ Passed(s) \subseteq DOMAIN listed[s]

\* Of two scripts with one id, the one that has read later has read the other's runs as well.
LaterReadsBoth ==
  \A s, t \in Scripts :
    (s # t /\ HasRead(s) /\ HasRead(t) /\ arguments[s].name = arguments[t].name) =>
      Passed(t) \subseteq DOMAIN listed[s] \/ Passed(s) \subseteq DOMAIN listed[t]

\* Nothing is published but what was verified.
Verified ==
  \A s \in Scripts : stage[s] = "published" =>
    ImmediateIsRight(s) /\ Cardinality(DOMAIN listed[s]) = Planned(arguments[s])

ExperimentInv == TypeOK /\ RowsFit /\ ReadsOwn /\ LaterReadsBoth /\ Verified

(***************************************************************************)
(* Types.                                                                  *)
(***************************************************************************)

\* A plan has at least two runs, and all of them are known.
LEMMA PlannedRuns ==
  ASSUME NEW a \in Arguments
  PROVE  Planned(a) \in Nat /\ 2 <= Planned(a) /\ a \in Runs /\ a # None
BY ArgumentsAssumption, NamesAssumption DEF Runs, Planned

LEMMA OwnIds ==
  ASSUME NEW s \in Scripts, NEW a \in Arguments, NEW n \in 1..Planned(a)
  PROVE  <<s, n>> \in Ids
BY DEF Ids

LEMMA IdParts ==
  ASSUME NEW i \in Ids
  PROVE  i[1] \in Scripts /\ i[2] \in Nat /\ i = <<i[1], i[2]>>
BY PlannedRuns DEF Ids

LEMMA CurrentRun ==
  ASSUME TypeOK, NEW s \in Scripts, stage[s] \in {"next", "running", "evaluating"}
  PROVE  /\ arguments[s] \in Arguments
         /\ Len(noted[s]) \in Nat
         /\ Current(s) \in Ids
         /\ Current(s)[1] = s
         /\ Current(s)[2] = Len(noted[s]) + 1
<1>1. arguments[s] \in Arguments /\ Len(noted[s]) \in Nat
  BY DEF TypeOK
<1>2. Len(noted[s]) + 1 \in 1..Planned(arguments[s])
  BY <1>1, PlannedRuns DEF TypeOK
<1> QED BY <1>1, <1>2, OwnIds DEF Current

LEMMA InitTypes == Init => TypeOK
BY IncidentsAssumption DEF Init, TypeOK

\* Noting the outcome of a run.
LEMMA NoteTypes ==
  ASSUME TypeOK, NEW s \in Scripts, NEW from \in {"next", "running", "evaluating"},
         NEW outcome \in Outcomes, Note(s, from, outcome),
         lock' = lock, call' = call, tickets' = tickets, incidents' \in 0..MaxIncidents,
         row' \in [Ids -> Terminal \cup {None, "running"}],
         evaluation' \in [Ids -> Evaluations \cup {None}]
  PROVE  TypeOK'
<1>1. noted[s] \in Seq(Outcomes) /\ stage[s] = from
  BY DEF TypeOK, Note, Go
<1>2. arguments[s] \in Arguments /\ Len(noted[s]) \in Nat /\ Len(noted[s]) < Planned(arguments[s])
  BY <1>1, CurrentRun DEF TypeOK
<1>3. Append(noted[s], outcome) \in Seq(Outcomes) /\ Len(Append(noted[s], outcome)) = Len(noted[s]) + 1
  BY <1>1
<1>4. Planned(arguments[s]) \in Nat
  BY <1>2, PlannedRuns
<1> QED BY <1>1, <1>2, <1>3, <1>4 DEF TypeOK, Note, Go

LEMMA EvaluatedTypes ==
  ASSUME TypeOK, NEW i \in Ids, NEW oracles \in BOOLEAN, NEW source \in {"live", "persisted"},
         Evaluated(i, oracles, source)
  PROVE  evaluation' \in [Ids -> Evaluations \cup {None}]
BY DEF TypeOK, Evaluated, Evaluations

LEMMA LeavesTypes ==
  ASSUME TypeOK, NEW i \in Ids, NEW status \in {"running", "succeeded", "failed", "unknown"}, Leaves(i, status)
  PROVE  call' \in [Ids -> Terminal \cup {None, "running", "unknown"}] /\ tickets' \subseteq Ids
<1>1. tickets' \in {tickets, tickets \cup {i}}
  BY DEF Leaves
<1> QED BY <1>1 DEF TypeOK, Leaves, Terminal

LEMMA ExpectedTypes ==
  ASSUME TypeOK, NEW ok, Expected(ok)
  PROVE  incidents' \in 0..MaxIncidents
BY IncidentsAssumption DEF TypeOK, Expected, Incident

LEMMA NextTypes == TypeOK /\ [Next]_vars => TypeOK'
<1> SUFFICES ASSUME TypeOK, [Next]_vars PROVE TypeOK'
  OBVIOUS
<1> USE IncidentsAssumption
<1>1. ASSUME NEW s \in Scripts, CheckUnused(s) PROVE TypeOK'
  BY <1>1, PlannedRuns DEF CheckUnused, TypeOK, Go, tableVars
<1>2. ASSUME NEW s \in Scripts, Acquire(s) PROVE TypeOK'
  <2>1. Len(noted[s]) < Planned(arguments[s])
    BY <1>2, PlannedRuns DEF Acquire, Go, TypeOK
  <2> QED BY <1>2, <2>1 DEF Acquire, TypeOK, Go, scriptVars, tableVars
<1>3. ASSUME NEW s \in Scripts, Busy(s) PROVE TypeOK'
  BY <1>3 DEF Busy, TypeOK, Go, scriptVars, tableVars
<1>4. ASSUME NEW s \in Scripts, LoseLock(s) PROVE TypeOK'
  BY <1>4 DEF LoseLock, TypeOK, Incident, scriptVars, tableVars
<1>5. ASSUME NEW s \in Scripts, Release(s) PROVE TypeOK'
  BY <1>5 DEF Release, TypeOK, Go, scriptVars, tableVars
<1>6. ASSUME NEW s \in Scripts, Prepare(s) PROVE TypeOK'
  BY <1>6 DEF Prepare, TypeOK, Go, scriptVars
<1>7. ASSUME NEW s \in Scripts, Call(s) PROVE TypeOK'
  <2>1. Current(s) \in Ids
    BY <1>7, CurrentRun DEF Call
  <2>2. incidents' \in 0..MaxIncidents
    BY <1>7, ExpectedTypes DEF Call
  <2>3. call' \in [Ids -> Terminal \cup {None, "running", "unknown"}] /\ tickets' \subseteq Ids
    BY <1>7, <2>1, LeavesTypes DEF Call
  <2> QED BY <1>7, <2>2, <2>3 DEF Call, TypeOK, scriptVars
<1>8. ASSUME NEW s \in Scripts, Terminate(s) PROVE TypeOK'
  <2>1. incidents' \in 0..MaxIncidents
    BY <1>8, ExpectedTypes DEF Terminate
  <2> QED BY <1>8, <2>1 DEF Terminate, TypeOK, Go, scriptVars
<1>9. ASSUME NEW s \in Scripts, NoRun(s) PROVE TypeOK'
  <2>1. incidents' \in 0..MaxIncidents
    BY <1>9, ExpectedTypes DEF NoRun
  <2>2. "runtime_error" \in Outcomes
    BY DEF Outcomes
  <2> QED BY <1>9, <2>1, <2>2, NoteTypes DEF NoRun, TypeOK, tableVars
<1>10. ASSUME NEW s \in Scripts, RunRaises(s) PROVE TypeOK'
  <2>1. "runtime_error" \in Outcomes
    BY DEF Outcomes
  <2>2. row' \in [Ids -> Terminal \cup {None, "running"}]
    BY <1>10 DEF RunRaises, TypeOK
  <2>3. evaluation' \in [Ids -> Evaluations \cup {None}] /\ incidents' \in 0..MaxIncidents
    BY <1>10 DEF RunRaises, TypeOK, Incident
  <2> QED BY <1>10, <2>1, <2>2, <2>3, NoteTypes DEF RunRaises
<1>11. ASSUME NEW s \in Scripts, Evaluate(s) PROVE TypeOK'
  <2>1. Current(s) \in Ids
    BY <1>11, CurrentRun DEF Evaluate
  <2>2. evaluation' \in [Ids -> Evaluations \cup {None}] /\ incidents' \in 0..MaxIncidents
    BY <1>11, <2>1, EvaluatedTypes, ExpectedTypes DEF Evaluate
  <2>3. PICK outcome \in Outcomes : Note(s, "evaluating", outcome)
    BY <1>11 DEF Evaluate, Outcomes
  <2>4. row' \in [Ids -> Terminal \cup {None, "running"}]
    BY <1>11 DEF Evaluate, TypeOK
  <2> QED BY <1>11, <2>2, <2>3, <2>4, NoteTypes DEF Evaluate
<1>12. ASSUME NEW s \in Scripts, EvaluationRaises(s) PROVE TypeOK'
  <2>1. Current(s) \in Ids
    BY <1>12, CurrentRun DEF EvaluationRaises
  <2>2. evaluation' \in [Ids -> Evaluations \cup {None}]
    BY <1>12, <2>1, EvaluatedTypes DEF EvaluationRaises, TypeOK
  <2>3. "evaluation_error" \in Outcomes
    BY DEF Outcomes
  <2>4. row' \in [Ids -> Terminal \cup {None, "running"}] /\ incidents' \in 0..MaxIncidents
    BY <1>12 DEF EvaluationRaises, TypeOK, Incident
  <2> QED BY <1>12, <2>2, <2>3, <2>4, NoteTypes DEF EvaluationRaises
<1>13. ASSUME NEW s \in Scripts, Crash(s) PROVE TypeOK'
  <2>1. call' \in [Ids -> Terminal \cup {None, "running", "unknown"}] /\ tickets' \subseteq Ids
    BY <1>13, CurrentRun, LeavesTypes DEF Crash, TypeOK
  <2> QED BY <1>13, <2>1 DEF Crash, TypeOK, Incident, scriptVars
<1>14. ASSUME NEW s \in Scripts, GetExperiment(s) PROVE TypeOK'
  BY <1>14 DEF GetExperiment, TypeOK, Go, tableVars
<1>15. ASSUME NEW s \in Scripts, ReadDatabase(s) PROVE TypeOK'
  BY <1>15 DEF ReadDatabase, TypeOK, tableVars
<1>16. ASSUME NEW s \in Scripts, VerifyExperiment(s) PROVE TypeOK'
  BY <1>16 DEF VerifyExperiment, TypeOK, Go, scriptVars, tableVars
<1>17. ASSUME NEW i \in Ids, Recover(i) PROVE TypeOK'
  BY <1>17 DEF Recover, TypeOK, Terminal, scriptVars
<1>18. ASSUME NEW i \in Ids, Reevaluate(i) PROVE TypeOK'
  <2>1. evaluation' \in [Ids -> Evaluations \cup {None}]
    BY <1>18, EvaluatedTypes DEF Reevaluate
  <2> QED BY <1>18, <2>1 DEF Reevaluate, TypeOK, Incident, scriptVars
<1>19. ASSUME UNCHANGED vars PROVE TypeOK'
  BY <1>19 DEF vars, TypeOK, scriptVars, tableVars
<1> QED
  BY <1>1, <1>2, <1>3, <1>4, <1>5, <1>6, <1>7, <1>8, <1>9, <1>10, <1>11, <1>12, <1>13, <1>14,
     <1>15, <1>16, <1>17, <1>18, <1>19 DEF Next

(***************************************************************************)
(* The invariant is kept.                                                  *)
(***************************************************************************)

Rest == RowsFit /\ ReadsOwn /\ LaterReadsBoth /\ Verified

\* A step that writes no row, notes nothing and reads nothing back.
LEMMA QuietKeeps ==
  ASSUME ExperimentInv,
         noted' = noted, listed' = listed, Stored' = Stored,
         \A s \in Scripts : stage[s] # "idle" => stage'[s] # "idle" /\ arguments'[s] = arguments[s],
         \A s \in Scripts : stage'[s] \in {"running", "evaluating"} => row'[Current(s)] # None,
         \A s \in Scripts : stage'[s] \in {"reading", "published"} => stage[s] = stage'[s]
  PROVE  Rest'
<1>1. \A s \in Scripts : Passed(s)' = Passed(s) /\ Current(s)' = Current(s)
  BY DEF Passed, Current
<1>2. \A s \in Scripts : HasRead(s)' => HasRead(s) /\ arguments'[s] = arguments[s]
  BY DEF HasRead
<1>3. RowsFit'
  BY <1>1, IdParts DEF ExperimentInv, RowsFit, Stored
<1>4. ReadsOwn'
  BY <1>1, <1>2 DEF ExperimentInv, ReadsOwn
<1>5. LaterReadsBoth'
  BY <1>1, <1>2 DEF ExperimentInv, LaterReadsBoth
<1>6. Verified'
  BY DEF ExperimentInv, Verified, ImmediateIsRight
<1> QED BY <1>3, <1>4, <1>5, <1>6 DEF Rest

\* What there is of rows stays if none but existing ones are written.
LEMMA SameRows ==
  ASSUME row' = row
  PROVE  Stored' = Stored
BY DEF Stored

LEMMA SameStored ==
  ASSUME TypeOK, NEW i \in Ids, row[i] # None,
         NEW status \in Terminal, row' = [row EXCEPT ![i] = status]
  PROVE  Stored' = Stored /\ \A j \in Ids : row'[j] # None <=> row[j] # None
BY NamesAssumption DEF Stored, TypeOK

\* The row of the next run of a script.
LEMMA PrepareKeeps ==
  ASSUME ExperimentInv, NEW s \in Scripts, Prepare(s)
  PROVE  Rest'
<1>1. Current(s) \in Ids /\ Current(s)[1] = s
  BY CurrentRun DEF ExperimentInv, Prepare, Go
<1>2. "running" # None
  BY NamesAssumption
<1>3. Stored' = Stored \cup {Current(s)}
  BY <1>1, <1>2 DEF Stored, Prepare, ExperimentInv, TypeOK
<1>4. \A t \in Scripts : Passed(t)' = Passed(t) /\ Current(t)' = Current(t)
  BY DEF Passed, Current, Prepare, scriptVars
<1>5. \A t \in Scripts : HasRead(t)' => HasRead(t)
  BY DEF HasRead, Prepare, Go, ExperimentInv, TypeOK
<1>6. RowsFit'
  <2>1. IsFiniteSet(Stored)'
    BY <1>3, FS_AddElement DEF ExperimentInv, RowsFit
  <2>2. \A i \in Stored' : stage'[i[1]] # "idle"
    <3> SUFFICES ASSUME NEW i \in Stored' PROVE stage'[i[1]] # "idle"
      OBVIOUS
    <3>1. CASE i = Current(s)
      BY <3>1, <1>1 DEF Prepare, Go, ExperimentInv, TypeOK
    <3>2. CASE i \in Stored
      <4>1. i[1] \in Scripts /\ stage[i[1]] # "idle"
        BY <3>2, IdParts DEF ExperimentInv, RowsFit, Stored
      <4> QED BY <4>1 DEF Prepare, Go, ExperimentInv, TypeOK
    <3> QED BY <3>1, <3>2, <1>3
  <2>3. \A t \in Scripts : stage'[t] \in {"running", "evaluating"} => row'[Current(t)'] # None
    <3> SUFFICES ASSUME NEW t \in Scripts, stage'[t] \in {"running", "evaluating"}
                 PROVE  Current(t) \in Stored'
      BY <1>4 DEF Stored
    <3>1. CASE t = s
      BY <3>1, <1>3
    <3>2. CASE t # s
      <4>1. stage[t] \in {"running", "evaluating"}
        BY <3>2 DEF Prepare, Go, ExperimentInv, TypeOK
      <4>2. Current(t) \in Ids /\ row[Current(t)] # None
        BY <4>1, CurrentRun DEF ExperimentInv, RowsFit
      <4> QED BY <4>2, <1>3 DEF Stored
    <3> QED BY <3>1, <3>2
  <2>4. \A t \in Scripts : Passed(t)' \subseteq Stored'
    BY <1>3, <1>4 DEF ExperimentInv, RowsFit
  <2> QED BY <2>1, <2>2, <2>3, <2>4 DEF RowsFit
<1>7. ReadsOwn' /\ LaterReadsBoth'
  BY <1>4, <1>5 DEF ExperimentInv, ReadsOwn, LaterReadsBoth, Prepare, scriptVars
<1>8. Verified'
  BY DEF ExperimentInv, Verified, ImmediateIsRight, Prepare, scriptVars, Go, TypeOK
<1> QED BY <1>6, <1>7, <1>8 DEF Rest

\* An outcome is noted: a run that passes has a row.
LEMMA NoteKeeps ==
  ASSUME ExperimentInv, NEW s \in Scripts, NEW from \in {"next", "running", "evaluating"},
         NEW outcome \in Outcomes, Note(s, from, outcome),
         Stored' = Stored, outcome = "passed" => Current(s) \in Stored
  PROVE  Rest'
<1>1. noted[s] \in Seq(Outcomes) /\ Len(noted[s]) \in Nat /\ stage[s] = from
  BY DEF ExperimentInv, TypeOK, Note, Go
<1>2. noted'[s] = Append(noted[s], outcome) /\ \A t \in Scripts \ {s} : noted'[t] = noted[t]
  BY DEF ExperimentInv, TypeOK, Note
<1>3. /\ Len(noted'[s]) = Len(noted[s]) + 1
      /\ \A n \in 1..Len(noted[s]) : noted'[s][n] = noted[s][n]
      /\ noted'[s][Len(noted[s]) + 1] = outcome
  BY <1>1, <1>2
<1>4. \A t \in Scripts \ {s} : Passed(t)' = Passed(t) /\ Current(t)' = Current(t) /\ stage'[t] = stage[t]
  BY <1>2 DEF Passed, Current, Note, Go, ExperimentInv, TypeOK
<1>5. Passed(s)' \subseteq Stored
  <2> SUFFICES ASSUME NEW i \in Ids, i[1] = s, i[2] \in 1..Len(noted'[s]), noted'[s][i[2]] = "passed"
               PROVE  i \in Stored
    BY DEF Passed
  <2>1. CASE i[2] \in 1..Len(noted[s])
    BY <2>1, <1>3 DEF Passed, ExperimentInv, RowsFit
  <2>2. CASE i[2] = Len(noted[s]) + 1
    BY <2>2, <1>3, IdParts DEF Current
  <2> QED BY <2>1, <2>2, <1>1, <1>3
<1>6. stage'[s] \in {"next", "release"} /\ stage[s] # "idle" /\ UNCHANGED <<arguments, listed>>
  BY <1>1 DEF Note, Go, ExperimentInv, TypeOK
<1>7. \A t \in Scripts : HasRead(t)' => HasRead(t) /\ t # s
  BY <1>4, <1>6 DEF HasRead
<1>8. RowsFit'
  <2>1. \A i \in Stored : stage'[i[1]] # "idle"
    BY <1>4, <1>6, IdParts DEF ExperimentInv, RowsFit, Stored
  <2>2. \A t \in Scripts : stage'[t] \in {"running", "evaluating"} => row'[Current(t)'] # None
    <3> SUFFICES ASSUME NEW t \in Scripts, stage'[t] \in {"running", "evaluating"}
                 PROVE  Current(t)' \in Stored'
      BY DEF Stored
    <3>1. t # s
      BY <1>6
    <3>2. Current(t) \in Ids /\ row[Current(t)] # None
      BY <3>1, <1>4, CurrentRun DEF ExperimentInv, RowsFit
    <3> QED BY <3>1, <3>2, <1>4 DEF Stored
  <2>3. \A t \in Scripts : Passed(t)' \subseteq Stored'
    BY <1>4, <1>5 DEF ExperimentInv, RowsFit
  <2> QED BY <2>1, <2>2, <2>3 DEF ExperimentInv, RowsFit
<1>9. ReadsOwn' /\ LaterReadsBoth'
  BY <1>4, <1>6, <1>7 DEF ExperimentInv, ReadsOwn, LaterReadsBoth
<1>10. Verified'
  BY <1>2, <1>4, <1>6 DEF ExperimentInv, Verified, ImmediateIsRight
<1> QED BY <1>8, <1>9, <1>10 DEF Rest

\* A script reads back all rows that there are under its id: its own, and those of whoever has
\* read before.
LEMMA GetExperimentKeeps ==
  ASSUME ExperimentInv, NEW s \in Scripts, GetExperiment(s)
  PROVE  Rest'
<1> DEFINE name == arguments[s].name
<1>1. stage[s] = "returned" /\ stage' = [stage EXCEPT ![s] = IF Refuses(Rows(name)) THEN "rejected" ELSE "reading"]
  BY DEF GetExperiment, Go
<1>2. listed' = [listed EXCEPT ![s] = Listing(name)] /\ UNCHANGED <<arguments, noted, row>>
  BY DEF GetExperiment, tableVars
<1>3. \A t \in Scripts : Passed(t)' = Passed(t) /\ Current(t)' = Current(t)
  BY <1>2 DEF Passed, Current
<1>4. \A t \in Scripts \ {s} : stage'[t] = stage[t]
  BY <1>1 DEF ExperimentInv, TypeOK
<1>5. stage'[s] \in {"rejected", "reading"}
  BY <1>1 DEF ExperimentInv, TypeOK
<1>6. RowsFit'
  <2>1. Stored' = Stored
    BY <1>2, SameRows
  <2>2. \A i \in Stored : stage'[i[1]] # "idle"
    BY <1>4, <1>5, IdParts DEF ExperimentInv, RowsFit, Stored
  <2>3. \A t \in Scripts : stage'[t] \in {"running", "evaluating"} => row'[Current(t)'] # None
    BY <1>2, <1>3, <1>4, <1>5 DEF ExperimentInv, RowsFit
  <2> QED BY <2>1, <2>2, <2>3, <1>3 DEF ExperimentInv, RowsFit
<1>7. \A t \in Scripts : arguments[t].name = name => Passed(t) \subseteq Rows(name)
  BY DEF Rows, Passed, ExperimentInv, RowsFit, Stored
<1>8. IsFiniteSet(Rows(name))
  <2>1. Rows(name) \in SUBSET Stored
    BY DEF Rows, Stored
  <2> QED BY <2>1, FS_Subset DEF ExperimentInv, RowsFit
<1>9. DOMAIN listed'[s] = Rows(name) /\ \A t \in Scripts \ {s} : listed'[t] = listed[t]
  BY <1>2 DEF Listing, ExperimentInv, TypeOK
<1>10. ReadsOwn'
  BY <1>2, <1>3, <1>4, <1>5, <1>7, <1>8, <1>9 DEF ExperimentInv, ReadsOwn, HasRead
<1>11. LaterReadsBoth'
  BY <1>2, <1>3, <1>4, <1>5, <1>7, <1>9 DEF ExperimentInv, LaterReadsBoth, HasRead
<1>12. Verified'
  BY <1>2, <1>4, <1>5 DEF ExperimentInv, Verified, ImmediateIsRight
<1> QED BY <1>6, <1>10, <1>11, <1>12 DEF Rest

LEMMA VerifyExperimentKeeps ==
  ASSUME ExperimentInv, NEW s \in Scripts, VerifyExperiment(s)
  PROVE  Rest'
<1>1. stage[s] = "reading" /\ stage'[s] \in {"published", "rejected"} /\ UNCHANGED <<scriptVars, row>>
  BY DEF VerifyExperiment, Go, ExperimentInv, TypeOK, tableVars
<1>2. \A t \in Scripts \ {s} : stage'[t] = stage[t]
  BY DEF VerifyExperiment, Go, ExperimentInv, TypeOK
<1>3. \A t \in Scripts : Passed(t)' = Passed(t) /\ Current(t)' = Current(t)
  BY <1>1 DEF Passed, Current, scriptVars
<1>4. \A t \in Scripts : HasRead(t)' => HasRead(t)
  BY <1>1, <1>2 DEF HasRead
<1>5. RowsFit'
  <2>1. Stored' = Stored
    BY <1>1, SameRows
  <2>2. \A i \in Stored : stage'[i[1]] # "idle"
    BY <1>1, <1>2, IdParts DEF ExperimentInv, RowsFit, Stored
  <2>3. \A t \in Scripts : stage'[t] \in {"running", "evaluating"} => row'[Current(t)'] # None
    BY <1>1, <1>2, <1>3 DEF ExperimentInv, RowsFit
  <2> QED BY <2>1, <2>2, <2>3, <1>3 DEF ExperimentInv, RowsFit
<1>6. ReadsOwn' /\ LaterReadsBoth'
  BY <1>1, <1>3, <1>4 DEF ExperimentInv, ReadsOwn, LaterReadsBoth, scriptVars
<1>7. Verified'
  <2> SUFFICES ASSUME NEW t \in Scripts, stage'[t] = "published"
               PROVE  ImmediateIsRight(t) /\ Cardinality(DOMAIN listed[t]) = Planned(arguments[t])
    BY <1>1 DEF Verified, ImmediateIsRight, scriptVars
  <2>1. CASE t = s
    BY <2>1 DEF VerifyExperiment, Go, ExperimentInv, TypeOK, PersistedIsRight
  <2>2. CASE t # s
    BY <2>2, <1>2 DEF ExperimentInv, Verified
  <2> QED BY <2>1, <2>2
<1> QED BY <1>5, <1>6, <1>7 DEF Rest

LEMMA InitInvariant == Init => ExperimentInv
<1> SUFFICES ASSUME Init PROVE ExperimentInv
  OBVIOUS
<1>1. Stored = {}
  BY DEF Init, Stored
<1>2. \A s \in Scripts : Passed(s) = {} /\ ~HasRead(s) /\ stage[s] = "idle"
  BY DEF Init, Passed, HasRead
<1>3. RowsFit
  BY <1>1, <1>2, FS_EmptySet DEF RowsFit
<1> QED BY <1>2, <1>3, InitTypes DEF ExperimentInv, ReadsOwn, LaterReadsBoth, Verified

LEMMA NextInvariant == ExperimentInv /\ [Next]_vars => ExperimentInv'
<1> SUFFICES ASSUME ExperimentInv, [Next]_vars PROVE Rest'
  BY NextTypes DEF ExperimentInv, Rest
<1> USE DEF Go
<1>1. ASSUME NEW s \in Scripts, CheckUnused(s) PROVE Rest'
  <2>1. PICK a \in Arguments, to \in {"unused", "exists"} :
          /\ arguments' = [arguments EXCEPT ![s] = a]
          /\ stage[s] = "idle" /\ stage' = [stage EXCEPT ![s] = to]
    BY <1>1 DEF CheckUnused
  <2>2. row' = row /\ noted' = noted /\ listed' = listed
    BY <1>1 DEF CheckUnused, tableVars
  <2>3. \A t \in Scripts : \/ stage'[t] = stage[t] /\ arguments'[t] = arguments[t]
                           \/ stage[t] = "idle" /\ stage'[t] \in {"unused", "exists"}
    BY <2>1 DEF ExperimentInv, TypeOK
  <2>4. \A t \in Scripts : stage'[t] \in {"running", "evaluating"} => row'[Current(t)] # None
    BY <2>2, <2>3 DEF ExperimentInv, RowsFit
  <2> QED BY <2>2, <2>3, <2>4, SameRows, QuietKeeps
<1>2. ASSUME row' = row, UNCHANGED <<arguments, noted, listed>>,
             \A t \in Scripts : \/ stage'[t] = stage[t]
                                \/ stage'[t] \notin {"idle", "running", "evaluating", "reading", "published"}
      PROVE  Rest'
  <2>1. \A t \in Scripts : stage'[t] \in {"running", "evaluating"} => row'[Current(t)] # None
    BY <1>2 DEF ExperimentInv, RowsFit
  <2> QED BY <1>2, <2>1, SameRows, QuietKeeps
<1>3. ASSUME NEW s \in Scripts, Acquire(s) \/ Busy(s) \/ LoseLock(s) \/ Release(s) PROVE Rest'
  BY <1>2, <1>3 DEF Acquire, Busy, LoseLock, Release, ExperimentInv, TypeOK, scriptVars, tableVars
<1>4. ASSUME NEW s \in Scripts, Call(s) \/ Crash(s) \/ ReadDatabase(s) PROVE Rest'
  BY <1>2, <1>4 DEF Call, Crash, ReadDatabase, ExperimentInv, TypeOK, scriptVars, tableVars
<1>5. ASSUME NEW s \in Scripts, Terminate(s) PROVE Rest'
  <2>1. Current(s) \in Ids /\ row[Current(s)] # None
    BY <1>5, CurrentRun DEF Terminate, ExperimentInv, RowsFit
  <2>2. Stored' = Stored /\ \A j \in Ids : row'[j] # None <=> row[j] # None
    BY <1>5, <2>1, SameStored DEF Terminate, ExperimentInv
  <2>3. \A t \in Scripts : stage'[t] \in {"running", "evaluating"} => row'[Current(t)] # None
    <3> SUFFICES ASSUME NEW t \in Scripts, stage'[t] \in {"running", "evaluating"}
                 PROVE  row'[Current(t)] # None
      OBVIOUS
    <3>1. stage[t] \in {"running", "evaluating"}
      BY <1>5 DEF Terminate, ExperimentInv, TypeOK
    <3> QED BY <3>1, <2>2, CurrentRun DEF ExperimentInv, RowsFit
  <2>4. \A t \in Scripts : stage'[t] = stage[t] \/ (stage[t] = "running" /\ stage'[t] = "evaluating")
    BY <1>5 DEF Terminate, ExperimentInv, TypeOK
  <2> QED BY <1>5, <2>2, <2>3, <2>4, QuietKeeps DEF Terminate, scriptVars
<1>6. ASSUME NEW s \in Scripts, NoRun(s) PROVE Rest'
  BY <1>6, SameRows, NoteKeeps DEF NoRun, Outcomes, tableVars
<1>7. ASSUME NEW s \in Scripts, RunRaises(s) PROVE Rest'
  <2>1. Current(s) \in Ids /\ row[Current(s)] # None
    BY <1>7, CurrentRun DEF RunRaises, ExperimentInv, RowsFit
  <2>2. row' = row \/ \E status \in Terminal : row' = [row EXCEPT ![Current(s)] = status]
    BY <1>7 DEF RunRaises
  <2>3. Stored' = Stored
    BY <1>7, <2>1, <2>2, SameRows, SameStored DEF RunRaises, ExperimentInv
  <2> QED BY <1>7, <2>3, NoteKeeps DEF RunRaises, Outcomes
<1>8. ASSUME NEW s \in Scripts, Evaluate(s) \/ EvaluationRaises(s) PROVE Rest'
  <2>1. Current(s) \in Stored
    BY <1>8, CurrentRun DEF Evaluate, EvaluationRaises, ExperimentInv, RowsFit, Stored
  <2>2. PICK outcome \in Outcomes : Note(s, "evaluating", outcome)
    BY <1>8 DEF Evaluate, EvaluationRaises, Outcomes
  <2>3. row' = row
    BY <1>8 DEF Evaluate, EvaluationRaises
  <2> QED BY <2>1, <2>2, <2>3, SameRows, NoteKeeps
<1>9. ASSUME NEW i \in Ids, Recover(i) \/ Reevaluate(i) PROVE Rest'
  BY <1>2, <1>9 DEF Recover, Reevaluate, scriptVars
<1>10. ASSUME UNCHANGED vars PROVE Rest'
  BY <1>2, <1>10 DEF vars, scriptVars, tableVars
<1> QED
  BY <1>1, <1>3, <1>4, <1>5, <1>6, <1>7, <1>8, <1>9, <1>10,
     PrepareKeeps, GetExperimentKeeps, VerifyExperimentKeeps DEF Next

(***************************************************************************)
(* Theorems.                                                               *)
(***************************************************************************)

\* Every variable of Experiments keeps its shape, and a script at a run has not come to the end
\* of its plan.
THEOREM ExperimentTypes == Spec => []TypeOK
BY InitTypes, NextTypes, PTL DEF Spec

LEMMA Invariant == Spec => []ExperimentInv
BY InitInvariant, NextInvariant, PTL DEF Spec

\* As many runs as are planned.
LEMMA OwnCount ==
  ASSUME NEW s \in Scripts, arguments[s] \in Arguments
  PROVE  Cardinality(Own(s)) = Planned(arguments[s])
<1> DEFINE n == Planned(arguments[s])
           f == [k \in 1..n |-> <<s, k>>]
<1>1. n \in Nat /\ 2 <= n
  BY PlannedRuns
<1>2. IsFiniteSet(1..n) /\ Cardinality(1..n) = n
  BY <1>1, FS_Interval
<1>3. f \in Bijection(1..n, Own(s))
  BY DEF Bijection, Injection, Surjection, IsInjective, Own
<1> QED BY <1>2, <1>3, FS_Bijection DEF ExistsBijection

\* What a published script has read are the runs of its plan.
LEMMA PublishedReads ==
  ASSUME ExperimentInv, NEW s \in Scripts, stage[s] = "published"
  PROVE  /\ arguments[s] \in Arguments
         /\ \A n \in 1..Planned(arguments[s]) : noted[s][n] = "passed"
         /\ Own(s) = Passed(s)
         /\ DOMAIN listed[s] = Own(s)
<1>1. arguments[s] \in Arguments
  BY DEF ExperimentInv, TypeOK
<1>2. Len(noted[s]) = Planned(arguments[s]) /\ \A n \in 1..Planned(arguments[s]) : noted[s][n] = "passed"
  BY DEF ExperimentInv, Verified, ImmediateIsRight
<1>3. Own(s) = Passed(s)
  BY <1>1, <1>2, OwnIds, IdParts DEF Own, Passed
<1>4. Passed(s) \in SUBSET (DOMAIN listed[s]) /\ IsFiniteSet(DOMAIN listed[s])
  BY DEF ExperimentInv, ReadsOwn, HasRead
<1>5. Cardinality(DOMAIN listed[s]) = Cardinality(Own(s))
  BY <1>1, OwnCount DEF ExperimentInv, Verified
<1>6. DOMAIN listed[s] = Own(s)
  BY <1>3, <1>4, <1>5, FS_Subset
<1> QED BY <1>1, <1>2, <1>3, <1>6

\* What is published is exactly what the script itself has run and has seen pass.
THEOREM PublishedRunsAreOwn == Spec => []PublishedIsOwn
<1>1. ExperimentInv => PublishedIsOwn
  BY PublishedReads DEF PublishedIsOwn
<1> QED BY <1>1, Invariant, PTL

\* One experiment_id is published at most once.
THEOREM IdsArePublishedOnce == Spec => []PublishedOnce
<1>1. ExperimentInv => PublishedOnce
  <2> SUFFICES ASSUME ExperimentInv, NEW s \in Scripts, NEW t \in Scripts, s # t,
                      stage[s] = "published", stage[t] = "published", arguments[s].name = arguments[t].name
               PROVE  FALSE
    BY DEF PublishedOnce
  <2>1. Own(t) \subseteq Own(s) \/ Own(s) \subseteq Own(t)
    BY PublishedReads DEF ExperimentInv, LaterReadsBoth, HasRead
  <2>2. <<s, 1>> \in Own(s) /\ <<t, 1>> \in Own(t)
    BY PublishedReads, PlannedRuns DEF Own
  <2>3. <<s, 1>> \notin Own(t) /\ <<t, 1>> \notin Own(s)
    BY DEF Own
  <2> QED BY <2>1, <2>2, <2>3
<1> QED BY <1>1, Invariant, PTL

(***************************************************************************)
(* What a script reads.                                                    *)
(***************************************************************************)

\* A script is never ahead of its notes by more than the run it is at.
Working == {"running", "evaluating", "crashed"}

RowsNumbered ==
  \A i \in Stored :
    \/ i[2] <= Len(noted[i[1]])
    \/ i = Current(i[1]) /\ stage[i[1]] \in Working

\* Calls, evaluations and tickets belong to runs that have a row; a passed evaluation has seen
\* its call succeed.
Marks ==
  /\ \A i \in Ids : call[i] # None \/ evaluation[i] # None => i \in Stored
  /\ tickets \subseteq Stored
  /\ \A i \in Ids : evaluation[i] # None /\ evaluation[i].passed => call[i] = "succeeded"

\* Who has not come to the results has read nothing of them.
Results == {"reading", "published", "rejected", "crashed"}

NothingRead ==
  \A s \in Scripts : stage[s] \notin Results => DOMAIN listed[s] = {} /\ answers[s] = <<>>

\* What was listed stays: the row, the evaluation, and the call that made it pass.
Confirmed(i) == evaluation[i] # None /\ call[i] = "succeeded"

ListedStays ==
  \A s \in Scripts : \A i \in DOMAIN listed[s] :
    /\ i \in Rows(arguments[s].name)
    /\ listed[s][i].evaluation = [passed |-> TRUE, source |-> "live"] => Confirmed(i)

\* The experiment of a script has passed and has its id for itself.
Right(s) == Rows(arguments[s].name) = Own(s) /\ ImmediateIsRight(s) /\ PersistedIsRight(s)

\* No other script has run anything.
Alone(s) == \A i \in Stored : i[1] = s

\* All questions but the one for the tickets have the right answer whenever they are asked.
AnswersFit ==
  \A s \in Scripts :
    /\ \E values : answers[s] \in Seq(values)
    /\ Len(answers[s]) <= 4
    /\ Right(s) => \A q \in 1..Len(answers[s]) :
         q <= 3 \/ Alone(s) => answers[s][q] = Expectation(s)[q]

\* The last run of a script.
Latest(i) == i \in Stored /\ \A j \in Stored : j[1] = i[1] => j[2] <= i[2]

\* The tickets of a script that is alone are those of its last run.
TicketsAlone ==
  \A s \in Scripts : Alone(s) =>
    /\ \A i \in tickets : Latest(i)
    /\ \A i \in Ids : Latest(i) /\ Task(i[2]) = "create_ticket" /\ call[i] = "succeeded" => i \in tickets

\* Why a script is turned down.
Rejections ==
  \A s \in Scripts : stage[s] = "rejected" =>
    \/ Refuses(DOMAIN listed[s])
    \/ Len(answers[s]) = 4 /\ ~(ImmediateIsRight(s) /\ PersistedIsRight(s) /\ DatabaseIsRight(s))

ReadInv ==
  RowsNumbered /\ Marks /\ NothingRead /\ ListedStays /\ AnswersFit /\ TicketsAlone /\ Rejections

(***************************************************************************)
(* Which step changes what.                                                *)
(***************************************************************************)

\* Only the run that is under way gets a call, and a ticket with it.
Leaving(s) ==
  /\ stage[s] = "running" /\ call[Current(s)] = None
  /\ \E status \in {"running", "succeeded", "failed", "unknown"} : Leaves(Current(s), status)

Noting(s) ==
  /\ stage[s] \in {"next", "running", "evaluating"}
  /\ \E outcome \in Outcomes : noted' = [noted EXCEPT ![s] = Append(@, outcome)]

Evaluating(i) ==
  /\ i \in Stored
  /\ UNCHANGED <<row, call, tickets>>
  /\ \E oracles \in BOOLEAN, source \in {"live", "persisted"} : Evaluated(i, oracles, source)

\* Where a script may come from and go to.
Onward(s) ==
  /\ stage[s] # "idle" => stage'[s] # "idle" /\ arguments'[s] = arguments[s]
  /\ stage[s] \in Results => stage'[s] \in Results
  /\ stage'[s] = "rejected" => stage[s] = "rejected" \/ GetExperiment(s) \/ VerifyExperiment(s)
  /\ stage[s] \in Working => stage'[s] \in Working \/ Noting(s)

Frame ==
  /\ listed' = listed \/ \E s \in Scripts : GetExperiment(s)
  /\ answers' = answers \/ \E s \in Scripts : ReadDatabase(s)
  /\ noted' = noted \/ \E s \in Scripts : Noting(s)
  /\ Stored' = Stored \/ \E s \in Scripts : Prepare(s)
  /\ \/ UNCHANGED <<call, tickets>>
     \/ \E s \in Scripts : Prepare(s) \/ Leaving(s)
     \/ \E i \in Ids : Recover(i)
  /\ evaluation' = evaluation \/ \E i \in Ids : Evaluating(i)
  /\ \A s \in Scripts : Onward(s)

LEMMA Frames ==
  ASSUME ExperimentInv, [Next]_vars
  PROVE  Frame
<1> USE DEF Go
<1>0. \A s \in Scripts : stage[s] \in {"running", "evaluating"} => Current(s) \in Stored /\ Current(s) \in Ids
  BY CurrentRun DEF ExperimentInv, RowsFit, Stored
<1>1. ASSUME NEW s \in Scripts,
             CheckUnused(s) \/ Acquire(s) \/ Busy(s) \/ LoseLock(s) \/ Release(s)
             \/ ReadDatabase(s) \/ GetExperiment(s) \/ VerifyExperiment(s)
      PROVE  Frame
  <2>1. row' = row /\ UNCHANGED <<call, tickets, evaluation, noted>>
    BY <1>1 DEF CheckUnused, Acquire, Busy, LoseLock, Release, ReadDatabase, GetExperiment, VerifyExperiment,
                scriptVars, tableVars
  <2>2. listed' = listed \/ GetExperiment(s)
    BY <1>1 DEF CheckUnused, Acquire, Busy, LoseLock, Release, ReadDatabase, VerifyExperiment, scriptVars
  <2>3. answers' = answers \/ ReadDatabase(s)
    BY <1>1 DEF CheckUnused, Acquire, Busy, LoseLock, Release, GetExperiment, VerifyExperiment, scriptVars
  <2>4. \A t \in Scripts : Onward(t)
    BY <1>1 DEF Onward, Results, Working, CheckUnused, Acquire, Busy, LoseLock, Release, ReadDatabase, GetExperiment, VerifyExperiment,
                scriptVars, ExperimentInv, TypeOK
  <2> QED BY <2>1, <2>2, <2>3, <2>4, SameRows DEF Frame
<1>2. ASSUME NEW s \in Scripts, Prepare(s) PROVE Frame
  BY <1>2 DEF Prepare, Frame, Onward, Results, Working, scriptVars, ExperimentInv, TypeOK
<1>3. ASSUME NEW s \in Scripts, Call(s) \/ Crash(s) PROVE Frame
  <2>1. row' = row /\ UNCHANGED <<evaluation, noted, listed, answers, arguments>>
    BY <1>3 DEF Call, Crash, scriptVars
  <2>2. UNCHANGED <<call, tickets>> \/ Leaving(s)
    BY <1>3 DEF Call, Crash, Leaving
  <2>3. \A t \in Scripts : Onward(t)
    BY <1>3, <2>1 DEF Call, Crash, Onward, Results, Working, ExperimentInv, TypeOK
  <2> QED BY <2>1, <2>2, <2>3, SameRows DEF Frame
<1>4. ASSUME NEW s \in Scripts, Terminate(s) PROVE Frame
  <2>1. Stored' = Stored
    BY <1>0, <1>4, SameStored DEF Terminate, ExperimentInv, Stored
  <2> QED BY <1>4, <2>1 DEF Terminate, Frame, Onward, Results, Working, scriptVars, ExperimentInv, TypeOK
<1>5. ASSUME NEW s \in Scripts, NEW from \in {"next", "running", "evaluating"}, NEW outcome \in Outcomes,
             Note(s, from, outcome)
      PROVE  /\ listed' = listed /\ answers' = answers /\ Noting(s)
             /\ \A t \in Scripts : Onward(t)
  <2>1. Noting(s) /\ UNCHANGED <<listed, answers, arguments>>
    BY <1>5 DEF Note, Noting
  <2>2. \A t \in Scripts : stage'[t] = stage[t] \/ (t = s /\ stage'[s] \in {"next", "release"})
    BY <1>5 DEF Note, ExperimentInv, TypeOK
  <2> QED BY <2>1, <2>2 DEF Onward, Results, Working, Noting
<1>6. ASSUME NEW s \in Scripts, NoRun(s) PROVE Frame
  BY <1>5, <1>6, SameRows DEF NoRun, Outcomes, Frame, tableVars
<1>7. ASSUME NEW s \in Scripts, RunRaises(s) PROVE Frame
  <2>1. row' = row \/ \E status \in Terminal : row' = [row EXCEPT ![Current(s)] = status]
    BY <1>7 DEF RunRaises
  <2>2. Stored' = Stored
    BY <1>0, <1>7, <2>1, SameRows, SameStored DEF RunRaises, ExperimentInv, Stored
  <2> QED BY <1>5, <1>7, <2>2 DEF RunRaises, Outcomes, Frame
<1>8. ASSUME NEW s \in Scripts, Evaluate(s) \/ EvaluationRaises(s) PROVE Frame
  <2>1. row' = row /\ UNCHANGED <<call, tickets>> /\ stage[s] = "evaluating"
    BY <1>8 DEF Evaluate, EvaluationRaises
  <2>2. PICK outcome \in Outcomes : Note(s, "evaluating", outcome)
    BY <1>8 DEF Evaluate, EvaluationRaises, Outcomes
  <2>3. evaluation' = evaluation \/ Evaluating(Current(s))
    BY <1>0, <1>8, <2>1 DEF Evaluate, EvaluationRaises, Evaluating
  <2> QED BY <1>0, <1>5, <2>1, <2>2, <2>3, SameRows DEF Frame
<1>9. ASSUME NEW i \in Ids, Recover(i) PROVE Frame
  BY <1>9, SameRows DEF Recover, Frame, Onward, scriptVars
<1>10. ASSUME NEW i \in Ids, Reevaluate(i) PROVE Frame
  <2>1. Evaluating(i)
    BY <1>10, NamesAssumption DEF Reevaluate, Evaluating, Stored
  <2> QED BY <1>10, <2>1, SameRows DEF Reevaluate, Frame, Onward, scriptVars
<1>11. ASSUME UNCHANGED vars PROVE Frame
  BY <1>11, SameRows DEF vars, Frame, Onward, scriptVars, tableVars
<1> QED BY <1>1, <1>2, <1>3, <1>4, <1>6, <1>7, <1>8, <1>9, <1>10, <1>11 DEF Next

\* What a step never takes back.
LEMMA Later ==
  ASSUME ExperimentInv, Marks, [Next]_vars
  PROVE  /\ Stored \subseteq Stored'
         /\ \A i \in Ids : call[i] = "succeeded" => call'[i] = "succeeded"
         /\ \A i \in Ids : evaluation[i] # None => evaluation'[i] # None
         /\ \A s \in Scripts : stage[s] \in Results => arguments'[s] = arguments[s] /\ noted'[s] = noted[s]
         /\ \A s \in Scripts : stage[s] \in Results =>
              Rows(arguments[s].name) \subseteq Rows(arguments[s].name)'
<1>1. Frame
  BY Frames
<1>2. Stored \subseteq Stored'
  <2>1. ASSUME NEW s \in Scripts, Prepare(s) PROVE Stored \subseteq Stored'
    BY <2>1, NamesAssumption, CurrentRun DEF Prepare, Go, Stored, ExperimentInv, TypeOK
  <2> QED BY <1>1, <2>1 DEF Frame
<1>3. ASSUME NEW i \in Ids, call[i] = "succeeded" PROVE call'[i] = "succeeded"
  <2>1. "succeeded" # None /\ "unknown" # "succeeded"
    BY NamesAssumption DEF Terminal
  <2>2. ASSUME NEW s \in Scripts, Leaving(s) PROVE call'[i] = "succeeded"
    <3>1. PICK status : call' = [call EXCEPT ![Current(s)] = status]
      BY <2>2 DEF Leaving, Leaves
    <3> QED BY <1>3, <2>1, <2>2, <3>1 DEF Leaving, ExperimentInv, TypeOK
  <2>3. ASSUME NEW j \in Ids, Recover(j) PROVE call'[i] = "succeeded"
    BY <1>3, <2>1, <2>3 DEF Recover, ExperimentInv, TypeOK
  <2>4. ASSUME NEW s \in Scripts, Prepare(s) PROVE call'[i] = "succeeded"
    BY <1>3, <2>4 DEF Prepare
  <2> QED BY <1>1, <1>3, <2>2, <2>3, <2>4 DEF Frame
<1>4. ASSUME NEW i \in Ids, evaluation[i] # None PROVE evaluation'[i] # None
  <2>1. ASSUME NEW j \in Ids, Evaluating(j) PROVE evaluation'[i] # None
    <3>1. \A e \in Evaluations : e # None
      BY NamesAssumption
    <3>2. PICK e \in Evaluations : evaluation' = [evaluation EXCEPT ![j] = e]
      BY <2>1 DEF Evaluating, Evaluated, Evaluations
    <3> QED BY <1>4, <3>1, <3>2 DEF ExperimentInv, TypeOK
  <2> QED BY <1>1, <1>4, <2>1 DEF Frame
<1>5. ASSUME NEW s \in Scripts, stage[s] \in Results PROVE arguments'[s] = arguments[s] /\ noted'[s] = noted[s]
  <2>1. \A t \in Scripts : Noting(t) => t # s
    BY <1>5 DEF Noting, Results
  <2>2. noted'[s] = noted[s]
    BY <1>1, <2>1 DEF Frame, Noting, ExperimentInv, TypeOK
  <2> QED BY <1>1, <1>5, <2>2 DEF Frame, Onward, Results
<1>6. ASSUME NEW s \in Scripts, stage[s] \in Results
      PROVE  Rows(arguments[s].name) \subseteq Rows(arguments[s].name)'
  <2> SUFFICES ASSUME NEW i \in Rows(arguments[s].name) PROVE i \in Rows(arguments[s].name)'
    OBVIOUS
  <2>1. i \in Stored /\ i \in Stored' /\ i[1] \in Scripts /\ arguments[i[1]].name = arguments[s].name
    BY <1>2, IdParts DEF Rows, Stored
  <2>2. arguments'[i[1]] = arguments[i[1]]
    BY <1>1, <2>1 DEF Frame, Onward, ExperimentInv, RowsFit
  <2> QED BY <1>5, <1>6, <2>1, <2>2 DEF Rows, Stored
<1> QED BY <1>2, <1>3, <1>4, <1>5, <1>6

\* The numbers of the rows.
LEMMA NumbersKept ==
  ASSUME ExperimentInv, RowsNumbered, [Next]_vars
  PROVE  RowsNumbered'
<1> SUFFICES ASSUME NEW i \in Stored'
             PROVE  i[2] <= Len(noted'[i[1]]) \/ (i = Current(i[1])' /\ stage'[i[1]] \in Working)
  BY DEF RowsNumbered
<1> DEFINE s == i[1]
<1>1. Frame
  BY Frames
<1>2. i \in Ids /\ s \in Scripts /\ i[2] \in Nat /\ i = <<s, i[2]>>
  BY IdParts DEF Stored
<1>3. noted[s] \in Seq(Outcomes) /\ Len(noted[s]) \in Nat
  BY <1>2 DEF ExperimentInv, TypeOK
<1>4. CASE i \in Stored
  <2>1. CASE Noting(s)
    <3>1. Len(noted'[s]) = Len(noted[s]) + 1
      BY <1>2, <1>3, <2>1 DEF Noting, ExperimentInv, TypeOK
    <3>2. i[2] <= Len(noted[s]) + 1
      BY <1>2, <1>3, <1>4 DEF RowsNumbered, Current
    <3> QED BY <3>1, <3>2, <1>2, <1>3
  <2>2. CASE ~Noting(s)
    <3>1. noted'[s] = noted[s]
      BY <1>1, <1>2, <2>2 DEF Frame, Noting, ExperimentInv, TypeOK
    <3>2. stage[s] \in Working => stage'[s] \in Working
      BY <1>1, <1>2, <2>2 DEF Frame, Onward
    <3> QED BY <1>4, <3>1, <3>2 DEF RowsNumbered, Current
  <2> QED BY <2>1, <2>2
<1>5. CASE i \notin Stored
  <2>1. PICK t \in Scripts : Prepare(t)
    BY <1>1, <1>5 DEF Frame
  <2>2. i = Current(t)
    BY <1>2, <1>5, <2>1 DEF Prepare, Stored, ExperimentInv, TypeOK
  <2>3. Current(t)' = Current(t) /\ stage'[t] = "running"
    BY <2>1 DEF Prepare, Go, Current, scriptVars, ExperimentInv, TypeOK
  <2> QED BY <2>2, <2>3 DEF Current, Working
<1> QED BY <1>4, <1>5

LEMMA NothingReadKept ==
  ASSUME ExperimentInv, NothingRead, [Next]_vars
  PROVE  NothingRead'
<1> SUFFICES ASSUME NEW s \in Scripts, stage'[s] \notin Results
             PROVE  DOMAIN listed'[s] = {} /\ answers'[s] = <<>>
  BY DEF NothingRead
<1>1. Frame
  BY Frames
<1>2. stage[s] \notin Results
  BY <1>1 DEF Frame, Onward
<1>3. ~GetExperiment(s) /\ ~ReadDatabase(s)
  BY DEF GetExperiment, ReadDatabase, Go, Results, ExperimentInv, TypeOK
<1>4. listed'[s] = listed[s] /\ answers'[s] = answers[s]
  BY <1>1, <1>3 DEF Frame, GetExperiment, ReadDatabase, ExperimentInv, TypeOK
<1> QED BY <1>2, <1>4 DEF NothingRead

LEMMA MarksKept ==
  ASSUME ExperimentInv, Marks, [Next]_vars
  PROVE  Marks'
<1>1. Frame /\ Stored \subseteq Stored'
  BY Frames, Later
<1>2. \A s \in Scripts : Leaving(s) => Current(s) \in Stored
  BY CurrentRun DEF Leaving, ExperimentInv, RowsFit, Stored
<1>3. ASSUME NEW i \in Ids, call'[i] # None \/ evaluation'[i] # None PROVE i \in Stored'
  <2>1. CASE call[i] # None \/ evaluation[i] # None
    BY <1>1, <2>1 DEF Marks
  <2>2. CASE call'[i] # call[i]
    <3>1. ASSUME NEW s \in Scripts, Leaving(s) PROVE i = Current(s)
      <4>1. PICK status : call' = [call EXCEPT ![Current(s)] = status]
        BY <3>1 DEF Leaving, Leaves
      <4> QED BY <2>2, <4>1 DEF ExperimentInv, TypeOK
    <3>2. ASSUME NEW j \in Ids, Recover(j) PROVE i \in Stored
      <4>1. i = j
        BY <2>2, <3>2 DEF Recover, ExperimentInv, TypeOK
      <4>2. call[i] # None
        BY <3>2, <4>1, NamesAssumption DEF Recover
      <4> QED BY <4>2 DEF Marks
    <3>3. ASSUME NEW s \in Scripts, Prepare(s) PROVE FALSE
      BY <2>2, <3>3 DEF Prepare
    <3> QED BY <1>1, <1>2, <2>2, <3>1, <3>2, <3>3 DEF Frame
  <2>3. CASE evaluation'[i] # evaluation[i]
    <3>1. PICK j \in Ids : Evaluating(j)
      BY <1>1, <2>3 DEF Frame
    <3>2. i = j
      <4>1. PICK e : evaluation' = [evaluation EXCEPT ![j] = e]
        BY <3>1 DEF Evaluating, Evaluated
      <4> QED BY <2>3, <4>1 DEF ExperimentInv, TypeOK
    <3> QED BY <1>1, <3>1, <3>2 DEF Evaluating
  <2> QED BY <1>3, <2>1, <2>2, <2>3
<1>4. tickets' \subseteq Stored'
  <2>1. \A s \in Scripts : Leaving(s) => tickets' \subseteq tickets \cup {Current(s)}
    BY DEF Leaving, Leaves
  <2>2. \A s \in Scripts : Prepare(s) => tickets' = {}
    BY DEF Prepare
  <2>3. \A i \in Ids : Recover(i) => tickets' = tickets
    BY DEF Recover
  <2> QED BY <1>1, <1>2, <2>1, <2>2, <2>3 DEF Frame, Marks
<1>5. ASSUME NEW i \in Ids, evaluation'[i] # None, evaluation'[i].passed PROVE call'[i] = "succeeded"
  <2>1. CASE evaluation'[i] = evaluation[i]
    BY <1>5, <2>1, Later DEF Marks
  <2>2. CASE evaluation'[i] # evaluation[i]
    <3>1. PICK j \in Ids : Evaluating(j)
      BY <1>1, <2>2 DEF Frame
    <3>2. PICK oracles \in BOOLEAN, source \in {"live", "persisted"} : Evaluated(j, oracles, source)
      BY <3>1 DEF Evaluating
    <3>3. i = j /\ evaluation'[i].passed = (row[i] = "succeeded" /\ call[i] = "succeeded" /\ oracles)
      BY <2>2, <3>2 DEF Evaluated, ExperimentInv, TypeOK
    <3> QED BY <1>5, <3>1, <3>3 DEF Evaluating
  <2> QED BY <2>1, <2>2
<1> QED BY <1>3, <1>4, <1>5 DEF Marks

LEMMA ListedKept ==
  ASSUME ExperimentInv, Marks, NothingRead, ListedStays, [Next]_vars
  PROVE  ListedStays'
<1> SUFFICES ASSUME NEW s \in Scripts, NEW i \in DOMAIN listed'[s]
             PROVE  /\ i \in Rows(arguments[s].name)'
                    /\ listed'[s][i].evaluation = [passed |-> TRUE, source |-> "live"] => Confirmed(i)'
  BY DEF ListedStays
<1>1. Frame
  BY Frames
<1>2. CASE GetExperiment(s)
  <2>1. listed'[s] = Listing(arguments[s].name) /\ UNCHANGED <<arguments, row, call, evaluation>>
    BY <1>2 DEF GetExperiment, tableVars, ExperimentInv, TypeOK
  <2>2. i \in Rows(arguments[s].name) /\ i \in Ids /\ listed'[s][i].evaluation = evaluation[i]
    BY <2>1 DEF Listing, Rows
  <2>3. evaluation[i] = [passed |-> TRUE, source |-> "live"] => evaluation[i] # None /\ evaluation[i].passed
    <3>1. [passed |-> TRUE, source |-> "live"] \in Evaluations
      BY DEF Evaluations
    <3>2. [passed |-> TRUE, source |-> "live"] # None
      BY <3>1, NamesAssumption
    <3> QED BY <3>2
  <2> QED BY <2>1, <2>2, <2>3 DEF Confirmed, Marks, Rows
<1>3. CASE ~GetExperiment(s)
  <2>1. listed'[s] = listed[s]
    BY <1>1, <1>3 DEF Frame, GetExperiment, ExperimentInv, TypeOK
  <2>2. stage[s] \in Results
    BY <2>1 DEF NothingRead
  <2>3. i \in Ids /\ i \in Rows(arguments[s].name)
    BY <2>1 DEF ListedStays, Rows
  <2>4. arguments'[s] = arguments[s] /\ i \in Rows(arguments[s].name)'
    BY <2>2, <2>3, Later
  <2>5. i \in Rows(arguments[s].name)'
    BY <2>4
  <2>6. Confirmed(i) => Confirmed(i)'
    BY <2>3, Later DEF Confirmed
  <2> QED BY <2>1, <2>5, <2>6 DEF ListedStays
<1> QED BY <1>2, <1>3

\* Without other scripts, the tickets are those of the last run.
LEMMA TicketsKept ==
  ASSUME ExperimentInv, RowsNumbered, Marks, TicketsAlone, [Next]_vars
  PROVE  TicketsAlone'
<1> SUFFICES ASSUME NEW s \in Scripts, Alone(s)'
             PROVE  /\ \A i \in tickets' : Latest(i)'
                    /\ \A i \in Ids : Latest(i)' /\ Task(i[2]) = "create_ticket" /\ call'[i] = "succeeded" => i \in tickets'
  BY DEF TicketsAlone
<1>1. Frame /\ Stored \subseteq Stored'
  BY Frames, Later
<1>2. Alone(s)
  BY <1>1 DEF Alone
<1>3. CASE \E t \in Scripts : Prepare(t)
  <2>1. PICK t \in Scripts : Prepare(t)
    BY <1>3
  <2>2. /\ tickets' = {} /\ call' = call
        /\ Current(t) \in Ids /\ Current(t)[1] = t /\ Current(t)[2] = Len(noted[t]) + 1 /\ Len(noted[t]) \in Nat
        /\ stage[t] = "next"
    BY <2>1, CurrentRun DEF Prepare, Go, ExperimentInv
  <2>3. Current(t) \in Stored' /\ t = s
    BY <2>1, <2>2, NamesAssumption DEF Prepare, Stored, ExperimentInv, TypeOK, Alone
  <2>4. Current(t) \notin Stored
    BY <2>2 DEF RowsNumbered, Working
  <2>5. call[Current(t)] = None
    BY <2>2, <2>4 DEF Marks
  <2>6. ASSUME NEW i \in Ids, Latest(i)' PROVE i = Current(t)
    <3>1. i[1] = s /\ Current(t)[2] <= i[2] /\ i \in Stored'
      BY <2>2, <2>3, <2>6 DEF Latest, Alone
    <3>2. i \in Stored => i[2] <= Len(noted[t])
      BY <2>2, <2>3, <3>1 DEF RowsNumbered, Working
    <3>3. i \notin Stored
      BY <2>2, <2>6, <3>1, <3>2, IdParts
    <3> QED BY <2>1, <2>6, <3>1, <3>3 DEF Prepare, Stored, ExperimentInv, TypeOK
  <2> QED BY <2>2, <2>5, <2>6, NamesAssumption DEF Terminal
<1>4. CASE ~\E t \in Scripts : Prepare(t)
  <2>1. Stored' = Stored /\ \A i : Latest(i)' <=> Latest(i)
    BY <1>1, <1>4 DEF Frame, Latest
  <2>2. CASE UNCHANGED <<call, tickets>>
    BY <1>2, <2>1, <2>2 DEF TicketsAlone
  <2>3. ASSUME NEW t \in Scripts, Leaving(t) PROVE TicketsAlone'
    <3>1. PICK status \in {"running", "succeeded", "failed", "unknown"} : Leaves(Current(t), status)
      BY <2>3 DEF Leaving
    <3>2. /\ Current(t) \in Stored /\ Current(t) \in Ids /\ Current(t)[1] = t
          /\ Current(t)[2] = Len(noted[t]) + 1 /\ Len(noted[t]) \in Nat
      BY <2>3, CurrentRun DEF Leaving, ExperimentInv, RowsFit, Stored
    <3>3. Latest(Current(t))
      <4> SUFFICES ASSUME NEW j \in Stored, j[1] = t PROVE j[2] <= Len(noted[t]) + 1
        BY <3>2 DEF Latest
      <4> QED BY <3>2, IdParts DEF RowsNumbered, Stored, Current
    <3>4. tickets' \in {tickets, tickets \cup {Current(t)}}
      BY <3>1 DEF Leaves
    <3>5. Task(Current(t)[2]) = "create_ticket" /\ status = "succeeded" => Current(t) \in tickets'
      BY <3>1 DEF Leaves
    <3>6. \A i \in Ids \ {Current(t)} : call'[i] = call[i]
      BY <3>1 DEF Leaves, ExperimentInv, TypeOK
    <3>7. call'[Current(t)] = status
      BY <3>1, <3>2 DEF Leaves, ExperimentInv, TypeOK
    <3> SUFFICES ASSUME NEW u \in Scripts, Alone(u)'
                 PROVE  /\ \A i \in tickets' : Latest(i)
                        /\ \A i \in Ids : Latest(i) /\ Task(i[2]) = "create_ticket" /\ call'[i] = "succeeded" => i \in tickets'
      BY <2>1 DEF TicketsAlone
    <3>8. Alone(u)
      BY <2>1 DEF Alone
    <3>9. \A i \in tickets' : Latest(i)
      BY <3>3, <3>4, <3>8 DEF TicketsAlone
    <3>10. ASSUME NEW i \in Ids, Latest(i), Task(i[2]) = "create_ticket", call'[i] = "succeeded" PROVE i \in tickets'
      BY <3>4, <3>5, <3>6, <3>7, <3>8, <3>10 DEF TicketsAlone
    <3> QED BY <3>9, <3>10
  <2>4. ASSUME NEW j \in Ids, Recover(j) PROVE TicketsAlone'
    <3>1. tickets' = tickets /\ \A i \in Ids : call'[i] = "succeeded" => call[i] = "succeeded" \/ i \in tickets
      BY <2>4 DEF Recover, ExperimentInv, TypeOK
    <3>2. \A u \in Scripts : Alone(u)' => Alone(u)
      BY <2>1 DEF Alone
    <3> QED BY <2>1, <3>1, <3>2 DEF TicketsAlone
  <2> QED BY <1>1, <1>4, <2>2, <2>3, <2>4 DEF Frame, TicketsAlone
<1> QED BY <1>3, <1>4

\* Who has the id for himself has listed all of his runs.
LEMMA ListedOwn ==
  ASSUME NEW s \in Scripts, PersistedIsRight(s), DOMAIN listed[s] \subseteq Own(s)
  PROVE  DOMAIN listed[s] = Own(s)
<1> SUFFICES ASSUME NEW n \in 1..Planned(arguments[s])
             PROVE  <<s, n>> \in DOMAIN listed[s]
  BY DEF Own
<1>1. PICK i \in DOMAIN listed[s] : i[2] = n
  BY DEF PersistedIsRight
<1>2. i = <<s, n>>
  BY <1>1 DEF Own
<1> QED BY <1>1, <1>2

\* The runs of a plan that have a given task, k or k less one.
LEMMA EverySecond ==
  ASSUME NEW s, NEW r \in Nat, NEW k \in {0, 1}
  PROVE  Cardinality({i \in {s} \X (1..2 * r) : i[2] % 2 = k}) = r
<1> DEFINE S == {i \in {s} \X (1..2 * r) : i[2] % 2 = k}
           f == [n \in 1..r |-> <<s, 2 * n - k>>]
<1>1. ASSUME NEW n \in 1..r PROVE 2 * n - k \in 1..2 * r /\ (2 * n - k) % 2 = k
  OBVIOUS
<1>2. f \in [1..r -> S]
  BY <1>1
<1>3. ASSUME NEW m \in 1..r, NEW n \in 1..r, f[m] = f[n] PROVE m = n
  BY <1>3
<1>4. ASSUME NEW i \in S PROVE \E n \in 1..r : f[n] = i
  <2>1. PICK n \in 1..r : i[2] = 2 * n - k
    <3>1. i[2] \in 1..2 * r /\ i[2] % 2 = k
      OBVIOUS
    <3>2. i[2] \div 2 \in Nat /\ i[2] = 2 * (i[2] \div 2) + k
      BY <3>1
    <3>3. (i[2] \div 2) + k \in 1..r /\ i[2] = 2 * ((i[2] \div 2) + k) - k
      BY <3>1, <3>2
    <3> QED BY <3>3
  <2>2. i = <<s, i[2]>>
    OBVIOUS
  <2> QED BY <2>1, <2>2
<1>5. f \in Bijection(1..r, S)
  BY <1>2, <1>3, <1>4 DEF Bijection, Injection, Surjection, IsInjective
<1>6. IsFiniteSet(1..r) /\ Cardinality(1..r) = r
  BY FS_Interval
<1> HIDE DEF f, S
<1>7. Cardinality(S) = r
  BY <1>5, <1>6, FS_Bijection DEF ExistsBijection
<1> QED BY <1>7 DEF S

\* An experiment that is right is found right, except for the tickets of others.
LEMMA AnswerIsRight ==
  ASSUME ExperimentInv, Marks, ListedStays, TicketsAlone,
         NEW s \in Scripts, arguments[s] \in Arguments, Right(s),
         NEW q \in 1..4, q <= 3 \/ Alone(s)
  PROVE  Answer(arguments[s].name, q) = Expectation(s)[q]
<1> DEFINE name == arguments[s].name
           r == arguments[s].repetitions
<1>1. r \in Nat \ {0} /\ Planned(arguments[s]) = 2 * r
  BY ArgumentsAssumption DEF Runs, Planned
<1>2. DOMAIN listed[s] = Own(s) /\ Rows(name) = Own(s)
  BY ListedOwn DEF Right, ListedStays
<1>3. \A i \in Own(s) : evaluation[i] # None /\ call[i] = "succeeded" /\ i \in Stored
  BY <1>2 DEF Right, PersistedIsRight, ListedStays, Confirmed, Rows, Stored
<1>4. Own(s) = {s} \X (1..2 * r)
  BY <1>1 DEF Own
<1>5. Cardinality(Own(s)) = 2 * r
  BY <1>1, OwnCount
<1>6. CASE q = 1
  BY <1>1, <1>2, <1>5, <1>6 DEF Answer, Expectation
<1>7. CASE q = 2
  <2>1. {i \in Rows(name) : evaluation[i] # None} = Own(s)
    BY <1>2, <1>3
  <2>2. Answer(name, 2) = Cardinality({i \in Rows(name) : evaluation[i] # None})
    BY DEF Answer
  <2>3. Expectation(s)[2] = 2 * r
    BY <1>1 DEF Expectation
  <2> QED BY <1>5, <1>7, <2>1, <2>2, <2>3
<1>8. CASE q = 3
  <2> DEFINE Found(ok, tasks) == {i \in Rows(name) : call[i] # None /\ (call[i] = "succeeded") = ok /\ Task(i[2]) \in tasks}
  <2>0. "succeeded" # None
    BY NamesAssumption DEF Terminal
  <2>1. Found(TRUE, {"employee_lookup"}) = {i \in {s} \X (1..2 * r) : i[2] % 2 = 1}
    BY <1>2, <1>3, <1>4, <2>0 DEF Task
  <2>2. Found(TRUE, {"create_ticket"}) = {i \in {s} \X (1..2 * r) : i[2] % 2 = 0}
    <3>1. \A i \in {s} \X (1..2 * r) : i[2] % 2 = 0 <=> ~(i[2] % 2 = 1)
      OBVIOUS
    <3> QED BY <1>2, <1>3, <1>4, <2>0, <3>1 DEF Task
  <2>3. Found(FALSE, {"employee_lookup", "create_ticket"}) = {}
    BY <1>2, <1>3
  <2>4. /\ Cardinality(Found(TRUE, {"employee_lookup"})) = r
        /\ Cardinality(Found(TRUE, {"create_ticket"})) = r
        /\ Cardinality(Found(FALSE, {"employee_lookup", "create_ticket"})) = 0
    <3>1. Cardinality({i \in {s} \X (1..2 * r) : i[2] % 2 = 1}) = r
      BY <1>1, EverySecond
    <3>2. Cardinality({i \in {s} \X (1..2 * r) : i[2] % 2 = 0}) = r
      BY <1>1, EverySecond
    <3> HIDE DEF Found, r
    <3> QED BY <2>1, <2>2, <2>3, <3>1, <3>2, FS_EmptySet
  <2>5. CallsOf(name) = [lookup |-> r, create |-> r, other |-> 0]
    BY <2>4 DEF CallsOf, CallCounts
  <2>6. Answer(name, 3) = CallsOf(name)
    BY DEF Answer
  <2>7. Expectation(s)[3] = [lookup |-> r, create |-> r, other |-> 0]
    BY DEF Expectation
  <2> QED BY <1>8, <2>5, <2>6, <2>7
<1>9. CASE q = 4
  <2> DEFINE i == <<s, 2 * r>>
  <2>1. i \in Own(s) /\ i \in Ids /\ i \in Stored
    BY <1>1, <1>3, <1>4 DEF Stored
  <2>2. \A j \in Stored : j \in Own(s)
    BY <1>2, <1>9 DEF Alone, Stored, Rows
  <2>3. \A j \in Stored : j[1] = s /\ j[2] \in 1..2 * r /\ j = <<s, j[2]>>
    BY <1>4, <2>2
  <2>4. Latest(i)
    BY <1>1, <2>1, <2>3 DEF Latest
  <2>5. Task(i[2]) = "create_ticket"
    BY <1>1 DEF Task
  <2>6. i \in tickets
    BY <1>3, <1>9, <2>1, <2>4, <2>5 DEF TicketsAlone
  <2>7. ASSUME NEW j \in tickets PROVE j = i
    <3>1. j \in Stored /\ Latest(j)
      BY <1>9 DEF TicketsAlone, Marks
    <3>2. 2 * r <= j[2]
      BY <2>1, <2>3, <3>1 DEF Latest
    <3> QED BY <1>1, <2>3, <3>1, <3>2
  <2>8. tickets = {i}
    BY <2>6, <2>7
  <2>9. Answer(name, 4) = Cardinality(tickets)
    BY DEF Answer
  <2>10. Expectation(s)[4] = 1
    BY DEF Expectation
  <2> QED BY <1>9, <2>8, <2>9, <2>10, FS_Singleton
<1> QED BY <1>6, <1>7, <1>8, <1>9

\* What was right when it was compared was right before.
LEMMA RightBefore ==
  ASSUME ExperimentInv, Marks, ListedStays, [Next]_vars,
         NEW s \in Scripts, stage[s] \in Results
  PROVE  /\ listed'[s] = listed[s] /\ arguments'[s] = arguments[s] /\ noted'[s] = noted[s]
         /\ \A i \in DOMAIN listed[s] : arguments'[i[1]] = arguments[i[1]]
         /\ ImmediateIsRight(s)' <=> ImmediateIsRight(s)
         /\ PersistedIsRight(s)' <=> PersistedIsRight(s)
         /\ Right(s)' => Right(s)
         /\ Alone(s)' => Alone(s)
         /\ Expectation(s)' = Expectation(s)
<1>1. Frame
  BY Frames
<1>2. listed'[s] = listed[s]
  BY <1>1 DEF Frame, GetExperiment, Go, Results, ExperimentInv, TypeOK
<1>3. arguments'[s] = arguments[s] /\ noted'[s] = noted[s] /\ Stored \subseteq Stored'
  BY Later
<1>4. \A i \in DOMAIN listed[s] : arguments'[i[1]] = arguments[i[1]]
  <2> SUFFICES ASSUME NEW i \in DOMAIN listed[s] PROVE arguments'[i[1]] = arguments[i[1]]
    OBVIOUS
  <2>1. i \in Stored /\ i[1] \in Scripts
    BY IdParts DEF ListedStays, Rows, Stored
  <2> QED BY <1>1, <2>1 DEF Frame, Onward, ExperimentInv, RowsFit
<1>5. ImmediateIsRight(s)' <=> ImmediateIsRight(s)
  BY <1>3 DEF ImmediateIsRight
<1>6. PersistedIsRight(s)' <=> PersistedIsRight(s)
  BY <1>2, <1>3, <1>4 DEF PersistedIsRight
<1>7. ASSUME Right(s)' PROVE Right(s)
  <2>1. Own(s)' = Own(s)
    BY <1>3 DEF Own
  <2>2. Rows(arguments[s].name) \subseteq Rows(arguments[s].name)' /\ Rows(arguments[s].name)' = Own(s)
    BY <1>7, <2>1, Later DEF Right
  <2>3. PersistedIsRight(s) /\ ImmediateIsRight(s)
    BY <1>5, <1>6, <1>7 DEF Right
  <2>4. DOMAIN listed[s] \subseteq Rows(arguments[s].name)
    BY DEF ListedStays
  <2>5. DOMAIN listed[s] = Own(s)
    BY <2>2, <2>3, <2>4, ListedOwn
  <2> QED BY <2>2, <2>3, <2>4, <2>5 DEF Right
<1>8. Alone(s)' => Alone(s)
  BY <1>3 DEF Alone
<1>9. Expectation(s)' = Expectation(s)
  BY <1>3 DEF Expectation
<1> QED BY <1>2, <1>3, <1>4, <1>5, <1>6, <1>7, <1>8, <1>9

LEMMA AnswersKept ==
  ASSUME ExperimentInv, Marks, NothingRead, ListedStays, TicketsAlone, AnswersFit, [Next]_vars
  PROVE  AnswersFit'
<1> SUFFICES ASSUME NEW s \in Scripts
             PROVE  /\ \E values : answers'[s] \in Seq(values)
                    /\ Len(answers'[s]) <= 4
                    /\ Right(s)' => \A q \in 1..Len(answers'[s]) :
                         q <= 3 \/ Alone(s)' => answers'[s][q] = Expectation(s)'[q]
  BY DEF AnswersFit
<1>1. Frame
  BY Frames
<1>2. PICK values : answers[s] \in Seq(values)
  BY DEF AnswersFit
<1>3. CASE ReadDatabase(s)
  <2> DEFINE answer == Answer(arguments[s].name, Len(answers[s]) + 1)
             more == values \cup {answer}
  <2>1. answers'[s] = Append(answers[s], answer) /\ Len(answers[s]) < 4 /\ stage[s] = "reading"
    BY <1>3 DEF ReadDatabase, ExperimentInv, TypeOK
  <2>2. answers[s] \in Seq(more) /\ answer \in more
    BY <1>2
  <2> HIDE DEF answer, more
  <2>3. /\ answers'[s] \in Seq(more) /\ Len(answers[s]) \in Nat
        /\ Len(answers'[s]) = Len(answers[s]) + 1
        /\ answers'[s][Len(answers[s]) + 1] = answer
        /\ \A q \in 1..Len(answers[s]) : answers'[s][q] = answers[s][q]
    BY <2>1, <2>2
  <2>4. (Right(s)' => Right(s)) /\ (Alone(s)' => Alone(s)) /\ Expectation(s)' = Expectation(s)
    BY <2>1, RightBefore DEF Results
  <2>5. arguments[s] \in Arguments
    BY <2>1 DEF ExperimentInv, TypeOK
  <2>6. ASSUME Right(s), NEW q \in 1..Len(answers'[s]), q <= 3 \/ Alone(s)
        PROVE  answers'[s][q] = Expectation(s)[q]
    <3>1. CASE q \in 1..Len(answers[s])
      BY <2>3, <2>6, <3>1 DEF AnswersFit
    <3>2. CASE q = Len(answers[s]) + 1
      BY <2>1, <2>3, <2>5, <2>6, <3>2, AnswerIsRight DEF answer
    <3> QED BY <2>3, <3>1, <3>2
  <2> QED BY <2>1, <2>3, <2>4, <2>6
<1>4. CASE ~ReadDatabase(s)
  <2>1. answers'[s] = answers[s]
    BY <1>1, <1>4 DEF Frame, ReadDatabase, ExperimentInv, TypeOK
  <2>2. CASE answers[s] = <<>>
    BY <1>2, <2>1, <2>2
  <2>3. CASE answers[s] # <<>>
    <3>1. stage[s] \in Results
      BY <2>3 DEF NothingRead
    <3>2. (Right(s)' => Right(s)) /\ (Alone(s)' => Alone(s)) /\ Expectation(s)' = Expectation(s)
      BY <3>1, RightBefore
    <3> QED BY <1>2, <2>1, <3>2 DEF AnswersFit
  <2> QED BY <2>2, <2>3
<1> QED BY <1>3, <1>4

LEMMA RejectionsKept ==
  ASSUME ExperimentInv, Marks, NothingRead, ListedStays, Rejections, [Next]_vars
  PROVE  Rejections'
<1> SUFFICES ASSUME NEW s \in Scripts, stage'[s] = "rejected"
             PROVE  \/ Refuses(DOMAIN listed[s])'
                    \/ /\ Len(answers'[s]) = 4
                       /\ ~(ImmediateIsRight(s)' /\ PersistedIsRight(s)' /\ DatabaseIsRight(s)')
  BY DEF Rejections
<1>1. Frame
  BY Frames
<1>2. CASE GetExperiment(s)
  <2>1. listed'[s] = Listing(arguments[s].name) /\ arguments' = arguments
    BY <1>2 DEF GetExperiment, ExperimentInv, TypeOK
  <2>2. Refuses(Rows(arguments[s].name))
    BY <1>2 DEF GetExperiment, Go, ExperimentInv, TypeOK
  <2> QED BY <2>1, <2>2 DEF Refuses, Listing
<1>3. CASE VerifyExperiment(s)
  <2>1. ~(ImmediateIsRight(s) /\ PersistedIsRight(s) /\ DatabaseIsRight(s)) /\ Len(answers[s]) = 4
    BY <1>3 DEF VerifyExperiment, Go, ExperimentInv, TypeOK
  <2>2. UNCHANGED <<arguments, noted, listed, answers>>
    BY <1>3 DEF VerifyExperiment, scriptVars
  <2> QED BY <2>1, <2>2 DEF ImmediateIsRight, PersistedIsRight, DatabaseIsRight, Expectation
<1>4. CASE stage[s] = "rejected"
  <2>1. stage[s] \in Results
    BY <1>4 DEF Results
  <2>2. answers'[s] = answers[s]
    BY <1>1, <1>4 DEF Frame, ReadDatabase, ExperimentInv, TypeOK
  <2>3. /\ listed'[s] = listed[s] /\ \A i \in DOMAIN listed[s] : arguments'[i[1]] = arguments[i[1]]
        /\ ImmediateIsRight(s)' <=> ImmediateIsRight(s)
        /\ PersistedIsRight(s)' <=> PersistedIsRight(s)
        /\ Expectation(s)' = Expectation(s)
    BY <2>1, RightBefore
  <2>4. Refuses(DOMAIN listed[s]) => Refuses(DOMAIN listed[s])'
    BY <2>3 DEF Refuses
  <2>5. DatabaseIsRight(s)' <=> DatabaseIsRight(s)
    BY <2>2, <2>3 DEF DatabaseIsRight
  <2> QED BY <1>4, <2>2, <2>3, <2>4, <2>5 DEF Rejections
<1> QED BY <1>1, <1>2, <1>3, <1>4 DEF Frame, Onward

LEMMA InitReads == Init => ReadInv
<1> SUFFICES ASSUME Init PROVE ReadInv
  OBVIOUS
<1>1. Stored = {} /\ \A s \in Scripts : listed[s] = <<>> /\ answers[s] = <<>> /\ stage[s] = "idle"
  BY DEF Init, Stored
<1>2. RowsNumbered /\ ListedStays /\ TicketsAlone /\ Rejections
  BY <1>1 DEF Init, RowsNumbered, ListedStays, TicketsAlone, Rejections, Latest
<1>3. Marks /\ NothingRead
  BY <1>1 DEF Init, Marks, NothingRead
<1>4. AnswersFit
  <2>1. <<>> \in Seq({}) /\ Len(<<>>) = 0
    OBVIOUS
  <2>2. \A s \in Scripts : answers[s] \in Seq({}) /\ Len(answers[s]) = 0
    BY <1>1, <2>1
  <2> QED BY <2>2 DEF AnswersFit
<1> QED BY <1>2, <1>3, <1>4 DEF ReadInv

LEMMA ReadInvariant == Spec => []ReadInv
<1>1. ExperimentInv /\ ReadInv /\ [Next]_vars => ReadInv'
  BY NumbersKept, MarksKept, NothingReadKept, ListedKept, AnswersKept, TicketsKept, RejectionsKept DEF ReadInv
<1> QED BY <1>1, InitReads, Invariant, PTL DEF Spec

\* A right experiment is turned down only for the tickets of another script's run.
THEOREM OnlyTheTicketsMislead == Spec => []OnlyTicketsMislead
<1>1. ASSUME ExperimentInv, ReadInv, NEW s \in Scripts, stage[s] = "rejected", Right(s)
      PROVE  /\ \A q \in 1..3 : answers[s][q] = Expectation(s)[q]
             /\ answers[s][4] # 1
             /\ \E i \in Ids : i[1] # s /\ row[i] # None
  <2>1. arguments[s] \in Arguments /\ 2 <= Planned(arguments[s]) /\ Planned(arguments[s]) \in Nat
    BY <1>1, PlannedRuns DEF ExperimentInv, TypeOK
  <2>2. ~Refuses(DOMAIN listed[s])
    <3>1. /\ Cardinality(DOMAIN listed[s]) = Planned(arguments[s])
          /\ \A i \in DOMAIN listed[s] : Planned(arguments[i[1]]) = Planned(arguments[s])
      BY <1>1 DEF Right, PersistedIsRight
    <3>2. DOMAIN listed[s] # {}
      BY <2>1, <3>1, FS_EmptySet
    <3> QED BY <2>1, <3>1, <3>2 DEF Refuses
  <2>3. Len(answers[s]) = 4 /\ ~DatabaseIsRight(s)
    BY <1>1, <2>2 DEF ReadInv, Rejections, Right
  <2>4. \A q \in 1..4 : q <= 3 \/ Alone(s) => answers[s][q] = Expectation(s)[q]
    BY <1>1, <2>3 DEF ReadInv, AnswersFit
  <2>5. PICK values : answers[s] \in Seq(values)
    BY <1>1 DEF ReadInv, AnswersFit
  <2>6. Expectation(s)[4] = 1
    BY DEF Expectation
  <2>7. answers[s][4] # 1
    <3> SUFFICES ASSUME answers[s][4] = 1 PROVE FALSE
      OBVIOUS
    <3>1. answers[s] = <<answers[s][1], answers[s][2], answers[s][3], answers[s][4]>>
      BY <2>3, <2>5
    <3>2. answers[s][1] = Expectation(s)[1] /\ answers[s][2] = Expectation(s)[2] /\ answers[s][3] = Expectation(s)[3]
      BY <2>4
    <3>3. Expectation(s) = <<Expectation(s)[1], Expectation(s)[2], Expectation(s)[3], 1>>
      BY DEF Expectation
    <3> QED BY <2>3, <3>1, <3>2, <3>3 DEF DatabaseIsRight
  <2>8. ~Alone(s)
    BY <2>4, <2>6, <2>7
  <2> QED BY <2>4, <2>7, <2>8 DEF Alone, Stored
<1>2. ExperimentInv /\ ReadInv => OnlyTicketsMislead
  BY <1>1 DEF OnlyTicketsMislead, Right
<1> QED BY <1>2, Invariant, ReadInvariant, PTL
=============================================================================
