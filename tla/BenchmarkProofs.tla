--------------------------- MODULE BenchmarkProofs ---------------------------
(***************************************************************************)
(* Theorems about runners, outsiders and evaluations, for any number of    *)
(* processes, plans, faults and scripts.                                   *)
(***************************************************************************)
EXTENDS Benchmark, TLAPS, FiniteSetTheorems

\* A runner in the middle of its plan, and one whose run has the tables.
Active == {"next", "running", "returned", "evaluating", "release"}
Engaged == {"running", "returned", "evaluating"}

\* A runner stands at a run of its plan.
Place ==
  \A r \in Runners :
    /\ stage[r] \in {"idle", "refused"} => at[r] = 0
    /\ stage[r] \notin {"idle", "refused"} => plan[r] \in Plans[r] /\ at[r] \in 1..PlannedRuns(plan[r])

\* Whoever works on a plan has the lock, or has lost it without noticing.
HoldsLock == \A r \in Runners : stage[r] \in Active /\ r \notin lost => lock = r

\* A run that its process has not come to, or with which it is at one of some stages.
Undecided(i, stages) ==
  IF i[1] \in Runners
  THEN i[2] > at[i[1]] \/ (i[2] = at[i[1]] /\ stage[i[1]] \in stages)
  ELSE stage[i[1]] \in stages

NotOver == \A i \in Ids : Undecided(i, {"idle", "next", "running"}) => final[i] = None

NotNoted ==
  \A i \in Ids : i[1] \in Outsiders \/ Undecided(i, {"next"} \cup Engaged) => execution[i] = None

\* Runs of processes that work without the lock.
Stray == {j \in Ids : j[1] \in Outsiders \cup lost}

\* A runner with the lock shares its tables, and the COMMITs on their way to them, with
\* nobody else who has the lock.
OwnTables ==
  \A r \in Runners : stage[r] \in Engaged /\ r \notin lost =>
    Foreign(Current(r), world) \subseteq Stray /\ open \ {Current(r)} \subseteq Stray

\* So with what an evaluation has captured.
OwnCapture ==
  \A r \in Runners : stage[r] = "evaluating" =>
    /\ evaluating[Current(r)] # None
    /\ r \notin lost => Foreign(Current(r), evaluating[Current(r)]) \subseteq Stray

\* The tables stay as the run has left them until another run changes them.
LastWords ==
  \A i \in Ids : final[i] # None /\ i \notin hung /\ Foreign(i, world) = {} => world = final[i]

CaptureFits ==
  \A r \in Runners :
    /\ stage[r] \in {"returned", "evaluating"} => final[Current(r)] # None
    /\ (/\ stage[r] = "evaluating" /\ Current(r) \notin hung
        /\ Foreign(Current(r), evaluating[Current(r)]) = {}) => evaluating[Current(r)] = final[Current(r)]

\* A script that looks at the tables has been told to.
ScriptsCapture == \A i \in Ids : ByScript(i) => i \in recaptured

BenchmarkInv ==
  /\ TypeOK /\ Place /\ HoldsLock /\ NotOver /\ NotNoted /\ OwnTables /\ OwnCapture
  /\ LastWords /\ CaptureFits /\ ScriptsCapture /\ EvaluatedIsOwn
-----------------------------------------------------------------------------
(* Runs and their processes.                                               *)

LEMMA PlanRuns ==
  ASSUME NEW r \in Runners, NEW p \in Plans[r]
  PROVE  PlannedRuns(p) \in Nat /\ PlannedRuns(p) > 0
<1>1. p \in RunPlans /\ p.tasks # <<>>
  BY PlansAssumption
<1>2. p.tasks \in Seq(STRING) /\ p.repetitions \in Nat \ {0}
  BY <1>1 DEF RunPlans
<1>3. Len(p.tasks) \in Nat /\ Len(p.tasks) > 0
  BY <1>1, <1>2
<1>4. \A m, n \in Nat : m > 0 /\ n > 0 => m * n \in Nat /\ m * n > 0
  OBVIOUS
<1> QED BY <1>2, <1>3, <1>4 DEF PlannedRuns

\* The runs of a runner, and that of an outsider.
LEMMA RunnerId ==
  ASSUME NEW r \in Runners, NEW p \in Plans[r], NEW n \in 1..PlannedRuns(p)
  PROVE  <<r, n>> \in Ids
<1>1. <<r, n>> \in RunnerIds(r)
  BY DEF RunnerIds
<1> QED BY <1>1 DEF Ids

LEMMA OutsiderId ==
  ASSUME NEW o \in Outsiders
  PROVE  <<o, 1>> \in Ids
BY DEF Ids

LEMMA IdShape ==
  ASSUME NEW i \in Ids
  PROVE  \/ i[1] \in Runners /\ i[2] \in Nat /\ i[2] > 0 /\ i = <<i[1], i[2]>>
         \/ i[1] \in Outsiders /\ i = <<i[1], 1>>
<1>1. CASE i \in {<<o, 1>> : o \in Outsiders}
  BY <1>1
<1>2. CASE i \notin {<<o, 1>> : o \in Outsiders}
  <2>1. PICK r \in Runners : i \in RunnerIds(r)
    BY <1>2 DEF Ids
  <2>2. PICK n \in UNION {1..PlannedRuns(p) : p \in Plans[r]} : i = <<r, n>>
    BY <2>1 DEF RunnerIds
  <2>4. PICK p \in Plans[r] : n \in 1..PlannedRuns(p)
    BY <2>2
  <2>3. PlannedRuns(p) \in Nat
    BY PlanRuns
  <2> QED BY <2>2, <2>3, <2>4
<1> QED BY <1>1, <1>2

\* A process works on a run of its own.
LEMMA RunnerAt ==
  ASSUME TypeOK, Place, NEW r \in Runners, stage[r] \notin {"idle", "refused"}
  PROVE  /\ Current(r) \in Ids /\ Current(r)[1] = r /\ Current(r)[2] = at[r]
         /\ \A i \in Ids : i[1] = r /\ i[2] = at[r] => i = Current(r)
<1>1. Current(r) = <<r, at[r]>>
  BY DEF Current
<1>2. Current(r) \in Ids
  BY <1>1, RunnerId DEF Place
<1>3. ASSUME NEW i \in Ids, i[1] = r, i[2] = at[r]
      PROVE  i = <<r, at[r]>>
  BY <1>3, IdShape, NamesAssumption
<1> QED BY <1>1, <1>2, <1>3

LEMMA OutsiderAt ==
  ASSUME NEW o \in Outsiders
  PROVE  /\ Current(o) \in Ids /\ Current(o)[1] = o
         /\ \A i \in Ids : i[1] = o => i = Current(o)
<1>1. Current(o) = <<o, 1>> /\ o \notin Runners
  BY NamesAssumption DEF Current
<1>2. ASSUME NEW i \in Ids, i[1] = o
      PROVE  i = <<o, 1>>
  BY <1>1, <1>2, IdShape
<1> QED BY <1>1, <1>2, OutsiderId
-----------------------------------------------------------------------------
(* What the actions have in common.                                        *)

Stages == {"idle", "refused", "next", "running", "returned", "evaluating", "release", "done",
           "unreleased", "crashed"}

\* A process changes its stage.
Moves(a, s) ==
  /\ stage' \in [Runners \cup Outsiders -> Stages]
  /\ stage'[a] = s
  /\ \A b \in Runners \cup Outsiders : b # a => stage'[b] = stage[b]

LEMMA MovesTo ==
  ASSUME TypeOK, NEW a \in Runners \cup Outsiders, NEW s \in Stages, stage' = [stage EXCEPT ![a] = s]
  PROVE  Moves(a, s)
BY DEF TypeOK, Moves, Stages

\* A runner goes on to its next run, or to the end of its plan.
Notes(r, noted) ==
  /\ stage'[r] \in {"next", "release"} /\ Moves(r, stage'[r])
  /\ at' \in [Runners -> Nat]
  /\ \A q \in Runners : q # r => at'[q] = at[q]
  /\ at'[r] \in 1..PlannedRuns(plan[r])
  /\ stage'[r] = "next" => at'[r] = at[r] + 1
  /\ stage'[r] = "release" => at'[r] = at[r]
  /\ execution' \in [Ids -> Executions \cup {None}]
  /\ execution'[Current(r)] = noted
  /\ \A i \in Ids : i # Current(r) => execution'[i] = execution[i]

LEMMA NoteStep ==
  ASSUME TypeOK, Place, NEW r \in Runners, stage[r] \notin {"idle", "refused"},
         NEW outcome, NEW evaluated, [outcome |-> outcome, evaluation |-> evaluated] \in Executions,
         Note(r, outcome, evaluated)
  PROVE  Notes(r, [outcome |-> outcome, evaluation |-> evaluated])
<1> DEFINE noted == [outcome |-> outcome, evaluation |-> evaluated]
<1>1. Current(r) \in Ids /\ noted \in Executions
  BY RunnerAt
<1>2. execution' = [execution EXCEPT ![Current(r)] = noted]
  BY DEF Note
<1> HIDE DEF noted
<1>3. /\ execution' \in [Ids -> Executions \cup {None}]
      /\ execution'[Current(r)] = noted
      /\ \A i \in Ids : i # Current(r) => execution'[i] = execution[i]
  BY <1>1, <1>2 DEF TypeOK
<1>4. plan[r] \in Plans[r] /\ at[r] \in 1..PlannedRuns(plan[r]) /\ PlannedRuns(plan[r]) \in Nat
  BY PlanRuns DEF Place
<1>5. CASE Ends(r, outcome = "passed")
  <2>1. stage' = [stage EXCEPT ![r] = "release"] /\ at' = at
    BY <1>5 DEF Note
  <2>2. Moves(r, "release")
    BY <2>1, MovesTo DEF Stages
  <2> QED BY <1>3, <1>4, <2>1, <2>2 DEF Notes, Moves, TypeOK, noted
<1>6. CASE ~Ends(r, outcome = "passed")
  <2>1. stage' = [stage EXCEPT ![r] = "next"] /\ at' = [at EXCEPT ![r] = at[r] + 1]
    BY <1>6 DEF Note
  <2>2. Moves(r, "next")
    BY <2>1, MovesTo DEF Stages
  <2>3. at[r] # PlannedRuns(plan[r])
    BY <1>6 DEF Ends
  <2>4. /\ at' \in [Runners -> Nat] /\ at'[r] = at[r] + 1 /\ at'[r] \in 1..PlannedRuns(plan[r])
        /\ \A q \in Runners : q # r => at'[q] = at[q]
    BY <1>4, <2>1, <2>3 DEF TypeOK
  <2> QED BY <1>3, <2>2, <2>4 DEF Notes, Moves, noted
<1> QED BY <1>5, <1>6

\* A reset begins a run.
Begins(a) ==
  /\ Current(a) \in Ids
  /\ world' = [of |-> Current(a), by |-> {}]
  /\ row' \in [Ids -> {None, "running"} \cup Terminal]
  /\ Moves(a, "running")
  /\ unresolved = {} /\ open = {}

LEMMA BeginStep ==
  ASSUME TypeOK, NEW a \in Runners \cup Outsiders, Current(a) \in Ids, PrepareRun(a)
  PROVE  Begins(a)
<1>1. Moves(a, "running")
  BY MovesTo DEF PrepareRun, Stages
<1>2. row' \in [Ids -> {None, "running"} \cup Terminal]
  BY DEF PrepareRun, TypeOK
<1> QED BY <1>1, <1>2 DEF Begins, PrepareRun, ResetIsSafe, ResetWaits

\* The run a process works on changes only for a runner that notes something.
LEMMA SameCurrent == at' = at => \A a : Current(a)' = Current(a)
BY DEF Current

\* The rest of a live evaluation.
Persists(i) ==
  /\ evaluation' \in [Ids -> Evaluations \cup {None}]
  /\ evaluation'[i].tickets = evaluating[i] /\ evaluation'[i].mutations = world
  /\ \A j \in Ids : j # i => evaluation'[j] = evaluation[j]
  /\ evaluating' \in [Ids -> Worlds \cup {None}]
  /\ evaluating'[i] = None
  /\ \A j \in Ids : j # i => evaluating'[j] = evaluating[j]

LEMMA PersistStep ==
  ASSUME TypeOK, NEW i \in Ids, NEW oracles \in BOOLEAN, evaluating[i] # None, PersistLive(i, oracles)
  PROVE  Persists(i)
<1> DEFINE e == [tickets |-> evaluating[i], mutations |-> world, passed |-> Passed(i, oracles),
                 source |-> "live"]
<1>1. Passed(i, oracles) \in BOOLEAN
  BY DEF Passed
<1>2. e \in Evaluations /\ e.tickets = evaluating[i] /\ e.mutations = world
  BY <1>1 DEF Evaluations, TypeOK
<1>3. evaluation' = [evaluation EXCEPT ![i] = e] /\ evaluating' = [evaluating EXCEPT ![i] = None]
  BY DEF PersistLive
<1> HIDE DEF e
<1> QED BY <1>2, <1>3 DEF Persists, TypeOK
-----------------------------------------------------------------------------
(* Types and places.                                                       *)

\* TypeOK but for the part that Place implies.
Shape ==
  /\ lock \in Runners \cup {Nobody}
  /\ lock # Nobody => stage[lock] \in Active
  /\ stage \in [Runners \cup Outsiders -> Stages]
  /\ DOMAIN plan = Runners /\ \A r \in Runners : plan[r] \in Plans[r] \cup {None}
  /\ at \in [Runners -> Nat]
  /\ execution \in [Ids -> Executions \cup {None}]
  /\ row \in [Ids -> {None, "running"} \cup Terminal]
  /\ world \in Worlds
  /\ unresolved \subseteq Ids /\ open \subseteq hung /\ hung \subseteq Ids
  /\ evaluating \in [Ids -> Worlds \cup {None}]
  /\ evaluation \in [Ids -> Evaluations \cup {None}]
  /\ final \in [Ids -> Worlds \cup {None}]
  /\ lost \subseteq Runners /\ recaptured \subseteq Ids
  /\ budget \in [processes : SUBSET (Runners \cup Outsiders), faults : Nat, scripts : Nat]

LEMMA TypeShape == Shape /\ Place <=> TypeOK /\ Place
<1>1. ASSUME Place, NEW r \in Runners, stage[r] \notin {"idle", "refused"}
      PROVE  Current(r) \in Ids /\ plan[r] # None
  BY <1>1, RunnerId, PlansAssumption, NamesAssumption DEF Place, Current
<1> QED BY <1>1 DEF Shape, TypeOK, Active, Stages

LEMMA TypeShapeNext == (Shape /\ Place)' => TypeOK'
BY TypeShape, PTL

LEMMA BudgetStep ==
  ASSUME TypeOK
  PROVE  /\ Fault => budget' \in [processes : SUBSET (Runners \cup Outsiders), faults : Nat, scripts : Nat]
         /\ Script => budget' \in [processes : SUBSET (Runners \cup Outsiders), faults : Nat, scripts : Nat]
<1> DEFINE B == [processes : SUBSET (Runners \cup Outsiders), faults : Nat, scripts : Nat]
<1>1. PICK b \in B : b = budget
  BY DEF TypeOK
<1>2. CASE Fault
  <2>1. b.faults > 0 /\ b.faults \in Nat /\ budget' = [b EXCEPT !.faults = b.faults - 1]
    BY <1>1, <1>2 DEF Fault
  <2> QED BY <2>1, <1>2
<1>3. CASE Script
  <2>1. b.scripts > 0 /\ b.scripts \in Nat /\ budget' = [b EXCEPT !.scripts = b.scripts - 1]
    BY <1>1, <1>3 DEF Script
  <2> QED BY <2>1, <1>3
<1> QED BY <1>2, <1>3

\* A stage that changes within the plan of a runner, or belongs to an outsider.
LEMMA PlaceMoves ==
  ASSUME TypeOK, Place, NEW a \in Runners \cup Outsiders, NEW s, Moves(a, s), plan' = plan, at' = at,
         a \in Runners => stage[a] \notin {"idle", "refused"} /\ s \notin {"idle", "refused"}
  PROVE  Place'
BY NamesAssumption DEF Place, Moves

LEMMA PlaceNotes ==
  ASSUME TypeOK, Place, NEW r \in Runners, stage[r] \notin {"idle", "refused"}, NEW noted,
         Notes(r, noted), plan' = plan
  PROVE  Place'
BY DEF Place, Moves, Notes
-----------------------------------------------------------------------------
(* What keeps each part of the invariant.                                  *)

LEMMA KeepsLock ==
  ASSUME HoldsLock, lock' = lock, lost' = lost,
         \A r \in Runners : stage'[r] \in Active => stage[r] \in Active
  PROVE  HoldsLock'
BY DEF HoldsLock

LEMMA KeepsNotOver ==
  ASSUME NotOver,
         \A i \in Ids : Undecided(i, {"idle", "next", "running"})' =>
                          Undecided(i, {"idle", "next", "running"}) /\ final'[i] = final[i]
  PROVE  NotOver'
BY DEF NotOver

LEMMA KeepsNotNoted ==
  ASSUME NotNoted,
         \A i \in Ids : i[1] \in Outsiders \/ Undecided(i, {"next"} \cup Engaged)' =>
           /\ i[1] \in Outsiders \/ Undecided(i, {"next"} \cup Engaged)
           /\ execution'[i] = execution[i]
  PROVE  NotNoted'
BY DEF NotNoted, Engaged

\* Which run comes when is settled by the steps of its process.
LEMMA UndecidedMoves ==
  ASSUME TypeOK, NEW a \in Runners \cup Outsiders, NEW s, Moves(a, s), at' = at,
         NEW stages, s \in stages => stage[a] \in stages
  PROVE  \A i \in Ids : Undecided(i, stages)' => Undecided(i, stages)
<1>1. \A i \in Ids : i[1] \in Runners \cup Outsiders
  BY IdShape
<1> QED BY <1>1 DEF Undecided, Moves

LEMMA MovesDecide ==
  ASSUME TypeOK, NotOver, NotNoted, NEW a \in Runners \cup Outsiders, NEW s, Moves(a, s), at' = at,
         final' = final, execution' = execution,
         s \in {"idle", "next", "running"} => stage[a] \in {"idle", "next", "running"},
         s \in {"next"} \cup Engaged => stage[a] \in {"next"} \cup Engaged \/ a \in Outsiders
  PROVE  NotOver' /\ NotNoted'
<1>1. NotOver'
  BY UndecidedMoves, KeepsNotOver
<1>2. ASSUME NEW i \in Ids, i[1] \notin Outsiders, Undecided(i, {"next"} \cup Engaged)'
      PROVE  Undecided(i, {"next"} \cup Engaged)
  <2>1. CASE a \in Outsiders
    BY <1>2, <2>1, IdShape, NamesAssumption DEF Undecided, Moves
  <2>2. CASE a \notin Outsiders
    BY <1>2, <2>2, UndecidedMoves
  <2> QED BY <2>1, <2>2
<1> QED BY <1>1, <1>2, KeepsNotNoted

LEMMA UndecidedNotes ==
  ASSUME TypeOK, Place, NEW r \in Runners, stage[r] \notin {"idle", "refused"}, NEW noted,
         Notes(r, noted), NEW stages, "release" \notin stages
  PROVE  \A i \in Ids : Undecided(i, stages)' => Undecided(i, stages) /\ i # Current(r)
<1>1. \A i \in Ids : i[1] \in Runners \cup Outsiders /\ (i[1] \in Runners => i[2] \in Nat)
  BY IdShape, NamesAssumption
<1>2. Current(r)[1] = r /\ Current(r)[2] = at[r] /\ at[r] \in Nat
  BY RunnerAt DEF TypeOK
<1>3. ASSUME NEW i \in Ids, i[1] = r, Undecided(i, stages)'
      PROVE  Undecided(i, stages) /\ i # Current(r)
  <2>1. i[2] > at'[r] \/ (i[2] = at'[r] /\ stage'[r] \in stages)
    BY <1>3 DEF Undecided
  <2>2. i[2] > at[r]
    BY <1>1, <1>2, <1>3, <2>1 DEF Notes
  <2> QED BY <1>2, <1>3, <2>2 DEF Undecided
<1>4. ASSUME NEW i \in Ids, i[1] # r, Undecided(i, stages)'
      PROVE  Undecided(i, stages) /\ i # Current(r)
  BY <1>1, <1>2, <1>4 DEF Undecided, Notes, Moves
<1> QED BY <1>3, <1>4

LEMMA KeepsOwnTables ==
  ASSUME OwnTables, world' = world, open' \subseteq open, lost \subseteq lost',
         \A r \in Runners : stage'[r] \in Engaged => stage[r] \in Engaged /\ at'[r] = at[r]
  PROVE  OwnTables'
<1>1. \A r \in Runners : stage'[r] \in Engaged => Current(r)' = Current(r)
  BY DEF Current
<1> QED BY <1>1 DEF OwnTables, Stray, Foreign

LEMMA KeepsOwnCapture ==
  ASSUME OwnCapture, lost \subseteq lost',
         \A r \in Runners : stage'[r] = "evaluating" =>
           /\ stage[r] = "evaluating" /\ at'[r] = at[r]
           /\ evaluating'[Current(r)] = evaluating[Current(r)]
  PROVE  OwnCapture'
<1>1. \A r \in Runners : stage'[r] = "evaluating" => Current(r)' = Current(r)
  BY DEF Current
<1> QED BY <1>1 DEF OwnCapture, Stray, Foreign

LEMMA KeepsLastWords ==
  ASSUME LastWords, world' = world, hung \subseteq hung',
         \A i \in Ids : final'[i] = final[i] \/ final'[i] = world
  PROVE  LastWords'
BY DEF LastWords, Foreign

LEMMA KeepsCaptureFits ==
  ASSUME CaptureFits, hung \subseteq hung',
         \A r \in Runners : stage'[r] \in {"returned", "evaluating"} =>
           /\ stage'[r] = stage[r] /\ at'[r] = at[r]
           /\ final'[Current(r)] = final[Current(r)]
           /\ evaluating'[Current(r)] = evaluating[Current(r)]
  PROVE  CaptureFits'
<1>1. \A r \in Runners : stage'[r] \in {"returned", "evaluating"} => Current(r)' = Current(r)
  BY DEF Current
<1> QED BY <1>1 DEF CaptureFits, Foreign

LEMMA KeepsScripts ==
  ASSUME ScriptsCapture, recaptured \subseteq recaptured',
         \A i \in Ids : evaluating'[i] = evaluating[i] \/ evaluating'[i] = None,
         \A a \in Runners \cup Outsiders : stage[a] = "evaluating" /\ evaluating'[Current(a)] # None =>
           stage'[a] = "evaluating" /\ Current(a)' = Current(a)
  PROVE  ScriptsCapture'
<1>1. \A i \in Ids : i[1] \in Runners \cup Outsiders
  BY IdShape
<1>2. \A i \in Ids : ByScript(i)' => ByScript(i)
  BY <1>1 DEF ByScript
<1> QED BY <1>2 DEF ScriptsCapture

LEMMA KeepsEvaluated ==
  ASSUME EvaluatedIsOwn, recaptured \subseteq recaptured', lost \subseteq lost', hung \subseteq hung',
         \A i \in Ids :
           execution'[i] # None /\ execution'[i].evaluation = "completed" /\ i \notin recaptured' =>
             /\ execution'[i] = execution[i] /\ final'[i] = final[i]
             /\ evaluation'[i].tickets = evaluation[i].tickets
             /\ evaluation'[i].mutations = evaluation[i].mutations
  PROVE  EvaluatedIsOwn'
BY DEF EvaluatedIsOwn, Foreign

\* A process that works on a plan next to one with the lock has lost it.
LEMMA Alone ==
  ASSUME BenchmarkInv, NEW r \in Runners, stage[r] \in Active, r \notin lost,
         NEW a \in Runners \cup Outsiders, a # r, a \in Runners => stage[a] \in Active
  PROVE  Current(a) \in Ids => Current(a) \in Stray
<1>1. Current(a)[1] = a
  BY DEF Current
<1>2. a \in Outsiders \cup lost
  BY DEF BenchmarkInv, HoldsLock
<1> QED BY <1>1, <1>2 DEF Stray
-----------------------------------------------------------------------------
(* Every step keeps the invariant.                                         *)

LEMMA AcquireInv ==
  ASSUME BenchmarkInv, NEW r \in Runners, Acquire(r)
  PROVE  BenchmarkInv'
<1> USE DEF BenchmarkInv
<1>1. PICK p \in Plans[r] : plan' = [plan EXCEPT ![r] = p]
  BY DEF Acquire
<1>2. Moves(r, "next") /\ stage[r] = "idle"
  BY MovesTo DEF Acquire, Stages
<1>3. at' \in [Runners -> Nat] /\ at[r] = 0 /\ at'[r] = 1 /\ \A q \in Runners : q # r => at'[q] = at[q]
  BY DEF Acquire, TypeOK, Place
<1>4. plan'[r] = p /\ DOMAIN plan' = Runners /\ \A q \in Runners : q # r => plan'[q] = plan[q]
  BY <1>1 DEF TypeOK
<1>5. Shape'
  BY <1>2, <1>3, <1>4, TypeShape DEF Shape, Acquire, Moves, Active, planVars, operationVars, evaluationVars, historyVars
<1>6. Place'
  BY <1>2, <1>3, <1>4, PlanRuns DEF Place, Moves
<1>7. HoldsLock'
  BY <1>2, NamesAssumption DEF HoldsLock, Acquire, LockIsFree, Moves, historyVars
<1>8. \A stages : \A i \in Ids : Undecided(i, stages)' /\ "idle" \notin stages => Undecided(i, stages)
  BY <1>2, <1>3, IdShape DEF Undecided, Moves
<1>9. NotOver' /\ NotNoted'
  <2>1. \A i \in Ids : Undecided(i, {"idle", "next", "running"})' => Undecided(i, {"idle", "next", "running"})
    BY <1>2, <1>3, IdShape DEF Undecided, Moves
  <2>2. \A i \in Ids : Undecided(i, {"next"} \cup Engaged)' => Undecided(i, {"next"} \cup Engaged)
    BY <1>8 DEF Engaged
  <2> QED BY <2>1, <2>2, KeepsNotOver, KeepsNotNoted DEF Acquire, historyVars
<1>10. OwnTables' /\ OwnCapture' /\ LastWords' /\ CaptureFits'
  BY <1>2, <1>3, KeepsOwnTables, KeepsOwnCapture, KeepsLastWords, KeepsCaptureFits
  DEF Acquire, Moves, Engaged, operationVars, evaluationVars, historyVars
<1>11. ScriptsCapture'
  BY <1>2, <1>3, KeepsScripts DEF Current, Acquire, Moves, evaluationVars
<1>12. EvaluatedIsOwn'
  BY KeepsEvaluated DEF Acquire, operationVars, evaluationVars, historyVars
<1> QED BY <1>5, <1>6, <1>7, <1>9, <1>10, <1>11, <1>12, TypeShapeNext

LEMMA BusyInv ==
  ASSUME BenchmarkInv, NEW r \in Runners, Busy(r)
  PROVE  BenchmarkInv'
<1> USE DEF BenchmarkInv
<1>1. Moves(r, "refused") /\ stage[r] = "idle" /\ at[r] = 0
  BY MovesTo DEF Busy, Stages, Place
<1>2. UNCHANGED <<lock, plan, at, execution, row, world, open, hung, unresolved, evaluating, evaluation,
                  recaptured, final, lost, budget>>
  BY DEF Busy, planVars, operationVars, evaluationVars, historyVars
<1>3. Shape' /\ Place'
  BY <1>1, <1>2, TypeShape DEF Shape, Place, Moves, Active
<1>4. HoldsLock'
  BY <1>1, <1>2, KeepsLock DEF Moves, Active
<1>5. \A stages : \A i \in Ids : Undecided(i, stages)' /\ "refused" \notin stages => Undecided(i, stages)
  BY <1>1, <1>2, IdShape DEF Undecided, Moves
<1>6. NotOver' /\ NotNoted'
  <2>1. \A i \in Ids : Undecided(i, {"idle", "next", "running"})' => Undecided(i, {"idle", "next", "running"})
    BY <1>5
  <2>2. \A i \in Ids : Undecided(i, {"next"} \cup Engaged)' => Undecided(i, {"next"} \cup Engaged)
    BY <1>5 DEF Engaged
  <2> QED BY <1>2, <2>1, <2>2, KeepsNotOver, KeepsNotNoted
<1>7. OwnTables' /\ OwnCapture' /\ LastWords' /\ CaptureFits'
  BY <1>1, <1>2, KeepsOwnTables, KeepsOwnCapture, KeepsLastWords, KeepsCaptureFits DEF Moves, Engaged
<1>8. ScriptsCapture'
  BY <1>1, <1>2, SameCurrent, KeepsScripts DEF Moves
<1>9. EvaluatedIsOwn'
  BY <1>2, KeepsEvaluated
<1> QED BY <1>3, <1>4, <1>6, <1>7, <1>8, <1>9, TypeShapeNext

LEMMA LoseLockInv ==
  ASSUME BenchmarkInv, NEW r \in Runners, LoseLock(r)
  PROVE  BenchmarkInv'
<1> USE DEF BenchmarkInv
<1>1. UNCHANGED <<stage, plan, at, execution, row, world, open, hung, unresolved, evaluating, evaluation,
                  recaptured, final>>
  BY DEF LoseLock, planVars, operationVars, evaluationVars
<1>2. lock = r /\ lock' = Nobody /\ lost' = lost \cup {r}
  BY DEF LoseLock
<1>3. Shape' /\ Place'
  BY <1>1, <1>2, TypeShape, BudgetStep DEF Shape, Place, LoseLock
<1>4. HoldsLock'
  BY <1>1, <1>2 DEF HoldsLock
<1>5. NotOver' /\ NotNoted'
  BY <1>1 DEF NotOver, NotNoted, Undecided
<1>6. OwnTables' /\ OwnCapture' /\ LastWords' /\ CaptureFits'
  BY <1>1, <1>2, KeepsOwnTables, KeepsOwnCapture, KeepsLastWords, KeepsCaptureFits
<1>7. ScriptsCapture'
  BY <1>1 DEF ScriptsCapture, ByScript, Current
<1>8. EvaluatedIsOwn'
  BY <1>1, <1>2, KeepsEvaluated
<1> QED BY <1>3, <1>4, <1>5, <1>6, <1>7, <1>8, TypeShapeNext

LEMMA ReleaseInv ==
  ASSUME BenchmarkInv, NEW r \in Runners, Release(r)
  PROVE  BenchmarkInv'
<1> USE DEF BenchmarkInv
<1>1. stage[r] = "release" /\ Moves(r, stage'[r]) /\ stage'[r] \in {"done", "unreleased"}
  <2>1. stage[r] = "release" /\ \E s \in {"done", "unreleased"} : stage' = [stage EXCEPT ![r] = s]
    BY DEF Release
  <2> QED BY <2>1, MovesTo DEF Stages, Moves, TypeOK
<1>2. UNCHANGED <<plan, at, execution, row, world, open, hung, unresolved, evaluating, evaluation,
                  recaptured, final, lost, budget>>
  BY DEF Release, operationVars, evaluationVars, historyVars
<1>3. IF lock = r THEN lock' = Nobody ELSE lock' = lock
  <2>1. CASE lock = r
    BY <2>1 DEF Release
  <2>2. CASE lock # r
    BY <2>2 DEF Release
  <2> QED BY <2>1, <2>2
<1>4. Shape' /\ Place'
  <2>1. Place'
    BY <1>1, <1>2, PlaceMoves
  <2>2. Shape'
    BY <1>1, <1>2, <1>3, TypeShape DEF Shape, Moves
  <2> QED BY <2>1, <2>2
<1>5. HoldsLock'
  BY <1>1, <1>2, <1>3 DEF HoldsLock, Active, Moves
<1>6. NotOver' /\ NotNoted'
  BY <1>1, <1>2, MovesDecide DEF Engaged
<1>7. OwnTables' /\ OwnCapture' /\ LastWords' /\ CaptureFits'
  BY <1>1, <1>2, KeepsOwnTables, KeepsOwnCapture, KeepsLastWords, KeepsCaptureFits DEF Moves, Engaged
<1>8. ScriptsCapture'
  BY <1>1, <1>2, SameCurrent, KeepsScripts DEF Moves
<1>9. EvaluatedIsOwn'
  BY <1>2, KeepsEvaluated
<1> QED BY <1>4, <1>5, <1>6, <1>7, <1>8, <1>9, TypeShapeNext

\* A reset; the process comes from the stage in which it has nothing to lose.
LEMMA PrepareInv ==
  ASSUME BenchmarkInv, NEW a \in Runners \cup Outsiders, PrepareRun(a), UNCHANGED budget,
         IF a \in Runners THEN stage[a] = "next" ELSE stage[a] = "idle"
  PROVE  BenchmarkInv'
<1> USE DEF BenchmarkInv
<1>1. /\ Current(a) \in Ids /\ Current(a)[1] = a
      /\ a \in Runners => Current(a)[2] = at[a]
  BY RunnerAt, OutsiderAt
<1>2. Begins(a)
  BY <1>1, BeginStep
<1>3. UNCHANGED <<lock, plan, at, execution, open, hung, unresolved, evaluating, evaluation, recaptured, final,
                  lost, budget>>
  BY DEF PrepareRun, planVars, operationVars, evaluationVars, historyVars
<1>4. Shape' /\ Place'
  <2>1. Place'
    BY <1>2, <1>3, PlaceMoves DEF Begins
  <2>2. world' \in Worlds
    BY <1>2 DEF Begins, Worlds
  <2>3. Shape'
    BY <1>2, <1>3, <2>2, TypeShape, NamesAssumption DEF Begins, Shape, Moves, Active
  <2> QED BY <2>1, <2>3
<1>5. HoldsLock'
  BY <1>2, <1>3, KeepsLock, NamesAssumption DEF Begins, Moves, Active
<1>6. NotOver' /\ NotNoted'
  BY <1>2, <1>3, MovesDecide DEF Begins, Engaged
<1>7. OwnTables'
  <2> SUFFICES ASSUME NEW r \in Runners, stage'[r] \in Engaged, r \notin lost
               PROVE  Foreign(Current(r), world)' \subseteq Stray' /\ open' \ {Current(r)'} \subseteq Stray'
    BY <1>3 DEF OwnTables
  <2>1. open' = {} /\ Current(r)' = Current(r) /\ Stray' = Stray
    BY <1>2, <1>3, SameCurrent DEF Begins, Stray
  <2>2. Foreign(Current(r), world)' = {Current(a)} \ {Current(r)}
    BY <1>2, <2>1 DEF Begins, Foreign
  <2>3. CASE r # a
    <3>1. stage[r] \in Active /\ (a \in Runners => stage[a] \in Active)
      BY <1>2, <2>3 DEF Begins, Moves, Active, Engaged
    <3> QED BY <1>1, <2>1, <2>2, <2>3, <3>1, Alone
  <2> QED BY <2>1, <2>2, <2>3
<1>8. OwnCapture'
  BY <1>2, <1>3, KeepsOwnCapture DEF Begins, Moves
<1>9. LastWords'
  <2>1. final[Current(a)] = None
    BY <1>1 DEF NotOver, Undecided
  <2>2. \A i \in Ids : Foreign(i, world)' = {} => i = Current(a)
    BY <1>2 DEF Foreign, Begins
  <2> QED BY <1>3, <2>1, <2>2 DEF LastWords
<1>10. CaptureFits'
  BY <1>2, <1>3, KeepsCaptureFits DEF Begins, Moves
<1>11. ScriptsCapture'
  BY <1>2, <1>3, SameCurrent, KeepsScripts DEF Begins, Moves
<1>12. EvaluatedIsOwn'
  BY <1>3, KeepsEvaluated
<1> QED BY <1>4, <1>5, <1>6, <1>7, <1>8, <1>9, <1>10, <1>11, <1>12, TypeShapeNext

\* What a step writes into the tables, or sends on its way to them.
LEMMA KeepsTables ==
  ASSUME BenchmarkInv, UNCHANGED <<stage, at, lost>>, NEW new \in SUBSET Ids,
         world'.of = world.of, world'.by \subseteq world.by \cup new, open' \subseteq open \cup new,
         \A r \in Runners : stage[r] \in Engaged /\ r \notin lost => new \ {Current(r)} \subseteq Stray
  PROVE  OwnTables'
<1> SUFFICES ASSUME NEW r \in Runners, stage[r] \in Engaged, r \notin lost
             PROVE  Foreign(Current(r), world)' \subseteq Stray' /\ open' \ {Current(r)'} \subseteq Stray'
  BY DEF OwnTables
<1>1. Current(r)' = Current(r) /\ Stray' = Stray
  BY SameCurrent DEF Stray
<1>2. Foreign(Current(r), world) \subseteq Stray /\ open \ {Current(r)} \subseteq Stray
  BY DEF BenchmarkInv, OwnTables
<1> QED BY <1>1, <1>2 DEF Foreign

LEMMA WriteInv ==
  ASSUME BenchmarkInv, NEW a \in Runners \cup Outsiders, Write(a)
  PROVE  BenchmarkInv'
<1> USE DEF BenchmarkInv
<1>1. UNCHANGED <<stage, lock, plan, at, execution, row, open, hung, unresolved, evaluating, evaluation,
                  recaptured, final, lost, budget>>
  BY DEF Write, planVars, operationVars, evaluationVars, historyVars
<1>2. /\ stage[a] = "running" /\ Current(a) \in Ids /\ Current(a)[1] = a
      /\ a \in Runners => Current(a)[2] = at[a]
  BY RunnerAt, OutsiderAt DEF Write
<1>3. world' \in Worlds /\ world'.of = world.of /\ world'.by = world.by \cup {Current(a)}
  BY <1>2 DEF Write, TypeOK, Worlds
<1>4. Shape' /\ Place'
  BY <1>1, <1>3, TypeShape DEF Shape, Place
<1>5. HoldsLock' /\ NotOver' /\ NotNoted'
  BY <1>1 DEF HoldsLock, NotOver, NotNoted, Undecided
<1>6. OwnTables'
  <2>1. \A r \in Runners : stage[r] \in Engaged /\ r \notin lost => {Current(a)} \ {Current(r)} \subseteq Stray
    BY <1>2, Alone DEF Engaged, Active
  <2> QED BY <1>1, <1>2, <1>3, <2>1, KeepsTables
<1>7. OwnCapture' /\ CaptureFits'
  BY <1>1, KeepsOwnCapture, KeepsCaptureFits
<1>8. LastWords'
  <2>1. final[Current(a)] = None
    BY <1>2 DEF NotOver, Undecided
  <2>2. \A i \in Ids : Foreign(i, world)' = {} => i = Current(a)
    BY <1>3 DEF Foreign
  <2> QED BY <1>1, <2>1, <2>2 DEF LastWords
<1>9. ScriptsCapture'
  BY <1>1 DEF ScriptsCapture, ByScript, Current
<1>10. EvaluatedIsOwn'
  BY <1>1, KeepsEvaluated
<1> QED BY <1>4, <1>5, <1>6, <1>7, <1>8, <1>9, <1>10, TypeShapeNext

LEMMA HangInv ==
  ASSUME BenchmarkInv, NEW a \in Runners \cup Outsiders, Hang(a)
  PROVE  BenchmarkInv'
<1> USE DEF BenchmarkInv
<1>1. UNCHANGED <<stage, lock, plan, at, execution, row, world, evaluating, evaluation, recaptured, final, lost>>
  BY DEF Hang, planVars, evaluationVars, historyVars
<1>2. stage[a] = "running" /\ Current(a) \in Ids
  BY RunnerAt, OutsiderAt DEF Hang
<1>3. /\ unresolved' = unresolved \cup {Current(a)} /\ open' = open \cup {Current(a)}
      /\ hung' = hung \cup {Current(a)}
  BY DEF Hang
<1>4. Shape' /\ Place'
  BY <1>1, <1>2, <1>3, TypeShape, BudgetStep DEF Shape, Place, Hang
<1>5. HoldsLock' /\ NotOver' /\ NotNoted'
  BY <1>1 DEF HoldsLock, NotOver, NotNoted, Undecided
<1>6. OwnTables'
  <2>1. \A r \in Runners : stage[r] \in Engaged /\ r \notin lost => {Current(a)} \ {Current(r)} \subseteq Stray
    BY <1>2, Alone DEF Engaged, Active
  <2> QED BY <1>1, <1>2, <1>3, <2>1, KeepsTables
<1>7. OwnCapture' /\ LastWords' /\ CaptureFits'
  BY <1>1, <1>3, KeepsOwnCapture, KeepsLastWords, KeepsCaptureFits
<1>8. ScriptsCapture'
  BY <1>1 DEF ScriptsCapture, ByScript, Current
<1>9. EvaluatedIsOwn'
  BY <1>1, <1>3, KeepsEvaluated
<1> QED BY <1>4, <1>5, <1>6, <1>7, <1>8, <1>9, TypeShapeNext

LEMMA CommitInv ==
  ASSUME BenchmarkInv, NEW i \in Ids, CommitLands(i) \/ CommitDropped(i)
  PROVE  BenchmarkInv'
<1> USE DEF BenchmarkInv
<1>1. UNCHANGED <<stage, lock, plan, at, execution, row, hung, unresolved, evaluating, evaluation,
                  recaptured, final, lost, budget>>
  BY DEF CommitLands, CommitDropped, planVars, evaluationVars, historyVars
<1>2. i \in open /\ i \in hung /\ open' = open \ {i}
  BY DEF CommitLands, CommitDropped, TypeOK
<1>3. world' \in Worlds /\ (world' = world \/ (world'.of = world.of /\ world'.by = world.by \cup {i}))
  BY DEF CommitLands, CommitDropped, TypeOK, Worlds
<1>4. Shape' /\ Place'
  BY <1>1, <1>2, <1>3, TypeShape DEF Shape, Place
<1>5. HoldsLock' /\ NotOver' /\ NotNoted'
  BY <1>1 DEF HoldsLock, NotOver, NotNoted, Undecided
<1>6. OwnTables'
  <2>1. \A r \in Runners : stage[r] \in Engaged /\ r \notin lost => {i} \ {Current(r)} \subseteq Stray
    BY <1>2 DEF OwnTables
  <2> QED BY <1>1, <1>2, <1>3, <2>1, KeepsTables
<1>7. OwnCapture' /\ CaptureFits'
  BY <1>1, KeepsOwnCapture, KeepsCaptureFits
<1>8. LastWords'
  <2>1. \A j \in Ids : Foreign(j, world)' = {} => world' = world \/ j = i
    BY <1>3 DEF Foreign
  <2> QED BY <1>1, <1>2, <2>1 DEF LastWords
<1>9. ScriptsCapture'
  BY <1>1 DEF ScriptsCapture, ByScript, Current
<1>10. EvaluatedIsOwn'
  BY <1>1, KeepsEvaluated
<1> QED BY <1>4, <1>5, <1>6, <1>7, <1>8, <1>9, <1>10, TypeShapeNext

LEMMA RecoverInv ==
  ASSUME BenchmarkInv, NEW i \in Ids, Recover(i)
  PROVE  BenchmarkInv'
<1> USE DEF BenchmarkInv
<1>1. UNCHANGED <<stage, lock, plan, at, execution, row, world, open, hung, evaluating, evaluation,
                  recaptured, final, lost, budget>>
  BY DEF Recover, planVars, evaluationVars, historyVars
<1>2. unresolved' \subseteq unresolved
  BY DEF Recover
<1>3. Shape' /\ Place'
  BY <1>1, <1>2, TypeShape DEF Shape, Place
<1>4. HoldsLock' /\ NotOver' /\ NotNoted'
  BY <1>1 DEF HoldsLock, NotOver, NotNoted, Undecided
<1>5. OwnTables' /\ OwnCapture' /\ LastWords' /\ CaptureFits'
  BY <1>1, KeepsOwnTables, KeepsOwnCapture, KeepsLastWords, KeepsCaptureFits
<1>6. ScriptsCapture'
  BY <1>1 DEF ScriptsCapture, ByScript, Current
<1>7. EvaluatedIsOwn'
  BY <1>1, KeepsEvaluated
<1> QED BY <1>3, <1>4, <1>5, <1>6, <1>7, TypeShapeNext

LEMMA TerminateInv ==
  ASSUME BenchmarkInv, NEW a \in Runners \cup Outsiders, Terminate(a)
  PROVE  BenchmarkInv'
<1> USE DEF BenchmarkInv
<1>1. stage[a] = "running" /\ Moves(a, IF a \in Runners THEN "returned" ELSE "done")
  BY MovesTo DEF Terminate, Stages
<1>2. UNCHANGED <<lock, plan, at, execution, world, open, hung, unresolved, evaluating, evaluation,
                  recaptured, lost, budget>>
  BY DEF Terminate, planVars, operationVars, evaluationVars
<1>3. /\ Current(a) \in Ids /\ Current(a)[1] = a
      /\ a \in Runners => Current(a)[2] = at[a]
  BY <1>1, RunnerAt, OutsiderAt
<1>4. /\ final' \in [Ids -> Worlds \cup {None}] /\ final'[Current(a)] = world
      /\ \A i \in Ids : i # Current(a) => final'[i] = final[i]
  BY <1>3 DEF Terminate, TypeOK
<1>5. Shape' /\ Place'
  <2>1. Place'
    BY <1>1, <1>2, PlaceMoves
  <2>2. row' \in [Ids -> {None, "running"} \cup Terminal]
    <3>1. PICK s \in Terminal : row' = [row EXCEPT ![Current(a)] = s]
      BY DEF Terminate
    <3> QED BY <3>1 DEF TypeOK
  <2>3. Shape'
    BY <1>1, <1>2, <1>4, <2>2, TypeShape, NamesAssumption DEF Shape, Moves, Active
  <2> QED BY <2>1, <2>3
<1>6. HoldsLock'
  BY <1>1, <1>2, KeepsLock, NamesAssumption DEF Moves, Active
<1>7. NotOver'
  <2>1. \A i \in Ids : Undecided(i, {"idle", "next", "running"})' => Undecided(i, {"idle", "next", "running"})
    BY <1>1, <1>2, UndecidedMoves
  <2>2. \A i \in Ids : Undecided(i, {"idle", "next", "running"})' => i # Current(a)
    BY <1>1, <1>2, <1>3, NamesAssumption DEF Undecided, Moves, TypeOK
  <2> QED BY <1>4, <2>1, <2>2, KeepsNotOver
<1>8. NotNoted'
  <2>1. ASSUME NEW i \in Ids, i[1] \notin Outsiders, Undecided(i, {"next"} \cup Engaged)'
        PROVE  Undecided(i, {"next"} \cup Engaged)
    <3>1. CASE a \in Outsiders
      BY <1>1, <1>2, <2>1, <3>1, IdShape, NamesAssumption DEF Undecided, Moves
    <3>2. CASE a \notin Outsiders
      BY <1>1, <1>2, <2>1, <3>2, UndecidedMoves DEF Engaged
    <3> QED BY <3>1, <3>2
  <2> QED BY <1>2, <2>1, KeepsNotNoted
<1>9. OwnTables' /\ OwnCapture' /\ LastWords'
  BY <1>1, <1>2, <1>4, KeepsOwnTables, KeepsOwnCapture, KeepsLastWords DEF Moves, Engaged
<1>10. CaptureFits'
  <2>1. \A r \in Runners : Current(r)[1] = r /\ Current(r)' = Current(r)
    BY <1>2, SameCurrent DEF Current
  <2>2. ASSUME NEW r \in Runners, stage'[r] \in {"returned", "evaluating"}
        PROVE  /\ final'[Current(r)] # None
               /\ (/\ stage'[r] = "evaluating" /\ Current(r) \notin hung
                   /\ Foreign(Current(r), evaluating[Current(r)]) = {}) =>
                     evaluating[Current(r)] = final'[Current(r)]
    <3>1. CASE r = a
      BY <1>1, <1>4, <3>1, NamesAssumption DEF Moves, TypeOK
    <3>2. CASE r # a
      <4>1. stage'[r] = stage[r] /\ Current(r) \in Ids /\ Current(r) # Current(a)
        BY <1>1, <1>3, <2>1, <2>2, <3>2, RunnerAt DEF Moves
      <4> QED BY <1>4, <2>2, <4>1 DEF CaptureFits
    <3> QED BY <3>1, <3>2
  <2> QED BY <1>2, <2>1, <2>2 DEF CaptureFits, Foreign
<1>11. ScriptsCapture'
  BY <1>1, <1>2, SameCurrent, KeepsScripts DEF Moves
<1>12. EvaluatedIsOwn'
  <2>1. execution[Current(a)] = None
    BY <1>1, <1>3 DEF NotNoted, Undecided, Engaged
  <2> QED BY <1>2, <1>4, <2>1, KeepsEvaluated
<1> QED BY <1>5, <1>6, <1>7, <1>8, <1>9, <1>10, <1>11, <1>12, TypeShapeNext

LEMMA CrashInv ==
  ASSUME BenchmarkInv, NEW r \in Runners, Crash(r)
  PROVE  BenchmarkInv'
<1> USE DEF BenchmarkInv
<1>1. stage[r] \in Active /\ Moves(r, "crashed")
  BY MovesTo DEF Crash, Stages, Active
<1>2. UNCHANGED <<plan, at, execution, row, world, evaluation, recaptured, final, lost>>
  BY DEF Crash, planVars, historyVars
<1>3. Current(r) \in Ids /\ Current(r)[1] = r
  BY <1>1, RunnerAt DEF Active
<1>4. /\ evaluating' \in [Ids -> Worlds \cup {None}]
      /\ \A i \in Ids : evaluating'[i] = evaluating[i] \/ (i = Current(r) /\ evaluating'[i] = None)
      /\ stage[r] = "evaluating" => evaluating'[Current(r)] = None
  BY <1>3 DEF Crash, TypeOK
<1>5. \E new \in SUBSET {Current(r)} :
        /\ unresolved' = unresolved \cup new /\ open' = open \cup new /\ hung' = hung \cup new
  <2>1. CASE UNCHANGED operationVars
    <3>1. unresolved' = unresolved \cup {} /\ open' = open \cup {} /\ hung' = hung \cup {}
      BY <2>1 DEF operationVars
    <3> WITNESS {} \in SUBSET {Current(r)}
    <3> QED BY <3>1
  <2>2. CASE ~UNCHANGED operationVars
    BY <2>2 DEF Crash
  <2> QED BY <2>1, <2>2
<1>6. IF lock = r THEN lock' = Nobody ELSE lock' = lock
  BY DEF Crash
<1>7. Shape' /\ Place'
  <2>1. Place'
    BY <1>1, <1>2, PlaceMoves DEF Active
  <2>2. unresolved' \subseteq Ids /\ open' \subseteq hung' /\ hung' \subseteq Ids
    BY <1>3, <1>5 DEF TypeOK
  <2>3. Shape'
    BY <1>1, <1>2, <1>4, <1>6, <2>2, TypeShape, BudgetStep DEF Shape, Moves, Crash
  <2> QED BY <2>1, <2>3
<1>8. HoldsLock'
  BY <1>1, <1>2, <1>6 DEF HoldsLock, Active, Moves
<1>9. NotOver' /\ NotNoted'
  BY <1>1, <1>2, MovesDecide DEF Engaged
<1>10. OwnTables'
  <2> SUFFICES ASSUME NEW q \in Runners, stage'[q] \in Engaged, q \notin lost
               PROVE  Foreign(Current(q), world)' \subseteq Stray' /\ open' \ {Current(q)'} \subseteq Stray'
    BY <1>2 DEF OwnTables
  <2>1. Stray' = Stray /\ Current(q)' = Current(q)
    BY <1>2, SameCurrent DEF Stray
  <2>2. q # r /\ stage[q] \in Engaged
    BY <1>1 DEF Moves, Engaged
  <2>3. Current(r) \in Stray
    BY <1>1, <1>3, <2>2, Alone DEF Engaged, Active
  <2>4. Foreign(Current(q), world) \subseteq Stray /\ open \ {Current(q)} \subseteq Stray
    BY <2>2 DEF OwnTables
  <2>5. Foreign(Current(q), world)' = Foreign(Current(q), world)
    BY <1>2, <2>1 DEF Foreign
  <2> QED BY <1>5, <2>1, <2>3, <2>4, <2>5
<1>11. OwnCapture' /\ LastWords' /\ CaptureFits'
  <2>1. \A q \in Runners : stage'[q] \in {"returned", "evaluating"} =>
          stage'[q] = stage[q] /\ evaluating'[Current(q)] = evaluating[Current(q)]
    <3> SUFFICES ASSUME NEW q \in Runners, stage'[q] \in {"returned", "evaluating"}
                 PROVE  stage'[q] = stage[q] /\ evaluating'[Current(q)] = evaluating[Current(q)]
      OBVIOUS
    <3>1. q # r /\ stage'[q] = stage[q]
      BY <1>1 DEF Moves
    <3>2. Current(q) \in Ids /\ Current(q)[1] = q
      BY <3>1, RunnerAt
    <3> QED BY <1>3, <1>4, <3>1, <3>2
  <2>2. hung \subseteq hung'
    BY <1>5
  <2> QED BY <1>2, <2>1, <2>2, KeepsOwnCapture, KeepsLastWords, KeepsCaptureFits
<1>12. ScriptsCapture'
  BY <1>1, <1>2, <1>4, SameCurrent, KeepsScripts DEF Moves
<1>13. EvaluatedIsOwn'
  BY <1>2, <1>5, KeepsEvaluated
<1> QED BY <1>7, <1>8, <1>9, <1>10, <1>11, <1>12, <1>13, TypeShapeNext

\* A runner notes how a run ended; its last step leaves no evaluation behind.
LEMMA NotedParts ==
  ASSUME BenchmarkInv, NEW r \in Runners, stage[r] \in {"next"} \cup Engaged, NEW noted, Notes(r, noted),
         UNCHANGED <<lock, plan, world, open, hung, lost, recaptured>>,
         \A i \in Ids : final'[i] = final[i] \/ (i = Current(r) /\ final'[i] = world),
         \A i \in Ids : evaluating'[i] = evaluating[i] \/ (i = Current(r) /\ evaluating'[i] = None),
         stage[r] = "evaluating" => evaluating'[Current(r)] = None
  PROVE  /\ Place' /\ HoldsLock' /\ NotOver' /\ NotNoted' /\ OwnTables' /\ OwnCapture'
         /\ LastWords' /\ CaptureFits' /\ ScriptsCapture'
<1> USE DEF BenchmarkInv
<1>1. stage[r] \in Active /\ stage[r] \notin {"idle", "refused"}
  BY DEF Engaged, Active
<1>2. Current(r) \in Ids /\ Current(r)[1] = r
  BY <1>1, RunnerAt
<1>3. Place'
  BY <1>1, PlaceNotes
<1>4. HoldsLock'
  BY <1>1, KeepsLock DEF Notes, Moves
<1>5. NotOver'
  <2>1. \A i \in Ids : Undecided(i, {"idle", "next", "running"})' =>
          Undecided(i, {"idle", "next", "running"}) /\ i # Current(r)
    BY <1>1, UndecidedNotes
  <2> QED BY <2>1, KeepsNotOver
<1>6. NotNoted'
  <2>1. \A i \in Ids : Undecided(i, {"next"} \cup Engaged)' => Undecided(i, {"next"} \cup Engaged) /\ i # Current(r)
    BY <1>1, UndecidedNotes DEF Engaged
  <2>2. \A i \in Ids : i[1] \in Outsiders => i # Current(r)
    BY <1>2, NamesAssumption
  <2> QED BY <2>1, <2>2, KeepsNotNoted DEF Notes
<1>7. \A q \in Runners : stage'[q] \in Engaged =>
        /\ stage'[q] = stage[q] /\ at'[q] = at[q]
        /\ final'[Current(q)] = final[Current(q)] /\ evaluating'[Current(q)] = evaluating[Current(q)]
  <2> SUFFICES ASSUME NEW q \in Runners, stage'[q] \in Engaged
               PROVE  /\ stage'[q] = stage[q] /\ at'[q] = at[q]
                      /\ final'[Current(q)] = final[Current(q)] /\ evaluating'[Current(q)] = evaluating[Current(q)]
    OBVIOUS
  <2>1. q # r /\ stage'[q] = stage[q] /\ at'[q] = at[q]
    BY DEF Notes, Moves, Engaged
  <2>2. Current(q) \in Ids /\ Current(q)[1] = q
    BY <2>1, RunnerAt DEF Engaged
  <2> QED BY <1>2, <2>1, <2>2
<1>8. OwnTables'
  BY <1>7, KeepsOwnTables
<1>9. OwnCapture'
  BY <1>7, KeepsOwnCapture DEF Engaged
<1>10. LastWords'
  BY KeepsLastWords
<1>11. CaptureFits'
  BY <1>7, KeepsCaptureFits DEF Engaged
<1>12. ScriptsCapture'
  <2>1. \A a \in Runners \cup Outsiders : a # r => Current(a)' = Current(a) /\ stage'[a] = stage[a]
    BY DEF Notes, Moves, Current
  <2> QED BY <2>1, KeepsScripts
<1> QED BY <1>3, <1>4, <1>5, <1>6, <1>8, <1>9, <1>10, <1>11, <1>12

\* Noting that a run was not evaluated says nothing about tables.
LEMMA NotedEvaluated ==
  ASSUME BenchmarkInv, NEW r \in Runners, Current(r) \in Ids, NEW noted, Notes(r, noted),
         noted.evaluation # "completed", UNCHANGED <<recaptured, lost, hung>>,
         \A i \in Ids : i # Current(r) =>
           /\ final'[i] = final[i]
           /\ evaluation'[i] = evaluation[i]
  PROVE  EvaluatedIsOwn'
BY KeepsEvaluated DEF BenchmarkInv, Notes

LEMMA NoRunInv ==
  ASSUME BenchmarkInv, NEW r \in Runners, NoRun(r), UNCHANGED budget \/ Fault
  PROVE  BenchmarkInv'
<1> USE DEF BenchmarkInv
<1> DEFINE noted == [outcome |-> "runtime_error", evaluation |-> "skipped"]
<1>1. stage[r] = "next" /\ Notes(r, noted)
  BY NoteStep DEF NoRun, Executions
<1>2. UNCHANGED <<lock, plan, row, world, open, hung, unresolved, evaluating, evaluation, recaptured, final, lost>>
  BY DEF NoRun, operationVars, evaluationVars, historyVars
<1>3. /\ Place' /\ HoldsLock' /\ NotOver' /\ NotNoted' /\ OwnTables' /\ OwnCapture'
      /\ LastWords' /\ CaptureFits' /\ ScriptsCapture'
  BY <1>1, <1>2, NotedParts
<1>4. Shape'
  BY <1>1, <1>2, TypeShape, BudgetStep DEF Shape, Notes, Moves, Active
<1>5. EvaluatedIsOwn'
  BY <1>1, <1>2, RunnerAt, NotedEvaluated
<1> QED BY <1>3, <1>4, <1>5, TypeShapeNext

LEMMA RunRaisesInv ==
  ASSUME BenchmarkInv, NEW r \in Runners, RunRaises(r)
  PROVE  BenchmarkInv'
<1> USE DEF BenchmarkInv
<1> DEFINE noted == [outcome |-> "runtime_error", evaluation |-> "skipped"]
<1>1. stage[r] = "running" /\ Notes(r, noted)
  BY NoteStep DEF RunRaises, Executions
<1>2. UNCHANGED <<lock, plan, world, open, hung, unresolved, evaluating, evaluation, recaptured, lost>>
  BY DEF RunRaises, operationVars, evaluationVars
<1>3. Current(r) \in Ids
  BY <1>1, RunnerAt
<1>4. /\ row' \in [Ids -> {None, "running"} \cup Terminal] /\ final' \in [Ids -> Worlds \cup {None}]
      /\ \A i \in Ids : final'[i] = final[i] \/ (i = Current(r) /\ final'[i] = world)
  BY <1>3 DEF RunRaises, TypeOK, Terminal
<1>5. /\ Place' /\ HoldsLock' /\ NotOver' /\ NotNoted' /\ OwnTables' /\ OwnCapture'
      /\ LastWords' /\ CaptureFits' /\ ScriptsCapture'
  BY <1>1, <1>2, <1>4, NotedParts DEF Engaged
<1>6. Shape'
  BY <1>1, <1>2, <1>4, TypeShape, BudgetStep DEF Shape, Notes, Moves, Active, RunRaises
<1>7. EvaluatedIsOwn'
  BY <1>1, <1>2, <1>3, <1>4, NotedEvaluated
<1> QED BY <1>5, <1>6, <1>7, TypeShapeNext

LEMMA SkipEvaluationInv ==
  ASSUME BenchmarkInv, NEW r \in Runners, SkipEvaluation(r)
  PROVE  BenchmarkInv'
<1> USE DEF BenchmarkInv
<1> DEFINE noted == [outcome |-> Outcome(row[Current(r)] = "succeeded"), evaluation |-> "skipped"]
<1>1. stage[r] = "returned" /\ Notes(r, noted)
  <2>1. noted \in Executions
    BY DEF Executions, Outcome
  <2> QED BY <2>1, NoteStep DEF SkipEvaluation
<1>2. UNCHANGED <<lock, plan, row, world, open, hung, unresolved, evaluating, evaluation, recaptured, final, lost,
                  budget>>
  BY DEF SkipEvaluation, operationVars, evaluationVars, historyVars
<1>3. /\ Place' /\ HoldsLock' /\ NotOver' /\ NotNoted' /\ OwnTables' /\ OwnCapture'
      /\ LastWords' /\ CaptureFits' /\ ScriptsCapture'
  BY <1>1, <1>2, NotedParts DEF Engaged
<1>4. Shape'
  BY <1>1, <1>2, TypeShape DEF Shape, Notes, Moves, Active
<1>5. EvaluatedIsOwn'
  BY <1>1, <1>2, RunnerAt, NotedEvaluated
<1> QED BY <1>3, <1>4, <1>5, TypeShapeNext

LEMMA EvaluationRaisesInv ==
  ASSUME BenchmarkInv, NEW r \in Runners, EvaluationRaises(r)
  PROVE  BenchmarkInv'
<1> USE DEF BenchmarkInv
<1> DEFINE noted == [outcome |-> "evaluation_error", evaluation |-> "failed"]
<1>1. stage[r] = "evaluating" /\ Notes(r, noted)
  BY NoteStep DEF EvaluationRaises, Executions
<1>2. UNCHANGED <<lock, plan, row, world, open, hung, unresolved, recaptured, final, lost>>
  BY DEF EvaluationRaises, operationVars, historyVars
<1>3. Current(r) \in Ids /\ evaluating[Current(r)] # None
  BY <1>1, RunnerAt DEF OwnCapture
<1>4. /\ evaluation' \in [Ids -> Evaluations \cup {None}] /\ evaluating' \in [Ids -> Worlds \cup {None}]
      /\ evaluating'[Current(r)] = None
      /\ \A i \in Ids : i # Current(r) => evaluation'[i] = evaluation[i] /\ evaluating'[i] = evaluating[i]
  <2>1. CASE \E oracles \in BOOLEAN : PersistLive(Current(r), oracles)
    BY <1>3, <2>1, PersistStep DEF Persists
  <2>2. CASE evaluating' = [evaluating EXCEPT ![Current(r)] = None] /\ UNCHANGED evaluation
    BY <1>3, <2>2 DEF TypeOK
  <2> QED BY <2>1, <2>2 DEF EvaluationRaises
<1>5. /\ Place' /\ HoldsLock' /\ NotOver' /\ NotNoted' /\ OwnTables' /\ OwnCapture'
      /\ LastWords' /\ CaptureFits' /\ ScriptsCapture'
  BY <1>1, <1>2, <1>4, NotedParts DEF Engaged
<1>6. Shape'
  BY <1>1, <1>2, <1>4, TypeShape, BudgetStep DEF Shape, Notes, Moves, Active, EvaluationRaises
<1>7. EvaluatedIsOwn'
  BY <1>1, <1>2, <1>3, <1>4, NotedEvaluated
<1> QED BY <1>5, <1>6, <1>7, TypeShapeNext

\* The evaluation that counts: what it has captured, and what it reads now, is the run's own.
LEMMA FinishEvaluationInv ==
  ASSUME BenchmarkInv, NEW r \in Runners, FinishEvaluation(r)
  PROVE  BenchmarkInv'
<1> USE DEF BenchmarkInv
<1>1. PICK oracles \in BOOLEAN :
        PersistLive(Current(r), oracles) /\ Note(r, Outcome(ExecutionPassed(r, oracles)), "completed")
  BY DEF FinishEvaluation
<1> DEFINE noted == [outcome |-> Outcome(ExecutionPassed(r, oracles)), evaluation |-> "completed"]
<1>2. stage[r] = "evaluating" /\ Notes(r, noted)
  <2>1. noted \in Executions
    BY DEF Executions, Outcome
  <2> QED BY <1>1, <2>1, NoteStep DEF FinishEvaluation
<1>3. UNCHANGED <<lock, plan, row, world, open, hung, unresolved, recaptured, final, lost, budget>>
  BY DEF FinishEvaluation, operationVars, historyVars
<1>4. Current(r) \in Ids /\ Current(r)[1] = r /\ evaluating[Current(r)] # None
  BY <1>2, RunnerAt DEF OwnCapture
<1>5. Persists(Current(r))
  BY <1>1, <1>4, PersistStep
<1>6. /\ Place' /\ HoldsLock' /\ NotOver' /\ NotNoted' /\ OwnTables' /\ OwnCapture'
      /\ LastWords' /\ CaptureFits' /\ ScriptsCapture'
  BY <1>2, <1>3, <1>5, NotedParts DEF Engaged, Persists
<1>7. Shape'
  BY <1>2, <1>3, <1>5, TypeShape DEF Shape, Notes, Moves, Active, Persists
<1>8. EvaluatedIsOwn'
  <2> DEFINE seen == Foreign(Current(r), evaluating[Current(r)]) \cup Foreign(Current(r), world)
  <2>1. r \notin lost => seen \subseteq Stray
    BY <1>2 DEF OwnCapture, OwnTables, Engaged
  <2>2. seen = {} /\ Current(r) \notin hung =>
          evaluating[Current(r)] = final[Current(r)] /\ world = final[Current(r)]
    BY <1>2, <1>4 DEF CaptureFits, LastWords
  <2> SUFFICES ASSUME NEW i \in Ids, execution'[i] # None, execution'[i].evaluation = "completed",
                      i \notin recaptured
               PROVE  LET now == Foreign(i, evaluation'[i].tickets) \cup Foreign(i, evaluation'[i].mutations)
                      IN  /\ i[1] \notin lost => \A j \in now : j[1] \in Outsiders \cup lost
                          /\ (now = {} /\ i \notin hung) =>
                               evaluation'[i].tickets = final[i] /\ evaluation'[i].mutations = final[i]
    BY <1>3 DEF EvaluatedIsOwn, Foreign
  <2>3. CASE i = Current(r)
    <3>1. evaluation'[i].tickets = evaluating[i] /\ evaluation'[i].mutations = world
      BY <1>5, <2>3 DEF Persists
    <3> QED BY <1>4, <2>1, <2>2, <2>3, <3>1 DEF Stray
  <2>4. CASE i # Current(r)
    <3>1. execution'[i] = execution[i] /\ evaluation'[i] = evaluation[i]
      BY <1>2, <1>5, <2>4 DEF Notes, Persists
    <3> QED BY <3>1 DEF EvaluatedIsOwn
  <2> QED BY <2>3, <2>4
<1> QED BY <1>6, <1>7, <1>8, TypeShapeNext

LEMMA StartEvaluationInv ==
  ASSUME BenchmarkInv, NEW r \in Runners, StartEvaluation(r)
  PROVE  BenchmarkInv'
<1> USE DEF BenchmarkInv
<1>1. stage[r] = "returned" /\ Moves(r, "evaluating")
  BY MovesTo DEF StartEvaluation, Stages
<1>2. UNCHANGED <<lock, plan, at, execution, row, world, open, hung, unresolved, evaluation, recaptured, final,
                  lost, budget>>
  BY DEF StartEvaluation, planVars, operationVars, historyVars
<1>3. Current(r) \in Ids /\ Current(r)[1] = r
  BY <1>1, RunnerAt
<1>4. /\ evaluating' \in [Ids -> Worlds \cup {None}] /\ evaluating'[Current(r)] = world
      /\ \A i \in Ids : i # Current(r) => evaluating'[i] = evaluating[i]
  BY <1>3 DEF StartEvaluation, ReadTickets, TypeOK
<1>5. world # None
  BY NamesAssumption DEF TypeOK
<1>6. Shape' /\ Place'
  <2>1. Place'
    BY <1>1, <1>2, PlaceMoves
  <2>2. Shape'
    BY <1>1, <1>2, <1>4, TypeShape DEF Shape, Moves, Active
  <2> QED BY <2>1, <2>2
<1>7. HoldsLock' /\ NotOver' /\ NotNoted'
  BY <1>1, <1>2, KeepsLock, MovesDecide DEF Moves, Active, Engaged
<1>8. OwnTables' /\ LastWords'
  BY <1>1, <1>2, KeepsOwnTables, KeepsLastWords DEF Moves, Engaged
<1>9. OwnCapture' /\ CaptureFits'
  <2>1. \A q \in Runners : Current(q)' = Current(q)
    BY <1>2, SameCurrent
  <2>2. \A q \in Runners : q # r /\ stage[q] \in Engaged => Current(q) # Current(r) /\ Current(q) \in Ids
    BY <1>3, RunnerAt DEF Engaged
  <2>3. OwnCapture'
    <3> SUFFICES ASSUME NEW q \in Runners, stage'[q] = "evaluating"
                 PROVE  /\ evaluating'[Current(q)] # None
                        /\ q \notin lost => Foreign(Current(q), evaluating'[Current(q)]) \subseteq Stray
      BY <1>2, <2>1 DEF OwnCapture, Foreign, Stray
    <3>1. CASE q = r
      BY <1>1, <1>4, <1>5, <3>1 DEF OwnTables, Engaged
    <3>2. CASE q # r
      BY <1>1, <1>4, <2>2, <3>2 DEF OwnCapture, Moves, Engaged
    <3> QED BY <3>1, <3>2
  <2>4. CaptureFits'
    <3> SUFFICES ASSUME NEW q \in Runners, stage'[q] \in {"returned", "evaluating"}
                 PROVE  /\ final[Current(q)] # None
                        /\ (/\ stage'[q] = "evaluating" /\ Current(q) \notin hung
                            /\ Foreign(Current(q), evaluating'[Current(q)]) = {}) =>
                              evaluating'[Current(q)] = final[Current(q)]
      BY <1>2, <2>1 DEF CaptureFits, Foreign
    <3>1. CASE q = r
      BY <1>1, <1>3, <1>4, <3>1 DEF CaptureFits, LastWords
    <3>2. CASE q # r
      BY <1>1, <1>4, <2>2, <3>2 DEF CaptureFits, Moves, Engaged
    <3> QED BY <3>1, <3>2
  <2> QED BY <2>3, <2>4
<1>10. ScriptsCapture'
  <2> SUFFICES ASSUME NEW i \in Ids, ByScript(i)'
               PROVE  ByScript(i)
    BY <1>2 DEF ScriptsCapture
  <2>1. i # Current(r) /\ i[1] \in Runners \cup Outsiders /\ Current(i[1])' = Current(i[1])
    BY <1>1, <1>2, <1>3, SameCurrent, IdShape DEF ByScript, Moves
  <2>2. evaluating'[i] = evaluating[i] /\ (i[1] = r => Current(i[1]) # i)
    BY <1>4, <2>1
  <2> QED BY <1>1, <2>1, <2>2 DEF ByScript, Moves
<1>11. EvaluatedIsOwn'
  BY <1>2, KeepsEvaluated
<1> QED BY <1>6, <1>7, <1>8, <1>9, <1>10, <1>11, TypeShapeNext

\* The steps of scripts: no process moves, and no table changes.
LEMMA ScriptParts ==
  ASSUME BenchmarkInv, UNCHANGED <<lock, stage, plan, at, execution, row, world, open, hung, unresolved, final, lost>>,
         NEW i \in Ids, \A j \in Ids : j # i => evaluating'[j] = evaluating[j],
         \A r \in Runners : stage[r] = "evaluating" => Current(r) # i \/ evaluating'[i] = evaluating[i]
  PROVE  Place' /\ HoldsLock' /\ NotOver' /\ NotNoted' /\ OwnTables' /\ OwnCapture' /\ LastWords' /\ CaptureFits'
<1> USE DEF BenchmarkInv
<1>1. Place' /\ HoldsLock' /\ NotOver' /\ NotNoted'
  BY DEF Place, HoldsLock, NotOver, NotNoted, Undecided
<1>2. \A r \in Runners : stage[r] = "evaluating" => evaluating'[Current(r)] = evaluating[Current(r)]
  BY RunnerAt
<1>3. OwnTables' /\ LastWords' /\ OwnCapture'
  BY <1>2, KeepsOwnTables, KeepsLastWords, KeepsOwnCapture
<1>4. CaptureFits'
  BY <1>2, SameCurrent DEF CaptureFits, Foreign
<1> QED BY <1>1, <1>3, <1>4

LEMMA StartScriptInv ==
  ASSUME BenchmarkInv, NEW i \in Ids, NEW capture \in BOOLEAN, StartScript(i, capture)
  PROVE  BenchmarkInv'
<1> USE DEF BenchmarkInv
<1>1. UNCHANGED <<lock, stage, plan, at, execution, row, world, open, hung, unresolved, evaluation, final, lost>>
  BY DEF StartScript, planVars, operationVars, historyVars
<1>2. recaptured' = recaptured \cup {i}
  BY DEF StartScript, StateSource
<1>3. /\ evaluating[i] = None /\ evaluating' \in [Ids -> Worlds \cup {None}]
      /\ \A j \in Ids : j # i => evaluating'[j] = evaluating[j]
  BY DEF StartScript, ReadTickets, TypeOK
<1>4. Place' /\ HoldsLock' /\ NotOver' /\ NotNoted' /\ OwnTables' /\ OwnCapture' /\ LastWords' /\ CaptureFits'
  BY <1>1, <1>3, ScriptParts DEF OwnCapture
<1>5. Shape'
  BY <1>1, <1>2, <1>3, TypeShape, BudgetStep DEF Shape, StartScript
<1>6. ScriptsCapture'
  BY <1>1, <1>2, <1>3, SameCurrent DEF ScriptsCapture, ByScript
<1>7. EvaluatedIsOwn'
  BY <1>1, <1>2, KeepsEvaluated
<1> QED BY <1>4, <1>5, <1>6, <1>7, TypeShapeNext

LEMMA FinishScriptInv ==
  ASSUME BenchmarkInv, NEW i \in Ids, FinishScript(i)
  PROVE  BenchmarkInv'
<1> USE DEF BenchmarkInv
<1>1. UNCHANGED <<lock, stage, plan, at, execution, row, world, open, hung, unresolved, recaptured, final, lost,
                  budget>>
  BY DEF FinishScript, planVars, operationVars, historyVars
<1>2. ByScript(i) /\ i \in recaptured /\ Persists(i)
  <2>1. ByScript(i) /\ i \in recaptured /\ evaluating[i] # None
    BY DEF FinishScript, ScriptsCapture, ByScript
  <2> QED BY <2>1, PersistStep DEF FinishScript
<1>3. Place' /\ HoldsLock' /\ NotOver' /\ NotNoted' /\ OwnTables' /\ OwnCapture' /\ LastWords' /\ CaptureFits'
  <2>1. \A r \in Runners : stage[r] = "evaluating" => Current(r) # i
    BY <1>2, RunnerAt DEF ByScript
  <2> QED BY <1>1, <1>2, <2>1, ScriptParts DEF Persists
<1>4. Shape'
  BY <1>1, <1>2, TypeShape DEF Shape, Persists
<1>5. ScriptsCapture'
  BY <1>1, <1>2, SameCurrent DEF ScriptsCapture, ByScript, Persists
<1>6. EvaluatedIsOwn'
  BY <1>1, <1>2, KeepsEvaluated DEF Persists
<1> QED BY <1>3, <1>4, <1>5, <1>6, TypeShapeNext

LEMMA ReevaluateInv ==
  ASSUME BenchmarkInv, NEW i \in Ids, Reevaluate(i)
  PROVE  BenchmarkInv'
<1> USE DEF BenchmarkInv
<1>1. UNCHANGED <<lock, stage, plan, at, execution, row, world, open, hung, unresolved, evaluating, recaptured,
                  final, lost>>
  BY DEF Reevaluate, planVars, operationVars, historyVars
<1>2. /\ evaluation' \in [Ids -> Evaluations \cup {None}]
      /\ \A j \in Ids : /\ evaluation'[j].tickets = evaluation[j].tickets
                        /\ evaluation'[j].mutations = evaluation[j].mutations
  <2>1. evaluation[i] \in Evaluations
    BY DEF Reevaluate, StateSource, TypeOK
  <2>2. PICK oracles \in BOOLEAN :
          evaluation' = [evaluation EXCEPT ![i].passed = Passed(i, oracles), ![i].source = "persisted"]
    BY DEF Reevaluate
  <2> DEFINE e == [evaluation[i] EXCEPT !.passed = Passed(i, oracles), !.source = "persisted"]
  <2>3. Passed(i, oracles) \in BOOLEAN
    BY DEF Passed
  <2>4. e \in Evaluations /\ e.tickets = evaluation[i].tickets /\ e.mutations = evaluation[i].mutations
    BY <2>1, <2>3 DEF Evaluations
  <2>5. evaluation' = [evaluation EXCEPT ![i] = e]
    BY <2>1, <2>2 DEF TypeOK, Evaluations
  <2> HIDE DEF e
  <2> QED BY <2>4, <2>5 DEF TypeOK
<1>3. Place' /\ HoldsLock' /\ NotOver' /\ NotNoted' /\ OwnTables' /\ OwnCapture' /\ LastWords' /\ CaptureFits'
  BY <1>1, ScriptParts
<1>4. Shape'
  BY <1>1, <1>2, TypeShape, BudgetStep DEF Shape, Reevaluate
<1>5. ScriptsCapture'
  BY <1>1, SameCurrent DEF ScriptsCapture, ByScript
<1>6. EvaluatedIsOwn'
  BY <1>1, <1>2, KeepsEvaluated
<1> QED BY <1>3, <1>4, <1>5, <1>6, TypeShapeNext
-----------------------------------------------------------------------------
(* The theorems.                                                           *)

LEMMA InitInv == Init => BenchmarkInv
<1> SUFFICES ASSUME Init
             PROVE  BenchmarkInv
  OBVIOUS
<1>1. Shape /\ Place
  <2>1. world \in Worlds
    BY DEF Init, Worlds
  <2> QED BY <2>1, BudgetsAssumption DEF Init, Shape, Place, Stages
<1>2. TypeOK
  BY <1>1, TypeShape
<1>3. HoldsLock /\ OwnTables /\ OwnCapture /\ CaptureFits
  BY DEF Init, HoldsLock, OwnTables, OwnCapture, CaptureFits, Active, Engaged
<1>4. NotOver /\ NotNoted /\ LastWords /\ ScriptsCapture /\ EvaluatedIsOwn
  BY DEF Init, NotOver, NotNoted, LastWords, ScriptsCapture, ByScript, EvaluatedIsOwn
<1> QED BY <1>1, <1>2, <1>3, <1>4 DEF BenchmarkInv

LEMMA StepInv == BenchmarkInv /\ [Next]_vars => BenchmarkInv'
<1> SUFFICES ASSUME BenchmarkInv, [Next]_vars
             PROVE  BenchmarkInv'
  OBVIOUS
<1>1. ASSUME NEW r \in Runners, Prepare(r)
      PROVE  BenchmarkInv'
  BY <1>1, PrepareInv DEF Prepare
<1>2. ASSUME NEW o \in Outsiders, PrepareOutside(o)
      PROVE  BenchmarkInv'
  BY <1>2, PrepareInv, NamesAssumption DEF PrepareOutside
<1>3. ASSUME NEW r \in Runners, RunnerStep(r)
      PROVE  BenchmarkInv'
  BY <1>1, <1>3, NoRunInv, TerminateInv, SkipEvaluationInv, FinishEvaluationInv, ReleaseInv
  DEF RunnerStep, ResetRefused
<1>4. CASE \E r \in Runners : \/ Acquire(r) \/ Busy(r) \/ LoseLock(r) \/ Crash(r)
                              \/ RunnerStep(r) \/ StartEvaluation(r)
                              \/ PrepareRaises(r) \/ RunRaises(r) \/ EvaluationRaises(r)
  BY <1>3, <1>4, AcquireInv, BusyInv, LoseLockInv, CrashInv, StartEvaluationInv, NoRunInv, RunRaisesInv,
     EvaluationRaisesInv
  DEF PrepareRaises
<1>5. CASE \/ \E a \in Runners \cup Outsiders : Write(a) \/ Hang(a)
           \/ \E o \in Outsiders : PrepareOutside(o) \/ Terminate(o)
  BY <1>2, <1>5, WriteInv, HangInv, TerminateInv
<1>6. CASE \E i \in Ids : \/ CommitLands(i) \/ CommitDropped(i) \/ Recover(i)
                          \/ \E capture \in BOOLEAN : StartScript(i, capture)
                          \/ FinishScript(i) \/ Reevaluate(i)
  BY <1>6, CommitInv, RecoverInv, StartScriptInv, FinishScriptInv, ReevaluateInv
<1>7. CASE UNCHANGED vars
  <2>1. UNCHANGED <<lock, stage, plan, at, execution, row, world, unresolved, open, evaluating, evaluation, hung,
                    final, lost, recaptured, budget>>
    BY <1>7 DEF vars, planVars, operationVars, evaluationVars, historyVars
  <2> QED BY <2>1 DEF BenchmarkInv, TypeOK, Place, HoldsLock, NotOver, NotNoted, Undecided, OwnTables,
                      Stray, OwnCapture, LastWords, CaptureFits, ScriptsCapture, ByScript, EvaluatedIsOwn, Foreign, Current
<1> QED BY <1>4, <1>5, <1>6, <1>7 DEF Next

\* The inductive invariant: who holds the lock, whose the tables are, and what an evaluation
\* under way has captured (runner.py:745-896, locking.py:95).
THEOREM BenchmarkInvariant == Spec => []BenchmarkInv
BY InitInv, StepInv, PTL DEF Spec

\* Whatever the number of runners, of processes without the lock, of plans and of faults:
\* all variables have their shape, and whoever holds the lock is in the middle of a plan
\* (runner.py, locking.py, evaluator.py).
THEOREM BenchmarkTypes == Spec => []TypeOK
<1>1. BenchmarkInv => TypeOK
  BY DEF BenchmarkInv
<1> QED BY <1>1, BenchmarkInvariant, PTL

\* An evaluation that counts shows what its run has left in the tables, unless somebody
\* without the lock has written to them (runner.py:795-882, locking.py, evaluator.py:66).
THEOREM EvaluationsAreOwn == Spec => []EvaluatedIsOwn
<1>1. BenchmarkInv => EvaluatedIsOwn
  BY DEF BenchmarkInv
<1> QED BY <1>1, BenchmarkInvariant, PTL
-----------------------------------------------------------------------------
(***************************************************************************)
(* The results of an experiment.                                           *)
(***************************************************************************)

\* A run that only its runner has evaluated.
Untouched(i) == i \notin recaptured /\ (evaluation[i] # None => evaluation[i].source = "live")

\* What a runner has noted of a run is what its rows say: the policy of the plan tells
\* whether the verdict is that of the run or that of its evaluation, and a runtime_error may
\* hide a run whose verdict was committed.
Matches(i) ==
  LET noted == execution[i]
  IN  /\ noted.evaluation = "completed" =>
           evaluation[i] # None /\ (noted.outcome = "passed" <=> evaluation[i].passed)
      /\ evaluation[i] # None => noted.evaluation = "completed" \/ noted.outcome = "evaluation_error"
      /\ IF plan[i[1]].policy = "disabled"
         THEN /\ evaluation[i] = None
              /\ noted.outcome = "passed" => row[i] = "succeeded"
              /\ row[i] = "succeeded" => noted.outcome \in {"passed", "runtime_error"}
         ELSE noted.outcome = "passed" => noted.evaluation = "completed"

Agrees(i) ==
  /\ evaluating[i] # None \/ evaluation[i] # None => row[i] \in Terminal
  /\ execution[i] # None /\ execution[i].outcome # "runtime_error" => row[i] \in Terminal
  /\ Untouched(i) => IF execution[i] = None THEN evaluation[i] = None ELSE Matches(i)

\* A run that its runner is done with.
Past(i) == i[2] < at[i[1]] \/ (i[2] = at[i[1]] /\ stage[i[1]] \in {"release", "done"})

RunnerRuns == {i \in Ids : i[1] \in Runners}

RunsAgree ==
  \A i \in RunnerRuns :
    /\ Agrees(i)
    /\ Undecided(i, {"idle", "next"}) => row[i] = None
    /\ Past(i) => execution[i] # None

\* Where a runner is with its current run, and when it may stop.
Progress ==
  \A r \in Runners :
    /\ stage[r] = "running" => row[Current(r)] = "running"
    /\ stage[r] \in {"returned", "evaluating"} => row[Current(r)] \in Terminal
    /\ stage[r] = "evaluating" => plan[r].policy # "disabled"
    /\ stage[r] \in {"release", "done"} =>
         \/ at[r] = PlannedRuns(plan[r])
         \/ plan[r].failFast /\ execution[Current(r)].outcome # "passed"

\* What run_plan has returned is still what the runner has noted.
Returned ==
  DOMAIN result = Runners /\ \A r \in Runners : result[r] # None =>
    stage[r] = "done" /\ result[r] = [t \in SUBSET Tasks(r) |-> Immediate(r, t)]

ResultInv == BenchmarkInv /\ RunsAgree /\ Progress /\ Returned

\* The part of the invariant that is about results.
ResultParts == RunsAgree /\ Progress /\ Returned

\* A run whose row and evaluation stay as they are.
LEMMA AgreesStay ==
  ASSUME NEW i \in Ids, Agrees(i), row'[i] = row[i], execution'[i] = execution[i],
         evaluation'[i] = evaluation[i], evaluating'[i] = evaluating[i] \/ evaluating'[i] = None,
         recaptured \subseteq recaptured', plan'[i[1]] = plan[i[1]] \/ execution[i] = None
  PROVE  Agrees(i)'
<1>1. Untouched(i)' => Untouched(i)
  BY DEF Untouched
<1>2. execution[i] # None /\ Matches(i) => Matches(i)'
  BY DEF Matches
<1> QED BY <1>1, <1>2 DEF Agrees

LEMMA ImmediateStays ==
  ASSUME TypeOK, Place, NEW r \in Runners, stage[r] = "done", plan'[r] = plan[r],
         \A i \in Ids : i[1] = r => execution'[i] = execution[i]
  PROVE  /\ Tasks(r)' = Tasks(r)
         /\ \A tasks : Immediate(r, tasks)' = Immediate(r, tasks)
<1>1. Tasks(r)' = Tasks(r)
  BY DEF Tasks
<1>2. ASSUME NEW tasks
      PROVE  Immediate(r, tasks)' = Immediate(r, tasks)
  <2>1. Planned(r, tasks)' = Planned(r, tasks)
    BY DEF Planned
  <2>2. ASSUME NEW i \in Planned(r, tasks)
        PROVE  execution'[i] = execution[i]
    <3>1. PICK n \in 1..PlannedRuns(plan[r]) : i = <<r, n>>
      BY DEF Planned
    <3>2. i \in Ids
      BY <3>1, RunnerId DEF Place
    <3> QED BY <3>1, <3>2
  <2>3. \A S : {i \in Planned(r, tasks) : execution'[i] # None /\ execution'[i].outcome \in S}
                 = {i \in Planned(r, tasks) : execution[i] # None /\ execution[i].outcome \in S}
    BY <2>2
  <2>4. {i \in Planned(r, tasks) : execution'[i] # None /\ execution'[i].evaluation = "completed"}
          = {i \in Planned(r, tasks) : execution[i] # None /\ execution[i].evaluation = "completed"}
    BY <2>2
  <2> QED BY <2>1, <2>3, <2>4 DEF Immediate
<1> QED BY <1>1, <1>2

LEMMA ReturnedStays ==
  ASSUME TypeOK, Place, Returned, result' = result,
         \A r \in Runners : stage[r] = "done" =>
           /\ stage'[r] = "done" /\ plan'[r] = plan[r]
           /\ \A i \in Ids : i[1] = r => execution'[i] = execution[i]
  PROVE  Returned'
<1> SUFFICES ASSUME NEW r \in Runners, result'[r] # None
             PROVE  /\ stage'[r] = "done"
                    /\ result'[r] = [t \in SUBSET Tasks(r)' |-> Immediate(r, t)']
  BY DEF Returned
<1>1. stage[r] = "done" /\ result[r] = [t \in SUBSET Tasks(r) |-> Immediate(r, t)]
  BY DEF Returned
<1> QED BY <1>1, ImmediateStays

\* Where nobody moves.
LEMMA TablesParts ==
  ASSUME ResultInv, UNCHANGED <<stage, plan, at, execution, result, row>>,
         \A i \in RunnerRuns : Agrees(i)'
  PROVE  ResultParts'
<1> USE DEF ResultInv, BenchmarkInv
<1>1. Returned'
  BY ReturnedStays
<1>2. Progress'
  BY SameCurrent DEF Progress
<1>3. RunsAgree'
  BY DEF RunsAgree, RunnerRuns, Undecided, Past
<1> QED BY <1>1, <1>2, <1>3 DEF ResultParts

\* Where a process moves on, and no run is noted.
LEMMA MovesParts ==
  ASSUME ResultInv, UNCHANGED <<plan, at, execution, result>>,
         NEW a \in Runners \cup Outsiders, NEW s, Moves(a, s), stage[a] # "done" \/ a \in Outsiders,
         s \notin {"idle", "next", "release"}, s = "done" => a \in Outsiders,
         \A i \in RunnerRuns : Agrees(i)',
         \A i \in RunnerRuns : row'[i] = row[i] \/ (a \in Runners /\ i = Current(a)),
         a \in Runners => /\ stage[a] \notin {"idle", "refused"}
                          /\ s = "running" => row'[Current(a)] = "running"
                          /\ s \in {"returned", "evaluating"} => row'[Current(a)] \in Terminal
                          /\ s = "evaluating" => plan[a].policy # "disabled"
  PROVE  ResultParts'
<1> USE DEF ResultInv, BenchmarkInv
<1>1. \A r \in Runners : r # a => stage'[r] = stage[r]
  BY DEF Moves
<1>2. Returned'
  <2>1. \A r \in Runners : stage[r] = "done" => stage'[r] = "done"
    BY <1>1, NamesAssumption
  <2> QED BY <2>1, ReturnedStays
<1>3. Progress'
  <2> SUFFICES ASSUME NEW r \in Runners
               PROVE  /\ stage'[r] = "running" => row'[Current(r)] = "running"
                      /\ stage'[r] \in {"returned", "evaluating"} => row'[Current(r)] \in Terminal
                      /\ stage'[r] = "evaluating" => plan[r].policy # "disabled"
                      /\ stage'[r] \in {"release", "done"} =>
                           \/ at[r] = PlannedRuns(plan[r])
                           \/ plan[r].failFast /\ execution[Current(r)].outcome # "passed"
    BY SameCurrent DEF Progress
  <2>1. CASE r = a
    BY <2>1, NamesAssumption DEF Moves
  <2>2. CASE r # a
    <3>1. stage'[r] = stage[r]
      BY <1>1, <2>2
    <3>2. ASSUME stage[r] \in {"running", "returned", "evaluating"}
          PROVE  row'[Current(r)] = row[Current(r)]
      <4>1. Current(r) \in RunnerRuns /\ Current(r)[1] = r
        BY <3>2, RunnerAt DEF RunnerRuns
      <4>2. a \in Runners => Current(a)[1] = a
        BY DEF Current
      <4> QED BY <2>2, <4>1, <4>2
    <3> QED BY <3>1, <3>2 DEF Progress
  <2> QED BY <2>1, <2>2
<1>4. RunsAgree'
  <2> SUFFICES ASSUME NEW i \in Ids, i[1] \in Runners
               PROVE  /\ Agrees(i)'
                      /\ Undecided(i, {"idle", "next"})' => row'[i] = None
                      /\ Past(i)' => execution'[i] # None
    BY DEF RunsAgree, RunnerRuns
  <2>1. Agrees(i)'
    BY DEF RunnerRuns
  <2>2. Undecided(i, {"idle", "next"})' => row'[i] = None
    <3> SUFFICES ASSUME Undecided(i, {"idle", "next"})'
                 PROVE  row'[i] = None
      OBVIOUS
    <3>1. Undecided(i, {"idle", "next"})
      BY UndecidedMoves
    <3>2. row[i] = None
      BY <3>1 DEF RunsAgree, RunnerRuns
    <3>3. ~(a \in Runners /\ i = Current(a))
      BY RunnerAt DEF Undecided, Moves, TypeOK
    <3> QED BY <3>2, <3>3 DEF RunnerRuns
  <2>3. Past(i)' => execution'[i] # None
    <3>1. Past(i)' => Past(i)
      BY NamesAssumption DEF Past, Moves
    <3> QED BY <3>1 DEF RunsAgree, RunnerRuns
  <2> QED BY <2>1, <2>2, <2>3
<1> QED BY <1>2, <1>3, <1>4 DEF ResultParts

\* Where a runner notes how its run ended.
LEMMA NotesParts ==
  ASSUME ResultInv, NEW r \in Runners, stage[r] \in {"next"} \cup Engaged, NEW noted, Notes(r, noted),
         noted \in Executions, UNCHANGED <<plan, result, recaptured>>,
         \A i \in Ids : i = Current(r) => Agrees(i)',
         \A i \in Ids : i # Current(r) =>
           row'[i] = row[i] /\ evaluation'[i] = evaluation[i] /\ evaluating'[i] = evaluating[i],
         stage'[r] = "release" => at[r] = PlannedRuns(plan[r]) \/ (plan[r].failFast /\ noted.outcome # "passed")
  PROVE  ResultParts'
<1> USE DEF ResultInv, BenchmarkInv
<1>1. stage[r] \notin {"idle", "refused", "done", "release"}
  BY DEF Engaged
<1>2. Current(r) \in Ids /\ Current(r)[1] = r /\ Current(r)[2] = at[r]
  BY <1>1, RunnerAt
<1>3. Returned'
  <2>1. ASSUME NEW q \in Runners, stage[q] = "done"
        PROVE  /\ stage'[q] = "done" /\ plan'[q] = plan[q]
               /\ \A i \in Ids : i[1] = q => execution'[i] = execution[i]
    <3>1. q # r
      BY <1>1, <2>1
    <3> QED BY <1>2, <2>1, <3>1 DEF Notes, Moves
  <2> QED BY <2>1, ReturnedStays
<1>4. Progress'
  <2> SUFFICES ASSUME NEW q \in Runners
               PROVE  /\ stage'[q] = "running" => row'[Current(q)'] = "running"
                      /\ stage'[q] \in {"returned", "evaluating"} => row'[Current(q)'] \in Terminal
                      /\ stage'[q] = "evaluating" => plan[q].policy # "disabled"
                      /\ stage'[q] \in {"release", "done"} =>
                           \/ at'[q] = PlannedRuns(plan[q])
                           \/ plan[q].failFast /\ execution'[Current(q)'].outcome # "passed"
    BY DEF Progress, PlannedRuns
  <2>1. CASE q = r
    <3>1. stage'[q] \in {"next", "release"}
      BY <2>1 DEF Notes
    <3>2. stage'[q] = "release" => at'[q] = at[q] /\ Current(q)' = Current(q)
      BY <2>1 DEF Notes, Current
    <3>3. execution'[Current(r)] = noted
      BY DEF Notes
    <3> QED BY <2>1, <3>1, <3>2, <3>3
  <2>2. CASE q # r
    <3>1. stage'[q] = stage[q] /\ at'[q] = at[q] /\ Current(q)' = Current(q)
      BY <2>2 DEF Notes, Moves, Current
    <3>2. ASSUME stage[q] \notin {"idle", "refused"}
          PROVE  row'[Current(q)] = row[Current(q)] /\ execution'[Current(q)] = execution[Current(q)]
      <4>1. Current(q) \in Ids /\ Current(q) # Current(r)
        BY <1>2, <2>2, <3>2, RunnerAt
      <4> QED BY <4>1 DEF Notes
    <3> QED BY <3>1, <3>2 DEF Progress
  <2> QED BY <2>1, <2>2
<1>5. RunsAgree'
  <2> SUFFICES ASSUME NEW i \in Ids, i[1] \in Runners
               PROVE  /\ Agrees(i)'
                      /\ Undecided(i, {"idle", "next"})' => row'[i] = None
                      /\ Past(i)' => execution'[i] # None
    BY DEF RunsAgree, RunnerRuns
  <2>1. Agrees(i)'
    <3>1. CASE i = Current(r)
      BY <3>1
    <3>2. CASE i # Current(r)
      <4>1. Agrees(i)
        BY DEF RunsAgree, RunnerRuns
      <4>2. execution'[i] = execution[i]
        BY <3>2 DEF Notes
      <4> QED BY <3>2, <4>1, <4>2, AgreesStay
    <3> QED BY <3>1, <3>2
  <2>2. Undecided(i, {"idle", "next"})' => row'[i] = None
    <3>1. Undecided(i, {"idle", "next"})' => Undecided(i, {"idle", "next"}) /\ i # Current(r)
      BY <1>1, UndecidedNotes
    <3> QED BY <3>1 DEF RunsAgree, RunnerRuns
  <2>3. Past(i)' => execution'[i] # None
    <3> SUFFICES ASSUME Past(i)', i # Current(r)
                 PROVE  execution[i] # None
      <4>1. noted # None
        BY NamesAssumption
      <4> QED BY <4>1 DEF Notes
    <3>1. i[2] \in Nat /\ at[r] \in Nat /\ (i[1] = r => i[2] # at[r])
      BY <1>1, RunnerAt, IdShape, NamesAssumption DEF TypeOK
    <3>2. CASE i[1] = r
      <4>1. i[2] < at'[r] \/ (i[2] = at'[r] /\ stage'[r] \in {"release", "done"})
        BY <3>2 DEF Past
      <4>2. i[2] < at[r]
        BY <3>1, <3>2, <4>1 DEF Notes
      <4> QED BY <3>2, <4>2 DEF Past, RunsAgree, RunnerRuns
    <3>3. CASE i[1] # r
      <4>1. Past(i)
        BY <3>3 DEF Past, Notes, Moves
      <4> QED BY <4>1 DEF RunsAgree, RunnerRuns
    <3> QED BY <3>2, <3>3
  <2> QED BY <2>1, <2>2, <2>3
<1> QED BY <1>3, <1>4, <1>5 DEF ResultParts

\* The last thing a runner does with a run ends its plan only for a reason.
LEMMA NoteEnds ==
  ASSUME TypeOK, Place, NEW r \in Runners, stage[r] \notin {"idle", "refused"}, NEW outcome, NEW evaluated,
         Note(r, outcome, evaluated), stage'[r] = "release"
  PROVE  at[r] = PlannedRuns(plan[r]) \/ (plan[r].failFast /\ outcome # "passed")
<1>1. Ends(r, outcome = "passed")
  <2> SUFFICES ASSUME ~Ends(r, outcome = "passed")
               PROVE  stage'[r] = "next"
    OBVIOUS
  <2> QED BY DEF Note, TypeOK
<1> QED BY <1>1 DEF Ends
-----------------------------------------------------------------------------
(* The steps that note nothing.                                            *)

\* A run whose verdict is still to come is not over, and nobody has evaluated it.
LEMMA Unstarted ==
  ASSUME ResultInv, NEW i \in RunnerRuns, row[i] \notin Terminal
  PROVE  /\ evaluating[i] = None /\ evaluation[i] = None
         /\ execution[i] = None \/ execution[i].outcome = "runtime_error"
BY DEF ResultInv, RunsAgree, Agrees

LEMMA AcquireParts ==
  ASSUME ResultInv, NEW r \in Runners, Acquire(r)
  PROVE  ResultParts'
<1> USE DEF ResultInv, BenchmarkInv
<1>1. stage[r] = "idle" /\ at[r] = 0 /\ Moves(r, "next")
  BY MovesTo DEF Acquire, Stages, Place
<1>2. UNCHANGED <<execution, result, row, evaluating, evaluation, recaptured>>
  BY DEF Acquire, operationVars, evaluationVars, historyVars
<1>3. at' \in [Runners -> Nat] /\ at'[r] = 1 /\ \A q \in Runners : q # r => at'[q] = at[q] /\ plan'[q] = plan[q]
  <2>1. PICK p \in Plans[r] : plan' = [plan EXCEPT ![r] = p]
    BY DEF Acquire
  <2> QED BY <2>1 DEF Acquire, TypeOK
<1>4. \A i \in Ids : i[1] = r => execution[i] = None /\ row[i] = None /\ Undecided(i, {"idle", "next"})
  <2> SUFFICES ASSUME NEW i \in Ids, i[1] = r
               PROVE  execution[i] = None /\ row[i] = None /\ Undecided(i, {"idle", "next"})
    OBVIOUS
  <2>1. i[2] > at[r]
    BY <1>1, IdShape, NamesAssumption
  <2> QED BY <2>1 DEF Undecided, NotNoted, RunsAgree, RunnerRuns
<1>5. Returned'
  BY <1>1, <1>2, <1>3, ReturnedStays DEF Moves
<1>6. Progress'
  <2> SUFFICES ASSUME NEW q \in Runners
               PROVE  /\ stage'[q] = "running" => row[Current(q)'] = "running"
                      /\ stage'[q] \in {"returned", "evaluating"} => row[Current(q)'] \in Terminal
                      /\ stage'[q] = "evaluating" => plan'[q].policy # "disabled"
                      /\ stage'[q] \in {"release", "done"} =>
                           \/ at'[q] = PlannedRuns(plan'[q])
                           \/ plan'[q].failFast /\ execution[Current(q)'].outcome # "passed"
    BY <1>2 DEF Progress, PlannedRuns
  <2>1. CASE q = r
    BY <1>1, <2>1 DEF Moves
  <2>2. CASE q # r
    <3>1. stage'[q] = stage[q] /\ at'[q] = at[q] /\ plan'[q] = plan[q] /\ Current(q)' = Current(q)
      BY <1>1, <1>3, <2>2 DEF Moves, Current
    <3> QED BY <3>1 DEF Progress
  <2> QED BY <2>1, <2>2
<1>7. RunsAgree'
  <2> SUFFICES ASSUME NEW i \in Ids, i[1] \in Runners
               PROVE  /\ Agrees(i)'
                      /\ Undecided(i, {"idle", "next"})' => row[i] = None
                      /\ Past(i)' => execution[i] # None
    BY <1>2 DEF RunsAgree, RunnerRuns
  <2>1. Agrees(i)'
    <3>1. plan'[i[1]] = plan[i[1]] \/ execution[i] = None
      BY <1>3, <1>4
    <3> QED BY <1>2, <3>1, AgreesStay DEF RunsAgree, RunnerRuns
  <2>2. CASE i[1] = r
    <3>1. ~Past(i)'
      BY <1>1, <1>3, <2>2, IdShape, NamesAssumption DEF Past, Moves
    <3> QED BY <1>4, <2>1, <2>2, <3>1
  <2>3. CASE i[1] # r
    BY <1>1, <1>3, <2>1, <2>3 DEF Undecided, Past, Moves, RunsAgree, RunnerRuns
  <2> QED BY <2>2, <2>3
<1> QED BY <1>5, <1>6, <1>7 DEF ResultParts

LEMMA ReleaseParts ==
  ASSUME ResultInv, NEW r \in Runners, Release(r)
  PROVE  ResultParts'
<1> USE DEF ResultInv, BenchmarkInv
<1>1. UNCHANGED <<plan, at, execution, row, evaluating, evaluation, recaptured>>
  BY DEF Release, evaluationVars
<1>2. stage[r] = "release"
  BY DEF Release
<1>3. \A i \in RunnerRuns : Agrees(i)'
  BY <1>1, AgreesStay DEF RunsAgree, RunnerRuns
<1>4. CASE lock # r
  <2>1. Moves(r, "unreleased") /\ result' = result
    BY <1>2, <1>4, MovesTo DEF Release, Stages
  <2> QED BY <1>1, <1>2, <1>3, <2>1, MovesParts
<1>5. CASE lock = r
  <2>1. Moves(r, "done") /\ result' = [result EXCEPT ![r] = [t \in SUBSET Tasks(r) |-> Immediate(r, t)]]
    BY <1>2, <1>5, MovesTo DEF Release, Stages
  <2>2. Progress'
    <3>1. \A q \in Runners : stage'[q] = stage[q] \/ (q = r /\ stage'[q] = "done")
      BY <2>1 DEF Moves
    <3> QED BY <1>1, <1>2, <3>1, SameCurrent DEF Progress
  <2>3. RunsAgree'
    <3> SUFFICES ASSUME NEW i \in Ids, i[1] \in Runners
                 PROVE  /\ Agrees(i)'
                        /\ Undecided(i, {"idle", "next"})' => row[i] = None
                        /\ Past(i)' => execution[i] # None
      BY <1>1 DEF RunsAgree, RunnerRuns
    <3>1. Undecided(i, {"idle", "next"})' => Undecided(i, {"idle", "next"})
      BY <1>1, <2>1, UndecidedMoves
    <3>2. Past(i)' => Past(i)
      BY <1>1, <1>2, <2>1 DEF Past, Moves
    <3> QED BY <1>3, <3>1, <3>2 DEF RunsAgree, RunnerRuns
  <2>4. Returned'
    <3> SUFFICES ASSUME NEW q \in Runners, result'[q] # None
                 PROVE  stage'[q] = "done" /\ result'[q] = [t \in SUBSET Tasks(q)' |-> Immediate(q, t)']
      BY <2>1 DEF Returned
    <3>1. Tasks(q)' = Tasks(q) /\ \A t : Immediate(q, t)' = Immediate(q, t)
      BY <1>1 DEF Tasks, Immediate, Planned, PlannedRuns, Expand
    <3>2. DOMAIN result = Runners
      BY DEF Returned
    <3>3. CASE q = r
      BY <2>1, <3>1, <3>2, <3>3 DEF Moves
    <3>4. CASE q # r
      <4>1. result'[q] = result[q] /\ stage'[q] = stage[q]
        BY <2>1, <3>4 DEF Moves
      <4>2. stage[q] = "done" /\ result[q] = [t \in SUBSET Tasks(q) |-> Immediate(q, t)]
        BY <4>1 DEF Returned
      <4> QED BY <3>1, <4>1, <4>2
    <3> QED BY <3>3, <3>4
  <2> QED BY <2>2, <2>3, <2>4 DEF ResultParts
<1> QED BY <1>4, <1>5

\* Steps that leave the runs of the runners alone: no parts of theirs need a look.
LEMMA AloneParts ==
  ASSUME ResultInv, UNCHANGED <<plan, execution, row, evaluating, evaluation>>, recaptured \subseteq recaptured'
  PROVE  \A i \in RunnerRuns : Agrees(i)'
BY AgreesStay DEF ResultInv, RunsAgree, RunnerRuns

LEMMA BusyParts ==
  ASSUME ResultInv, NEW r \in Runners, Busy(r)
  PROVE  ResultParts'
<1> USE DEF ResultInv, BenchmarkInv
<1>1. stage[r] = "idle" /\ Moves(r, "refused")
  BY MovesTo DEF Busy, Stages
<1>2. UNCHANGED <<plan, at, execution, result, row, evaluating, evaluation, recaptured>>
  BY DEF Busy, planVars, evaluationVars
<1>3. \A q \in Runners : stage'[q] = stage[q] \/ (q = r /\ stage'[q] = "refused")
  BY <1>1 DEF Moves
<1>4. Returned'
  BY <1>1, <1>2, <1>3, ReturnedStays
<1>5. Progress'
  BY <1>2, <1>3, SameCurrent DEF Progress
<1>6. RunsAgree'
  <2> SUFFICES ASSUME NEW i \in Ids, i[1] \in Runners
               PROVE  /\ Agrees(i)'
                      /\ Undecided(i, {"idle", "next"})' => row[i] = None
                      /\ Past(i)' => execution[i] # None
    BY <1>2 DEF RunsAgree, RunnerRuns
  <2>1. Agrees(i)'
    BY <1>2, AloneParts DEF RunnerRuns
  <2>2. (Undecided(i, {"idle", "next"})' => Undecided(i, {"idle", "next"})) /\ (Past(i)' => Past(i))
    BY <1>1, <1>2, <1>3, UndecidedMoves DEF Past
  <2> QED BY <2>1, <2>2 DEF RunsAgree, RunnerRuns
<1> QED BY <1>4, <1>5, <1>6 DEF ResultParts

\* The lock, the tables and the operations say nothing about results.
LEMMA WorldParts ==
  ASSUME ResultInv,
         \/ \E r \in Runners : LoseLock(r)
         \/ \E a \in Runners \cup Outsiders : Write(a) \/ Hang(a)
         \/ \E i \in Ids : CommitLands(i) \/ CommitDropped(i) \/ Recover(i)
  PROVE  ResultParts'
<1>1. UNCHANGED <<stage, plan, at, execution, result, row, evaluating, evaluation, recaptured>>
  BY DEF LoseLock, Write, Hang, CommitLands, CommitDropped, Recover, planVars, evaluationVars
<1> QED BY <1>1, AloneParts, TablesParts

\* A step that changes the row of one run of its process, and no evaluation.
LEMMA RowStays ==
  ASSUME ResultInv, UNCHANGED <<plan, execution, evaluating, evaluation, recaptured>>,
         NEW a \in Runners \cup Outsiders, Current(a) \in Ids, Current(a)[1] = a,
         \A i \in Ids : i # Current(a) => row'[i] = row[i],
         a \in Runners => execution[Current(a)] = None /\ row[Current(a)] \notin Terminal
  PROVE  \A i \in RunnerRuns : Agrees(i)' /\ (row'[i] = row[i] \/ (a \in Runners /\ i = Current(a)))
<1> USE DEF ResultInv
<1> SUFFICES ASSUME NEW i \in RunnerRuns
             PROVE  Agrees(i)' /\ (row'[i] = row[i] \/ (a \in Runners /\ i = Current(a)))
  OBVIOUS
<1>1. CASE i = Current(a)
  <2>1. a \in Runners
    BY <1>1 DEF RunnerRuns
  <2>2. execution'[i] = None /\ evaluating'[i] = None /\ evaluation'[i] = None
    BY <1>1, <2>1, Unstarted
  <2> QED BY <1>1, <2>1, <2>2 DEF Agrees
<1>2. CASE i # Current(a)
  BY <1>2, AgreesStay DEF RunsAgree, RunnerRuns
<1> QED BY <1>1, <1>2

LEMMA PrepareParts ==
  ASSUME ResultInv, NEW a \in Runners \cup Outsiders, PrepareRun(a),
         a \in Runners => stage[a] = "next", a \in Outsiders => stage[a] = "idle"
  PROVE  ResultParts'
<1> USE DEF ResultInv, BenchmarkInv
<1>1. UNCHANGED <<plan, at, execution, result, evaluating, evaluation, recaptured>>
  BY DEF PrepareRun, planVars, evaluationVars
<1>2. Current(a) \in Ids /\ Current(a)[1] = a
  BY RunnerAt, OutsiderAt
<1>3. Moves(a, "running") /\ row' = [row EXCEPT ![Current(a)] = "running"]
  BY MovesTo DEF PrepareRun, Stages
<1>4. row'[Current(a)] = "running" /\ \A i \in Ids : i # Current(a) => row'[i] = row[i]
  BY <1>2, <1>3 DEF TypeOK
<1>5. ASSUME a \in Runners
      PROVE  execution[Current(a)] = None /\ row[Current(a)] \notin Terminal
  <2>1. Undecided(Current(a), {"idle", "next"}) /\ Undecided(Current(a), {"next"} \cup Engaged)
    BY <1>5, <1>2, RunnerAt DEF Undecided
  <2>2. execution[Current(a)] = None /\ row[Current(a)] = None
    BY <1>2, <1>5, <2>1 DEF NotNoted, RunsAgree, RunnerRuns
  <2> QED BY <2>2, NamesAssumption
<1> QED BY <1>1, <1>2, <1>3, <1>4, <1>5, RowStays, MovesParts

LEMMA TerminateParts ==
  ASSUME ResultInv, NEW a \in Runners \cup Outsiders, Terminate(a)
  PROVE  ResultParts'
<1> USE DEF ResultInv, BenchmarkInv
<1>1. stage[a] = "running" /\ Moves(a, IF a \in Runners THEN "returned" ELSE "done")
  BY MovesTo DEF Terminate, Stages
<1>2. UNCHANGED <<plan, at, execution, result, evaluating, evaluation, recaptured>>
  BY DEF Terminate, planVars, evaluationVars
<1>3. Current(a) \in Ids /\ Current(a)[1] = a /\ (a \in Runners => Current(a)[2] = at[a])
  BY <1>1, RunnerAt, OutsiderAt
<1>4. row'[Current(a)] \in Terminal /\ \A i \in Ids : i # Current(a) => row'[i] = row[i]
  <2>1. PICK s \in Terminal : row' = [row EXCEPT ![Current(a)] = s]
    BY DEF Terminate
  <2> QED BY <1>3, <2>1 DEF TypeOK
<1>5. ASSUME a \in Runners
      PROVE  execution[Current(a)] = None /\ row[Current(a)] \notin Terminal
  <2>1. Undecided(Current(a), {"next"} \cup Engaged)
    BY <1>1, <1>3, <1>5 DEF Undecided, Engaged
  <2>2. row[Current(a)] = "running"
    BY <1>1, <1>5 DEF Progress
  <2> QED BY <1>3, <2>1, <2>2 DEF NotNoted, Terminal
<1>6. a \in Runners \/ a \in Outsiders
  OBVIOUS
<1>7. \A i \in RunnerRuns : Agrees(i)' /\ (row'[i] = row[i] \/ (a \in Runners /\ i = Current(a)))
  BY <1>2, <1>3, <1>4, <1>5, RowStays
<1> QED BY <1>1, <1>2, <1>4, <1>6, <1>7, NamesAssumption, MovesParts

LEMMA CrashParts ==
  ASSUME ResultInv, NEW r \in Runners, Crash(r)
  PROVE  ResultParts'
<1> USE DEF ResultInv, BenchmarkInv
<1>1. stage[r] \in Active /\ Moves(r, "crashed")
  BY MovesTo DEF Crash, Stages, Active
<1>2. UNCHANGED <<plan, at, execution, result, row, evaluation, recaptured>>
  BY DEF Crash, planVars
<1>3. Current(r) \in Ids
  BY <1>1, RunnerAt DEF Active
<1>4. \A i \in Ids : evaluating'[i] = evaluating[i] \/ evaluating'[i] = None
  BY <1>3 DEF Crash, TypeOK
<1>5. \A i \in RunnerRuns : Agrees(i)'
  BY <1>2, <1>4, AgreesStay DEF RunsAgree, RunnerRuns
<1> QED BY <1>1, <1>2, <1>5, MovesParts DEF Active

LEMMA StartEvaluationParts ==
  ASSUME ResultInv, NEW r \in Runners, StartEvaluation(r)
  PROVE  ResultParts'
<1> USE DEF ResultInv, BenchmarkInv
<1>1. stage[r] = "returned" /\ Moves(r, "evaluating")
  BY MovesTo DEF StartEvaluation, Stages
<1>2. UNCHANGED <<plan, at, execution, result, row, evaluation, recaptured>>
  BY DEF StartEvaluation, planVars
<1>3. Current(r) \in Ids /\ row[Current(r)] \in Terminal /\ plan[r].policy # "disabled"
  BY <1>1, RunnerAt DEF StartEvaluation, ReadTickets, ShouldEvaluate
<1>4. \A i \in Ids : i # Current(r) => evaluating'[i] = evaluating[i]
  BY <1>3 DEF StartEvaluation, ReadTickets, TypeOK
<1>5. ASSUME NEW i \in RunnerRuns
      PROVE  Agrees(i)'
  <2>1. Agrees(i) /\ i \in Ids
    BY DEF RunsAgree, RunnerRuns
  <2>2. CASE i = Current(r)
    <3>1. row'[i] \in Terminal /\ Untouched(i)' = Untouched(i) /\ Matches(i)' = Matches(i)
      BY <1>2, <1>3, <2>2 DEF Untouched, Matches
    <3> QED BY <1>2, <2>1, <3>1 DEF Agrees
  <2>3. CASE i # Current(r)
    BY <1>2, <1>4, <2>1, <2>3, AgreesStay
  <2> QED BY <2>2, <2>3
<1> QED BY <1>1, <1>2, <1>3, <1>5, MovesParts

\* A run that scripts have looked at, or whose stored verdict is theirs, has no verdict to agree with.
LEMMA Touched ==
  ASSUME ResultInv, NEW i \in RunnerRuns, UNCHANGED <<row, execution>>,
         i \in recaptured' \/ (evaluation'[i] # None /\ evaluation'[i].source # "live"),
         evaluating'[i] # None \/ evaluation'[i] # None => row[i] \in Terminal
  PROVE  Agrees(i)'
BY DEF ResultInv, RunsAgree, Agrees, Untouched

LEMMA ScriptsParts ==
  ASSUME ResultInv, NEW i \in Ids, \/ \E capture \in BOOLEAN : StartScript(i, capture)
                                   \/ FinishScript(i) \/ Reevaluate(i)
  PROVE  ResultParts'
<1> USE DEF ResultInv, BenchmarkInv
<1>1. UNCHANGED <<stage, plan, at, execution, result, row>> /\ recaptured \subseteq recaptured'
  BY DEF StartScript, FinishScript, Reevaluate, planVars
<1>2. \A j \in Ids : j # i => evaluating'[j] = evaluating[j] /\ evaluation'[j] = evaluation[j]
  BY DEF StartScript, ReadTickets, FinishScript, PersistLive, Reevaluate, TypeOK
<1>3. ASSUME i \in RunnerRuns
      PROVE  Agrees(i)'
  <2>1. Agrees(i)
    BY <1>3 DEF RunsAgree
  <2>2. CASE \E capture \in BOOLEAN : StartScript(i, capture)
    <3>1. i \in recaptured' /\ row[i] \in Terminal
      BY <2>2 DEF StartScript, StateSource, ReadTickets
    <3> QED BY <1>1, <1>3, <3>1, Touched
  <2>3. CASE FinishScript(i)
    <3>1. i \in recaptured' /\ row[i] \in Terminal
      BY <2>1, <2>3 DEF FinishScript, ScriptsCapture, ByScript, Agrees
    <3> QED BY <1>1, <1>3, <3>1, Touched
  <2>4. CASE Reevaluate(i)
    <3>1. evaluation[i] # None /\ row[i] \in Terminal
      BY <2>1, <2>4 DEF Reevaluate, StateSource, Agrees
    <3>2. evaluation'[i] # None /\ evaluation'[i].source = "persisted"
      <4>1. PICK oracles \in BOOLEAN :
              evaluation' = [evaluation EXCEPT ![i].passed = Passed(i, oracles), ![i].source = "persisted"]
        BY <2>4 DEF Reevaluate
      <4> DEFINE e == [evaluation[i] EXCEPT !.passed = Passed(i, oracles), !.source = "persisted"]
      <4>2. Passed(i, oracles) \in BOOLEAN /\ evaluation[i] \in Evaluations
        BY <3>1 DEF Passed, TypeOK
      <4>3. e \in Evaluations /\ e.source = "persisted" /\ evaluation'[i] = e
        BY <4>1, <4>2 DEF Evaluations, TypeOK
      <4> QED BY <4>3, NamesAssumption
    <3> QED BY <1>1, <1>3, <3>1, <3>2, Touched
  <2> QED BY <2>2, <2>3, <2>4
<1>4. \A j \in RunnerRuns : Agrees(j)'
  BY <1>1, <1>2, <1>3, AgreesStay DEF RunsAgree, RunnerRuns
<1> QED BY <1>1, <1>4, TablesParts
-----------------------------------------------------------------------------
(* The steps that note how a run ended.                                    *)

LEMMA NoRunParts ==
  ASSUME ResultInv, NEW r \in Runners, NoRun(r)
  PROVE  ResultParts'
<1> USE DEF ResultInv, BenchmarkInv
<1> DEFINE noted == [outcome |-> "runtime_error", evaluation |-> "skipped"]
<1>1. stage[r] = "next" /\ noted \in Executions /\ Notes(r, noted) /\ Note(r, "runtime_error", "skipped")
  BY NoteStep DEF NoRun, Executions
<1>2. UNCHANGED <<plan, result, row, evaluating, evaluation, recaptured>>
  BY DEF NoRun, evaluationVars
<1>3. Current(r) \in RunnerRuns /\ Current(r)[1] = r /\ Current(r)[2] = at[r]
  BY <1>1, RunnerAt DEF RunnerRuns
<1>4. row[Current(r)] \notin Terminal
  <2>1. Undecided(Current(r), {"idle", "next"})
    BY <1>1, <1>3 DEF Undecided
  <2>2. row[Current(r)] = None
    BY <1>3, <2>1 DEF RunsAgree
  <2> QED BY <2>2, NamesAssumption
<1>5. \A i \in Ids : i = Current(r) => Agrees(i)'
  <2>1. execution'[Current(r)] = noted
    BY <1>1 DEF Notes
  <2>2. evaluating[Current(r)] = None /\ evaluation[Current(r)] = None
    BY <1>3, <1>4, Unstarted
  <2> QED BY <1>2, <1>4, <2>1, <2>2 DEF Agrees, Matches, Terminal
<1> QED BY <1>1, <1>2, <1>5, NoteEnds, NotesParts

LEMMA RunRaisesParts ==
  ASSUME ResultInv, NEW r \in Runners, RunRaises(r)
  PROVE  ResultParts'
<1> USE DEF ResultInv, BenchmarkInv
<1> DEFINE noted == [outcome |-> "runtime_error", evaluation |-> "skipped"]
<1>1. stage[r] = "running" /\ noted \in Executions /\ Notes(r, noted) /\ Note(r, "runtime_error", "skipped")
  BY NoteStep DEF RunRaises, Executions
<1>2. UNCHANGED <<plan, result, evaluating, evaluation, recaptured>>
  BY DEF RunRaises, evaluationVars
<1>3. Current(r) \in RunnerRuns /\ row[Current(r)] = "running"
  BY <1>1, RunnerAt DEF RunnerRuns, Progress
<1>4. row'[Current(r)] \in {"running"} \cup Terminal /\ \A i \in Ids : i # Current(r) => row'[i] = row[i]
  BY <1>3 DEF RunRaises, TypeOK, RunnerRuns
<1>5. \A i \in Ids : i = Current(r) => Agrees(i)'
  <2>1. execution'[Current(r)] = noted
    BY <1>1 DEF Notes
  <2>2. evaluating[Current(r)] = None /\ evaluation[Current(r)] = None
    BY <1>3, Unstarted DEF Terminal
  <2> QED BY <1>2, <1>4, <2>1, <2>2 DEF Agrees, Matches
<1> QED BY <1>1, <1>2, <1>4, <1>5, NoteEnds, NotesParts DEF Engaged

\* A runner whose run has returned has not noted anything of it yet.
LEMMA ReturnedRun ==
  ASSUME ResultInv, NEW r \in Runners, stage[r] \in {"returned", "evaluating"}
  PROVE  /\ Current(r) \in RunnerRuns /\ Current(r)[1] = r
         /\ row[Current(r)] \in Terminal
         /\ Untouched(Current(r)) => evaluation[Current(r)] = None
         /\ plan[r].policy \in {"always", "succeeded_only", "disabled"}
<1> USE DEF ResultInv, BenchmarkInv
<1>1. Current(r) \in RunnerRuns /\ Current(r)[1] = r /\ Current(r)[2] = at[r]
  BY RunnerAt DEF RunnerRuns
<1>2. execution[Current(r)] = None
  <2>1. Undecided(Current(r), {"next"} \cup Engaged)
    BY <1>1 DEF Undecided, Engaged
  <2> QED BY <1>1, <2>1 DEF NotNoted, RunnerRuns
<1>3. plan[r] \in RunPlans
  BY PlansAssumption DEF Place
<1>4. plan[r].policy \in {"always", "succeeded_only", "disabled"}
  BY <1>3 DEF RunPlans
<1> QED BY <1>1, <1>2, <1>4 DEF Progress, RunsAgree, Agrees

LEMMA SkipEvaluationParts ==
  ASSUME ResultInv, NEW r \in Runners, SkipEvaluation(r)
  PROVE  ResultParts'
<1> USE DEF ResultInv, BenchmarkInv
<1> DEFINE noted == [outcome |-> Outcome(row[Current(r)] = "succeeded"), evaluation |-> "skipped"]
<1>1. /\ stage[r] = "returned" /\ noted \in Executions /\ Notes(r, noted)
      /\ Note(r, Outcome(row[Current(r)] = "succeeded"), "skipped")
  <2>1. noted \in Executions
    BY DEF Executions, Outcome
  <2> QED BY <2>1, NoteStep DEF SkipEvaluation
<1>2. UNCHANGED <<plan, result, row, evaluating, evaluation, recaptured>> /\ ~ShouldEvaluate(r)
  BY DEF SkipEvaluation, evaluationVars
<1>3. \A i \in Ids : i = Current(r) => Agrees(i)'
  <2>1. execution'[Current(r)] = noted
    BY <1>1 DEF Notes
  <2>2. plan[r].policy # "always" /\ (plan[r].policy = "succeeded_only" => row[Current(r)] # "succeeded")
    BY <1>2 DEF ShouldEvaluate
  <2>3. noted.evaluation = "skipped" /\ (noted.outcome = "passed" <=> row[Current(r)] = "succeeded")
    BY DEF Outcome
  <2> HIDE DEF noted
  <2>4. Untouched(Current(r)) => evaluation[Current(r)] = None
    BY <1>1, ReturnedRun
  <2>5. row[Current(r)] \in Terminal /\ Current(r)[1] = r
    BY <1>1, ReturnedRun
  <2>6. \A i \in Ids : i = Current(r) /\ Untouched(i)' => evaluation[i] = None
    BY <1>2, <2>4 DEF Untouched
  <2>7. plan[r].policy \in {"always", "succeeded_only", "disabled"}
    BY <1>1, ReturnedRun
  <2>8. noted # None
    BY <1>1, NamesAssumption
  <2> SUFFICES ASSUME NEW i \in Ids, i = Current(r)
               PROVE  Agrees(i)'
    OBVIOUS
  <2>9. Untouched(i)' => Matches(i)'
    BY <1>2, <2>1, <2>2, <2>3, <2>5, <2>6, <2>7 DEF Matches
  <2> QED BY <1>2, <2>1, <2>5, <2>8, <2>9 DEF Agrees
<1> QED BY <1>1, <1>2, <1>3, NoteEnds, NotesParts DEF Engaged

\* What a live evaluation stores.
LEMMA Stored ==
  ASSUME TypeOK, NEW i \in Ids, NEW oracles \in BOOLEAN, evaluating[i] # None, PersistLive(i, oracles)
  PROVE  /\ evaluation'[i] # None /\ evaluation'[i].passed = Passed(i, oracles)
         /\ \A j \in Ids : j # i => evaluation'[j] = evaluation[j] /\ evaluating'[j] = evaluating[j]
<1> DEFINE e == [tickets |-> evaluating[i], mutations |-> world, passed |-> Passed(i, oracles),
                 source |-> "live"]
<1>1. Passed(i, oracles) \in BOOLEAN
  BY DEF Passed
<1>2. e \in Evaluations /\ e.passed = Passed(i, oracles)
  BY <1>1 DEF Evaluations, TypeOK
<1>3. evaluation' = [evaluation EXCEPT ![i] = e] /\ evaluating' = [evaluating EXCEPT ![i] = None]
  BY DEF PersistLive
<1> HIDE DEF e
<1> QED BY <1>2, <1>3, NamesAssumption DEF TypeOK

LEMMA FinishEvaluationParts ==
  ASSUME ResultInv, NEW r \in Runners, FinishEvaluation(r)
  PROVE  ResultParts'
<1> USE DEF ResultInv, BenchmarkInv
<1>1. stage[r] = "evaluating" /\ UNCHANGED <<plan, result, row, recaptured>>
  BY DEF FinishEvaluation
<1>2. PICK oracles \in BOOLEAN : /\ PersistLive(Current(r), oracles)
                                 /\ Note(r, Outcome(ExecutionPassed(r, oracles)), "completed")
  BY DEF FinishEvaluation
<1> DEFINE noted == [outcome |-> Outcome(ExecutionPassed(r, oracles)), evaluation |-> "completed"]
<1>3. noted \in Executions /\ noted.evaluation = "completed"
      /\ (noted.outcome = "passed" <=> Passed(Current(r), oracles))
  BY DEF Executions, Outcome, ExecutionPassed, Passed
<1>4. Notes(r, noted)
  BY <1>1, <1>2, <1>3, NoteStep
<1>5. /\ evaluation'[Current(r)] # None /\ evaluation'[Current(r)].passed = Passed(Current(r), oracles)
      /\ \A i \in Ids : i # Current(r) => evaluation'[i] = evaluation[i] /\ evaluating'[i] = evaluating[i]
  BY <1>1, <1>2, Stored, RunnerAt DEF OwnCapture
<1>6. stage'[r] = "release" => at[r] = PlannedRuns(plan[r]) \/ (plan[r].failFast /\ noted.outcome # "passed")
  BY <1>1, <1>2, NoteEnds
<1> HIDE DEF noted
<1>7. \A i \in Ids : i = Current(r) => Agrees(i)'
  <2> SUFFICES ASSUME NEW i \in Ids, i = Current(r)
               PROVE  Agrees(i)'
    OBVIOUS
  <2>1. execution'[i] = noted /\ noted # None
    BY <1>3, <1>4, NamesAssumption DEF Notes
  <2>2. row'[i] \in Terminal /\ plan'[i[1]].policy # "disabled"
    BY <1>1, ReturnedRun DEF Progress
  <2>3. Matches(i)'
    BY <1>3, <1>5, <2>1, <2>2 DEF Matches
  <2> QED BY <2>1, <2>2, <2>3 DEF Agrees
<1> QED BY <1>1, <1>3, <1>4, <1>5, <1>6, <1>7, NotesParts DEF Engaged

LEMMA EvaluationRaisesParts ==
  ASSUME ResultInv, NEW r \in Runners, EvaluationRaises(r)
  PROVE  ResultParts'
<1> USE DEF ResultInv, BenchmarkInv
<1> DEFINE noted == [outcome |-> "evaluation_error", evaluation |-> "failed"]
<1>1. /\ stage[r] = "evaluating" /\ UNCHANGED <<plan, result, row, recaptured>>
      /\ Note(r, "evaluation_error", "failed")
  BY DEF EvaluationRaises
<1>2. noted \in Executions /\ Notes(r, noted)
  BY <1>1, NoteStep DEF Executions
<1>3. Current(r) \in Ids
  BY <1>1, RunnerAt
<1>4. \A i \in Ids : i # Current(r) => evaluation'[i] = evaluation[i] /\ evaluating'[i] = evaluating[i]
  <2>1. CASE \E oracles \in BOOLEAN : PersistLive(Current(r), oracles)
    BY <1>1, <1>3, <2>1, Stored DEF OwnCapture
  <2>2. CASE UNCHANGED evaluation /\ evaluating' = [evaluating EXCEPT ![Current(r)] = None]
    BY <1>3, <2>2 DEF TypeOK
  <2> QED BY <2>1, <2>2 DEF EvaluationRaises
<1>5. \A i \in Ids : i = Current(r) => Agrees(i)'
  <2> SUFFICES ASSUME NEW i \in Ids, i = Current(r)
               PROVE  Agrees(i)'
    OBVIOUS
  <2>1. execution'[i] = noted /\ noted # None
    BY <1>2, NamesAssumption DEF Notes
  <2>2. row'[i] \in Terminal /\ plan'[i[1]].policy # "disabled"
    BY <1>1, ReturnedRun DEF Progress
  <2>3. Matches(i)'
    BY <2>1, <2>2 DEF Matches
  <2> QED BY <2>1, <2>2, <2>3 DEF Agrees
<1> QED BY <1>1, <1>2, <1>4, <1>5, NoteEnds, NotesParts DEF Engaged
-----------------------------------------------------------------------------
LEMMA ResultInit == Init => ResultInv
<1> SUFFICES ASSUME Init
             PROVE  RunsAgree /\ Progress /\ Returned
  BY InitInv DEF ResultInv
<1>1. \A i \in Ids : i[1] \in Runners => i[2] > 0 /\ i[2] \in Nat
  BY IdShape, NamesAssumption
<1>2. RunsAgree
  BY <1>1 DEF Init, RunsAgree, RunnerRuns, Agrees, Past
<1>3. Progress /\ Returned
  BY DEF Init, Progress, Returned
<1> QED BY <1>2, <1>3

LEMMA ResultStep == ResultInv /\ [Next]_vars => ResultInv'
<1> SUFFICES ASSUME ResultInv, [Next]_vars
             PROVE  ResultParts'
  BY StepInv DEF ResultInv, ResultParts
<1>1. ASSUME NEW r \in Runners, RunnerStep(r)
      PROVE  ResultParts'
  BY <1>1, PrepareParts, NoRunParts, TerminateParts, SkipEvaluationParts, FinishEvaluationParts, ReleaseParts,
     NamesAssumption
  DEF RunnerStep, ResetRefused, Prepare
<1>2. CASE \E r \in Runners : \/ Acquire(r) \/ Busy(r) \/ LoseLock(r) \/ Crash(r)
                              \/ RunnerStep(r) \/ StartEvaluation(r)
                              \/ PrepareRaises(r) \/ RunRaises(r) \/ EvaluationRaises(r)
  BY <1>1, <1>2, AcquireParts, BusyParts, WorldParts, CrashParts, StartEvaluationParts, NoRunParts,
     RunRaisesParts, EvaluationRaisesParts
  DEF PrepareRaises
<1>3. CASE \/ \E a \in Runners \cup Outsiders : Write(a) \/ Hang(a)
           \/ \E o \in Outsiders : PrepareOutside(o) \/ Terminate(o)
  BY <1>3, WorldParts, PrepareParts, TerminateParts, NamesAssumption DEF PrepareOutside
<1>4. CASE \E i \in Ids : \/ CommitLands(i) \/ CommitDropped(i) \/ Recover(i)
                          \/ \E capture \in BOOLEAN : StartScript(i, capture)
                          \/ FinishScript(i) \/ Reevaluate(i)
  BY <1>4, WorldParts, ScriptsParts
<1>5. CASE UNCHANGED vars
  <2>1. UNCHANGED <<stage, plan, at, execution, result, row, evaluating, evaluation, recaptured>>
    BY <1>5 DEF vars, planVars, evaluationVars
  <2> QED BY <2>1, AloneParts, TablesParts
<1> QED BY <1>2, <1>3, <1>4, <1>5 DEF Next
-----------------------------------------------------------------------------
(* Counting.                                                               *)

LEMMA CountPart ==
  ASSUME NEW A, NEW B, IsFiniteSet(B), A \subseteq B
  PROVE  IsFiniteSet(A) /\ Cardinality(A) \in Nat /\ Cardinality(B) \in Nat /\ Cardinality(A) <= Cardinality(B)
BY FS_Subset, FS_CardinalityType

LEMMA CountParts ==
  ASSUME NEW A, NEW B, NEW C, IsFiniteSet(B), IsFiniteSet(C), A \subseteq B \cup C
  PROVE  Cardinality(A) <= Cardinality(B) + Cardinality(C)
<1>1. /\ IsFiniteSet(B \cup C) /\ IsFiniteSet(B \cap C)
      /\ Cardinality(B \cup C) = Cardinality(B) + Cardinality(C) - Cardinality(B \cap C)
  BY FS_Union, FS_Subset
<1>2. Cardinality(A) \in Nat /\ Cardinality(A) <= Cardinality(B \cup C)
  BY <1>1, CountPart
<1>3. Cardinality(B) \in Nat /\ Cardinality(C) \in Nat /\ Cardinality(B \cap C) \in Nat
  BY <1>1, FS_CardinalityType
<1> QED BY <1>1, <1>2, <1>3

LEMMA PlannedFinite ==
  ASSUME NEW r, NEW tasks, PlannedRuns(plan[r]) \in Nat
  PROVE  IsFiniteSet(Planned(r, tasks))
<1> DEFINE K == {k \in 1..PlannedRuns(plan[r]) : Expand(plan[r])[k].task \in tasks}
           f == [n \in K |-> <<r, n>>]
<1>1. IsFiniteSet(K)
  <2>1. IsFiniteSet(1..PlannedRuns(plan[r]))
    BY FS_Interval
  <2>2. K \subseteq 1..PlannedRuns(plan[r])
    OBVIOUS
  <2> HIDE DEF K
  <2> QED BY <2>1, <2>2, CountPart
<1>2. Planned(r, tasks) = {<<r, n>> : n \in K}
  BY DEF Planned
<1> HIDE DEF K
<1>3. f \in Surjection(K, Planned(r, tasks))
  BY <1>2 DEF Surjection
<1> QED BY <1>1, <1>3, FS_Surjection

LEMMA CountedFields ==
  ASSUME NEW runs
  PROVE  /\ Counted(runs).executed = Cardinality(runs)
         /\ Counted(runs).terminal = Cardinality({i \in runs : row[i] \in Terminal})
         /\ Counted(runs).succeeded = Cardinality({i \in runs : row[i] = "succeeded"})
         /\ Counted(runs).evaluated = Cardinality({i \in runs : evaluation[i] # None})
         /\ Counted(runs).passed = Cardinality({i \in runs : PersistedPassed(i)})
BY DEF Counted

\* What the rows of a finished experiment say, and what its runner has noted.
LEMMA DoneRuns ==
  ASSUME ResultInv, NEW r \in Runners, stage[r] = "done", NEW i \in Ids, i[1] = r, Untouched(i)
  PROVE  /\ row[i] # None => execution[i] # None
         /\ execution[i] # None /\ execution[i].outcome # "runtime_error" => row[i] \in Terminal
         /\ evaluation[i] # None => row[i] \in Terminal
         /\ execution[i] # None => Matches(i)
         /\ execution[i] = None => i[2] > at[r]
<1>1. i \in RunnerRuns /\ Agrees(i)
  BY DEF RunnerRuns, ResultInv, RunsAgree
<1>2. i[2] \in Nat /\ at[r] \in Nat
  BY IdShape, NamesAssumption DEF ResultInv, BenchmarkInv, TypeOK
<1>3. execution[i] = None => i[2] > at[r]
  <2>1. Past(i) => execution[i] # None
    BY <1>1 DEF ResultInv, RunsAgree
  <2> QED BY <1>2, <2>1 DEF Past
<1>4. execution[i] = None => row[i] = None
  <2>1. Undecided(i, {"idle", "next"}) => row[i] = None
    BY <1>1 DEF ResultInv, RunsAgree
  <2> QED BY <1>3, <2>1 DEF Undecided
<1> QED BY <1>1, <1>3, <1>4 DEF Agrees

\* Of one set of runs: all of an experiment, or those of one task.
LEMMA CountsAgree ==
  ASSUME ResultInv, NEW r \in Runners, result[r] # None, NEW tasks,
         \A i \in Planned(r, tasks) : Untouched(i)
  PROVE  LET now == Immediate(r, tasks)
             stored == Counted(Rows(r, tasks))
         IN  /\ now.executed - now.runtimeErrors <= stored.executed /\ stored.executed <= now.executed
             /\ now.evaluated <= stored.evaluated /\ stored.evaluated <= now.evaluated + now.evaluationErrors
             /\ IF plan[r].policy = "disabled"
                THEN /\ now.passed <= stored.succeeded /\ stored.succeeded <= now.passed + now.runtimeErrors
                     /\ stored.evaluated = 0
                ELSE now.passed <= stored.passed /\ stored.passed <= now.passed + now.evaluationErrors
             /\ stored.passed <= stored.evaluated /\ stored.evaluated <= stored.terminal
             /\ now.executed < Cardinality(Planned(r, tasks)) =>
                  plan[r].failFast /\ \E i \in Ids : i[1] = r /\ execution[i] # None /\ execution[i].outcome # "passed"
<1> DEFINE runs == Planned(r, tasks)
           noted(S) == {i \in runs : execution[i] # None /\ execution[i].outcome \in S}
           all == noted({"passed", "failed", "runtime_error", "evaluation_error"})
           passed == noted({"passed"})
           raised == noted({"runtime_error"})
           unanswered == noted({"evaluation_error"})
           completed == {i \in runs : execution[i] # None /\ execution[i].evaluation = "completed"}
           rows == Rows(r, tasks)
           over == {i \in rows : row[i] \in Terminal}
           succeeded == {i \in rows : row[i] = "succeeded"}
           evaluated == {i \in rows : evaluation[i] # None}
           right == {i \in rows : PersistedPassed(i)}
           now == Immediate(r, tasks)
           stored == Counted(rows)
<1>1. /\ now.executed = Cardinality(all) /\ now.passed = Cardinality(passed)
      /\ now.runtimeErrors = Cardinality(raised) /\ now.evaluationErrors = Cardinality(unanswered)
      /\ now.evaluated = Cardinality(completed)
  BY DEF Immediate
<1>2. /\ stored.executed = Cardinality(rows) /\ stored.terminal = Cardinality(over)
      /\ stored.succeeded = Cardinality(succeeded) /\ stored.evaluated = Cardinality(evaluated)
      /\ stored.passed = Cardinality(right)
  <2> HIDE DEF rows
  <2> QED BY CountedFields
<1>3. /\ stage[r] = "done" /\ plan[r] \in Plans[r] /\ PlannedRuns(plan[r]) \in Nat
      /\ at[r] \in 1..PlannedRuns(plan[r])
  BY PlanRuns DEF ResultInv, Returned, BenchmarkInv, Place
<1>4. ASSUME NEW i \in runs
      PROVE  i \in Ids /\ i[1] = r /\ i[2] \in 1..PlannedRuns(plan[r])
  <2>1. PICK n \in 1..PlannedRuns(plan[r]) : i = <<r, n>>
    BY DEF Planned
  <2> QED BY <1>3, <2>1, RunnerId
<1>5. ASSUME NEW i \in runs
      PROVE  /\ row[i] # None => execution[i] # None
             /\ execution[i] # None /\ execution[i].outcome # "runtime_error" => row[i] \in Terminal
             /\ evaluation[i] # None => row[i] \in Terminal
             /\ execution[i] # None => Matches(i)
             /\ execution[i] = None => i[2] > at[r]
             /\ execution[i] # None =>
                  execution[i].outcome \in {"passed", "failed", "runtime_error", "evaluation_error"}
             /\ i[1] = r
  <2>1. i \in Ids /\ i[1] = r
    BY <1>4
  <2>2. execution[i] # None => execution[i] \in Executions
    BY <2>1 DEF ResultInv, BenchmarkInv, TypeOK
  <2>3. execution[i] # None =>
          execution[i].outcome \in {"passed", "failed", "runtime_error", "evaluation_error"}
    BY <2>2 DEF Executions
  <2> QED BY <1>3, <2>1, <2>3, DoneRuns
<1>6. None \notin Terminal
  BY NamesAssumption
<1>7. /\ all \subseteq rows \cup raised /\ rows \subseteq all /\ completed \subseteq evaluated
      /\ evaluated \subseteq completed \cup unanswered /\ right \subseteq evaluated /\ evaluated \subseteq over
  <2>1. rows = {i \in runs : row[i] # None}
    BY DEF Rows
  <2>2. all \subseteq rows \cup raised
    BY <1>5, <1>6, <2>1
  <2>3. rows \subseteq all
    BY <1>5, <2>1
  <2>4. completed \subseteq evaluated
    BY <1>5, <1>6, <2>1 DEF Matches
  <2>5. evaluated \subseteq completed \cup unanswered
    BY <1>5, <2>1 DEF Matches
  <2>6. right \subseteq evaluated /\ evaluated \subseteq over
    BY <1>5, <2>1 DEF PersistedPassed
  <2> QED BY <2>2, <2>3, <2>4, <2>5, <2>6
<1>8. IF plan[r].policy = "disabled"
      THEN passed \subseteq succeeded /\ succeeded \subseteq passed \cup raised /\ evaluated = {}
      ELSE passed \subseteq right /\ right \subseteq passed \cup unanswered
  <2>1. rows = {i \in runs : row[i] # None}
    BY DEF Rows
  <2>2. CASE plan[r].policy = "disabled"
    <3>1. \A i \in runs : execution[i] # None =>
            /\ evaluation[i] = None
            /\ execution[i].outcome = "passed" => row[i] = "succeeded"
            /\ row[i] = "succeeded" => execution[i].outcome \in {"passed", "runtime_error"}
      BY <1>5, <2>2 DEF Matches
    <3>2. passed \subseteq succeeded
      BY <1>6, <2>1, <3>1 DEF Terminal
    <3>3. succeeded \subseteq passed \cup raised
      BY <1>5, <2>1, <3>1
    <3>4. evaluated = {}
      BY <1>5, <2>1, <3>1
    <3> QED BY <2>2, <3>2, <3>3, <3>4
  <2>3. CASE plan[r].policy # "disabled"
    <3>1. ASSUME NEW i \in passed
          PROVE  i \in right
      <4>1. execution[i] # None /\ execution[i].outcome = "passed" /\ Matches(i)
        BY <1>5
      <4>2. evaluation[i] # None /\ evaluation[i].passed
        BY <1>5, <2>3, <4>1 DEF Matches
      <4> QED BY <1>5, <1>6, <2>1, <4>2 DEF PersistedPassed
    <3>2. ASSUME NEW i \in right
          PROVE  i \in passed \cup unanswered
      <4>1. i \in runs /\ row[i] # None /\ evaluation[i] # None /\ evaluation[i].passed
        BY <2>1 DEF PersistedPassed
      <4>2. execution[i] # None /\ Matches(i)
        BY <1>5, <4>1
      <4>3. execution[i].outcome \in {"passed", "evaluation_error"}
        BY <4>1, <4>2 DEF Matches
      <4> QED BY <4>1, <4>2, <4>3
    <3> QED BY <2>3, <3>1, <3>2
  <2> QED BY <2>2, <2>3
<1>9. all # runs =>
        plan[r].failFast /\ \E i \in Ids : i[1] = r /\ execution[i] # None /\ execution[i].outcome # "passed"
  <2> SUFFICES ASSUME all # runs
               PROVE  plan[r].failFast /\ execution[Current(r)] # None /\ execution[Current(r)].outcome # "passed"
                      /\ Current(r) \in Ids /\ Current(r)[1] = r
    OBVIOUS
  <2>1. PICK i \in runs : execution[i] = None
    BY <1>5
  <2>2. at[r] # PlannedRuns(plan[r])
    BY <1>3, <1>4, <1>5, <2>1
  <2>3. Current(r) \in Ids /\ Current(r)[1] = r /\ Current(r)[2] = at[r]
    BY <1>3, RunnerAt DEF ResultInv, BenchmarkInv
  <2>4. execution[Current(r)] # None
    BY <1>3, <2>3 DEF ResultInv, RunsAgree, RunnerRuns, Past
  <2> QED BY <1>3, <2>2, <2>3, <2>4 DEF ResultInv, Progress
<1>10. IsFiniteSet(runs) /\ all \subseteq runs /\ passed \subseteq runs /\ raised \subseteq runs
       /\ unanswered \subseteq runs /\ completed \subseteq runs /\ rows \subseteq runs /\ over \subseteq runs
       /\ succeeded \subseteq runs /\ evaluated \subseteq runs /\ right \subseteq runs
  BY <1>3, PlannedFinite DEF Rows
<1> HIDE DEF runs, all, passed, raised, unanswered, completed, rows, over, succeeded, evaluated, right, now, stored
<1>11. /\ IsFiniteSet(all) /\ IsFiniteSet(passed) /\ IsFiniteSet(raised) /\ IsFiniteSet(unanswered)
       /\ IsFiniteSet(completed) /\ IsFiniteSet(rows) /\ IsFiniteSet(over) /\ IsFiniteSet(succeeded)
       /\ IsFiniteSet(evaluated) /\ IsFiniteSet(right)
  BY <1>10, CountPart
<1>12. /\ Cardinality(all) \in Nat /\ Cardinality(passed) \in Nat /\ Cardinality(raised) \in Nat
       /\ Cardinality(unanswered) \in Nat /\ Cardinality(completed) \in Nat /\ Cardinality(rows) \in Nat
       /\ Cardinality(over) \in Nat /\ Cardinality(evaluated) \in Nat /\ Cardinality(right) \in Nat
  BY <1>11, FS_CardinalityType
<1>13. now.executed - now.runtimeErrors <= stored.executed /\ stored.executed <= now.executed
  <2>1. Cardinality(all) <= Cardinality(rows) + Cardinality(raised)
    BY <1>7, <1>11, CountParts
  <2>2. Cardinality(rows) <= Cardinality(all)
    BY <1>7, <1>11, CountPart
  <2> QED BY <1>1, <1>2, <1>12, <2>1, <2>2
<1>14. now.evaluated <= stored.evaluated /\ stored.evaluated <= now.evaluated + now.evaluationErrors
  <2>1. Cardinality(completed) <= Cardinality(evaluated)
    BY <1>7, <1>11, CountPart
  <2>2. Cardinality(evaluated) <= Cardinality(completed) + Cardinality(unanswered)
    BY <1>7, <1>11, CountParts
  <2> QED BY <1>1, <1>2, <2>1, <2>2
<1>15. IF plan[r].policy = "disabled"
       THEN /\ now.passed <= stored.succeeded /\ stored.succeeded <= now.passed + now.runtimeErrors
            /\ stored.evaluated = 0
       ELSE now.passed <= stored.passed /\ stored.passed <= now.passed + now.evaluationErrors
  <2>1. CASE plan[r].policy = "disabled"
    <3>1. Cardinality(passed) <= Cardinality(succeeded)
      BY <1>8, <1>11, <2>1, CountPart
    <3>2. Cardinality(succeeded) <= Cardinality(passed) + Cardinality(raised)
      BY <1>8, <1>11, <2>1, CountParts
    <3>3. Cardinality(evaluated) = 0
      BY <1>8, <2>1, FS_EmptySet
    <3> QED BY <1>1, <1>2, <2>1, <3>1, <3>2, <3>3
  <2>2. CASE plan[r].policy # "disabled"
    <3>1. Cardinality(passed) <= Cardinality(right)
      BY <1>8, <1>11, <2>2, CountPart
    <3>2. Cardinality(right) <= Cardinality(passed) + Cardinality(unanswered)
      BY <1>8, <1>11, <2>2, CountParts
    <3> QED BY <1>1, <1>2, <2>2, <3>1, <3>2
  <2> QED BY <2>1, <2>2
<1>16. stored.passed <= stored.evaluated /\ stored.evaluated <= stored.terminal
  BY <1>2, <1>7, <1>11, CountPart
<1>17. now.executed < Cardinality(runs) => all # runs
  BY <1>1, <1>12
<1> QED BY <1>9, <1>13, <1>14, <1>15, <1>16, <1>17 DEF now, stored, runs, rows

LEMMA ResultImplies == ResultInv => ResultsAgree
<1> SUFFICES ASSUME ResultInv
             PROVE  ResultsAgree
  OBVIOUS
<1>1. ASSUME NEW r \in Runners, result[r] # None, NEW tasks \in SUBSET Tasks(r)
      PROVE  result[r][tasks] = Immediate(r, tasks)
  BY <1>1 DEF ResultInv, Returned
<1>2. ASSUME NEW r \in Runners, NEW t \in Tasks(r)
      PROVE  {t} \in SUBSET Tasks(r)
  BY <1>2
<1>3. \A r : Tasks(r) \in SUBSET Tasks(r)
  OBVIOUS
<1> QED BY <1>1, <1>2, <1>3, CountsAgree DEF ResultsAgree, Persisted, TaskAggregate, Untouched

\* The inductive invariant: what a runner has noted of a run is what the rows of the run say
\* (runner.py:795-882, results.py, evaluator.py:66).
THEOREM ResultInvariant == Spec => []ResultInv
BY ResultInit, ResultStep, PTL DEF Spec

\* The result that run_plan returns and the one rebuilt from the database agree, whatever
\* the plans, the faults and the other processes (results.py:1038).
THEOREM ResultsAreTheSame == Spec => []ResultsAgree
BY ResultImplies, ResultInvariant, PTL
=============================================================================
