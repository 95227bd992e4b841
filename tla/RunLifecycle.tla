---------------------------- MODULE RunLifecycle ----------------------------
(***************************************************************************)
(* The life of an AgentRun: AgentRuntime (app/agent/runtime.py) starts,    *)
(* pauses, resumes and finalizes runs, StaleRunReconciler                  *)
(* (app/agent/reconciliation.py) closes what was left behind and releases  *)
(* resume claims that are too old.  An executor is one invocation of the   *)
(* runtime in some process; every transaction on agent_runs locks the row  *)
(* and is one action.  The graph between two transactions is abstracted to *)
(* its tool calls, which matter for what reset and reconciler see.         *)
(*                                                                         *)
(* Timestamps appear as ages, counted in ticks and capped just beyond the  *)
(* only comparison the code makes with them.                               *)
(***************************************************************************)
EXTENDS Integers

CONSTANTS
  Runs,          \* AgentRun ids
  Executors,     \* invocations of AgentRuntime, reused one after the other
  Checkpointing, \* executors whose runtime has a checkpointer_factory
  ModelOf,       \* model_provider and model_name of each executor's runtime
  Forced,        \* runs whose operations an operator passed to --mark-inconclusive
  OlderThan,     \* older_than of the reconciler, in ticks
  MaxSegment,    \* ticks an executor may take from claim or start to its last write
  MaxResumes,    \* bound on the resumes of one run
  Faults         \* what may go wrong, see FaultKinds

\* crash        an executor dies, or leaves by CancelledError
\* ledger_error a tool call leaves its ledger row prepared or running
\* save_error   the transaction that ends a segment raises
FaultKinds == {"crash", "ledger_error", "save_error"}

Models == {ModelOf[e] : e \in Executors}

ASSUME LifecycleAssumption ==
  /\ ModelOf \in [Executors -> Models]
  /\ OlderThan \in Nat \ {0}
  /\ MaxSegment \in Nat
  /\ MaxResumes \in Nat
  /\ Faults \subseteq FaultKinds

VARIABLES
  \* agent_runs: status, checkpoint_ref, model columns, created_at, resume_count
  status, checkpointed, model, runAge, resumeCount,
  \* agent_runs.configuration: paused, resume_in_progress, resume_started_at,
  \* next_nodes
  paused, resuming, leaseAge, pending,
  closed,    \* error_type = stale_run_reconciled
  \* tool_operations of the run: an unknown one, one stranded in prepared/running
  unknown, stranded,
  \* executors
  pc, runOf, verdict, segAge

rowVars    == <<status, checkpointed, model, runAge, resumeCount, closed>>
configVars == <<paused, resuming, leaseAge, pending>>
opVars     == <<unknown, stranded>>
execVars   == <<pc, runOf, verdict, segAge>>

vars == <<status, checkpointed, model, runAge, resumeCount, closed,
          paused, resuming, leaseAge, pending, unknown, stranded,
          pc, runOf, verdict, segAge>>

-----------------------------------------------------------------------------

NoLease == -1
NoModel == "no model"
NoRun   == "no run"

Terminal == {"succeeded", "failed"}

Live(e) == pc[e] \in {"executing", "calling", "ended"}

OnRun(e, r) == Live(e) /\ runOf[e] = r

Unresolved(r) ==
  unknown[r] \/ stranded[r] \/ \E e \in Executors : pc[e] = "calling" /\ runOf[e] = r

TypeOK ==
  /\ status \in [Runs -> {"absent", "running"} \cup Terminal]
  /\ checkpointed \in [Runs -> BOOLEAN]
  /\ model \in [Runs -> Models \cup {NoModel}]
  /\ runAge \in [Runs -> 0 .. OlderThan + 1]
  /\ resumeCount \in [Runs -> 0 .. MaxResumes]
  /\ closed \in [Runs -> BOOLEAN]
  /\ paused \in [Runs -> {"unset", "yes", "no"}]
  /\ resuming \in [Runs -> BOOLEAN]
  /\ leaseAge \in [Runs -> {NoLease} \cup 0 .. OlderThan + 1]
  /\ pending \in [Runs -> BOOLEAN]
  /\ unknown \in [Runs -> BOOLEAN]
  /\ stranded \in [Runs -> BOOLEAN]
  /\ pc \in [Executors -> {"idle", "executing", "calling", "ended", "crashed"}]
  /\ runOf \in [Executors -> Runs \cup {NoRun}]
  /\ \A e \in Executors : Live(e) => runOf[e] \in Runs
  /\ verdict \in [Executors -> {"none", "paused", "exception"} \cup Terminal]
  /\ segAge \in [Executors -> 0 .. MaxSegment]

Init ==
  /\ status = [r \in Runs |-> "absent"]
  /\ checkpointed = [r \in Runs |-> FALSE]
  /\ model = [r \in Runs |-> NoModel]
  /\ runAge = [r \in Runs |-> 0]
  /\ resumeCount = [r \in Runs |-> 0]
  /\ closed = [r \in Runs |-> FALSE]
  /\ paused = [r \in Runs |-> "unset"]
  /\ resuming = [r \in Runs |-> FALSE]
  /\ leaseAge = [r \in Runs |-> NoLease]
  /\ pending = [r \in Runs |-> FALSE]
  /\ unknown = [r \in Runs |-> FALSE]
  /\ stranded = [r \in Runs |-> FALSE]
  /\ pc = [e \in Executors |-> "idle"]
  /\ runOf = [e \in Executors |-> NoRun]
  /\ verdict = [e \in Executors |-> "none"]
  /\ segAge = [e \in Executors |-> 0]

-----------------------------------------------------------------------------
(***************************************************************************)
(* Starting and resuming.                                                  *)
(***************************************************************************)

\* Executor e drives run r from now on.
Engage(e, r) ==
  /\ pc[e] = "idle"
  /\ pc' = [pc EXCEPT ![e] = "executing"]
  /\ runOf' = [runOf EXCEPT ![e] = r]
  /\ segAge' = [segAge EXCEPT ![e] = 0]
  /\ UNCHANGED verdict

\* _prepare_run: the reset it begins with raises while any operation of any run
\* is unresolved; the new row is committed in the same transaction.
Prepare(e, r) ==
  /\ status[r] = "absent"
  /\ \A s \in Runs : ~Unresolved(s)
  /\ Engage(e, r)
  /\ status' = [status EXCEPT ![r] = "running"]
  /\ checkpointed' = [checkpointed EXCEPT ![r] = e \in Checkpointing]
  /\ model' = [model EXCEPT ![r] = ModelOf[e]]
  /\ runAge' = [runAge EXCEPT ![r] = 0]
  /\ UNCHANGED <<resumeCount, closed, configVars, opVars>>

\* Bug: a missing paused key counts as paused.
ResumableUnlessMarked(r) == ~resuming[r] /\ paused[r] # "no"

\* validate_resume_configuration
Resumable(r) == ~resuming[r] /\ paused[r] = "yes" /\ pending[r]

\* _claim_resume
Claim(e, r) ==
  /\ e \in Checkpointing
  /\ status[r] = "running" /\ checkpointed[r]
  /\ Resumable(r)
  /\ model[r] = ModelOf[e]
  /\ resumeCount[r] < MaxResumes
  /\ Engage(e, r)
  /\ resumeCount' = [resumeCount EXCEPT ![r] = @ + 1]
  /\ paused' = [paused EXCEPT ![r] = "no"]
  /\ resuming' = [resuming EXCEPT ![r] = TRUE]
  /\ leaseAge' = [leaseAge EXCEPT ![r] = 0]
  /\ UNCHANGED <<status, checkpointed, model, runAge, closed, pending, opVars>>

-----------------------------------------------------------------------------
(***************************************************************************)
(* The graph.                                                              *)
(***************************************************************************)

BeginTool(e) ==
  /\ pc[e] = "executing"
  /\ pc' = [pc EXCEPT ![e] = "calling"]
  /\ UNCHANGED <<runOf, verdict, segAge, rowVars, configVars, opVars>>

\* The gateway answers; a write that timed out stays unknown in the ledger, a
\* ledger update that raised leaves the row prepared or running.
EndTool(e) ==
  LET r == runOf[e] IN
  /\ pc[e] = "calling"
  /\ pc' = [pc EXCEPT ![e] = "executing"]
  /\ \/ UNCHANGED opVars
     \/ unknown' = [unknown EXCEPT ![r] = TRUE] /\ UNCHANGED stranded
     \/ /\ "ledger_error" \in Faults
        /\ stranded' = [stranded EXCEPT ![r] = TRUE]
        /\ UNCHANGED unknown
  /\ UNCHANGED <<runOf, verdict, segAge, rowVars, configVars>>

\* ainvoke returns a final state or raises; it stops before the tools node
\* only where a checkpointer keeps the state.
GraphEnds(e) ==
  /\ pc[e] = "executing"
  /\ \E v \in {"exception", "paused"} \cup Terminal :
       /\ v = "paused" => e \in Checkpointing
       /\ verdict' = [verdict EXCEPT ![e] = v]
  /\ pc' = [pc EXCEPT ![e] = "ended"]
  /\ UNCHANGED <<runOf, segAge, rowVars, configVars, opVars>>

-----------------------------------------------------------------------------
(***************************************************************************)
(* The transaction that ends a segment.  None of the three checks that the *)
(* executor still owns the run.                                            *)
(***************************************************************************)

Leave(e) ==
  /\ pc[e] = "ended"
  /\ pc' = [pc EXCEPT ![e] = "idle"]
  /\ runOf' = [runOf EXCEPT ![e] = NoRun]
  /\ verdict' = [verdict EXCEPT ![e] = "none"]
  /\ segAge' = [segAge EXCEPT ![e] = 0]

\* Resume markers are cleared if the configuration has any.
ClearMarkers(r) ==
  IF paused[r] = "unset" THEN UNCHANGED configVars
  ELSE /\ paused' = [paused EXCEPT ![r] = "no"]
       /\ resuming' = [resuming EXCEPT ![r] = FALSE]
       /\ leaseAge' = [leaseAge EXCEPT ![r] = NoLease]
       /\ pending' = [pending EXCEPT ![r] = FALSE]

Conclude(r, s) ==
  /\ status' = [status EXCEPT ![r] = s]
  /\ closed' = [closed EXCEPT ![r] = FALSE]
  /\ ClearMarkers(r)
  /\ UNCHANGED <<checkpointed, model, runAge, resumeCount, opVars>>

FinalizeResult(e) ==
  /\ verdict[e] \in Terminal
  /\ Leave(e)
  /\ Conclude(runOf[e], verdict[e])

FinalizeException(e) ==
  /\ verdict[e] = "exception"
  /\ Leave(e)
  /\ Conclude(runOf[e], "failed")

RecordPause(e) ==
  LET r == runOf[e] IN
  /\ verdict[e] = "paused"
  /\ Leave(e)
  /\ status' = [status EXCEPT ![r] = "running"]
  /\ closed' = [closed EXCEPT ![r] = FALSE]
  /\ paused' = [paused EXCEPT ![r] = "yes"]
  /\ resuming' = [resuming EXCEPT ![r] = FALSE]
  /\ leaseAge' = [leaseAge EXCEPT ![r] = NoLease]
  /\ pending' = [pending EXCEPT ![r] = TRUE]
  /\ UNCHANGED <<checkpointed, model, runAge, resumeCount, opVars>>

\* The transaction raises out of the runtime and the row stays as it was.
SaveFails(e) ==
  /\ "save_error" \in Faults
  /\ Leave(e)
  /\ UNCHANGED <<rowVars, configVars, opVars>>

\* The executor is gone; the ledger row of a call it was in keeps its status.
Crash(e) ==
  LET r == runOf[e] IN
  /\ "crash" \in Faults
  /\ Live(e)
  /\ pc' = [pc EXCEPT ![e] = "crashed"]
  /\ stranded' = [stranded EXCEPT ![r] = @ \/ pc[e] = "calling"]
  /\ UNCHANGED <<runOf, verdict, segAge, unknown, rowVars, configVars>>

-----------------------------------------------------------------------------
(***************************************************************************)
(* Reconciliation and recovery, started by an operator.                    *)
(***************************************************************************)

\* Bug: the age of the run is not looked at.
StaleAtOnce(r) == status[r] = "running"

\* status = 'running' AND created_at < now - older_than
Stale(r) == status[r] = "running" /\ runAge[r] > OlderThan

\* Bug: resume_started_at survives the release.
ReleaseKeepsLease(r) ==
  /\ paused' = [paused EXCEPT ![r] = "yes"]
  /\ resuming' = [resuming EXCEPT ![r] = FALSE]
  /\ UNCHANGED <<leaseAge, pending>>

ReleaseMarkers(r) ==
  /\ paused' = [paused EXCEPT ![r] = "yes"]
  /\ resuming' = [resuming EXCEPT ![r] = FALSE]
  /\ leaseAge' = [leaseAge EXCEPT ![r] = NoLease]
  /\ UNCHANGED pending

\* Bug: the claim is as old as the run.
ExpiredWithRun(r) == leaseAge[r] # NoLease /\ runAge[r] >= OlderThan

\* resume_started_at <= now - older_than
LeaseExpired(r) == leaseAge[r] # NoLease /\ leaseAge[r] >= OlderThan

\* Bug: a checkpoint_ref is always retained.
RetainAlways(r) == r \notin Runs /\ UNCHANGED vars

ReleaseClaim(r) ==
  /\ Stale(r) /\ checkpointed[r]
  /\ resuming[r] /\ pending[r] /\ LeaseExpired(r)
  /\ ReleaseMarkers(r)
  /\ UNCHANGED <<rowVars, opVars, execVars>>

CloseRow(r) ==
  /\ status' = [status EXCEPT ![r] = "failed"]
  /\ closed' = [closed EXCEPT ![r] = TRUE]
  /\ UNCHANGED <<checkpointed, model, runAge, resumeCount, configVars, execVars>>

\* Bug: only runs with inconclusive operations are closed.
LeaveToReview(r) == r \notin Runs /\ UNCHANGED vars

CloseStale(r) ==
  /\ Stale(r) /\ ~checkpointed[r]
  /\ ~Unresolved(r)
  /\ CloseRow(r)
  /\ UNCHANGED opVars

\* Every unresolved operation is unknown and authorised; they become failed.
CloseInconclusive(r) ==
  /\ Stale(r) /\ ~checkpointed[r]
  /\ r \in Forced /\ unknown[r] /\ ~stranded[r]
  /\ \A e \in Executors : pc[e] = "calling" => runOf[e] # r
  /\ unknown' = [unknown EXCEPT ![r] = FALSE]
  /\ CloseRow(r)
  /\ UNCHANGED stranded

\* The recovery service settles the unknown operations of a run.
RecoverUnknown(r) ==
  /\ unknown[r]
  /\ unknown' = [unknown EXCEPT ![r] = FALSE]
  /\ UNCHANGED <<stranded, rowVars, configVars, execVars>>

-----------------------------------------------------------------------------
(***************************************************************************)
(* Time.                                                                   *)
(***************************************************************************)

Older(age) == IF age > OlderThan THEN age ELSE age + 1

\* No executor outlives MaxSegment: the code leaves this to model and tool
\* timeouts and step budgets.
Tick ==
  /\ \A e \in Executors : Live(e) => segAge[e] < MaxSegment
  /\ segAge' = [e \in Executors |-> IF Live(e) THEN segAge[e] + 1 ELSE segAge[e]]
  /\ runAge' = [r \in Runs |-> IF status[r] = "absent" THEN 0 ELSE Older(runAge[r])]
  /\ leaseAge' = [r \in Runs |-> IF leaseAge[r] = NoLease THEN NoLease
                                                         ELSE Older(leaseAge[r])]
  /\ UNCHANGED <<status, checkpointed, model, resumeCount, closed,
                 paused, resuming, pending, opVars, pc, runOf, verdict>>

Step(e) ==
  \/ BeginTool(e) \/ EndTool(e) \/ GraphEnds(e)
  \/ FinalizeResult(e) \/ FinalizeException(e) \/ RecordPause(e) \/ SaveFails(e)

Next ==
  \/ \E e \in Executors, r \in Runs : Prepare(e, r) \/ Claim(e, r)
  \/ \E e \in Executors : Step(e) \/ Crash(e)
  \/ \E r \in Runs : \/ ReleaseClaim(r) \/ CloseStale(r) \/ CloseInconclusive(r)
                     \/ RecoverUnknown(r)
  \/ Tick

Spec == Init /\ [][Next]_vars

-----------------------------------------------------------------------------
(***************************************************************************)
(* Safety.                                                                 *)
(***************************************************************************)

\* At most one executor drives a run: the row lock and resume_in_progress of
\* _claim_resume, together with the age check of the reconciler.
OneExecutor ==
  \A d, e \in Executors :
    Live(d) /\ Live(e) /\ runOf[d] = runOf[e] => d = e

\* The resume markers of configuration agree with each other and with the
\* status, although six transactions write subsets of them.
Coherent(r) ==
  /\ resuming[r] <=> leaseAge[r] # NoLease
  /\ resuming[r] => paused[r] = "no"
  /\ resuming[r] \/ paused[r] = "yes" <=> pending[r]
  /\ pending[r] => status[r] = "running" /\ checkpointed[r]
  /\ paused[r] # "unset" => status[r] # "absent"

MarkersCoherent == \A r \in Runs : Coherent(r)

\* A run the reconciler closed has no executor that could still write to it and
\* no operation left open.
Quiet(r) == status[r] = "failed" /\ ~Unresolved(r) /\ \A e \in Executors : ~OnRun(e, r)

ClosedIsQuiet == \A r \in Runs : closed[r] => Quiet(r)

\* A verdict on a run is final; no finalizer checks the status it overwrites.
VerdictIsFinal ==
  [][\A r \in Runs :
       status[r] \in Terminal => status'[r] = status[r] /\ closed'[r] = closed[r]]_vars

\* A checkpointed run that lost its executor before its first pause is never
\* resumed and never closed: it is not paused, so _claim_resume refuses it, and
\* the reconciler retains it for its checkpoint_ref.
Orphaned(r) ==
  /\ status[r] = "running" /\ checkpointed[r]
  /\ paused[r] = "unset"
  /\ \A e \in Executors : ~OnRun(e, r)

OrphanedForever == [][\A r \in Runs : Orphaned(r) => Orphaned(r)']_vars

(***************************************************************************)
(* The relation between ages that makes the claim safe to release.         *)
(***************************************************************************)

LeaseOutlivesSegment == MaxSegment < OlderThan

Younger(e, r) ==
  /\ status[r] = "running"
  /\ IF resuming[r] THEN leaseAge[r] <= segAge[e]
                    ELSE paused[r] = "unset" /\ runAge[r] <= segAge[e]
  /\ checkpointed[r] <=> e \in Checkpointing

LiveIsYounger == \A e \in Executors : Live(e) => Younger(e, runOf[e])

\* Only an executor whose checkpointer keeps the state ends a segment by a pause.
PausesAreKept == \A e \in Executors : verdict[e] = "paused" => e \in Checkpointing

LeaseInv ==
  /\ TypeOK /\ MarkersCoherent
  /\ OneExecutor /\ LiveIsYounger /\ PausesAreKept /\ ClosedIsQuiet

(***************************************************************************)
(* Runtime and reconciler implement RunOwnership.                          *)
(***************************************************************************)

Nobody == "nobody"

Driven(r) == \E e \in Executors : OnRun(e, r)

Driver(r) == IF Driven(r) THEN CHOOSE e \in Executors : OnRun(e, r) ELSE Nobody

PhaseOf(r) ==
  CASE status[r] = "absent"   -> "new"
    [] status[r] \in Terminal -> "over"
    [] OTHER -> IF Driven(r) THEN "owned" ELSE IF paused[r] = "yes" THEN "paused" ELSE "lost"

Ownership == INSTANCE RunOwnership WITH
  phase <- [r \in Runs |-> PhaseOf(r)],
  owner <- [r \in Runs |-> Driver(r)]

\* As long as segments are shorter than older_than, a run changes hands only
\* when it is paused, or lost and reopened by the reconciler.
KeepsOwnership == Ownership!Spec

(***************************************************************************)
(* Liveness: processes run their coroutines, a graph ends because its      *)
(* steps and tool calls are budgeted, and the operator keeps running the   *)
(* reconciler and the recovery.                                            *)
(***************************************************************************)

Fairness ==
  /\ \A e \in Executors :
       /\ WF_vars(EndTool(e))
       /\ SF_vars(GraphEnds(e))
       /\ WF_vars(FinalizeResult(e) \/ FinalizeException(e) \/ RecordPause(e))
  /\ \A r \in Runs :
       WF_vars(ReleaseClaim(r)) /\ WF_vars(CloseStale(r)) /\ WF_vars(RecoverUnknown(r))
  /\ WF_vars(Tick)

LiveSpec == Spec /\ Fairness

\* Whoever claims a run and dies, the run can be claimed again or is over.
ClaimsExpire == \A r \in Runs : resuming[r] ~> ~resuming[r]

\* A run without checkpoint does not stay running, unless one of its operations
\* is stranded.
AbandonedRunsClose ==
  \A r \in Runs :
    status[r] = "running" /\ ~checkpointed[r] ~> status[r] # "running" \/ stranded[r]
=============================================================================
