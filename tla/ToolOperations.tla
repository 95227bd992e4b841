--------------------------- MODULE ToolOperations ---------------------------
(***************************************************************************)
(* The life of a tool operation: ToolGateway.execute (app/tools/gateway.py) *)
(* over the OperationLedger (app/tools/ledger.py), together with the three  *)
(* services that touch the same rows while calls are in flight: the         *)
(* recovery of unknown operations (app/tools/recovery.py), the reset of the *)
(* business tables (app/benchmark/reset.py) and the part of the stale-run   *)
(* reconciler that closes operations (app/agent/reconciliation.py).         *)
(*                                                                         *)
(* Every database transaction of the code is one action.  The process that *)
(* runs a call may die between two of them.                                *)
(***************************************************************************)
EXTENDS Naturals

CONSTANTS
  Calls,        \* invocations of ToolGateway.execute, each used once
  Runs,         \* AgentRun ids
  Keys,         \* idempotency keys
  Requests,     \* (tool name, arguments) pairs, i.e. what arguments_hash tells apart
  NoRequest,    \* the request column of an operation that does not exist
  Registered,   \* requests whose tool is in the ToolRegistry
  Available,    \* requests whose tool is in context.available_tools
  Permitted,    \* requests whose permissions the context holds
  WellFormed,   \* requests whose arguments pass the tool's arguments_model
  Writes,       \* requests to a tool with read_only = False
  Recoverable,  \* requests to a tool with a recovery handler
  Checkpointed, \* runs with a checkpoint_ref
  Inconclusive, \* operations an operator passed to --mark-inconclusive
  Faults,       \* what the environment may do, see FaultKinds
  MaxResets,    \* bound on the number of business resets
  MaxRecoveries \* bound on the recovery attempts of one operation

\* crash        the process executing a call dies
\* ledger_error a ledger transaction raises, whether or not it took effect
\* commit_lost  COMMIT succeeds on the server and raises at the client
\* late_commit  COMMIT is abandoned by the client and may still take effect
FaultKinds == {"crash", "ledger_error", "commit_lost", "late_commit"}

\* One ledger row per (run_id, idempotency_key).
Ops == Runs \X Keys

RunOf(o) == o[1]

NoOp == << >>

ASSUME OperationAssumption ==
  /\ NoRequest \notin Requests
  /\ Writes \subseteq Requests
  /\ Inconclusive \subseteq Ops
  /\ Faults \subseteq FaultKinds
  /\ MaxResets \in Nat
  /\ MaxRecoveries \in Nat

VARIABLES
  \* tool_operations
  opStatus, opRequest, retryCount, recoveryCount,
  settledBy,    \* who wrote the final status (error_type and recovered_at)
  \* the business tables
  effect,       \* the ticket or mutation row carrying the operation_id exists
  landing,      \* operations with an abandoned COMMIT still on its way
  resets,       \* business resets so far
  \* agent_runs, and a reconciler holding the row of a run
  runStatus, reconciling, snapshot,
  \* the calls
  pc, callOp, callRequest, response, replayed,
  \* history
  executions,   \* times the handler of an operation ended
  commits       \* times a handler's transaction of an operation committed

ledgerVars   == <<opStatus, opRequest, retryCount, recoveryCount, settledBy>>
businessVars == <<effect, landing, resets>>
runVars      == <<runStatus, reconciling, snapshot>>
callVars     == <<pc, callOp, callRequest, response, replayed>>
historyVars  == <<executions, commits>>

vars == <<opStatus, opRequest, retryCount, recoveryCount, settledBy,
          effect, landing, resets, runStatus, reconciling, snapshot,
          pc, callOp, callRequest, response, replayed, executions, commits>>

-----------------------------------------------------------------------------

Unresolved == {"prepared", "running", "unknown"}
Settled    == {"succeeded", "failed", "rejected"}
OpStatus   == {"absent"} \cup Unresolved \cup Settled

\* What a tool can answer.
ToolAnswers == {"succeeded", "rejected", "failed", "timed_out"}

LedgerErrors == {"operation_ledger_error", "operation_ledger_update_error",
                 "operation_ledger_finalize_error"}

Responses ==
  ToolAnswers \cup LedgerErrors \cup
  {"none", "idempotency_key_conflict", "operation_in_progress", "operation_state_unknown"}

\* Where a call stands between two awaits; the calls in Executing created the
\* ledger row of their operation and have not finished with it.
Executing == {"claimed", "running", "committed", "completing"}
CallPc    == {"idle", "done", "crashed"} \cup Executing

Admitted == Requests \cap Registered \cap Available \cap Permitted \cap WellFormed

\* Checks of ToolGateway.execute in their order: registration, the task's tools
\* and permissions reject; a schema error is a failure.
Refusal(q) ==
  IF q \in Registered \cap Available \cap Permitted THEN "failed" ELSE "rejected"

\* _response_from_existing
RecordedResponse(status) ==
  CASE status \in Settled   -> status
    [] status = "unknown"   -> "operation_state_unknown"
    [] OTHER                -> "operation_in_progress"

\* Bug: a timeout is taken for a rollback.
TimeoutIsFailure(q, answer) ==
  IF answer \in {"succeeded", "rejected"} THEN answer ELSE "failed"

\* Bug: the read_only flag of the tool is not consulted.
TimeoutIsAlwaysUnknown(q, answer) ==
  CASE answer = "timed_out"                -> "unknown"
    [] answer \in {"succeeded", "rejected"} -> answer
    [] OTHER                               -> "failed"

\* Bug: only success is told apart.
RejectionIsFailure(q, answer) ==
  CASE answer = "succeeded"                 -> answer
    [] answer = "timed_out" /\ q \in Writes -> "unknown"
    [] OTHER                                -> "failed"

\* _complete: the status the ledger keeps for an answer of the tool.
PersistedStatus(q, answer) ==
  CASE answer \in {"succeeded", "rejected"}        -> answer
    [] answer = "timed_out" /\ q \in Writes        -> "unknown"
    [] OTHER                                       -> "failed"

TypeOK ==
  /\ opStatus \in [Ops -> OpStatus]
  /\ opRequest \in [Ops -> Requests \cup {NoRequest}]
  /\ retryCount \in [Ops -> Nat]
  /\ recoveryCount \in [Ops -> Nat]
  /\ settledBy \in [Ops -> {"none", "gateway", "recovery", "reconciler"}]
  /\ effect \in [Ops -> BOOLEAN]
  /\ landing \subseteq Ops
  /\ resets \in Nat
  /\ runStatus \in [Runs -> {"running", "failed"}]
  /\ reconciling \subseteq Runs
  /\ snapshot \in [Runs -> SUBSET Ops]
  /\ pc \in [Calls -> CallPc]
  /\ callOp \in [Calls -> Ops \cup {NoOp}]
  /\ \A c \in Calls : pc[c] \in Executing => callOp[c] \in Ops
  /\ callRequest \in [Calls -> Requests \cup {NoRequest}]
  /\ response \in [Calls -> Responses]
  /\ replayed \in [Calls -> BOOLEAN]
  /\ executions \in [Ops -> Nat]
  /\ commits \in [Ops -> Nat]

Init ==
  /\ opStatus = [o \in Ops |-> "absent"]
  /\ opRequest = [o \in Ops |-> NoRequest]
  /\ retryCount = [o \in Ops |-> 0]
  /\ recoveryCount = [o \in Ops |-> 0]
  /\ settledBy = [o \in Ops |-> "none"]
  /\ effect = [o \in Ops |-> FALSE]
  /\ landing = {}
  /\ resets = 0
  /\ runStatus = [r \in Runs |-> "running"]
  /\ reconciling = {}
  /\ snapshot = [r \in Runs |-> {}]
  /\ pc = [c \in Calls |-> "idle"]
  /\ callOp = [c \in Calls |-> NoOp]
  /\ callRequest = [c \in Calls |-> NoRequest]
  /\ response = [c \in Calls |-> "none"]
  /\ replayed = [c \in Calls |-> FALSE]
  /\ executions = [o \in Ops |-> 0]
  /\ commits = [o \in Ops |-> 0]

-----------------------------------------------------------------------------
(***************************************************************************)
(* The claim: INSERT ... ON CONFLICT DO NOTHING, then SELECT FOR UPDATE.   *)
(***************************************************************************)

\* The call has an operation and a request from its first transaction on.
Bind(c, o, q) ==
  /\ pc[c] = "idle"
  /\ callOp' = [callOp EXCEPT ![c] = o]
  /\ callRequest' = [callRequest EXCEPT ![c] = q]

\* Bug: an unfinished row, left by a call that may be gone, is claimed again.
ReclaimPrepared(o, q) ==
  /\ opStatus[o] \in {"absent", "prepared", "running"}
  /\ RunOf(o) \notin reconciling
  /\ opStatus' = [opStatus EXCEPT ![o] = "prepared"]
  /\ opRequest' = [opRequest EXCEPT ![o] = q]
  /\ UNCHANGED <<retryCount, recoveryCount, settledBy>>

\* Bug: a failed row is claimed again, because failed is taken for "never happened".
ReclaimFailed(o, q) ==
  /\ opStatus[o] \in {"absent", "failed"}
  /\ RunOf(o) \notin reconciling
  /\ opStatus' = [opStatus EXCEPT ![o] = "prepared"]
  /\ opRequest' = [opRequest EXCEPT ![o] = q]
  /\ UNCHANGED <<retryCount, recoveryCount, settledBy>>

\* The insert checks the foreign key to agent_runs, which waits for a
\* reconciler that holds the run FOR UPDATE.
InsertRow(o, q) ==
  /\ opStatus[o] = "absent"
  /\ RunOf(o) \notin reconciling
  /\ opStatus' = [opStatus EXCEPT ![o] = "prepared"]
  /\ opRequest' = [opRequest EXCEPT ![o] = q]
  /\ UNCHANGED <<retryCount, recoveryCount, settledBy>>

CountRetry(o) ==
  /\ opStatus[o] # "absent"
  /\ retryCount' = [retryCount EXCEPT ![o] = @ + 1]
  /\ UNCHANGED <<opStatus, opRequest, recoveryCount, settledBy>>

Claim(c, o, q) ==
  /\ Bind(c, o, q)
  /\ InsertRow(o, q)
  /\ pc' = [pc EXCEPT ![c] = "claimed"]
  /\ UNCHANGED <<response, replayed, businessVars, runVars, historyVars>>

\* Bug: tool name and arguments_hash are not compared.
ReplayedUnchecked(o, q) == RecordedResponse(opStatus[o])

\* The row exists: a different tool or arguments_hash is a conflict, otherwise
\* the recorded state answers the call.
ReplayedResponse(o, q) ==
  IF opRequest[o] # q THEN "idempotency_key_conflict" ELSE RecordedResponse(opStatus[o])

Replay(c, o, q) ==
  /\ Bind(c, o, q)
  /\ CountRetry(o)
  /\ pc' = [pc EXCEPT ![c] = "done"]
  /\ response' = [response EXCEPT ![c] = ReplayedResponse(o, q)]
  /\ replayed' = [replayed EXCEPT ![c] = TRUE]
  /\ UNCHANGED <<businessVars, runVars, historyVars>>

ClaimFails(c, o, q) ==
  /\ "ledger_error" \in Faults
  /\ Bind(c, o, q)
  /\ \/ InsertRow(o, q)
     \/ CountRetry(o)
     \/ UNCHANGED ledgerVars
  /\ pc' = [pc EXCEPT ![c] = "done"]
  /\ response' = [response EXCEPT ![c] = "operation_ledger_error"]
  /\ UNCHANGED <<replayed, businessVars, runVars, historyVars>>

-----------------------------------------------------------------------------
(***************************************************************************)
(* Admission and execution.  o is the operation of the call.               *)
(***************************************************************************)

SetStatus(o, s) ==
  /\ opStatus' = [opStatus EXCEPT ![o] = s]
  /\ UNCHANGED <<opRequest, retryCount, recoveryCount>>

Answer(c, next, answer) ==
  /\ pc' = [pc EXCEPT ![c] = next]
  /\ response' = [response EXCEPT ![c] = answer]
  /\ UNCHANGED <<callOp, callRequest, replayed>>

Refuse(c) ==
  /\ pc[c] = "claimed"
  /\ callRequest[c] \notin Admitted
  /\ Answer(c, "completing", Refusal(callRequest[c]))
  /\ UNCHANGED <<ledgerVars, businessVars, runVars, historyVars>>

MarkRunning(c) ==
  /\ pc[c] = "claimed"
  /\ callRequest[c] \in Admitted
  /\ SetStatus(callOp[c], "running")
  /\ pc' = [pc EXCEPT ![c] = "running"]
  /\ UNCHANGED <<settledBy, callOp, callRequest, response, replayed,
                 businessVars, runVars, historyVars>>

\* execute returns without finalizing, so the row stays prepared or running.
MarkRunningFails(c) ==
  /\ "ledger_error" \in Faults
  /\ pc[c] = "claimed"
  /\ callRequest[c] \in Admitted
  /\ \/ SetStatus(callOp[c], "running") /\ UNCHANGED settledBy
     \/ UNCHANGED ledgerVars
  /\ Answer(c, "done", "operation_ledger_update_error")
  /\ UNCHANGED <<businessVars, runVars, historyVars>>

\* The business transaction: handler, validation of its result, COMMIT.  A
\* write whose operation_id already left a row returns that row.
HandlerCommits(c) ==
  LET o == callOp[c] IN
  /\ pc[c] = "running"
  /\ pc' = [pc EXCEPT ![c] = "committed"]
  /\ executions' = [executions EXCEPT ![o] = @ + 1]
  /\ commits' = [commits EXCEPT ![o] = @ + 1]
  /\ effect' = [effect EXCEPT ![o] = callRequest[c] \in Writes]
  /\ UNCHANGED <<landing, resets, callOp, callRequest, response, replayed,
                 ledgerVars, runVars>>

\* A business error, an invalid result, any other exception or the timeout
\* leaves session.begin() by an exception: the transaction rolls back.
HandlerFails(c) ==
  LET o == callOp[c] IN
  /\ pc[c] = "running"
  /\ \E answer \in {"failed", "timed_out"} : Answer(c, "completing", answer)
  /\ executions' = [executions EXCEPT ![o] = @ + 1]
  /\ UNCHANGED <<commits, ledgerVars, businessVars, runVars>>

\* The timeout or a lost connection abandons a COMMIT already sent.
AbandonCommit(c) ==
  LET o == callOp[c] IN
  /\ "late_commit" \in Faults
  /\ pc[c] = "running"
  /\ \E answer \in {"failed", "timed_out"} : Answer(c, "completing", answer)
  /\ executions' = [executions EXCEPT ![o] = @ + 1]
  /\ landing' = landing \cup {o}
  /\ UNCHANGED <<commits, effect, resets, ledgerVars, runVars>>

CommitLands(o) ==
  /\ o \in landing
  /\ landing' = landing \ {o}
  /\ commits' = [commits EXCEPT ![o] = @ + 1]
  /\ effect' = [effect EXCEPT ![o] = opRequest[o] \in Writes]
  /\ UNCHANGED <<resets, executions, ledgerVars, runVars, callVars>>

CommitDropped(o) ==
  /\ o \in landing
  /\ landing' = landing \ {o}
  /\ UNCHANGED <<effect, resets, ledgerVars, runVars, callVars, historyVars>>

ResultArrives(c) ==
  /\ pc[c] = "committed"
  /\ Answer(c, "completing", "succeeded")
  /\ UNCHANGED <<ledgerVars, businessVars, runVars, historyVars>>

\* TimeoutError after the commit: the injected drop_response_after_commit, or
\* the deadline passing while the reply to COMMIT is awaited.
ResponseLost(c) ==
  /\ pc[c] = "committed"
  /\ Answer(c, "completing", "timed_out")
  /\ UNCHANGED <<ledgerVars, businessVars, runVars, historyVars>>

\* Any other exception raised by COMMIT is answered tool_execution_error.
CommitReplyRaises(c) ==
  /\ "commit_lost" \in Faults
  /\ pc[c] = "committed"
  /\ Answer(c, "completing", "failed")
  /\ UNCHANGED <<ledgerVars, businessVars, runVars, historyVars>>

-----------------------------------------------------------------------------
(***************************************************************************)
(* Completion and crash.                                                   *)
(***************************************************************************)

WriteFinalStatus(o, s) ==
  /\ SetStatus(o, s)
  /\ settledBy' = [settledBy EXCEPT ![o] = IF s \in Settled THEN "gateway" ELSE "none"]

Finalize(c) ==
  /\ pc[c] = "completing"
  /\ WriteFinalStatus(callOp[c], PersistedStatus(callRequest[c], response[c]))
  /\ Answer(c, "done", response[c])
  /\ UNCHANGED <<businessVars, runVars, historyVars>>

FinalizeFails(c) ==
  /\ "ledger_error" \in Faults
  /\ pc[c] = "completing"
  /\ \/ WriteFinalStatus(callOp[c], PersistedStatus(callRequest[c], response[c]))
     \/ UNCHANGED ledgerVars
  /\ Answer(c, "done", "operation_ledger_finalize_error")
  /\ UNCHANGED <<businessVars, runVars, historyVars>>

\* The process dies; an open business transaction is rolled back.
Crash(c) ==
  /\ "crash" \in Faults
  /\ pc[c] \in Executing
  /\ Answer(c, "crashed", "none")
  /\ UNCHANGED <<ledgerVars, businessVars, runVars, historyVars>>

-----------------------------------------------------------------------------
(***************************************************************************)
(* Recovery, reset and reconciliation.                                     *)
(***************************************************************************)

\* Bug: a handler that finds nothing reports success.
RecoveredBlindly(o) == IF opRequest[o] \in Recoverable THEN "succeeded" ELSE "unknown"

\* Bug: an operation that left no row stays unknown.
RecoveredOnlyIfFound(o) ==
  IF opRequest[o] \in Recoverable /\ effect[o] THEN "succeeded" ELSE "unknown"

\* recover_create_ticket and recover_update_ticket look for the row the
\* operation left; without a handler the attempt is only counted.
RecoveredStatus(o) ==
  IF opRequest[o] \notin Recoverable THEN "unknown"
  ELSE IF effect[o] THEN "succeeded" ELSE "failed"

\* Bug: the status check of recover admits more than unknown.
RecoverAnyOf(o, statuses) ==
  /\ opStatus[o] \in statuses
  /\ recoveryCount[o] < MaxRecoveries
  /\ opStatus' = [opStatus EXCEPT ![o] = RecoveredStatus(o)]
  /\ recoveryCount' = [recoveryCount EXCEPT ![o] = @ + 1]
  /\ settledBy' = [settledBy EXCEPT ![o] = "recovery"]
  /\ UNCHANGED <<opRequest, retryCount, businessVars, runVars, callVars, historyVars>>

RecoverFailed(o)  == RecoverAnyOf(o, {"unknown", "failed"})
RecoverRunning(o) == RecoverAnyOf(o, {"unknown", "running"})

Recover(o) ==
  /\ opStatus[o] = "unknown"
  /\ recoveryCount[o] < MaxRecoveries
  /\ opStatus' = [opStatus EXCEPT ![o] = RecoveredStatus(o)]
  /\ recoveryCount' = [recoveryCount EXCEPT ![o] = @ + 1]
  /\ settledBy' = [settledBy EXCEPT ![o] = IF opRequest[o] \in Recoverable
                                           THEN "recovery" ELSE @]
  /\ UNCHANGED <<opRequest, retryCount, businessVars, runVars, callVars, historyVars>>

\* Bug: unknown operations do not block a reset.
ResetDespiteUnknown == \A o \in Ops : opStatus[o] \notin {"prepared", "running"}

\* assert_business_state_reset_safe, then the deletes.  They wait for the row
\* and foreign-key locks of an abandoned COMMIT.
ResetSafe == \A o \in Ops : opStatus[o] \notin Unresolved

Reset ==
  /\ resets < MaxResets
  /\ ResetSafe
  /\ landing = {}
  /\ effect' = [o \in Ops |-> FALSE]
  /\ resets' = resets + 1
  /\ UNCHANGED <<landing, ledgerVars, runVars, callVars, historyVars>>

UnresolvedOf(r) == {o \in Ops : RunOf(o) = r /\ opStatus[o] \in Unresolved}

\* Bug: authorisation is enough, whatever the status.
ClosableByDecree(r) == r \notin Checkpointed /\ UnresolvedOf(r) \subseteq Inconclusive

\* classify_stale_run for a run without checkpoint: close_stale when nothing is
\* unresolved, close_inconclusive when all of it is unknown and authorised.
Closable(r) ==
  /\ r \notin Checkpointed
  /\ \A o \in UnresolvedOf(r) : opStatus[o] = "unknown" /\ o \in Inconclusive

\* The run is locked, its unresolved operations are read without a lock.
ReadStale(r) ==
  /\ r \notin reconciling
  /\ runStatus[r] = "running"
  /\ Closable(r)
  /\ reconciling' = reconciling \cup {r}
  /\ snapshot' = [snapshot EXCEPT ![r] = UnresolvedOf(r)]
  /\ UNCHANGED <<runStatus, ledgerVars, businessVars, callVars, historyVars>>

\* The transaction ends by writing every operation it read.
CloseStale(r) ==
  /\ r \in reconciling
  /\ opStatus' = [o \in Ops |-> IF o \in snapshot[r] THEN "failed" ELSE opStatus[o]]
  /\ settledBy' = [o \in Ops |-> IF o \in snapshot[r] THEN "reconciler" ELSE settledBy[o]]
  /\ recoveryCount' = [o \in Ops |-> IF o \in snapshot[r] THEN recoveryCount[o] + 1
                                                         ELSE recoveryCount[o]]
  /\ runStatus' = [runStatus EXCEPT ![r] = "failed"]
  /\ reconciling' = reconciling \ {r}
  /\ snapshot' = [snapshot EXCEPT ![r] = {}]
  /\ UNCHANGED <<opRequest, retryCount, businessVars, callVars, historyVars>>

-----------------------------------------------------------------------------

BeginCall(c) ==
  \E o \in Ops, q \in Requests : Claim(c, o, q) \/ Replay(c, o, q) \/ ClaimFails(c, o, q)

\* The steps of a call that asyncio drives once the call has begun.
Progress(c) ==
  \/ Refuse(c) \/ MarkRunning(c) \/ MarkRunningFails(c)
  \/ HandlerCommits(c) \/ HandlerFails(c) \/ AbandonCommit(c)
  \/ ResultArrives(c) \/ ResponseLost(c) \/ CommitReplyRaises(c)
  \/ Finalize(c) \/ FinalizeFails(c)

Next ==
  \/ \E c \in Calls : BeginCall(c) \/ Progress(c) \/ Crash(c)
  \/ \E o \in Ops : Recover(o) \/ CommitLands(o) \/ CommitDropped(o)
  \/ \E r \in Runs : ReadStale(r) \/ CloseStale(r)
  \/ Reset

Spec == Init /\ [][Next]_vars

-----------------------------------------------------------------------------
(***************************************************************************)
(* Safety.                                                                 *)
(***************************************************************************)

\* Whatever is retried, duplicated, lost or crashed, the handler of an
\* operation is executed at most once and its transaction commits at most
\* once: retries are answered from the ledger row (gateway.py, claim).
AtMostOnce == \A o \in Ops : executions[o] <= 1 /\ commits[o] <= executions[o]

\* An operation recorded as succeeded, by the gateway or by recovery, really
\* committed its business transaction.
SucceededMeansCommitted ==
  \A o \in Ops : opStatus[o] = "succeeded" => commits[o] = 1

\* The row recovery looks for is not destroyed by a reset while the outcome of
\* its operation is still open (the SHARE lock and the unresolved check of
\* reset.py against gateway, recovery and reconciler).
EvidenceKept ==
  \A o \in Ops :
    opStatus[o] \in Unresolved /\ commits[o] > 0 /\ opRequest[o] \in Writes => effect[o]

\* The verdict recovery writes is the truth, and stays the truth.
RecoveryVerdictIsTrue ==
  \A o \in Ops :
    settledBy[o] = "recovery" => (opStatus[o] = "succeeded" <=> commits[o] = 1)

\* A failed operation left no business effect, unless a reconciler closed it
\* without looking.
FailedMeansNoEffect ==
  \A o \in Ops :
    opStatus[o] = "failed" /\ settledBy[o] # "reconciler" /\ opRequest[o] \in Writes
      => commits[o] = 0

\* What a call learns from the ledger is about its own request: the same key
\* with another tool or other arguments is never answered with a result.
ReplayOnlySameRequest ==
  \A c \in Calls :
    replayed[c] /\ response[c] # "idempotency_key_conflict"
      => callRequest[c] = opRequest[callOp[c]]

\* Two calls of one operation never learn opposite final outcomes.
Final == {"succeeded", "rejected", "failed"}

AnswersAgree ==
  \A c, d \in Calls :
    /\ pc[c] = "done" /\ pc[d] = "done" /\ callOp[c] = callOp[d]
    /\ response[c] \in Final /\ response[d] \in Final
    => response[c] = response[d]

(***************************************************************************)
(* The inductive invariant: one executing call per operation, and what its *)
(* stage says of the row it owns.                                          *)
(***************************************************************************)

OneOwner ==
  \A c, d \in Calls :
    pc[c] \in Executing /\ pc[d] \in Executing /\ callOp[c] = callOp[d] => c = d

Stages ==
  \A c \in Calls :
    /\ pc[c] \in Executing => callRequest[c] = opRequest[callOp[c]]
    /\ pc[c] = "claimed" => opStatus[callOp[c]] = "prepared" /\ executions[callOp[c]] = 0
    /\ pc[c] = "running" => opStatus[callOp[c]] = "running" /\ executions[callOp[c]] = 0
    /\ pc[c] = "committed" => opStatus[callOp[c]] = "running" /\ commits[callOp[c]] = 1
    /\ pc[c] = "completing" =>
         /\ opStatus[callOp[c]] \in {"prepared", "running"}
         /\ response[c] \in ToolAnswers
         /\ response[c] = "succeeded" => commits[callOp[c]] = 1

Rows ==
  \A o \in Ops :
    /\ opStatus[o] = "absent" => executions[o] = 0 /\ opRequest[o] = NoRequest
    /\ opStatus[o] # "absent" => opRequest[o] \in Requests
    /\ opStatus[o] = "unknown" => opRequest[o] \in Writes
    /\ o \in landing => executions[o] = 1 /\ commits[o] = 0
    /\ effect[o] => commits[o] = 1

\* What a reconciler has read may since have been recovered, never revived.
Snapshots ==
  \A r \in Runs : \A o \in snapshot[r] : opStatus[o] \in {"unknown"} \cup Settled

OwnershipInv ==
  /\ TypeOK /\ OneOwner /\ Stages /\ Rows /\ Snapshots
  /\ AtMostOnce /\ SucceededMeansCommitted /\ EvidenceKept

(***************************************************************************)
(* Action properties.                                                      *)
(***************************************************************************)

\* A final status is never rewritten: finalize, recover and the gateway agree
\* on who may write it although none of them checks the old value.
SettledIsFinal ==
  [][\A o \in Ops : opStatus[o] \in Settled => opStatus'[o] = opStatus[o]]_vars

\* An operation left prepared or running by a call that is gone.
Stranded(o) ==
  /\ opStatus[o] \in {"prepared", "running"}
  /\ \A c \in Calls : pc[c] \in Executing => callOp[c] # o

\* Nothing in the code ever resolves a stranded operation, and from then on no
\* business reset goes through: recovery takes only unknown operations, the
\* reconciler leaves the run to manual review, a replay answers
\* operation_in_progress.
StrandedForever ==
  [][\A o \in Ops : Stranded(o) => Stranded(o)' /\ resets' = resets]_vars

\* The reconciler is authorised to close an unknown operation as inconclusive
\* (scripts/reconcile_stale_runs.py, --mark-inconclusive), not another one.
InconclusiveClosesUnknown ==
  [][\A o \in Ops :
       settledBy[o] # "reconciler" /\ settledBy'[o] = "reconciler"
         => opStatus[o] = "unknown"]_vars

(***************************************************************************)
(* The ledger implements OperationPromise as long as no operator forces an *)
(* operation closed.                                                       *)
(***************************************************************************)

\* Only operations with a business effect are promised anything: a read whose
\* reply is lost is recorded as failed although its transaction committed.
OutcomeOf(o) ==
  IF opRequest[o] \notin Writes THEN "none"
  ELSE CASE opStatus[o] \in Unresolved -> "open"
         [] opStatus[o] = "succeeded"  -> "done"
         [] OTHER                      -> "not_done"

Effective(o) == opRequest[o] \in Writes /\ commits[o] > 0

Promise == INSTANCE OperationPromise WITH
  Certain <- (Faults \cap {"commit_lost", "late_commit"} = {}),
  outcome <- [o \in Ops |-> OutcomeOf(o)],
  applied <- [o \in Ops |-> Effective(o)]

\* Every behaviour of gateway, recovery and reset keeps the promise.
KeepsPromise == Promise!Spec

(***************************************************************************)
(* Liveness: the event loop runs every call to its end unless its process   *)
(* dies, the operator recovers what is unknown and every write tool has a   *)
(* recovery handler.                                                       *)
(***************************************************************************)

Fairness ==
  /\ \A c \in Calls : WF_vars(Progress(c))
  /\ \A o \in Ops : WF_vars(Recover(o))

LiveSpec == Spec /\ Fairness

\* Every operation that is claimed gets a final status, so that the reset a next run needs is
\* not blocked for good; unless its call has died, or has lost the ledger, before it could
\* record what became of it.
EverythingSettles ==
  \A o \in Ops : opStatus[o] # "absent" ~> opStatus[o] \in Settled \/ Stranded(o)
=============================================================================
