------------------------ MODULE ToolOperationsProofs ------------------------
(***************************************************************************)
(* Proofs about ToolOperations, for any number of runs, keys and calls.    *)
(***************************************************************************)
EXTENDS ToolOperations, TLAPS

\* Counting at one argument, and recording a truth value there, keep the type.
LEMMA CountAt ==
  ASSUME NEW S, NEW f \in [S -> Nat], NEW x
  PROVE  [f EXCEPT ![x] = @ + 1] \in [S -> Nat]
<1>1. CASE x \in S
  <2>1. f[x] + 1 \in Nat
    BY <1>1
  <2> QED BY <1>1, <2>1
<1>2. CASE x \notin S
  <2>1. [f EXCEPT ![x] = @ + 1] = f
    BY <1>2
  <2> QED BY <2>1
<1> QED BY <1>1, <1>2

LEMMA RecordAt ==
  ASSUME NEW S, NEW f \in [S -> BOOLEAN], NEW x, NEW b \in BOOLEAN
  PROVE  [f EXCEPT ![x] = b] \in [S -> BOOLEAN]
OBVIOUS

\* Every variable keeps its type, and a call that executes has an operation.
LEMMA InitTypeOK == Init => TypeOK
BY DEF Init, TypeOK, OpStatus, CallPc, Executing, Responses, NoOp

LEMMA NextTypeOK == TypeOK /\ [Next]_vars => TypeOK'
<1> SUFFICES ASSUME TypeOK, [Next]_vars
             PROVE  TypeOK'
  OBVIOUS
<1> USE DEF TypeOK, OpStatus, Unresolved, Settled, CallPc, Executing, Responses,
            ToolAnswers, LedgerErrors, ledgerVars, businessVars, runVars, callVars, historyVars
<1>1. ASSUME NEW c \in Calls, NEW o \in Ops, NEW q \in Requests, Claim(c, o, q)
      PROVE  TypeOK'
  BY <1>1 DEF Claim, Bind, InsertRow
<1>2. ASSUME NEW c \in Calls, NEW o \in Ops, NEW q \in Requests, Replay(c, o, q)
      PROVE  TypeOK'
  <2>1. ReplayedResponse(o, q) \in Responses
    BY DEF ReplayedResponse, RecordedResponse
  <2> QED BY <1>2, <2>1 DEF Replay, Bind, CountRetry
<1>3. ASSUME NEW c \in Calls, NEW o \in Ops, NEW q \in Requests, ClaimFails(c, o, q)
      PROVE  TypeOK'
  <2>1. CASE InsertRow(o, q)
    BY <1>3, <2>1 DEF ClaimFails, Bind, InsertRow
  <2>2. CASE CountRetry(o)
    BY <1>3, <2>2 DEF ClaimFails, Bind, CountRetry
  <2>3. CASE UNCHANGED ledgerVars
    BY <1>3, <2>3 DEF ClaimFails, Bind
  <2> QED BY <1>3, <2>1, <2>2, <2>3 DEF ClaimFails
<1>4. ASSUME NEW c \in Calls, Progress(c)
      PROVE  TypeOK'
  <2>1. CASE Refuse(c)
    BY <2>1 DEF Refuse, Answer, Refusal
  <2>2. CASE MarkRunning(c)
    BY <2>2 DEF MarkRunning, SetStatus
  <2>3. CASE MarkRunningFails(c)
    BY <2>3 DEF MarkRunningFails, SetStatus, Answer
  <2>4. CASE HandlerCommits(c)
    <3>1. executions' \in [Ops -> Nat] /\ commits' \in [Ops -> Nat]
      BY <2>4, CountAt DEF HandlerCommits
    <3>2. effect' \in [Ops -> BOOLEAN]
      <4>1. (callRequest[c] \in Writes) \in BOOLEAN
        OBVIOUS
      <4> QED BY <2>4, <4>1, RecordAt, Zenon DEF HandlerCommits
    <3> QED BY <2>4, <3>1, <3>2 DEF HandlerCommits
  <2>5. CASE HandlerFails(c)
    <3>1. executions' \in [Ops -> Nat]
      BY <2>5, CountAt DEF HandlerFails
    <3> QED BY <2>5, <3>1 DEF HandlerFails, Answer
  <2>6. CASE AbandonCommit(c)
    <3>1. executions' \in [Ops -> Nat]
      BY <2>6, CountAt DEF AbandonCommit
    <3>2. landing' \subseteq Ops
      BY <2>6 DEF AbandonCommit
    <3> QED BY <2>6, <3>1, <3>2 DEF AbandonCommit, Answer
  <2>7. CASE ResultArrives(c) \/ ResponseLost(c) \/ CommitReplyRaises(c)
    BY <2>7 DEF ResultArrives, ResponseLost, CommitReplyRaises, Answer
  <2>8. CASE Finalize(c)
    BY <2>8 DEF Finalize, WriteFinalStatus, SetStatus, PersistedStatus, Answer
  <2>9. CASE FinalizeFails(c)
    BY <2>9 DEF FinalizeFails, WriteFinalStatus, SetStatus, PersistedStatus, Answer
  <2> QED BY <1>4, <2>1, <2>2, <2>3, <2>4, <2>5, <2>6, <2>7, <2>8, <2>9 DEF Progress
<1>5. ASSUME NEW c \in Calls, Crash(c)
      PROVE  TypeOK'
  BY <1>5 DEF Crash, Answer
<1>6. ASSUME NEW o \in Ops, Recover(o) \/ CommitLands(o) \/ CommitDropped(o)
      PROVE  TypeOK'
  <2>1. CASE Recover(o)
    BY <2>1 DEF Recover, RecoveredStatus
  <2>2. CASE CommitLands(o)
    <3>1. effect' \in [Ops -> BOOLEAN]
      <4>1. (opRequest[o] \in Writes) \in BOOLEAN
        OBVIOUS
      <4> QED BY <2>2, <4>1, RecordAt, Zenon DEF CommitLands
    <3>2. commits' \in [Ops -> Nat]
      BY <2>2, CountAt DEF CommitLands
    <3> QED BY <2>2, <3>1, <3>2 DEF CommitLands
  <2>3. CASE CommitDropped(o)
    BY <2>3 DEF CommitDropped
  <2> QED BY <1>6, <2>1, <2>2, <2>3
<1>7. ASSUME NEW r \in Runs, ReadStale(r) \/ CloseStale(r)
      PROVE  TypeOK'
  BY <1>7 DEF ReadStale, CloseStale, UnresolvedOf
<1>8. CASE Reset
  BY <1>8 DEF Reset
<1>9. CASE UNCHANGED vars
  BY <1>9 DEF vars
<1> QED BY <1>1, <1>2, <1>3, <1>4, <1>5, <1>6, <1>7, <1>8, <1>9 DEF Next, BeginCall
THEOREM TypeCorrect == Spec => []TypeOK
BY InitTypeOK, NextTypeOK, PTL DEF Spec

-----------------------------------------------------------------------------

LEMMA InitOwnership == Init => OwnershipInv
<1> SUFFICES ASSUME Init
             PROVE  OwnershipInv
  OBVIOUS
<1> USE DEF Init
<1>1. TypeOK
  BY InitTypeOK
<1>2. OneOwner /\ Stages
  BY DEF OneOwner, Stages, Executing
<1>3. Rows /\ Snapshots /\ AtMostOnce /\ SucceededMeansCommitted /\ EvidenceKept
  BY DEF Rows, Snapshots, AtMostOnce, SucceededMeansCommitted, EvidenceKept, Unresolved
<1> QED BY <1>1, <1>2, <1>3 DEF OwnershipInv

\* The claim makes its call the only executing call of a row that was absent.
LEMMA ClaimOwnership ==
  ASSUME OwnershipInv, TypeOK', NEW c \in Calls, NEW o \in Ops, NEW q \in Requests,
         Claim(c, o, q) \/ Replay(c, o, q) \/ ClaimFails(c, o, q)
  PROVE  OwnershipInv'
<1> USE DEF OwnershipInv, TypeOK, ledgerVars, businessVars, runVars, callVars, historyVars
<1>1. \A d \in Calls : pc[d] \in Executing => opStatus[callOp[d]] # "absent" /\ d # c
  BY DEF Stages, Executing, Claim, Replay, ClaimFails, Bind
<1>2. /\ \A p \in Ops : p # o => opStatus'[p] = opStatus[p] /\ opRequest'[p] = opRequest[p]
      /\ \A p \in Ops : opStatus[p] # "absent" =>
           opStatus'[p] = opStatus[p] /\ opRequest'[p] = opRequest[p]
      /\ opStatus[o] = "absent" =>
           \/ opStatus'[o] = "absent" /\ opRequest'[o] = opRequest[o]
           \/ opStatus'[o] = "prepared" /\ opRequest'[o] = q
      /\ UNCHANGED <<executions, commits, effect, landing, snapshot>>
  <2>1. /\ InsertRow(o, q) \/ CountRetry(o) \/ UNCHANGED ledgerVars
        /\ UNCHANGED <<executions, commits, effect, landing, snapshot>>
    BY DEF Claim, Replay, ClaimFails
  <2>2. CASE InsertRow(o, q)
    BY <2>1, <2>2 DEF InsertRow
  <2>3. CASE CountRetry(o) \/ UNCHANGED ledgerVars
    BY <2>1, <2>3 DEF CountRetry
  <2> QED BY <2>1, <2>2, <2>3
<1>3. /\ \A d \in Calls : d # c => /\ pc'[d] = pc[d] /\ callOp'[d] = callOp[d]
                                   /\ callRequest'[d] = callRequest[d]
                                   /\ response'[d] = response[d]
      /\ pc'[c] \in Executing => /\ pc'[c] = "claimed" /\ callOp'[c] = o
                                  /\ callRequest'[c] = q /\ opRequest'[o] = q
                                  /\ opStatus[o] = "absent" /\ opStatus'[o] = "prepared"
  BY DEF Claim, Replay, ClaimFails, Bind, InsertRow, Executing
<1>4. OneOwner'
  <2> SUFFICES ASSUME NEW b \in Calls, NEW d \in Calls, pc'[b] \in Executing,
                      pc'[d] \in Executing, callOp'[b] = callOp'[d]
               PROVE  b = d
    BY DEF OneOwner
  <2>1. CASE b = c \/ d = c
    BY <1>1, <1>3, <2>1
  <2>2. CASE b # c /\ d # c
    BY <1>3, <2>2 DEF OneOwner
  <2> QED BY <2>1, <2>2
<1>5. Stages'
  <2> SUFFICES ASSUME NEW d \in Calls, pc'[d] \in Executing
               PROVE  Stages!(d)'
    BY DEF Stages, Executing
  <2>1. CASE d = c
    BY <1>3, <1>2, <2>1 DEF Rows, Executing
  <2>2. CASE d # c
    BY <1>1, <1>2, <1>3, <2>2 DEF Stages, Executing
  <2> QED BY <2>1, <2>2
<1>6. Rows'
  BY <1>2 DEF Rows
<1>7. Snapshots' /\ AtMostOnce' /\ SucceededMeansCommitted'
  BY <1>2 DEF Snapshots, AtMostOnce, SucceededMeansCommitted, Settled
<1>8. EvidenceKept'
  BY <1>2 DEF EvidenceKept, Rows, AtMostOnce, Unresolved
<1> QED BY <1>4, <1>5, <1>6, <1>7, <1>8

\* A call that executes is the only one touching its row.
LEMMA OthersElsewhere ==
  ASSUME OwnershipInv, NEW c \in Calls, pc[c] \in Executing
  PROVE  \A d \in Calls : d # c /\ pc[d] \in Executing => callOp[d] # callOp[c]
BY DEF OwnershipInv, OneOwner

\* What a step of call c may do to the calls without breaking OneOwner.
LEMMA OwnerKept ==
  ASSUME OwnershipInv, TypeOK', NEW c \in Calls, pc[c] \in Executing,
         callOp' = callOp, \A d \in Calls : d # c => pc'[d] = pc[d]
  PROVE  OneOwner'
BY DEF OwnershipInv, OneOwner

LEMMA AdmissionOwnership ==
  ASSUME OwnershipInv, TypeOK', NEW c \in Calls,
         Refuse(c) \/ MarkRunning(c) \/ MarkRunningFails(c)
  PROVE  OwnershipInv'
<1> DEFINE o == callOp[c]
<1> USE DEF OwnershipInv, TypeOK, ledgerVars, businessVars, runVars, callVars, historyVars,
            Refuse, MarkRunning, MarkRunningFails, SetStatus, Answer
<1>1. pc[c] = "claimed" /\ pc[c] \in Executing /\ o \in Ops
  BY DEF Executing
<1>2. /\ opStatus[o] = "prepared" /\ opStatus'[o] \in {"prepared", "running"}
      /\ \A p \in Ops : p # o => opStatus'[p] = opStatus[p]
      /\ UNCHANGED <<opRequest, executions, commits, effect, landing, snapshot, callOp, callRequest>>
      /\ \A d \in Calls : d # c => pc'[d] = pc[d] /\ response'[d] = response[d]
  BY <1>1 DEF Stages
<1>3. OneOwner'
  BY <1>1, <1>2, OwnerKept
<1>4. Stages'
  <2>1. /\ pc'[c] \in Executing => pc'[c] \in {"running", "completing"}
        /\ pc'[c] = "running" => opStatus'[o] = "running"
        /\ pc'[c] = "completing" => response'[c] \in {"failed", "rejected"}
    BY DEF Executing, Refusal
  <2>2. executions[o] = 0 /\ callRequest[c] = opRequest[o]
    BY <1>1 DEF Stages
  <2>3. ASSUME NEW d \in Calls
        PROVE  Stages!(d)'
    <3>1. CASE d = c
      BY <1>2, <2>1, <2>2, <3>1 DEF Executing, ToolAnswers
    <3>2. CASE d # c /\ pc[d] \in Executing
      BY <1>1, <1>2, <3>2, OthersElsewhere DEF Stages, Executing
    <3>3. CASE d # c /\ pc[d] \notin Executing
      BY <1>2, <3>3 DEF Executing
    <3> QED BY <3>1, <3>2, <3>3
  <2> QED BY <2>3 DEF Stages
<1>5. Rows' /\ Snapshots' /\ AtMostOnce' /\ SucceededMeansCommitted'
  BY <1>1, <1>2 DEF Rows, Snapshots, AtMostOnce, SucceededMeansCommitted, Settled
<1>6. EvidenceKept'
  BY <1>1, <1>2 DEF EvidenceKept, Unresolved
<1> QED BY <1>3, <1>4, <1>5, <1>6

\* The handler runs once, because its call is the owner and had not run it.
LEMMA HandlerOwnership ==
  ASSUME OwnershipInv, TypeOK', NEW c \in Calls,
         HandlerCommits(c) \/ HandlerFails(c) \/ AbandonCommit(c)
  PROVE  OwnershipInv'
<1> DEFINE o == callOp[c]
<1> USE DEF OwnershipInv, TypeOK, ledgerVars, businessVars, runVars, callVars, historyVars,
            HandlerCommits, HandlerFails, AbandonCommit, Answer
<1>1. pc[c] = "running" /\ pc[c] \in Executing /\ o \in Ops
  BY DEF Executing
<1>2. /\ opStatus[o] = "running" /\ executions[o] = 0 /\ commits[o] = 0 /\ o \notin landing
      /\ callRequest[c] = opRequest[o]
  BY <1>1 DEF Stages, AtMostOnce, Rows
<1>3. /\ executions'[o] = 1
      /\ \A p \in Ops : p # o => /\ executions'[p] = executions[p] /\ commits'[p] = commits[p]
                                 /\ effect'[p] = effect[p] /\ (p \in landing' <=> p \in landing)
      /\ UNCHANGED <<opStatus, opRequest, snapshot, callOp, callRequest>>
      /\ \A d \in Calls : d # c => pc'[d] = pc[d] /\ response'[d] = response[d]
  BY <1>1, <1>2
<1>4. \/ /\ pc'[c] = "committed" /\ commits'[o] = 1 /\ o \notin landing'
         /\ effect'[o] = (callRequest[c] \in Writes)
      \/ /\ pc'[c] = "completing" /\ response'[c] \in {"failed", "timed_out"}
         /\ commits'[o] = 0 /\ effect'[o] = effect[o]
  BY <1>1, <1>2
<1>5. OneOwner'
  BY <1>1, <1>3, OwnerKept
<1>6. Stages'
  <2>1. ASSUME NEW d \in Calls
        PROVE  Stages!(d)'
    <3>1. CASE d = c
      BY <1>2, <1>3, <1>4, <3>1 DEF Executing, ToolAnswers
    <3>2. CASE d # c /\ pc[d] \in Executing
      BY <1>1, <1>3, <3>2, OthersElsewhere DEF Stages, Executing
    <3>3. CASE d # c /\ pc[d] \notin Executing
      BY <1>3, <3>3 DEF Executing
    <3> QED BY <3>1, <3>2, <3>3
  <2> QED BY <2>1 DEF Stages
<1>7. Rows'
  BY <1>2, <1>3, <1>4 DEF Rows
<1>8. Snapshots' /\ AtMostOnce' /\ SucceededMeansCommitted'
  BY <1>2, <1>3, <1>4 DEF Snapshots, AtMostOnce, SucceededMeansCommitted
<1>9. EvidenceKept'
  BY <1>2, <1>3, <1>4 DEF EvidenceKept
<1> QED BY <1>5, <1>6, <1>7, <1>8, <1>9

\* A reply changes the stage of its call alone.
LEMMA ReplyOwnership ==
  ASSUME OwnershipInv, TypeOK', NEW c \in Calls,
         ResultArrives(c) \/ ResponseLost(c) \/ CommitReplyRaises(c) \/ Crash(c)
  PROVE  OwnershipInv'
<1> USE DEF OwnershipInv, TypeOK, ledgerVars, businessVars, runVars, historyVars,
            ResultArrives, ResponseLost, CommitReplyRaises, Crash, Answer
<1>1. pc[c] \in Executing
  BY DEF Executing
<1>2. /\ UNCHANGED <<ledgerVars, businessVars, runVars, historyVars, callOp, callRequest>>
      /\ \A d \in Calls : d # c => pc'[d] = pc[d] /\ response'[d] = response[d]
      /\ \/ pc'[c] = "crashed"
         \/ /\ pc[c] = "committed" /\ pc'[c] = "completing"
            /\ response'[c] \in {"succeeded", "timed_out", "failed"}
  OBVIOUS
<1>3. OneOwner'
  BY <1>1, <1>2, OwnerKept
<1>4. Stages'
  <2>1. ASSUME NEW d \in Calls
        PROVE  Stages!(d)'
    <3>1. CASE d = c
      BY <1>2, <3>1 DEF Stages, Executing, ToolAnswers
    <3>2. CASE d # c
      BY <1>2, <3>2 DEF Stages, Executing
    <3> QED BY <3>1, <3>2
  <2> QED BY <2>1 DEF Stages
<1>5. Rows' /\ Snapshots' /\ AtMostOnce' /\ SucceededMeansCommitted' /\ EvidenceKept'
  BY <1>2 DEF Rows, Snapshots, AtMostOnce, SucceededMeansCommitted, EvidenceKept
<1> QED BY <1>3, <1>4, <1>5

\* The owner writes the final status and gives the row up.
LEMMA FinalizeOwnership ==
  ASSUME OwnershipInv, TypeOK', NEW c \in Calls, Finalize(c) \/ FinalizeFails(c)
  PROVE  OwnershipInv'
<1> DEFINE o == callOp[c]
           final == PersistedStatus(callRequest[c], response[c])
<1> USE DEF OwnershipInv, TypeOK, ledgerVars, businessVars, runVars, historyVars,
            Finalize, FinalizeFails, WriteFinalStatus, SetStatus, Answer
<1>1. pc[c] = "completing" /\ pc[c] \in Executing /\ o \in Ops
  BY DEF Executing
<1>2. /\ opStatus[o] \in {"prepared", "running"} /\ response[c] \in ToolAnswers
      /\ response[c] = "succeeded" => commits[o] = 1
      /\ callRequest[c] = opRequest[o] /\ opRequest[o] \in Requests
  BY <1>1 DEF Stages, Rows
<1>3. /\ final \in Settled \cup {"unknown"}
      /\ final = "unknown" => opRequest[o] \in Writes
      /\ final = "succeeded" => commits[o] = 1
  BY <1>2 DEF PersistedStatus, Settled, ToolAnswers
<1>4. /\ opStatus'[o] \in {opStatus[o], final}
      /\ \A p \in Ops : p # o => opStatus'[p] = opStatus[p]
      /\ UNCHANGED <<opRequest, executions, commits, effect, landing, snapshot, callOp, callRequest>>
      /\ \A d \in Calls : d # c => pc'[d] = pc[d] /\ response'[d] = response[d]
      /\ pc'[c] = "done"
  BY <1>1
<1>5. OneOwner'
  BY <1>1, <1>4, OwnerKept
<1>6. Stages'
  <2>1. ASSUME NEW d \in Calls
        PROVE  Stages!(d)'
    <3>1. CASE d = c
      BY <1>4, <3>1 DEF Executing
    <3>2. CASE d # c /\ pc[d] \in Executing
      BY <1>1, <1>4, <3>2, OthersElsewhere DEF Stages, Executing
    <3>3. CASE d # c /\ pc[d] \notin Executing
      BY <1>4, <3>3 DEF Executing
    <3> QED BY <3>1, <3>2, <3>3
  <2> QED BY <2>1 DEF Stages
<1>7. Rows' /\ Snapshots' /\ AtMostOnce' /\ SucceededMeansCommitted'
  BY <1>1, <1>2, <1>3, <1>4 DEF Rows, Snapshots, AtMostOnce, SucceededMeansCommitted, Settled
<1>8. EvidenceKept'
  BY <1>2, <1>3, <1>4 DEF EvidenceKept, Unresolved
<1> QED BY <1>5, <1>6, <1>7, <1>8

\* An operation outside {prepared, running} belongs to no executing call.
LEMMA NotOwned ==
  ASSUME OwnershipInv, NEW o \in Ops, opStatus[o] \notin {"prepared", "running"},
         NEW c \in Calls, pc[c] \in Executing
  PROVE  callOp[c] # o
BY DEF OwnershipInv, Stages, Executing

LEMMA RecoverOwnership ==
  ASSUME OwnershipInv, TypeOK', NEW o \in Ops, Recover(o)
  PROVE  OwnershipInv'
<1> USE DEF OwnershipInv, TypeOK, businessVars, runVars, callVars, historyVars, Recover
<1>1. opStatus'[o] \in {"unknown", "succeeded", "failed"}
  BY DEF RecoveredStatus
<1>2. opStatus'[o] = "succeeded" => commits[o] = 1
  BY DEF RecoveredStatus, Rows
<1>3. \A p \in Ops : p # o => opStatus'[p] = opStatus[p]
  OBVIOUS
<1>4. OneOwner'
  BY DEF OneOwner
<1>5. Stages'
  <2>1. ASSUME NEW d \in Calls
        PROVE  Stages!(d)'
    <3>1. CASE pc[d] \in Executing
      BY <1>3, <3>1, NotOwned DEF Stages
    <3>2. CASE pc[d] \notin Executing
      BY <3>2 DEF Executing
    <3> QED BY <3>1, <3>2
  <2> QED BY <2>1 DEF Stages
<1>6. Rows' /\ Snapshots' /\ AtMostOnce' /\ SucceededMeansCommitted'
  BY <1>1, <1>2, <1>3 DEF Rows, Snapshots, AtMostOnce, SucceededMeansCommitted, Settled
<1>7. EvidenceKept'
  BY <1>1, <1>3 DEF EvidenceKept, Unresolved
<1> QED BY <1>4, <1>5, <1>6, <1>7

LEMMA LandingOwnership ==
  ASSUME OwnershipInv, TypeOK', NEW o \in Ops, CommitLands(o) \/ CommitDropped(o)
  PROVE  OwnershipInv'
<1> USE DEF OwnershipInv, TypeOK, ledgerVars, runVars, callVars, historyVars, CommitLands, CommitDropped
<1>1. executions[o] = 1 /\ commits[o] = 0
  BY DEF Rows
<1>2. /\ UNCHANGED <<opStatus, opRequest, executions, snapshot, pc, callOp, callRequest, response>>
      /\ o \notin landing' /\ \A p \in Ops : p \in landing' => p \in landing
      /\ \A p \in Ops : p # o => commits'[p] = commits[p] /\ effect'[p] = effect[p]
      /\ \/ commits'[o] = 1 /\ effect'[o] = (opRequest[o] \in Writes)
         \/ commits'[o] = 0 /\ effect'[o] = effect[o]
  BY <1>1
<1>3. OneOwner'
  BY <1>2 DEF OneOwner
<1>4. Stages'
  BY <1>1, <1>2 DEF Stages, Executing
<1>5. Rows'
  BY <1>1, <1>2 DEF Rows
<1>6. Snapshots' /\ AtMostOnce' /\ SucceededMeansCommitted' /\ EvidenceKept'
  BY <1>1, <1>2 DEF Snapshots, AtMostOnce, SucceededMeansCommitted, EvidenceKept
<1> QED BY <1>3, <1>4, <1>5, <1>6

LEMMA ReconcilerOwnership ==
  ASSUME OwnershipInv, TypeOK', NEW r \in Runs, ReadStale(r) \/ CloseStale(r)
  PROVE  OwnershipInv'
<1> USE DEF OwnershipInv, TypeOK, ledgerVars, businessVars, callVars, historyVars
<1>1. CASE ReadStale(r)
  <2>1. UNCHANGED <<opStatus, opRequest, executions, commits, effect, landing,
                    pc, callOp, callRequest, response>>
    BY <1>1 DEF ReadStale
  <2>2. Snapshots'
    BY <1>1 DEF ReadStale, Snapshots, Closable, UnresolvedOf
  <2>3. OneOwner' /\ Stages'
    BY <2>1 DEF OneOwner, Stages, Executing
  <2>4. Rows' /\ AtMostOnce' /\ SucceededMeansCommitted' /\ EvidenceKept'
    BY <2>1 DEF Rows, AtMostOnce, SucceededMeansCommitted, EvidenceKept
  <2> QED BY <2>2, <2>3, <2>4
<1>2. CASE CloseStale(r)
  <2>1. /\ UNCHANGED <<opRequest, executions, commits, effect, landing,
                       pc, callOp, callRequest, response>>
        /\ \A o \in Ops : \/ opStatus'[o] = opStatus[o]
                         \/ /\ opStatus'[o] = "failed"
                            /\ opStatus[o] \in {"unknown"} \cup Settled
    BY <1>2 DEF CloseStale, Snapshots
  <2>2. \A q \in Runs : snapshot'[q] \subseteq snapshot[q]
    BY <1>2 DEF CloseStale
  <2>3. Snapshots'
    BY <2>1, <2>2 DEF Snapshots, Settled
  <2>4. OneOwner'
    BY <2>1 DEF OneOwner
  <2>5. Stages'
    <3>1. ASSUME NEW d \in Calls
          PROVE  Stages!(d)'
      <4>1. CASE pc[d] \in Executing
        <5>1. opStatus[callOp[d]] \in {"prepared", "running"}
          BY <4>1 DEF Stages, Executing
        <5>2. opStatus'[callOp[d]] = opStatus[callOp[d]]
          BY <2>1, <4>1, <5>1 DEF Settled
        <5> QED BY <2>1, <5>2 DEF Stages
      <4>2. CASE pc[d] \notin Executing
        BY <2>1, <4>2 DEF Executing
      <4> QED BY <4>1, <4>2
    <3> QED BY <3>1 DEF Stages
  <2>6. Rows' /\ AtMostOnce' /\ SucceededMeansCommitted' /\ EvidenceKept'
    BY <2>1 DEF Rows, AtMostOnce, SucceededMeansCommitted, EvidenceKept, Unresolved, Settled
  <2> QED BY <2>3, <2>4, <2>5, <2>6
<1> QED BY <1>1, <1>2

\* A reset finds nothing unresolved, so what it deletes is evidence of nothing.
LEMMA ResetOwnership ==
  ASSUME OwnershipInv, TypeOK', Reset
  PROVE  OwnershipInv'
<1> USE DEF OwnershipInv, TypeOK, ledgerVars, runVars, callVars, historyVars, Reset
<1>1. OneOwner' /\ Stages'
  BY DEF OneOwner, Stages, Executing
<1>2. Rows' /\ Snapshots' /\ AtMostOnce' /\ SucceededMeansCommitted'
  BY DEF Rows, Snapshots, AtMostOnce, SucceededMeansCommitted
<1>3. EvidenceKept'
  BY DEF EvidenceKept, ResetSafe
<1> QED BY <1>1, <1>2, <1>3

LEMMA NextOwnership == OwnershipInv /\ [Next]_vars => OwnershipInv'
<1> SUFFICES ASSUME OwnershipInv, [Next]_vars
             PROVE  OwnershipInv'
  OBVIOUS
<1>1. TypeOK'
  BY NextTypeOK DEF OwnershipInv
<1>2. ASSUME NEW c \in Calls, BeginCall(c)
      PROVE  OwnershipInv'
  BY <1>1, <1>2, ClaimOwnership DEF BeginCall
<1>3. ASSUME NEW c \in Calls, Progress(c) \/ Crash(c)
      PROVE  OwnershipInv'
  BY <1>1, <1>3, AdmissionOwnership, HandlerOwnership, ReplyOwnership, FinalizeOwnership
     DEF Progress
<1>4. ASSUME NEW o \in Ops, Recover(o) \/ CommitLands(o) \/ CommitDropped(o)
      PROVE  OwnershipInv'
  BY <1>1, <1>4, RecoverOwnership, LandingOwnership
<1>5. ASSUME NEW r \in Runs, ReadStale(r) \/ CloseStale(r)
      PROVE  OwnershipInv'
  BY <1>1, <1>5, ReconcilerOwnership
<1>6. CASE Reset
  BY <1>1, <1>6, ResetOwnership
<1>7. CASE UNCHANGED vars
  <2>1. OneOwner' /\ Stages' /\ Snapshots'
    BY <1>7 DEF OwnershipInv, OneOwner, Stages, Snapshots, vars
  <2>2. Rows' /\ AtMostOnce' /\ SucceededMeansCommitted' /\ EvidenceKept'
    BY <1>7 DEF OwnershipInv, Rows, AtMostOnce, SucceededMeansCommitted, EvidenceKept, vars
  <2> QED BY <1>1, <2>1, <2>2 DEF OwnershipInv
<1> QED BY <1>2, <1>3, <1>4, <1>5, <1>6, <1>7 DEF Next

\* The invariant of gateway, recovery, reset and reconciler together, whatever
\* faults occur and whatever operations are forced closed.
THEOREM Ownership == Spec => []OwnershipInv
BY InitOwnership, NextOwnership, PTL DEF Spec

\* The handler of an operation runs, and its transaction commits, at most once.
THEOREM EffectAtMostOnce == Spec => []AtMostOnce
<1>1. OwnershipInv => AtMostOnce
  BY DEF OwnershipInv
<1> QED BY <1>1, Ownership, PTL

\* Success is recorded only for an operation whose transaction committed.
THEOREM SuccessIsCommitted == Spec => []SucceededMeansCommitted
<1>1. OwnershipInv => SucceededMeansCommitted
  BY DEF OwnershipInv
<1> QED BY <1>1, Ownership, PTL

\* No reset destroys the row an unresolved operation would be recovered from.
THEOREM EvidenceSurvives == Spec => []EvidenceKept
<1>1. OwnershipInv => EvidenceKept
  BY DEF OwnershipInv
<1> QED BY <1>1, Ownership, PTL

-----------------------------------------------------------------------------
(***************************************************************************)
(* What ToolOperations records and answers: final statuses, replays, the    *)
(* verdicts of recovery, stranded operations, and the refinement of         *)
(* OperationPromise.                                                       *)
(***************************************************************************)

(***************************************************************************)
(* The inductive invariant, on top of OwnershipInv.                        *)
(***************************************************************************)

\* The reconciler writes only operations that an operator forces closed.
ForcedOnly == \A r \in Runs : snapshot[r] \subseteq Inconclusive

\* A replay was answered from a row, and a row keeps its request.
ReplayedRows ==
  \A c \in Calls :
    replayed[c] =>
      /\ pc[c] = "done" /\ callOp[c] \in Ops /\ opStatus[callOp[c]] # "absent"
      /\ response[c] # "idempotency_key_conflict" => callRequest[c] = opRequest[callOp[c]]

\* A final answer is the status of the row it was written to or read from.
RecordedAnswers ==
  \A c \in Calls :
    /\ pc[c] = "done" /\ response[c] \in Final
    /\ callOp[c] \notin Inconclusive
    => callOp[c] \in Ops /\ opStatus[callOp[c]] = response[c]

LateLandings == landing # {} => "late_commit" \in Faults

\* What recovery decided; nothing commits behind it unless a COMMIT comes late.
Verdicts ==
  \A o \in Ops :
    settledBy[o] = "recovery" =>
      \/ opStatus[o] = "succeeded"
      \/ opStatus[o] = "failed" /\ ("late_commit" \notin Faults => commits[o] = 0)

\* The database always tells the outcome of a COMMIT.
TellsOutcome == Faults \cap {"commit_lost", "late_commit"} = {}

\* A call that is about to record a failure knows that nothing was committed.
KnownFailures ==
  TellsOutcome =>
    /\ \A c \in Calls :
         pc[c] = "completing" /\ response[c] \in {"failed", "rejected"} => commits[callOp[c]] = 0
    /\ \A o \in Ops :
         /\ opStatus[o] \in {"failed", "rejected"} /\ settledBy[o] # "reconciler"
         /\ opRequest[o] \in Writes
         => commits[o] = 0

OutcomeInv ==
  /\ OwnershipInv
  /\ ForcedOnly /\ ReplayedRows /\ RecordedAnswers
  /\ LateLandings /\ Verdicts /\ KnownFailures

-----------------------------------------------------------------------------
(***************************************************************************)
(* What a step may change.                                                 *)
(***************************************************************************)

\* A step of a call that executes touches its own row, which is unsettled.
LEMMA OwnStep ==
  ASSUME OwnershipInv, NEW c \in Calls, Progress(c) \/ Crash(c)
  PROVE  /\ pc[c] \in Executing /\ callOp[c] \in Ops
         /\ opStatus[callOp[c]] \in {"prepared", "running"}
         /\ opStatus'[callOp[c]] \in OpStatus \ {"absent"}
         /\ \A o \in Ops : o # callOp[c] =>
              /\ opStatus'[o] = opStatus[o] /\ settledBy'[o] = settledBy[o]
              /\ commits'[o] = commits[o]
         /\ \A d \in Calls : d # c => pc'[d] = pc[d] /\ response'[d] = response[d]
         /\ UNCHANGED <<opRequest, callOp, callRequest, replayed, snapshot, resets>>
<1> USE DEF OwnershipInv, TypeOK, ledgerVars, businessVars, runVars, callVars, historyVars
<1>1. pc[c] \in Executing
  BY DEF Progress, Crash, Executing, Refuse, MarkRunning, MarkRunningFails, HandlerCommits,
         HandlerFails, AbandonCommit, ResultArrives, ResponseLost, CommitReplyRaises,
         Finalize, FinalizeFails
<1>2. callOp[c] \in Ops /\ opStatus[callOp[c]] \in {"prepared", "running"}
  BY <1>1 DEF Stages, Executing
<1>3. CASE Refuse(c) \/ MarkRunning(c) \/ MarkRunningFails(c)
  BY <1>1, <1>2, <1>3 DEF Refuse, MarkRunning, MarkRunningFails, SetStatus, Answer, OpStatus,
                          Unresolved
<1>4. CASE HandlerCommits(c) \/ HandlerFails(c) \/ AbandonCommit(c)
  BY <1>1, <1>2, <1>4 DEF HandlerCommits, HandlerFails, AbandonCommit, Answer, OpStatus, Unresolved
<1>5. CASE ResultArrives(c) \/ ResponseLost(c) \/ CommitReplyRaises(c) \/ Crash(c)
  BY <1>1, <1>2, <1>5 DEF ResultArrives, ResponseLost, CommitReplyRaises, Crash, Answer, OpStatus,
                          Unresolved
<1>6. CASE Finalize(c) \/ FinalizeFails(c)
  <2>1. PersistedStatus(callRequest[c], response[c]) \in OpStatus \ {"absent"}
    BY DEF PersistedStatus, OpStatus, Settled, Unresolved
  <2> QED BY <1>1, <1>2, <1>6, <2>1 DEF Finalize, FinalizeFails, WriteFinalStatus, SetStatus,
                                       Answer, OpStatus, Unresolved
<1> QED BY <1>3, <1>4, <1>5, <1>6 DEF Progress

\* The first transaction of a call creates an absent row or leaves every status.
LEMMA BeginStep ==
  ASSUME OwnershipInv, NEW c \in Calls, NEW o \in Ops, NEW q \in Requests,
         Claim(c, o, q) \/ Replay(c, o, q) \/ ClaimFails(c, o, q)
  PROVE  /\ pc[c] = "idle" /\ callOp'[c] = o /\ callRequest'[c] = q
         /\ \A p \in Ops : p # o => opStatus'[p] = opStatus[p] /\ opRequest'[p] = opRequest[p]
         /\ \/ opStatus'[o] = opStatus[o] /\ opRequest'[o] = opRequest[o]
            \/ opStatus[o] = "absent" /\ opStatus'[o] = "prepared" /\ opRequest'[o] = q
         /\ pc'[c] \in {"claimed", "done"}
         /\ pc'[c] = "claimed" => opStatus[o] = "absent"
         /\ \A d \in Calls : d # c =>
              /\ pc'[d] = pc[d] /\ response'[d] = response[d] /\ replayed'[d] = replayed[d]
              /\ callOp'[d] = callOp[d] /\ callRequest'[d] = callRequest[d]
         /\ UNCHANGED <<settledBy, commits, snapshot, resets, landing>>
<1> USE DEF OwnershipInv, TypeOK, ledgerVars, businessVars, runVars, historyVars
<1>1. CASE Claim(c, o, q)
  BY <1>1 DEF Claim, Bind, InsertRow
<1>2. CASE Replay(c, o, q)
  BY <1>2 DEF Replay, Bind, CountRetry
<1>3. CASE ClaimFails(c, o, q)
  <2>1. CASE InsertRow(o, q)
    BY <1>3, <2>1 DEF ClaimFails, Bind, InsertRow
  <2>2. CASE CountRetry(o) \/ UNCHANGED ledgerVars
    BY <1>3, <2>2 DEF ClaimFails, Bind, CountRetry
  <2> QED BY <1>3, <2>1, <2>2 DEF ClaimFails
<1> QED BY <1>1, <1>2, <1>3

\* Recovery, a late COMMIT, the reconciler and a reset leave the calls alone.
LEMMA ServiceStep ==
  ASSUME OwnershipInv, ForcedOnly,
         \/ \E o \in Ops : Recover(o) \/ CommitLands(o) \/ CommitDropped(o)
         \/ \E r \in Runs : ReadStale(r) \/ CloseStale(r)
         \/ Reset
  PROVE  /\ UNCHANGED <<opRequest, callVars>>
         /\ \A o \in Ops :
              \/ opStatus'[o] = opStatus[o] /\ settledBy'[o] = settledBy[o]
              \/ opStatus[o] = "unknown" /\ Recover(o)
              \/ /\ o \in Inconclusive /\ opStatus[o] \in {"unknown"} \cup Settled
                 /\ opStatus'[o] = "failed" /\ settledBy'[o] = "reconciler"
<1> USE DEF OwnershipInv, TypeOK, ledgerVars, businessVars, runVars, callVars, historyVars
<1>1. CASE \E o \in Ops : Recover(o)
  <2>1. PICK r \in Ops : Recover(r)
    BY <1>1
  <2>2. \A o \in Ops : o # r => opStatus'[o] = opStatus[o] /\ settledBy'[o] = settledBy[o]
    BY <2>1 DEF Recover
  <2>3. UNCHANGED <<opRequest, callVars>> /\ opStatus[r] = "unknown"
    BY <2>1 DEF Recover
  <2> QED BY <2>1, <2>2, <2>3
<1>2. CASE \E o \in Ops : CommitLands(o) \/ CommitDropped(o)
  BY <1>2 DEF CommitLands, CommitDropped
<1>3. CASE \E r \in Runs : ReadStale(r)
  BY <1>3 DEF ReadStale
<1>4. CASE \E r \in Runs : CloseStale(r)
  <2> PICK r \in Runs : CloseStale(r)
    BY <1>4
  <2>1. \A o \in snapshot[r] : o \in Inconclusive /\ opStatus[o] \in {"unknown"} \cup Settled
    BY DEF ForcedOnly, Snapshots
  <2> QED BY <2>1 DEF CloseStale
<1>5. CASE Reset
  BY <1>5 DEF Reset
<1> QED BY <1>1, <1>2, <1>3, <1>4, <1>5

\* Rows are never deleted, keep their request, and a final status is kept unless
\* the operation is forced closed.
LEMMA RowsStay ==
  ASSUME OwnershipInv, ForcedOnly, [Next]_vars, NEW o \in Ops, opStatus[o] # "absent"
  PROVE  /\ opStatus'[o] # "absent" /\ opRequest'[o] = opRequest[o]
         /\ opStatus[o] \in Settled /\ o \notin Inconclusive => opStatus'[o] = opStatus[o]
<1> DEFINE Stays == /\ opStatus'[o] # "absent" /\ opRequest'[o] = opRequest[o]
                    /\ opStatus[o] \in Settled /\ o \notin Inconclusive
                         => opStatus'[o] = opStatus[o]
<1>1. ASSUME NEW c \in Calls, Progress(c) \/ Crash(c)
      PROVE  Stays
  BY <1>1, OwnStep DEF OpStatus, Settled
<1>2. ASSUME NEW c \in Calls, BeginCall(c)
      PROVE  Stays
  BY <1>2, BeginStep DEF BeginCall
<1>3. CASE \/ \E p \in Ops : Recover(p) \/ CommitLands(p) \/ CommitDropped(p)
           \/ \E r \in Runs : ReadStale(r) \/ CloseStale(r)
           \/ Reset
  <2>1. opRequest' = opRequest
    BY <1>3, ServiceStep
  <2>2. Recover(o) => opStatus'[o] # "absent"
    BY DEF Recover, RecoveredStatus, OwnershipInv, TypeOK
  <2> QED BY <1>3, <2>1, <2>2, ServiceStep DEF Settled
<1>4. CASE UNCHANGED vars
  BY <1>4 DEF vars
<1> QED BY <1>1, <1>2, <1>3, <1>4 DEF Next

-----------------------------------------------------------------------------
(***************************************************************************)
(* One lemma for each part of the invariant.                               *)
(***************************************************************************)

LEMMA InitOutcome == Init => OutcomeInv
<1>1. Init => OwnershipInv
  BY InitOwnership
<1>2. Init => ForcedOnly /\ ReplayedRows /\ RecordedAnswers /\ LateLandings
  BY DEF Init, ForcedOnly, ReplayedRows, RecordedAnswers, LateLandings
<1>3. Init => Verdicts /\ KnownFailures
  BY DEF Init, Verdicts, KnownFailures
<1> QED BY <1>1, <1>2, <1>3 DEF OutcomeInv

LEMMA ForcedKept ==
  ASSUME OwnershipInv, ForcedOnly, [Next]_vars
  PROVE  ForcedOnly'
<1> USE DEF OwnershipInv, TypeOK, ledgerVars, businessVars, runVars, callVars, historyVars
<1>1. ASSUME NEW r \in Runs, ReadStale(r)
      PROVE  ForcedOnly'
  <2>1. UnresolvedOf(r) \subseteq Inconclusive
    BY <1>1 DEF ReadStale, Closable
  <2> QED BY <1>1, <2>1 DEF ReadStale, ForcedOnly
<1>2. ASSUME NEW r \in Runs, CloseStale(r)
      PROVE  ForcedOnly'
  BY <1>2 DEF CloseStale, ForcedOnly
<1>3. ASSUME NEW c \in Calls, BeginCall(c) \/ Progress(c) \/ Crash(c)
      PROVE  ForcedOnly'
  <2>1. snapshot' = snapshot
    BY <1>3, OwnStep, BeginStep DEF BeginCall
  <2> QED BY <2>1 DEF ForcedOnly
<1>4. ASSUME \/ \E o \in Ops : Recover(o) \/ CommitLands(o) \/ CommitDropped(o)
             \/ Reset \/ UNCHANGED vars
      PROVE  ForcedOnly'
  <2>1. snapshot' = snapshot
    BY <1>4 DEF Recover, CommitLands, CommitDropped, Reset, vars
  <2> QED BY <2>1 DEF ForcedOnly
<1> QED BY <1>1, <1>2, <1>3, <1>4 DEF Next

LEMMA ReplayedKept ==
  ASSUME OwnershipInv, ForcedOnly, ReplayedRows, [Next]_vars
  PROVE  ReplayedRows'
<1> DEFINE Row(d) ==
      /\ pc[d] = "done" /\ callOp[d] \in Ops /\ opStatus[callOp[d]] # "absent"
      /\ response[d] # "idempotency_key_conflict" => callRequest[d] = opRequest[callOp[d]]
<1> SUFFICES ASSUME NEW d \in Calls, replayed'[d]
             PROVE  Row(d)'
  BY DEF ReplayedRows
<1>1. ASSUME /\ replayed'[d] = replayed[d] /\ pc'[d] = pc[d] /\ response'[d] = response[d]
             /\ callOp'[d] = callOp[d] /\ callRequest'[d] = callRequest[d]
      PROVE  Row(d)'
  <2>1. Row(d)
    BY <1>1 DEF ReplayedRows
  <2> QED BY <1>1, <2>1, RowsStay
<1>2. ASSUME NEW c \in Calls, Progress(c) \/ Crash(c)
      PROVE  Row(d)'
  <2>1. pc[c] # "done" /\ (d # c => pc'[d] = pc[d] /\ response'[d] = response[d])
        /\ UNCHANGED <<replayed, callOp, callRequest>>
    BY <1>2, OwnStep DEF Executing
  <2>2. d # c
    BY <2>1 DEF ReplayedRows
  <2> QED BY <1>1, <2>1, <2>2
<1>3. ASSUME NEW c \in Calls, NEW o \in Ops, NEW q \in Requests,
             Claim(c, o, q) \/ Replay(c, o, q) \/ ClaimFails(c, o, q)
      PROVE  Row(d)'
  <2>1. CASE d # c
    <3>1. \A b \in Calls : b # c =>
            /\ pc'[b] = pc[b] /\ response'[b] = response[b] /\ replayed'[b] = replayed[b]
            /\ callOp'[b] = callOp[b] /\ callRequest'[b] = callRequest[b]
      BY <1>3, BeginStep
    <3>2. /\ pc'[d] = pc[d] /\ response'[d] = response[d] /\ replayed'[d] = replayed[d]
          /\ callOp'[d] = callOp[d] /\ callRequest'[d] = callRequest[d]
      BY <2>1, <3>1, Zenon
    <3> QED BY <1>1, <3>2, Zenon
  <2>2. CASE d = c /\ Replay(c, o, q)
    <3>1. /\ opStatus[o] # "absent" /\ UNCHANGED <<opStatus, opRequest>>
          /\ pc'[c] = "done" /\ callOp'[c] = o /\ callRequest'[c] = q
          /\ response'[c] = ReplayedResponse(o, q)
      BY <2>2 DEF Replay, Bind, CountRetry, OwnershipInv, TypeOK
    <3> QED BY <2>2, <3>1 DEF ReplayedResponse
  <2>3. CASE d = c /\ (Claim(c, o, q) \/ ClaimFails(c, o, q))
    <3>1. replayed' = replayed /\ pc[c] = "idle"
      BY <2>3 DEF Claim, ClaimFails, Bind
    <3> QED BY <2>3, <3>1 DEF ReplayedRows
  <2> QED BY <1>3, <2>1, <2>2, <2>3
<1>4. CASE \/ \E o \in Ops : Recover(o) \/ CommitLands(o) \/ CommitDropped(o)
           \/ \E r \in Runs : ReadStale(r) \/ CloseStale(r)
           \/ Reset
  BY <1>1, <1>4, ServiceStep DEF callVars
<1>5. CASE UNCHANGED vars
  BY <1>1, <1>5 DEF vars
<1> QED BY <1>2, <1>3, <1>4, <1>5 DEF Next, BeginCall

LEMMA RecordedKept ==
  ASSUME OwnershipInv, ForcedOnly, RecordedAnswers, [Next]_vars
  PROVE  RecordedAnswers'
<1> DEFINE Hyp(d) == pc[d] = "done" /\ response[d] \in Final /\ callOp[d] \notin Inconclusive
           Row(d) == callOp[d] \in Ops /\ opStatus[callOp[d]] = response[d]
<1> SUFFICES ASSUME NEW d \in Calls, Hyp(d)'
             PROVE  Row(d)'
  BY DEF RecordedAnswers
<1>1. ASSUME pc'[d] = pc[d], response'[d] = response[d], callOp'[d] = callOp[d]
      PROVE  Row(d)'
  <2>1. Row(d)
    BY <1>1 DEF RecordedAnswers
  <2>2. opStatus[callOp[d]] \in Settled
    BY <1>1, <2>1 DEF Settled, Final
  <2> QED BY <1>1, <2>1, <2>2, RowsStay DEF Settled
<1>2. ASSUME NEW c \in Calls, Progress(c) \/ Crash(c)
      PROVE  Row(d)'
  <2>1. CASE d # c
    BY <1>1, <1>2, <2>1, OwnStep
  <2>2. CASE d = c
    <3>1. CASE Finalize(c)
      <4>1. /\ response'[c] = response[c] /\ callOp' = callOp /\ callOp[c] \in Ops
            /\ opStatus'[callOp[c]] = PersistedStatus(callRequest[c], response[c])
        BY <1>2, <3>1, OwnStep DEF Finalize, Answer, WriteFinalStatus, SetStatus,
                                   OwnershipInv, TypeOK
      <4>2. PersistedStatus(callRequest[c], response[c]) = response[c]
        BY <2>2, <4>1 DEF PersistedStatus, Final
      <4> QED BY <2>2, <4>1, <4>2
    <3>2. CASE MarkRunningFails(c) \/ FinalizeFails(c)
      <4>1. response'[c] \notin Final
        BY <3>2 DEF MarkRunningFails, FinalizeFails, Answer, Final, OwnershipInv, TypeOK
      <4> QED BY <2>2, <4>1
    <3>3. CASE ~(Finalize(c) \/ FinalizeFails(c) \/ MarkRunningFails(c))
      <4>1. pc'[c] # "done"
        BY <1>2, <3>3 DEF Progress, Crash, Refuse, MarkRunning, HandlerCommits, HandlerFails,
                          AbandonCommit, ResultArrives, ResponseLost, CommitReplyRaises, Answer,
                          OwnershipInv, TypeOK
      <4> QED BY <2>2, <4>1
    <3> QED BY <3>1, <3>2, <3>3
  <2> QED BY <2>1, <2>2
<1>3. ASSUME NEW c \in Calls, NEW o \in Ops, NEW q \in Requests,
             Claim(c, o, q) \/ Replay(c, o, q) \/ ClaimFails(c, o, q)
      PROVE  Row(d)'
  <2>1. CASE d # c
    BY <1>1, <1>3, <2>1, BeginStep
  <2>2. CASE d = c /\ Replay(c, o, q)
    <3>1. /\ opStatus' = opStatus /\ callOp'[c] = o
          /\ response'[c] = ReplayedResponse(o, q)
      BY <2>2 DEF Replay, Bind, CountRetry, OwnershipInv, TypeOK
    <3>2. response'[c] = opStatus[o]
      BY <2>2, <3>1 DEF ReplayedResponse, RecordedResponse, Final
    <3> QED BY <2>2, <3>1, <3>2
  <2>3. CASE d = c /\ (Claim(c, o, q) \/ ClaimFails(c, o, q))
    <3>1. pc'[c] # "done" \/ response'[c] = "operation_ledger_error"
      BY <2>3 DEF Claim, ClaimFails, OwnershipInv, TypeOK
    <3> QED BY <2>3, <3>1 DEF Final
  <2> QED BY <1>3, <2>1, <2>2, <2>3
<1>4. CASE \/ \E o \in Ops : Recover(o) \/ CommitLands(o) \/ CommitDropped(o)
           \/ \E r \in Runs : ReadStale(r) \/ CloseStale(r)
           \/ Reset
  BY <1>1, <1>4, ServiceStep DEF callVars
<1>5. CASE UNCHANGED vars
  BY <1>1, <1>5 DEF vars
<1> QED BY <1>2, <1>3, <1>4, <1>5 DEF Next, BeginCall

LEMMA LandingsKept ==
  ASSUME LateLandings, [Next]_vars
  PROVE  LateLandings'
<1> USE DEF LateLandings, businessVars
<1>1. ASSUME NEW c \in Calls, BeginCall(c) \/ Progress(c) \/ Crash(c)
      PROVE  LateLandings'
  BY <1>1 DEF BeginCall, Claim, Replay, ClaimFails, Progress, Crash, Refuse, MarkRunning,
              MarkRunningFails, HandlerCommits, HandlerFails, AbandonCommit, ResultArrives,
              ResponseLost, CommitReplyRaises, Finalize, FinalizeFails
<1>2. CASE \/ \E o \in Ops : Recover(o) \/ CommitLands(o) \/ CommitDropped(o)
           \/ \E r \in Runs : ReadStale(r) \/ CloseStale(r)
           \/ Reset
  BY <1>2 DEF Recover, CommitLands, CommitDropped, ReadStale, CloseStale, Reset
<1>3. CASE UNCHANGED vars
  BY <1>3 DEF vars
<1> QED BY <1>1, <1>2, <1>3 DEF Next

\* Recovery decides by a row that is there exactly when the operation committed.
LEMMA RecoverDecides ==
  ASSUME OwnershipInv, NEW o \in Ops, Recover(o)
  PROVE  /\ \A p \in Ops : p # o => opStatus'[p] = opStatus[p] /\ settledBy'[p] = settledBy[p]
         /\ UNCHANGED <<opRequest, commits, landing, callVars>>
         /\ opRequest[o] \in Writes
         /\ \/ opStatus'[o] = "unknown" /\ settledBy'[o] = settledBy[o]
            \/ opStatus'[o] = "succeeded" /\ settledBy'[o] = "recovery" /\ commits[o] = 1
            \/ opStatus'[o] = "failed" /\ settledBy'[o] = "recovery" /\ commits[o] = 0
<1> USE DEF OwnershipInv, TypeOK
<1>1. opStatus[o] = "unknown" /\ opRequest[o] \in Writes
  BY DEF Recover, Rows
<1>2. effect[o] => commits[o] = 1
  BY DEF Rows
<1>3. ~effect[o] => commits[o] = 0
  BY <1>1 DEF EvidenceKept, Unresolved
<1>4. /\ opStatus'[o] = RecoveredStatus(o)
      /\ settledBy'[o] = IF opRequest[o] \in Recoverable THEN "recovery" ELSE settledBy[o]
      /\ \A p \in Ops : p # o => opStatus'[p] = opStatus[p] /\ settledBy'[p] = settledBy[p]
      /\ UNCHANGED <<opRequest, commits, landing, callVars>>
  BY DEF Recover, businessVars, historyVars
<1> QED BY <1>1, <1>2, <1>3, <1>4 DEF RecoveredStatus

\* Who signs a status in a step of a call that executes.
LEMMA OwnSignature ==
  ASSUME OwnershipInv, NEW c \in Calls, Progress(c) \/ Crash(c)
  PROVE  settledBy'[callOp[c]] \in {settledBy[callOp[c]], "gateway", "none"}
<1> USE DEF OwnershipInv, TypeOK, ledgerVars
<1>1. callOp[c] \in Ops
  BY OwnStep
<1>2. CASE Finalize(c) \/ FinalizeFails(c)
  BY <1>1, <1>2 DEF Finalize, FinalizeFails, WriteFinalStatus
<1>3. CASE ~(Finalize(c) \/ FinalizeFails(c))
  BY <1>3 DEF Progress, Crash, Refuse, MarkRunning, MarkRunningFails, HandlerCommits,
              HandlerFails, AbandonCommit, ResultArrives, ResponseLost, CommitReplyRaises
<1> QED BY <1>2, <1>3

LEMMA VerdictsKept ==
  ASSUME OwnershipInv, ForcedOnly, LateLandings, Verdicts, [Next]_vars
  PROVE  Verdicts'
<1> SUFFICES ASSUME NEW o \in Ops, settledBy'[o] = "recovery"
             PROVE  \/ opStatus'[o] = "succeeded"
                    \/ opStatus'[o] = "failed" /\ ("late_commit" \notin Faults => commits'[o] = 0)
  BY DEF Verdicts
<1> DEFINE Same == /\ settledBy'[o] = settledBy[o] /\ opStatus'[o] = opStatus[o]
                   /\ "late_commit" \notin Faults => commits'[o] = commits[o]
<1> DEFINE Decided == \/ opStatus'[o] = "succeeded"
                      \/ /\ opStatus'[o] = "failed"
                         /\ "late_commit" \notin Faults => commits'[o] = 0
<1>1. Same => Decided
  BY DEF Verdicts
<1>2. ASSUME NEW c \in Calls, Progress(c) \/ Crash(c)
      PROVE  Decided
  <2>1. CASE o = callOp[c]
    <3>1. settledBy[o] = "recovery" /\ opStatus[o] \in {"prepared", "running"}
      BY <1>2, <2>1, OwnStep, OwnSignature
    <3> QED BY <3>1 DEF Verdicts
  <2>2. CASE o # callOp[c]
    BY <1>1, <1>2, <2>2, OwnStep
  <2> QED BY <2>1, <2>2
<1>3. ASSUME NEW c \in Calls, NEW p \in Ops, NEW q \in Requests,
             Claim(c, p, q) \/ Replay(c, p, q) \/ ClaimFails(c, p, q)
      PROVE  Decided
  <2>1. /\ settledBy'[o] = settledBy[o] /\ commits'[o] = commits[o]
        /\ opStatus[o] # "absent" => opStatus'[o] = opStatus[o]
    BY <1>3, BeginStep
  <2>2. opStatus[o] # "absent"
    BY <2>1 DEF Verdicts
  <2> QED BY <1>1, <2>1, <2>2
<1>4. ASSUME NEW p \in Ops, Recover(p)
      PROVE  Decided
  <2>1. CASE o = p
    <3>1. opStatus[o] = "unknown"
      BY <1>4, <2>1 DEF Recover
    <3>2. settledBy[o] # "recovery"
      BY <3>1 DEF Verdicts
    <3> QED BY <1>4, <2>1, <3>2, RecoverDecides
  <2>2. CASE o # p
    BY <1>1, <1>4, <2>2, RecoverDecides
  <2> QED BY <2>1, <2>2
<1>5. ASSUME NEW p \in Ops, CommitLands(p) \/ CommitDropped(p)
      PROVE  Decided
  <2>1. "late_commit" \in Faults
    BY <1>5 DEF CommitLands, CommitDropped, LateLandings
  <2>2. UNCHANGED <<opStatus, settledBy>>
    BY <1>5 DEF CommitLands, CommitDropped, ledgerVars
  <2> QED BY <1>1, <2>1, <2>2
<1>6. CASE (\E r \in Runs : ReadStale(r) \/ CloseStale(r)) \/ Reset
  <2>1. commits' = commits
    BY <1>6 DEF ReadStale, CloseStale, Reset, historyVars
  <2>2. \/ opStatus'[o] = opStatus[o] /\ settledBy'[o] = settledBy[o]
        \/ settledBy'[o] = "reconciler"
        \/ opStatus[o] = "unknown" /\ Recover(o)
    BY <1>6, ServiceStep
  <2> QED BY <1>1, <1>4, <2>1, <2>2
<1>7. CASE UNCHANGED vars
  BY <1>1, <1>7 DEF vars
<1> QED BY <1>2, <1>3, <1>4, <1>5, <1>6, <1>7 DEF Next, BeginCall

\* What the calls know, without a COMMIT of unknown outcome: a call that is about
\* to record a failure did not commit.
LEMMA CallsKnow ==
  ASSUME OwnershipInv, ForcedOnly, LateLandings, KnownFailures, TellsOutcome, [Next]_vars,
         NEW d \in Calls, pc'[d] = "completing", response'[d] \in {"failed", "rejected"}
  PROVE  commits'[callOp'[d]] = 0
<1> USE DEF OwnershipInv, TypeOK, ledgerVars, businessVars, runVars, callVars, historyVars
<1>1. ASSUME pc'[d] = pc[d], response'[d] = response[d], callOp'[d] = callOp[d],
             commits'[callOp[d]] = commits[callOp[d]]
      PROVE  commits'[callOp'[d]] = 0
  BY <1>1 DEF KnownFailures
<1>2. ASSUME NEW c \in Calls, Progress(c) \/ Crash(c)
      PROVE  commits'[callOp'[d]] = 0
  <2>1. CASE d # c
    <3>1. pc[d] \in Executing /\ pc[c] \in Executing /\ callOp[d] \in Ops
      BY <1>2, <2>1, OwnStep DEF Executing
    <3>2. callOp[d] # callOp[c]
      BY <2>1, <3>1 DEF OneOwner
    <3> QED BY <1>1, <1>2, <2>1, <3>1, <3>2, OwnStep
  <2>2. CASE d = c /\ Refuse(c)
    BY <2>2 DEF Refuse, Answer, Stages, AtMostOnce, Executing
  <2>3. CASE d = c /\ HandlerFails(c)
    BY <2>3 DEF HandlerFails, Answer, Stages, AtMostOnce, Executing
  <2>4. CASE d = c /\ ~(Refuse(c) \/ HandlerFails(c))
    <3>1. ~AbandonCommit(c) /\ ~CommitReplyRaises(c)
      BY DEF TellsOutcome, AbandonCommit, CommitReplyRaises
    <3>2. pc'[c] # "completing" \/ response'[c] \in {"succeeded", "timed_out"}
      BY <1>2, <2>4, <3>1 DEF Progress, Crash, MarkRunning, MarkRunningFails, HandlerCommits,
         ResultArrives, ResponseLost, Finalize, FinalizeFails, Answer
    <3> QED BY <2>4, <3>2
  <2> QED BY <2>1, <2>2, <2>3, <2>4
<1>3. ASSUME NEW c \in Calls, BeginCall(c)
      PROVE  commits'[callOp'[d]] = 0
  <2>1. d # c
    BY <1>3, BeginStep DEF BeginCall
  <2> QED BY <1>1, <1>3, <2>1, BeginStep DEF BeginCall
<1>4. ASSUME NEW p \in Ops, CommitLands(p) \/ CommitDropped(p)
      PROVE  commits'[callOp'[d]] = 0
  BY <1>4 DEF CommitLands, CommitDropped, LateLandings, TellsOutcome
<1>5. CASE \/ \E p \in Ops : Recover(p)
           \/ \E r \in Runs : ReadStale(r) \/ CloseStale(r)
           \/ Reset
  BY <1>1, <1>5 DEF Recover, ReadStale, CloseStale, Reset
<1>6. CASE UNCHANGED vars
  BY <1>1, <1>6 DEF vars
<1> QED BY <1>2, <1>3, <1>4, <1>5, <1>6 DEF Next

\* A call records a failure of a write only if it answers one.
LEMMA FailureAnswered ==
  ASSUME OwnershipInv, NEW c \in Calls, Progress(c) \/ Crash(c), callRequest[c] \in Writes,
         opStatus'[callOp[c]] \in {"failed", "rejected"}
  PROVE  pc[c] = "completing" /\ response[c] \in {"failed", "rejected"} /\ commits' = commits
<1> USE DEF OwnershipInv, TypeOK, ledgerVars, historyVars
<1>1. callOp[c] \in Ops /\ opStatus[callOp[c]] \in {"prepared", "running"}
  BY OwnStep
<1>2. Finalize(c) \/ FinalizeFails(c)
  <2>1. MarkRunning(c) \/ MarkRunningFails(c) => opStatus'[callOp[c]] \in {"prepared", "running"}
    BY <1>1 DEF MarkRunning, MarkRunningFails, SetStatus
  <2> QED BY <1>1, <2>1 DEF Progress, Crash, Refuse, HandlerCommits, HandlerFails, AbandonCommit,
                            ResultArrives, ResponseLost, CommitReplyRaises
<1>3. pc[c] = "completing" /\ response[c] \in ToolAnswers /\ commits' = commits
  BY <1>2 DEF Finalize, FinalizeFails, Stages
<1>4. opStatus'[callOp[c]] = PersistedStatus(callRequest[c], response[c])
  BY <1>1, <1>2 DEF Finalize, FinalizeFails, WriteFinalStatus, SetStatus
<1> QED BY <1>3, <1>4 DEF PersistedStatus, ToolAnswers

LEMMA KnownKept ==
  ASSUME OwnershipInv, ForcedOnly, LateLandings, KnownFailures, [Next]_vars
  PROVE  KnownFailures'
<1> SUFFICES ASSUME TellsOutcome, NEW o \in Ops,
                    opStatus'[o] \in {"failed", "rejected"}, settledBy'[o] # "reconciler",
                    opRequest'[o] \in Writes
             PROVE  commits'[o] = 0
  <2>1. TellsOutcome' <=> TellsOutcome
    BY DEF TellsOutcome
  <2> QED BY <2>1, CallsKnow DEF KnownFailures
<1> USE DEF OwnershipInv, TypeOK, ledgerVars, historyVars
<1>1. ASSUME opStatus'[o] = opStatus[o], settledBy'[o] = settledBy[o],
             opRequest'[o] = opRequest[o], commits'[o] = commits[o]
      PROVE  commits'[o] = 0
  BY <1>1 DEF KnownFailures
<1>2. ASSUME NEW c \in Calls, Progress(c) \/ Crash(c)
      PROVE  commits'[o] = 0
  <2>1. CASE o = callOp[c]
    <3>1. callRequest[c] = opRequest[o] /\ opRequest' = opRequest
      BY <1>2, <2>1, OwnStep DEF Stages
    <3> QED BY <1>2, <2>1, <3>1, FailureAnswered DEF KnownFailures
  <2>2. CASE o # callOp[c]
    BY <1>1, <1>2, <2>2, OwnStep
  <2> QED BY <2>1, <2>2
<1>3. ASSUME NEW c \in Calls, NEW p \in Ops, NEW q \in Requests,
             Claim(c, p, q) \/ Replay(c, p, q) \/ ClaimFails(c, p, q)
      PROVE  commits'[o] = 0
  <2>1. /\ settledBy' = settledBy /\ commits' = commits
        /\ opStatus'[o] = opStatus[o] /\ opRequest'[o] = opRequest[o]
    BY <1>3, BeginStep
  <2> QED BY <1>1, <2>1
<1>4. ASSUME NEW p \in Ops, Recover(p)
      PROVE  commits'[o] = 0
  <2>1. CASE o = p
    BY <1>4, <2>1, RecoverDecides
  <2>2. CASE o # p
    BY <1>1, <1>4, <2>2, RecoverDecides
  <2> QED BY <2>1, <2>2
<1>5. ASSUME NEW p \in Ops, CommitLands(p) \/ CommitDropped(p)
      PROVE  commits'[o] = 0
  BY <1>5 DEF CommitLands, CommitDropped, LateLandings, TellsOutcome
<1>6. CASE (\E r \in Runs : ReadStale(r) \/ CloseStale(r)) \/ Reset
  <2>1. commits' = commits
    BY <1>6 DEF ReadStale, CloseStale, Reset
  <2>2. /\ opRequest' = opRequest
        /\ \/ opStatus'[o] = opStatus[o] /\ settledBy'[o] = settledBy[o]
           \/ opStatus[o] = "unknown" /\ Recover(o)
    BY <1>6, ServiceStep
  <2> QED BY <1>1, <1>4, <2>1, <2>2
<1>7. CASE UNCHANGED vars
  BY <1>1, <1>7 DEF vars
<1> QED BY <1>2, <1>3, <1>4, <1>5, <1>6, <1>7 DEF Next, BeginCall

LEMMA NextOutcome == OutcomeInv /\ [Next]_vars => OutcomeInv'
BY NextOwnership, ForcedKept, ReplayedKept, RecordedKept, LandingsKept, VerdictsKept, KnownKept
   DEF OutcomeInv

\* Whatever faults occur and whatever an operator forces closed.
THEOREM Outcomes == Spec => []OutcomeInv
BY InitOutcome, NextOutcome, PTL DEF Spec

\* A replayed call learns about its own request or that its key is taken.
THEOREM ReplaysAnswerTheirRequest == Spec => []ReplayOnlySameRequest
<1>1. OutcomeInv => ReplayOnlySameRequest
  BY DEF OutcomeInv, ReplayedRows, ReplayOnlySameRequest
<1> QED BY <1>1, Outcomes, PTL

\* Unless a reconciler forces operations closed, the calls of an operation agree
\* on its outcome.
THEOREM AnswersNeverContradict ==
  ASSUME Inconclusive = {}
  PROVE  Spec => []AnswersAgree
<1>1. OutcomeInv => AnswersAgree
  BY DEF OutcomeInv, RecordedAnswers, AnswersAgree
<1> QED BY <1>1, Outcomes, PTL

\* What recovery decided is the truth and stays the truth, unless a COMMIT that
\* a client gave up takes effect late.
THEOREM RecoveryIsRight ==
  ASSUME "late_commit" \notin Faults
  PROVE  Spec => []RecoveryVerdictIsTrue
<1>1. OutcomeInv => RecoveryVerdictIsTrue
  BY DEF OutcomeInv, Verdicts, RecoveryVerdictIsTrue, OwnershipInv, SucceededMeansCommitted
<1> QED BY <1>1, Outcomes, PTL

\* If the database tells the outcome of every COMMIT, a failed write that no
\* operator forced closed left no effect.
THEOREM FailureIsKnown ==
  ASSUME TellsOutcome
  PROVE  Spec => []FailedMeansNoEffect
<1>1. OutcomeInv => FailedMeansNoEffect
  BY DEF OutcomeInv, KnownFailures, FailedMeansNoEffect
<1> QED BY <1>1, Outcomes, PTL

-----------------------------------------------------------------------------
(***************************************************************************)
(* Action properties.                                                      *)
(***************************************************************************)

\* A final status is rewritten only for an operation that is forced closed.
THEOREM SettledUnlessForced ==
  Spec => [][\A o \in Ops \ Inconclusive :
               opStatus[o] \in Settled => opStatus'[o] = opStatus[o]]_vars
<1>1. ASSUME OutcomeInv, [Next]_vars
      PROVE  [\A o \in Ops \ Inconclusive :
                opStatus[o] \in Settled => opStatus'[o] = opStatus[o]]_vars
  BY <1>1, RowsStay DEF OutcomeInv, Settled
<1> QED BY <1>1, Outcomes, PTL DEF Spec

\* Without forced closing a final status is never rewritten.
THEOREM SettledStaysFinal ==
  ASSUME Inconclusive = {}
  PROVE  Spec => SettledIsFinal
<1>1. ASSUME OutcomeInv, [Next]_vars
      PROVE  [\A o \in Ops : opStatus[o] \in Settled => opStatus'[o] = opStatus[o]]_vars
  BY <1>1, RowsStay DEF OutcomeInv, Settled
<1> QED BY <1>1, Outcomes, PTL DEF Spec, SettledIsFinal

LEMMA StrandedStays ==
  ASSUME OwnershipInv, ForcedOnly, [Next]_vars, NEW o \in Ops, Stranded(o)
  PROVE  Stranded(o)' /\ resets' = resets
<1> USE DEF Stranded
<1>1. ASSUME NEW c \in Calls, Progress(c) \/ Crash(c)
      PROVE  Stranded(o)' /\ resets' = resets
  <2>1. callOp[c] # o
    BY <1>1, OwnStep
  <2>2. \A d \in Calls : pc'[d] \in Executing => pc[d] \in Executing
    BY <1>1, OwnStep
  <2> QED BY <1>1, <2>1, <2>2, OwnStep
<1>2. ASSUME NEW c \in Calls, NEW p \in Ops, NEW q \in Requests,
             Claim(c, p, q) \/ Replay(c, p, q) \/ ClaimFails(c, p, q)
      PROVE  Stranded(o)' /\ resets' = resets
  <2>1. opStatus'[o] = opStatus[o] /\ resets' = resets
    BY <1>2, BeginStep
  <2>2. pc'[c] \in Executing => callOp'[c] # o
    BY <1>2, BeginStep DEF Executing
  <2>3. \A d \in Calls : d # c => pc'[d] = pc[d] /\ callOp'[d] = callOp[d]
    BY <1>2, BeginStep
  <2> QED BY <2>1, <2>2, <2>3
<1>3. CASE \/ \E p \in Ops : Recover(p) \/ CommitLands(p) \/ CommitDropped(p)
           \/ \E r \in Runs : ReadStale(r) \/ CloseStale(r)
  <2>1. resets' = resets
    BY <1>3 DEF Recover, CommitLands, CommitDropped, ReadStale, CloseStale, businessVars
  <2>2. UNCHANGED callVars /\ opStatus'[o] = opStatus[o]
    BY <1>3, ServiceStep DEF Settled
  <2> QED BY <2>1, <2>2 DEF callVars
<1>4. CASE Reset
  BY <1>4 DEF Reset, ResetSafe, Unresolved
<1>5. CASE UNCHANGED vars
  BY <1>5 DEF vars
<1> QED BY <1>1, <1>2, <1>3, <1>4, <1>5 DEF Next, BeginCall

\* An operation that no executing call owns any more stays unresolved for good,
\* and with it every business reset is blocked.
THEOREM StrandedOperationsStay == Spec => StrandedForever
<1>1. ASSUME OutcomeInv, [Next]_vars
      PROVE  [\A o \in Ops : Stranded(o) => Stranded(o)' /\ resets' = resets]_vars
  BY <1>1, StrandedStays DEF OutcomeInv
<1> QED BY <1>1, Outcomes, PTL DEF Spec, StrandedForever

-----------------------------------------------------------------------------
(***************************************************************************)
(* ToolOperations implements OperationPromise: every step is a stutter or a *)
(* step of the promise for one operation.                                  *)
(***************************************************************************)

PromiseOutcome == [o \in Ops |-> OutcomeOf(o)]

PromiseApplied == [o \in Ops |-> Effective(o)]

\* The step of the promise, told of the one operation it is about.
PromiseStep(o) ==
  \/ OutcomeOf(o)' = OutcomeOf(o) /\ Effective(o)' = Effective(o)
  \/ OutcomeOf(o) = "none" /\ OutcomeOf(o)' = "open" /\ Effective(o)' = Effective(o)
  \/ /\ OutcomeOf(o) = "open" \/ (OutcomeOf(o) = "not_done" /\ ~TellsOutcome)
     /\ ~Effective(o) /\ Effective(o)' /\ OutcomeOf(o)' = OutcomeOf(o)
  \/ /\ OutcomeOf(o) = "open" /\ Effective(o)
     /\ OutcomeOf(o)' = "done" /\ Effective(o)' = Effective(o)
  \/ /\ OutcomeOf(o) = "open" /\ (TellsOutcome => ~Effective(o))
     /\ OutcomeOf(o)' = "not_done" /\ Effective(o)' = Effective(o)

LEMMA PromiseLifts ==
  ASSUME NEW o \in Ops, PromiseStep(o),
         \A p \in Ops : p # o => OutcomeOf(p)' = OutcomeOf(p) /\ Effective(p)' = Effective(p)
  PROVE  Promise!Next \/ UNCHANGED <<PromiseOutcome, PromiseApplied>>
<1>1. CASE OutcomeOf(o)' = OutcomeOf(o) /\ Effective(o)' = Effective(o)
  <2>1. PromiseOutcome' = PromiseOutcome
    BY <1>1 DEF PromiseOutcome
  <2>2. \A p \in Ops : Effective(p)' = Effective(p)
    BY <1>1
  <2>3. PromiseApplied' = PromiseApplied
    BY <2>2, Zenon DEF PromiseApplied
  <2> QED BY <2>1, <2>3
<1>2. ASSUME OutcomeOf(o)' = OutcomeOf(o), ~Effective(o), Effective(o)',
             OutcomeOf(o) = "open" \/ (OutcomeOf(o) = "not_done" /\ ~TellsOutcome)
      PROVE  Promise!Apply(o)
  <2>1. PromiseOutcome' = PromiseOutcome
    BY <1>2 DEF PromiseOutcome
  <2>2. ASSUME NEW p \in Ops
        PROVE  Effective(p)' = [PromiseApplied EXCEPT ![o] = TRUE][p]
    <3>1. CASE p = o
      <4>1. [PromiseApplied EXCEPT ![o] = TRUE][p] = TRUE
        BY <3>1 DEF PromiseApplied
      <4> QED BY <1>2, <3>1, <4>1, Zenon
    <3>2. CASE p # o
      <4>1. [PromiseApplied EXCEPT ![o] = TRUE][p] = Effective(p)
        BY <3>2, Zenon DEF PromiseApplied
      <4> QED BY <3>2, <4>1, Zenon
    <3> QED BY <3>1, <3>2
  <2>3. PromiseApplied' = [PromiseApplied EXCEPT ![o] = TRUE]
    BY <2>2, Zenon DEF PromiseApplied
  <2>4. PromiseOutcome[o] = OutcomeOf(o) /\ (PromiseApplied[o] <=> Effective(o))
    BY Zenon DEF PromiseOutcome, PromiseApplied
  <2> QED BY <1>2, <2>1, <2>3, <2>4, Zenon
        DEF Promise!Apply, PromiseOutcome, PromiseApplied, TellsOutcome
<1>3. ASSUME Effective(o)' = Effective(o), NEW s, OutcomeOf(o)' = s
      PROVE  PromiseOutcome' = [PromiseOutcome EXCEPT ![o] = s] /\ PromiseApplied' = PromiseApplied
  <2>1. PromiseOutcome' = [PromiseOutcome EXCEPT ![o] = s]
    BY <1>3 DEF PromiseOutcome
  <2>2. \A p \in Ops : Effective(p)' = Effective(p)
    BY <1>3
  <2>3. PromiseApplied' = PromiseApplied
    BY <2>2, Zenon DEF PromiseApplied
  <2> QED BY <2>1, <2>3
<1>4. PromiseOutcome[o] = OutcomeOf(o) /\ (PromiseApplied[o] <=> Effective(o))
  BY Zenon DEF PromiseOutcome, PromiseApplied
<1>5. ASSUME OutcomeOf(o) = "none", OutcomeOf(o)' = "open", Effective(o)' = Effective(o)
      PROVE  Promise!Open(o)
  BY <1>3, <1>4, <1>5, Zenon DEF Promise!Open, PromiseOutcome, PromiseApplied
<1>6. ASSUME OutcomeOf(o) = "open", Effective(o),
             OutcomeOf(o)' = "done", Effective(o)' = Effective(o)
      PROVE  Promise!Done(o)
  BY <1>3, <1>4, <1>6, Zenon DEF Promise!Done, PromiseOutcome, PromiseApplied
<1>7. ASSUME OutcomeOf(o) = "open", TellsOutcome => ~Effective(o),
             OutcomeOf(o)' = "not_done", Effective(o)' = Effective(o)
      PROVE  Promise!NotDone(o)
  BY <1>3, <1>4, <1>7, Zenon DEF Promise!NotDone, PromiseOutcome, PromiseApplied, TellsOutcome
<1> QED BY <1>1, <1>2, <1>5, <1>6, <1>7, Zenon DEF PromiseStep, Promise!Next

LEMMA SameRow ==
  ASSUME NEW o \in Ops, opStatus'[o] = opStatus[o], opRequest'[o] = opRequest[o],
         commits'[o] = commits[o]
  PROVE  OutcomeOf(o)' = OutcomeOf(o) /\ Effective(o)' = Effective(o)
BY DEF OutcomeOf, Effective

\* A call that executes applies its operation once and settles it truthfully.
LEMMA CallKeepsPromise ==
  ASSUME OutcomeInv, OutcomeInv', NEW c \in Calls, Progress(c) \/ Crash(c),
         NEW o \in Ops, o = callOp[c]
  PROVE  PromiseStep(o)
<1> USE DEF OutcomeInv, OwnershipInv, TypeOK
<1>1. /\ opStatus[o] \in {"prepared", "running"}
      /\ opStatus'[o] \in OpStatus \ {"absent"}
      /\ opRequest' = opRequest /\ callRequest[c] = opRequest[o]
  BY OwnStep DEF Stages
<1>2. CASE opRequest[o] \notin Writes
  <2>1. /\ OutcomeOf(o) = "none" /\ OutcomeOf(o)' = "none"
        /\ Effective(o) = FALSE /\ Effective(o)' = FALSE
    BY <1>1, <1>2 DEF OutcomeOf, Effective
  <2> QED BY <2>1 DEF PromiseStep
<1>3. CASE opRequest[o] \in Writes /\ HandlerCommits(c)
  <2>1. /\ commits[o] = 0 /\ commits'[o] = 1 /\ opStatus'[o] = opStatus[o]
    BY <1>1, <1>3 DEF HandlerCommits, ledgerVars, Stages, AtMostOnce, Executing
  <2>2. OutcomeOf(o) = "open" /\ OutcomeOf(o)' = OutcomeOf(o) /\ ~Effective(o) /\ Effective(o)'
    BY <1>1, <1>3, <2>1 DEF OutcomeOf, Effective, Unresolved
  <2> QED BY <2>2 DEF PromiseStep
<1>4. CASE opRequest[o] \in Writes /\ ~HandlerCommits(c)
  <2>1. commits' = commits
    BY <1>4 DEF Progress, Crash, Refuse, MarkRunning, MarkRunningFails, HandlerFails,
       AbandonCommit, ResultArrives, ResponseLost, CommitReplyRaises, Finalize, FinalizeFails,
       historyVars
  <2>2. OutcomeOf(o) = "open" /\ Effective(o)' = Effective(o)
    BY <1>1, <1>4, <2>1 DEF OutcomeOf, Effective, Unresolved
  <2>3. CASE opStatus'[o] \in Unresolved
    <3>1. OutcomeOf(o)' = "open"
      BY <1>1, <1>4, <2>3 DEF OutcomeOf, Unresolved
    <3> QED BY <2>2, <3>1 DEF PromiseStep
  <2>4. CASE opStatus'[o] = "succeeded"
    <3>1. commits'[o] = 1
      BY <1>1, <2>4 DEF SucceededMeansCommitted
    <3>2. OutcomeOf(o)' = "done" /\ Effective(o)
      BY <1>1, <1>4, <2>1, <2>4, <3>1 DEF OutcomeOf, Effective, Unresolved
    <3> QED BY <2>2, <3>2 DEF PromiseStep
  <2>5. CASE opStatus'[o] \in {"failed", "rejected"}
    <3>1. TellsOutcome => commits[o] = 0
      BY <1>1, <1>4, <2>5, FailureAnswered DEF KnownFailures
    <3>2. OutcomeOf(o)' = "not_done" /\ (TellsOutcome => ~Effective(o))
      BY <1>1, <1>4, <2>5, <3>1 DEF OutcomeOf, Effective, Unresolved
    <3> QED BY <2>2, <3>2 DEF PromiseStep
  <2> QED BY <1>1, <2>3, <2>4, <2>5 DEF OpStatus, Settled
<1> QED BY <1>2, <1>3, <1>4

\* Every step of the ledger and its services is a step of the promise.
LEMMA StepKeepsPromise ==
  ASSUME Inconclusive = {}, OutcomeInv, OutcomeInv', Next
  PROVE  Promise!Next \/ UNCHANGED <<PromiseOutcome, PromiseApplied>>
<1> DEFINE Same(p) == OutcomeOf(p)' = OutcomeOf(p) /\ Effective(p)' = Effective(p)
           Kept    == Promise!Next \/ UNCHANGED <<PromiseOutcome, PromiseApplied>>
<1> USE DEF OutcomeInv, OwnershipInv, TypeOK
<1>1. ASSUME \A p \in Ops : Same(p)
      PROVE  Kept
  <2>1. PromiseOutcome' = PromiseOutcome
    BY <1>1 DEF PromiseOutcome
  <2>2. PromiseApplied' = PromiseApplied
    BY <1>1, Zenon DEF PromiseApplied
  <2> QED BY <2>1, <2>2
<1>2. ASSUME NEW c \in Calls, Progress(c) \/ Crash(c)
      PROVE  Kept
  <2> PICK o \in Ops : o = callOp[c]
    BY <1>2, OwnStep
  <2>1. \A p \in Ops : p # o => Same(p)
    BY <1>2, OwnStep, SameRow
  <2>2. PromiseStep(o)
    BY <1>2, CallKeepsPromise
  <2> QED BY <2>1, <2>2, PromiseLifts, Zenon
<1>3. ASSUME NEW c \in Calls, NEW o \in Ops, NEW q \in Requests,
             Claim(c, o, q) \/ Replay(c, o, q) \/ ClaimFails(c, o, q)
      PROVE  Kept
  <2>1. \A p \in Ops : p # o => Same(p)
    BY <1>3, BeginStep, SameRow
  <2>2. CASE opStatus'[o] = opStatus[o] /\ opRequest'[o] = opRequest[o]
    <3>1. Same(o)
      BY <1>3, <2>2, BeginStep, SameRow
    <3> QED BY <1>1, <2>1, <3>1
  <2>3. CASE opStatus[o] = "absent" /\ opStatus'[o] = "prepared" /\ opRequest'[o] = q
    <3>1. opRequest[o] \notin Writes /\ commits'[o] = 0
      BY <1>3, <2>3, BeginStep, OperationAssumption DEF Rows, AtMostOnce
    <3>2. OutcomeOf(o) = "none" /\ Effective(o) = FALSE /\ Effective(o)' = FALSE
      BY <3>1 DEF OutcomeOf, Effective
    <3>3. OutcomeOf(o)' \in {"none", "open"}
      BY <2>3 DEF OutcomeOf, Unresolved
    <3>4. PromiseStep(o)
      BY <3>2, <3>3 DEF PromiseStep
    <3> QED BY <2>1, <3>4, PromiseLifts, Zenon
  <2> QED BY <1>3, <2>2, <2>3, BeginStep
<1>4. ASSUME NEW o \in Ops, Recover(o)
      PROVE  Kept
  <2>1. /\ opStatus[o] = "unknown" /\ opRequest[o] \in Writes
        /\ UNCHANGED <<opRequest, commits>>
        /\ \A p \in Ops : p # o => opStatus'[p] = opStatus[p]
    <3>1. opStatus[o] = "unknown"
      BY <1>4 DEF Recover
    <3> QED BY <1>4, <3>1, RecoverDecides
  <2>2. \A p \in Ops : p # o => Same(p)
    BY <2>1, SameRow
  <2>3. OutcomeOf(o) = "open" /\ Effective(o)' = Effective(o)
    BY <2>1 DEF OutcomeOf, Effective, Unresolved
  <2>4. CASE opStatus'[o] = "unknown"
    <3>1. OutcomeOf(o)' = "open"
      BY <2>1, <2>4 DEF OutcomeOf, Unresolved
    <3> QED BY <1>1, <2>3, <2>2, <3>1
  <2>5. CASE opStatus'[o] = "succeeded" /\ commits[o] = 1
    <3>1. OutcomeOf(o)' = "done" /\ Effective(o)
      BY <2>1, <2>5 DEF OutcomeOf, Effective, Unresolved
    <3>2. PromiseStep(o)
      BY <2>3, <3>1 DEF PromiseStep
    <3> QED BY <2>2, <3>2, PromiseLifts, Zenon
  <2>6. CASE opStatus'[o] = "failed" /\ commits[o] = 0
    <3>1. OutcomeOf(o)' = "not_done" /\ ~Effective(o)
      BY <2>1, <2>6 DEF OutcomeOf, Effective, Unresolved
    <3>2. PromiseStep(o)
      BY <2>3, <3>1 DEF PromiseStep
    <3> QED BY <2>2, <3>2, PromiseLifts, Zenon
  <2> QED BY <1>4, <2>4, <2>5, <2>6, RecoverDecides
<1>5. ASSUME NEW o \in Ops, CommitLands(o)
      PROVE  Kept
  <2>1. /\ UNCHANGED <<opStatus, opRequest>> /\ commits[o] = 0 /\ commits'[o] = 1
        /\ \A p \in Ops : p # o => commits'[p] = commits[p]
        /\ opStatus[o] \notin {"absent", "succeeded"}
    BY <1>5 DEF CommitLands, ledgerVars, Rows, SucceededMeansCommitted
  <2>2. ~TellsOutcome
    BY <1>5 DEF CommitLands, LateLandings, TellsOutcome
  <2>3. \A p \in Ops : p # o => Same(p)
    BY <2>1, SameRow
  <2>4. CASE opRequest[o] \in Writes
    <3>1. /\ OutcomeOf(o) \in {"open", "not_done"} /\ OutcomeOf(o)' = OutcomeOf(o)
          /\ ~Effective(o) /\ Effective(o)'
      BY <2>1, <2>4 DEF OutcomeOf, Effective
    <3>2. PromiseStep(o)
      BY <2>2, <3>1 DEF PromiseStep
    <3> QED BY <2>3, <3>2, PromiseLifts, Zenon
  <2>5. CASE opRequest[o] \notin Writes
    <3>1. Same(o)
      BY <2>1, <2>5 DEF OutcomeOf, Effective
    <3> QED BY <1>1, <2>3, <3>1
  <2> QED BY <2>4, <2>5
<1>6. CASE \/ \E o \in Ops : CommitDropped(o)
           \/ \E r \in Runs : ReadStale(r) \/ CloseStale(r)
           \/ Reset
  <2>1. commits' = commits
    BY <1>6 DEF CommitDropped, ReadStale, CloseStale, Reset, historyVars
  <2>2. opRequest' = opRequest
    BY <1>6, ServiceStep
  <2>3. ASSUME NEW p \in Ops, Recover(p)
        PROVE  Kept
    BY <1>4, <2>3
  <2>4. CASE \E p \in Ops : Recover(p)
    BY <2>3, <2>4
  <2>5. CASE ~ \E p \in Ops : Recover(p)
    <3>1. opStatus' = opStatus
      <4>1. \A p \in Ops : opStatus'[p] = opStatus[p]
        BY <1>6, <2>5, ServiceStep
      <4> QED BY <4>1
    <3> QED BY <1>1, <2>1, <2>2, <3>1, SameRow
  <2> QED BY <2>4, <2>5
<1> QED BY <1>2, <1>3, <1>4, <1>5, <1>6 DEF Next, BeginCall

\* Gateway, recovery, reset and reconciler keep the promise of the ledger, as long
\* as no operator forces an operation closed; failures are certain if the database
\* tells the outcome of every COMMIT.
THEOREM PromiseKept ==
  ASSUME Inconclusive = {}
  PROVE  Spec => KeepsPromise
<1>1. Init => Promise!Init
  <2> SUFFICES ASSUME Init
               PROVE  Promise!Init
    OBVIOUS
  <2>1. \A o \in Ops : opRequest[o] \notin Writes
    BY OperationAssumption DEF Init
  <2>2. \A o \in Ops : OutcomeOf(o) = "none" /\ Effective(o) = FALSE
    BY <2>1 DEF OutcomeOf, Effective
  <2> QED BY <2>2, Zenon DEF Promise!Init
<1>2. ASSUME OutcomeInv, OutcomeInv', [Next]_vars
      PROVE  [Promise!Next]_<<PromiseOutcome, PromiseApplied>>
  <2>1. CASE Next
    BY <1>2, <2>1, StepKeepsPromise
  <2>2. CASE UNCHANGED vars
    <3>1. PromiseOutcome' = PromiseOutcome
      BY <2>2 DEF vars, PromiseOutcome, OutcomeOf
    <3>2. PromiseApplied' = PromiseApplied
      BY <2>2 DEF vars, PromiseApplied, Effective
    <3> QED BY <3>1, <3>2
  <2> QED BY <1>2, <2>1, <2>2
<1> QED BY <1>1, <1>2, Outcomes, PTL
        DEF Spec, KeepsPromise, Promise!Spec, PromiseOutcome, PromiseApplied
=============================================================================
