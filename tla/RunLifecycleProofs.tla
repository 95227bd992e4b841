------------------------- MODULE RunLifecycleProofs -------------------------
(***************************************************************************)
(* Proofs about RunLifecycle, for any number of runs and executors.  What  *)
(* depends on time assumes LeaseOutlivesSegment.                           *)
(***************************************************************************)
EXTENDS RunLifecycle, TLAPS

LEMMA InitTypeOK == Init => TypeOK
<1> SUFFICES ASSUME Init PROVE TypeOK
  OBVIOUS
<1> QED BY LifecycleAssumption DEF Init, TypeOK, Live, NoLease, Terminal

LEMMA OlderInRange ==
  ASSUME NEW a \in 0 .. OlderThan + 1
  PROVE  Older(a) \in 0 .. OlderThan + 1 /\ Older(a) <= a + 1
BY LifecycleAssumption DEF Older

LEMMA NextTypeOK == TypeOK /\ [Next]_vars => TypeOK'
<1> SUFFICES ASSUME TypeOK, [Next]_vars
             PROVE  TypeOK'
  OBVIOUS
<1> USE LifecycleAssumption DEF TypeOK, Live, Terminal, rowVars, configVars, opVars, execVars
<1>1. ASSUME NEW e \in Executors, NEW r \in Runs, Prepare(e, r) PROVE TypeOK'
  BY <1>1 DEF Prepare, Engage, Models
<1>2. ASSUME NEW e \in Executors, NEW r \in Runs, Claim(e, r) PROVE TypeOK'
  BY <1>2 DEF Claim, Engage, Resumable
<1>3. ASSUME NEW e \in Executors, BeginTool(e) \/ EndTool(e) \/ GraphEnds(e) PROVE TypeOK'
  <2>1. CASE BeginTool(e)
    BY <2>1 DEF BeginTool
  <2>2. CASE EndTool(e)
    <3>1. unknown' \in [Runs -> BOOLEAN] /\ stranded' \in [Runs -> BOOLEAN]
      BY <2>2 DEF EndTool
    <3>2. pc' \in [Executors -> {"idle", "executing", "calling", "ended", "crashed"}]
      BY <2>2 DEF EndTool
    <3>3. \A d \in Executors : Live(d)' <=> Live(d)
      BY <2>2 DEF EndTool
    <3> QED BY <2>2, <3>1, <3>2, <3>3 DEF EndTool
  <2>3. CASE GraphEnds(e)
    BY <2>3 DEF GraphEnds
  <2> QED BY <1>3, <2>1, <2>2, <2>3
<1>4. ASSUME NEW e \in Executors, FinalizeResult(e) \/ FinalizeException(e) PROVE TypeOK'
  <2>1. runOf[e] \in Runs /\ Leave(e)
    BY <1>4 DEF FinalizeResult, FinalizeException, Leave
  <2>2. PICK s \in Terminal : Conclude(runOf[e], s)
    BY <1>4 DEF FinalizeResult, FinalizeException
  <2>3. /\ runOf' \in [Executors -> Runs \cup {NoRun}]
        /\ \A d \in Executors : Live(d)' => runOf'[d] \in Runs
        /\ pc' \in [Executors -> {"idle", "executing", "calling", "ended", "crashed"}]
        /\ verdict' \in [Executors -> {"none", "paused", "exception"} \cup Terminal]
        /\ segAge' \in [Executors -> 0 .. MaxSegment]
    BY <2>1 DEF Leave
  <2>4. /\ paused' \in [Runs -> {"unset", "yes", "no"}]
        /\ resuming' \in [Runs -> BOOLEAN]
        /\ leaseAge' \in [Runs -> {NoLease} \cup 0 .. OlderThan + 1]
        /\ pending' \in [Runs -> BOOLEAN]
    <3>1. CASE paused[runOf[e]] = "unset"
      BY <2>2, <3>1 DEF Conclude, ClearMarkers
    <3>2. CASE paused[runOf[e]] # "unset"
      <4>1. /\ paused' = [paused EXCEPT ![runOf[e]] = "no"]
            /\ resuming' = [resuming EXCEPT ![runOf[e]] = FALSE]
            /\ leaseAge' = [leaseAge EXCEPT ![runOf[e]] = NoLease]
            /\ pending' = [pending EXCEPT ![runOf[e]] = FALSE]
        BY <2>2, <3>2 DEF Conclude, ClearMarkers
      <4>2. paused' \in [Runs -> {"unset", "yes", "no"}]
        BY <4>1
      <4>3. leaseAge' \in [Runs -> {NoLease} \cup 0 .. OlderThan + 1]
        BY <4>1
      <4>4. resuming' \in [Runs -> BOOLEAN] /\ pending' \in [Runs -> BOOLEAN]
        BY <4>1
      <4> QED BY <4>2, <4>3, <4>4
    <3> QED BY <3>1, <3>2
  <2>5. status' \in [Runs -> {"absent", "running"} \cup Terminal] /\ closed' \in [Runs -> BOOLEAN]
    BY <2>2 DEF Conclude
  <2> QED BY <2>2, <2>3, <2>4, <2>5 DEF Conclude
<1>5. ASSUME NEW e \in Executors, RecordPause(e) \/ SaveFails(e) PROVE TypeOK'
  <2>1. /\ runOf' \in [Executors -> Runs \cup {NoRun}]
        /\ \A d \in Executors : Live(d)' => runOf'[d] \in Runs
        /\ pc' \in [Executors -> {"idle", "executing", "calling", "ended", "crashed"}]
        /\ verdict' \in [Executors -> {"none", "paused", "exception"} \cup Terminal]
        /\ segAge' \in [Executors -> 0 .. MaxSegment]
    <3>1. Leave(e)
      BY <1>5 DEF RecordPause, SaveFails
    <3> QED BY <3>1 DEF Leave
  <2>2. CASE RecordPause(e)
    BY <2>1, <2>2 DEF RecordPause
  <2>3. CASE SaveFails(e)
    BY <2>1, <2>3 DEF SaveFails
  <2> QED BY <1>5, <2>2, <2>3
<1>6. ASSUME NEW e \in Executors, Crash(e) PROVE TypeOK'
  BY <1>6 DEF Crash
<1>7. ASSUME NEW r \in Runs, ReleaseClaim(r) PROVE TypeOK'
  BY <1>7 DEF ReleaseClaim, ReleaseMarkers, NoLease
<1>8. ASSUME NEW r \in Runs, CloseStale(r) \/ CloseInconclusive(r) \/ RecoverUnknown(r)
      PROVE  TypeOK'
  <2>1. CASE CloseStale(r) \/ CloseInconclusive(r)
    <3>1. CloseRow(r) /\ UNCHANGED stranded
      BY <2>1 DEF CloseStale, CloseInconclusive
    <3>2. unknown' \in [Runs -> BOOLEAN]
      BY <2>1 DEF CloseStale, CloseInconclusive
    <3> QED BY <3>1, <3>2 DEF CloseRow
  <2>2. CASE RecoverUnknown(r)
    BY <2>2 DEF RecoverUnknown
  <2> QED BY <1>8, <2>1, <2>2
<1>9. ASSUME Tick PROVE TypeOK'
  BY <1>9, OlderInRange DEF Tick, NoLease
<1>10. CASE UNCHANGED vars
  BY <1>10 DEF vars
<1> HIDE DEF TypeOK, Live, Terminal
<1> QED BY <1>1, <1>2, <1>3, <1>4, <1>5, <1>6, <1>7, <1>8, <1>9, <1>10 DEF Next, Step

-----------------------------------------------------------------------------

LEMMA InitLease == Init => LeaseInv
<1> SUFFICES ASSUME Init PROVE LeaseInv
  OBVIOUS
<1>1. TypeOK
  BY InitTypeOK
<1>2. MarkersCoherent /\ OneExecutor /\ LiveIsYounger /\ PausesAreKept /\ ClosedIsQuiet
  BY DEF Init, MarkersCoherent, OneExecutor, LiveIsYounger, PausesAreKept, ClosedIsQuiet, Live, Coherent, Younger, Quiet
<1> QED BY <1>1, <1>2 DEF LeaseInv

\* A run that can be started or claimed has no executor.
LEMMA EngagedIsFree ==
  ASSUME LeaseInv, NEW e \in Executors, NEW r \in Runs, Prepare(e, r) \/ Claim(e, r)
  PROVE  \A d \in Executors : ~OnRun(d, r)
<1> SUFFICES ASSUME NEW d \in Executors, Live(d), runOf[d] = r PROVE FALSE
  BY DEF OnRun
<1>1. status[r] = "running" /\ (resuming[r] \/ paused[r] = "unset")
  BY DEF LeaseInv, LiveIsYounger, Younger
<1>2. CASE Prepare(e, r)
  BY <1>1, <1>2 DEF Prepare
<1>3. CASE Claim(e, r)
  BY <1>1, <1>3 DEF Claim, Resumable
<1> QED BY <1>2, <1>3

LEMMA EngageLease ==
  ASSUME LeaseInv, TypeOK', NEW e \in Executors, NEW r \in Runs,
         Prepare(e, r) \/ Claim(e, r)
  PROVE  LeaseInv'
<1> USE DEF LeaseInv, TypeOK, rowVars, configVars, opVars, execVars, Terminal
<1>1. /\ pc[e] = "idle" /\ pc'[e] = "executing" /\ runOf'[e] = r /\ segAge'[e] = 0
      /\ \A d \in Executors : d # e => /\ pc'[d] = pc[d] /\ runOf'[d] = runOf[d]
                                       /\ segAge'[d] = segAge[d]
      /\ verdict' = verdict /\ UNCHANGED <<unknown, stranded, closed, pending>>
  BY DEF Prepare, Claim, Engage
<1>2. /\ status'[r] = "running" /\ status[r] # "failed"
      /\ \A s \in Runs : s # r => /\ status'[s] = status[s] /\ checkpointed'[s] = checkpointed[s]
                                 /\ runAge'[s] = runAge[s] /\ paused'[s] = paused[s]
                                 /\ resuming'[s] = resuming[s] /\ leaseAge'[s] = leaseAge[s]
  BY DEF Prepare, Claim
<1>3. checkpointed'[r] <=> e \in Checkpointing
  BY DEF Prepare, Claim
<1>4. IF resuming'[r] THEN leaseAge'[r] = 0 ELSE paused'[r] = "unset" /\ runAge'[r] = 0
  <2>1. CASE Prepare(e, r)
    BY <2>1 DEF Prepare, MarkersCoherent, Coherent
  <2>2. CASE Claim(e, r)
    BY <2>2 DEF Claim
  <2> QED BY <2>1, <2>2
<1>5. MarkersCoherent'
  <2>1. CASE Prepare(e, r)
    BY <1>2, <2>1 DEF Prepare, MarkersCoherent, Coherent
  <2>2. CASE Claim(e, r)
    BY <1>2, <2>2 DEF Claim, Resumable, MarkersCoherent, NoLease, Coherent
  <2> QED BY <2>1, <2>2
<1>6. OneExecutor'
  BY <1>1, EngagedIsFree DEF OneExecutor, OnRun, Live
<1>7. LiveIsYounger'
  <2> SUFFICES ASSUME NEW d \in Executors, Live(d)'
               PROVE  Younger(d, runOf[d])'
    BY DEF LiveIsYounger, Younger
  <2>1. CASE d = e
    BY <1>1, <1>2, <1>3, <1>4, <2>1 DEF Younger
  <2>2. CASE d # e
    <3>1. Live(d) /\ runOf[d] # r /\ runOf[d] \in Runs
      BY <1>1, <2>2, EngagedIsFree DEF OnRun, Live
    <3> QED BY <1>1, <1>2, <2>2, <3>1 DEF LiveIsYounger, Younger
  <2> QED BY <2>1, <2>2
<1>8. PausesAreKept'
  BY <1>1 DEF PausesAreKept
<1>9. ClosedIsQuiet'
  <2> SUFFICES ASSUME NEW s \in Runs, closed'[s]
               PROVE  Quiet(s)'
    BY DEF ClosedIsQuiet
  <2>1. s # r /\ Quiet(s)
    BY <1>1, <1>2 DEF ClosedIsQuiet, Quiet
  <2>2. \A d \in Executors : ~OnRun(d, s)'
    BY <1>1, <2>1 DEF Quiet, OnRun, Live
  <2>3. ~Unresolved(s)'
    BY <1>1, <2>1, <2>2 DEF Quiet, Unresolved, OnRun, Live
  <2> QED BY <1>2, <2>1, <2>2, <2>3 DEF Quiet
<1> QED BY <1>5, <1>6, <1>7, <1>8, <1>9

\* While an executor drives a run no other does, and the run is not closed.
LEMMA DrivenAlone ==
  ASSUME LeaseInv, NEW e \in Executors, Live(e)
  PROVE  /\ runOf[e] \in Runs /\ ~closed[runOf[e]] /\ status[runOf[e]] = "running"
         /\ \A d \in Executors : d # e => ~OnRun(d, runOf[e])
BY DEF LeaseInv, TypeOK, OneExecutor, ClosedIsQuiet, OnRun, LiveIsYounger, Younger, Quiet

LEMMA GraphLease ==
  ASSUME LeaseInv, TypeOK', NEW e \in Executors, BeginTool(e) \/ EndTool(e) \/ GraphEnds(e)
  PROVE  LeaseInv'
<1> USE DEF LeaseInv, TypeOK, rowVars, configVars, opVars, execVars
<1>1. /\ Live(e) /\ Live(e)'
      /\ \A d \in Executors : d # e => pc'[d] = pc[d] /\ verdict'[d] = verdict[d]
      /\ UNCHANGED <<runOf, segAge, rowVars, configVars>>
  BY DEF BeginTool, EndTool, GraphEnds, Live
<1>2. \A d \in Executors : Live(d)' <=> Live(d)
  BY <1>1 DEF Live
<1>3. /\ \A r \in Runs : r # runOf[e] => unknown'[r] = unknown[r] /\ stranded'[r] = stranded[r]
      /\ ~closed[runOf[e]]
  BY <1>1, DrivenAlone DEF BeginTool, EndTool, GraphEnds
<1>4. MarkersCoherent'
  BY <1>1 DEF MarkersCoherent, Coherent
<1>5. OneExecutor' /\ LiveIsYounger'
  BY <1>1, <1>2 DEF OneExecutor, LiveIsYounger, Younger
<1>6. PausesAreKept'
  BY DEF PausesAreKept, BeginTool, EndTool, GraphEnds
<1>7. ClosedIsQuiet'
  <2> SUFFICES ASSUME NEW r \in Runs, closed'[r]
               PROVE  Quiet(r)'
    BY DEF ClosedIsQuiet
  <2>1. /\ closed[r] /\ r # runOf[e] /\ status[r] = "failed" /\ ~Unresolved(r)
        /\ \A d \in Executors : ~OnRun(d, r)
    BY <1>1, <1>3 DEF ClosedIsQuiet, Quiet
  <2>2. \A d \in Executors : ~OnRun(d, r)'
    BY <1>1, <1>2, <2>1 DEF OnRun
  <2>3. ~Unresolved(r)'
    BY <1>1, <1>3, <2>1, <2>2 DEF Unresolved, OnRun, Live
  <2> QED BY <1>1, <2>1, <2>2, <2>3 DEF Quiet
<1> QED BY <1>4, <1>5, <1>6, <1>7

\* The transactions that end a segment touch only the run of their executor.
\* The markers that a finalizer leaves behind.
LEMMA ConcludeMarkers ==
  ASSUME TypeOK, NEW r \in Runs, NEW v \in Terminal, Conclude(r, v), Coherent(r)
  PROVE  Coherent(r)'
<1> USE DEF TypeOK, Terminal, NoLease
<1>1. status'[r] \in Terminal
  BY DEF Conclude
<1>2. ~resuming'[r] /\ leaseAge'[r] = NoLease /\ ~pending'[r] /\ paused'[r] # "yes"
  <2>1. CASE paused[r] = "unset"
    <3>1. ~pending[r] /\ ~resuming[r] /\ leaseAge[r] = NoLease
      BY <2>1 DEF Coherent
    <3> QED BY <2>1, <3>1 DEF Conclude, ClearMarkers, configVars
  <2>2. CASE paused[r] # "unset"
    BY <2>2 DEF Conclude, ClearMarkers
  <2> QED BY <2>1, <2>2
<1> QED BY <1>1, <1>2 DEF Coherent

LEMMA LeaveLease ==
  ASSUME LeaseInv, TypeOK', NEW e \in Executors,
         FinalizeResult(e) \/ FinalizeException(e) \/ RecordPause(e) \/ SaveFails(e)
  PROVE  LeaseInv'
<1> USE DEF LeaseInv, TypeOK, rowVars, configVars, opVars, execVars
<1>1. Leave(e) /\ Live(e)
  BY DEF FinalizeResult, FinalizeException, RecordPause, SaveFails, Leave, Live
<1>r. PICK r \in Runs : r = runOf[e]
  BY <1>1 DEF Live
<1>2. /\ ~Live(e)' /\ verdict'[e] = "none"
      /\ \A d \in Executors : d # e => /\ pc'[d] = pc[d] /\ runOf'[d] = runOf[d]
                                       /\ verdict'[d] = verdict[d] /\ segAge'[d] = segAge[d]
  BY <1>1 DEF Leave, Live
<1>3. /\ ~closed[r] /\ status[r] = "running"
      /\ \A d \in Executors : d # e => ~OnRun(d, r)
  BY <1>1, <1>r, DrivenAlone
<1>4. /\ UNCHANGED <<checkpointed, runAge, unknown, stranded>>
      /\ ~closed'[r]
      /\ \A s \in Runs : s # r => /\ status'[s] = status[s] /\ closed'[s] = closed[s]
                                 /\ paused'[s] = paused[s] /\ resuming'[s] = resuming[s]
                                 /\ leaseAge'[s] = leaseAge[s] /\ pending'[s] = pending[s]
  <2>1. CASE FinalizeResult(e) \/ FinalizeException(e)
    <3>1. PICK v : Conclude(r, v)
      BY <1>r, <2>1 DEF FinalizeResult, FinalizeException
    <3> QED BY <1>3, <3>1 DEF Conclude, ClearMarkers
  <2>2. CASE RecordPause(e)
    BY <1>r, <1>3, <2>2 DEF RecordPause
  <2>3. CASE SaveFails(e)
    BY <1>3, <2>3 DEF SaveFails
  <2> QED BY <2>1, <2>2, <2>3
<1>5. MarkersCoherent'
  <2>1. Coherent(r)
    BY <1>3 DEF MarkersCoherent
  <2>2. Coherent(r)'
    <3>1. CASE FinalizeResult(e) \/ FinalizeException(e)
      <4>1. PICK v \in Terminal : Conclude(r, v)
        BY <1>r, <3>1 DEF FinalizeResult, FinalizeException, Terminal
      <4> QED BY <1>3, <2>1, <4>1, ConcludeMarkers
    <3>2. CASE RecordPause(e)
      <4>1. checkpointed[r]
        BY <1>1, <1>r, <3>2 DEF RecordPause, PausesAreKept, LiveIsYounger, Younger
      <4>2. /\ paused'[r] = "yes" /\ ~resuming'[r] /\ leaseAge'[r] = NoLease /\ pending'[r]
            /\ status'[r] = "running" /\ checkpointed'[r]
        BY <1>r, <1>3, <3>2, <4>1 DEF RecordPause
      <4> QED BY <4>2 DEF Coherent
    <3>3. CASE SaveFails(e)
      BY <2>1, <3>3 DEF SaveFails, Coherent
    <3> QED BY <3>1, <3>2, <3>3
  <2>3. ASSUME NEW s \in Runs, s # r PROVE Coherent(s)'
    <3>1. Coherent(s)
      BY DEF MarkersCoherent
    <3> QED BY <1>4, <2>3, <3>1 DEF Coherent
  <2> QED BY <2>2, <2>3 DEF MarkersCoherent
<1>6. OneExecutor' /\ PausesAreKept'
  <2>1. OneExecutor'
    BY <1>2 DEF OneExecutor, Live
  <2>2. PausesAreKept'
    BY <1>2 DEF PausesAreKept
  <2> QED BY <2>1, <2>2
<1>7. LiveIsYounger'
  <2> SUFFICES ASSUME NEW d \in Executors, Live(d)'
               PROVE  Younger(d, runOf[d])'
    BY DEF LiveIsYounger
  <2>1. d # e /\ Live(d) /\ runOf[d] # r /\ runOf[d] \in Runs
    BY <1>2, <1>r, <1>3 DEF OnRun, Live
  <2>2. Younger(d, runOf[d])
    BY <2>1 DEF LiveIsYounger
  <2> QED BY <1>2, <1>4, <2>1, <2>2 DEF Younger
<1>8. ClosedIsQuiet'
  <2> SUFFICES ASSUME NEW s \in Runs, closed'[s]
               PROVE  Quiet(s)'
    BY DEF ClosedIsQuiet
  <2>1. s # r /\ Quiet(s)
    BY <1>4 DEF ClosedIsQuiet
  <2>2. \A d \in Executors : ~OnRun(d, s)'
    BY <1>2, <2>1 DEF Quiet, OnRun, Live
  <2>3. ~Unresolved(s)'
    BY <1>4, <2>1, <2>2 DEF Quiet, Unresolved, OnRun, Live
  <2> QED BY <1>4, <2>1, <2>2, <2>3 DEF Quiet
<1> QED BY <1>5, <1>6, <1>7, <1>8

LEMMA CrashLease ==
  ASSUME LeaseInv, TypeOK', NEW e \in Executors, Crash(e)
  PROVE  LeaseInv'
<1> USE DEF LeaseInv, TypeOK, rowVars, configVars
<1>1. /\ Live(e) /\ ~Live(e)'
      /\ \A d \in Executors : d # e => pc'[d] = pc[d]
      /\ UNCHANGED <<runOf, verdict, segAge, unknown, rowVars, configVars>>
      /\ \A r \in Runs : r # runOf[e] => stranded'[r] = stranded[r]
  BY DEF Crash, Live
<1>2. ~closed[runOf[e]]
  BY <1>1, DrivenAlone
<1>3. MarkersCoherent'
  BY <1>1 DEF MarkersCoherent, Coherent
<1>4. OneExecutor' /\ LiveIsYounger' /\ PausesAreKept'
  BY <1>1 DEF OneExecutor, LiveIsYounger, Younger, PausesAreKept, Live
<1>5. ClosedIsQuiet'
  <2> SUFFICES ASSUME NEW r \in Runs, closed'[r]
               PROVE  Quiet(r)'
    BY DEF ClosedIsQuiet
  <2>1. r # runOf[e] /\ Quiet(r)
    BY <1>1, <1>2 DEF ClosedIsQuiet
  <2>2. \A d \in Executors : ~OnRun(d, r)'
    BY <1>1, <2>1 DEF Quiet, OnRun, Live
  <2>3. ~Unresolved(r)'
    BY <1>1, <2>1, <2>2 DEF Quiet, Unresolved, OnRun, Live
  <2> QED BY <1>1, <2>1, <2>2, <2>3 DEF Quiet
<1> QED BY <1>3, <1>4, <1>5

\* With segments shorter than older_than, what the reconciler takes for stale has
\* no executor.
LEMMA StaleIsFree ==
  ASSUME LeaseInv, LeaseOutlivesSegment, NEW r \in Runs, Stale(r),
         ~checkpointed[r] \/ LeaseExpired(r)
  PROVE  \A e \in Executors : ~OnRun(e, r)
<1> SUFFICES ASSUME NEW e \in Executors, Live(e), runOf[e] = r PROVE FALSE
  BY DEF OnRun
<1> USE LifecycleAssumption DEF LeaseInv, TypeOK
<1>1. Younger(e, r) /\ Coherent(r)
  BY DEF LiveIsYounger, MarkersCoherent
<1>2. segAge[e] \in Nat /\ runAge[r] \in Nat /\ segAge[e] < OlderThan
  BY DEF LeaseOutlivesSegment
<1>3. runAge[r] > OlderThan
  BY DEF Stale
<1>4. CASE resuming[r]
  <2>1. leaseAge[r] \in Nat /\ leaseAge[r] <= segAge[e]
    BY <1>1, <1>4 DEF Coherent, Younger, NoLease
  <2>2. ~LeaseExpired(r)
    BY <1>2, <2>1 DEF LeaseExpired
  <2>3. checkpointed[r]
    BY <1>1, <1>4 DEF Coherent
  <2> QED BY <2>2, <2>3
<1>5. CASE ~resuming[r]
  BY <1>1, <1>2, <1>3, <1>5 DEF Younger
<1> QED BY <1>4, <1>5

LEMMA ReconcilerLease ==
  ASSUME LeaseInv, TypeOK', LeaseOutlivesSegment, NEW r \in Runs,
         \/ ReleaseClaim(r) \/ CloseStale(r) \/ CloseInconclusive(r)
         \/ RecoverUnknown(r)
  PROVE  LeaseInv'
<1> USE DEF LeaseInv, TypeOK, rowVars, configVars, opVars, execVars
<1>1. UNCHANGED <<execVars, checkpointed, model, runAge, resumeCount, stranded>>
  BY DEF ReleaseClaim, ReleaseMarkers, CloseStale, CloseInconclusive, CloseRow, RecoverUnknown
<1>2. \A d \in Executors : Live(d)' <=> Live(d)
  BY <1>1 DEF Live
<1>3. OneExecutor' /\ PausesAreKept'
  BY <1>1, <1>2 DEF OneExecutor, PausesAreKept
<1>4. CASE ReleaseClaim(r)
  <2>1. \A e \in Executors : ~OnRun(e, r)
    BY <1>4, StaleIsFree DEF ReleaseClaim
  <2>2. /\ paused'[r] = "yes" /\ ~resuming'[r] /\ leaseAge'[r] = NoLease
        /\ pending'[r] /\ status'[r] = "running" /\ checkpointed'[r]
        /\ UNCHANGED <<status, closed, unknown>>
        /\ \A s \in Runs : s # r => /\ paused'[s] = paused[s] /\ resuming'[s] = resuming[s]
                                   /\ leaseAge'[s] = leaseAge[s] /\ pending'[s] = pending[s]
    BY <1>4 DEF ReleaseClaim, ReleaseMarkers, Stale
  <2>3. MarkersCoherent'
    <3>1. Coherent(r)'
      BY <2>2 DEF Coherent
    <3>2. ASSUME NEW s \in Runs, s # r PROVE Coherent(s)'
      <4>1. Coherent(s)
        BY DEF MarkersCoherent
      <4> QED BY <1>1, <2>2, <3>2, <4>1 DEF Coherent
    <3> QED BY <3>1, <3>2 DEF MarkersCoherent
  <2>4. LiveIsYounger'
    BY <1>1, <1>2, <2>1, <2>2 DEF LiveIsYounger, Younger, OnRun
  <2>5. ClosedIsQuiet'
    BY <1>1, <1>2, <2>2 DEF ClosedIsQuiet, Quiet, Unresolved, OnRun
  <2> QED BY <1>3, <2>3, <2>4, <2>5
<1>5. CASE CloseStale(r) \/ CloseInconclusive(r)
  <2>1. \A e \in Executors : ~OnRun(e, r)
    BY <1>5, StaleIsFree DEF CloseStale, CloseInconclusive
  <2>2. /\ status[r] = "running" /\ status'[r] = "failed" /\ ~pending[r]
        /\ UNCHANGED configVars
        /\ \A s \in Runs : s # r => /\ status'[s] = status[s] /\ closed'[s] = closed[s]
                                   /\ unknown'[s] = unknown[s]
    BY <1>5 DEF CloseStale, CloseInconclusive, CloseRow, Stale, MarkersCoherent, Coherent
  <2>3. ~Unresolved(r)'
    <3>1. CASE CloseStale(r)
      BY <1>1, <3>1 DEF CloseStale, Unresolved
    <3>2. CASE CloseInconclusive(r)
      BY <1>1, <3>2 DEF CloseInconclusive, Unresolved
    <3> QED BY <1>5, <3>1, <3>2
  <2>4. MarkersCoherent'
    <3>1. Coherent(r)'
      BY <1>1, <2>2 DEF MarkersCoherent, Coherent
    <3>2. ASSUME NEW s \in Runs, s # r PROVE Coherent(s)'
      <4>1. Coherent(s)
        BY DEF MarkersCoherent
      <4> QED BY <1>1, <2>2, <3>2, <4>1 DEF Coherent
    <3> QED BY <3>1, <3>2 DEF MarkersCoherent
  <2>5. LiveIsYounger'
    BY <1>1, <1>2, <2>1, <2>2 DEF LiveIsYounger, Younger, OnRun
  <2>6. ClosedIsQuiet'
    <3> SUFFICES ASSUME NEW s \in Runs, closed'[s] PROVE Quiet(s)'
      BY DEF ClosedIsQuiet
    <3>1. CASE s = r
      BY <1>1, <1>2, <2>1, <2>2, <2>3, <3>1 DEF Quiet, OnRun
    <3>2. CASE s # r
      <4>1. Quiet(s)
        BY <2>2, <3>2 DEF ClosedIsQuiet
      <4> QED BY <1>1, <1>2, <2>2, <3>2, <4>1 DEF Quiet, Unresolved, OnRun
    <3> QED BY <3>1, <3>2
  <2> QED BY <1>3, <2>4, <2>5, <2>6
<1>6. CASE RecoverUnknown(r)
  <2>1. /\ UNCHANGED <<status, closed, configVars>>
        /\ \A s \in Runs : unknown'[s] => unknown[s]
    BY <1>6 DEF RecoverUnknown
  <2>2. MarkersCoherent' /\ LiveIsYounger'
    BY <1>1, <1>2, <2>1 DEF MarkersCoherent, Coherent, LiveIsYounger, Younger
  <2>3. ClosedIsQuiet'
    BY <1>1, <1>2, <2>1 DEF ClosedIsQuiet, Quiet, Unresolved, OnRun
  <2> QED BY <1>3, <2>2, <2>3
<1> QED BY <1>4, <1>5, <1>6

LEMMA TickLease ==
  ASSUME LeaseInv, TypeOK', Tick
  PROVE  LeaseInv'
<1> USE LifecycleAssumption DEF LeaseInv, TypeOK, opVars
<1>1. /\ UNCHANGED <<status, checkpointed, closed, paused, resuming, pending,
                    unknown, stranded, pc, runOf, verdict>>
  BY DEF Tick
<1>2. \A d \in Executors : Live(d)' <=> Live(d)
  BY <1>1 DEF Live
<1>3. MarkersCoherent'
  <2> SUFFICES ASSUME NEW r \in Runs PROVE Coherent(r)'
    BY DEF MarkersCoherent
  <2>1. leaseAge'[r] # NoLease <=> leaseAge[r] # NoLease
    BY DEF Tick, Older, NoLease
  <2> QED BY <1>1, <2>1 DEF MarkersCoherent, Coherent
<1>4. OneExecutor' /\ PausesAreKept'
  BY <1>1, <1>2 DEF OneExecutor, PausesAreKept
<1>5. ClosedIsQuiet'
  BY <1>1, <1>2 DEF ClosedIsQuiet, Quiet, Unresolved, OnRun
<1>6. LiveIsYounger'
  <2> SUFFICES ASSUME NEW e \in Executors, Live(e)' PROVE Younger(e, runOf[e])'
    BY DEF LiveIsYounger
  <2> DEFINE r == runOf[e]
  <2>1. Live(e) /\ r \in Runs /\ Younger(e, r) /\ Coherent(r)
    BY <1>2 DEF LiveIsYounger, MarkersCoherent
  <2>2. segAge'[e] = segAge[e] + 1 /\ segAge[e] \in Nat
    BY <2>1 DEF Tick
  <2>3. runAge'[r] <= runAge[r] + 1 /\ runAge[r] \in Nat /\ runAge'[r] \in Nat
    BY <2>1 DEF Tick, Older, Younger
  <2>4. CASE resuming[r]
    <3>1. leaseAge[r] # NoLease /\ leaseAge[r] \in 0 .. OlderThan + 1
      BY <2>1, <2>4 DEF Coherent
    <3>2. leaseAge'[r] = Older(leaseAge[r])
      BY <2>1, <3>1 DEF Tick
    <3>3. leaseAge'[r] <= segAge'[e]
      BY <2>1, <2>2, <2>4, <3>1, <3>2 DEF Older, Younger
    <3> QED BY <1>1, <2>1, <2>4, <3>3 DEF Younger
  <2>5. CASE ~resuming[r]
    BY <1>1, <2>1, <2>2, <2>3, <2>5 DEF Younger
  <2> QED BY <2>4, <2>5
<1> QED BY <1>3, <1>4, <1>5, <1>6

LEMMA NextLease ==
  ASSUME LeaseOutlivesSegment
  PROVE  LeaseInv /\ [Next]_vars => LeaseInv'
<1> SUFFICES ASSUME LeaseInv, [Next]_vars PROVE LeaseInv'
  OBVIOUS
<1>1. TypeOK'
  BY NextTypeOK DEF LeaseInv
<1>2. ASSUME NEW e \in Executors, NEW r \in Runs, Prepare(e, r) \/ Claim(e, r)
      PROVE  LeaseInv'
  BY <1>1, <1>2, EngageLease
<1>3. ASSUME NEW e \in Executors, BeginTool(e) \/ EndTool(e) \/ GraphEnds(e)
      PROVE  LeaseInv'
  BY <1>1, <1>3, GraphLease
<1>4. ASSUME NEW e \in Executors,
             FinalizeResult(e) \/ FinalizeException(e) \/ RecordPause(e) \/ SaveFails(e)
      PROVE  LeaseInv'
  BY <1>1, <1>4, LeaveLease
<1>5. ASSUME NEW e \in Executors, Crash(e) PROVE LeaseInv'
  BY <1>1, <1>5, CrashLease
<1>6. ASSUME NEW r \in Runs, \/ ReleaseClaim(r) \/ CloseStale(r) \/ CloseInconclusive(r)
                              \/ RecoverUnknown(r)
      PROVE  LeaseInv'
  BY <1>1, <1>6, ReconcilerLease
<1>7. ASSUME Tick PROVE LeaseInv'
  BY <1>1, <1>7, TickLease
<1>8. CASE UNCHANGED vars
  BY <1>8 DEF vars, LeaseInv, TypeOK, MarkersCoherent, Coherent, OneExecutor, LiveIsYounger,
              Younger, PausesAreKept, ClosedIsQuiet, Quiet, Unresolved, OnRun, Live
<1> QED BY <1>2, <1>3, <1>4, <1>5, <1>6, <1>7, <1>8 DEF Next, Step
-----------------------------------------------------------------------------
(***************************************************************************)
(* Theorems.                                                               *)
(***************************************************************************)

\* Every reachable state of runs, markers and executors is well-formed, whatever the
\* lengths of segments are.
THEOREM TypeCorrect == Spec => []TypeOK
<1>1. Init => TypeOK
  BY InitTypeOK
<1>2. TypeOK /\ [Next]_vars => TypeOK'
  BY NextTypeOK
<1> QED BY <1>1, <1>2, PTL DEF Spec

\* The ages of runs, claims and segments stay ordered, so the reconciler never
\* mistakes a working executor for a dead one.
THEOREM LeaseHolds == LeaseOutlivesSegment => (Spec => []LeaseInv)
<1> SUFFICES ASSUME LeaseOutlivesSegment PROVE Spec => []LeaseInv
  OBVIOUS
<1>1. Init => LeaseInv
  BY InitLease
<1>2. LeaseInv /\ [Next]_vars => LeaseInv'
  BY NextLease
<1> QED BY <1>1, <1>2, PTL DEF Spec

\* Two executors never drive the same run, provided that segments are shorter than
\* the reconciler's older_than.
THEOREM SingleExecutor == LeaseOutlivesSegment => (Spec => []OneExecutor)
<1>1. LeaseInv => OneExecutor
  BY DEF LeaseInv
<1> QED BY <1>1, LeaseHolds, PTL

\* Under the same proviso, what the reconciler closed is at rest: no executor can
\* still write to the run and none of its operations is open.
THEOREM ClosedRunsAreQuiet == LeaseOutlivesSegment => (Spec => []ClosedIsQuiet)
<1>1. LeaseInv => ClosedIsQuiet
  BY DEF LeaseInv
<1> QED BY <1>1, LeaseHolds, PTL

\* A step leaves alone the verdict of a run that has one.
LEMMA VerdictStep ==
  ASSUME LeaseInv, [Next]_vars, NEW r \in Runs, status[r] \in Terminal
  PROVE  status'[r] = status[r] /\ closed'[r] = closed[r]
<1> USE DEF LeaseInv, TypeOK, Terminal, rowVars, configVars, opVars, execVars
<1>1. \A e \in Executors : ~OnRun(e, r)
  BY DrivenAlone DEF OnRun
<1>2. ASSUME NEW e \in Executors, NEW s \in Runs, Prepare(e, s) \/ Claim(e, s)
      PROVE  status'[r] = status[r] /\ closed'[r] = closed[r]
  BY <1>2 DEF Prepare, Claim
<1>3. ASSUME NEW e \in Executors, Step(e)
      PROVE  status'[r] = status[r] /\ closed'[r] = closed[r]
  <2>1. CASE BeginTool(e) \/ EndTool(e) \/ GraphEnds(e) \/ SaveFails(e)
    BY <2>1 DEF BeginTool, EndTool, GraphEnds, SaveFails
  <2>2. CASE FinalizeResult(e) \/ FinalizeException(e) \/ RecordPause(e)
    <3>1. Live(e) /\ runOf[e] # r
      BY <1>1, <2>2 DEF FinalizeResult, FinalizeException, RecordPause, Leave, Live, OnRun
    <3> QED BY <2>2, <3>1 DEF FinalizeResult, FinalizeException, RecordPause, Conclude
  <2> QED BY <1>3, <2>1, <2>2 DEF Step
<1>4. ASSUME NEW e \in Executors, Crash(e)
      PROVE  status'[r] = status[r] /\ closed'[r] = closed[r]
  BY <1>4 DEF Crash
<1>5. ASSUME NEW s \in Runs, \/ ReleaseClaim(s) \/ CloseStale(s) \/ CloseInconclusive(s)
                              \/ RecoverUnknown(s)
      PROVE  status'[r] = status[r] /\ closed'[r] = closed[r]
  BY <1>5 DEF ReleaseClaim, CloseStale, CloseInconclusive, CloseRow, Stale, RecoverUnknown
<1>6. ASSUME Tick PROVE status'[r] = status[r] /\ closed'[r] = closed[r]
  BY <1>6 DEF Tick
<1>7. CASE UNCHANGED vars
  BY <1>7 DEF vars
<1> QED BY <1>2, <1>3, <1>4, <1>5, <1>6, <1>7 DEF Next

\* Under the same proviso no finalizer and no reconciliation replaces a verdict.
THEOREM VerdictsAreFinal == LeaseOutlivesSegment => (Spec => VerdictIsFinal)
<1> SUFFICES ASSUME LeaseOutlivesSegment PROVE Spec => VerdictIsFinal
  OBVIOUS
<1>1. LeaseInv /\ [Next]_vars =>
        [\A r \in Runs :
           status[r] \in Terminal => status'[r] = status[r] /\ closed'[r] = closed[r]]_vars
  BY VerdictStep
<1> QED BY <1>1, LeaseHolds, PTL DEF Spec, VerdictIsFinal

-----------------------------------------------------------------------------
(***************************************************************************)
(* Orphaned runs.  Nothing is assumed about the length of segments.        *)
(***************************************************************************)

\* resume_in_progress is only ever true of a run that is not paused.
ClaimedIsUnpaused == \A r \in Runs : resuming[r] => paused[r] = "no"

LEMMA NextClaimedIsUnpaused ==
  TypeOK /\ ClaimedIsUnpaused /\ [Next]_vars => ClaimedIsUnpaused'
<1> SUFFICES ASSUME TypeOK, ClaimedIsUnpaused, [Next]_vars, NEW r \in Runs, resuming'[r]
             PROVE  paused'[r] = "no"
  BY DEF ClaimedIsUnpaused
<1> USE DEF TypeOK, ClaimedIsUnpaused, configVars
<1>1. ASSUME NEW e \in Executors, NEW s \in Runs, Prepare(e, s) \/ Claim(e, s)
      PROVE  paused'[r] = "no"
  BY <1>1 DEF Prepare, Claim
<1>2. ASSUME NEW e \in Executors,
             BeginTool(e) \/ EndTool(e) \/ GraphEnds(e) \/ SaveFails(e) \/ Crash(e)
      PROVE  paused'[r] = "no"
  BY <1>2 DEF BeginTool, EndTool, GraphEnds, SaveFails, Crash
<1>3. ASSUME NEW e \in Executors, FinalizeResult(e) \/ FinalizeException(e)
      PROVE  paused'[r] = "no"
  BY <1>3 DEF FinalizeResult, FinalizeException, Conclude, ClearMarkers
<1>4. ASSUME NEW e \in Executors, RecordPause(e) PROVE paused'[r] = "no"
  BY <1>4 DEF RecordPause
<1>5. ASSUME NEW s \in Runs, \/ ReleaseClaim(s) \/ CloseStale(s) \/ CloseInconclusive(s)
                              \/ RecoverUnknown(s)
      PROVE  paused'[r] = "no"
  BY <1>5 DEF ReleaseClaim, ReleaseMarkers, CloseStale, CloseInconclusive, CloseRow, RecoverUnknown
<1>6. ASSUME Tick PROVE paused'[r] = "no"
  BY <1>6 DEF Tick
<1>7. CASE UNCHANGED vars
  BY <1>7 DEF vars
<1> QED BY <1>1, <1>2, <1>3, <1>4, <1>5, <1>6, <1>7 DEF Next, Step

LEMMA OrphanedStep ==
  ASSUME TypeOK, ClaimedIsUnpaused, [Next]_vars, NEW r \in Runs, Orphaned(r)
  PROVE  Orphaned(r)'
<1> USE DEF TypeOK, rowVars, configVars, opVars, execVars
<1>1. /\ status[r] = "running" /\ checkpointed[r] /\ paused[r] = "unset"
      /\ ~resuming[r] /\ \A e \in Executors : ~OnRun(e, r)
  BY DEF Orphaned, ClaimedIsUnpaused
<1>2. ASSUME NEW e \in Executors, NEW s \in Runs, Prepare(e, s) \/ Claim(e, s)
      PROVE  Orphaned(r)'
  <2>1. s # r
    BY <1>1, <1>2 DEF Prepare, Claim, Resumable
  <2>2. /\ status'[r] = status[r] /\ checkpointed'[r] = checkpointed[r] /\ paused'[r] = paused[r]
        /\ runOf'[e] = s
        /\ \A d \in Executors : d # e => pc'[d] = pc[d] /\ runOf'[d] = runOf[d]
    BY <1>2, <2>1 DEF Prepare, Claim, Engage
  <2> QED BY <1>1, <2>1, <2>2 DEF Orphaned, OnRun, Live
<1>3. ASSUME NEW e \in Executors,
             BeginTool(e) \/ EndTool(e) \/ GraphEnds(e) \/ Crash(e)
      PROVE  Orphaned(r)'
  <2>1. /\ UNCHANGED <<status, checkpointed, paused, runOf>>
        /\ \A d \in Executors : Live(d)' => Live(d)
    BY <1>3 DEF BeginTool, EndTool, GraphEnds, Crash, Live
  <2> QED BY <1>1, <2>1 DEF Orphaned, OnRun
<1>4. ASSUME NEW e \in Executors,
             FinalizeResult(e) \/ FinalizeException(e) \/ RecordPause(e) \/ SaveFails(e)
      PROVE  Orphaned(r)'
  <2>1. Leave(e) /\ Live(e) /\ runOf[e] # r /\ runOf[e] \in Runs
    BY <1>1, <1>4 DEF FinalizeResult, FinalizeException, RecordPause, SaveFails, Leave, Live, OnRun
  <2>2. \A d \in Executors : ~OnRun(d, r)'
    BY <1>1, <2>1 DEF Leave, Live, OnRun
  <2>3. status'[r] = status[r] /\ checkpointed'[r] = checkpointed[r] /\ paused'[r] = paused[r]
    BY <1>4, <2>1 DEF FinalizeResult, FinalizeException, RecordPause, SaveFails,
                      Conclude, ClearMarkers
  <2> QED BY <1>1, <2>2, <2>3 DEF Orphaned
<1>5. ASSUME NEW s \in Runs, \/ ReleaseClaim(s) \/ CloseStale(s) \/ CloseInconclusive(s)
                              \/ RecoverUnknown(s)
      PROVE  Orphaned(r)'
  <2>1. /\ status'[r] = status[r] /\ checkpointed'[r] = checkpointed[r] /\ paused'[r] = paused[r]
        /\ UNCHANGED <<pc, runOf>>
    BY <1>1, <1>5 DEF ReleaseClaim, ReleaseMarkers, CloseStale, CloseInconclusive, CloseRow,
                      RecoverUnknown
  <2> QED BY <1>1, <2>1 DEF Orphaned, OnRun, Live
<1>6. ASSUME Tick PROVE Orphaned(r)'
  BY <1>1, <1>6 DEF Tick, Orphaned, OnRun, Live
<1>7. CASE UNCHANGED vars
  BY <1>1, <1>7 DEF vars, Orphaned, OnRun, Live
<1> QED BY <1>2, <1>3, <1>4, <1>5, <1>6, <1>7 DEF Next, Step

\* A checkpointed run whose executor died before the first pause stays running for
\* ever: no resume, no release and no reconciliation ever applies to it.
THEOREM OrphansStay == Spec => OrphanedForever
<1>1. Init => ClaimedIsUnpaused
  BY DEF Init, ClaimedIsUnpaused
<1>2. TypeOK /\ ClaimedIsUnpaused /\ [Next]_vars => ClaimedIsUnpaused'
  BY NextClaimedIsUnpaused
<1>3. TypeOK /\ ClaimedIsUnpaused /\ [Next]_vars =>
        [\A r \in Runs : Orphaned(r) => Orphaned(r)']_vars
  BY OrphanedStep
<1> QED BY <1>1, <1>2, <1>3, TypeCorrect, PTL DEF Spec, OrphanedForever

-----------------------------------------------------------------------------
(* The refinement of RunOwnership, when segments are shorter than          *)
(* older_than.                                                             *)

\* The driver of a run is the executor that works on it.
DriverIsKnown ==
  \A r \in Runs :
    /\ \A e \in Executors : OnRun(e, r) =>
         Driver(r) = e /\ PhaseOf(r) = "owned"
    /\ (\A e \in Executors : ~OnRun(e, r)) => Driver(r) = Nobody /\ ~Driven(r)

\* The lease invariant makes the driver unique.
LEMMA DriverNow == LeaseInv => DriverIsKnown
<1> SUFFICES ASSUME LeaseInv, NEW r \in Runs
             PROVE  /\ \A e \in Executors : OnRun(e, r) =>
                         Driver(r) = e /\ PhaseOf(r) = "owned"
                    /\ (\A e \in Executors : ~OnRun(e, r)) => Driver(r) = Nobody /\ ~Driven(r)
  BY DEF DriverIsKnown
<1>1. ASSUME NEW e \in Executors, OnRun(e, r)
      PROVE  Driver(r) = e /\ PhaseOf(r) = "owned"
  <2>1. Driven(r)
    BY <1>1 DEF Driven
  <2>2. \A d \in Executors : OnRun(d, r) => d = e
    BY <1>1 DEF LeaseInv, OneExecutor, OnRun
  <2>3. Driver(r) = e
    BY <1>1, <2>1, <2>2 DEF Driver
  <2>4. status[r] = "running"
    BY <1>1, DrivenAlone DEF OnRun
  <2> QED BY <2>1, <2>3, <2>4 DEF PhaseOf, Terminal
<1>2. (\A e \in Executors : ~OnRun(e, r)) => Driver(r) = Nobody /\ ~Driven(r)
  BY DEF Driver, Driven
<1> QED BY <1>1, <1>2

\* The same after a step.
LEMMA DriverNext == LeaseInv' => DriverIsKnown'
BY DriverNow, PTL

\* A run whose status, marker and executors a step leaves alone stays where it is.
LEMMA Untouched ==
  ASSUME LeaseInv, LeaseInv', NEW r \in Runs,
         status'[r] = status[r], paused'[r] = paused[r],
         \A e \in Executors : OnRun(e, r)' <=> OnRun(e, r)
  PROVE  PhaseOf(r)' = PhaseOf(r) /\ Driver(r)' = Driver(r)
<1> USE DriverNow, DriverNext DEF DriverIsKnown
<1>1. CASE \E e \in Executors : OnRun(e, r)
  <2>1. PICK e \in Executors : OnRun(e, r)
    BY <1>1
  <2>2. OnRun(e, r)'
    BY <2>1
  <2> QED BY <2>1, <2>2
<1>2. CASE \A e \in Executors : ~OnRun(e, r)
  <2>1. /\ Driver(r) = Nobody /\ ~Driven(r)
        /\ Driver(r)' = Nobody /\ ~Driven(r)'
    BY <1>2
  <2> QED BY <2>1 DEF PhaseOf
<1> QED BY <1>1, <1>2

\* A step that leaves all of them alone is a stutter of RunOwnership.
LEMMA Stutter ==
  ASSUME LeaseInv, LeaseInv', status' = status, paused' = paused,
         \A e \in Executors, r \in Runs : OnRun(e, r)' <=> OnRun(e, r)
  PROVE  [Ownership!Next]_<<[r \in Runs |-> PhaseOf(r)], [r \in Runs |-> Driver(r)]>>
<1>1. \A r \in Runs : PhaseOf(r)' = PhaseOf(r) /\ Driver(r)' = Driver(r)
  BY Untouched
<1> QED BY <1>1

\* A step that moves one run is a step of RunOwnership.
LEMMA MoveOne ==
  ASSUME LeaseInv, LeaseInv', NEW r \in Runs, NEW who,
         PhaseOf(r)' # PhaseOf(r), Driver(r)' = who,
         \A s \in Runs : s # r =>
           /\ status'[s] = status[s] /\ paused'[s] = paused[s]
           /\ \A e \in Executors : OnRun(e, s)' <=> OnRun(e, s)
  PROVE  Ownership!Move(r, PhaseOf(r), PhaseOf(r)', who)
<1>1. \A s \in Runs : s # r => PhaseOf(s)' = PhaseOf(s) /\ Driver(s)' = Driver(s)
  BY Untouched
<1> QED BY <1>1 DEF Ownership!Move
\* The steps of RunOwnership, by the phases they connect.
LEMMA MoveIsStep ==
  ASSUME NEW r \in Runs, NEW from, NEW to, NEW who, Ownership!Move(r, from, to, who),
         \/ from \in {"new", "paused"} /\ to = "owned" /\ who \in Executors
         \/ from = "owned" /\ to \in {"paused", "over", "lost"} /\ who = Nobody
         \/ from = "lost" /\ to \in {"paused", "over"} /\ who = Nobody
  PROVE  Ownership!Next
BY DEF Ownership!Next, Ownership!Start, Ownership!Take, Ownership!Yield, Ownership!Finish,
       Ownership!Lose, Ownership!Reopen, Ownership!Close

\* _prepare_run starts a run, _claim_resume takes a paused one.
LEMMA EngageOwns ==
  ASSUME LeaseInv, LeaseInv', NEW e \in Executors, NEW r \in Runs,
         Prepare(e, r) \/ Claim(e, r)
  PROVE  Ownership!Next
<1> USE DEF LeaseInv, TypeOK
<1>1. \A d \in Executors : ~OnRun(d, r)
  BY EngagedIsFree
<1>2. /\ pc[e] = "idle" /\ pc'[e] = "executing" /\ runOf'[e] = r
      /\ \A d \in Executors : d # e => pc'[d] = pc[d] /\ runOf'[d] = runOf[d]
      /\ \A s \in Runs : s # r => status'[s] = status[s] /\ paused'[s] = paused[s]
  BY DEF Prepare, Claim, Engage, configVars
<1>3. PhaseOf(r) \in {"new", "paused"}
  <2>1. CASE Prepare(e, r)
    BY <2>1 DEF Prepare, PhaseOf, Terminal
  <2>2. CASE Claim(e, r)
    <3>1. status[r] = "running" /\ paused[r] = "yes"
      BY <2>2 DEF Claim, Resumable
    <3>2. ~Driven(r)
      BY <1>1 DEF Driven
    <3> QED BY <3>1, <3>2 DEF PhaseOf, Terminal
  <2> QED BY <2>1, <2>2
<1>4. Driver(r)' = e /\ PhaseOf(r)' = "owned"
  BY <1>2, DriverNext DEF DriverIsKnown, OnRun, Live
<1>5. \A s \in Runs : s # r => \A d \in Executors : OnRun(d, s)' <=> OnRun(d, s)
  BY <1>2 DEF OnRun, Live
<1>6. Ownership!Move(r, PhaseOf(r), PhaseOf(r)', e)
  BY <1>2, <1>3, <1>4, <1>5, MoveOne
<1> QED BY <1>3, <1>4, <1>6, MoveIsStep

\* The end of a segment, and a crash, give the run away.
LEMMA DepartureOwns ==
  ASSUME LeaseInv, LeaseInv', NEW e \in Executors,
         \/ FinalizeResult(e) \/ FinalizeException(e) \/ RecordPause(e)
         \/ SaveFails(e) \/ Crash(e)
  PROVE  Ownership!Next
<1> USE DEF LeaseInv, TypeOK, rowVars, configVars
<1>1. Live(e) /\ ~Live(e)'
      /\ \A d \in Executors : d # e => pc'[d] = pc[d] /\ runOf'[d] = runOf[d]
  BY DEF FinalizeResult, FinalizeException, RecordPause, SaveFails, Crash, Leave, Live
<1>2. PICK r \in Runs : r = runOf[e]
  BY <1>1
<1>3. /\ PhaseOf(r) = "owned" /\ status[r] = "running" /\ paused[r] # "yes"
      /\ \A d \in Executors : d # e => ~OnRun(d, r)
  <2>1. PhaseOf(r) = "owned"
    BY <1>1, <1>2, DriverNow DEF DriverIsKnown, OnRun
  <2>2. Younger(e, r) /\ Coherent(r)
    BY <1>1, <1>2 DEF LiveIsYounger, MarkersCoherent
  <2> QED BY <1>1, <1>2, <2>1, <2>2, DrivenAlone DEF Younger, Coherent
<1>4. \A d \in Executors : ~OnRun(d, r)'
  BY <1>1, <1>3 DEF OnRun, Live
<1>5. Driver(r)' = Nobody /\ ~Driven(r)'
  BY <1>4, DriverNext DEF DriverIsKnown
<1>6. \A s \in Runs : s # r =>
        /\ status'[s] = status[s] /\ paused'[s] = paused[s]
        /\ \A d \in Executors : OnRun(d, s)' <=> OnRun(d, s)
  <2>1. \A s \in Runs : s # r => status'[s] = status[s] /\ paused'[s] = paused[s]
    BY <1>2 DEF FinalizeResult, FinalizeException, RecordPause, SaveFails, Crash,
                Conclude, ClearMarkers
  <2> QED BY <1>1, <1>2, <2>1 DEF OnRun, Live
<1>7. PhaseOf(r)' \in {"over", "paused", "lost"}
  <2>1. CASE FinalizeResult(e) \/ FinalizeException(e)
    <3>1. status'[r] \in Terminal
      BY <1>2, <2>1 DEF FinalizeResult, FinalizeException, Conclude, Terminal
    <3> QED BY <3>1 DEF PhaseOf, Terminal
  <2>2. CASE RecordPause(e) \/ SaveFails(e) \/ Crash(e)
    <3>1. status'[r] = "running"
      BY <1>2, <1>3, <2>2 DEF RecordPause, SaveFails, Crash
    <3> QED BY <1>5, <3>1 DEF PhaseOf, Terminal
  <2> QED BY <2>1, <2>2
<1>8. Ownership!Move(r, PhaseOf(r), PhaseOf(r)', Nobody)
  BY <1>3, <1>5, <1>6, <1>7, MoveOne
<1> QED BY <1>3, <1>7, <1>8, MoveIsStep

\* The reconciler reopens or closes lost runs only.
LEMMA ReconcilerOwns ==
  ASSUME LeaseInv, LeaseInv', LeaseOutlivesSegment, NEW r \in Runs,
         ReleaseClaim(r) \/ CloseStale(r) \/ CloseInconclusive(r)
  PROVE  Ownership!Next
<1> USE DEF LeaseInv, TypeOK, rowVars, configVars, execVars
<1>1. \A d \in Executors : ~OnRun(d, r)
  BY StaleIsFree DEF ReleaseClaim, CloseStale, CloseInconclusive
<1>2. UNCHANGED <<pc, runOf>>
  BY DEF ReleaseClaim, CloseStale, CloseInconclusive, CloseRow
<1>3. \A d \in Executors, s \in Runs : OnRun(d, s)' <=> OnRun(d, s)
  BY <1>2 DEF OnRun, Live
<1>4. Driver(r)' = Nobody /\ ~Driven(r) /\ ~Driven(r)'
  BY <1>1, <1>3, DriverNow, DriverNext DEF DriverIsKnown
<1>5. /\ status[r] = "running" /\ paused[r] # "yes"
      /\ \/ status'[r] = "failed"
         \/ status'[r] = "running" /\ paused'[r] = "yes"
  BY DEF ReleaseClaim, ReleaseMarkers, CloseStale, CloseInconclusive, CloseRow, Stale,
         MarkersCoherent, Coherent
<1>6. PhaseOf(r) = "lost" /\ PhaseOf(r)' \in {"paused", "over"}
  BY <1>4, <1>5 DEF PhaseOf, Terminal
<1>7. \A s \in Runs : s # r => status'[s] = status[s] /\ paused'[s] = paused[s]
  BY DEF ReleaseClaim, ReleaseMarkers, CloseStale, CloseInconclusive, CloseRow
<1>8. Ownership!Move(r, PhaseOf(r), PhaseOf(r)', Nobody)
  BY <1>3, <1>4, <1>6, <1>7, MoveOne
<1> QED BY <1>6, <1>8, MoveIsStep

\* With segments shorter than older_than, AgentRuntime and StaleRunReconciler keep the
\* promise of RunOwnership: a run changes hands only when it is paused, or lost and
\* reopened.
THEOREM OwnershipKept == LeaseOutlivesSegment => (Spec => KeepsOwnership)
<1> DEFINE phase == [r \in Runs |-> PhaseOf(r)]
           owner == [r \in Runs |-> Driver(r)]
<1> SUFFICES ASSUME LeaseOutlivesSegment PROVE Spec => KeepsOwnership
  OBVIOUS
<1>1. Init => Ownership!Init
  <2> SUFFICES ASSUME Init PROVE Ownership!Init
    OBVIOUS
  <2>1. \A r \in Runs : PhaseOf(r) = "new" /\ Driver(r) = Nobody
    <3> SUFFICES ASSUME NEW r \in Runs PROVE PhaseOf(r) = "new" /\ Driver(r) = Nobody
      OBVIOUS
    <3>1. status[r] = "absent"
      BY DEF Init
    <3>2. ~Driven(r)
      BY DEF Init, Driven, OnRun, Live
    <3> QED BY <3>1, <3>2 DEF PhaseOf, Driver, Terminal
  <2> QED BY <2>1 DEF Ownership!Init
<1>2. LeaseInv /\ LeaseInv' /\ [Next]_vars => [Ownership!Next]_<<phase, owner>>
  <2> SUFFICES ASSUME LeaseInv, LeaseInv', [Next]_vars
               PROVE  [Ownership!Next]_<<phase, owner>>
    OBVIOUS
  <2>1. ASSUME NEW e \in Executors, NEW r \in Runs, Prepare(e, r) \/ Claim(e, r)
        PROVE  Ownership!Next
    BY <2>1, EngageOwns
  <2>2. ASSUME NEW e \in Executors,
               \/ FinalizeResult(e) \/ FinalizeException(e) \/ RecordPause(e)
               \/ SaveFails(e) \/ Crash(e)
        PROVE  Ownership!Next
    BY <2>2, DepartureOwns
  <2>3. ASSUME NEW r \in Runs, ReleaseClaim(r) \/ CloseStale(r) \/ CloseInconclusive(r)
        PROVE  Ownership!Next
    BY <2>3, ReconcilerOwns
  <2>4. ASSUME NEW e \in Executors, BeginTool(e) \/ EndTool(e) \/ GraphEnds(e)
        PROVE  [Ownership!Next]_<<phase, owner>>
    <3>1. /\ status' = status /\ paused' = paused
          /\ \A d \in Executors, r \in Runs : OnRun(d, r)' <=> OnRun(d, r)
      BY <2>4 DEF BeginTool, EndTool, GraphEnds, rowVars, configVars, OnRun, Live,
                  LeaseInv, TypeOK
    <3> QED BY <3>1, Stutter
  <2>5. ASSUME \/ \E r \in Runs : RecoverUnknown(r)
               \/ Tick
               \/ UNCHANGED vars
        PROVE  [Ownership!Next]_<<phase, owner>>
    <3>1. /\ status' = status /\ paused' = paused
          /\ \A d \in Executors, r \in Runs : OnRun(d, r)' <=> OnRun(d, r)
      BY <2>5 DEF RecoverUnknown, Tick, vars, rowVars, configVars, execVars, OnRun, Live
    <3> QED BY <3>1, Stutter
  <2> QED BY <2>1, <2>2, <2>3, <2>4, <2>5 DEF Next, Step
<1>3. Spec => []LeaseInv
  BY LeaseHolds
<1> QED BY <1>1, <1>2, <1>3, PTL DEF Spec, KeepsOwnership, Ownership!Spec
=============================================================================
