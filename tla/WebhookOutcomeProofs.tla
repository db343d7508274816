------------------------ MODULE WebhookOutcomeProofs ------------------------
(***************************************************************************)
(* Proofs about what the row of a triggered webhook says, for every set of *)
(* requests, webhooks, processes and workers and every retry schedule; and *)
(* that WebhookJobs implements the safety part of WebhookDelivery.         *)
(***************************************************************************)
EXTENDS WebhookJobsProofs, FiniteSetTheorems

-----------------------------------------------------------------------------
(* What a row says is true *)

\* The workers that have sent a request for t and have not saved its execution yet.
Unsaved(t) == {w \in Workers : worker[w].pc = "record" /\ worker[w].tw = t}

\* The request of w was accepted.
Accepted(w) ==
    \/ worker[w].pc = "succeeded"
    \/ worker[w].pc = "record" /\ worker[w].result = "accepted"

\* A request precedes its execution, and a success on its way to the row follows
\* an accepted request.
Truthful ==
    /\ \A t \in Triggered : executions[t] + Cardinality(Unsaved(t)) <= attempts[t]
    /\ \A t \in Triggered : status[t] = "success" => delivered[t] > 0
    /\ \A w \in Workers : Accepted(w) => delivered[worker[w].tw] > 0

RInv == TypeOK /\ BusyHasJob /\ Truthful

LEMMA RInvInit == Init => RInv
  <1> SUFFICES ASSUME Init PROVE RInv
    OBVIOUS
  <1>1. TypeOK /\ BusyHasJob
    BY TypeInit DEF Init, BusyHasJob, Idle
  <1>2. \A t \in Triggered : Unsaved(t) = {}
    BY DEF Init, Unsaved, Idle
  <1>3. \A t \in Triggered : executions[t] + Cardinality(Unsaved(t)) <= attempts[t]
    <2>1. \A t \in Triggered : Cardinality(Unsaved(t)) = 0
      BY <1>2, FS_EmptySet
    <2>2. \A t \in Triggered : executions[t] = 0 /\ attempts[t] = 0
      BY DEF Init
    <2> QED BY <2>1, <2>2
  <1>4. \A w \in Workers : ~Accepted(w)
    BY DEF Init, Accepted, Idle
  <1> QED BY <1>1, <1>3, <1>4 DEF RInv, Truthful, Init

\* The unsaved requests can be counted.
LEMMA UnsavedCount ==
  ASSUME NEW t
  PROVE  IsFiniteSet(Unsaved(t)) /\ Cardinality(Unsaved(t)) \in Nat
  BY WorkersAssumption, FS_Subset, FS_CardinalityType DEF Unsaved

\* A step that sends nothing and saves nothing.
LEMMA TruthfulKept ==
  ASSUME RInv, TypeOK',
         \A t \in Triggered :
            /\ executions'[t] <= executions[t] /\ attempts'[t] = attempts[t]
            /\ delivered'[t] = delivered[t] /\ Unsaved(t)' \subseteq Unsaved(t)
            /\ status'[t] = "success" => status[t] = "success" \/ delivered[t] > 0,
         \A w \in Workers : Accepted(w)' => Accepted(w) /\ worker'[w].tw = worker[w].tw
  PROVE  Truthful'
  <1>1. ASSUME NEW t \in Triggered
        PROVE  executions'[t] + Cardinality(Unsaved(t)') <= attempts'[t]
    <2>1. Cardinality(Unsaved(t)') <= Cardinality(Unsaved(t))
      BY UnsavedCount, FS_Subset
    <2>2. Cardinality(Unsaved(t)') \in Nat /\ Cardinality(Unsaved(t)) \in Nat
      BY UnsavedCount, FS_Subset, FS_CardinalityType
    <2>3. executions[t] + Cardinality(Unsaved(t)) <= attempts[t]
      BY DEF RInv, Truthful
    <2>4. /\ executions[t] \in Nat /\ executions'[t] \in Nat /\ attempts[t] \in Nat
          /\ executions'[t] <= executions[t] /\ attempts'[t] = attempts[t]
      BY DEF RInv, TypeOK
    <2> QED BY <2>1, <2>2, <2>3, <2>4
  <1>2. \A w \in Workers : Accepted(w) => worker[w].tw \in Triggered
    BY DEF RInv, BusyHasJob, Accepted
  <1>3. \A w \in Workers : Accepted(w)' => delivered'[worker'[w].tw] > 0
    BY <1>2 DEF RInv, Truthful
  <1>4. \A t \in Triggered : status'[t] = "success" => delivered'[t] > 0
    BY DEF RInv, Truthful
  <1> QED BY <1>1, <1>3, <1>4 DEF Truthful

\* A worker that goes on changes only its own state.
LEMMA GotoFacts ==
  ASSUME TypeOK, NEW w \in Workers, NEW pc, Goto(w, pc)
  PROVE  /\ worker'[w] = [worker[w] EXCEPT !.pc = pc]
         /\ worker'[w].pc = pc /\ worker'[w].tw = worker[w].tw
         /\ worker'[w].errors = worker[w].errors /\ worker'[w].loaded = worker[w].loaded
         /\ worker'[w].result = worker[w].result
         /\ \A v \in Workers : v # w => worker'[v] = worker[v]
  <1>1. worker[w] \in Job
    BY DEF TypeOK
  <1> QED BY <1>1 DEF Goto, TypeOK, Job

LEMMA RaiseFacts ==
  ASSUME TypeOK, NEW w \in Workers, RaiseFromUpdate(w)
  PROVE  /\ \/ worker[w].pc = "marking_rescued" /\ worker'[w] = Idle
            \/ /\ worker'[w].pc = "error" /\ worker'[w].tw = worker[w].tw
               /\ worker'[w].errors = worker[w].errors /\ worker'[w].loaded = "deleted"
         /\ \A v \in Workers : v # w => worker'[v] = worker[v]
  <1>1. worker[w] \in Job
    BY DEF TypeOK
  <1> QED BY <1>1 DEF RaiseFromUpdate, TypeOK, Job

LEMMA RInvNext == RInv /\ [Next]_vars => RInv'
  <1> SUFFICES ASSUME RInv, [Next]_vars PROVE RInv'
    OBVIOUS
  <1>1. TypeOK' /\ BusyHasJob'
    BY TypeNext, BusyHasJobNext DEF RInv
  <1>2. SUFFICES Truthful'
    BY <1>1 DEF RInv
  <1> USE DEF history
  <1>3. ASSUME UNCHANGED <<attempts, delivered, worker>>,
               \A t \in Triggered : executions'[t] <= executions[t],
               \A t \in Triggered : status'[t] = "success" => status[t] = "success"
        PROVE  Truthful'
    BY <1>1, <1>3, TruthfulKept DEF Unsaved, Accepted
  <1>4. executions \in [Triggered -> Nat]
    BY DEF RInv, TypeOK
  <1>5. CASE Administration
    <2>1. UNCHANGED <<attempts, delivered, worker>>
      BY <1>5 DEF Administration, CreateWebhook, UpdateWebhook, DeleteWebhook, DeleteTriggered,
                  DeleteIntegration
    <2>2. \A t \in Triggered : executions'[t] <= executions[t]
      BY <1>4, <1>5 DEF Administration, CreateWebhook, UpdateWebhook, DeleteWebhook,
                        DeleteTriggered, DeleteIntegration
    <2>3. \A t \in Triggered : status'[t] = "success" => status[t] = "success"
      BY <1>5 DEF Administration, CreateWebhook, UpdateWebhook, DeleteWebhook, DeleteTriggered,
                  DeleteIntegration
    <2> QED BY <1>3, <2>1, <2>2, <2>3
  <1>6. ASSUME NEW r \in Requests, RequestStep(r) PROVE Truthful'
    <2>1. UNCHANGED <<attempts, delivered, worker, executions>>
      BY <1>6 DEF RequestStep, TriggerWebhooks, ScheduleTriggered, RespondError, Commit, CommitFails
    <2>2. \A t \in Triggered : status'[t] = "success" => status[t] = "success"
      BY <1>6 DEF RequestStep, TriggerWebhooks, ScheduleTriggered, RespondError, Commit, CommitFails
    <2>3. \A t \in Triggered : executions'[t] <= executions[t]
      BY <1>4, <2>1
    <2> QED BY <1>3, <2>1, <2>2, <2>3
  <1>7. ASSUME NEW n \in Nodes, Start(n) PROVE Truthful'
    <2>1. \A t \in Triggered : executions'[t] <= executions[t]
      BY <1>4, <1>7 DEF Start
    <2> QED BY <1>3, <1>7, <2>1 DEF Start
  <1>8. ASSUME NEW n \in Nodes, Crash(n) PROVE Truthful'
    <2>1. \A w \in Workers : worker'[w] = worker[w] \/ worker'[w].pc = "idle"
      BY <1>8 DEF Crash, Idle
    <2>2. \A t \in Triggered : Unsaved(t)' \subseteq Unsaved(t)
      BY <2>1 DEF Unsaved
    <2>3. \A w \in Workers : Accepted(w)' => Accepted(w) /\ worker'[w].tw = worker[w].tw
      BY <2>1 DEF Accepted
    <2>4. \A t \in Triggered : executions'[t] <= executions[t]
      BY <1>4, <1>8 DEF Crash
    <2> QED BY <1>1, <1>8, <2>2, <2>3, <2>4, TruthfulKept DEF Crash
  <1>9. ASSUME NEW w \in Workers, WorkerStep(w) PROVE Truthful'
    <2>1. ASSUME UNCHANGED <<attempts, delivered, executions>>,
                 \A v \in Workers : v # w => worker'[v] = worker[v],
                 worker'[w].pc # "record",
                 Accepted(w)' => Accepted(w) /\ worker'[w].tw = worker[w].tw,
                 \A t \in Triggered :
                   status'[t] = "success" => status[t] = "success" \/ delivered[t] > 0
          PROVE  Truthful'
      <3>1. \A t \in Triggered : Unsaved(t)' \subseteq Unsaved(t)
        BY <2>1 DEF Unsaved
      <3>2. \A v \in Workers : Accepted(v)' => Accepted(v) /\ worker'[v].tw = worker[v].tw
        BY <2>1 DEF Accepted
      <3>3. \A t \in Triggered : executions'[t] <= executions[t]
        BY <1>4, <2>1
      <3> QED BY <1>1, <2>1, <3>1, <3>2, <3>3, TruthfulKept
    <2>2. ASSUME NEW t \in Triggered, NEW e \in 0..Retries, StartJob(w, t, e) PROVE Truthful'
      <3>1. \/ worker' = worker /\ worker[w].pc = "idle"
            \/ worker'[w].pc = "execute" /\ \A v \in Workers : v # w => worker'[v] = worker[v]
        BY <2>2 DEF StartJob, RInv, TypeOK
      <3> QED BY <2>1, <2>2, <3>1 DEF StartJob, Accepted
    <2>3. CASE SendRequest(w)
      <3>0. PICK t : t = worker[w].tw
        OBVIOUS
      <3>1. PICK result \in {"accepted", "rejected"} :
               /\ worker' = [worker EXCEPT ![w] = [@ EXCEPT !.pc = "record", !.result = result]]
               /\ delivered' = IF result = "accepted"
                                 THEN [delivered EXCEPT ![t] = @ + 1] ELSE delivered
        BY <2>3, <3>0 DEF SendRequest
      <3>2. /\ worker[w].pc = "execute" /\ t \in Triggered /\ worker[w] \in Job
            /\ attempts' = [attempts EXCEPT ![t] = @ + 1] /\ UNCHANGED <<status, executions>>
        BY <2>3, <3>0 DEF SendRequest, RInv, BusyHasJob, TypeOK
      <3>3. /\ worker'[w].pc = "record" /\ worker'[w].tw = t /\ worker'[w].result = result
            /\ \A v \in Workers : v # w => worker'[v] = worker[v]
        BY <3>0, <3>1, <3>2 DEF RInv, TypeOK, Job
      <3>4. /\ Unsaved(t)' = Unsaved(t) \cup {w} /\ w \notin Unsaved(t)
            /\ \A u \in Triggered \ {t} : Unsaved(u)' = Unsaved(u)
        BY <3>0, <3>2, <3>3 DEF Unsaved
      <3>5. \A u \in Triggered : /\ delivered'[u] >= delivered[u] /\ delivered[u] \in Nat
                                 /\ u # t => attempts'[u] = attempts[u]
        BY <3>1, <3>2 DEF RInv, TypeOK
      <3>6. attempts'[t] = attempts[t] + 1 /\ (result = "accepted" => delivered'[t] > 0)
        BY <3>1, <3>2 DEF RInv, TypeOK
      <3>7. ASSUME NEW u \in Triggered
            PROVE  executions'[u] + Cardinality(Unsaved(u)') <= attempts'[u]
        <4>1. /\ executions[u] + Cardinality(Unsaved(u)) <= attempts[u]
              /\ executions[u] \in Nat /\ attempts[u] \in Nat /\ executions'[u] = executions[u]
              /\ Cardinality(Unsaved(u)) \in Nat
          BY <3>2, UnsavedCount DEF RInv, Truthful, TypeOK
        <4>2. CASE u = t
          <5>1. IsFiniteSet(Unsaved(t))
            BY UnsavedCount
          <5>2. Cardinality(Unsaved(t) \cup {w}) = Cardinality(Unsaved(t)) + 1
            BY <3>4, <5>1, FS_AddElement
          <5>3. Cardinality(Unsaved(u)') = Cardinality(Unsaved(u)) + 1
            BY <3>4, <4>2, <5>2
          <5>4. attempts'[u] = attempts[u] + 1
            BY <3>6, <4>2
          <5> QED BY <4>1, <5>3, <5>4
        <4>3. CASE u # t
          BY <3>4, <3>5, <4>1, <4>3
        <4> QED BY <4>2, <4>3
      <3>8. \A v \in Workers : Accepted(v)' => delivered'[worker'[v].tw] > 0
        <4>1. \A v \in Workers : Accepted(v) => worker[v].tw \in Triggered
          BY DEF RInv, BusyHasJob, Accepted
        <4>2. \A v \in Workers : v # w /\ Accepted(v)' => Accepted(v) /\ worker'[v].tw = worker[v].tw
          BY <3>3 DEF Accepted
        <4>3. Accepted(w)' => delivered'[worker'[w].tw] > 0
          BY <3>3, <3>6 DEF Accepted
        <4>4. \A v \in Workers : Accepted(v) => delivered[worker[v].tw] > 0
          BY DEF RInv, Truthful
        <4>5. \A u \in Triggered : delivered'[u] \in Nat
          BY <1>1 DEF TypeOK
        <4> QED BY <3>5, <4>1, <4>2, <4>3, <4>4, <4>5
      <3>9. \A u \in Triggered : status'[u] = "success" => delivered'[u] > 0
        <4>1. \A u \in Triggered : delivered'[u] \in Nat
          BY <1>1 DEF TypeOK
        <4> QED BY <3>2, <3>5, <4>1 DEF RInv, Truthful
      <3> QED BY <3>7, <3>8, <3>9 DEF Truthful
    <2>4. CASE RecordExecution(w)
      <3>0. PICK t : t = worker[w].tw
        OBVIOUS
      <3>1. /\ worker[w].pc = "record" /\ t \in Triggered
            /\ UNCHANGED <<status, attempts, delivered>>
            /\ executions' = IF RowExists(t) THEN [executions EXCEPT ![t] = @ + 1] ELSE executions
        BY <2>4, <3>0 DEF RecordExecution, RInv, BusyHasJob
      <3>2. /\ worker'[w].pc = IF worker[w].result = "accepted" THEN "succeeded" ELSE "failed"
            /\ worker'[w].tw = t
            /\ \A v \in Workers : v # w => worker'[v] = worker[v]
        BY <2>4, <3>0, GotoFacts DEF RecordExecution, RInv
      <3>3. /\ Unsaved(t)' = Unsaved(t) \ {w} /\ w \in Unsaved(t)
            /\ \A u \in Triggered \ {t} : Unsaved(u)' = Unsaved(u)
        BY <3>0, <3>1, <3>2 DEF Unsaved
      <3>4. ASSUME NEW u \in Triggered
            PROVE  executions'[u] + Cardinality(Unsaved(u)') <= attempts'[u]
        <4>1. /\ executions[u] + Cardinality(Unsaved(u)) <= attempts[u]
              /\ executions[u] \in Nat /\ attempts[u] \in Nat /\ attempts'[u] = attempts[u]
              /\ Cardinality(Unsaved(u)) \in Nat
          BY <3>1, UnsavedCount DEF RInv, Truthful, TypeOK
        <4>2. CASE u = t
          <5>1. IsFiniteSet(Unsaved(t))
            BY UnsavedCount
          <5>2. Cardinality(Unsaved(t) \ {w}) = Cardinality(Unsaved(t)) - 1
            BY <3>3, <5>1, FS_RemoveElement
          <5>3. Cardinality(Unsaved(u)') = Cardinality(Unsaved(u)) - 1
            BY <3>3, <4>2, <5>2
          <5>4. executions'[u] \in {executions[u], executions[u] + 1}
            BY <1>4, <3>1, <4>2
          <5> QED BY <4>1, <5>3, <5>4
        <4>3. CASE u # t
          BY <1>4, <3>1, <3>3, <4>1, <4>3
        <4> QED BY <4>2, <4>3
      <3>5. \A v \in Workers : Accepted(v)' => Accepted(v) /\ worker'[v].tw = worker[v].tw
        BY <3>0, <3>1, <3>2 DEF Accepted
      <3>6. \A v \in Workers : Accepted(v)' => delivered'[worker'[v].tw] > 0
        BY <3>1, <3>5 DEF RInv, Truthful
      <3>7. \A u \in Triggered : status'[u] = "success" => delivered'[u] > 0
        BY <3>1 DEF RInv, Truthful
      <3> QED BY <3>4, <3>6, <3>7 DEF Truthful
    <2>5. CASE RaiseMissing(w) \/ RecordExecutionFails(w) \/ HandleFailure(w)
      <3>1. \E pc \in {"error", "marking", "marking_rescued"} : Goto(w, pc)
        BY <2>5 DEF RaiseMissing, RecordExecutionFails, HandleFailure
      <3>2. /\ worker'[w].pc \in {"error", "marking", "marking_rescued"}
            /\ \A v \in Workers : v # w => worker'[v] = worker[v]
        BY <3>1, GotoFacts DEF RInv
      <3>3. UNCHANGED <<status, attempts, delivered, executions>>
        BY <2>5 DEF RaiseMissing, RecordExecutionFails, HandleFailure
      <3> QED BY <2>1, <3>2, <3>3 DEF Accepted
    <2>6. CASE UpdateStatus(w)
      <3>1. /\ UNCHANGED <<attempts, delivered, executions>> /\ worker'[w].pc = "idle"
            /\ \A v \in Workers : v # w => worker'[v] = worker[v]
        BY <2>6 DEF UpdateStatus, RInv, TypeOK, Idle
      <3>2. ASSUME NEW t \in Triggered, status'[t] = "success", status[t] # "success"
            PROVE  delivered[t] > 0
        <4>1. t = worker[w].tw /\ NewStatus(w) = "success"
          BY <2>6, <3>2 DEF UpdateStatus, RInv, TypeOK
        <4>2. Accepted(w)
          BY <4>1 DEF NewStatus, FailureStatus, Accepted
        <4> QED BY <4>1, <4>2 DEF RInv, Truthful
      <3> QED BY <2>1, <3>1, <3>2 DEF Accepted
    <2>7. CASE UpdateStatusMissing(w) \/ UpdateStatusFails(w)
      <3>1. RaiseFromUpdate(w)
        BY <2>7 DEF UpdateStatusMissing, UpdateStatusFails
      <3>2. /\ worker'[w].pc \in {"idle", "error"}
            /\ \A v \in Workers : v # w => worker'[v] = worker[v]
        BY <3>1, RaiseFacts DEF RInv, Idle
      <3>3. UNCHANGED <<status, attempts, delivered, executions>>
        BY <3>1 DEF RaiseFromUpdate
      <3> QED BY <2>1, <3>2, <3>3 DEF Accepted
    <2> QED BY <1>9, <2>2, <2>3, <2>4, <2>5, <2>6, <2>7 DEF WorkerStep
  <1>10. CASE UNCHANGED vars
    <2>1. \A t \in Triggered : executions'[t] <= executions[t]
      BY <1>4, <1>10 DEF vars
    <2> QED BY <1>3, <1>10, <2>1 DEF vars
  <1> QED BY <1>5, <1>6, <1>7, <1>8, <1>9, <1>10 DEF Next

LEMMA RInvHolds == Spec => []RInv
  BY RInvInit, RInvNext, PTL DEF Spec

\* A row that says success stands for a request that the endpoint accepted, and
\* each saved execution for a request that was sent, however jobs, failing
\* writes, stops and starts interleave.
THEOREM SuccessIsAlwaysReal == Spec => []SuccessIsReal
  <1>1. RInv => SuccessIsReal
    <2> SUFFICES ASSUME RInv, NEW t \in Triggered
                 PROVE  (status[t] = "success" => delivered[t] > 0) /\ executions[t] <= attempts[t]
      BY DEF SuccessIsReal
    <2>1. executions[t] + Cardinality(Unsaved(t)) <= attempts[t]
      BY DEF RInv, Truthful
    <2> QED BY <2>1, UnsavedCount DEF RInv, Truthful, TypeOK
  <1> QED BY <1>1, RInvHolds, PTL

\* The attempts that the API reports as remaining cover those of a scheduled job:
\* it has no more executions than its error count (failing writes aside).
THEOREM RemainingAreCovered == MaxDbErrors = 0 /\ Spec => []RemainingAttemptsCovered
  <1>1. IInv /\ RInv => RemainingAttemptsCovered
    <2> SUFFICES ASSUME IInv, RInv, NEW t \in Triggered, NEW n \in Nodes, NEW e \in 0..Retries,
                        RowExists(t), queue[<<n, t, e>>] > 0
                 PROVE  executions[t] <= e
      BY DEF RemainingAttemptsCovered
    <2> DEFINE k == <<n, t, e>>
    <2>1. k \in JobKey /\ k[2] = t /\ k[3] = e /\ status[t] # "deleted" /\ queue[k] > 0
      BY DEF JobKey, RowExists, RowStatus
    <2>2. attempts[t] <= e
      <3> HIDE DEF k
      <3> QED BY <2>1 DEF IInv, CountedAttempts
    <2>3. executions[t] + Cardinality(Unsaved(t)) <= attempts[t]
      BY DEF RInv, Truthful
    <2> QED BY <2>2, <2>3, UnsavedCount DEF RInv, TypeOK
  <1>2. MaxDbErrors = 0 /\ Spec => []IInv
    BY IInvInit, IInvNext, PTL DEF Spec
  <1> QED BY <1>1, <1>2, RInvHolds, PTL
-----------------------------------------------------------------------------
(* What the delays are for *)

\* Who performs jobs is alone with its triggered webhook, unless the row is gone.
Alone ==
    \A w, v \in Workers, t \in Triggered :
        w # v /\ Busy(w, t) /\ Busy(v, t) => status[t] = "deleted"

\* A worker knows the status of the row, but for a start that has failed it.
Knows(w, t) ==
    /\ worker[w].loaded \in {"not_run", "retrying", "failure"}
    /\ \/ status[t] = worker[w].loaded
       \/ worker[w].loaded = "retrying" /\ status[t] = "failure"

\* A worker that is about to mark a failure has scheduled the next attempt, or
\* there is none.
Rescheduled(w, t) ==
    /\ delivered[t] = 0
    /\ worker[w].errors < Retries => queue[<<NodeOf[w], t, worker[w].errors + 1>>] > 0
    /\ worker[w].errors = Retries => \A k \in JobKey : k[2] = t => queue[k] = 0

Performing ==
    \A w \in Workers, t \in Triggered :
        Busy(w, t) /\ status[t] # "deleted" =>
            /\ Knows(w, t)
            /\ worker[w].pc \in {"marking", "marking_rescued"} => Rescheduled(w, t)

\* Nobody works for a process that is down, nor for a row that has succeeded.
Quiet ==
    /\ \A k \in JobKey : ~up[k[1]] => queue[k] = 0
    /\ \A w \in Workers : ~up[NodeOf[w]] => worker[w].pc = "idle"
    /\ \A r \in Requests : request[r] \in {"open", "answered"} => up[NodeOf[r]]
    /\ \A k \in JobKey : status[k[2]] = "success" => queue[k] = 0
    /\ budget.crashes <= MaxCrashes
    /\ budget.crashes = MaxCrashes => \A n \in Nodes : up[n]

\* The rows of an answered request have their jobs, and each row that waits has one.
Scheduled ==
    /\ \A r \in Requests : request[r] = "answered" =>
          \A t \in created[r] : queue[<<NodeOf[r], t, 0>>] > 0
    /\ PendingIsScheduled
    /\ RetryingIsRetried

DInv == IInv /\ Alone /\ Performing /\ Quiet /\ Scheduled

LEMMA KeyFacts ==
  ASSUME NEW n \in Nodes, NEW t \in Triggered, NEW e \in 0..Retries
  PROVE  <<n, t, e>> \in JobKey /\ <<n, t, e>>[2] = t
  BY DEF JobKey

\* What a worker performs is a row that was committed.
LEMMA BusyFacts ==
  ASSUME IInv, NEW w \in Workers, worker[w].pc # "idle"
  PROVE  /\ worker[w].tw \in Triggered /\ Busy(w, worker[w].tw)
         /\ worker[w].errors \in 0..Retries
         /\ NodeOf[w] \in Nodes
         /\ status[worker[w].tw] # "absent"
         /\ request[worker[w].tw[1]] = "committed"
  <1>1. worker[w].tw \in Triggered /\ status[worker[w].tw] # "absent"
    BY DEF IInv, Lifecycle
  <1>2. worker[w] \in Job
    BY DEF IInv, TypeOK
  <1> QED BY <1>1, <1>2, ConstantsAssumption DEF IInv, Lifecycle, Busy, Job

\* A step that takes no job of t away leaves t outstanding.
LEMMA OutstandingKept ==
  ASSUME NEW t \in Triggered, Outstanding(t),
         \A k \in JobKey : k[2] = t /\ queue[k] > 0 => queue'[k] > 0,
         \A w \in Workers : Busy(w, t) => Busy(w, t)'
  PROVE  Outstanding(t)'
  BY KeyFacts DEF Outstanding

\* A row with a scheduled job is outstanding.
LEMMA QueuedIsOutstanding ==
  ASSUME NEW k \in JobKey, queue[k] > 0
  PROVE  Outstanding(k[2])
  <1>1. k = <<k[1], k[2], k[3]>> /\ k[1] \in Nodes /\ k[3] \in 0..Retries
    BY DEF JobKey
  <1> QED BY <1>1 DEF Outstanding

\* A step without a new row and without a stop.
LEMMA ScheduledKept ==
  ASSUME Scheduled, IInv, budget'.crashes = budget.crashes, up' = up,
         \A r \in Requests : request'[r] = "answered" =>
            /\ request[r] = "answered" /\ created'[r] \subseteq created[r]
            /\ \A t \in created[r] : \A k \in JobKey :
                  k[2] = t /\ queue[k] > 0 => queue'[k] > 0,
         \A t \in Triggered : status'[t] \in {"not_run", "retrying"} =>
            \/ Outstanding(t)'
            \/ status'[t] = status[t] /\ (Outstanding(t) => Outstanding(t)')
  PROVE  Scheduled'
  <1>1. ASSUME NEW r \in Requests, request'[r] = "answered", NEW t \in created'[r]
        PROVE  queue'[<<NodeOf[r], t, 0>>] > 0
    <2>1. t \in Triggered /\ NodeOf[r] \in Nodes /\ 0 \in 0..Retries /\ t \in created[r]
      BY <1>1, ConstantsAssumption DEF IInv, TypeOK
    <2> QED BY <1>1, <2>1, KeyFacts DEF Scheduled
  <1>2. PendingIsScheduled'
    BY DEF Scheduled, PendingIsScheduled
  <1>3. RetryingIsRetried'
    BY DEF Scheduled, RetryingIsRetried
  <1> QED BY <1>1, <1>2, <1>3 DEF Scheduled

LEMMA DInvInit == MaxDbErrors = 0 /\ Init => DInv
  <1> SUFFICES ASSUME MaxDbErrors = 0, Init PROVE DInv
    OBVIOUS
  <1>1. IInv
    BY IInvInit
  <1>2. \A w \in Workers : worker[w].pc = "idle"
    BY DEF Init, Idle
  <1>3. Alone /\ Performing
    BY <1>2 DEF Alone, Performing, Busy
  <1>4. Quiet
    BY <1>2, JobKeyParts, ConstantsAssumption DEF Quiet, Init
  <1>5. Scheduled
    BY JobKeyParts DEF Scheduled, PendingIsScheduled, RetryingIsRetried, Init
  <1> QED BY <1>1, <1>3, <1>4, <1>5 DEF DInv

\* Edits and deletions move rows out of the scope of the invariant.
LEMMA AdministrationKeepsDInv == DInv /\ Administration => DInv'
  <1> SUFFICES ASSUME DInv, Administration PROVE DInv'
    OBVIOUS
  <1>1. IInv'
    BY AdministrationKeepsIInv DEF DInv
  <1>2. UNCHANGED <<request, created, queue, worker, up, delivered>>
        /\ budget'.crashes = budget.crashes
    BY DEF Administration, CreateWebhook, UpdateWebhook, DeleteWebhook, DeleteTriggered,
           DeleteIntegration, history, DInv, IInv, TypeOK
  <1>3. \A t \in Triggered : status'[t] = status[t] \/ status'[t] = "deleted"
    BY DEF Administration, CreateWebhook, UpdateWebhook, DeleteWebhook, DeleteTriggered,
           DeleteIntegration
  <1>4. Alone'
    BY <1>2, <1>3 DEF DInv, Alone, Busy
  <1>5. Performing'
    BY <1>2, <1>3 DEF DInv, Performing, Busy, Knows, Rescheduled
  <1>6. Quiet'
    BY <1>2, <1>3, JobKeyParts DEF DInv, Quiet
  <1>7. Scheduled'
    <2>1. \A t \in Triggered : Outstanding(t) => Outstanding(t)'
      BY <1>2 DEF Outstanding, Busy
    <2> QED BY <1>2, <1>3, <2>1, ScheduledKept DEF DInv
  <1> QED BY <1>1, <1>4, <1>5, <1>6, <1>7 DEF DInv

\* A request schedules the jobs of its rows before it commits the rows.
LEMMA RequestKeepsDInv ==
  ASSUME DInv, NEW r \in Requests, RequestStep(r)
  PROVE  DInv'
  <1>1. IInv'
    BY RequestKeepsIInv DEF DInv
  <1>2. IInv /\ Alone /\ Performing /\ Quiet /\ Scheduled
    BY DEF DInv
  <1>3. UNCHANGED <<worker, up, delivered>> /\ budget'.crashes = budget.crashes
    BY <1>2 DEF RequestStep, TriggerWebhooks, ScheduleTriggered, RespondError, Commit, CommitFails,
                history, IInv, TypeOK
  <1>4. CASE TriggerWebhooks(r) \/ RespondError(r) \/ CommitFails(r)
    <2>1. UNCHANGED <<status, queue>>
      BY <1>4 DEF TriggerWebhooks, RespondError, CommitFails
    <2>2. \A q \in Requests :
             \/ request'[q] = request[q] /\ created'[q] = created[q]
             \/ request'[q] = "aborted"
             \/ request'[q] = "open" /\ up[NodeOf[q]]
      BY <1>2, <1>4 DEF TriggerWebhooks, RespondError, CommitFails, IInv, TypeOK
    <2>3. Alone' /\ Performing'
      BY <1>2, <1>3, <2>1 DEF Alone, Performing, Busy, Knows, Rescheduled
    <2>4. Quiet'
      BY <1>2, <1>3, <2>1, <2>2 DEF Quiet
    <2>5. \A t \in Triggered : Outstanding(t) => Outstanding(t)'
      BY <1>3, <2>1 DEF Outstanding, Busy
    <2>6. Scheduled'
      BY <1>2, <1>3, <2>1, <2>2, <2>5, ScheduledKept
    <2> QED BY <1>1, <2>3, <2>4, <2>6 DEF DInv
  <1>5. CASE ScheduleTriggered(r)
    <2>1. /\ UNCHANGED <<status, created>> /\ request[r] = "open"
          /\ request' = [request EXCEPT ![r] = "answered"]
          /\ \A k \in JobKey :
                queue'[k] = IF k[1] = NodeOf[r] /\ k[2] \in created[r] /\ k[3] = 0
                              THEN queue[k] + 1 ELSE queue[k]
      BY <1>5 DEF ScheduleTriggered
    <2>2. \A k \in JobKey :
             /\ queue[k] \in Nat /\ queue'[k] \in Nat /\ (queue[k] > 0 => queue'[k] > 0)
             /\ status[k[2]] # "absent" => queue'[k] = queue[k]
             /\ ~up[k[1]] => queue'[k] = queue[k]
      <3>1. \A t \in created[r] : t \in Triggered => status[t] = "absent"
        BY <1>2, <2>1 DEF IInv, Lifecycle
      <3>2. up[NodeOf[r]]
        BY <1>2, <2>1 DEF Quiet
      <3>3. \A k \in JobKey : queue[k] \in Nat
        BY <1>2 DEF IInv, TypeOK
      <3> QED BY <2>1, <3>1, <3>2, <3>3, JobKeyParts
    <2>3. \A w \in Workers, t \in Triggered : Busy(w, t) => status[t] # "absent"
      BY <1>2, BusyFacts DEF Busy
    <2>4. Alone'
      BY <1>2, <1>3, <2>1 DEF Alone, Busy
    <2>5. Performing'
      <3> SUFFICES ASSUME NEW w \in Workers, NEW t \in Triggered, Busy(w, t),
                          status[t] # "deleted"
                   PROVE  Knows(w, t)' /\ (worker[w].pc \in {"marking", "marking_rescued"}
                                             => Rescheduled(w, t)')
        BY <1>3, <2>1 DEF Performing, Busy
      <3>1. Knows(w, t)'
        BY <1>2, <1>3, <2>1 DEF Performing, Knows
      <3>2. \A k \in JobKey : k[2] = t => queue'[k] = queue[k]
        BY <2>2, <2>3
      <3>3. worker[w].errors < Retries => /\ <<NodeOf[w], t, worker[w].errors + 1>> \in JobKey
                                         /\ <<NodeOf[w], t, worker[w].errors + 1>>[2] = t
        <4>1. worker[w].errors \in 0..Retries /\ NodeOf[w] \in Nodes
          BY <1>2, BusyFacts DEF Busy
        <4>2. worker[w].errors < Retries => worker[w].errors + 1 \in 0..Retries
          BY <4>1, ConstantsAssumption
        <4> QED BY <4>1, <4>2, KeyFacts
      <3> QED BY <1>2, <1>3, <3>1, <3>2, <3>3 DEF Performing, Rescheduled
    <2>6. Quiet'
      BY <1>2, <1>3, <2>1, <2>2, JobKeyParts DEF Quiet, IInv, TypeOK
    <2>7. Scheduled'
      <3>1. \A t \in Triggered : Outstanding(t) => Outstanding(t)'
        BY <1>3, <2>2, OutstandingKept DEF Busy
      <3>2. PendingIsScheduled' /\ RetryingIsRetried'
        BY <1>2, <1>3, <2>1, <3>1 DEF Scheduled, PendingIsScheduled, RetryingIsRetried
      <3>3. ASSUME NEW q \in Requests, request'[q] = "answered", NEW t \in created'[q]
            PROVE  queue'[<<NodeOf[q], t, 0>>] > 0
        <4> DEFINE k == <<NodeOf[q], t, 0>>
        <4>0. t \in created[q] /\ t \in Triggered /\ NodeOf[q] \in Nodes /\ 0 \in 0..Retries
          <5>1. created[q] \in SUBSET Triggered
            BY <1>2 DEF IInv, TypeOK
          <5> QED BY <2>1, <3>3, <5>1, ConstantsAssumption
        <4>1. k \in JobKey /\ k[1] = NodeOf[q] /\ k[2] = t /\ k[3] = 0
          BY <4>0 DEF JobKey
        <4>2. q # r => queue[k] > 0
          BY <1>2, <2>1, <3>3, <4>0 DEF Scheduled, IInv, TypeOK
        <4> HIDE DEF k
        <4>3. queue'[k] > 0
          BY <2>1, <2>2, <4>0, <4>1, <4>2
        <4> QED BY <4>3 DEF k
      <3> QED BY <3>2, <3>3 DEF Scheduled
    <2> QED BY <1>1, <2>4, <2>5, <2>6, <2>7 DEF DInv
  <1>6. CASE Commit(r)
    <2>1. /\ UNCHANGED queue /\ request[r] = "answered"
          /\ request' = [request EXCEPT ![r] = "committed"]
          /\ created' = [created EXCEPT ![r] = {}]
          /\ \A t \in Triggered :
                status'[t] = IF t \in created[r] THEN "not_run" ELSE status[t]
      BY <1>6 DEF Commit
    <2>2. \A t \in created[r] : t \in Triggered => status[t] = "absent"
      BY <1>2, <2>1 DEF IInv, Lifecycle
    <2>3. \A w \in Workers, t \in Triggered : Busy(w, t) => status'[t] = status[t]
      BY <1>2, <2>1, <2>2, BusyFacts DEF Busy
    <2>4. Alone'
      BY <1>2, <1>3, <2>3 DEF Alone, Busy
    <2>5. Performing'
      BY <1>2, <1>3, <2>1, <2>3 DEF Performing, Busy, Knows, Rescheduled
    <2>6. Quiet'
      BY <1>2, <1>3, <2>1, JobKeyParts DEF Quiet, IInv, TypeOK
    <2>7. \A t \in Triggered : Outstanding(t) => Outstanding(t)'
      BY <1>3, <2>1 DEF Outstanding, Busy
    <2>8. \A t \in Triggered : t \in created[r] => Outstanding(t)'
      <3> SUFFICES ASSUME NEW t \in Triggered, t \in created[r] PROVE Outstanding(t)
        BY <2>7
      <3>1. queue[<<NodeOf[r], t, 0>>] > 0
        BY <1>2, <2>1 DEF Scheduled
      <3>2. NodeOf[r] \in Nodes /\ 0 \in 0..Retries
        BY ConstantsAssumption
      <3> QED BY <3>1, <3>2 DEF Outstanding
    <2>9. Scheduled'
      BY <1>2, <1>3, <2>1, <2>7, <2>8, ScheduledKept DEF IInv, TypeOK
    <2> QED BY <1>1, <2>4, <2>5, <2>6, <2>9 DEF DInv
  <1> QED BY <1>4, <1>5, <1>6 DEF RequestStep

\* A stopping process takes its own jobs, workers and requests with it; a
\* starting one fails the rows that are retrying, those of other processes too.
LEMMA ProcessKeepsDInv ==
  ASSUME DInv, NEW n \in Nodes, Crash(n) \/ Start(n)
  PROVE  DInv'
  <1>1. IInv'
    BY ProcessKeepsIInv DEF DInv
  <1>2. IInv /\ Alone /\ Performing /\ Quiet /\ Scheduled
    BY DEF DInv
  <1>3. CASE Crash(n)
    <2>1. /\ UNCHANGED <<status, delivered>>
          /\ budget'.crashes < MaxCrashes
          /\ up' = [up EXCEPT ![n] = FALSE]
      BY <1>2, <1>3, ConstantsAssumption DEF Crash, history, IInv, TypeOK, Quiet
    <2>2. \A k \in JobKey : queue'[k] = IF k[1] = n THEN 0 ELSE queue[k]
      BY <1>3 DEF Crash
    <2>3. \A w \in Workers : /\ NodeOf[w] = n => worker'[w].pc = "idle"
                             /\ NodeOf[w] # n => worker'[w] = worker[w]
      BY <1>3 DEF Crash, Idle
    <2>4. \A q \in Requests :
             /\ NodeOf[q] = n => request'[q] \notin {"open", "answered"}
             /\ NodeOf[q] # n => request'[q] = request[q] /\ created'[q] = created[q]
      BY <1>3 DEF Crash
    <2>5. \A m \in Nodes : /\ m = n => ~up'[m]
                           /\ m # n => up'[m] = up[m]
      BY <1>2, <2>1 DEF IInv, TypeOK
    <2>6. Alone'
      BY <1>2, <2>1, <2>3 DEF Alone, Busy
    <2>7. Performing'
      <3> SUFFICES ASSUME NEW w \in Workers, NEW t \in Triggered, Busy(w, t),
                          status[t] # "deleted", NodeOf[w] # n
                   PROVE  Knows(w, t)' /\ (worker[w].pc \in {"marking", "marking_rescued"}
                                             => Rescheduled(w, t)')
        BY <2>1, <2>3 DEF Performing, Busy
      <3>1. Knows(w, t)'
        BY <1>2, <2>1, <2>3 DEF Performing, Knows
      <3>2. worker[w].errors < Retries => /\ <<NodeOf[w], t, worker[w].errors + 1>> \in JobKey
                                         /\ <<NodeOf[w], t, worker[w].errors + 1>>[1] # n
        <4>1. worker[w].errors \in 0..Retries /\ NodeOf[w] \in Nodes
          BY <1>2, BusyFacts DEF Busy
        <4>2. worker[w].errors < Retries => worker[w].errors + 1 \in 0..Retries
          BY <4>1, ConstantsAssumption
        <4> QED BY <4>1, <4>2, KeyFacts
      <3> QED BY <1>2, <2>1, <2>2, <2>3, <3>1, <3>2 DEF Performing, Rescheduled
    <2>8. Quiet'
      <3>1. \A k \in JobKey : ~up'[k[1]] => queue'[k] = 0
        BY <1>2, <2>2, <2>5, JobKeyParts DEF Quiet
      <3>2. \A w \in Workers : ~up'[NodeOf[w]] => worker'[w].pc = "idle"
        BY <1>2, <2>3, <2>5, ConstantsAssumption DEF Quiet
      <3>3. \A q \in Requests : request'[q] \in {"open", "answered"} => up'[NodeOf[q]]
        BY <1>2, <2>4, <2>5, ConstantsAssumption DEF Quiet
      <3>4. \A k \in JobKey : status'[k[2]] = "success" => queue'[k] = 0
        BY <1>2, <2>1, <2>2 DEF Quiet
      <3>5. budget'.crashes <= MaxCrashes /\ budget'.crashes # MaxCrashes
        BY <1>1, <2>1, ConstantsAssumption DEF IInv, TypeOK
      <3> QED BY <3>1, <3>2, <3>3, <3>4, <3>5 DEF Quiet
    <2>9. Scheduled'
      <3>1. PendingIsScheduled' /\ RetryingIsRetried'
        BY <1>1, <2>1, <2>5, ConstantsAssumption
        DEF PendingIsScheduled, RetryingIsRetried, IInv, TypeOK
      <3>2. ASSUME NEW q \in Requests, request'[q] = "answered", NEW t \in created'[q]
            PROVE  queue'[<<NodeOf[q], t, 0>>] > 0
        <4> DEFINE k == <<NodeOf[q], t, 0>>
        <4>1. NodeOf[q] # n /\ request[q] = "answered" /\ t \in created[q]
          BY <2>4, <3>2
        <4>2. k \in JobKey /\ k[1] # n
          BY <1>2, <4>1, ConstantsAssumption DEF IInv, TypeOK, JobKey
        <4>3. queue[k] > 0
          BY <1>2, <4>1 DEF Scheduled
        <4> HIDE DEF k
        <4>4. queue'[k] > 0
          BY <2>2, <4>2, <4>3
        <4> QED BY <4>4 DEF k
      <3> QED BY <3>1, <3>2 DEF Scheduled
    <2> QED BY <1>1, <2>6, <2>7, <2>8, <2>9 DEF DInv
  <1>4. CASE Start(n)
    <2>1. /\ UNCHANGED <<request, created, queue, worker, delivered, budget>>
          /\ ~up[n] /\ up' = [up EXCEPT ![n] = TRUE]
      BY <1>4 DEF Start, history
    <2>2. \A t \in Triggered :
             status'[t] = IF status[t] = "retrying" THEN "failure" ELSE status[t]
      BY <1>4 DEF Start
    <2>3. \A m \in Nodes : up[m] => up'[m]
      BY <1>2, <2>1 DEF IInv, TypeOK
    <2>4. budget.crashes # MaxCrashes
      BY <1>2, <2>1 DEF Quiet
    <2>5. Alone'
      BY <1>2, <2>1, <2>2 DEF Alone, Busy
    <2>6. Performing'
      BY <1>2, <2>1, <2>2 DEF Performing, Busy, Knows, Rescheduled
    <2>7. Quiet'
      BY <1>2, <2>1, <2>2, <2>3, <2>4, JobKeyParts, ConstantsAssumption DEF Quiet
    <2>8. Scheduled'
      BY <1>2, <2>1, <2>2, <2>4 DEF Scheduled, PendingIsScheduled, RetryingIsRetried
    <2> QED BY <1>1, <2>5, <2>6, <2>7, <2>8 DEF DInv
  <1> QED BY <1>3, <1>4

\* Nobody performs the row of a job that is due: its delay has outlasted the
\* status update of the worker that scheduled it.
LEMMA DueIsAlone ==
  ASSUME TimersHold, DInv, NEW w \in Workers, NEW u \in Triggered, NEW e \in 0..Retries,
         StartJob(w, u, e), RowExists(u), NEW v \in Workers
  PROVE  ~Busy(v, u)
  <1> SUFFICES ASSUME Busy(v, u) PROVE FALSE
    OBVIOUS
  <1>1. /\ queue[<<NodeOf[w], u, e>>] > 0
        /\ worker[v].pc \notin {"marking", "error", "marking_rescued"}
    BY DEF StartJob, DelayOver
  <1>2. NodeOf[w] \in Nodes /\ worker[v] \in Job
    BY ConstantsAssumption DEF DInv, IInv, TypeOK
  <1>3. worker[v].pc \in Holding
    BY <1>1, <1>2 DEF Busy, Job, PC, Holding
  <1>4. <<NodeOf[w], u, e>> \in JobKey /\ <<NodeOf[w], u, e>>[2] = u
    BY <1>2, KeyFacts
  <1>5. status[u] # "deleted" /\ worker[v].tw = u
    BY DEF RowExists, RowStatus, Busy
  <1> DEFINE k == <<NodeOf[w], u, e>>
  <1>6. queue[k] = 0
    <2> HIDE DEF k
    <2> QED BY <1>3, <1>4, <1>5 DEF DInv, IInv, OneToken, k
  <1> QED BY <1>1, <1>6

\* What a worker's step leaves alone, and that it works for a running process.
LEMMA WorkerFrame ==
  ASSUME DInv, NEW w \in Workers, WorkerStep(w)
  PROVE  /\ UNCHANGED <<request, created, up>> /\ budget'.crashes = budget.crashes
         /\ \A v \in Workers : v # w => worker'[v] = worker[v]
         /\ NodeOf[w] \in Nodes /\ up[NodeOf[w]]
  <1>1. UNCHANGED <<request, created, up>>
    BY DEF WorkerStep, StartJob, SendRequest, RaiseMissing, RecordExecution, RecordExecutionFails,
           HandleFailure, UpdateStatus, UpdateStatusMissing, UpdateStatusFails, RaiseFromUpdate
  <1>2. budget'.crashes = budget.crashes
    BY DEF WorkerStep, StartJob, SendRequest, RaiseMissing, RecordExecution, RecordExecutionFails,
           HandleFailure, UpdateStatus, UpdateStatusMissing, UpdateStatusFails,
           DInv, IInv, TypeOK
  <1>3. \A v \in Workers : v # w => worker'[v] = worker[v]
    BY DEF WorkerStep, StartJob, SendRequest, RaiseMissing, RecordExecution, RecordExecutionFails,
           HandleFailure, UpdateStatus, UpdateStatusMissing, UpdateStatusFails, RaiseFromUpdate,
           Goto, DInv, IInv, TypeOK
  <1>4. NodeOf[w] \in Nodes
    BY ConstantsAssumption
  <1>5. up[NodeOf[w]] \/ worker[w].pc # "idle"
    BY DEF WorkerStep, StartJob, SendRequest, RaiseMissing, RecordExecution, RecordExecutionFails,
           HandleFailure, UpdateStatus, UpdateStatusMissing, UpdateStatusFails, Updating
  <1> QED BY <1>1, <1>2, <1>3, <1>4, <1>5 DEF DInv, Quiet

\* A step that puts nobody to work, ends nobody's work on a live row, and
\* schedules nothing.
LEMMA WorkGoesOn ==
  ASSUME DInv, IInv', NEW w \in Workers, WorkerStep(w), UNCHANGED <<status, queue>>,
         \A t \in Triggered : Busy(w, t)' => Busy(w, t),
         \A t \in Triggered : status[t] # "deleted" /\ Busy(w, t) =>
            /\ Busy(w, t)' /\ worker'[w].pc \notin {"marking", "marking_rescued"}
            /\ worker'[w].loaded = worker[w].loaded,
         \A t \in Triggered : ~Busy(w, t) => delivered'[t] = delivered[t]
  PROVE  DInv'
  <1>1. IInv /\ Alone /\ Performing /\ Quiet /\ Scheduled
    BY DEF DInv
  <1>2. /\ UNCHANGED <<request, created, up>> /\ budget'.crashes = budget.crashes
        /\ \A v \in Workers : v # w => worker'[v] = worker[v]
        /\ NodeOf[w] \in Nodes /\ up[NodeOf[w]]
    BY WorkerFrame
  <1>3. Alone'
    BY <1>1, <1>2 DEF Alone, Busy
  <1>4. Performing'
    <2> SUFFICES ASSUME NEW v \in Workers, NEW t \in Triggered, Busy(v, t)', status[t] # "deleted"
                 PROVE  Knows(v, t)' /\ (worker'[v].pc \in {"marking", "marking_rescued"}
                                           => Rescheduled(v, t)')
      BY DEF Performing
    <2>1. CASE v = w
      BY <1>1, <2>1 DEF Performing, Knows
    <2>2. CASE v # w
      <3>1. Busy(v, t) /\ worker'[v] = worker[v]
        BY <1>2, <2>2 DEF Busy
      <3>2. ~Busy(w, t)
        BY <1>1, <2>2, <3>1 DEF Alone
      <3> QED BY <1>1, <3>1, <3>2 DEF Performing, Knows, Rescheduled
    <2> QED BY <2>1, <2>2
  <1>5. Quiet'
    BY <1>1, <1>2 DEF Quiet
  <1>6. ASSUME NEW t \in Triggered, status[t] # "deleted", Outstanding(t)
        PROVE  Outstanding(t)'
    <2>1. \A v \in Workers : Busy(v, t) => Busy(v, t)'
      BY <1>2, <1>6 DEF Busy
    <2> QED BY <1>6, <2>1, OutstandingKept
  <1>7. Scheduled'
    BY <1>1, <1>2, <1>6, ScheduledKept
  <1> QED BY <1>3, <1>4, <1>5, <1>7 DEF DInv

LEMMA StartJobKeepsDInv ==
  ASSUME TimersHold, DInv, IInv', NEW w \in Workers, NEW u \in Triggered, NEW e \in 0..Retries,
         StartJob(w, u, e)
  PROVE  DInv'
  <1>1. IInv /\ Alone /\ Performing /\ Quiet /\ Scheduled
    BY DEF DInv
  <1>2. /\ UNCHANGED <<request, created, up>> /\ budget'.crashes = budget.crashes
        /\ \A v \in Workers : v # w => worker'[v] = worker[v]
        /\ NodeOf[w] \in Nodes /\ up[NodeOf[w]]
    BY WorkerFrame DEF WorkerStep
  <1>3. UNCHANGED <<status, delivered>> /\ worker[w].pc = "idle"
    BY DEF StartJob, history
  <1>4. \A k \in JobKey : /\ queue'[k] \in {queue[k], queue[k] - 1}
                          /\ k[2] # u => queue'[k] = queue[k]
    <2> DEFINE key == <<NodeOf[w], u, e>>
    <2>1. queue' = [queue EXCEPT ![key] = @ - 1] /\ key[2] = u
      BY DEF StartJob
    <2>2. queue \in [JobKey -> Nat]
      BY <1>1 DEF IInv, TypeOK
    <2> HIDE DEF key
    <2> QED BY <2>1, <2>2
  <1>5. queue[<<NodeOf[w], u, e>>] > 0 /\ request[u[1]] \notin {"open", "answered"}
    BY DEF StartJob, DelayOver
  <1>6. \A v \in Workers, t \in Triggered : Busy(v, t) => v # w /\ Busy(v, t)'
    BY <1>2, <1>3 DEF Busy
  <1>7. ASSUME NEW v \in Workers, NEW t \in Triggered, Busy(v, t), status[t] # "deleted"
        PROVE  t # u
    <2>1. status[t] # "absent" /\ status[t] \in Status
      BY <1>1, <1>7, BusyFacts DEF Busy, IInv, TypeOK
    <2>2. RowExists(t)
      BY <1>7, <2>1 DEF RowExists, Status
    <2> QED BY <1>7, <2>2, DueIsAlone
  <1>8. ASSUME NEW v \in Workers, NEW t \in Triggered, Busy(v, t), status[t] # "deleted"
        PROVE  Knows(v, t)' /\ (worker'[v].pc \in {"marking", "marking_rescued"}
                                  => Rescheduled(v, t)')
    <2>1. v # w /\ worker'[v] = worker[v] /\ t # u
      BY <1>2, <1>6, <1>7, <1>8
    <2>2. Knows(v, t)'
      BY <1>1, <1>3, <1>8, <2>1 DEF Performing, Knows
    <2>3. worker[v].errors < Retries => /\ <<NodeOf[v], t, worker[v].errors + 1>> \in JobKey
                                        /\ <<NodeOf[v], t, worker[v].errors + 1>>[2] = t
      <3>1. worker[v].errors \in 0..Retries /\ NodeOf[v] \in Nodes
        BY <1>1, <1>8, BusyFacts DEF Busy
      <3>2. worker[v].errors < Retries => worker[v].errors + 1 \in 0..Retries
        BY <3>1, ConstantsAssumption
      <3> QED BY <3>1, <3>2, KeyFacts
    <2> QED BY <1>1, <1>3, <1>4, <1>8, <2>1, <2>2, <2>3 DEF Performing, Rescheduled
  <1>9. Quiet'
    <2>1. \A k \in JobKey : queue[k] = 0 => queue'[k] = 0
      BY <1>1, <1>4 DEF IInv, TypeOK, JobKey
    <2> QED BY <1>1, <1>2, <1>3, <2>1 DEF Quiet
  <1>10. ASSUME NEW t \in Triggered, t # u, Outstanding(t) PROVE Outstanding(t)'
    BY <1>4, <1>6, <1>10, OutstandingKept
  <1>11. \A r \in Requests : request'[r] = "answered" =>
            /\ request[r] = "answered" /\ created'[r] \subseteq created[r]
            /\ \A t \in created[r] : \A k \in JobKey :
                  k[2] = t /\ queue[k] > 0 => queue'[k] > 0
    <2> SUFFICES ASSUME NEW r \in Requests, request[r] = "answered", NEW t \in created[r]
                 PROVE  t # u
      BY <1>2, <1>4
    <2>1. t \in Triggered
      BY <1>1 DEF IInv, TypeOK
    <2>2. t[1] = r
      BY <1>1, <2>1 DEF IInv, Lifecycle
    <2> QED BY <1>5, <2>2
  <1>12. CASE ~RowExists(u)
    <2>1. UNCHANGED worker
      BY <1>12 DEF StartJob
    <2>2. Alone' /\ Performing'
      BY <1>1, <1>3, <1>8, <2>1 DEF Alone, Performing, Busy
    <2>3. Scheduled'
      <3>1. \A t \in Triggered : status'[t] \in {"not_run", "retrying"} => t # u
        BY <1>3, <1>12 DEF RowExists, RowStatus
      <3> QED BY <1>1, <1>2, <1>3, <1>10, <1>11, <3>1, ScheduledKept
    <2> QED BY <1>9, <2>2, <2>3 DEF DInv
  <1>13. CASE RowExists(u)
    <2>1. /\ worker'[w].pc = "execute" /\ worker'[w].tw = u /\ worker'[w].loaded = status[u]
          /\ Busy(w, u)'
      BY <1>1, <1>13 DEF StartJob, IInv, TypeOK, Busy
    <2>2. \A v \in Workers : ~Busy(v, u)
      BY <1>13, DueIsAlone
    <2>3. status[u] \in {"not_run", "retrying", "failure"}
      <3>1. <<NodeOf[w], u, e>> \in JobKey /\ <<NodeOf[w], u, e>>[2] = u
        BY <1>2, KeyFacts
      <3>2. status[u] # "success"
        <4> DEFINE k == <<NodeOf[w], u, e>>
        <4> HIDE DEF k
        <4> QED BY <1>1, <1>5, <3>1 DEF Quiet, k
      <3> QED BY <1>13, <3>2 DEF RowExists, RowStatus
    <2>4. \A v \in Workers, t \in Triggered : Busy(v, t)' => (v = w /\ t = u) \/ Busy(v, t)
      BY <1>2, <2>1 DEF Busy
    <2>5. Alone'
      BY <1>1, <1>3, <2>2, <2>4 DEF Alone
    <2>6. Performing'
      <3>1. Knows(w, u)' /\ worker'[w].pc \notin {"marking", "marking_rescued"}
        BY <1>3, <2>1, <2>3 DEF Knows
      <3> QED BY <1>3, <1>8, <2>4, <3>1 DEF Performing
    <2>7. Outstanding(u)'
      BY <2>1 DEF Outstanding
    <2>8. Scheduled'
      BY <1>1, <1>2, <1>3, <1>10, <1>11, <2>7, ScheduledKept
    <2> QED BY <1>9, <2>5, <2>6, <2>8 DEF DInv
  <1> QED BY <1>12, <1>13

\* A worker that handles a failure schedules the next attempt, or there is none,
\* before it writes the status.
LEMMA HandleFailureKeepsDInv ==
  ASSUME DInv, IInv', NEW w \in Workers, HandleFailure(w)
  PROVE  DInv'
  <1>1. IInv /\ Alone /\ Performing /\ Quiet /\ Scheduled
    BY DEF DInv
  <1>2. /\ UNCHANGED <<request, created, up>> /\ budget'.crashes = budget.crashes
        /\ \A v \in Workers : v # w => worker'[v] = worker[v]
        /\ NodeOf[w] \in Nodes /\ up[NodeOf[w]]
    BY WorkerFrame DEF WorkerStep
  <1>3. PICK t : t = worker[w].tw
    OBVIOUS
  <1>4. PICK m : m = worker[w].errors
    OBVIOUS
  <1>5. /\ UNCHANGED <<status, delivered>> /\ worker[w].pc \in {"failed", "error"}
        /\ \E pc \in {"marking", "marking_rescued"} : Goto(w, pc)
    BY DEF HandleFailure, history
  <1>6. /\ worker'[w].pc \in {"marking", "marking_rescued"} /\ worker'[w].tw = t
        /\ worker'[w].errors = m /\ worker'[w].loaded = worker[w].loaded
    BY <1>1, <1>3, <1>4, <1>5, GotoFacts DEF IInv
  <1>7. t \in Triggered /\ m \in 0..Retries /\ Busy(w, t)
    BY <1>1, <1>3, <1>4, <1>5, BusyFacts
  <1>8. \A v \in Workers, u \in Triggered : Busy(v, u)' <=> Busy(v, u)
    BY <1>2, <1>3, <1>5, <1>6 DEF Busy
  <1> DEFINE key == <<NodeOf[w], t, m + 1>>
  <1>9. /\ m < Retries => key \in JobKey /\ queue' = [queue EXCEPT ![key] = @ + 1]
        /\ ~(m < Retries) => queue' = queue
        /\ key[1] = NodeOf[w] /\ key[2] = t
    <2>1. m < Retries => m + 1 \in 0..Retries
      BY <1>7, ConstantsAssumption
    <2> QED BY <1>2, <1>3, <1>4, <1>7, <2>1, KeyFacts DEF HandleFailure, Enqueue
  <1>10. \A k \in JobKey : /\ queue[k] \in Nat /\ queue'[k] \in {queue[k], queue[k] + 1}
                           /\ k # key => queue'[k] = queue[k]
    <2>1. queue \in [JobKey -> Nat]
      BY <1>1 DEF IInv, TypeOK
    <2> HIDE DEF key
    <2> QED BY <1>9, <2>1
  <1>11. m < Retries => queue'[key] > 0
    <2>1. queue \in [JobKey -> Nat]
      BY <1>1 DEF IInv, TypeOK
    <2> HIDE DEF key
    <2> QED BY <1>9, <2>1
  <1>12. Alone'
    BY <1>1, <1>5, <1>8 DEF Alone
  <1>13. Performing'
    <2> SUFFICES ASSUME NEW v \in Workers, NEW u \in Triggered, Busy(v, u), status[u] # "deleted"
                 PROVE  Knows(v, u)' /\ (worker'[v].pc \in {"marking", "marking_rescued"}
                                           => Rescheduled(v, u)')
      BY <1>5, <1>8 DEF Performing
    <2>1. Knows(v, u)'
      BY <1>1, <1>2, <1>5, <1>6 DEF Performing, Knows
    <2>2. CASE v = w
      <3>1. u = t
        BY <1>3, <2>2 DEF Busy
      <3>2. delivered[t] = 0
        BY <1>1, <1>3, <1>5, <3>1 DEF IInv, CountedAttempts
      <3>3. m = Retries => \A k \in JobKey : k[2] = t => queue'[k] = 0
        BY <1>1, <1>3, <1>5, <1>9, <3>1, ConstantsAssumption DEF IInv, OneToken, Holding
      <3> QED BY <1>5, <1>6, <1>11, <2>1, <2>2, <3>1, <3>2, <3>3 DEF Rescheduled
    <2>3. CASE v # w
      <3>1. u # t
        BY <1>1, <1>7, <2>3 DEF Alone
      <3>2. worker[v].errors < Retries => /\ <<NodeOf[v], u, worker[v].errors + 1>> \in JobKey
                                          /\ <<NodeOf[v], u, worker[v].errors + 1>>[2] = u
        <4>1. worker[v].errors \in 0..Retries /\ NodeOf[v] \in Nodes
          BY <1>1, BusyFacts DEF Busy
        <4>2. worker[v].errors < Retries => worker[v].errors + 1 \in 0..Retries
          BY <4>1, ConstantsAssumption
        <4> QED BY <4>1, <4>2, KeyFacts
      <3>3. \A k \in JobKey : k[2] = u => queue'[k] = queue[k]
        BY <1>9, <1>10, <3>1
      <3> QED BY <1>1, <1>2, <1>5, <2>1, <2>3, <3>2, <3>3 DEF Performing, Rescheduled
    <2> QED BY <2>2, <2>3
  <1>14. Quiet'
    <2>1. status[t] # "success"
      BY <1>1, <1>7 DEF Performing, Knows
    <2>2. \A k \in JobKey : ~up[k[1]] \/ status[k[2]] = "success" => queue'[k] = queue[k]
      BY <1>2, <1>9, <1>10, <2>1
    <2>3. \A v \in Workers : ~up[NodeOf[v]] => worker'[v].pc = "idle"
      BY <1>1, <1>2 DEF Quiet
    <2> QED BY <1>1, <1>2, <1>5, <2>2, <2>3 DEF Quiet
  <1>15. Scheduled'
    <2>1. \A k \in JobKey : queue[k] > 0 => queue'[k] > 0
      BY <1>10
    <2>2. \A u \in Triggered : Outstanding(u) => Outstanding(u)'
      BY <1>8, <2>1, OutstandingKept
    <2> QED BY <1>1, <1>2, <1>5, <2>1, <2>2, ScheduledKept
  <1> QED BY <1>12, <1>13, <1>14, <1>15 DEF DInv

\* The status a worker writes is the truth about its row: who succeeded leaves
\* no job behind, who will retry has scheduled it.
LEMMA UpdateStatusKeepsDInv ==
  ASSUME DInv, IInv', NEW w \in Workers, UpdateStatus(w)
  PROVE  /\ DInv'
         /\ \A t \in Triggered : status[t] = "success" => status'[t] = "success"
  <1>1. IInv /\ Alone /\ Performing /\ Quiet /\ Scheduled
    BY DEF DInv
  <1>2. /\ UNCHANGED <<request, created, up>> /\ budget'.crashes = budget.crashes
        /\ \A v \in Workers : v # w => worker'[v] = worker[v]
        /\ NodeOf[w] \in Nodes /\ up[NodeOf[w]]
    BY WorkerFrame DEF WorkerStep
  <1>3. PICK t : t = worker[w].tw
    OBVIOUS
  <1>4. /\ UNCHANGED <<queue, delivered>> /\ Updating(w)
        /\ status' = IF worker[w].loaded = NewStatus(w)
                       THEN status ELSE [status EXCEPT ![t] = NewStatus(w)]
        /\ worker[w].loaded = NewStatus(w) \/ RowExists(t)
    BY <1>3 DEF UpdateStatus, history
  <1>5. worker'[w].pc = "idle" /\ worker[w].pc # "idle"
    BY <1>1, <1>4 DEF UpdateStatus, Updating, Idle, IInv, TypeOK
  <1>6. /\ t \in Triggered /\ Busy(w, t) /\ worker[w].errors \in 0..Retries
        /\ status \in [Triggered -> Status]
    BY <1>1, <1>3, <1>5, BusyFacts DEF IInv, TypeOK
  <1>7. \A v \in Workers, u \in Triggered : Busy(v, u)' <=> v # w /\ Busy(v, u)
    BY <1>2, <1>5 DEF Busy
  <1>8. \A u \in Triggered : /\ u # t => status'[u] = status[u]
                             /\ status[u] = "deleted" <=> status'[u] = "deleted"
    <2>1. NewStatus(w) # "deleted"
      BY DEF NewStatus, FailureStatus
    <2> QED BY <1>4, <1>6, <2>1 DEF RowExists, RowStatus
  <1>9. \A v \in Workers, u \in Triggered :
           v # w /\ Busy(v, u) /\ status[u] # "deleted" => u # t
    BY <1>1, <1>6 DEF Alone
  <1>10. status[t] # "deleted" =>
            /\ status[t] # "success"
            /\ status'[t] = "success" => \A k \in JobKey : k[2] = t => queue[k] = 0
            /\ status'[t] \in {"not_run", "retrying"} => Outstanding(t)
    <2> SUFFICES ASSUME status[t] # "deleted"
                 PROVE  /\ status[t] # "success"
                        /\ status'[t] = "success" => \A k \in JobKey : k[2] = t => queue[k] = 0
                        /\ status'[t] \in {"not_run", "retrying"} => Outstanding(t)
      OBVIOUS
    <2>1. Knows(w, t)
      BY <1>1, <1>6 DEF Performing
    <2>2. status[t] # "success"
      BY <2>1 DEF Knows
    <2>3. CASE worker[w].pc = "succeeded"
      <3>1. \A k \in JobKey : k[2] = t => queue[k] = 0
        BY <1>1, <1>3, <2>3 DEF IInv, OneToken, Holding
      <3>2. status'[t] = "success"
        BY <1>4, <1>6, <2>1, <2>3 DEF NewStatus, Knows
      <3> QED BY <2>2, <3>1, <3>2
    <2>4. CASE worker[w].pc # "succeeded"
      <3>1. NewStatus(w) = IF worker[w].errors < Retries THEN "retrying" ELSE "failure"
        BY <2>4 DEF NewStatus, FailureStatus
      <3>2. status'[t] \in {status[t], NewStatus(w)}
        BY <1>4, <1>6
      <3>3. status'[t] # "success"
        BY <2>2, <3>1, <3>2
      <3>4. Rescheduled(w, t)
        BY <1>1, <1>4, <1>6, <2>4 DEF Performing, Updating
      <3>5. CASE worker[w].errors < Retries
        <4>1. queue[<<NodeOf[w], t, worker[w].errors + 1>>] > 0
          BY <3>4, <3>5 DEF Rescheduled
        <4>2. worker[w].errors + 1 \in 0..Retries
          BY <1>6, <3>5, ConstantsAssumption
        <4>3. Outstanding(t)
          BY <1>2, <4>1, <4>2 DEF Outstanding
        <4> QED BY <2>2, <3>3, <4>3
      <3>6. CASE ~(worker[w].errors < Retries)
        <4>1. NewStatus(w) = "failure"
          BY <3>1, <3>6
        <4>2. status'[t] = "failure"
          BY <1>4, <1>6, <2>1, <4>1 DEF Knows
        <4> QED BY <2>2, <4>2
      <3> QED BY <3>5, <3>6
    <2> QED BY <2>3, <2>4
  <1>11. Alone'
    BY <1>1, <1>7, <1>8 DEF Alone
  <1>12. Performing'
    <2> SUFFICES ASSUME NEW v \in Workers, NEW u \in Triggered, v # w, Busy(v, u),
                        status[u] # "deleted"
                 PROVE  Knows(v, u)' /\ (worker'[v].pc \in {"marking", "marking_rescued"}
                                           => Rescheduled(v, u)')
      BY <1>7, <1>8 DEF Performing
    <2>1. worker'[v] = worker[v] /\ status'[u] = status[u]
      BY <1>2, <1>8, <1>9
    <2> QED BY <1>1, <1>4, <2>1 DEF Performing, Knows, Rescheduled
  <1>13. Quiet'
    <2>1. \A v \in Workers : ~up[NodeOf[v]] => worker'[v].pc = "idle"
      BY <1>1, <1>2 DEF Quiet
    <2>2. \A k \in JobKey : status'[k[2]] = "success" => queue[k] = 0
      <3>1. \A k \in JobKey : k[2] \in Triggered
        BY JobKeyParts
      <3> QED BY <1>1, <1>8, <1>10, <3>1 DEF Quiet
    <2> QED BY <1>1, <1>2, <1>4, <2>1, <2>2 DEF Quiet
  <1>14. Scheduled'
    <2>1. ASSUME NEW u \in Triggered, u # t, Outstanding(u) PROVE Outstanding(u)'
      <3>1. \A v \in Workers : Busy(v, u) => v # w
        BY <1>3, <2>1 DEF Busy
      <3> QED BY <1>4, <1>7, <2>1, <3>1, OutstandingKept
    <2>2. status'[t] \in {"not_run", "retrying"} => Outstanding(t)'
      <3> SUFFICES ASSUME status'[t] \in {"not_run", "retrying"} PROVE Outstanding(t)'
        OBVIOUS
      <3>1. status[t] # "deleted"
        BY <1>6, <1>8
      <3>2. worker[w].pc # "succeeded"
        BY <1>1, <1>4, <1>6, <3>1 DEF Performing, Knows, NewStatus
      <3>3. Rescheduled(w, t)
        BY <1>1, <1>4, <1>6, <3>1, <3>2 DEF Performing, Updating
      <3>4. worker[w].errors < Retries
        <4> SUFFICES ASSUME ~(worker[w].errors < Retries) PROVE FALSE
          OBVIOUS
        <4>1. NewStatus(w) = "failure"
          BY <3>2 DEF NewStatus, FailureStatus
        <4> QED BY <1>1, <1>4, <1>6, <3>1, <4>1 DEF Performing, Knows
      <3>5. /\ queue[<<NodeOf[w], t, worker[w].errors + 1>>] > 0
            /\ worker[w].errors + 1 \in 0..Retries
        BY <1>6, <3>3, <3>4, ConstantsAssumption DEF Rescheduled
      <3> QED BY <1>2, <1>4, <3>5 DEF Outstanding
    <2> QED BY <1>1, <1>2, <1>4, <1>8, <2>1, <2>2, ScheduledKept
  <1>15. \A u \in Triggered : status[u] = "success" => status'[u] = "success"
    BY <1>8, <1>10
  <1> QED BY <1>11, <1>12, <1>13, <1>14, <1>15 DEF DInv

LEMMA WorkerKeepsDInv ==
  ASSUME TimersHold, DInv, NEW w \in Workers, WorkerStep(w)
  PROVE  DInv'
  <1>1. IInv'
    BY WorkerKeepsIInv DEF DInv
  <1>2. IInv
    BY DEF DInv
  <1>3. ASSUME NEW u \in Triggered, NEW e \in 0..Retries, StartJob(w, u, e) PROVE DInv'
    BY <1>1, <1>3, StartJobKeepsDInv
  <1>4. CASE SendRequest(w)
    <2>1. /\ UNCHANGED <<status, queue>> /\ worker[w].pc = "execute"
          /\ \E result \in {"accepted", "rejected"} :
                worker' = [worker EXCEPT ![w] = [@ EXCEPT !.pc = "record", !.result = result]]
          /\ \/ delivered' = delivered
             \/ delivered' = [delivered EXCEPT ![worker[w].tw] = @ + 1]
      BY <1>4 DEF SendRequest
    <2>2. worker[w] \in Job /\ worker \in [Workers -> Job]
      BY <1>2 DEF IInv, TypeOK
    <2>3. /\ worker'[w].pc = "record" /\ worker'[w].tw = worker[w].tw
          /\ worker'[w].loaded = worker[w].loaded
      BY <2>1, <2>2 DEF Job
    <2>4. \A t \in Triggered : ~Busy(w, t) => delivered'[t] = delivered[t]
      BY <1>2, <2>1 DEF Busy, IInv, TypeOK
    <2> QED BY <1>1, <2>1, <2>3, <2>4, WorkGoesOn DEF Busy
  <1>5. CASE RaiseMissing(w) \/ RecordExecution(w)
    <2>1. /\ UNCHANGED <<status, queue, delivered>> /\ worker[w].pc \in {"execute", "record"}
          /\ \E pc \in {"error", "succeeded", "failed"} : Goto(w, pc)
      BY <1>5 DEF RaiseMissing, RecordExecution, history
    <2>2. /\ worker'[w].pc \in {"error", "succeeded", "failed"}
          /\ worker'[w].tw = worker[w].tw /\ worker'[w].loaded = worker[w].loaded
      BY <1>2, <2>1, GotoFacts DEF IInv
    <2> QED BY <1>1, <2>1, <2>2, WorkGoesOn DEF Busy
  <1>6. CASE HandleFailure(w)
    BY <1>1, <1>6, HandleFailureKeepsDInv
  <1>7. CASE UpdateStatus(w)
    BY <1>1, <1>7, UpdateStatusKeepsDInv
  <1>8. CASE UpdateStatusMissing(w)
    <2>1. /\ UNCHANGED <<status, queue, delivered>> /\ RaiseFromUpdate(w)
          /\ ~RowExists(worker[w].tw) /\ worker[w].pc # "idle"
      BY <1>8 DEF UpdateStatusMissing, RaiseFromUpdate, history, Updating
    <2>2. status[worker[w].tw] = "deleted"
      BY <1>2, <2>1, BusyFacts DEF IInv, TypeOK, RowExists, Status
    <2>3. worker'[w] = Idle \/ worker'[w].tw = worker[w].tw
      BY <1>2, <2>1, RaiseFacts DEF IInv
    <2>4. \A t \in Triggered : Busy(w, t)' => Busy(w, t)
      BY <2>1, <2>3 DEF Busy, Idle
    <2>5. \A t \in Triggered : Busy(w, t) => status[t] = "deleted"
      BY <2>2 DEF Busy
    <2> QED BY <1>1, <2>1, <2>4, <2>5, WorkGoesOn
  <1>9. ~RecordExecutionFails(w) /\ ~UpdateStatusFails(w)
    BY <1>2 DEF RecordExecutionFails, UpdateStatusFails, IInv, Lifecycle
  <1> QED BY <1>3, <1>4, <1>5, <1>6, <1>7, <1>8, <1>9 DEF WorkerStep

LEMMA DInvNext == TimersHold /\ DInv /\ [Next]_vars => DInv'
  <1> SUFFICES ASSUME TimersHold, DInv, [Next]_vars PROVE DInv'
    OBVIOUS
  <1>1. CASE UNCHANGED vars
    <2>1. IInv'
      BY <1>1, IInvNext DEF DInv
    <2>2. Alone' /\ Performing' /\ Quiet'
      BY <1>1 DEF vars, DInv, Alone, Performing, Knows, Rescheduled, Quiet, Busy
    <2>3. Scheduled'
      BY <1>1 DEF vars, DInv, Scheduled, PendingIsScheduled, RetryingIsRetried, Outstanding, Busy
    <2> QED BY <2>1, <2>2, <2>3 DEF DInv
  <1> QED BY <1>1, AdministrationKeepsDInv, RequestKeepsDInv, WorkerKeepsDInv,
             ProcessKeepsDInv DEF Next

LEMMA DInvHolds == TimersHold /\ MaxDbErrors = 0 /\ Spec => []DInv
  <1> SUFFICES ASSUME TimersHold, MaxDbErrors = 0 PROVE Spec => []DInv
    OBVIOUS
  <1>1. Init => DInv
    BY DInvInit
  <1>2. DInv /\ [Next]_vars => DInv'
    BY DInvNext
  <1> QED BY <1>1, <1>2, PTL DEF Spec

\* While every process has kept running, a row that waits for its first run or
\* for a retry has a job on the way.
THEOREM PendingStaysScheduled == TimersHold /\ MaxDbErrors = 0 /\ Spec => []PendingIsScheduled
  <1>1. DInv => PendingIsScheduled
    BY DEF DInv, Scheduled
  <1> QED BY <1>1, DInvHolds, PTL

\* Whatever has stopped, once every process runs again nothing is "retrying"
\* that nobody retries.
THEOREM RetryingStaysRetried == TimersHold /\ MaxDbErrors = 0 /\ Spec => []RetryingIsRetried
  <1>1. DInv => RetryingIsRetried
    BY DEF DInv, Scheduled
  <1> QED BY <1>1, DInvHolds, PTL

\* No late status update and no starting process turns a success into anything
\* else; only a deletion ends it.
THEOREM SuccessStaysFinal == TimersHold /\ MaxDbErrors = 0 /\ Spec => SuccessIsFinal
  <1> SUFFICES ASSUME TimersHold, MaxDbErrors = 0 PROVE Spec => SuccessIsFinal
    OBVIOUS
  <1> DEFINE Kept == \A t \in Triggered : status[t] = "success" => status'[t] \in {"success", "deleted"}
  <1>1. ASSUME DInv, [Next]_vars PROVE [Kept]_vars
    <2>1. CASE UNCHANGED status
      BY <2>1
    <2>2. CASE Administration
      BY <2>2 DEF Administration, CreateWebhook, UpdateWebhook, DeleteWebhook, DeleteTriggered,
                  DeleteIntegration
    <2>3. ASSUME NEW r \in Requests, Commit(r) PROVE Kept
      <3>1. \A t \in created[r] : t \in Triggered => status[t] = "absent"
        BY <1>1, <2>3 DEF Commit, DInv, IInv, Lifecycle
      <3> QED BY <2>3, <3>1 DEF Commit
    <2>4. ASSUME NEW n \in Nodes, Start(n) PROVE Kept
      BY <2>4 DEF Start
    <2>5. ASSUME NEW w \in Workers, UpdateStatus(w) PROVE Kept
      <3>1. IInv'
        BY <1>1, IInvNext DEF DInv
      <3> QED BY <1>1, <2>5, <3>1, UpdateStatusKeepsDInv
    <2> QED
      BY <1>1, <2>1, <2>2, <2>3, <2>4, <2>5
      DEF Next, RequestStep, TriggerWebhooks, ScheduleTriggered, RespondError, CommitFails,
          WorkerStep, StartJob, SendRequest, RaiseMissing, RecordExecution, RecordExecutionFails,
          HandleFailure, UpdateStatusMissing, UpdateStatusFails, RaiseFromUpdate, Crash, vars
  <1>2. Spec => []DInv
    BY DInvHolds
  <1> QED BY <1>1, <1>2, PTL DEF Spec, SuccessIsFinal

-----------------------------------------------------------------------------
(* What a reader of a failed row may rely on *)

\* With one process, or none that stops, nobody fails a row that is retried.
NobodyElseStarts == MaxCrashes = 0 \/ \E n \in Nodes : Nodes = {n}

\* A failed row is left alone.
Failed ==
    \A t \in Triggered : status[t] = "failure" =>
        /\ \A k \in JobKey : k[2] = t => queue[k] = 0
        /\ \A w \in Workers : ~Busy(w, t)

\* The endpoint accepts once.
Once == \A t \in Triggered : delivered[t] <= 1

\* A step that fails no row, and gives no job to a failed one.
LEMMA FailedKept ==
  ASSUME DInv, Failed,
         \A t \in Triggered : status'[t] = "failure" =>
            /\ status[t] = "failure"
            /\ \A k \in JobKey : k[2] = t /\ queue[k] = 0 => queue'[k] = 0
            /\ \A w \in Workers : Busy(w, t)' => Busy(w, t)
  PROVE  Failed'
  BY DEF Failed

LEMMA FailedNext == NobodyElseStarts /\ TimersHold /\ DInv /\ Failed /\ [Next]_vars => Failed'
  <1> SUFFICES ASSUME NobodyElseStarts, TimersHold, DInv, Failed, [Next]_vars PROVE Failed'
    OBVIOUS
  <1>1. IInv /\ Alone /\ Performing /\ Quiet /\ Scheduled
    BY DEF DInv
  <1>2. ASSUME UNCHANGED <<queue, worker>>,
               \A t \in Triggered : status'[t] = "failure" => status[t] = "failure"
        PROVE  Failed'
    BY <1>2, FailedKept DEF Busy
  <1>3. CASE Administration
    <2>1. UNCHANGED <<queue, worker>>
      BY <1>3 DEF Administration, CreateWebhook, UpdateWebhook, DeleteWebhook, DeleteTriggered,
                  DeleteIntegration
    <2>2. \A t \in Triggered : status'[t] = "failure" => status[t] = "failure"
      BY <1>3 DEF Administration, CreateWebhook, UpdateWebhook, DeleteWebhook, DeleteTriggered,
                  DeleteIntegration
    <2> QED BY <1>2, <2>1, <2>2
  <1>4. ASSUME NEW r \in Requests, RequestStep(r) PROVE Failed'
    <2>1. CASE ScheduleTriggered(r)
      <3>1. UNCHANGED <<status, worker>> /\ request[r] = "open"
        BY <2>1 DEF ScheduleTriggered
      <3>2. \A t \in created[r] : t \in Triggered => status[t] = "absent"
        BY <1>1, <3>1 DEF IInv, Lifecycle
      <3>3. \A k \in JobKey : status[k[2]] = "failure" => queue'[k] = queue[k]
        BY <2>1, <3>2, JobKeyParts DEF ScheduleTriggered
      <3> QED BY <3>1, <3>3, FailedKept DEF Busy
    <2>2. CASE ~ScheduleTriggered(r)
      <3>1. UNCHANGED <<queue, worker>>
        BY <1>4, <2>2 DEF RequestStep, TriggerWebhooks, RespondError, Commit, CommitFails
      <3>2. \A t \in Triggered : status'[t] = "failure" => status[t] = "failure"
        BY <1>4, <2>2 DEF RequestStep, TriggerWebhooks, RespondError, Commit, CommitFails
      <3> QED BY <1>2, <3>1, <3>2
    <2> QED BY <2>1, <2>2
  <1>5. ASSUME NEW n \in Nodes, Crash(n) PROVE Failed'
    <2>1. /\ UNCHANGED status
          /\ \A k \in JobKey : queue[k] = 0 => queue'[k] = 0
          /\ \A w \in Workers : worker'[w].pc = "idle" \/ worker'[w] = worker[w]
      BY <1>5 DEF Crash, Idle
    <2> QED BY <2>1, FailedKept DEF Busy
  <1>6. ASSUME NEW n \in Nodes, Start(n) PROVE Failed'
    <2>1. ~up[n] /\ UNCHANGED <<queue, worker>>
      BY <1>6 DEF Start
    <2>2. MaxCrashes # 0
      BY <1>1, <2>1, ConstantsAssumption DEF Quiet, IInv, TypeOK
    <2>3. Nodes = {n}
      BY <2>2 DEF NobodyElseStarts
    <2>4. \A k \in JobKey : queue[k] = 0
      BY <1>1, <2>1, <2>3, JobKeyParts DEF Quiet
    <2>5. \A w \in Workers : worker[w].pc = "idle"
      BY <1>1, <2>1, <2>3, ConstantsAssumption DEF Quiet
    <2> QED BY <2>1, <2>4, <2>5 DEF Failed, Busy
  <1>7. ASSUME NEW w \in Workers, WorkerStep(w) PROVE Failed'
    <2>1. \A v \in Workers : v # w => worker'[v] = worker[v]
      BY <1>7, WorkerFrame
    <2>2. ASSUME NEW u \in Triggered, NEW e \in 0..Retries, StartJob(w, u, e) PROVE Failed'
      <3> DEFINE key == <<NodeOf[w], u, e>>
      <3>1. /\ key \in JobKey /\ key[2] = u /\ queue[key] > 0
            /\ queue' = [queue EXCEPT ![key] = @ - 1] /\ UNCHANGED status
            /\ queue \in [JobKey -> Nat]
        BY <1>1, <2>2, KeyFacts, ConstantsAssumption DEF StartJob, IInv, TypeOK
      <3>2. \A t \in Triggered : Busy(w, t)' => t = u \/ Busy(w, t)
        BY <1>1, <2>2 DEF StartJob, Busy, IInv, TypeOK
      <3> HIDE DEF key
      <3>3. status[u] # "failure"
        BY <3>1 DEF Failed
      <3>4. \A k \in JobKey : queue[k] = 0 => queue'[k] = 0
        BY <3>1
      <3> QED BY <2>1, <3>1, <3>2, <3>3, <3>4, FailedKept DEF Busy
    <2>3. CASE SendRequest(w) \/ RaiseMissing(w) \/ RecordExecution(w) \/ UpdateStatusMissing(w)
      <3>1. UNCHANGED <<status, queue>> /\ worker[w].pc # "idle"
        BY <2>3 DEF SendRequest, RaiseMissing, RecordExecution, UpdateStatusMissing, RaiseFromUpdate,
                    Updating
      <3>2. worker'[w] = Idle \/ worker'[w].tw = worker[w].tw
        <4>0. worker[w] \in Job /\ worker \in [Workers -> Job]
          BY <1>1 DEF IInv, TypeOK
        <4>1. CASE SendRequest(w)
          BY <4>0, <4>1 DEF SendRequest, Job
        <4>2. CASE RaiseMissing(w) \/ RecordExecution(w)
          BY <4>0, <4>2 DEF RaiseMissing, RecordExecution, Goto, Job
        <4>3. CASE UpdateStatusMissing(w)
          BY <1>1, <4>3, RaiseFacts DEF UpdateStatusMissing, IInv
        <4> QED BY <2>3, <4>1, <4>2, <4>3
      <3> QED BY <2>1, <3>1, <3>2, FailedKept DEF Busy, Idle
    <2>4. CASE HandleFailure(w)
      <3>1. /\ UNCHANGED status /\ worker[w].pc # "idle"
            /\ \E pc \in {"marking", "marking_rescued"} : Goto(w, pc)
        BY <2>4 DEF HandleFailure
      <3>2. worker'[w].tw = worker[w].tw
        BY <1>1, <3>1, GotoFacts DEF IInv
      <3>3. worker[w].tw \in Triggered /\ status[worker[w].tw] # "failure"
        BY <1>1, <3>1, BusyFacts DEF Failed
      <3>4. \A k \in JobKey : status[k[2]] = "failure" => queue'[k] = queue[k]
        <4> DEFINE key == <<NodeOf[w], worker[w].tw, worker[w].errors + 1>>
        <4>1. queue' = [queue EXCEPT ![key] = @ + 1] \/ queue' = queue
          BY <2>4 DEF HandleFailure, Enqueue
        <4>2. key[2] = worker[w].tw /\ queue \in [JobKey -> Nat]
          BY <1>1 DEF IInv, TypeOK
        <4> HIDE DEF key
        <4> QED BY <3>3, <4>1, <4>2
      <3> QED BY <2>1, <3>1, <3>2, <3>4, FailedKept DEF Busy
    <2>5. CASE UpdateStatus(w)
      <3>1. PICK t : t = worker[w].tw
        OBVIOUS
      <3>2. /\ UNCHANGED queue /\ Updating(w) /\ worker[w].pc # "idle"
            /\ status' = IF worker[w].loaded = NewStatus(w)
                           THEN status ELSE [status EXCEPT ![t] = NewStatus(w)]
            /\ worker[w].loaded = NewStatus(w) \/ RowExists(t)
            /\ worker'[w].pc = "idle"
        BY <1>1, <2>5, <3>1 DEF UpdateStatus, Updating, Idle, IInv, TypeOK
      <3>3. /\ t \in Triggered /\ Busy(w, t) /\ worker[w].errors \in 0..Retries
            /\ status \in [Triggered -> Status]
        BY <1>1, <3>1, <3>2, BusyFacts DEF IInv, TypeOK
      <3>4. \A v \in Workers, u \in Triggered : Busy(v, u)' => v # w /\ Busy(v, u)
        BY <2>1, <3>2 DEF Busy
      <3>5. ASSUME status'[t] = "failure", status[t] # "failure"
            PROVE  /\ \A k \in JobKey : k[2] = t => queue'[k] = 0
                   /\ \A v \in Workers : ~Busy(v, t)'
        <4>1. NewStatus(w) = "failure" /\ RowExists(t)
          BY <3>2, <3>3, <3>5
        <4>2. status[t] # "deleted"
          BY <4>1 DEF RowExists, RowStatus
        <4>3. worker[w].pc # "succeeded" /\ ~(worker[w].errors < Retries)
          BY <4>1 DEF NewStatus, FailureStatus
        <4>4. Rescheduled(w, t)
          BY <1>1, <3>2, <3>3, <4>2, <4>3 DEF Performing, Updating
        <4>5. worker[w].errors = Retries
          BY <3>3, <4>3, ConstantsAssumption
        <4> QED BY <1>1, <3>2, <3>3, <3>4, <4>2, <4>4, <4>5 DEF Rescheduled, Alone
      <3>6. \A u \in Triggered : u # t => status'[u] = status[u]
        BY <3>2, <3>3
      <3> QED BY <3>2, <3>4, <3>5, <3>6 DEF Failed
    <2>6. ~RecordExecutionFails(w) /\ ~UpdateStatusFails(w)
      BY <1>1 DEF RecordExecutionFails, UpdateStatusFails, IInv, Lifecycle
    <2> QED BY <1>7, <2>2, <2>3, <2>4, <2>5, <2>6 DEF WorkerStep
  <1>8. CASE UNCHANGED vars
    BY <1>2, <1>8 DEF vars
  <1> QED BY <1>3, <1>4, <1>5, <1>6, <1>7, <1>8 DEF Next

LEMMA FailedHolds ==
  NobodyElseStarts /\ TimersHold /\ MaxDbErrors = 0 /\ Spec => [](DInv /\ Failed)
  <1> SUFFICES ASSUME NobodyElseStarts, TimersHold, MaxDbErrors = 0
               PROVE  Spec => [](DInv /\ Failed)
    OBVIOUS
  <1>1. Init => Failed
    BY DEF Init, Failed
  <1>2. DInv /\ Failed /\ [Next]_vars => Failed'
    BY FailedNext
  <1>3. Spec => []DInv
    BY DInvHolds
  <1> QED BY <1>1, <1>2, <1>3, PTL DEF Spec

\* A row that is reported as failed is not retried behind the reader's back, when
\* the broker is one process or no process stops.  (A second process that starts
\* fails the rows that the first is still retrying.)
THEOREM FailureStopsRetries ==
  NobodyElseStarts /\ TimersHold /\ MaxDbErrors = 0 /\ Spec => []FailureStopsRetrying
  <1>1. Failed => FailureStopsRetrying
    BY KeyFacts DEF Failed, FailureStopsRetrying
  <1> QED BY <1>1, FailedHolds, PTL

-----------------------------------------------------------------------------
(* The jobs keep the promise *)

\* What a reader makes of a row's status.
LEMMA OutcomeFacts ==
  /\ Outcome("absent") = "none"
  /\ Outcome("not_run") = "pending" /\ Outcome("retrying") = "pending"
  /\ Outcome("success") = "success" /\ Outcome("failure") = "failure"
  /\ Outcome("deleted") = "deleted"
  BY DEF Outcome

LEMMA OnceNext == IInv /\ Once /\ [Next]_vars => Once'
  <1> SUFFICES ASSUME IInv, Once, [Next]_vars PROVE Once'
    OBVIOUS
  <1>1. CASE UNCHANGED delivered
    BY <1>1 DEF Once
  <1>2. ASSUME NEW w \in Workers, SendRequest(w) PROVE Once'
    <2>1. delivered[worker[w].tw] = 0 /\ delivered \in [Triggered -> Nat]
      BY <1>2 DEF SendRequest, IInv, TypeOK, CountedAttempts
    <2>2. delivered' \in {delivered, [delivered EXCEPT ![worker[w].tw] = @ + 1]}
      BY <1>2 DEF SendRequest
    <2> QED BY <2>1, <2>2 DEF Once
  <1> QED
    BY <1>1, <1>2
    DEF Next, Administration, CreateWebhook, UpdateWebhook, DeleteWebhook, DeleteTriggered,
        DeleteIntegration, RequestStep, TriggerWebhooks, ScheduleTriggered, RespondError, Commit,
        CommitFails, WorkerStep, StartJob, RaiseMissing, RecordExecution, RecordExecutionFails,
        HandleFailure, UpdateStatus, UpdateStatusMissing, UpdateStatusFails, RaiseFromUpdate,
        Crash, Start, history, vars

\* Rows that appear are triggered.
LEMMA CommitTriggers ==
  ASSUME IInv, NEW r \in Requests, Commit(r)
  PROVE  Delivery!Trigger
  <1>1. UNCHANGED <<attempts, delivered>>
    BY DEF Commit, history
  <1>2. PICK S : S = {t \in Triggered : t \in created[r]}
    OBVIOUS
  <1>3. \A t \in S : status[t] = "absent"
    BY <1>2 DEF Commit, IInv, Lifecycle
  <1>4. \A t \in Triggered : status'[t] = IF t \in S THEN "not_run" ELSE status[t]
    BY <1>2 DEF Commit
  <1>5. S \in SUBSET {t \in Triggered : [u \in Triggered |-> Outcome(status[u])][t] = "none"}
    BY <1>2, <1>3, OutcomeFacts
  <1>6. [u \in Triggered |-> Outcome(status[u])]'
          = [t \in Triggered |-> IF t \in S THEN "pending"
                                 ELSE [u \in Triggered |-> Outcome(status[u])][t]]
    <2>1. \A t \in Triggered : Outcome(status'[t]) =
             IF t \in S THEN "pending" ELSE Outcome(status[t])
      BY <1>4, OutcomeFacts
    <2> QED BY <2>1
  <1> QED BY <1>1, <1>5, <1>6 DEF Delivery!Trigger

LEMMA StatusDeleted ==
  ASSUME TypeOK, UNCHANGED <<attempts, delivered>>, NEW S \in SUBSET Triggered,
         \A t \in S : RowExists(t),
         \A t \in Triggered : status'[t] = IF t \in S THEN "deleted" ELSE status[t]
  PROVE  Delivery!Delete
  <1>1. S \in SUBSET {t \in Triggered : [u \in Triggered |-> Outcome(status[u])][t] # "none"}
    <2>1. \A t \in S : Outcome(status[t]) # "none"
      BY OutcomeFacts DEF RowExists, RowStatus
    <2> QED BY <2>1
  <1>2. [u \in Triggered |-> Outcome(status[u])]'
          = [t \in Triggered |-> IF t \in S THEN "deleted"
                                 ELSE [u \in Triggered |-> Outcome(status[u])][t]]
    <2>1. \A t \in Triggered : Outcome(status'[t]) =
             IF t \in S THEN "deleted" ELSE Outcome(status[t])
      BY OutcomeFacts
    <2> QED BY <2>1
  <1> QED BY <1>1, <1>2 DEF Delivery!Delete

LEMMA AdministrationDelivers ==
  ASSUME IInv, Administration
  PROVE  [Delivery!Next]_(Delivery!dvars)
  <1>1. UNCHANGED <<attempts, delivered>> /\ TypeOK
    BY DEF Administration, CreateWebhook, UpdateWebhook, DeleteWebhook, DeleteTriggered,
           DeleteIntegration, history, IInv
  <1>2. CASE \E h \in Webhooks : CreateWebhook(h) \/ UpdateWebhook(h) \/ DeleteWebhook(h)
    <2>1. UNCHANGED status
      BY <1>2 DEF CreateWebhook, UpdateWebhook, DeleteWebhook
    <2> QED BY <1>1, <2>1 DEF Delivery!dvars
  <1>3. ASSUME NEW r \in Requests, DeleteTriggered(r) PROVE Delivery!Delete
    <2>1. PICK S : S = {t \in Triggered : t[1] = r /\ RowExists(t)}
      OBVIOUS
    <2>2. \A t \in Triggered : status'[t] = IF t \in S THEN "deleted" ELSE status[t]
      BY <1>3, <2>1 DEF DeleteTriggered
    <2> QED BY <1>1, <2>1, <2>2, StatusDeleted
  <1>4. CASE DeleteIntegration
    <2>1. PICK S : S = {t \in Triggered : RowExists(t)}
      OBVIOUS
    <2>2. \A t \in Triggered : status'[t] = IF t \in S THEN "deleted" ELSE status[t]
      BY <1>4, <2>1 DEF DeleteIntegration
    <2>3. Delivery!Delete
      BY <1>1, <2>1, <2>2, StatusDeleted
    <2> QED BY <2>3 DEF Delivery!Next
  <1> QED BY <1>2, <1>3, <1>4 DEF Administration, Delivery!Next

\* A request that is sent is an attempt: there are attempts left, none was
\* accepted, and the row is not settled.
LEMMA SendingIsAttempt ==
  ASSUME DInv, Failed, NEW w \in Workers, SendRequest(w)
  PROVE  \E t \in Triggered : Delivery!Attempt(t)
  <1>1. PICK t : t = worker[w].tw
    OBVIOUS
  <1>2. IInv /\ Performing
    BY DEF DInv
  <1>3. worker[w].pc = "execute" /\ UNCHANGED status
    BY DEF SendRequest
  <1>4. t \in Triggered /\ Busy(w, t) /\ worker[w].errors \in 0..Retries /\ status[t] # "absent"
    BY <1>1, <1>2, <1>3, BusyFacts
  <1>5. status[t] \in {"not_run", "retrying", "deleted"}
    BY <1>2, <1>4 DEF Performing, Knows, Failed
  <1>6. attempts[t] <= worker[w].errors /\ delivered[t] = 0
    BY <1>1, <1>2, <1>3 DEF IInv, CountedAttempts
  <1>7. attempts[t] < Retries + 1
    BY <1>2, <1>4, <1>6, ConstantsAssumption DEF IInv, TypeOK
  <1>8. \E a \in {0, 1} : delivered' = [delivered EXCEPT ![t] = a]
    <2>1. delivered \in [Triggered -> Nat]
      BY <1>2 DEF IInv, TypeOK
    <2>2. CASE delivered' = delivered
      <3>1. delivered' = [delivered EXCEPT ![t] = 0]
        BY <1>6, <2>1, <2>2
      <3> QED BY <3>1
    <2>3. CASE delivered' = [delivered EXCEPT ![t] = @ + 1]
      <3>1. delivered' = [delivered EXCEPT ![t] = 1]
        BY <1>6, <2>1, <2>3
      <3> QED BY <3>1
    <2> QED BY <1>1, <2>2, <2>3 DEF SendRequest
  <1>9. attempts' = [attempts EXCEPT ![t] = @ + 1]
    BY <1>1 DEF SendRequest
  <1>10. Outcome(status[t]) \in {"pending", "deleted"}
    BY <1>5, OutcomeFacts
  <1>11. Delivery!Attempt(t)
    BY <1>3, <1>4, <1>6, <1>7, <1>8, <1>9, <1>10 DEF Delivery!Attempt
  <1> QED BY <1>4, <1>11

\* A status update settles its row truthfully, or says that it goes on waiting.
LEMMA UpdatingSettles ==
  ASSUME DInv, Failed, RInv, Once, NEW w \in Workers, UpdateStatus(w)
  PROVE  \/ UNCHANGED Delivery!dvars
         \/ \E t \in Triggered : Delivery!Settle(t)
  <1>1. PICK t : t = worker[w].tw
    OBVIOUS
  <1>2. IInv /\ Performing
    BY DEF DInv
  <1>3. /\ UNCHANGED <<attempts, delivered>> /\ Updating(w) /\ worker[w].pc # "idle"
        /\ status' = IF worker[w].loaded = NewStatus(w)
                       THEN status ELSE [status EXCEPT ![t] = NewStatus(w)]
        /\ worker[w].loaded = NewStatus(w) \/ RowExists(t)
    BY <1>1 DEF UpdateStatus, Updating, history
  <1>4. /\ t \in Triggered /\ Busy(w, t) /\ worker[w].errors \in 0..Retries
        /\ status \in [Triggered -> Status] /\ delivered[t] \in Nat
    BY <1>1, <1>2, <1>3, BusyFacts DEF IInv, TypeOK
  <1>5. CASE status' = status
    BY <1>3, <1>5 DEF Delivery!dvars
  <1>6. CASE status' # status
    <2>1. status' = [status EXCEPT ![t] = NewStatus(w)] /\ RowExists(t)
      BY <1>3, <1>6
    <2>2. status[t] # "deleted"
      BY <2>1 DEF RowExists, RowStatus
    <2>3. status[t] \in {"not_run", "retrying"}
      BY <1>2, <1>4, <2>2 DEF Performing, Knows, Failed
    <2>4. CASE NewStatus(w) = "retrying"
      <3>1. \A u \in Triggered : Outcome(status'[u]) = Outcome(status[u])
        BY <1>4, <2>1, <2>3, <2>4, OutcomeFacts
      <3> QED BY <1>3, <3>1 DEF Delivery!dvars
    <2>5. CASE NewStatus(w) # "retrying"
      <3>1. NewStatus(w) = IF delivered[t] = 1 THEN "success" ELSE "failure"
        <4>1. CASE worker[w].pc = "succeeded"
          <5>1. delivered[t] > 0
            BY <1>1, <4>1 DEF RInv, Truthful, Accepted
          <5>2. delivered[t] = 1
            BY <1>4, <5>1 DEF Once
          <5> QED BY <4>1, <5>2 DEF NewStatus
        <4>2. CASE worker[w].pc # "succeeded"
          <5>1. Rescheduled(w, t)
            BY <1>2, <1>3, <1>4, <2>2, <4>2 DEF Performing, Updating
          <5>2. delivered[t] = 0
            BY <5>1 DEF Rescheduled
          <5> QED BY <2>5, <4>2, <5>2 DEF NewStatus, FailureStatus
        <4> QED BY <4>1, <4>2
      <3>2. Outcome(status[t]) = "pending" /\ Outcome(NewStatus(w)) = NewStatus(w)
        BY <2>3, <3>1, OutcomeFacts
      <3>3. [u \in Triggered |-> Outcome(status[u])]'
              = [[u \in Triggered |-> Outcome(status[u])] EXCEPT ![t] = NewStatus(w)]
        <4>1. \A u \in Triggered : Outcome(status'[u]) =
                 IF u = t THEN NewStatus(w) ELSE Outcome(status[u])
          BY <1>4, <2>1, <3>2
        <4> QED BY <4>1
      <3>4. Delivery!Settle(t)
        BY <1>3, <1>4, <3>1, <3>2, <3>3 DEF Delivery!Settle
      <3> QED BY <1>4, <3>4
    <2> QED BY <2>4, <2>5
  <1> QED BY <1>5, <1>6

LEMMA DeliveryInit == Init => Delivery!Init
  <1> SUFFICES ASSUME Init PROVE Delivery!Init
    OBVIOUS
  <1>1. \A t \in Triggered : Outcome(status[t]) = "none"
    BY OutcomeFacts DEF Init
  <1>2. [t \in Triggered |-> Outcome(status[t])] = [t \in Triggered |-> "none"]
    BY <1>1
  <1> QED BY <1>2 DEF Init, Delivery!Init

LEMMA DeliveryNext ==
  ASSUME MaxCrashes = 0, DInv, Failed, RInv, Once, [Next]_vars
  PROVE  [Delivery!Next]_(Delivery!dvars)
  <1>1. IInv /\ Quiet
    BY DEF DInv
  <1>2. ASSUME UNCHANGED <<status, attempts, delivered>> PROVE UNCHANGED Delivery!dvars
    BY <1>2 DEF Delivery!dvars
  <1>3. CASE Administration
    BY <1>1, <1>3, AdministrationDelivers
  <1>4. ASSUME NEW r \in Requests, RequestStep(r) PROVE [Delivery!Next]_(Delivery!dvars)
    <2>1. CASE Commit(r)
      BY <1>1, <2>1, CommitTriggers DEF Delivery!Next
    <2>2. CASE ~Commit(r)
      <3>1. UNCHANGED <<status, attempts, delivered>>
        BY <1>4, <2>2 DEF RequestStep, TriggerWebhooks, ScheduleTriggered, RespondError, CommitFails,
                          history
      <3> QED BY <1>2, <3>1
    <2> QED BY <2>1, <2>2
  <1>5. ASSUME NEW w \in Workers, WorkerStep(w) PROVE [Delivery!Next]_(Delivery!dvars)
    <2>1. CASE SendRequest(w)
      BY <2>1, SendingIsAttempt DEF Delivery!Next
    <2>2. CASE UpdateStatus(w)
      BY <2>2, UpdatingSettles DEF Delivery!Next
    <2>3. CASE ~SendRequest(w) /\ ~UpdateStatus(w)
      <3>1. UNCHANGED <<status, attempts, delivered>>
        BY <1>5, <2>3 DEF WorkerStep, StartJob, RaiseMissing, RecordExecution, RecordExecutionFails,
                          HandleFailure, UpdateStatusMissing, UpdateStatusFails, RaiseFromUpdate,
                          history
      <3> QED BY <1>2, <3>1
    <2> QED BY <2>1, <2>2, <2>3
  <1>6. \A n \in Nodes : ~Crash(n) /\ ~Start(n)
    <2>1. budget.crashes = 0 /\ \A n \in Nodes : up[n]
      BY <1>1 DEF Quiet, IInv, TypeOK
    <2> QED BY <2>1 DEF Crash, Start
  <1>7. CASE UNCHANGED vars
    BY <1>2, <1>7 DEF vars
  <1> QED BY <1>3, <1>4, <1>5, <1>6, <1>7 DEF Next

\* Without stops and failing writes, and with delays that last, every behaviour
\* of the jobs is one of the promised delivery: at most Retries + 1 requests,
\* none after one was accepted, and an outcome that is settled once, truthfully.
THEOREM JobsDeliver ==
  TimersHold /\ MaxDbErrors = 0 /\ MaxCrashes = 0 /\ Spec => Delivery!Spec
  <1> SUFFICES ASSUME TimersHold, MaxDbErrors = 0, MaxCrashes = 0
               PROVE  Spec => Delivery!Spec
    OBVIOUS
  <1>1. Spec => [](DInv /\ Failed)
    BY FailedHolds DEF NobodyElseStarts
  <1>2. Init => Once
    BY DEF Init, Once
  <1>3. DInv /\ Once /\ [Next]_vars => Once'
    BY OnceNext DEF DInv
  <1>4. DInv /\ Failed /\ RInv /\ Once /\ [Next]_vars => [Delivery!Next]_(Delivery!dvars)
    BY DeliveryNext
  <1> QED BY <1>1, <1>2, <1>3, <1>4, RInvHolds, DeliveryInit, PTL DEF Spec, Delivery!Spec
=============================================================================
