-------------------------- MODULE WebhookJobsProofs --------------------------
(***************************************************************************)
(* Proofs about WebhookJobs, for every set of requests, webhooks, processes *)
(* and workers and every length of the retry schedule.                      *)
(***************************************************************************)
EXTENDS WebhookJobs, TLAPS

-----------------------------------------------------------------------------
(* Type correctness *)

LEMMA IdleType == Idle \in Job
  BY ConstantsAssumption DEF Idle, Job, PC, Status, RowStatus, Result

\* Adding one scheduled job keeps the queues well typed (perform_in).
LEMMA EnqueueType ==
  ASSUME queue \in [JobKey -> Nat],
         NEW n \in Nodes, NEW t \in Triggered, NEW e \in 0..Retries
  PROVE  Enqueue(queue, n, t, e) \in [JobKey -> Nat]
  BY DEF Enqueue, JobKey

\* Moving a worker to another phase keeps its job.
LEMMA GotoType ==
  ASSUME worker \in [Workers -> Job], NEW w \in Workers, NEW pc \in PC, Goto(w, pc)
  PROVE  worker' \in [Workers -> Job]
  <1>1. worker[w] \in Job
    OBVIOUS
  <1>2. [worker[w] EXCEPT !.pc = pc] \in Job
    BY <1>1 DEF Job
  <1> QED BY <1>1, <1>2 DEF Goto

LEMMA TypeInit == Init => TypeOK
  BY ConstantsAssumption, IdleType
  DEF Init, TypeOK, WebhookState, RequestState, Status, RowStatus

\* A worker that performs a job holds a triggered webhook.
BusyHasJob == \A w \in Workers : worker[w].pc # "idle" => worker[w].tw \in Triggered

LEMMA TypeNext == TypeOK /\ BusyHasJob /\ [Next]_vars => TypeOK'
  <1> SUFFICES ASSUME TypeOK, BusyHasJob, [Next]_vars PROVE TypeOK'
    OBVIOUS
  <1> USE ConstantsAssumption DEF TypeOK, history
  <1>1. ASSUME NEW h \in Webhooks, CreateWebhook(h) \/ UpdateWebhook(h) \/ DeleteWebhook(h)
        PROVE TypeOK'
    <2>1. CASE CreateWebhook(h)
      BY <2>1 DEF CreateWebhook, WebhookState
    <2>2. CASE UpdateWebhook(h)
      BY <2>2 DEF UpdateWebhook, WebhookState
    <2>3. CASE DeleteWebhook(h)
      BY <2>3 DEF DeleteWebhook, WebhookState
    <2> QED BY <1>1, <2>1, <2>2, <2>3
  <1>2. ASSUME NEW r \in Requests, DeleteTriggered(r) PROVE TypeOK'
    BY <1>2 DEF DeleteTriggered, Status
  <1>3. CASE DeleteIntegration
    BY <1>3 DEF DeleteIntegration, Status, WebhookState
  <1>4. ASSUME NEW r \in Requests, RequestStep(r) PROVE TypeOK'
    <2>1. CASE TriggerWebhooks(r)
      BY <2>1 DEF TriggerWebhooks, RequestState, Triggered
    <2>2. CASE ScheduleTriggered(r)
      BY <2>2 DEF ScheduleTriggered, RequestState
    <2>3. CASE RespondError(r)
      BY <2>3 DEF RespondError, RequestState
    <2>4. CASE Commit(r)
      BY <2>4 DEF Commit, RequestState, Status, RowStatus
    <2>5. CASE CommitFails(r)
      BY <2>5 DEF CommitFails, RequestState
    <2> QED BY <1>4, <2>1, <2>2, <2>3, <2>4, <2>5 DEF RequestStep
  <1>5. ASSUME NEW w \in Workers, WorkerStep(w) PROVE TypeOK'
    <2> USE DEF Job
    <2>0. /\ worker[w].pc # "idle" => worker[w].tw \in Triggered
          /\ worker[w].errors \in 0..Retries
          /\ NodeOf[w] \in Nodes
      BY DEF BusyHasJob
    <2>1. ASSUME NEW t \in Triggered, NEW e \in 0..Retries, StartJob(w, t, e) PROVE TypeOK'
      BY <2>1 DEF StartJob, PC, JobKey, Result
    <2>2. CASE SendRequest(w)
      <3>1. PICK result \in {"accepted", "rejected"} :
              /\ worker' = [worker EXCEPT ![w] = [@ EXCEPT !.pc = "record", !.result = result]]
              /\ delivered' = IF result = "accepted"
                                 THEN [delivered EXCEPT ![worker[w].tw] = @ + 1]
                                   ELSE delivered
        BY <2>2 DEF SendRequest
      <3>2. worker' \in [Workers -> Job]
        <4>0. worker[w] \in Job
          OBVIOUS
        <4>1. [worker[w] EXCEPT !.pc = "record", !.result = result] \in Job
          BY <4>0 DEF PC, Result
        <4> HIDE DEF Job
        <4> QED BY <3>1, <4>1
      <3>3. delivered' \in [Triggered -> Nat] /\ attempts' \in [Triggered -> Nat]
        <4>1. worker[w].tw \in Triggered
          BY <2>0, <2>2 DEF SendRequest
        <4> HIDE DEF Job
        <4>2. attempts' = [attempts EXCEPT ![worker[w].tw] = @ + 1]
          BY <2>2 DEF SendRequest
        <4> QED BY <3>1, <4>1, <4>2
      <3> QED BY <2>2, <3>2, <3>3 DEF SendRequest
    <2>3. CASE RaiseMissing(w)
      <3>1. worker' \in [Workers -> Job]
        <4> HIDE DEF Job
        <4> QED BY <2>3, GotoType DEF RaiseMissing, PC
      <3> QED BY <2>3, <3>1 DEF RaiseMissing
    <2>4. CASE RecordExecution(w)
      <3>1. worker[w] \in Job /\ worker[w].tw \in Triggered
        BY <2>0, <2>4 DEF RecordExecution
      <3>2. executions' \in [Triggered -> Nat]
        <4> HIDE DEF Job
        <4> QED BY <2>4, <3>1 DEF RecordExecution
      <3>3. (IF worker[w].result = "accepted" THEN "succeeded" ELSE "failed") \in PC
        BY DEF PC
      <3>4. worker' \in [Workers -> Job]
        <4> HIDE DEF Job
        <4> QED BY <2>4, <3>3, GotoType DEF RecordExecution
      <3> QED BY <2>4, <3>2, <3>4 DEF RecordExecution
    <2>5. CASE RecordExecutionFails(w)
      <3>1. worker' \in [Workers -> Job]
        <4> HIDE DEF Job
        <4> QED BY <2>5, GotoType DEF RecordExecutionFails, PC
      <3> QED BY <2>5, <3>1 DEF RecordExecutionFails
    <2>6. CASE HandleFailure(w)
      <3>1. queue' \in [JobKey -> Nat]
        <4>1. CASE worker[w].errors < Retries
          <5>1. worker[w].errors + 1 \in 0..Retries /\ worker[w].tw \in Triggered
            BY <2>0, <2>6, <4>1 DEF HandleFailure
          <5> QED BY <2>0, <2>6, <4>1, <5>1, EnqueueType DEF HandleFailure
        <4>2. CASE ~(worker[w].errors < Retries)
          BY <2>6, <4>2 DEF HandleFailure
        <4> QED BY <4>1, <4>2
      <3>2. worker' \in [Workers -> Job]
        <4> HIDE DEF Job
        <4> QED BY <2>6, GotoType DEF HandleFailure, PC
      <3> QED BY <2>6, <3>1, <3>2 DEF HandleFailure
    <2>7. CASE UpdateStatus(w)
      <3>1. worker' \in [Workers -> Job]
        <4> HIDE DEF Job
        <4> QED BY <2>7, IdleType DEF UpdateStatus
      <3>2. NewStatus(w) \in Status
        BY DEF NewStatus, FailureStatus, Status, RowStatus
      <3>3. status' \in [Triggered -> Status]
        <4> HIDE DEF Job
        <4> QED BY <2>7, <3>2 DEF UpdateStatus
      <3> QED BY <2>7, <3>1, <3>3 DEF UpdateStatus
    <2>8. ASSUME RaiseFromUpdate(w) PROVE worker' \in [Workers -> Job]
      <3>1. worker[w] \in Job
        OBVIOUS
      <3>2. [worker[w] EXCEPT !.pc = "error", !.loaded = "deleted"] \in Job
        BY <3>1 DEF PC, Status
      <3> HIDE DEF Job
      <3> QED BY <2>8, <3>1, <3>2, IdleType DEF RaiseFromUpdate
    <2>9. CASE UpdateStatusMissing(w)
      BY <2>8, <2>9 DEF UpdateStatusMissing, RaiseFromUpdate
    <2>10. CASE UpdateStatusFails(w)
      BY <2>8, <2>10 DEF UpdateStatusFails, RaiseFromUpdate
    <2> QED BY <1>5, <2>1, <2>2, <2>3, <2>4, <2>5, <2>6, <2>7, <2>9, <2>10
          DEF WorkerStep
  <1>6. ASSUME NEW n \in Nodes, Crash(n) PROVE TypeOK'
    BY <1>6, IdleType DEF Crash, RequestState
  <1>7. ASSUME NEW n \in Nodes, Start(n) PROVE TypeOK'
    BY <1>7 DEF Start, Status, RowStatus
  <1>8. CASE UNCHANGED vars
    BY <1>8 DEF vars
  <1> QED
    BY <1>1, <1>2, <1>3, <1>4, <1>5, <1>6, <1>7, <1>8 DEF Next, Administration

LEMMA BusyHasJobNext == TypeOK /\ BusyHasJob /\ [Next]_vars => BusyHasJob'
  <1> SUFFICES ASSUME TypeOK, BusyHasJob, [Next]_vars PROVE BusyHasJob'
    OBVIOUS
  <1> USE DEF TypeOK, BusyHasJob
  <1>1. CASE UNCHANGED worker
    BY <1>1
  <1>2. ASSUME NEW w \in Workers, WorkerStep(w) PROVE BusyHasJob'
    <2> USE DEF Job
    <2>1. ASSUME NEW t \in Triggered, NEW e \in 0..Retries, StartJob(w, t, e)
          PROVE BusyHasJob'
      BY <2>1 DEF StartJob
    <2>2. CASE SendRequest(w)
      BY <2>2 DEF SendRequest
    <2>3. CASE RaiseMissing(w) \/ RecordExecution(w) \/ RecordExecutionFails(w)
      BY <2>3 DEF RaiseMissing, RecordExecution, RecordExecutionFails, Goto
    <2>4. CASE HandleFailure(w)
      BY <2>4 DEF HandleFailure, Goto
    <2>5. CASE UpdateStatus(w)
      BY <2>5 DEF UpdateStatus, Idle
    <2>6. CASE UpdateStatusMissing(w) \/ UpdateStatusFails(w)
      <3>1. Updating(w) /\ RaiseFromUpdate(w)
        BY <2>6 DEF UpdateStatusMissing, UpdateStatusFails
      <3>2. worker[w].tw \in Triggered
        BY <3>1 DEF Updating
      <3>3. ASSUME NEW v \in Workers, v # w PROVE worker'[v] = worker[v]
        BY <3>1, <3>3 DEF RaiseFromUpdate
      <3>4. worker'[w] = Idle \/ worker'[w].tw = worker[w].tw
        BY <3>1 DEF RaiseFromUpdate
      <3> QED BY <3>2, <3>3, <3>4 DEF Idle
    <2> QED BY <1>2, <2>1, <2>2, <2>3, <2>4, <2>5, <2>6 DEF WorkerStep
  <1>3. ASSUME NEW n \in Nodes, Crash(n) PROVE BusyHasJob'
    BY <1>3 DEF Crash, Idle
  <1>4. CASE Administration
    BY <1>1, <1>4 DEF Administration, CreateWebhook, UpdateWebhook, DeleteWebhook,
                      DeleteTriggered, DeleteIntegration
  <1>5. ASSUME NEW r \in Requests, RequestStep(r) PROVE BusyHasJob'
    BY <1>1, <1>5 DEF RequestStep, TriggerWebhooks, ScheduleTriggered, RespondError,
                      Commit, CommitFails
  <1>6. ASSUME NEW n \in Nodes, Start(n) PROVE BusyHasJob'
    BY <1>1, <1>6 DEF Start
  <1>7. CASE UNCHANGED vars
    BY <1>1, <1>7 DEF vars
  <1> QED BY <1>2, <1>3, <1>4, <1>5, <1>6, <1>7 DEF Next

\* Every variable of the delivery keeps its type: in particular no job count
\* becomes negative and every status is one the code knows (job.rb,
\* triggered_webhook.rb), whatever fails or stops.
THEOREM TypeCorrect == Spec => []TypeOK
  <1>1. Init => TypeOK /\ BusyHasJob
    BY TypeInit DEF Init, BusyHasJob, Idle
  <1>2. TypeOK /\ BusyHasJob /\ [Next]_vars => (TypeOK /\ BusyHasJob)'
    BY TypeNext, BusyHasJobNext
  <1> QED BY <1>1, <1>2, PTL DEF Spec

-----------------------------------------------------------------------------
(* The inductive invariant *)

\* Phases in which a job may still reschedule itself or send: it holds the one
\* permission to continue that its triggered webhook has.
Holding == {"execute", "record", "failed", "error", "succeeded"}

\* A transaction's rows belong to its request and exist only while it is open;
\* a row, and a job, exists only after its request got that far.
Lifecycle ==
    /\ budget.dbErrors = 0
    /\ \A r \in Requests, t \in Triggered :
          t \in created[r] => t[1] = r /\ request[r] \in {"open", "answered"}
    /\ \A t \in Triggered :
          /\ status[t] # "absent" => request[t[1]] = "committed"
          /\ status[t] = "absent" => attempts[t] = 0 /\ delivered[t] = 0
    /\ \A k \in JobKey :
          queue[k] > 0 => request[k[2][1]] \in {"answered", "committed", "aborted"}
    /\ \A w \in Workers :
          worker[w].pc # "idle" => /\ worker[w].tw \in Triggered
                                  /\ status[worker[w].tw] # "absent"

\* As long as the row is not deleted, one job at most can continue: it is
\* scheduled once, in one place, or it is in the hands of one worker.
OneToken ==
    /\ \A k \in JobKey : status[k[2]] # "deleted" => queue[k] <= 1
    /\ \A k, l \in JobKey :
          k # l /\ k[2] = l[2] /\ status[k[2]] # "deleted" /\ queue[k] > 0 => queue[l] = 0
    /\ \A w \in Workers, k \in JobKey :
          worker[w].pc \in Holding /\ worker[w].tw = k[2] /\ status[k[2]] # "deleted"
            => queue[k] = 0
    /\ \A w, v \in Workers :
          w # v /\ worker[w].pc \in Holding /\ worker[v].pc \in Holding
                /\ worker[w].tw = worker[v].tw
            => /\ status[worker[w].tw] = "deleted"
               /\ worker[w].pc = "error" \/ worker[v].pc = "error"

\* The error count of the job that can continue bounds the requests sent.
CountedAttempts ==
    /\ \A t \in Triggered : attempts[t] <= Retries + 1
    /\ \A k \in JobKey :
          queue[k] > 0 /\ status[k[2]] # "deleted"
            => attempts[k[2]] <= k[3] /\ delivered[k[2]] = 0
    /\ \A w \in Workers :
          LET t == worker[w].tw IN
          /\ worker[w].pc = "execute" => attempts[t] <= worker[w].errors /\ delivered[t] = 0
          /\ worker[w].pc \in Holding /\ status[t] # "deleted"
               => attempts[t] <= worker[w].errors + 1
          /\ worker[w].pc = "record" /\ worker[w].result # "accepted" => delivered[t] = 0
          /\ worker[w].pc \in {"failed", "error"} /\ status[t] # "deleted"
               => delivered[t] = 0

IInv == TypeOK /\ Lifecycle /\ OneToken /\ CountedAttempts

LEMMA IInvInit == MaxDbErrors = 0 /\ Init => IInv
  <1> SUFFICES ASSUME MaxDbErrors = 0, Init PROVE IInv
    OBVIOUS
  <1>1. TypeOK
    BY TypeInit
  <1>2. Lifecycle
    BY DEF Init, Lifecycle, Idle, JobKey, Triggered
  <1>3. OneToken
    BY DEF Init, OneToken, Idle, Holding, JobKey
  <1>4. CountedAttempts
    BY ConstantsAssumption DEF Init, CountedAttempts, Idle, Holding, JobKey
  <1> QED BY <1>1, <1>2, <1>3, <1>4 DEF IInv

\* The components of a scheduled job.
LEMMA JobKeyParts ==
  ASSUME NEW k \in JobKey
  PROVE  /\ k[1] \in Nodes /\ k[2] \in Triggered /\ k[3] \in 0..Retries
         /\ k[2][1] \in Requests /\ k[2][2] \in Webhooks
  BY DEF JobKey, Triggered

LEMMA TriggeredParts ==
  ASSUME NEW t \in Triggered
  PROVE  t[1] \in Requests /\ t[2] \in Webhooks
  BY DEF Triggered

\* Deleting, failing or creating webhooks and rows keeps the invariant: rows
\* only ever move out of its scope.
LEMMA AdministrationKeepsIInv == IInv /\ Administration => IInv'
  <1> SUFFICES ASSUME IInv, Administration PROVE IInv'
    OBVIOUS
  <1>1. TypeOK'
    BY TypeNext DEF IInv, Lifecycle, BusyHasJob, Next
  <1>2. UNCHANGED <<request, created, queue, worker, attempts, delivered>>
        /\ budget'.dbErrors = budget.dbErrors
    BY DEF Administration, CreateWebhook, UpdateWebhook, DeleteWebhook, DeleteTriggered,
           DeleteIntegration, history, IInv, TypeOK
  <1>3. \A t \in Triggered :
           \/ status'[t] = status[t]
           \/ status[t] # "absent" /\ status'[t] = "deleted"
    BY DEF Administration, CreateWebhook, UpdateWebhook, DeleteWebhook, DeleteTriggered,
           DeleteIntegration, RowExists, RowStatus
  <1>4. Lifecycle'
    BY <1>2, <1>3, JobKeyParts DEF IInv, Lifecycle
  <1>5. \A w \in Workers : worker[w].pc \in Holding => worker[w].tw \in Triggered
    BY DEF IInv, Lifecycle, Holding
  <1>6. OneToken'
    BY <1>2, <1>3, <1>5, JobKeyParts DEF IInv, OneToken
  <1>7. CountedAttempts'
    BY <1>2, <1>3, <1>5, JobKeyParts DEF IInv, CountedAttempts, Holding
  <1> QED BY <1>1, <1>4, <1>6, <1>7 DEF IInv

\* A request hands out the one permission for each of its rows when it
\* schedules the jobs, and only then makes the rows visible.
LEMMA RequestKeepsIInv ==
  ASSUME IInv, NEW r \in Requests, RequestStep(r)
  PROVE  IInv'
  <1>1. TypeOK'
    BY TypeNext DEF IInv, Lifecycle, BusyHasJob, Next
  <1> USE DEF IInv
  <1>2. CASE TriggerWebhooks(r) \/ RespondError(r) \/ CommitFails(r)
    <2>1. UNCHANGED <<status, queue, worker, attempts, delivered, budget>>
      BY <1>2 DEF TriggerWebhooks, RespondError, CommitFails, history, Lifecycle
    <2>2. \A q \in Requests : q # r => created'[q] = created[q] /\ request'[q] = request[q]
      BY <1>2 DEF TriggerWebhooks, RespondError, CommitFails, TypeOK
    <2>3. /\ request[r] \in {"new", "open", "answered"}
          /\ request'[r] = "aborted" \/ (request[r] = "new" /\ request'[r] = "open")
      BY <1>2 DEF TriggerWebhooks, RespondError, CommitFails, TypeOK
    <2>4. \A t \in created'[r] : t[1] = r /\ request'[r] = "open"
      BY <1>2 DEF TriggerWebhooks, RespondError, CommitFails, TypeOK
    <2>5. Lifecycle'
      BY <2>1, <2>2, <2>3, <2>4, JobKeyParts, TriggeredParts DEF Lifecycle
    <2>6. OneToken' /\ CountedAttempts'
      BY <2>1 DEF OneToken, CountedAttempts
    <2> QED BY <1>1, <2>5, <2>6
  <1>3. CASE ScheduleTriggered(r)
    <2>1. UNCHANGED <<status, created, worker, attempts, delivered, budget>>
      BY <1>3 DEF ScheduleTriggered, history
    <2>2. /\ request[r] = "open"
          /\ request' = [request EXCEPT ![r] = "answered"]
          /\ \A k \in JobKey :
                queue'[k] = IF k[1] = NodeOf[r] /\ k[2] \in created[r] /\ k[3] = 0
                              THEN queue[k] + 1 ELSE queue[k]
      BY <1>3 DEF ScheduleTriggered
    <2>3. \A k \in JobKey : k[2][1] = r =>
             /\ queue[k] = 0 /\ status[k[2]] = "absent"
             /\ attempts[k[2]] = 0 /\ delivered[k[2]] = 0
      BY <2>2, JobKeyParts DEF Lifecycle, TypeOK
    <2>4. \A k \in JobKey :
             \/ queue'[k] = queue[k]
             \/ /\ k[1] = NodeOf[r] /\ k[3] = 0 /\ k[2][1] = r
                /\ queue'[k] = 1
      BY <2>2, <2>3, JobKeyParts DEF Lifecycle
    <2>5. Lifecycle'
      BY <2>1, <2>2, <2>4, JobKeyParts, TriggeredParts DEF Lifecycle, TypeOK
    <2>6. \A w \in Workers, k \in JobKey :
             worker[w].pc \in Holding /\ worker[w].tw = k[2] => k[2][1] # r
      BY <2>2, <2>3 DEF Lifecycle, Holding
    <2>7. \A k, l \in JobKey :
             k # l /\ k[2] = l[2] /\ k[1] = l[1] => k[3] # l[3]
      BY DEF JobKey
    <2>8. OneToken'
      BY <2>1, <2>3, <2>4, <2>6, <2>7, JobKeyParts DEF OneToken, TypeOK
    <2>9. CountedAttempts'
      BY <2>1, <2>3, <2>4, JobKeyParts DEF CountedAttempts, TypeOK
    <2> QED BY <1>1, <2>5, <2>8, <2>9
  <1>4. CASE Commit(r)
    <2>1. UNCHANGED <<queue, worker, attempts, delivered, budget>>
      BY <1>4 DEF Commit, history
    <2>2. /\ request[r] = "answered"
          /\ request' = [request EXCEPT ![r] = "committed"]
          /\ created' = [created EXCEPT ![r] = {}]
          /\ \A t \in Triggered :
                status'[t] = IF t \in created[r] THEN "not_run" ELSE status[t]
      BY <1>4 DEF Commit
    <2>3. \A t \in Triggered :
             status'[t] # status[t] =>
               t[1] = r /\ status[t] = "absent" /\ status'[t] = "not_run"
      BY <2>2, TriggeredParts DEF Lifecycle
    <2>4. Lifecycle'
      BY <2>1, <2>2, <2>3, JobKeyParts, TriggeredParts DEF Lifecycle, TypeOK
    <2>5. \A w \in Workers : worker[w].pc \in Holding => worker[w].tw \in Triggered
      BY DEF Lifecycle, Holding
    <2>6. OneToken'
      BY <2>1, <2>3, <2>5, JobKeyParts DEF OneToken
    <2>7. CountedAttempts'
      BY <2>1, <2>3, <2>5, JobKeyParts DEF CountedAttempts, Holding
    <2> QED BY <1>1, <2>4, <2>6, <2>7
  <1> QED BY <1>2, <1>3, <1>4 DEF RequestStep

\* A stopping process drops its jobs; a starting one turns retrying rows into
\* failed ones, which are still rows.
LEMMA ProcessKeepsIInv ==
  ASSUME IInv, NEW n \in Nodes, Crash(n) \/ Start(n)
  PROVE  IInv'
  <1>1. TypeOK'
    BY TypeNext DEF IInv, Lifecycle, BusyHasJob, Next
  <1> USE DEF IInv
  <1>2. CASE Crash(n)
    <2>1. UNCHANGED <<status, attempts, delivered>> /\ budget'.dbErrors = budget.dbErrors
      BY <1>2 DEF Crash, history, TypeOK
    <2>2. \A k \in JobKey : queue'[k] \in {0, queue[k]}
      BY <1>2 DEF Crash
    <2>3. \A w \in Workers : worker'[w] = worker[w] \/ worker'[w].pc = "idle"
      BY <1>2 DEF Crash, Idle
    <2>4. \A q \in Requests :
             \/ created'[q] = created[q] /\ request'[q] = request[q]
             \/ created'[q] = {} /\ request'[q] = request[q]
             \/ /\ created'[q] = {} /\ request'[q] = "aborted"
                /\ request[q] \in {"open", "answered"}
      BY <1>2 DEF Crash
    <2>5. Lifecycle'
      BY <2>1, <2>2, <2>3, <2>4, JobKeyParts, TriggeredParts DEF Lifecycle
    <2>6. OneToken'
      BY <2>1, <2>2, <2>3, JobKeyParts DEF OneToken, Holding, TypeOK
    <2>7. CountedAttempts'
      BY <2>1, <2>2, <2>3, JobKeyParts DEF CountedAttempts, Holding, TypeOK
    <2> QED BY <1>1, <2>5, <2>6, <2>7
  <1>3. CASE Start(n)
    <2>1. UNCHANGED <<request, created, queue, worker, attempts, delivered, budget>>
      BY <1>3 DEF Start, history
    <2>2. \A t \in Triggered :
             /\ status'[t] = "deleted" <=> status[t] = "deleted"
             /\ status'[t] = "absent" <=> status[t] = "absent"
      BY <1>3 DEF Start
    <2>3. \A w \in Workers : worker[w].pc # "idle" => worker[w].tw \in Triggered
      BY DEF Lifecycle
    <2>4. Lifecycle'
      BY <2>1, <2>2, <2>3, JobKeyParts DEF Lifecycle
    <2>5. OneToken'
      BY <2>1, <2>2, <2>3, JobKeyParts DEF OneToken, Holding
    <2>6. CountedAttempts'
      BY <2>1, <2>2, <2>3, JobKeyParts DEF CountedAttempts, Holding
    <2> QED BY <1>1, <2>4, <2>5, <2>6
  <1> QED BY <1>2, <1>3

\* A worker's step passes the permission on: the queue hands it to the worker,
\* the worker to its rescheduled job, and only its holder sends.
LEMMA WorkerKeepsIInv ==
  ASSUME IInv, NEW w \in Workers, WorkerStep(w)
  PROVE  IInv'
  <1> DEFINE j == worker[w]
             t == worker[w].tw
  <1>1. TypeOK'
    BY TypeNext DEF IInv, Lifecycle, BusyHasJob, Next
  <1> USE DEF IInv
  <1>2. \A v \in Workers : worker[v].pc # "idle" =>
           /\ worker[v].tw \in Triggered /\ worker[v].errors \in 0..Retries
           /\ status[worker[v].tw] # "absent"
           /\ request[worker[v].tw[1]] = "committed"
    BY DEF Lifecycle, TypeOK, Job
  <1>3. ASSUME NEW u \in Triggered, NEW e \in 0..Retries, StartJob(w, u, e)
        PROVE  IInv'
    <2> DEFINE key == <<NodeOf[w], u, e>>
    <2>1. UNCHANGED <<request, created, status, attempts, delivered, budget>>
      BY <1>3 DEF StartJob, history
    <2>2. /\ key \in JobKey /\ key[2] = u /\ key[3] = e
          /\ queue[key] > 0 /\ j.pc = "idle"
          /\ queue' = [queue EXCEPT ![key] = @ - 1]
      BY <1>3, ConstantsAssumption DEF StartJob, JobKey
    <2>3. \A k \in JobKey :
             /\ queue'[k] <= queue[k] /\ queue'[k] \in Nat /\ queue[k] \in Nat
             /\ k # key => queue'[k] = queue[k]
             /\ k = key => queue'[k] = queue[k] - 1
      BY <2>2 DEF TypeOK
    <2>6. \A k \in JobKey :
             /\ queue'[k] > 0 => queue[k] > 0
             /\ queue[k] = 0 => queue'[k] = 0
             /\ queue[k] <= 1 => queue'[k] <= 1
      BY <2>3
    <2> HIDE DEF key
    <2>4. CASE ~RowExists(u)
      <3>1. UNCHANGED worker
        BY <1>3, <2>4 DEF StartJob
      <3>2. Lifecycle'
        BY <2>1, <2>6, <3>1, JobKeyParts DEF Lifecycle
      <3>3. OneToken'
        BY <2>1, <2>6, <3>1, JobKeyParts DEF OneToken
      <3>4. CountedAttempts'
        BY <2>1, <2>6, <3>1, JobKeyParts DEF CountedAttempts
      <3> QED BY <1>1, <3>2, <3>3, <3>4
    <2>5. CASE RowExists(u)
      <3>1. /\ worker'[w].pc = "execute" /\ worker'[w].tw = u /\ worker'[w].errors = e
            /\ \A v \in Workers : v # w => worker'[v] = worker[v]
        BY <1>3, <2>5 DEF StartJob, TypeOK
      <3>2. status[u] # "deleted" /\ status[u] # "absent"
        BY <2>5 DEF RowExists, RowStatus
      <3>3. \A k \in JobKey : k[2] = u => queue'[k] = 0
        BY <2>2, <2>3, <3>2 DEF OneToken
      <3>4. \A v \in Workers : worker[v].pc \in Holding => worker[v].tw # u
        BY <2>2, <3>2 DEF OneToken
      <3>5. Lifecycle'
        BY <2>1, <2>6, <3>1, <3>2, JobKeyParts DEF Lifecycle
      <3>6. OneToken'
        BY <2>1, <2>6, <3>1, <3>2, <3>3, <3>4, JobKeyParts DEF OneToken, Holding
      <3>7. attempts[u] <= e /\ attempts[u] <= e + 1 /\ delivered[u] = 0
        BY <2>2, <3>2 DEF CountedAttempts, TypeOK
      <3>8. CountedAttempts'
        BY <2>1, <2>6, <3>1, <3>2, <3>7, JobKeyParts DEF Holding, CountedAttempts
      <3> QED BY <1>1, <3>5, <3>6, <3>8
    <2> QED BY <2>4, <2>5
  <1>4. CASE SendRequest(w)
    <2>1. UNCHANGED <<request, created, status, queue, budget>>
      BY <1>4 DEF SendRequest
    <2>2. j.pc = "execute" /\ t \in Triggered
      BY <1>2, <1>4 DEF SendRequest
    <2>3. attempts[t] <= j.errors /\ delivered[t] = 0 /\ status[t] # "absent"
      BY <1>2, <2>2 DEF CountedAttempts
    <2>4. attempts' = [attempts EXCEPT ![t] = @ + 1]
      BY <1>4 DEF SendRequest
    <2>5. PICK result \in {"accepted", "rejected"} :
             /\ worker' = [worker EXCEPT ![w] = [@ EXCEPT !.pc = "record", !.result = result]]
             /\ delivered' = IF result = "accepted"
                               THEN [delivered EXCEPT ![t] = @ + 1] ELSE delivered
      BY <1>4 DEF SendRequest
    <2>6. /\ worker'[w].pc = "record" /\ worker'[w].tw = t /\ worker'[w].errors = j.errors
          /\ worker'[w].result = "accepted" \/ delivered'[t] = 0
          /\ \A v \in Workers : v # w => worker'[v] = worker[v]
      BY <2>2, <2>3, <2>5 DEF TypeOK, Job
    <2>7. \A u \in Triggered : u # t =>
             attempts'[u] = attempts[u] /\ delivered'[u] = delivered[u]
      BY <2>4, <2>5 DEF TypeOK
    <2>8. attempts'[t] <= j.errors + 1 /\ attempts'[t] <= Retries + 1
      BY <1>2, <2>2, <2>3, <2>4, ConstantsAssumption DEF TypeOK
    <2>9. \A k \in JobKey : k[2] = t /\ status[t] # "deleted" => queue[k] = 0
      BY <2>2 DEF OneToken, Holding
    <2>10. \A v \in Workers : v # w /\ worker[v].pc \in Holding /\ worker[v].tw = t =>
             status[t] = "deleted" /\ worker[v].pc = "error"
      BY <2>2 DEF OneToken, Holding
    <2>11. Lifecycle'
      BY <2>1, <2>2, <2>3, <2>6, <2>7 DEF Lifecycle
    <2>12. OneToken'
      BY <2>1, <2>2, <2>6, <2>9, <2>10 DEF OneToken, Holding
    <2>13. CountedAttempts'
      <3>1. (\A u \in Triggered : attempts[u] <= Retries + 1)'
        BY <2>7, <2>8 DEF CountedAttempts
      <3>2. \A k \in JobKey :
               queue'[k] > 0 /\ status'[k[2]] # "deleted"
                 => attempts'[k[2]] <= k[3] /\ delivered'[k[2]] = 0
        BY <2>1, <2>7, <2>9, JobKeyParts DEF CountedAttempts, TypeOK
      <3>3. ASSUME NEW v \in Workers, v # w, worker[v].pc \in Holding
            PROVE  worker[v].tw # t \/ (status[t] = "deleted" /\ worker[v].pc = "error")
        BY <2>2, <2>10, <3>3
      <3>4. ASSUME NEW v \in Workers, worker[v].pc \in Holding PROVE worker[v].tw \in Triggered
        BY <1>2, <3>4 DEF Holding
      <3> QED BY <2>1, <2>6, <2>7, <2>8, <3>1, <3>2, <3>3, <3>4 DEF CountedAttempts, Holding
    <2> QED BY <1>1, <2>11, <2>12, <2>13
  <1>5. CASE RaiseMissing(w) \/ RecordExecution(w)
    <2>1. UNCHANGED <<request, created, status, queue, attempts, delivered, budget>>
      BY <1>5 DEF RaiseMissing, RecordExecution, history
    <2>2. /\ j.pc \in {"execute", "record"}
          /\ worker'[w].tw = t /\ worker'[w].errors = j.errors
          /\ \/ j.pc = "execute" /\ worker'[w].pc = "error"
             \/ j.result = "accepted" /\ worker'[w].pc = "succeeded"
             \/ /\ j.pc = "record" /\ j.result # "accepted"
                /\ worker'[w].pc = "failed"
          /\ \A v \in Workers : v # w => worker'[v] = worker[v]
      BY <1>5 DEF RaiseMissing, RecordExecution, Goto, TypeOK, Job
    <2>3. Lifecycle'
      BY <1>2, <2>1, <2>2 DEF Lifecycle
    <2>4. OneToken'
      BY <2>1, <2>2 DEF OneToken, Holding
    <2>5. CountedAttempts'
      BY <2>1, <2>2 DEF CountedAttempts, Holding
    <2> QED BY <1>1, <2>3, <2>4, <2>5
  <1>6. CASE HandleFailure(w)
    <2>1. UNCHANGED <<request, created, status, attempts, delivered, budget>>
      BY <1>6 DEF HandleFailure, history
    <2>2. /\ j.pc \in {"failed", "error"}
          /\ worker'[w].pc \notin Holding /\ worker'[w].tw = t
          /\ \A v \in Workers : v # w => worker'[v] = worker[v]
      BY <1>6 DEF HandleFailure, Goto, TypeOK, Job, Holding
    <2>3. t \in Triggered /\ j.errors \in 0..Retries /\ request[t[1]] = "committed"
      BY <1>2, <2>2
    <2> DEFINE m == j.errors + 1
    <2>4. \A k \in JobKey :
             \/ queue'[k] = queue[k]
             \/ /\ k[1] = NodeOf[w] /\ k[2] = t /\ k[3] = m
                /\ queue'[k] = queue[k] + 1
      <3>1. CASE j.errors < Retries
        <4> DEFINE key == <<NodeOf[w], t, m>>
        <4>1. queue' = [queue EXCEPT ![key] = @ + 1]
          BY <1>6, <3>1 DEF HandleFailure, Enqueue
        <4>2. key[1] = NodeOf[w] /\ key[2] = t /\ key[3] = m
          OBVIOUS
        <4>3. queue \in [JobKey -> Nat]
          BY DEF TypeOK
        <4> HIDE DEF key, m
        <4> QED BY <4>1, <4>2, <4>3
      <3>2. CASE ~(j.errors < Retries)
        BY <1>6, <3>2 DEF HandleFailure
      <3> QED BY <3>1, <3>2
    <2>5. /\ status[t] # "deleted" => delivered[t] = 0 /\ attempts[t] <= m
          /\ \A k \in JobKey : k[2] = t /\ status[t] # "deleted" => queue[k] = 0
          /\ \A v \in Workers : v # w /\ worker[v].pc \in Holding /\ worker[v].tw = t
                => status[t] = "deleted"
      BY <2>2, <2>4 DEF CountedAttempts, OneToken, Holding
    <2>6. \A k, l \in JobKey : k # l /\ k[1] = l[1] /\ k[2] = l[2] => k[3] # l[3]
      BY DEF JobKey
    <2>7. \A k \in JobKey : queue[k] \in Nat
      BY DEF TypeOK
    <2>8. Lifecycle'
      BY <1>2, <2>1, <2>2, <2>3, <2>4, <2>7 DEF Lifecycle
    <2>9. OneToken'
      BY <2>1, <2>2, <2>4, <2>5, <2>6, <2>7 DEF OneToken
    <2>10. CountedAttempts'
      BY <2>1, <2>2, <2>4, <2>5, <2>7 DEF CountedAttempts, Holding
    <2> QED BY <1>1, <2>8, <2>9, <2>10
  <1>7. CASE UpdateStatus(w)
    <2>1. UNCHANGED <<request, created, queue, attempts, delivered, budget>>
      BY <1>7 DEF UpdateStatus, history
    <2>2. /\ worker'[w].pc = "idle" /\ t \in Triggered
          /\ \A v \in Workers : v # w => worker'[v] = worker[v]
      BY <1>2, <1>7 DEF UpdateStatus, Updating, Idle, TypeOK
    <2>3. \A u \in Triggered :
             /\ status'[u] = "deleted" <=> status[u] = "deleted"
             /\ status'[u] = "absent" <=> status[u] = "absent"
      BY <1>7, <2>2 DEF UpdateStatus, NewStatus, FailureStatus, RowExists, RowStatus, TypeOK
    <2>4. \A v \in Workers : worker[v].pc \in Holding => worker[v].tw \in Triggered
      BY <1>2 DEF Holding
    <2>5. Lifecycle'
      BY <1>2, <2>1, <2>2, <2>3, JobKeyParts DEF Lifecycle
    <2>6. OneToken'
      BY <2>1, <2>2, <2>3, <2>4, JobKeyParts DEF OneToken, Holding
    <2>7. CountedAttempts'
      BY <2>1, <2>2, <2>3, <2>4, JobKeyParts DEF CountedAttempts, Holding
    <2> QED BY <1>1, <2>5, <2>6, <2>7
  <1>8. CASE UpdateStatusMissing(w)
    <2>1. UNCHANGED <<request, created, status, queue, attempts, delivered, budget>>
      BY <1>8 DEF UpdateStatusMissing, RaiseFromUpdate, history
    <2>2. Updating(w) /\ ~RowExists(t) /\ RaiseFromUpdate(w)
      BY <1>8 DEF UpdateStatusMissing
    <2>3. t \in Triggered /\ status[t] = "deleted"
      BY <1>2, <2>2 DEF Updating, RowExists, Status, TypeOK
    <2>4. \A v \in Workers : v # w => worker'[v] = worker[v]
      BY <2>2 DEF RaiseFromUpdate, TypeOK
    <2>5. \/ worker'[w].pc = "idle"
          \/ worker'[w].pc = "error" /\ worker'[w].tw = t
      <3>1. worker'[w] = IF j.pc = "marking_rescued"
                           THEN Idle
                           ELSE [j EXCEPT !.pc = "error", !.loaded = "deleted"]
        BY <2>2 DEF RaiseFromUpdate, TypeOK
      <3>2. j \in Job
        BY DEF TypeOK
      <3> QED BY <3>1, <3>2 DEF Idle, Job
    <2>6. Lifecycle'
      BY <1>2, <2>1, <2>3, <2>4, <2>5 DEF Lifecycle
    <2>7. OneToken'
      BY <2>1, <2>3, <2>4, <2>5, JobKeyParts DEF OneToken, Holding
    <2>8. CountedAttempts'
      BY <2>1, <2>3, <2>4, <2>5, JobKeyParts DEF CountedAttempts, Holding
    <2> QED BY <1>1, <2>6, <2>7, <2>8
  <1>9. ~RecordExecutionFails(w) /\ ~UpdateStatusFails(w)
    BY DEF RecordExecutionFails, UpdateStatusFails, Lifecycle
  <1> QED BY <1>3, <1>4, <1>5, <1>6, <1>7, <1>8, <1>9 DEF WorkerStep

LEMMA IInvNext == IInv /\ [Next]_vars => IInv'
  <1> SUFFICES ASSUME IInv, [Next]_vars PROVE IInv'
    OBVIOUS
  <1>1. CASE UNCHANGED vars
    BY <1>1 DEF vars, IInv, TypeOK, Lifecycle, OneToken, CountedAttempts, JobKey, Triggered
  <1> QED BY <1>1, AdministrationKeepsIInv, RequestKeepsIInv, WorkerKeepsIInv,
             ProcessKeepsIInv DEF Next

\* However many processes, workers, deletions, stops and early timers there are,
\* the endpoint receives at most one request more than the retry schedule has
\* entries, provided no database write of a job thread fails.
THEOREM AttemptsAreBounded == MaxDbErrors = 0 /\ Spec => []AttemptsBounded
  <1>1. IInv => AttemptsBounded
    BY DEF IInv, CountedAttempts, AttemptsBounded
  <1> QED BY <1>1, IInvInit, IInvNext, PTL DEF Spec

\* Nothing is sent for a triggered webhook the endpoint has accepted already,
\* although the job may have been rescheduled.
THEOREM DeliveredStaysFinal == MaxDbErrors = 0 /\ Spec => DeliveredIsFinal
  <1> DEFINE NoResend ==
        \A t \in Triggered : delivered[t] > 0 => attempts'[t] = attempts[t]
  <1>1. ASSUME IInv, [Next]_vars PROVE [NoResend]_vars
    <2>1. CASE UNCHANGED attempts
      BY <2>1
    <2>2. ASSUME NEW w \in Workers, SendRequest(w) PROVE NoResend
      <3>1. delivered[worker[w].tw] = 0
        BY <1>1, <2>2 DEF SendRequest, IInv, CountedAttempts
      <3> QED BY <1>1, <2>2, <3>1 DEF SendRequest, IInv, TypeOK
    <2> QED
      BY <1>1, <2>1, <2>2
      DEF Next, Administration, CreateWebhook, UpdateWebhook, DeleteWebhook,
          DeleteTriggered, DeleteIntegration, RequestStep, TriggerWebhooks,
          ScheduleTriggered, RespondError, Commit, CommitFails, WorkerStep, StartJob,
          RaiseMissing, RecordExecution, RecordExecutionFails, HandleFailure, UpdateStatus,
          UpdateStatusMissing, UpdateStatusFails, RaiseFromUpdate, Crash, Start, history, vars
  <1> QED BY <1>1, IInvInit, IInvNext, PTL DEF Spec, DeliveredIsFinal
=============================================================================
