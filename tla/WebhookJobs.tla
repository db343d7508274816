----------------------------- MODULE WebhookJobs -----------------------------
(***************************************************************************)
(* How the broker delivers webhooks.                                       *)
(*                                                                         *)
(* A publishing request creates one triggered webhook row per webhook and  *)
(* event context inside the request's database transaction, schedules an   *)
(* in-memory job for each row just before the transaction ends, and the    *)
(* workers of the job pool then send the HTTP request, record the          *)
(* execution, and retry a bounded number of times.  Jobs live only in the  *)
(* memory of the broker process that scheduled them; rows live in the      *)
(* shared database.  Rows and webhooks can be deleted by other requests at *)
(* any moment, a status update can fail, and a process can stop and start  *)
(* again, at which point it marks every row that is "retrying" as failed.  *)
(*                                                                         *)
(* A triggered webhook is identified by the request and the webhook it was *)
(* created for.  Its database identity is never reused, so a deleted row   *)
(* stays "deleted" here.                                                   *)
(***************************************************************************)
EXTENDS Naturals, FiniteSets

CONSTANTS
    Requests,     \* publishing requests (a pact or verification publication)
    Webhooks,     \* configured webhooks
    Nodes,        \* broker processes sharing one database
    Workers,      \* threads of the job pools
    NodeOf,       \* the process a request is served by, a worker belongs to
    Retries,      \* length of webhook_retry_schedule
    TimersHold,   \* a job's delay outlasts the step that scheduled it
    MaxDbErrors,  \* bound: failing writes of job threads
    MaxCrashes,   \* bound: process stops
    MaxEdits,     \* bound: administrative edits of a webhook's enabled flag
    NoTriggered   \* stands for "no triggered webhook" in an idle worker

ASSUME ConstantsAssumption ==
    /\ NodeOf \in [Requests \cup Workers -> Nodes]
    /\ Retries \in Nat
    /\ TimersHold \in BOOLEAN
    /\ MaxDbErrors \in Nat
    /\ MaxCrashes \in Nat
    /\ MaxEdits \in Nat
    /\ NoTriggered \notin Requests \X Webhooks

\* A process has a fixed number of job threads.
ASSUME WorkersAssumption == IsFiniteSet(Workers)

Triggered == Requests \X Webhooks

\* Statuses of a triggered_webhooks row, and whether there is a row at all.
RowStatus == {"not_run", "retrying", "success", "failure"}
Status == RowStatus \cup {"absent", "deleted"}

VARIABLES
    webhook,     \* webhook[h]: "none", "enabled", "disabled" or "deleted"
    request,     \* request[r]: where the request and its transaction are
    created,     \* created[r]: rows the open transaction has inserted
    status,      \* status[t]: the committed row of t, as everyone sees it
    executions,  \* executions[t]: webhook_executions rows of t
    queue,       \* queue[<<n, t, e>>]: scheduled jobs of n for t with error_count e
    worker,      \* worker[w]: the job a worker is performing
    up,          \* up[n]: the process is running
    attempts,    \* history: HTTP requests sent for t
    delivered,   \* history: HTTP requests for t that the endpoint accepted
    budget       \* remaining failing writes, crashes and edits

vars == <<webhook, request, created, status, executions, queue, worker, up,
          attempts, delivered, budget>>

history == <<attempts, delivered>>

WebhookState == {"none", "enabled", "disabled", "deleted"}
RequestState == {"new", "open", "answered", "committed", "aborted"}
PC == {"idle", "execute", "record", "succeeded", "failed", "error",
       "marking", "marking_rescued"}

\* A worker holds the job's data, the status its copy of the row was loaded
\* with ("deleted" once a write of the copy has failed: the copy then differs
\* from every status and is always written again), and the result.
Result == {"none", "accepted", "rejected"}

Job == [pc : PC, tw : Triggered \cup {NoTriggered}, errors : 0..Retries,
        loaded : Status, result : Result]

Idle == [pc |-> "idle", tw |-> NoTriggered, errors |-> 0,
         loaded |-> "absent", result |-> "none"]

\* A scheduled job: the process, the triggered webhook, the error_count.
JobKey == Nodes \X Triggered \X (0..Retries)

RowExists(t) == status[t] \in RowStatus

Busy(w, t) == worker[w].pc # "idle" /\ worker[w].tw = t

\* Schedule one more job for t on node n (SuckerPunch's perform_in).
Enqueue(q, n, t, e) == [q EXCEPT ![<<n, t, e>>] = @ + 1]

-----------------------------------------------------------------------------
Init ==
    /\ webhook = [h \in Webhooks |-> "none"]
    /\ request = [r \in Requests |-> "new"]
    /\ created = [r \in Requests |-> {}]
    /\ status = [t \in Triggered |-> "absent"]
    /\ executions = [t \in Triggered |-> 0]
    /\ queue = [k \in JobKey |-> 0]
    /\ worker = [w \in Workers |-> Idle]
    /\ up = [n \in Nodes |-> TRUE]
    /\ attempts = [t \in Triggered |-> 0]
    /\ delivered = [t \in Triggered |-> 0]
    /\ budget = [dbErrors |-> MaxDbErrors, crashes |-> MaxCrashes,
                 edits |-> MaxEdits]

-----------------------------------------------------------------------------
(* Administration of webhooks *)

CreateWebhook(h) ==
    /\ webhook[h] = "none"
    /\ webhook' = [webhook EXCEPT ![h] = "enabled"]
    /\ UNCHANGED <<request, created, status, executions, queue, worker, up,
                   history, budget>>

UpdateWebhook(h) ==
    /\ webhook[h] \in {"enabled", "disabled"}
    /\ budget.edits > 0
    /\ webhook' = [webhook EXCEPT ![h] =
                      IF @ = "enabled" THEN "disabled" ELSE "enabled"]
    /\ budget' = [budget EXCEPT !.edits = @ - 1]
    /\ UNCHANGED <<request, created, status, executions, queue, worker, up,
                   history>>

\* Deleting a webhook keeps its triggered webhooks, whose webhook_id becomes
\* null: t = <<r, h>> has a null webhook_id exactly when h is deleted.  The
\* foreign key makes the delete fail while an open transaction has inserted a
\* row that refers to the webhook.
DeleteWebhook(h) ==
    /\ webhook[h] \in {"enabled", "disabled"}
    /\ \A r \in Requests : <<r, h>> \notin created[r]
    /\ webhook' = [webhook EXCEPT ![h] = "deleted"]
    /\ UNCHANGED <<request, created, status, executions, queue, worker, up,
                   history, budget>>

\* Deleting the pact publication, the version or the verification that r
\* created (or cleaning it) deletes its triggered webhooks and their executions.
DeleteTriggered(r) ==
    /\ \E h \in Webhooks : RowExists(<<r, h>>)
    /\ status' = [t \in Triggered |->
                     IF t[1] = r /\ RowExists(t) THEN "deleted" ELSE status[t]]
    /\ executions' = [t \in Triggered |-> IF t[1] = r THEN 0 ELSE executions[t]]
    /\ UNCHANGED <<webhook, request, created, queue, worker, up, history, budget>>

\* Deleting the integration or the pacticipant deletes the triggered webhooks
\* and the webhooks.
DeleteIntegration ==
    /\ \E h \in Webhooks : webhook[h] \in {"enabled", "disabled"}
    /\ \A r \in Requests : created[r] = {}
    /\ status' = [t \in Triggered |->
                     IF RowExists(t) THEN "deleted" ELSE status[t]]
    /\ executions' = [t \in Triggered |-> 0]
    /\ webhook' = [h \in Webhooks |->
                     IF webhook[h] = "none" THEN "none" ELSE "deleted"]
    /\ UNCHANGED <<request, created, queue, worker, up, history, budget>>

-----------------------------------------------------------------------------
(* The publishing request *)

\* The events of a publication insert a row, with status not_run, for each
\* enabled webhook that listens to one of them; a webhook that does not listen,
\* or whose event contexts expand to none, gets no row.
TriggerWebhooks(r) ==
    /\ request[r] = "new"
    /\ up[NodeOf[r]]
    /\ \E H \in SUBSET {h \in Webhooks : webhook[h] = "enabled"} :
          created' = [created EXCEPT ![r] = {r} \X H]
    /\ request' = [request EXCEPT ![r] = "open"]
    /\ UNCHANGED <<webhook, status, executions, queue, worker, up, history, budget>>

\* finish_request with a response code below 400: a job for every row, although
\* the transaction is still open.
ScheduleTriggered(r) ==
    /\ request[r] = "open"
    /\ request' = [request EXCEPT ![r] = "answered"]
    /\ queue' = [k \in JobKey |->
                    IF k[1] = NodeOf[r] /\ k[2] \in created[r] /\ k[3] = 0
                      THEN queue[k] + 1 ELSE queue[k]]
    /\ UNCHANGED <<webhook, created, status, executions, worker, up, history, budget>>

\* A response with code 500: nothing is scheduled and the transaction is
\* rolled back.
RespondError(r) ==
    /\ request[r] = "open"
    /\ request' = [request EXCEPT ![r] = "aborted"]
    /\ created' = [created EXCEPT ![r] = {}]
    /\ UNCHANGED <<webhook, status, executions, queue, worker, up, history, budget>>

Commit(r) ==
    /\ request[r] = "answered"
    /\ request' = [request EXCEPT ![r] = "committed"]
    /\ status' = [t \in Triggered |->
                     IF t \in created[r] THEN "not_run" ELSE status[t]]
    /\ created' = [created EXCEPT ![r] = {}]
    /\ UNCHANGED <<webhook, executions, queue, worker, up, history, budget>>

\* The commit itself fails: the jobs are scheduled, the rows never appear.
CommitFails(r) ==
    /\ request[r] = "answered"
    /\ budget.dbErrors > 0
    /\ budget' = [budget EXCEPT !.dbErrors = @ - 1]
    /\ request' = [request EXCEPT ![r] = "aborted"]
    /\ created' = [created EXCEPT ![r] = {}]
    /\ UNCHANGED <<webhook, status, executions, queue, worker, up, history>>

-----------------------------------------------------------------------------
(* A job thread *)

\* Mutant: an off-by-one in the status, not in the rescheduling.
FailureStatus_OffByOne(e) == IF e + 1 < Retries THEN "retrying" ELSE "failure"

\* Mutant: the status is misspelt.
FailureStatus_Misspelt(e) == IF e < Retries THEN "retrying" ELSE "failed"

\* What handle_failure sets the status to: reschedule_job? decides.
FailureStatus(e) == IF e < Retries THEN "retrying" ELSE "failure"

\* The delays of perform_in (5 seconds or more for a first run, the schedule's
\* next entry for a retry) are meant to outlast the request's transaction and
\* the status update that follows the rescheduling.
DelayOver(t) ==
    TimersHold =>
        /\ request[t[1]] \notin {"open", "answered"}
        /\ \A w \in Workers :
              Busy(w, t) => worker[w].pc \notin {"marking", "error", "marking_rescued"}

\* Mutant: the job uses the row it was scheduled with and does not reload it.
StartJob_NoReload(w, t, e) ==
    LET n == NodeOf[w] IN
    /\ worker[w].pc = "idle"
    /\ up[n]
    /\ queue[<<n, t, e>>] > 0
    /\ DelayOver(t)
    /\ queue' = [queue EXCEPT ![<<n, t, e>>] = @ - 1]
    /\ worker' = [worker EXCEPT ![w] =
                     [pc |-> "execute", tw |-> t, errors |-> e,
                      loaded |-> status[t], result |-> "none"]]
    /\ UNCHANGED <<webhook, request, created, status, executions, up, history, budget>>

\* Take a due job and reload its row; without a row the job ends.
StartJob(w, t, e) ==
    LET n == NodeOf[w] IN
    /\ worker[w].pc = "idle"
    /\ up[n]
    /\ queue[<<n, t, e>>] > 0
    /\ DelayOver(t)
    /\ queue' = [queue EXCEPT ![<<n, t, e>>] = @ - 1]
    /\ worker' = IF RowExists(t)
                   THEN [worker EXCEPT ![w] =
                           [pc |-> "execute", tw |-> t, errors |-> e,
                            loaded |-> status[t], result |-> "none"]]
                   ELSE worker
    /\ UNCHANGED <<webhook, request, created, status, executions, up, history, budget>>

Goto(w, pc) == worker' = [worker EXCEPT ![w].pc = pc]

\* Send the HTTP request.  Errors of the HTTP exchange are caught and are an
\* unsuccessful result.
SendRequest(w) ==
    LET t == worker[w].tw IN
    /\ worker[w].pc = "execute"
    /\ webhook[t[2]] # "deleted"
    /\ attempts' = [attempts EXCEPT ![t] = @ + 1]
    /\ \E result \in {"accepted", "rejected"} :
          /\ worker' = [worker EXCEPT ![w] = [@ EXCEPT !.pc = "record", !.result = result]]
          /\ delivered' = IF result = "accepted"
                            THEN [delivered EXCEPT ![t] = @ + 1]
                            ELSE delivered
    /\ UNCHANGED <<webhook, request, created, status, executions, queue, up, budget>>

\* The webhook or the pact publication was deleted after the row was loaded
\* (or the row's webhook_id was already null): a nil dereference is raised
\* before anything is sent.
RaiseMissing(w) ==
    LET t == worker[w].tw IN
    /\ worker[w].pc = "execute"
    /\ webhook[t[2]] = "deleted" \/ ~RowExists(t)
    /\ Goto(w, "error")
    /\ UNCHANGED <<webhook, request, created, status, executions, queue, up,
                   history, budget>>

\* Mutant: an unsuccessful result is handled as a success.
RecordExecution_ResultIgnored(w) ==
    /\ worker[w].pc = "record"
    /\ executions' = [executions EXCEPT ![worker[w].tw] = @ + 1]
    /\ Goto(w, "succeeded")
    /\ UNCHANGED <<webhook, request, created, status, queue, up, history, budget>>

\* create_execution looks the row up again before it inserts.
RecordExecution(w) ==
    LET t == worker[w].tw IN
    /\ worker[w].pc = "record"
    /\ executions' = IF RowExists(t) THEN [executions EXCEPT ![t] = @ + 1]
                                     ELSE executions
    /\ Goto(w, IF worker[w].result = "accepted" THEN "succeeded" ELSE "failed")
    /\ UNCHANGED <<webhook, request, created, status, queue, up, history, budget>>

RecordExecutionFails(w) ==
    /\ worker[w].pc = "record"
    /\ budget.dbErrors > 0
    /\ budget' = [budget EXCEPT !.dbErrors = @ - 1]
    /\ Goto(w, "error")
    /\ UNCHANGED <<webhook, request, created, status, executions, queue, up, history>>

\* Mutant: the last entry of the schedule is not used.
HandleFailure_LastSkipped(w) ==
    LET j == worker[w] IN
    /\ j.pc \in {"failed", "error"}
    /\ queue' = IF j.errors + 1 < Retries
                  THEN Enqueue(queue, NodeOf[w], j.tw, j.errors + 1)
                  ELSE queue
    /\ Goto(w, IF j.pc = "failed" THEN "marking" ELSE "marking_rescued")
    /\ UNCHANGED <<webhook, request, created, status, executions, up, history, budget>>

\* Mutant: error_count is not increased.
HandleFailure_CountKept(w) ==
    LET j == worker[w] IN
    /\ j.pc \in {"failed", "error"}
    /\ queue' = Enqueue(queue, NodeOf[w], j.tw, j.errors)
    /\ Goto(w, IF j.pc = "failed" THEN "marking" ELSE "marking_rescued")
    /\ UNCHANGED <<webhook, request, created, status, executions, up, history, budget>>

\* handle_failure, first half: reschedule while the schedule has entries left.
\* It runs inside the begin block ("failed") or in its rescue ("error").
HandleFailure(w) ==
    LET j == worker[w] IN
    /\ j.pc \in {"failed", "error"}
    /\ queue' = IF j.errors < Retries
                  THEN Enqueue(queue, NodeOf[w], j.tw, j.errors + 1)
                  ELSE queue
    /\ Goto(w, IF j.pc = "failed" THEN "marking" ELSE "marking_rescued")
    /\ UNCHANGED <<webhook, request, created, status, executions, up, history, budget>>

\* The status a worker that has finished its attempt is about to write.
NewStatus(w) ==
    IF worker[w].pc = "succeeded" THEN "success" ELSE FailureStatus(worker[w].errors)

Updating(w) == worker[w].pc \in {"succeeded", "marking", "marking_rescued"}

\* The model layer writes only a status that differs from the loaded one.
UpdateStatus(w) ==
    LET t == worker[w].tw IN
    /\ Updating(w)
    /\ worker[w].loaded = NewStatus(w) \/ RowExists(t)
    /\ status' = IF worker[w].loaded = NewStatus(w)
                    THEN status
                    ELSE [status EXCEPT ![t] = NewStatus(w)]
    /\ worker' = [worker EXCEPT ![w] = Idle]
    /\ UNCHANGED <<webhook, request, created, executions, queue, up, history, budget>>

\* An update that matches no row, or fails, raises: inside the begin block it
\* is rescued by handle_error, in the rescue it ends the job.
RaiseFromUpdate(w) ==
    /\ worker' = [worker EXCEPT ![w] =
                     IF @.pc = "marking_rescued"
                       THEN Idle
                       ELSE [@ EXCEPT !.pc = "error", !.loaded = "deleted"]]
    /\ UNCHANGED <<webhook, request, created, status, executions, queue, up, history>>

UpdateStatusMissing(w) ==
    /\ Updating(w)
    /\ worker[w].loaded # NewStatus(w)
    /\ ~RowExists(worker[w].tw)
    /\ RaiseFromUpdate(w)
    /\ UNCHANGED budget

UpdateStatusFails(w) ==
    /\ Updating(w)
    /\ worker[w].loaded # NewStatus(w)
    /\ RowExists(worker[w].tw)
    /\ budget.dbErrors > 0
    /\ budget' = [budget EXCEPT !.dbErrors = @ - 1]
    /\ RaiseFromUpdate(w)

-----------------------------------------------------------------------------
(* The broker process *)

\* A process stops: its jobs are lost, its open transactions roll back.
Crash(n) ==
    /\ up[n]
    /\ budget.crashes > 0
    /\ budget' = [budget EXCEPT !.crashes = @ - 1]
    /\ up' = [up EXCEPT ![n] = FALSE]
    /\ queue' = [k \in JobKey |-> IF k[1] = n THEN 0 ELSE queue[k]]
    /\ worker' = [w \in Workers |-> IF NodeOf[w] = n THEN Idle ELSE worker[w]]
    /\ request' = [r \in Requests |->
                      IF NodeOf[r] = n /\ request[r] \in {"open", "answered"}
                        THEN "aborted" ELSE request[r]]
    /\ created' = [r \in Requests |-> IF NodeOf[r] = n THEN {} ELSE created[r]]
    /\ UNCHANGED <<webhook, status, executions, history>>

\* Mutant: the startup update is not restricted to retrying rows.
Start_FailAll(n) ==
    /\ ~up[n]
    /\ up' = [up EXCEPT ![n] = TRUE]
    /\ status' = [t \in Triggered |-> IF RowExists(t) THEN "failure" ELSE status[t]]
    /\ UNCHANGED <<webhook, request, created, executions, queue, worker, history,
                   budget>>

\* Mutant: a starting process leaves the rows alone.
Start_FailNone(n) ==
    /\ ~up[n]
    /\ up' = [up EXCEPT ![n] = TRUE]
    /\ UNCHANGED <<webhook, request, created, status, executions, queue, worker,
                   history, budget>>

\* prepare_database: every row that is retrying, whoever retries it, fails.
Start(n) ==
    /\ ~up[n]
    /\ up' = [up EXCEPT ![n] = TRUE]
    /\ status' = [t \in Triggered |->
                     IF status[t] = "retrying" THEN "failure" ELSE status[t]]
    /\ UNCHANGED <<webhook, request, created, executions, queue, worker, history,
                   budget>>

-----------------------------------------------------------------------------
Administration ==
    \/ \E h \in Webhooks : CreateWebhook(h) \/ UpdateWebhook(h) \/ DeleteWebhook(h)
    \/ \E r \in Requests : DeleteTriggered(r)
    \/ DeleteIntegration

RequestStep(r) ==
    \/ TriggerWebhooks(r) \/ ScheduleTriggered(r) \/ RespondError(r)
    \/ Commit(r) \/ CommitFails(r)

WorkerStep(w) ==
    \/ \E t \in Triggered, e \in 0..Retries : StartJob(w, t, e)
    \/ SendRequest(w) \/ RaiseMissing(w)
    \/ RecordExecution(w) \/ RecordExecutionFails(w)
    \/ HandleFailure(w)
    \/ UpdateStatus(w) \/ UpdateStatusMissing(w) \/ UpdateStatusFails(w)

Next ==
    \/ Administration
    \/ \E r \in Requests : RequestStep(r)
    \/ \E w \in Workers : WorkerStep(w)
    \/ \E n \in Nodes : Crash(n) \/ Start(n)

Spec == Init /\ [][Next]_vars

\* Job threads and request threads keep running, and a stopped process is
\* started again.  Nobody is obliged to create webhooks, publish or delete.
FairSpec ==
    /\ Spec
    /\ \A r \in Requests : WF_vars(ScheduleTriggered(r) \/ RespondError(r)
                                     \/ Commit(r) \/ CommitFails(r))
    /\ \A w \in Workers : WF_vars(WorkerStep(w))
    /\ \A n \in Nodes : WF_vars(Start(n))

-----------------------------------------------------------------------------
(* Properties *)

TypeOK ==
    /\ webhook \in [Webhooks -> WebhookState]
    /\ request \in [Requests -> RequestState]
    /\ created \in [Requests -> SUBSET Triggered]
    /\ status \in [Triggered -> Status]
    /\ executions \in [Triggered -> Nat]
    /\ queue \in [JobKey -> Nat]
    /\ worker \in [Workers -> Job]
    /\ up \in [Nodes -> BOOLEAN]
    /\ attempts \in [Triggered -> Nat]
    /\ delivered \in [Triggered -> Nat]
    /\ budget \in [dbErrors : Nat, crashes : Nat, edits : Nat]
Outstanding(t) ==
    \/ \E n \in Nodes, e \in 0..Retries : queue[<<n, t, e>>] > 0
    \/ \E w \in Workers : Busy(w, t)

\* However the jobs, deletions and process restarts interleave, the endpoint
\* receives at most one request more than the retry schedule has entries: the
\* number the job reports in "failed after N attempts".  (Database writes of
\* the job threads do not fail.)
AttemptsBounded == \A t \in Triggered : attempts[t] <= Retries + 1

\* Once the endpoint has accepted a triggered webhook it is never sent again,
\* even when the success path raises because the row was deleted meanwhile and
\* the job has been rescheduled by the rescue.  (No failing writes.)
DeliveredIsFinal ==
    [][\A t \in Triggered : delivered[t] > 0 => attempts'[t] = attempts[t]]_vars

\* A row says "success" only if the endpoint accepted a request, whatever
\* fails, and a saved execution stands for a request that was sent.
SuccessIsReal ==
    \A t \in Triggered :
        /\ status[t] = "success" => delivered[t] > 0
        /\ executions[t] <= attempts[t]

\* A row that waits for its first run or for a retry has a job on the way, as
\* long as no process was stopped: rescheduling before the status update never
\* leaves a row waiting for nobody.
PendingIsScheduled ==
    budget.crashes = MaxCrashes =>
        \A t \in Triggered : status[t] \in {"not_run", "retrying"} => Outstanding(t)

\* After a stop, rows whose retries were lost do not stay "retrying" once every
\* process is running again.
RetryingIsRetried ==
    (\A n \in Nodes : up[n]) =>
        \A t \in Triggered : status[t] = "retrying" => Outstanding(t)

\* The number of remaining attempts that the API reports (schedule size + 1
\* less the saved executions) covers the attempts a scheduled job still has.
RemainingAttemptsCovered ==
    \A t \in Triggered, n \in Nodes, e \in 0..Retries :
        RowExists(t) /\ queue[<<n, t, e>>] > 0 => executions[t] <= e

\* With one process, a row reported as failed is not retried behind the
\* reader's back: no job for it is scheduled or about to send.
FailureStopsRetrying ==
    \A t \in Triggered : status[t] = "failure" =>
        /\ \A n \in Nodes, e \in 0..Retries : queue[<<n, t, e>>] = 0
        /\ \A w \in Workers : Busy(w, t) => worker[w].pc # "execute"

\* A row that has reached "success" changes only by being deleted: neither a
\* late status update nor a starting process turns it into something else.
SuccessIsFinal ==
    [][\A t \in Triggered :
          status[t] = "success" => status'[t] \in {"success", "deleted"}]_vars

\* A "retrying" row does not stay so for ever, even if processes stop, because
\* the next start fails it.
RetryingEnds ==
    \A t \in Triggered : status[t] = "retrying" ~> status[t] # "retrying"

\* The promise, with an undelivered or delivered row as seen by its readers.
Outcome(s) ==
    CASE s = "absent" -> "none"
      [] s \in {"not_run", "retrying"} -> "pending"
      [] OTHER -> s

Delivery == INSTANCE WebhookDelivery WITH
    Limit <- Retries + 1,
    sent <- attempts,
    accepted <- delivered,
    outcome <- [t \in Triggered |-> Outcome(status[t])]

\* Without stops and failing writes the jobs implement the promised delivery.
ImplementsDelivery == Delivery!FairSpec
=============================================================================
