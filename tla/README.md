# Verification of the Pact Broker

TLA+ models of the broker in this repository, the TLC runs that check them on
small instances, and proofs for every value of the constants. `PROJECT.json`
lists the components, the runs, the mutants (a plausible bug for each property,
which its run must find), the lines each definition stands for, the findings,
the hazards and the theorems.

Paths below are relative to `src/lib/pact_broker/` unless they begin with
`src/`.

## 1. The system

The broker is a Rack application: threads of one or more processes answer HTTP
requests over one SQL database. A request that may change something is one
database transaction (`src/lib/rack/pact_broker/database_transaction.rb`): it
commits unless the response is a 500 (and a few of those ask to be kept). Inside
a request a resource (`api/resources`) checks what exists, calls a service,
which calls repositories; events are broadcast synchronously to listeners of the
thread. There are no locks in the program apart from a few `SELECT FOR UPDATE`:
what is safe under concurrency is so by unique keys, foreign keys, upserts, and
the row locks that statements take. Webhooks are the one thing done outside a
request: in-memory jobs of a thread pool (SuckerPunch) in each process.

### Inventory

| Component | State | Operations | What is hard, and what makes it correct |
|---|---|---|---|
| Webhook delivery (`webhooks/`) | `webhooks`, `triggered_webhooks`, `webhook_executions` rows; jobs in memory | trigger by an event, schedule, perform, retry, fail at start, delete | retries against deletions, stops and other processes; a bounded number of requests, none after success, a truthful and final status |
| Pact publishing (`contracts/`, `pacts/service.rb`, `pacts/repository.rb`) | `pact_publications` (revisions of a version), `pact_versions` (contents), the latest-ids table | publish, merge, PUT, PATCH, DELETE | read, decide and write are separate statements; what is served is what was last committed, what is served has been announced |
| Deployments, releases, environments (`deployments/`) | `deployed_versions`, `currently_deployed_version_ids`, `released_versions`, `environments` | deploy, deploy by tag, undeploy, release, end support, delete | two tables say what is deployed; they must agree, target by target |
| Verification results (`verifications/`) | `verifications`, the latest-verification table, a number sequence | create, delete | concurrent results for one pact; deleting the latest one |
| Versions and their order (`versions/`, `domain/order_versions.rb`) | `versions.order`, copies of it in tags and publications | create, upsert, order, delete | two new versions at once; stale copies of the order |
| Tags and branches (`tags/`) | `tags`, `versions.branch` | tag, set the branch from the first tag | head tags depend on the copied order |
| Pacticipants (`pacticipants/`) | `pacticipants` with the main branch | create, update, delete, delete if orphan | check and destroy are separate |
| Pacts for verification (`pacts/*selector*`, `pacts/*wip*`) | none, reads everything | select, pending, work in progress | many queries in no transaction; no head pact gets lost, what is not pending stays so |
| Matrix, can-i-deploy (`matrix/`) | none | resolve selectors, join rows, decide | several queries in no transaction; three-valued answer: missing is neither yes nor no |
| Integrations (`integrations/`) | derived from pacts | delete everything between two pacticipants | a long sequence of deletes while others publish; what belongs to other integrations stays |
| Cleaning (`db/clean*.rb`, `db/delete_overwritten_data.rb`) | none | choose what to keep, delete the rest | ids are chosen, then deleted later |
| Events (`events/`) | listeners of the thread | broadcast, subscribe | synchronous: part of the handlers |
| Pact content (`pacts/content.rb`, `sort_content.rb`, `generate_sha.rb`, `merger.rb`) | none | sort, hash, merge, conflict | merge and conflict are modelled, hashing is equality |
| Start-up, configuration, middleware, migrations | settings, schema | run once | the start also fails rows that were being retried |
| Webhook templates, certificates, badges, UI, index, metrics, labels, diagnostics, test data | none of interest | render, fetch, count | not modelled, see section 7 |

How they interact: publishing creates versions, tags, a publication, and, by an
event, triggered webhooks, all in its transaction; after it, jobs read the rows
and the webhook. Deleting a pact, version, verification, webhook or integration
removes rows that a job is about to read. Deploying by a tag goes from tags to
deployments. The matrix, the selectors and the UI read all of it.

## 2. The modules

| Module | Contents |
|---|---|
| `WebhookJobs` | rows, jobs, workers, processes: `webhooks/job.rb`, `trigger_service.rb`, `repository.rb`, the start in `app.rb` |
| `WebhookDelivery` | abstract: what delivery promises about one triggered webhook |
| `PactPublishing` | the statements of publishing, merging and deleting pacts |
| `PactService` | abstract: what requests about pacts promise, each in one step |
| `Deployments` | the statements of deploying, undeploying, releasing and deleting |
| `VerificationResults` | the statements of publishing a result and of deleting results, versions and integrations |
| `ResultService` | abstract: what requests about results promise, each in one step |
| `VersionOrder` | the statements of creating, ordering, tagging and deleting versions |
| `Matrix` | the queries of can-i-deploy, while the tables change |
| `PactsForVerification` | the queries for the pacts that a provider is to verify, while the tables change |
| `WebhookOutcomeProofs` | theorems about what a triggered webhook's row says, and that `WebhookJobs` implements the safety part of `WebhookDelivery`; extends `WebhookJobsProofs` |
| `WebhookJobsProofs`, `PactPublishingProofs`, `DeploymentsProofs`, `VerificationResultsProofs`, `VersionOrderProofs`, `MatrixProofs`, `PactsForVerificationProofs` | theorems about the modules they are named after |
| `MC...` | values of the constants, workloads and symmetry for TLC |

There are two kinds of models besides the webhooks. Requests that write are
modelled statement by statement (`PactPublishing`, `Deployments`,
`VerificationResults`, `VersionOrder`): several requests in their transactions
meet on a few rows. Requests that only read are modelled query by query
(`Matrix`, `PactsForVerification`): one request, and tables that change in
whole steps between its queries.

### WebhookJobs

`status[t]` is the committed `triggered_webhooks` row of `t = <<request,
webhook>>` ("absent" before, "deleted" after: an id is never used again);
`created[r]` are the rows of an open transaction; `queue[<<n, t, e>>]` counts
the scheduled jobs of process `n` for `t` with `error_count` `e`; `worker[w]` is
the job that a thread is performing, with the status its copy of the row was
loaded with, since Sequel writes a status only if it differs from that.
`attempts` and `delivered` are history: what the endpoint has seen.

A request goes `TriggerWebhooks` (the event listener inserts rows), then
`ScheduleTriggered` (`finish_request` schedules the jobs, still inside the
transaction) or `RespondError`, then `Commit` or `CommitFails`. A job goes
`StartJob` (loads the row, ends if there is none), `SendRequest` or
`RaiseMissing` (the webhook is gone), `RecordExecution`, then for a success
`UpdateStatus`, for a failure `HandleFailure` (reschedules first) and then
`UpdateStatus`. Whatever raises goes to the rescue in
`perform_with_triggered_webhook`, which handles it as a failure, once.
`DeleteWebhook`, `DeleteTriggered` and `DeleteIntegration` may happen at any
time, a process may stop (`Crash`, which loses its jobs) and start again
(`Start`, which fails every retrying row, whoever is retrying it).

`TimersHold` says that a job's delay lasts longer than the step that scheduled
it takes: a first run comes after the transaction has ended, a retry after the
status update of the run before. With `FALSE` a job may run at once.

### PactPublishing, Deployments, VerificationResults, VersionOrder

They describe requests at the level of SQL statements on PostgreSQL's default
isolation, READ COMMITTED: a request is a record with its program counter and
what it has read, the tables hold what is committed, and `holds[r]` is what the
open transaction of `r` has written or locked. Each statement is an action: it
reads the committed tables, waits while another transaction holds a key it
needs, and takes its own locks. `Commit` applies what the transaction holds to
the tables and frees it; a failed request frees it and changes nothing. An
UPDATE or DELETE chooses its rows when it begins (`Choose...`) and looks at them
again after waiting, as the database does. An upsert overwrites what has its key
by then; an insert-ignore leaves it. Rows are named by the request that inserted
them.

`PactPublishing` is one consumer and one provider. A content is a function from
interaction descriptions to variants, which is what `Merger` tells apart: an
interaction with the same description is replaced when merging and a conflict if
it differs. `CheckResource` is the look-up of PUT, PATCH and DELETE with their
404 and 409; `CreateVersion` finds or inserts the version, and `InsertTag` one tag of POST
`/contracts/publish` after the other, in the order of its body; `FindPact` is its
look-up of the pact; `ReadExisting`,
`FindModel`, `WritePublication` and `WriteLatest` are `create_or_update_pact`,
`merge_pact` and the repository's `update`; `Announce` decides which event is
broadcast and, if a webhook is subscribed to it (`Subscribed`), inserts the
triggered webhook, which holds a share lock on the publication. DELETE goes
`UnhookRevisions`, `ChooseRevisions`, `RemoveRevisions`, `Cascade`. `Waits(r)` are
the requests that hold what the next statement of `r` needs; if `r` waits, through
others, for itself (`OnCycle`), the database may fail it (`DeadlockVictim`).

`PactService` is what a client may expect: an answer per request (`Refuse`,
`Write`, `Delete`) from the current contents of the versions, in one step. A
request is `raced` if another one about its version was done between its arrival
and its answer. One that is not raced writes its body, or the body merged into
the current content, is refused for the reasons that are documented and no
other, and does not fail, with one exception: two POSTs that insert several tags,
some of them the same, may wait for each other, and then the database fails one
(`Entangled`). One that is raced may fail, may have missed what the
other one wrote, and may come too late to be served; yet what it makes current is
its own body, alone or merged into a content of before. `ImplementsService` maps
the tables to it: `asked` is what a request was given (`AskOf`), `answer` its
program counter (`AnswerOf`), `current` the content the latest row names
(`Current`), and `raced` is a history variable of both.

`Deployments` is one pacticipant and one environment. Deploying (also by a tag
with the environment's name) goes `FindCurrent`, `ChoosePrevious` and
`RecordPreviousUndeployed`, `CreateDeployedVersion`, `UpsertCurrent`;
undeploying `ReadCurrentRow`, `DeleteCurrentRow` (by the id read),
`RecordUndeployed`; releasing is an insert-ignore and an update; deleting the
environment or a version goes through its rows, then the parent, then the
cascade to the currently-deployed rows. `Waits` relates requests to those they
wait for; requests on a cycle are a deadlock and `DeadlockVictim` fails one.

`VerificationResults` is one provider with its versions and pact versions. A
result goes `FindPact` (after the 404 of `BeginVerify`), `FindVersion` and
`UpsertVersion`, `SaveResult` (whose foreign keys must hold), `UpdateLatest`.
Deleting a result, a version or an integration chooses results, deletes them and
cascades to the latest rows (`ChooseResults`, `DeleteResults`,
`CascadeToLatest`); the integration goes on with its pact versions
(`DeleteContents`) and with the versions that `FindVersionsWithResults` has not
seen a result of; both end with `ChooseResultsAgain` ... `DeleteVersions`, as
deleting a version deletes its results once more.

`ResultService` is what a client may expect of it: each request is refused
because there is nothing to verify or to delete (`Refuse`), is asked (`Ask`) and
then acts in one step (`Record`, `DeleteResult`, `DeleteVersion`,
`DeleteIntegration`), or fails (`Err`). Two requests meet (`Meets`) if they are
about one version or one of them deletes the integration; `overtaken` are those
that a request meets and that were done between its arrival and its answer. A
request fails only if it was overtaken or meets one that is open, which is the
other side of a deadlock. A result that is accepted is saved with its pact and
its version and is the latest, overtaken or not. A delete takes what it is about,
with the latest rows, or finds nothing left of it if it was overtaken. The delete
of an integration always removes its pact versions and results, and removes
exactly the versions without another integration's result unless it was
overtaken; then it may keep more of them, and of results of other integrations
take those that overtook it, never one that was there when it began.
`ImplementsService` maps `answer` to the program counters (`AnswerOf`) and
`versions` to the versions that have a row.

`VersionOrder` is one pacticipant; `byDate` is the setting
`order_versions_by_date`. A version is upserted (`UpsertVersion`) and, if it is
new, ordered: by a sequence (`SequentialOrder`) or by number
(`SelectForUpdate`, then `SemanticOrder`, which finds what the loop of
`set_semantic_order` passes and where it stops). `SetOrder` is one UPDATE of an
order: it moves a version that was passed or gives the new one its place, waits
for those who have set that place or are leaving it (keys `place` and `left`),
and fails if another version has it (`Taken`), which is the unique index
`uq_ver_ppt_ord`. `InsertTag` copies the order of the version loaded before.

### Matrix

One question to can-i-deploy: a version, the environment, pacticipants to
ignore. Publications, results, deployments and undeployments (`Publish`,
`PublishResult`, `Deploy`, `Leave`) may come between any two of the queries
`FindVersion`, `FindProviders`, `FindConsumers`, `CheckConsumer` for each
consumer found, `InferSelectors`, `ResolveSelector` for each inferred
pacticipant, `QueryMatrix`. The last one is a single SQL statement: `Rows` are
those of `QuickRow` with its outer join (`LeftJoin`), `LatestBy` keeps the
latest provider version per consumer version and provider, `Deployable` is
`deployable?` with its three values. `seen` remembers what was in the tables at
some time, or at all times, since the question was asked: that is what an answer
can be compared with.

### PactsForVerification

One build of a provider asks for its pacts, with one selector (the latest pact
for a tag) and with its own tag or branch, pending pacts and work in progress
enabled. Others publish pacts (`PublishPact`), tag their versions
(`TagConsumerVersion`), tag builds or give them a branch (`TagBuild`, `SetBranch`)
and publish results (`PublishResult`) meanwhile. A row appears when its
transaction commits, but its `created_at` was set by the program before that, so
it may be earlier than those of rows that have been seen: such an action chooses
the stamp among `Stamps(t)`, the times since the row it belongs to was made,
and at most `Delay` ago. A result has a second date, `executed`, which the client
may set (`ClientDates`) and which otherwise is that of its stamp. Pending compares
`created_at` with the first use of a tag (`CreatedBefore`), work in progress
compares the execution date (`ExecutedBefore`), as the code does.

`FindSelected` is the selector; `CheckAny`, or `CheckOwnTag`, `FindFirstTag` and
`CheckOtherTags`, are `pending?` and `select_pending_provider_version_tags`;
`FindFirstUse`, `FindPotential`, `SubtractSpecified`, `SubtractOwn`,
`SubtractOther`, in this order, are the queries of `remove_non_wip_for_tag` and
`remove_non_wip_for_branch`, once for the heads by tag and once for those by
branch. Each of the last three looks for the heads again, as the dataset it
extends is evaluated again. `asked` is history: the results, the labels, the
builds with the tag or branch in question and its first use, as they were when the
list was asked for.

## 3. What is checked

Violation runs state what a document, comment or test of the repository says and
what the code does not do; their findings are in `PROJECT.json`.

| Run | Instance | Shows |
|---|---|---|
| `webhook_delivery` | 1 request, 2 webhooks, 1 process with 2 workers, 2 retries, 1 edit, fair | every pending row has a job or worker (`PendingIsScheduled`); reported remaining attempts cover the real ones (`RemainingAttemptsCovered`); a failed row is not retried (`FailureStopsRetrying`); `WebhookDelivery` is implemented with its liveness (`ImplementsDelivery`) |
| `webhook_restart` | 2 requests on 2 processes, 3 workers, 1 retry, 2 stops, fair | requests sent are bounded across stops (`AttemptsBounded`), none after one was accepted (`DeliveredIsFinal`), success is final although every start fails retrying rows (`SuccessIsFinal`), rows that say retrying are retried (`RetryingIsRetried`), or cease to say so (`RetryingEnds`) |
| `webhook_dberrors` | 2 failing writes, 1 stop, early timers | a reported success is real (`SuccessIsReal`) |
| `publish` | 3 requests of any kind on 2 versions, tagged or not, with two tags in either order, contents that merge and that clash | each version with publications serves one of them (`EveryVersionServed`), the last committed one (`ServesLastWritten`), which was announced as changed (`EveryContentAnnounced`); a request does not overwrite revisions that it could see (`CommittedRevisionsAreKept`); requests wait for each other in a circle only while they insert several tags (`OnlyTagsDeadlock`); `PactService` is implemented (`ImplementsService`), with `allow_dangerous_contract_modification` off |
| `publish_merged` | violation | of two concurrent merges one part is lost |
| `deployments_current` | 3 requests, 2 versions, 2 targets, every operation, fair | what is shown as deployed exists, is at its target and is not undeployed (`CurrentIsDeployed`), and is the last one committed (`CurrentIsLast`); targets do not disturb each other (`UndeployedByItsTarget`); every request is answered (`RequestsEnd`) |
| `deployments_replaced` | violation | undeploying a version while its successor is deployed removes the successor from what is currently deployed |
| `results_latest` | 3 requests, 2 pact versions, 2 provider versions that may exist, every operation, fair | the latest row names an existing result of its own pact and version, the one committed last (`LatestIsTrue`); every request is answered (`RequestsEnd`); `ResultService` is implemented (`ImplementsService`) |
| `results_deleted` | violation | deleting the latest result leaves a pact with an older result and no latest one |
| `versions_ordered` | 4 requests, 3 versions, 1 tag, both settings; any version is created, the one in the middle also tagged and deleted | a tag's copy of the order agrees with its version (`CopiesAgree`) and the order is that of creation (`OrderedByCreation`) when ordered by date; the order is that of the numbers, however creations overlap, unless a version is deleted while another is created (`OrderedByNumber`) |
| `matrix_answers` | 3 pacticipants in a chain, 5 versions, 3 contents, any tables at the start, 1 change between the queries | a yes has a success of a provider version that was in the environment (`YesCoversProviders`) and covers every consumer version that stayed there (`YesCoversConsumers`); a no comes from a failure or a missing version (`NoHasAReason`) |
| `verification_list` | 2 builds, 2 consumer versions, 2 contents, 2 names, a build with a tag and perhaps a result, then 2 changes before, between and after the queries, stamps as old as the start | a pact that is not pending for a tag becomes so again only by a build whose new tag is stamped before a result that was there (`StaysNonPending`); a build is told the truth about pending (`PendingIsTruthful`); a head is selected, work in progress or verified, never lost (`NoHeadIsOverlooked`); work in progress is neither selected nor verified, unless it has ceased to be a head (`WipIsUnverified`) |

Disagreements with a text that the models show without a run of their own: a
delivered webhook is rescheduled when its row is deleted before the update
(`src/spec/lib/pact_broker/webhooks/job_spec.rb:42`); with modification not
allowed, two first PUTs modify the content (`locale/en.yml:71`); without
`TimersHold` a first run may come before the commit (`trigger_service.rb:57`);
can-i-deploy asks for one verified version of each provider in the environment,
not for all (`doc/views/can-i-deploy.markdown:16`); deleting an integration
may delete a result that another one has got meanwhile, which `ResultService`
says in its terms; and pacts that were published before a tag of the provider was
first used are listed as work in progress, as `NoHeadIsOverlooked` requires: the
comment at `pacts/pacts_for_verification_repository.rb:37` says that such
publications are not included, but no query has that condition (only
`include_wip_pacts_since` limits when they were published). The hazards in
`PROJECT.json` have the lines.

### Bounds, and why they are enough

- Two workers of one process and one of another are what an overlap of a job
  with its own retry, and with the start of another process, takes. Two stops
  let a process stop, start and stop again. With one retry there is a first run,
  a retried one and an exhausted one; two retries add one that is neither first
  nor last.
- `MaxDbErrors`, `MaxCrashes` and `MaxEdits` bound failing writes, stops and
  edits of a webhook's enabled flag. Each is used up by its action only.
- Three requests on one row are a writer, another that overtakes it, and one
  that deletes or replaces what they meet on; they can wait for each other in
  cycles of two and of three. What a fourth one adds to `PactPublishing` is in
  section 5; the proofs cover any number. Two versions are needed for tags, previous pacts
  and replacement; two targets for their independence.
- `results_latest` takes each choice of three operations once instead of
  symmetry, as it checks liveness: which request does what makes no difference.
  Three requests are also a delete and two that overtake it at different
  statements; `ImplementsService` is proved for any number.
- `matrix_answers` starts from every content of the tables that its constants
  allow and with the question asked, so one change between two queries is what
  an interleaving takes. The chain gives the version in the middle a consumer
  and a provider; two consumer versions and two provider versions are what the
  latest of them, and all of them, differ by; two contents tell a verified pact
  from another of the same consumer. The proofs cover any number of changes.
- In `verification_list` a build with a tag and one head are there at the start,
  and the build may have published a result. With two changes another build gets
  the tag and something else follows, or another head is published and verified.
  Two builds are one with the tag in question and another. `Delay` lets every
  stamp be as old as the start, so that a tag may become visible after a result
  and be stamped before it or at the same time; a client says that it verified the
  pact at 0, before anything was there, or says nothing. The proofs cover any
  number of changes, any delay and any dates.
- In `publish` one request has two tags and another has the same two in the
  opposite order, which is what a circle takes; a third one waits for them, or
  meets them on the rows that follow.
- `publish` runs with `allow_dangerous_contract_modification` off, since that
  has more paths: PUT is refused or goes on. All its properties hold with the
  default (on) as well, and the theorems are about both. PATCH is taken with the
  body that clashes: with one that does not it is a merge, which is there with
  both.
- A request inserts at most one row of each kind, so the number of requests
  bounds the rows.
- Symmetry is used for requests or workers that no constant tells apart, and
  never in a run with liveness.
- A run stops when all requests have ended and nothing is left to do, so
  deadlock in TLC's sense is not an error there. A deadlock of the program is a
  property of its own (`OnlyTagsDeadlock`, `RequestsEnd`).

### Fairness

- `WebhookJobs`: weak fairness of each worker (the threads of the pool run, HTTP
  calls time out), of the steps that end an accepted request, and of the start
  of a stopped process (it is supervised). Nothing obliges anyone to create,
  edit, publish or delete.
- `Deployments` and `VerificationResults`: weak fairness of each accepted request, including the
  database's deadlock detection, which fails one of those that wait for each
  other. Weak is enough: a statement that waits stays possible once its lock is
  free, as requests are finite.
- The other runs have none: a list or an answer is asked for once, and nothing
  is promised about when.

## 4. What is proved

### WebhookJobs

`WebhookJobsProofs`, for every set of requests, webhooks, processes and workers,
every assignment of workers to processes and every length of the retry schedule:

- `TypeCorrect`: `Spec => []TypeOK`, whatever fails. It needs that a worker that
  is not idle has a triggered webhook (`BusyHasJob`), which is proved with it.
- `AttemptsAreBounded` and `DeliveredStaysFinal`: `AttemptsBounded` and
  `DeliveredIsFinal`, if no write of a job thread fails (`MaxDbErrors = 0`),
  with any number of stops and deletions and with `TimersHold` either way.

Neither is inductive as it stands: the bound on requests follows from the error
count of a job only if no two jobs for the same row can go on. The invariant
`IInv` adds three parts to the types:

- `Lifecycle`: rows and jobs exist only after their request got that far;
- `OneToken`: until its row is deleted, a triggered webhook has one permission
  to go on, which is either one scheduled job or a worker in a phase from which
  it may reschedule. After the deletion there may be two (a job that raises and
  one rescheduled before), but a job that starts then ends at once;
- `CountedAttempts`: the error count of the holder bounds the requests sent, and
  none of them was accepted while the holder may still send.

`IInvInit`, `AdministrationKeepsIInv`, `RequestKeepsIInv`, `WorkerKeepsIInv` and
`ProcessKeepsIInv` are the base and the steps, one per group of actions; the
theorems follow from them by temporal reasoning. The assumption on failing
writes is needed: a failed job that was rescheduled and then cannot write its
status is rescheduled once more by the rescue, so that two jobs go on for one
row; and a delivered one that cannot save its execution is sent again.

`WebhookOutcomeProofs` is about what the row of a triggered webhook tells its
reader. It adds the assumption that the workers are finitely many, since it
counts those that have sent a request and not saved its execution yet.

- `SuccessIsAlwaysReal`: `[]SuccessIsReal`, whatever fails, stops and starts. The
  invariant `RInv` says of each row that the executions saved and the requests
  not saved yet are together no more than those sent, and that a worker that is
  about to write a success has sent a request that was accepted (`Truthful`).
- `RemainingAreCovered`: `[]RemainingAttemptsCovered`, if no write of a job
  thread fails, which follows from that and the counting of `WebhookJobsProofs`.
- `PendingStaysScheduled`, `RetryingStaysRetried` and `SuccessStaysFinal`:
  `[]PendingIsScheduled`, `[]RetryingIsRetried` and `SuccessIsFinal`, if delays
  last (`TimersHold`) and no write of a job thread fails, with any number of
  stops and deletions. A row is kept from a wrong status by what the worker knew
  when it began, so the invariant `DInv` adds to `IInv` that a worker is alone
  with its row unless the row is deleted (`Alone`); that its copy of the status
  is that of the row, but for a start that has failed it (`Knows`), and when it
  is about to mark a failure the next job is there or there is none
  (`Rescheduled`, both in `Performing`); that a process that is down has no jobs
  and busy threads, and a row that succeeded no jobs (`Quiet`); and that an
  answered request has a job for each of its rows (`Scheduled`).
- `FailureStopsRetries`: `[]FailureStopsRetrying`, if in addition there is a
  single process or none stops (`NobodyElseStarts`): the start of a second one
  fails rows that the first one goes on to retry. `Failed` says that a failed
  row has no job and no worker.
- `JobsDeliver`: without stops and failing writes, and with delays that last,
  `Spec => Delivery!Spec`. Step by step: `SendRequest` is an `Attempt` of the
  abstract specification, `UpdateStatus` a `Settle` or, between retries, a
  stutter, `Commit` a `Trigger` of what it commits, a deletion a `Delete`, and
  all other steps stutter (`Outcome` maps the statuses). `Once`, that the
  endpoint accepts at most once, comes with it. The fairness part of
  `ImplementsDelivery` is checked only.

The delays matter: without `TimersHold` a retry may start before the run that
scheduled it has marked its row, so that two workers write one status.

### PactPublishing

`PactPublishingProofs`, for any finite set of requests, every set of versions,
tags and contents and whatever the requests are asked to do: `TypeCorrect`,
`VersionsAreServed`, `LastWrittenIsServed`, `ContentsAreAnnounced` and
`RevisionsAreKept` are `[]TypeOK`, `[]EveryVersionServed`,
`[]ServesLastWritten`, `[]EveryContentAnnounced` and
`CommittedRevisionsAreKept`. That the requests are finitely many is what bounds
the revision numbers. A request decides by what earlier statements have read,
and `IInv` says what has become of that when it commits:

- `MemoryOK`, `RowsOK`: what was read is of its kind, committed rows come from
  ended requests, and a revision number is at most the number of requests that
  have inserted rows with at most that number (`Enough`);
- `WriteOK`: a request that writes has locked the revision and the latest row
  both or neither; its upsert finds the row it has locked, or inserts one
  (`RowOK`); its number is larger than those of the rows it has found
  (`RevisionOK`); what it does not announce has been announced;
- `DeleteOK`: a request that deletes has locked all that is left of the rows it
  chose and, if the latest row names one of them, that one too; then it has
  chosen all rows of the version, or one was written over;
- `FoundOK`: the rows a request remembers are not those of open transactions;
- `Exclusive`: no two write the latest row of a version, and who deletes a row
  has it for itself.

Steps before the commit leave the tables alone (`Statement`, `StepKeepsIInv`). A
commit has written nothing, a publication or a deletion (`CommitFacts`). What the
others need to know of it is `Commits`, from which `OthersGoOn`; what it does to
the tables is in `PublishKeepsTables` and `DeleteKeepsTables`. That a content is
announced is a lemma about the events (`UnchangedIsAnnounced`): what equals the
pact of a previous version, or the one replaced, was announced with that.

Which requests may wait for each other is proved too. `Needs(r)` are the keys and
rows that the next statement of `r` needs and `Waits(r)` the requests that hold
some of them. `OnlyTagsCloseACircle` is `[]OnlyTagsDeadlock`: every request that
waits, through others, for itself is about to insert a tag and has inserted
another one of its version. The argument is a `Rank` of the statements that goes
down along each wait but those between two tags (`WaitsGoDown`): versions, tags
and hooks are taken first, then revisions, then the latest row, and who holds that
waits for nothing, since nobody can remove the row it has written
(`WrittenRowStays`). So all of a circle insert tags (`CirclesAreOfTags`), and each
of them has inserted what another one waits for (`CircleFacts`). The
invariant `CInv` adds to `IInv` what is not held yet (`HoldsOK`, in `WInv`), that
a request holds the tags of its body that it has inserted (`TagsOK`) and that no
two hold one tag (`TagsApart`).

`ARequestAlwaysGoesOn` says that this is enough: while a request has not ended,
there is one that waits for nobody or is on a circle, of which the database fails
one (`SomeoneGoesOn`). Of the sets of requests that can be reached along waits
(`Reach`), consider one with the fewest members.

`RequestsServe` is `ImplementsService`: every step is a step of `PactService` or
leaves what it shows as it is. `BeginAsks` is the arrival of a request;
`ProceedingIsSilent` says that its statements show nothing; `DecliningRefuses`
is a 404, a 409 or an error; `CommitWrites` and `CommitDeletes` are the two kinds
of commit. The hard part is a commit: what it makes current was computed from
rows that were read some statements ago. `SInv` adds to `IInv` two things about
an open request:

- `Carries`: what it is about to write is its body, alone if it found no pact or
  does not merge, and otherwise merged into a content that was announced;
- `Undisturbed`, if it is not raced: what it has read of its version is what the
  tables still say. The pact it found is the current one, a check that it passed
  (`Refused`) still passes, what it found written already is the current
  content, and a delete has chosen all that is served.

That is inductive because a commit for a version makes all other open requests
for it raced, and requests for other versions change nothing that these facts
speak of (`OtherVersionsStay`, `CommitKeepsOthers`). The errors need it too: the
pact to be merged into, the row to compare with or the publication to be
announced is gone, or a webhook refers to a publication about to be removed,
only if another request was done in between; and the victim of a deadlock is
entangled with another member of its circle (`CirclesEntangle`, by `CInv`).

### Deployments

`DeploymentsProofs`, for any number of requests, versions and targets and
whatever the requests are asked to do: `TypeCorrect`, `CurrentIsReallyDeployed`,
`CurrentIsTheLast` and `UndeployedOnlyByItsTarget` are `[]TypeOK`,
`[]CurrentIsDeployed`, `[]CurrentIsLast` and `UndeployedByItsTarget`. The module
assumes that only deletions are about the environment. A transaction acts on
what it has read in earlier statements, so `IInv` says what is still true of it
at each of them:

- `DeployOK`: a deployment locks rows of its own target; from the insertion on
  its version and the environment exist and it refers to them;
- `UndeployOK`: the row to undeploy is committed and of the target; once the
  currently-deployed row has been dealt with, either it names another
  deployment or the request has locked it;
- `ReleaseOK`: a release locks no row of what is deployed;
- `DeleteOK`: a deletion that has removed the version or the environment has
  locked all rows that belong to it, and after the cascade also the
  currently-deployed rows that name them;
- `RowsOK`, `RowsAreDone`: rows chosen, locked or there come from requests that
  have ended;
- `Exclusive`: nobody removes what another one's new row refers to, and no two
  change one row.

Steps before the commit leave the tables alone (`StepKeepsIInv`). A commit has
to keep what the other transactions know (`DeploymentGoesOn`,
`UndeploymentGoesOn`, `DeletionGoesOn`) and the two invariants themselves
(`CommitOfDeployment`, `CommitOfUndeployment`, `CommitOfRelease`,
`CommitOfDeletion`): an undeployment, for instance, may mark its row because that
row is not the current one or the same commit removes it from there.

### VerificationResults

`VerificationResultsProofs`, for any number of requests, pact versions and
provider versions and whatever the requests are asked to do: `TypeCorrect` and
`LatestIsAlwaysTrue` are `[]TypeOK` and `[]LatestIsTrue`. What a request has found
out stays true because of what it has locked, and the invariant `IInv` says so for each kind:

- `VerifyOK`: a request that publishes locks its own rows only; once it has
  saved its result (`Saved`), the pact version exists, and the provider version
  exists or is the row it has upserted;
- `DeleteOK`: a request that deletes locks committed results; when it has
  cascaded it has the latest rows of all of them; and no result that it leaves
  refers to a pact version or a provider version that it removes;
- `Exclusive`: what one transaction refers to, no other one removes;
- `ResultsAreDone`, `CreatorsAreDone`: committed rows come from ended requests.

Steps before the commit leave the tables alone, so they only have to keep what
is known of their own request and `Exclusive` (`StepKeepsIInv`); of those,
`SaveResult`, `DeleteContents` and `DeleteVersions` use that a statement waits
for the rows it needs. The argument is in `CommitOfResult`, where the new result
replaces the one before, and in `CommitOfDelete`, where a latest row that is not
locked names a result that is not deleted, which by `DeleteOK` keeps its pact
version and its provider version.

`ResultsServe` is `ImplementsService`: every step is a step of `ResultService` or
shows nothing. `Beginning` is an arrival; `Statements` says that a statement
shows nothing, or fails when the request was overtaken; `VictimsMeet`, that
requests that wait for each other meet; `CommitRecords`, `CommitDeletesResult`,
`CommitDeletesVersion` and `CommitDeletesIntegration` are the commits. A commit
must have locked neither less nor more than one step would take from the tables
as they are by then, so `SInv` adds to `IInv`:

- `Held`: what a delete has locked is there and is `Meant`: results it is about
  or, later, of versions it found to be orphans; latest rows only of those;
- `Chosen`: so is what it has chosen and not locked yet, and with a result that
  goes because of its version (`Entails`), the version goes too;
- `Integration`: the pact versions of the integration are locked once they were
  deleted, and another integration's result keeps its version unless its request
  is one of `overtaken`;
- `Creates`: a version about to be created is not there, or is the row found;
- `Undisturbed`, if nothing has overtaken the request: what it has found is still
  there, and all that it is about is chosen or locked;
- `Sole`: locks exclude each other, apart from references to a row; and
  `Parents`: a result that is there has its pact and provider version.

`CommitServes` is the hard step. Whatever r commits, what another request has
locked stays, rows that stay keep their version, and only r's result comes
(`Leaves`); a request that r does not meet sees no change at all (`PassesBy`);
and for one that r meets `Undisturbed` promises nothing from then on. That a
delete of one result holds no other one (`Single`) is an invariant of its own.

### VersionOrder

`VersionOrderProofs`, for any number of requests, version numbers and tags and
whatever the requests are asked to do: `TypeCorrect`, `CopiesAlwaysAgree`,
`OrderIsOfCreation` are `[]TypeOK`, `[]CopiesAgree` and `[]OrderedByCreation`.
The invariant `IInv` says why a value that a request has loaded is still good
when it is written:

- `Creating`: who creates a version has the only row of it and its place;
- `Tagged`: a tag about to be committed refers to the request's own version, or
  to one that is there, that nobody can delete and whose order was copied;
- `WriteOK`: a request sets only its own order and those of rows it has locked,
  and by date no others; `DeleteOK`: a version goes with all its tags;
- `Exclusive`: nobody creates, tags or moves what another one creates or deletes;
- `VersionsOK`, `SequenceOK`: an order is the place its creator was given, and
  places are given in ascending order, after those of all requests that ended
  before.

Again statements leave the tables alone (`StatementKeepsIInv`), and the commit
is where versions are deleted, created, moved or kept (`CommittedVersion`) and
tags deleted, created or kept (`CommittedTagging`); `CommitKeepsOthers` shows
that what other transactions have locked stays as they know it.

`OrderIsOfNumbers` is `[]OrderedByNumber`, with an invariant of its own,
`NumbersOK`, for the order by number. `OneEach`, `Reserved` and `Locked` say what
the index and the row locks give: no two requests have set the same place, and
who has set one has moved away the version that had it. As long as no version
was deleted meanwhile (`Quiet`), a creation has seen its rows in order
(`SeenSorted`), moves exactly those that come after its version (`Divided`), and
places that next to the last one before it (`WellPlaced`); and what others have
committed since, and it has not seen, stands next to something or comes first
(`Compact`). The argument is `HiddenAreBelow`: consider the lowest of the unseen
versions that stand above the row next to which the new version goes. What it
stands next to is that row, or one the creation moves up, or comes first itself;
in each case the creation sets the place that it has, so the index would have
failed it. So at the commit nothing unseen stands above (`MovedByOne`,
`NewPlace`), the order agrees with the numbers (`CommitKeepsOrder`), and what is
unseen by others stays compact (`CommitKeepsCompact`).

### Matrix

`MatrixProofs`, for every finite set of versions, every set of contents and
pacticipants to ignore, any number of changes and whatever the tables are at the
start: `TypeCorrect`, `YesIsForProviders`, `YesIsForConsumers`, `NoIsForAReason`
are `[]TypeOK`, `[]YesCoversProviders`, `[]YesCoversConsumers` and
`[]NoHasAReason`. The answer depends on what each query has found, so the
invariant `IInv` says what is known after each of them:

- `Remembered`: the history lies on the right side of the tables;
- `ProvidersFound`, `ConsumersFound`: the integrations found include those of
  every pact that has lasted since;
- `SelectedAreAsked`: the version asked about is selected, and no other of its
  pacticipant; those of others have been in the environment;
- `VersionsSelected`: versions that stayed in the environment are selected once
  their pacticipant is resolved;
- `AnsweredLast`, `Answers`: there is an answer only in the end, and then it has
  the three properties.

Changes disturb `Remembered` only, which `Observe` restores. The step that needs
an argument is the last one (`YesProviders`, `YesConsumers`, `NoReason`):
`PactHasRow` shows that a pact between the version asked about and a selected
one has a row that `LatestBy` keeps, for which a finite set of versions must have
a latest one (`LatestVersion`, by the well-foundedness of strict inclusion). The
finiteness of `Versions` is assumed by the module.

### PactsForVerification

`PactsForVerificationProofs`, for every set of builds, names, contents and
versions, any number of changes, any delay of the commits and any dates that
clients give. `TypeCorrect` is `[]TypeOK`, and `OnlyEarlierTagsMakePending` is
`StaysNonPending`. `IInv` adds to the type invariant that rows are stamped between
the creation of their build and now (`ConsumersOK`, `BuildsOK`, `CreationOK`) and
what is known of the list and its history (`ListOK`, `HistoryOK`). A pact is not
pending because a build with the tag has verified it, and then tags and results
only grow (`Grown`, `NextGrows`, `MarkedGrows`), or because another build has done
so before the tag was first used. The first use can only move back, and only by a
new tag that carries the earlier stamp (`FirstUseMovesBack`). So a pact that is
not pending stays so (`NotPendingStays`), unless the first use has moved to or
before the stamp of the result that counted (`PendingByAnEarlierTag`). The least
time of a set is the one of `MinIsLeast`.

`PendingIsAlwaysTruthful`, `NoHeadIsEverOverlooked` and `WipIsAlwaysUnverified`
are `[]PendingIsTruthful`, `[]NoHeadIsOverlooked` and `[]WipIsUnverified`: what a
finished list says of the time it was asked for, although each of its queries
saw later tables. The invariant `LInv` says what is known after each query:

- `AskedOK`: where the list is, first with the pacts of the selector, then with
  the heads of the build's own kind, then with those of the other;
- `PendingOK`: a content that has been checked was not verified when the list
  was asked for, if it is among the pending ones; otherwise it is not pending or
  the first use of the tag has moved since (`UnverifiedThen`, `MayBreak`);
- `WipOK`: what is left of the potential work in progress, as far as it is still
  a head, was not selected and not verified for the queries made so far;
- `HeadsOK`: a version that is a head throughout is still potential, or there is
  a reason not to list it (`Accounted`).

These compare the list with the tables that were there when it was asked for,
which `asked` keeps, since no date tells them: what is committed later may be
stamped earlier. As rows are only added, and the first use only moves back
(`Meanwhile`, `FirstUseStaysEarly`), a head that is still one was one before
(`StillHeadBefore`), and a reason not to list one stays (`AccountedStays`).

### What is checked only

Liveness is outside what the prover handles: `RetryingEnds`, the two
`RequestsEnd` and the fairness part of `ImplementsDelivery`. All other properties of
the passing runs are theorems.

## 5. Hazards

`PROJECT.json` lists them with their lines. Covered ones name the properties
above; the others say in which planned module they belong. Two that the models
show and no property states: a triggered webhook that is `not_run` when its
process stops stays so for ever, since the start only fails retrying ones; and
of two deployments to one target at the same time the earlier may keep
`undeployed_at` empty until the next deployment, because the other one's UPDATE
began before it was committed.

Some properties are weaker than one might hope for, because the code is:
`EveryVersionServed` allows a version to have publications and no latest row
once a revision was written over (`Overwritten`). It takes four requests: one
publishes revision 1, one reads that there is none yet, a third publishes
revision 2, the second writes over revision 1, which is the latest from now on,
and a delete that had chosen revision 1 only takes the latest row with it.
`CommittedRevisionsAreKept` is about requests that read the newest revision,
since a latest row that names an older one makes the next number one that is
taken;
`OrderedByNumber` excludes histories in which a version is deleted while another
one is created: a creation does not see the versions that overlapping ones
insert, and the index fails it only if it sets a place that is taken; a deletion
can leave a gap, so that it sets a free place on the wrong side of an unseen
version (four requests show it; the project states it here and has no run for
it). `CopiesAgree`
is about ordering by date only, since moving a version up does not move the
copies; `WipIsUnverified` is about pacts that are still heads, since a head that
is superseded between two queries is not subtracted by the later one;
`PendingIsTruthful` allows for a first use of the tag that has moved while the list
is made, since it is looked up in a query of its own. `StaysNonPending` allows for
a tag that was stamped before a result and committed after it: the code compares
`created_at`, which is set before the commit (`domain/tag.rb:8`), so such a tag
moves the first use back behind a result that had counted, and the pact is pending
again. It is about tags only, since the first use of a branch is the creation of
its first version, which may get its branch long after. And `NoHeadIsOverlooked`
takes the word of a client for when it verified a pact
(`pacts/pact_publication_wip_dataset_module.rb:51`): with an early
`verificationDate` a result of another branch removes a head from the work in
progress, whenever it was published.

## 6. Plan

1. `Cleaning`, composed with the tables of `PactPublishing` and
   `VerificationResults`: what must be kept is kept, and what is deleted is not
   referred to. With it the deletion of pacticipants that are orphans.
2. Several contracts in one request, in `PactPublishing`: those for different
   providers in opposite orders, which wait for each other as tags do.
3. `PactsForVerification` with several selectors, their defaults and fallback
   tags, and the selectors for environments; `Matrix` with selectors for tags
   and branches.
4. Proofs: the theorems about publishing for several contracts, once those are
   modelled; that `PactPublishing` and `VerificationResults` implement the whole
   steps by which `Matrix` and `PactsForVerification` change their tables.

## 7. Not modelled, and limits

- Databases other than PostgreSQL: SQLite serialises writers and MySQL's upsert
  and default isolation differ (`src/lib/sequel/plugins/upsert.rb` branches on
  the database).
- A statement takes all of its row locks at once, where the database takes them
  one by one; so a deadlock inside two multi-row statements is not in the
  models. Statements that a request issues one by one are actions of their own.
- In `PactPublishing` a request about a version that exists does not change its
  branch or build URL: `save` then issues no UPDATE and takes no lock. One that
  changes them locks the row of the version, which keeps more requests apart. A
  POST has one contract; two POSTs with contracts for several providers in
  opposite orders may wait for each other as those with several tags do, and
  that is not modelled. `CheckResource` looks the pact up once, where the resource
  keeps what it has found and asks for it from several callbacks.
- In `VersionOrder` tags are created by PUT of a tag; those in the body of a PUT of
  a version are left out.
- The content of `pact_versions`, the hash and the order of keys: two contents
  are equal or not. The find-or-create of `pact_versions` and of pacticipants is
  taken as done.
- In `WebhookJobs`, the expansion of an event into webhooks and contexts is any
  set of rows; request templates, redaction, logs and certificates are left out.
  A webhook's enabled flag is read when triggering, as in the code.
- Creating, renaming and changing environments; branch and build URL of a
  version, which PUT and PATCH overwrite or merge; several contracts of one
  request; notices and responses.
- In `PactsForVerification` a version has one revision, nothing is deleted, and
  a branch that is set stays. All processes stamp rows by one clock.
  A tag or branch of a consumer version is a pair of
  kind and name.
- In `Matrix` nothing is deleted while a question is answered, and the queries
  that load associations of the rows found (tags, pacticipants) are left out. A
  version asked about is given by its number; selectors by tag and
  branch, several specified selectors and the matrix page are left out. The
  reasons that are returned with an answer are text.
- The JavaScript under `src/public` is that of the HTML pages, and nearly all of
  it is libraries as they were published (jQuery, D3, Bootstrap, table sorting
  and pagination). The page scripts ask for confirmation and call the API; the
  broker's state and logic are in the Ruby code.
- Rendering, validation, paths, UI, badges, metrics, settings, migrations and
  test support: they keep no state that the properties are about.
