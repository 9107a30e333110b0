# BizPulse: a TLA+ model of the server

BizPulse (`src/bizpulse`) is a web application for one shop operator and for
anonymous viewers of a synthetic demo. The operator imports sales files, which
become immutable dataset versions; analyses, forecasts and action cards are
computed from a version; viewers see a published version for as long as their
session lasts; both may ask questions, which a paid model provider helps to
answer. PostgreSQL holds every row, Azure Blob storage every file, several
request threads and a few scheduled jobs work on both.

This directory holds TLA+ modules of those parts whose correctness depends on
the order in which threads, transactions, storage calls, failures and jobs
interleave; TLC configurations that check them on small instances; and proofs,
checked by TLAPS, of the results that matter most for every instance.

`PROJECT.json` maps every definition to the lines of the code it models.

## 1. Inventory

| Component | State | Operations | Modelled in |
|---|---|---|---|
| Ask BizPulse chat (`services/ai_chat_service.py`, `repositories/ai_chat.py`, migration 0006) | turns, attempts, tool runs, evidence, leases | submit (some ten transactions around two provider calls and a query), recovery of stale turns, clearing, saving | `AIChat`, `ChatSlots` |
| AI budget (`_begin_attempt`, `_finish_attempt`, migration 0008) | ledger of attempts | admit, settle | `AIBudget` |
| Import workflow (`services/import_service.py`) | workflows, uploads, versions, receipts | create, upload, recognize, map, standardize, commit, cleanup | `ImportWorkflow`, `DatasetHistory` |
| Storage objects and maintenance (`storage/`, `scripts/maintain_storage.py`) | a row and a blob per object | stage, promote, delete, expire, inventory | `ImportWorkflow`, `ActionExport` |
| Sessions (`demo_session_service.py`, `repositories/sessions.py`) | viewer and operator sessions, chat epoch | create, resolve, end, expire, clear | `Visits`; what depends on them in `AIChat`, `ActionCards` |
| Operator authentication, password rotation (`run_operator_rotation.py`, `operator_rotation_keychain.py`, `rotate_operator_password.py`) | failed attempts per source, password hash, keychain, job, authority packages | login, stage, start, activate, promote, receipt | `Visits`, `OperatorRotation` |
| AI control and key rotation (`ai_control_service.py`, `openai_key_rotation_service.py`) | one control row with a revision, secret versions, receipts, audit events | set channels, rotate key | `AIKeyControl`; the choice of a binding in `AIChat` |
| AI enablement (`run_ai_enablement.py`, `azure_ai_enablement_actions.py`, `run_ai_disabled_recovery.py`) | revisions of the Container App, secret, receipts | one run through a fixed order of states, one recovery | `AIEnablement` |
| Release of the key administration (`run_admin_ai_release.py`, `admin_ai_release_operations.py`, `create_admin_ai_release_package.py`) | packages, receipts, revisions, role, schema, and the control it works on | write a package, run it once | `AdminAIRelease` |
| Query execution | none | one query per turn | its outcomes in `AIChat` |
| Action cards and exports (`services/action_service.py`) | cards with revisions, viewers' overlays, export records | draft, decide, record outcomes, export, simulate | `ActionCards`, `ActionExport` |
| Analysis runs (`services/analysis_service.py`, `repositories/analyses.py`) | a run with its lease, its evidence object | claim, stage, promote, record, publish, give up | `AnalysisRun` |
| Entry locks (`storage/postgres_entry_locks.py`) | one advisory lock per key, on a connection of its own | acquire, release | in `ActionCards` and `AnalysisRun`, with its loss |
| Public release (`public_release_service.py`, `repositories/public_releases.py`) and dataset preparation (`dataset_preparation_service.py`, `DemoActionAuthority`) | releases, their receipts; what is stored of a version, the card that its preparation drafts | publish, prepare | `PublicRelease` |
| Canonical assembler, adapters | none | merge, parse | its result as a union in `ImportWorkflow`; an own module is planned |
| Cost of stock and profit bridge (`fifo_cost_aging_calculator.py`, `operating_profit_calculator.py`, `profit/bridge.py`, `profit_bridge_service.py`) | none | compute | `FifoCost`, `ProfitBridge` |
| Forecasts, the other calculators | caches by identity | compute | no: arithmetic on immutable data |
| Library, preferences, admin summary, workbook export | single rows with a revision | update | no: one transaction each |
| HTTP interface, frontend, infrastructure, the other release scripts | | | no: translation and deployment |

How they interact. A request resolves its session once and then works with what
it read: the chat, for instance, keeps the session's id and epoch through every
later transaction. Services share PostgreSQL only; they exclude each other by
advisory locks (one per action card or upload key, one for commits, one each
for admission and budget) and by compare-and-set on a status or a revision.
Blobs are written before the rows that name them and deleted before those rows
are marked. The hourly jobs work on the same rows without taking the services'
locks. The AI control row tells the chat which credential to use; releases pin
a dataset version to a session.

What is hard. Nearly every service repeats one pattern: do something outside
the database, write a transaction, and after an exception read the tables
to find out whether the transaction was committed. The hazards are what can
change between those steps: a lease that lapses, a chat that is cleared, a
session that ends, a revision that moves, a job that deletes, a commit that is
in doubt, a process that dies. `PROJECT.json` lists them at their lines, with
the properties that cover them.

What makes each component correct:

* Chat: limits on turns in flight; a closed turn stays closed; a paid call is
  made once per recorded attempt; an answer has its evidence; an unknown
  outcome is reported as such; nothing of a cleared chat comes back; a
  stranded turn is closed by later requests.
* Budget: per minute, per day and per month, whatever order stamps come in.
* Sessions: a source gets no more viewers in an hour, and no more guesses of a
  password in a window, than it may; a session that has run out stays so.
* Import: versions form one growing chain, each takes exactly the files of its
  workflow, under the mapping the operator confirmed last, and keeps its
  artifact; raw files do not stay for good.
* Exports: an export has a row that nothing takes for a temporary one, and a blob
  that opens; a promoted blob is never lost from sight.
* Control and key rotation: the row names a version that was read back and
  accepted by the provider, whatever fails between the two stores; each revision
  is accounted for; a success that was answered is true; a repeated mutation is
  done once.
* Password rotation: the operator always holds the password in force; a receipt
  is true; old sessions end (a login in flight escapes: section 5).
* Enablement: success is served, a failure ends with the AI off and the key gone.
* Release of the key administration: a completed receipt stands for nobody else's
  changes; a package runs once; no old revision meets the new schema.
* Cards: a card is what its decisions make of it; a repeated request gets one
  answer; a sandbox shows only what its viewer may still see.
* Analyses: the evidence of a completed run opens and stays; no failure leaves a
  run that can never be completed.
* Releases: the public version changes as its requests expected, one after the other,
  and whatever was public can be served to the sessions that are pinned to it.
* Calculations: stock is used up oldest first; the two computations of a cost agree;
  a bridge explains the whole change of the profit, and there always is one.

## 2. Modules

### `AIChat` and `ChatSlots`

`AIChat` has one action per transaction or external call of
`AIChatService.submit`, for each request thread (`worker[w].pc` names the next
one). A turn's row, its tool run and its evidence are one record of `turn`,
keyed by session, epoch, idempotency key and request, as `uuid5` does it;
`ledger` is the sequence of `ai_budget_ledger` rows, `attempts` the set of those
whose `ai_chat_attempts` row still exists. A transaction has three outcomes:
committed, committed but reported as failed ("lost"), and failed; `MaxFaults`
bounds how often the last two, and crashes, happen. After an exception the
thread goes to the `rb_` step that reads the tables back, as the code does.
The environment clears chats, ends and expires sessions, rotates credentials
and lets leases lapse at any time.

`ChatSlots` is the abstract specification: turns are absent, open or closed; at
most `Slots` are open, at most one per session; none is opened again unless it
was deleted. `ImplementsSlots` maps a turn's status to its phase.

### `AIBudget`

The same two operations seen with a clock: `ReadClock` takes the time, `Admit`
counts under the lock and appends an entry stamped with that older time, so
entries are out of order. The calendar is a parameter (`DayStart`,
`MonthStart`). What a set of rows is charged (`Charged`) is counted token by token.
Faults and turns are left to `AIChat`.

### `ImportWorkflow` and `DatasetHistory`

One workflow, or several, of one series. `upload`, `workflow`, `versions` are
the tables; `row` and `blobs` are the two halves of a storage object, which
change in separate steps; objects are named by what they are for (the original
of an upload, its candidate under a mapping, the final artifact, a row that
schedules a leftover for deletion). A staged blob that no row records yet
belongs to the request that staged it (`holds`) and is forgotten with it, since
no code looks for it again. A commit is the sequence `OpenCommit`, `Assemble`, `Promote`,
`SaveVersion`, `DropStaged`, and then the deletion of candidates and originals
one by one; a failure leads through `CheckCommit` and `Compensate`. The job is
`StartJob`, then `DeleteExpired` and `MarkExpired` for each object, `ListBlobs`,
`CompareRows`, `QuarantineMissing`. `Recognize` and `ConfirmMapping` are one
step: their transaction checks the revision that the client named and the first
read saw, so that nothing it relies on can have changed.

Abstracted: a standardized file is a file with a mapping, a version's content a
set of them; conflicts between rows, invalid tables and a refused size are a
nondeterministic refusal (`RefuseCommit`). One key is one file: replays of a key
answer from the receipt and change nothing. A blob that is written again under
the key of a scheduled deletion is not told apart from the first one; this needs
four faults, more than any run has.

`DatasetHistory` is the abstract specification: a sequence of versions that only
grows, one per workflow, each the previous one plus something, no two alike.

### `ActionExport`

`ActionService.export` for one approved card. An approved card does not change and
its workbook is a function of it, so that all its exports share one final key;
what differs between attempts is the row that holds the key (`Reserved(n)`, or
`Promoted(n)` if the reservation has gone) and the etag of the blob, which
counts how often it was written. A request goes through `Start`, `RecordStaging`,
`FindReservation`/`Reserve`, `Promote`, `FindPromoted`/`RecordPromoted`/
`CreatePromoted`, `Save`; each transaction has the three outcomes of the other
models and a `Check...` step that reads back after an exception. `Authority`
decides between the export that was recorded after all and the cleanup
(`DropFinal`, `MarkFinal`, `DropStaged`, `MarkStaged`). The job is the one of
`ImportWorkflow`, with the etags by which a delete is conditional, since here a
blob can be written again under a key. `maintained` says, for a whole behaviour,
whether the job is deployed: it selects the initial state only.

Abstracted: the checks of the card, which cannot fail once it is approved;
replays of a recorded key, which only read; a request whose staging blob is
written but reported as failed forgets it, as the code does. The listing that
`_promote_export` falls back on is left out because it finds nothing in
`AzureBlobWorkflowStorage` (section 5).

### `ActionCards`

The rest of `ActionService`: one card, which a clerk (a thread with a request of
the operator) drafts, reviews, adjusts, approves or dismisses and whose outcomes he
records. A request reads its clock, takes the entry lock, looks for its receipt,
writes in a transaction that locks the row of the card, and after an exception
reads the tables back; it may lose the connection of its entry lock anywhere and
goes on, and then `_release` refuses its answer. A response is built from the
history of the card in three different ways (reread, replay, lookup), which
`RepeatsGetOneAnswer` compares. `viewer` and `overlays` are the demo sessions and
their sandboxes: a viewer who came after the approval repeats decisions in an
overlay under his chat epoch, and clears it, resets it, leaves or expires. His
transaction locks the row of his session first and reads of the card only what no
longer changes, hence it is one step.

Abstracted: the contents of a card and of an adjustment; `_validate_source`.

### `AIKeyControl`

`AIControlService.set_channels` and `OpenAIKeyRotationService.rotate`, the two
mutations of `ai_control_state`. Both lock the row without waiting and hold it
while they call the secret store and the provider; `request[w].pc` names the next
call. `vault` is the sequence of secret versions, the newest last: a write adds
one, and a failed rotation writes the previous value back as one more. The commit
has four outcomes: done, failed, reported as failed but done, and in `doubt`,
where the server decides later, which is why the row can be seen unchanged and
change afterwards; `Server` holds the row meanwhile. `history` keeps the row at
each revision, so that an answer can be compared with what it names.

### `OperatorRotation`

The controller of the password rotation, with the job it starts in the cloud, the
application's revision and the four keychain items. `tool.pc` is the next call of
the controller, `executions` are the runs of the job, whose result the controller
may never learn; `packages` are the authority files, forward and inverse; `open`
says that a job was started and its rotation not finished. A `login` that verified
the old hash may insert its session after the rotation committed, which revokes only
the sessions it finds (`rotation_login`). What the runbook tells the operator to do by
hand is in the guards of `Prepare`, `Discard`, `PromoteByHand` and `StartRun`.

### `AIEnablement`

`Plan` lists the calls of `STATE_ORDER`, and `runner.step` counts through it. A
PATCH that is reported as failed may still take effect, and a revision becomes
ready in its own time, so that `revision.latest` and `revision.ready` differ.
Rehearsals recover even if they fail, unless the process is interrupted; from the
attempt to write the real key on a failure goes through `abort_patch`,
`abort_reconcile` and `abort_write`. `recovery` is the second program, run by hand.

### `AdminAIRelease`

A package holds what was observed of the deployment; a controller reserves its
receipt, which can be done once, and goes through `Steps`: the nine states of
`ADMIN_AI_RELEASE_STATES`, divided by the calls that change something. Nothing is
retried or undone; a failed call may have taken effect, and the receipt says at
which state the controller stopped. From `VerifyDisabled` on it is a client of the
administrator's page and knows the revision that the last answer gave (`known`). Another
administrator changes the control meanwhile (`Intervene`), another controller runs a
second package, and the candidate becomes ready in its own time. `controls` is the
control row at each of its revisions, without what happens inside a mutation
(`AIKeyControl`).

Left out: what only keeps a package from being started (its files, approval and
expiry), and the search of the logs for secrets, of which the model keeps that they
have to be those of the deployed revision. The digest of a package is that of its
generator, with which no release gets past its first state (section 5), or one of the
observation that the release computes again, as in the tests.

### `AnalysisRun`

`AnalysisService.run` for one plan. All attempts share one row (`run`) and one
final key, whose blob has an etag that counts its writes (`evidence`); what an
attempt leaves under its own staging key, or as the row of the final object, is
named by its number. `runner[r].at` is the next step of the attempt: claim the
row under a lease, stage the blob, record it, promote it, record the final object as
temporary, adopt it and complete the run in one transaction; after an exception,
read the run back, clean up what it may, and give the row up. A restart of the
service gives up whatever is running (`recover`), which counts as a fault if the
attempt was only slow.

Abstracted: what is calculated, and that a plan with other inputs is another run.
"Lost" commits are visible when the attempt reads back; a COMMIT that lands after
the read-back is modelled in `AIKeyControl` only. The hourly job is not part of this
model: it can meet the final object while its row is temporary and its lease over, as
it meets that of an export (`export_job`).

### `PublicRelease`

Publishing has one action per transaction of `PublicReleaseService.publish`: the
receipt is looked up (`LookForReceipt`), eligibility and readiness are read
(`CheckReadiness`), and the release is written under the advisory lock together with
its receipt (`Release`); after a failure the receipt is looked up once more
(`LookAgain`). `releases` is the table in the order of activation, `Public` its active
row. A preparing thread works through the items of `prepare_version`, one domain and
scope after the other, and goes on after a failed one; for the domain of actions it makes
the three requests of `DemoActionAuthority.ensure` with keys of their own, which an
earlier, crashed preparation may have used up. The operator decides on the drafted card like
on any other. A calculation is one step (`AnalysisRun` has its inside), and so is a
request about a card (`ActionCards`); a version and scope has the one card that the
preparation drafts. Left out: the forecast, which readiness never waits for, and the
times of a release. The seeded version is as the bootstrap leaves it.

### `Visits`

The sessions of viewers and of the operator, with the clock. Every request reads it
once (`current_time`), waits, and works with that time: `thread[t].now`. The viewers of
a source are counted and inserted in one transaction under a lock (`Enter`); failed
logins are a list in memory, which a login looks at (`CheckAttempts`), leaves for the
time it takes to verify a password, and writes afterwards (`Fail`, `Clear`). `failures`
is a ghost: the failures of a source since it was last cleared, none forgotten; `failed`,
the list of the server, is the set of their positions that it still remembers. A
session runs out by its idle or its absolute end; `Touch` (every request), `End` and
the sessions job meet in any order.

### `FifoCost`

`calculate_fifo_cost_aging` and `_fifo_period_costs` of the profit bridge. A loop over
sorted rows is a function of the set of rows it has passed: its value for a set comes from
the value without the `Latest` row, and from that row. `Supply` is the inner loop, over
lots, `Allocation` the outer one, over events. `Calculator(p)` is what an analysis says of a period, and
keeps for the properties what each event drew from each lot; `PeriodCosts(p)` is what
the bridge uses. The two loops differ in the lots they look at, in their order
of conditions and in what they call incomplete, hence they are two definitions.

### `ProfitBridge`

`_profit_period` (`Sku`), the contribution profit of `calculate_operating_profit`
(`Contribution`) and `build_profit_bridge`: alignment of the SKUs of two periods
(`Base`, `Now`, `Nearest`), volume, mix, price and cost, the drivers that are sums of a
table, the residual. Decimals are whole parts of a cent; `Parts` is divisible by all
quantities of an instance, so that only `Money` rounds.

The definitions of both modules were compared with the Python functions on all
inputs of two instances each kind (25,000 inputs of the cost, 110,000 bridges): they
give the same values.

### The `MC` modules

Each gives the constants their model values. `MCAIBudget`, `MCActions`, `MCOperations`
and `MCDatasets` put two or three components side by side, one of them in a behaviour,
because they share nothing that changes: an approved card is all that an export
reads, a committed version all that an analysis, a release or a calculation reads, and the
procedures of operators and administrators have no state in common.
`MCOperatorRotation` is the rotation alone, in its smallest instance.

## 3. Runs

| Run | Instance | What it shows |
|---|---|---|
| `chat_demo` | 2 threads, 1 typed question, 1 slot: 1 viewer, 1 clear, 2 credential revisions, 3 attempts, 1 fault; or viewer and operator, 2 attempts, no fault | the safety of a turn against late workers, retries, doubt and clearing; admission implements `ChatSlots` |
| `chat_session` | 1 viewer, 2 keys, 2 slots, 2 threads, 1 fault | one turn in flight per session; stranded turns are closed |
| `chat_operator` | 1 operator, 1 thread, no fault | finding: turn after logout |
| `budget_limits` | attempts: 1 viewer, 1 clear, 2 threads, 5 times on 2 days of a month and the first of the next; or visits: 1 source, 2 threads, 4 times, 2 sessions, 1 restart | limits of the sliding minute, the day and the month; of viewers and failed logins; no session comes back |
| `import_files` | 2 files, 2 threads, job; 1 workflow and 2 keys with 1 fault or a second mapping, or 2 workflows and 1 key with 1 fault | what a version takes, its artifact, and that the history is one chain |
| `datasets_settle` | 1 file, 1 thread, job, 2 faults; or an analysis, 2 threads, 5 attempts, 2 faults; or 2 versions, 2 publishing threads with 4 requests under 3 keys, 1 preparing thread, 1 fault; or the cost of 2 SKUs, 2 lots, 2 events over 3 days; or a bridge between 2 periods of 2 SKUs | originals go; evidence opens and analyses complete; releases follow their requests and can be served; costs agree, and drivers add up |
| `import_late` | 1 workflow, 2 files, 2 threads, no fault | finding: late upload |
| `actions` | an export: 2 keys, 2 threads, 2 requests, with and without the job, 2 faults; or a card: 3 keys, 2 threads, 2 revisions, 1 viewer, 1 fault | exports keep their rows and blobs; cards, answers and sandboxes |
| `export_job` | 1 key, 1 thread, job, no fault | finding: the job deletes an export's blob |
| `operations` | a rotation: 3 passwords, 3 packages, 3 executions, 3 faults; or an enablement, 3 faults; or the control: 2 candidate keys, 2 idempotency keys, 2 threads, 3 mutations, 2 faults; or the release: 2 packages, 2 controllers, 1 change by another administrator, 2 faults | nobody is locked out; what is reported is so; row, secret, audit and receipts agree |
| `rotation_login` | 1 package, 1 execution, 2 passwords, no fault | finding: a login in flight keeps the session of the old password |
| `bridge_listed` | 2 periods of 2 SKUs | finding: a SKU that is listed and sells nothing |

Why the bounds are enough. Every hazard here is between two requests, or
between a request and one of the session, the lease, the job: two threads and
one thing to contend for. One fault puts a failure at each step in turn, two a
failure in the handling of a failure. `MaxAttempts`, `MaxEpoch`, `MaxRevision`,
`MaxMappings`, `MaxTime` bound counters that otherwise grow; each is at least
one more than the value at which something new happens, and the proofs do not
depend on any. Symmetry is used for interchangeable threads, keys and files,
only with safety properties. Deadlock is not checked: a bounded instance ends
when its keys are used up and its threads are idle, as the server does when
nobody calls it.

Four constraints cut combinations that bring nothing new. `AloneOrShared`: a viewer who
is alone meets failures, a cleared chat and a new credential; viewer and operator meet
each other without them, for one slot. `OneWorkflowOrOneKey`: two
keys repeat requests of one workflow, two workflows compete for a base, a second
mapping overtakes a standardization, and none needs the other. `JobOrOthers`: the job
meets one upload, one thread and no other failure than its own, from its commit on;
without it `datasets_settle` has the job and two faults at any time. `ViewersOrFaults`: a viewer reads only what the operator's requests
have committed, so that a fault after he came, or before, shows him nothing else. An
analysis has five attempts because a single lost lock can make more than one of them
fail, and `AnalysesComplete` needs one that is left alone; eight attempts with three
faults pass as well (826,000 states).

`ArtifactHasBlob` says of the job that it never deletes a committed artifact, which
it can quarantine. It is false where the job meets what a failed compensation left
(section 5), and the constraint excludes this. `ExportOpens` is stated without the
job, which can delete the blob (`export_job`), and for one failure: with two, a commit
in doubt that cannot be read back, the code deletes the blob of a recorded export
(section 5). The run has two failures because `FinalBlobHasRow` needs a failed cleanup
after a failed request. `FailuresLimited` allows two failures more for each other thread:
one that passed the check while another verified a password, and one for which a
request with an older clock remembers less; with fewer it is false. `ResidualIsRounding`
allows two cents (four roundings of half a cent) and is stated for lines that have cost
or revenue only with units (section 5). `budget_limits` has one viewer, whose old and new chat count
apart; two viewers are covered by the proofs.

Fairness. `chat_session`: each thread goes on while it can, clients keep asking
(recovery runs inside submit only, so without requests nothing is closed: the
property says "while a session is live"), and time passes. `datasets_settle`:
the job is started again and again (cron) and two hours pass; requests of the import
get no fairness at all, so that `RawUploadsGo` holds for a client that never comes
back and a process that stops anywhere. For an analysis, a thread goes on while it
can, leases end, and somebody asks for the analysis again; faults are bounded, so
that in the end an attempt is left alone.

## 4. Proofs

| Theorem | Module | Statement |
|---|---|---|
| `TypeCorrect` | `AIChatProofs` | `Spec => []TypeOK` |
| `SlotsImplemented` | `AIChatProofs` | `Spec => Abstract!Spec`: the chat implements `ChatSlots` |
| `SlotsSafe` | `AIChatProofs` | the limits of the abstract slots |
| `InFlightLimitHolds`, `SessionsAskOneAtATime` | `AIChatProofs` | at most `MaxConcurrent` turns in flight, at most one per session |
| `ClearedChatsStayCleared` | `AIChatTurnProofs` | a viewer's turns are those of his present chat |
| `AnswersAreBacked` | `AIChatTurnProofs` | an answer has its result, its evidence and its succeeded calls |
| `CallsArePaidOnce` | `AIChatTurnProofs` | an attempt is called at most once |
| `CallsUseTheRecordedBinding` | `AIChatTurnProofs` | a call uses the credential on its row, of the thread that owns it |
| `UnknownOutcomesAreReported` | `AIChatTurnProofs` | a closed turn says "unknown" exactly if one of its calls does |
| `ClosedTurnsStayClosed` | `AIChatTurnProofs` | closed turns, kept answers and settled attempts are final |
| `TypeCorrect` | `LimitsProofs` | `Spec => []TypeOK` of the budget |
| `GlobalRateSafe`, `SessionRateSafe`, `DailyLimitSafe`, `AttemptsSafe` | `LimitsProofs` | the limits of the sliding minute and of the day, and the three together |
| `MonthlyLimitSafe` | `LimitsProofs` | the tokens of a calendar month |
| `ViewersAreLimited`, `FailuresAreLimited`, `SourcesAreLimited` | `LimitsProofs` | new viewers per hour, failed logins per window |
| `RunOutStaysOut` | `LimitsProofs` | a session that has run out stays so |
| `TypeCorrect` | `ImportWorkflowProofs` | `Spec => []TypeOK`, commits exclude each other |
| `CandidatesCurrent` | `ImportWorkflowProofs` | a candidate follows the mapping confirmed last |
| `CommitsComplete` | `ImportWorkflowProofs` | a version takes all uploads of its workflow |
| `HistoryImplemented` | `ImportWorkflowProofs` | `Spec => History!Spec`: the import implements `DatasetHistory` |
| `HistoryGrows`, `HistoryOnce` | `ImportWorkflowProofs` | a version keeps what earlier ones held; one version per workflow |
| `ArtifactsKeepTheirBlobs` | `ImportWorkflowProofs` | the artifact of a version has its blob and its row, as long as the job finds none of it scheduled |
| `TypeCorrect` | `ActionsProofs` | `Spec => []TypeOK`, exports of a card exclude each other |
| `BlobsAreFound` | `ActionsProofs` | without the job, a blob under the final key has a row |
| `ExportsKept` | `ActionsProofs` | an export keeps its row, with or without the job |
| `ExportsOpen` | `ActionsProofs` | an export has its blob, without the job and with one failure |
| `CardsTypeCorrect` | `ActionsProofs` | `CardsSpec => []CardsTypeOK` |
| `CardsFollowDecisions` | `ActionsProofs` | a card is what its decisions make of it, even with lost entry locks |
| `RepeatsAreAnsweredOnce` | `ActionsProofs` | one key, one answer, while no entry lock is lost |
| `SandboxesAreCurrent` | `ActionsProofs` | an overlay belongs to the present session, chat and card |
| `TypeCorrect` | `DatasetsProofs` | `AnalysisSpec => []AnalysisTypeOK` |
| `EvidenceKept` | `DatasetsProofs` | a completed run and the row of its evidence never change, even with lost locks |
| `EvidenceOpens` | `DatasetsProofs` | while no lock is lost, the evidence of a completed run has its row and its blob |
| `ReleasesFollow` | `DatasetsProofs` | each release displaced what its request expected, and can be served |
| `DriversExplainTheChange` | `DatasetsProofs` | a profit bridge without an unknown driver leaves nothing but rounding |
| `CostsFollow` | `DatasetsProofs` | stock is used oldest first, and calculator and bridge find the same costs |
| `TypeCorrect` | `AIKeyControlProofs` | `Spec => []KeyTypeOK` of the key control |
| `BoundKeyQualified` | `AIKeyControlProofs` | the bound version exists, holds the bound key and was accepted |
| `SuccessTrue` | `AIKeyControlProofs` | an answered success names a revision at which the mutation was done |
| `KeySpentOnce` | `AIKeyControlProofs` | the successes of one idempotency key name one revision |
| `RevisionsAccountedFor` | `AIKeyControlProofs` | each revision was made by one audited mutation, whose receipt names it |
| `ServedKeyChecked` | `AIKeyControlProofs` | channels go on with a checked key; at rest the newest version is the bound one |
| `OperatorIsNeverLockedOut` | `OperationsProofs` | the password in force is one of the two in the keychain |
| `ReceiptsAreTrue` | `OperationsProofs` | a receipt of a rotation is written when everything agrees |
| `EnablementReportsTruly` | `OperationsProofs` | what an enablement reports is deployed |
| `ReceiptsAreEarned` | `OperationsProofs` | what a completed receipt of a release stands for |

They hold for every value of the constants under the assumptions named in the
modules: limits are positive, bounds natural, sets of threads finite where they are
counted, and of SKUs, lots and events where their quantities are added up, the calendar
never runs ahead, model values that stand for "none"
(`NoWorker`, `NoClerk`) are none of the others, a request of a release names
versions, and the parts of a cent in which a bridge counts are a multiple of each
quantity, so that what is per unit is exact. Every safety property of a passing run
is the subject of one of these theorems or of a conjunct of one.

`AIChatProofs`. The invariant `IInv` types the tables and what each thread
knows: a thread in the middle of a request has a session, a key and a question
that name a turn, and one that holds an attempt names a row of the ledger.
`TypeOK` alone is not inductive, since it says nothing of the local variables
that later address rows. Each action is shown to keep `IInv` and to map to a
step of `ChatSlots`: admission to `Admit` of the turns its recovery closed and
the one it opens, deletions to `Forget`, everything else to `Close` of a set
that may be empty. The limits then come from `SlotsSafe` by refinement and need
no induction over the detailed actions.

`AIChatTurnProofs`. None of its properties is inductive, because each depends on
who still works on a turn. `TInv` (on top of `IInv`) says three things. A turn whose
chat goes on (`Current`) is owned by at most one thread, and a thread that drives one
owns it (`OwnsItsTurn`, `DrivesItsTurn`). What the owner relies on in each of its
steps (`DriverFacts`) is there: no attempt of a stage before it begins, a pending one
while the provider is asked, a succeeded one before the turn is completed, an unknown
one only on the way to say so. And an attempt in hand is held by one thread only
(`HeldOnce`), which has not called yet. A step of another thread either leaves such
a turn alone (`Quiet`) or recovers it (`Recovered`), and both keep the owner's
knowledge; that is shown once and used for each action. A late thread whose chat was
cleared or has ended finds no turn to write. The properties say of an operator's
questions what the code guarantees while his session lasts, or for answers he
kept (`Lasting`, `Belongs`): section 5, finding 1 is about the others.

`LimitsProofs`, the budget. `GlobalRateRespected` is not inductive: it needs that
no entry is stamped ahead of the clock, and that a waiting thread's stamp is not.
The argument of `MinuteIsCounted`: the minute that ends at a new entry, or starts
at it, lies inside what the thread counts, because the count is open to the
right (`created_at >= minute_start`): entries stamped later than the thread's
own time are counted as well. So late stamps make the limit stricter, never looser.
The same holds of a month: what the rows since its first day are charged bounds what
the month is charged, later months included (`AdmitKeepsMonths`), and a row is charged
its reservation until a usage that is not larger is known (`SettleCharges`). The sum
is stated as the number of pairs of a row and one of its tokens (`TokensOf`), for which
the facts about finite sets suffice where a sum would need induction.

`LimitsProofs`, visits. The rows that `Enter` counts cover every hour that the new one
is in, for the same reason. Failed logins have no lock: while a source's failures are
all remembered, the check before the password bounds what a thread can add to, each
thread adding at most one, and two per other thread in the worst order; once some were
forgotten, which moves the window on, none of the threads with an older clock can arrive
in a window that is already full.

`ImportWorkflowProofs`. Neither `CandidateFollowsMapping` nor the refinement is
inductive, because a thread uses rows that it read several steps earlier. The
invariant says what it may rely on (`WorkerOK`): the revision of its workflow
only grows, and as long as it has not grown, the mapping it standardizes under is
still the confirmed one, and the content it assembled is still what its workflow
holds; the holder of the commit lock also finds the versions as they were. `Frame`
states what a step leaves to every other thread, `FrameKeeps` shows once that
this keeps their knowledge, and each action is then shown to respect `Frame` and
to keep the knowledge of the thread that moves. A commit writes its version only
if the revision holds (`VersionInsertable`), so that its content is the base plus
the files of its workflow: `CommitsComplete`, and a step of `DatasetHistory`.
`ArtifactInv` adds the blobs: who deletes a final blob is the holder of the commit
lock, after it saw that its version is not there, and the job deletes no blob of a
version unless a failed compensation has scheduled it, which `NothingScheduled` excludes
(section 5: it is the one way in which the code loses an artifact).

`ActionsProofs`, exports. By the lock one thread is active at most (`OneRequest`), so
that what it knows of the final key is changed by nobody else but the job. Without
the job (`Alone`), a thread about to promote has a row for the key, and one that
marks that row as deleted has seen the blob deleted: `BlobsAreFound`. For
`ExportsKept` the job is allowed: the row of an export holds the final key, so
that no row can be inserted in its place, and its purpose excludes it from
everything that marks temporary rows (`KeptStays`). What a request records without
adopting a row is the row of an earlier export (`SaveFindsExport`). `OpenInv` is about
who may drop the blob: a request that promoted it itself while no export named it; if
its own export is there all the same, its transaction was in doubt, and this was the one
failure, so that reading back succeeds.

`ActionsProofs`, cards. `CardsInv` says what a request found when it took the row of
the card, and that the row lock keeps this true until the commit (`RecordFits`,
`CommitFits`), so that neither `CardFollowsDecisions` nor `SandboxIsCurrent` needs the
entry lock, which may be lost. Only `RepeatsGetOneAnswer` does, since the first answer
reads the card again after the commit and the later ones read its record (`LockFits`).

`DatasetsProofs`. `CompletedOpens` is about what attempts do after they have read
the run, so the inductive invariant `AnalysisInv` says at each step what an attempt
may count on: that it is alone (`Guarded`, while no lock is lost), that the row
still names its number, that the final object it adopts has the etag of the blob,
and, before it deletes that blob, that it has seen the run not completed.
`EvidenceKept` needs none of this: the transaction that completes a run demands a
running one, and what marks temporary rows demands the purpose that the adoption
takes away (`ArtifactIsEvidence`). For releases, readiness that was read before the
transaction is still there in it because what is stored of a version is never taken away,
and what a request expects is compared under the lock with the last row of a chain.

`DatasetsProofs`, bridges. `ResidualIsRounding` is about sums over any number of SKUs.
The library's induction takes a predicate as a parameter, which the provers cannot
instantiate; `InductionOnSets` says the same with the set of the subsets that have the
property, and follows from the well-founded order of the numbers. From it come the
existence of a sum (`SumExists`) and its linearity (`SumIsLinear`). SKU by SKU
(`SkuAddsUp`) the effects on volume, mix, price and cost add up to the change of what
the SKU contributes, because the average margin, whatever it is, is taken from the mix
and added to the volume. Money is rounded four times, by half a cent at most
(`MoneyRounds`), and the residual, a whole number of cents, stays within two. What a new
SKU is assumed to have cost before cancels as well, since its quantity was zero.

`DatasetsProofs`, costs. `FifoInv` only says that an answer is what the calculator makes of
the rows as they are; the work is in what the loops compute. `RecursionExists` shows once
that a function that takes the latest element off a set is what its definition says, and
every loop is an instance of it. The rest is induction over sets in the order of
`Latest`. One event (`AllSupplied`): it takes from each lot at most what is there, from a
lot only when the older ones in reach are empty, and lacks something only when all are.
All events (`AllFromLots`): what they took from a lot and what is left of it are what came,
and a lot that is empty stays empty, which gives the order that `OldestFirst` states. What
is lacking (`AllUncovered`) grows with an event exactly if the day of that event is then
the worst one, because whatever is left came later. The bridge looks at the lots of all days
and skips empty ones, which makes no difference (`OnlyThoseInReach`, `AllAlike`); it keeps
its costs by SKU, and they add up to those of the events of the period (`AllInStep`). An
earlier period has fewer lots and fewer events; both change nothing in what its events got
(`SameUntil`, `LaterEventsChangeNothing`).

`AIKeyControlProofs`. `BoundKeyIsQualified` says nothing of the requests that are
about to write the row, so the inductive invariant `KeyInv` says what each of them
knows (`Knows`: the row it read was the row once and is sound; the version it wrote is
stored; from the second validation on it is accepted), that who holds the row has read
it as it is (`HolderIsCurrent`), and the same of the transaction the server has been
left with (`Fits`). `SuccessIsTrue` has its difficulty in the reconciliation, which
looks at a row that others may have changed: a version belongs to the one request that
wrote it, and if the row names it, the receipt of that request is there
(`VersionsAreOwned`); what a receipt says stays true because the history of the row only
grows (`ReceiptsHold`), and every answer is what a receipt says (`AnswersAreReceipts`),
from which `KeyIsSpentOnce` follows as well. The steps that leave the database alone
are one lemma (`LocalStep`), those that apply a transaction another (`ApplyStep`).
The audit trail (`AuditInv`) needs that a request remembers the mutation it was asked
for and the number of the row it holds (`RequestsRecall`), also while the server has
its transaction. For the secret (`VaultInv`): whoever wrote a value that is not the
bound one still sees to it, as the holder of the row or in a transaction in doubt,
or its loss was reported (`Dirty`).

`OperationsProofs`. The change of the password (`RotationInv`) has a conjunct for each
stage in which the controller may die, with what is known of the job, the database and
the keychain there; what survives its death is only that a rotation is open and that
the pending pair is left alone until it is finished, and that is enough for the password
in force to be in the keychain. The enablement (`EnablementInv`) says for each place of
the plan which of its calls have left their trace, and for abort and recovery what they
still have to undo. The release (`ReleaseInv`) counts the changes of its process: they are
consecutive rows of the control that end with the one it remembers, so that another
administrator's change in between is met by a conflict and no completed receipt.

The type invariants of the budget, the import, the chat, the cards, the analysis and the
key control are proved and not run by TLC.

Model-checked only: everything under fairness (`InFlightTurnsClose`, `AnalysesComplete`,
`RawUploadsGo`), which the provers cannot do.

## 5. Findings

Behaviours of the code that a document of the repository excludes; each has a
run that ends with the shortest example.

1. `chat_operator`: an operator's question that is being admitted during the
   logout leaves a turn that nothing cleans.
2. `import_late`: an upload recorded after the commit of its workflow; the
   version is then no longer eligible for release.
3. `export_job`: the maintenance job deletes the blob of an export whose row was
   temporary when the job read it. The run has the shortest example, a request
   that outlives its lease of five minutes; the same happens when a request finds
   the expired row that a crashed one left behind.
4. `bridge_listed`: a SKU with sales rows of zero units has no margin per unit. If it
   sells nothing in the other period either, `margin_by_sku[base.sku_id]`
   (`profit/bridge.py:163`) raises `KeyError`, and two periods with such a SKU have
   no bridge, whatever else they sold. The plan of the demo (line 959) leaves the
   amount of such a SKU in the residual.
5. `rotation_login`: a login that verified the old password before the rotation
   committed, and inserts its session after it, keeps that session until it runs out
   by itself. The rotation revokes the sessions it finds, and the controller writes its
   receipt; the plan of the rotation counts "old sessions are revoked" among the
   conditions of success (line 517).

Seen while modelling, and without a run:

* When the provider reports more usage than was reserved, the finishing transaction
  raises (`ai_chat_service.py:1109`); the attempt is charged its reservation in the
  budget, not what it used. `MonthlyTokensRespected` speaks of what is charged.
* The calculator rounds what each event takes from each lot to a cent, the bridge adds
  the same amounts without rounding (`fifo_cost_aging_calculator.py`,
  `profit_bridge_service.py`). With unit costs in fractions of a cent the two costs
  differ by up to half a cent for each such allocation; the profits that a bridge
  compares contain the first, its drivers the second, and the difference falls into the
  residual. Costs in the models are whole cents, so that `CostsFollowLots` and `ResidualIsRounding` leave this out.
* The inventory quarantines an artifact that was committed while it ran, because it
  lists the blobs before the rows; later imports on that version are refused.
* A password rotation whose activation was not applied stops with the code for "go on
  with an inverse package", but `generate_operator_rotation_authority.py:451` makes
  one only if the application already has the new hash
  (`docs/superpowers/specs/2026-08-17-operator-password-rotation-design.md`,
  section 7). The password in force is still in the keychain.
* A controller that dies between the writes of a promotion leaves a keychain that
  `promote` refuses; it takes a hand to finish it. Each half is still there.
* A receipt of an enablement can outlive what it says: if its finalization fails after
  the text reached the file, the emergency disables the AI under a receipt that
  reads `completed`, and a death of the process leaves `started` over an enabled AI
  (`run_ai_enablement.py:566`).
* `collect_current_azure_baseline` digests result, projection and readiness of its
  observation (`create_admin_ai_release_package.py:1752`), `_readonly_revalidation` digests
  result and projection (`admin_ai_release_operations.py:355`) and compares. Every package
  that the generator writes therefore stops at its first state with `preflight_drift`,
  although nothing drifted (`docs/operations/AZURE_LAUNCH_RUNBOOK.md:226` wants the
  same observation proved again). Each side's test computes a digest of its own.
* When the receipt of the release of the key administration cannot be written, `main`
  writes it once more as a failure of `operations_factory_initialization` with no
  state completed (`run_admin_ai_release.py:846`), even after all of them.
* A KeyboardInterrupt during a rehearsal skips its recovery, so that the AI stays
  enabled without a real key until somebody runs the recovery.
* `terminal_at` of a card is stamped before its commit: a viewer who comes in between
  sees the card appear in the middle of his session.
* With a lost entry lock, a request that goes on next to the holder changes what the
  holder reads back as its answer. `RepeatsGetOneAnswer` is therefore stated for lives
  without a lost lock; `_release` refuses the answer of the request that lost its own.
* With a lost lock, an attempt at an analysis whose `_record_available_for_publish`
  meets the row that another attempt has adopted deletes the published evidence
  (`_cleanup_available(available, None)`), and `fail()` gives up whichever attempt
  is running. `CompletedOpens` is stated as long as no lock is lost.

* Line 959 of that plan also wants complete inputs to reconcile within one cent. Volume,
  mix, price and cost are rounded one by one, and their roundings can add up to two:
  a bridge with whole cents and complete inputs is then reported as not reconciled.
* Revenue or cost of a SKU in a period without units sold is not in any driver, and
  stays in a residual that is reported as derived.
* Clearing the chat deletes the attempts that the rate of a session is counted
  from (`repositories/ai_chat.py:312`), so a viewer starts the minute afresh.
  `SessionRateRespected`, a part of `AttemptsRespected`, is therefore stated for the chat since the last clear.
* A standardization overtaken by another one, under a newer mapping, reads a
  mismatch back (`import_service.py:1857`) and leaves its staged blob: no row
  names it, and nothing deletes it.
* When a commit is refused and deleting its promoted blob fails, `_compensate_merged`
  schedules the blob under its final key (`import_service.py:1890`). A retried commit
  adopts that blob while the job deletes it, and the version is written without its
  artifact. This takes one failed call and the job.
* When the transaction of an export is committed in doubt and reading it back
  fails too, or finds the row quarantined by the inventory, the request deletes
  the blob of the export it has recorded (`action_service.py:393-408`).
* `_promote_export` looks for the final key with `inventory(final_key)`, but
  `AzureBlobWorkflowStorage.inventory` appends a slash to its prefix and never
  lists a blob of that very name. The recovery that
  `tests/services/test_action_service.py:406` expects works with the storage of
  that test only; on Azure the export fails and its reservation expires.
* The job deletes a blob, a request writes it anew, and both stop before they have
  changed the row: its etag is then an older one than the blob's. Every expiry
  conflicts and quarantines the row again, and every later export of the card
  fails, since the row matches neither reservation nor blob
  (`action_service.py:1044-1104`). This takes two crashes and the job.
* The preparation stores a profit bridge under the periods of the version's own last
  month (`dataset_preparation_service.py`, `_ensure_bridge`), but readiness looks for it
  under the fixed public periods, and `DemoActionAuthority` takes the replenishment of the
  public scope. A version whose last sales are not in that month never becomes ready
  (`docs/superpowers/plans/2026-08-16-bizpulse-viewer-operator-experience-corrections.md:581`).
* The operator can review, adjust or dismiss the card that a crashed preparation has
  drafted. Every later preparation of the version and scope then fails in its
  domain of actions, until another card of that scope is approved.
* The inventory can quarantine a reservation before the promotion is recorded; the
  request then fails, and a retry succeeds.
* The plan of the import (line 575) promotes artifacts only after the database
  transaction, the code before it.
* The inventory, or the expiry after two hours, can take a candidate away from a
  workflow that is still being prepared, which then can never be committed, since
  an accepted upload is not standardized again.

## 6. Not modelled, and limits of the models

* The two UPDATE statements of `recover_stale` are one step; a late worker's
  transition between them is not modelled (section 7).
* Amounts that enter a calculation are whole cents, unit costs of lots among them:
  the bridge's roundings are modelled, that of an allocation has no effect (section 5).
* The chat, the imports and the exports take advisory locks to exclude. The locks of
  imports, cards and analyses live on connections of their own, whose loss the request
  does not notice; cards and analyses are modelled with it.
* Deadlocks in PostgreSQL appear as failed transactions.
* `create_action_draft` of the chat.
* Parsing, the assembly of canonical tables, the other calculators and forecasts compute
  on immutable data; most of the lines of the repository are of this kind, or build
  and check release packages, or draw the pages. They have no order of steps that a
  model could get wrong, and an operator-by-operator translation of them would be the
  program once more.
* The other tools that create packages and read deployments (`create_ai_enablement_package.py`,
  `create_release_manifest.py`, `azure_recovery_preflight.py`) compare files with each other.

## 7. Plan

Done: `AIChat`, `ChatSlots`, `AIBudget`; `ImportWorkflow`, `DatasetHistory`;
`ActionExport`, `ActionCards`; `AIKeyControl`, `OperatorRotation`, `AIEnablement`, `AdminAIRelease`;
`AnalysisRun`; `PublicRelease`; `Visits`, `FifoCost`, `ProfitBridge`; proofs of
the chat, the limits, the import, the exports and cards, the analysis, the releases and the
calculations, the key control, and the procedures of operators.

Left, in this order:

1. `Recovery`: `recover_stale` as two statements against a late worker.
2. `Assembler`: the merge of canonical tables as operators, against a reference
   definition over bounded inputs.
3. Theorems: the value and the ages of the remaining stock (`stock`, `aged`), which no
   property states yet.
