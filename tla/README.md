# A TLA+ model of the academic service

The academic service keeps a school's classes, schedules, sessions, students and
enrollments in one PostgreSQL database (READ COMMITTED), serves them over HTTP and
calls the billing, notification, chat and tenant services. This directory holds a
model of it: TLA+ modules translated from the Go code, TLC runs on small instances
and theorems checked by TLAPS. `PROJECT.json` lists every run, mutant, theorem and
hazard and maps each definition to the lines it stands for.

## The system

| Part | State it keeps | Operations that change it | What is hard about it | Module |
|---|---|---|---|---|
| Enrollments (`enrollment_usecase.go`, `enrollment_repository.go`) | `enrollments`: status, schedule, idempotency key, payment fields | public and tenant checkout, activate, release, suspend, resume, end, assign a schedule, cancel | the last seat, same-key retries, billing called between two transactions, notifications late or twice, rows saved whole | `Enrollment` |
| Schedules (`schedule_usecase.go`, `schedule_change_guard.go`, `class_usecase.go`) | `class_schedules`: capacity, validity, deletion, watermark | initial schedules, permanent change, permanent tutor change, deletion, alone or with the class | moves live enrollments while signups run; lock order; a class deletion that locks nothing; what becomes of the sessions | `Enrollment`, `Sessions` |
| Sessions (`schedule_usecase.go`, `session_repository.go`) | `class_sessions` | reschedule, substitute tutor, deletion, cancellation with the schedule | read without a lock, saved whole; a moved session has another row | `Sessions`, `Notices` |
| Session generation (`session_generation_worker.go`) | the watermark, new sessions | one transaction per schedule, any number of replicas | month ends, deleted sessions that must stay deleted, SKIP LOCKED | `Sessions` |
| Private requests (`private_schedule_request_usecase.go`) | `private_schedule_requests` | create, approve, reject, recommend, accept, decline, cancel | an approval sells an enrollment and calls billing after it commits; a refusal reopens the request | `PrivateRequest` |
| Private chat (`private_chat_capture.go`, `private_chat_outbox.go`, `private_chat.go`) | events and their outbox | capture with each transition, claim, finish, requeue, supersede | leases, order of events per request, outdated approvals | `PrivateChat` |
| Attendance (`attendance_usecase.go`) | `attendances` | single mark in two forms, bulk, correction | forms racing each other; who is in the cohort; the absence trigger | `Notices` |
| Session reminders (`session_reminder_*.go`) | `session_reminder_enrollments`, rows of the outbox | a pass per replica | overlapping replicas, sessions moved after the reminder, siblings | `Notices` |
| Parent notifications (`parent_notification_*.go`) | `parent_notification_outbox` | enqueue (triggers, reminder worker), claim, finish | leases, provider's deduplication window, attempts, stale reminders | `NoticeOutbox` |
| Class creation (`class_creation_*.go`) | `class_creation_requests`, a class with category and schedules | one transaction under a key | concurrent and repeated creations, crashes | `ClassCreation` |
| Catalog (`catalog_policy.go`, `catalog_usecase.go`) | kept policy answer, tenant snapshots | the gate, the refresh | a mutex held across a call, a stale or untrusted answer | `Catalog` |
| Classes, categories, students, notes, reports, reviews | their tables | create, update, publish, delete | a row deleted between read and write; whose row it is | `ClassEndpoints`, `FamilyEndpoints`, `EnrollmentEndpoints` |
| Middleware, routes, handlers | none | none | order of checks, permissions revoked meanwhile, identity down, what a status discloses | `Access`, `Routes`, `Api` |
| Configuration, lifecycle, generated code | none | none | a stop in the middle of a request | not modelled |

Components interact through the database (row locks, unique indexes, triggers),
through calls to billing made *outside* transactions, and through billing's
notifications to the internal endpoints (`/internal/enrollments/...`), which may come
late, twice or in any order. There are no in-process queues; the only state shared inside a
process is the catalog's policy gate. All other concurrency is that of HTTP requests,
workers and replicas on one database.

## Modules

| Module | What it is |
|---|---|
| `Enrollment` | the enrollment core: checkouts, transitions, schedule changes, billing's side |
| `PrivateRequest` | private schedule requests and the enrollments they sell |
| `OrderedDelivery` | what the chat outbox promises: an abstract specification |
| `PrivateChat` | `PrivateRequest` composed with the chat outbox, its workers and the chat service |
| `Sessions` | the calendar of a class: schedules, sessions, the generation worker, edits, the attendance guard |
| `Notices` | what parents are told: attendance marks, notification triggers, session reminders |
| `NoticeOutbox` | delivery of parent notifications under leases |
| `Access` | claims, middleware, checks and the vocabulary of the endpoint modules |
| `ClassEndpoints`, `FamilyEndpoints`, `EnrollmentEndpoints` | queries, use cases and handlers of every endpoint by what they check, show, write and answer; each extends the one before |
| `Routes` | the route table: guards and handler of every route |
| `Api` | a request on its way through the service |
| `Catalog` | the public catalog: policy gate and tenant snapshots |
| `ClassCreation` | the idempotent creation of a class |
| `EnrollmentProofs`, `PrivateRequestProofs`, `PrivateChatProofs`, `SessionsProofs`, `NoticesProofs`, `NoticeOutboxProofs`, `CatalogCreationProofs` (of `Catalog` and `ClassCreation`), `ApiProofs` | theorems for every value of the constants |
| `MCEnrollment`, `MCSeats`, `MCPrivateRequest`, `MCPurchases`, `MCPrivateChat`, `MCSessions`, `MCNotices` (of `Notices` and `NoticeOutbox`), `MCService` | small instances, and the statements of comments and tests that runs refute |

### `Enrollment`

A request is a process. `Checkouts` run `EnrollPublic` (a parent) or `EnrollStudent`
(tenant staff); `Workers` run every operation that needs more than one step. The steps
of a request are its transactions and its calls to billing, because that is where other
requests can come in. A transaction that locks a schedule row is two steps, *lock and
check* and *write and commit*, with `schedLock` held between them; one that reads and
writes a single locked enrollment row is one step, because nothing it reads can change.

| State | Code |
|---|---|
| `enr` | table `enrollments`; `tx` is whether `payment_transaction_id` is set, `pay` the `payment_status` that marks a refused invoice. `completed` is not among the statuses: no code writes it |
| `sched` | table `class_schedules`; `state` folds `valid_until` (open/ended) and `deleted_at`; `class_deleted` is a row that went with its class, and so marks the class row as deleted (`ClassDeleted`); `unused` is a row not inserted yet |
| `schedLock`, `rowLock` | `SELECT ... FOR UPDATE` of a transaction that is still open |
| `invoice`, `failed`, `acked` | billing: its transaction per enrollment, failure notifications in flight, activations answered |
| `pc`, `req`, `mine`, `ans` | a checkout's progress, request, the row it read or created, its answer |
| `job` | a worker's arguments |
| `rewound`, `log` | history only: rows on which a checkout's save undid another write; what happened to an enrollment |

The checkout's actions follow the code in order: `EnrollNew`/`EnrollReplay` (look the
key up in the caller's scope), `CreateIfCapacityAvailable` and `InsertEnrollment` (one
transaction), `AnswerRace` (the second lookup after a failed creation),
`GenerateInvoice`/`RefuseInvoice`, `DropInvoiceRejected`, `SaveInvoice`. `SaveInvoice`
writes every column of the row the request read or created, since `Update` is gorm's
`Save`; that it does so after a call to billing, without a lock, is the code's one weak
spot, and the model keeps it. `CheckoutFails` and `WorkerFails` stand for an error,
a cancelled context or a crash at any point: the transaction rolls back, what was
committed stays.

Resume and assignment lock the enrollment and then the schedule; the schedule
changes lock the schedule and then, with `TransferSchedule`, the live enrollments.
Both orders are in the model, so is PostgreSQL's wait for a row that another
transaction holds. `DeleteClass` locks nothing: it looks for active enrollments, its
`UPDATE` of the schedules (`DeleteByClass`) sees the rows of its start and waits for the
transactions that hold one of them, and `DeleteByTenant` deletes them all with whatever
sits on them by then; a successor made meanwhile stays. The foreign key of `schedule_id` is modelled where it makes a
statement wait (`SaveInvoice` moving a row back to another schedule).

Billing is external. It keeps one transaction per enrollment (the client sends an
idempotency key), answers *not found*, *not cancellable* or success to a cancellation,
may refuse an invoice for good, may lose an answer, and repeats notifications.

Abstracted: money, addresses, titles, payment methods; the billing cycle is compared
together with the class; tutors, locations and times of a schedule; access checks other
than the idempotency scope and the ownership checks of the checkouts (`EnrollmentEndpoints`
has them). The sessions that the schedule operations cancel and create are in `Sessions`.

### `PrivateRequest`

A request of a parent is approved by staff, or rejected with a recommendation that the
parent accepts; both call the same `purchase`. Its first transaction locks the request
row, so it is one step: `PurchaseNew` records the selection, creates the enrollment and a
schedule per slot and approves the request; `PurchaseRestored` takes up the enrollment
that a refused invoice dropped; `PurchaseAgain` is the replay of an approved request.
The invoice (`GenerateInvoice`, `RefuseInvoice`), the drop of a refused enrollment
(`DropInvoiceRejected`), the reopening of the request (`ResetRejected`) and the saving of
the payment columns (`UpdatePaymentDetails`) are later steps, and other approvals, the
parent, billing and the enrollment's own life come between them. `PurchaseFails` ends a
purchase anywhere.

| State | Code |
|---|---|
| `req` | table `private_schedule_requests`: status and the three slot columns |
| `enr` | the enrollment with the key `private-request:<id>`; `fee` is the payment status of a refusal, `tx` whether the payment columns are set |
| `sold` | the slots of the schedules created with the enrollment |
| `class`, `refuses` | what the class row says about selling; billing's pricing policy |
| `invoice`, `failed` | billing's side |
| `pc`, `job` | the HTTP requests |
| `log` | history only: activated, ended |

A slot list is the set of its slots, since `validatePrivateSlots` refuses duplicates and
the selection keeps the request's order; the indexes and the snapshot of an approval are
the set they select, a stale snapshot is an approval that is refused. The student's other
enrollments are those of the student's other requests. The chat event recorded with each
decision belongs to `PrivateChat`.

### `PrivateChat` and `OrderedDelivery`

`PrivateChat` extends `PrivateRequest`. Each of its decisions is a step together with what
`privateChatRequests` records in the same transaction: `capture` (an event and its outbox
row, with the next version unless the request is new) or `Reopen` (the approval's event is
superseded and a version is left without an event). All other steps of `PrivateRequest`
leave the outbox alone, so every behaviour of the composition is one of `PrivateRequest`.

A worker takes a due row whose older events are resolved (`Claim`), reads the event and
asks the chat service (`Event`), waits for the answer (`Deliver`) and records the result if
the row is still being sent under its lease (`FinishDelivery`). It may stop anywhere
(`WorkerStops`); `BecomesDue` is the clock: the end of a backoff, or of a lease whether or not its
worker is still at it. The chat service is external: it reads the projection from this
service (`Projection` and `ProjectInvoice`, two reads with steps of others between them) and
posts the message once per event (`Post`), at any time after it was asked, or never.

| State | Code |
|---|---|
| `version` | `private_schedule_requests.chat_version` |
| `outbox` | `private_request_chat_events` and `private_request_chat_outbox`, one row each per version; `lease` is the worker, since a worker has one delivery at a time; `due` is `available_at <= now()` |
| `call` | the chat service: how far it is with an event |
| `wpc`, `wjob` | `RunOnce` of each replica |
| `mishaps` | bound only: workers that stopped or outlived their lease |

`OrderedDelivery` knows streams of entries that are open, announced or withdrawn. `pending`,
`sending` and `failed` rows are open, `sent` is announced, `superseded` is withdrawn.
Left out: message texts, actors, error codes, the limit of 50 deliveries per pass, and the
choice between due rows of different requests (oldest first in the code, any in the model).

### `Sessions`

One class, its weekly schedules and its sessions, day by day. A date is a day number;
months and weeks have constant lengths, so that month ends, the horizon and weekdays meet
in every way within a few days. A generation pass computes its window once (`StartPass`),
takes the due schedules in the order of their ids, one transaction each
(`GenerateSessions`, `GenerationFails`), and ends (`EndPass`). Its process may be a day behind
Asia/Jakarta (`ProcessToday`), because the worker and the SQL take the date from different
clocks. Permanent changes, deletions and the generation of a schedule lock the schedule row, so each
is one step; the edit of a single session (`ReadSession`, then `RescheduleSession` or
`ChangeTutorTemporary`), attendance, the deletion of the class and the creation of schedules
read first and write later, so each is two.

| State | Code |
|---|---|
| `sched` | `class_schedules`: weekday, validity, tutor, `gen` is `sessions_generated_until` |
| `ses` | `class_sessions`; generated rows are named by schedule and date, replacements by the edit |
| `pass` | window and cursor of each replica's pass |
| `edit`, `creating`, `doomed`, `marking` | what a request has read and will write |
| `today`, `class`, `type`, `enrolled`, `marked` | the calendar, the class row, the private enrollment, sessions with attendance |
| `edited`, `inherits` | history only: rows an edit saved; the schedules whose watermark a successor took over |

Save writes every column of the row as it was read, and gorm's upsert brings a row back that
was soft-deleted meanwhile: the properties except the rows in `edited`, because no text of the
repository promises anything about concurrent edits.

### `Notices` and `NoticeOutbox`

`Notices` starts with one regular session and follows what happens to it and to the
sessions that replace it. The triggers of the migrations are part of the statement that
fires them: a reschedule tells of the replacement, a substitute of the tutor, a mark that
becomes absent of the absence. A reminder pass locks the sessions it finds and skips those
another replica holds (`LockSessions`), runs one statement per session, whose recipients are
those of that moment (`EnqueueReminders`), and commits outbox and coverage together
(`CommitReminders`) or fails (`PassFails`). Coverage is looked up through the chain of
replaced sessions (`session_reminder_covered`), as the SQL function does. An attendance
request is accepted in one step and written in another. Two variables are history: `away`,
who was no member when a replacement was made, and `revived`, sessions that the save of an
old copy scheduled again.

`NoticeOutbox` is the delivery of one row at a time: `Claim` (which also gives up due
reminders nobody is to receive any more), `Send` with its answer or without it,
`SendFails`, `GiveUp`, the fenced `Finish`, `Crash`. Time is counted in ticks, since the
property is about durations: a mail is not sent again 23 hours after its first attempt,
the provider remembers the key for 24. The constants keep the code's order (a send times
out before its lease ends, the cut-off plus a send lies within the provider's memory).
The receivers are external. When the bounded clock stops, everything later is due.

### `Access`, the endpoint modules, `Routes` and `Api`

A check of a handler is a pair of a condition and a status; a use case is a list of
refusals and a result: rows it shows, and a write that is either under the lock of its
reads or a later step that others can overtake. `Access` has the claims of the kinds of
callers, the guards of the middleware and these forms; the endpoint modules have, for every
route, the repository queries by whose rows they return, the use case
and the handler with its error table; `Routes` has the guards of each route. `Api` runs
one request: `Arrive` (any route, caller, id and body), `Authenticate`, `Check` (one
permission, identity may be down), `EnterHandler`, `RunUseCase`, then the write of its kind
(`WriteUpdate`, `WriteSave`, `WriteDelete`, `ReadAgain`, `WriteFails`), while the role's
grants change and others delete the row.

A row is reduced to its tenant and its parent. Everything else a use case asks (a voucher
refused, a name missing, a schedule full) is a *fact* that holds or does not. A refusal is
the name of the code's error, `??` takes the first that applies, and the handler's error
table turns the name into a status. Tenants, parents, the claims that callers come with
(`Callers`), the combinations of facts a call may meet (`FactSets`) and the number of changes
meanwhile (`MaxChanges`) are constants. What a purchase or a transition does to
seats and payments is in `Enrollment` and `PrivateRequest`; here is who may reach it and
what is answered.

### `Catalog` and `ClassCreation`

`Catalog`: visitors pass the gate one at a time (`EnterGate`, `AskPolicy`, `AskPolicyFails`
under the mutex), refresh the tenant snapshot in two steps and read. Identity's policy has
a desired and an applied version, of which `ParseCatalogPolicy` trusts only some answers.
`ClassCreation`: requests with and without a key claim it, check the teachers, write and
answer; PostgreSQL makes the second insert of a key wait; the process may die and the
client may send again.

## Runs

`CHECK_DEADLOCK FALSE` stands where a state in which every request is finished and
nothing is left to deliver is a legal end.

| Run | Instance | Checks |
|---|---|---|
| `seats` | 2 checkouts, 2 workers, 2 private purchases, group schedules of 1 and 2 seats, a private one and a spare, in one of three views: 2 of 5 different checkouts (rivals, one student twice, staff's retry, a key used twice) with payments and 1 worker resuming or cancelling; 2 unpaid checkouts for the schedule of 2 seats while 2 workers resize, replace or delete it, alone or with its class; the purchases assigned to, or resuming on, the private schedule while it is changed or deleted | `EnrollmentInvariant` (with `SeatInvariant` and the type invariant), `ActivationSticks`, `OneLiveEnrollment`, `AnswersMatchRequest`, `SeatsWithinCapacity`, `NoSeatOnDeletedSchedule`, `NoSuccessForRejected` |
| `liveness` | 1 checkout, 2 workers resuming, changing, deleting the class; `FairSpec` | `RequestsFinish`, `PaidIsActivated` |
| `purchases` | 2 HTTP requests that may break off, in one of two views: 2 requests of one student for 1 slot, with recommendations, suspension, end and cancellation; or 1 request with 2 slots, limits none, 1 and 2, class updates and failed payments | `PurchaseInvariant`, `PurchaseImpliesApproval`, `OneLivePurchase`, `ActivationKept`, `SoldAsApproved` |
| `chat` | 1 request, 1 HTTP request at a time, 2 workers, 3 versions, 2 attempts, 1 mishap; `FairChatSpec` | `NoGaps`, `NoOutdatedApproval`, `ChatInvariant`, `ImplementsOrderedDelivery`, `EventsResolve` |
| `sessions` | a schedule without a watermark and a free one, months of 2 and weeks of 3 days, 3 days; passes of 2 replicas and 1 request, or of 1 replica and 2 requests; `MCSpec` | `NoMissingSession`, `NeverGeneratedTwice`, `SessionsFollowSchedule`, `SessionsHaveTutor`, `GenerationCatchesUp` |
| `notices` | one of three subjects. Attendance and reminders: a group with two siblings or a private class, 1 session and 2 replacements, 2 attendance requests or 2 replicas, 2 days, 2 requests. Delivery: 1 row by mail or chat, 2 workers, 3 attempts, 7 ticks, 2 crashes. `MCSpec` | `OneMark`, `AbsenceToldOnce`; `RemindedOnce`, `FamiliesAreTold`; `DeliveredOnce`, `ResultsHold`, `NoticesResolve` |
| `access` | one request: every route, 9 kinds of callers, 2 tenants, 2 parents, own, foreign, missing and malformed ids, every body, at most one fact, 1 change meanwhile; or 2 visitors of the catalog, 2 policies, 1 lapse; or 2 creations, 1 crash, 2 retries | `OnlyOwnRows`, `ChangesArePermitted`, `AnswersAreTrue`, `IdsHidden`, `ClosedCatalogHidden`, `OneClassPerKey`, `RequestsAnswered` |
| `overbook`, `revoked`, `stranded`, `falseapproval`, `wrongslots` | the smallest instances that show them | violated: see Findings |

`MCSeats`, `MCPurchases`, `MCNotices` and `MCService` hold several subjects in one run: a
behaviour keeps to one of them, so the state spaces add up. In `MCSessions` the second
replica works only while one request at most was made, and attendance is taken of one session
of a behaviour. In the runs of `MCEnrollment` workers perform the operations whose `Steps` the
configuration names (`InScope`). `RequestsAnswered` is about the visitors of the catalog and the creations
under a key; that a request for any other endpoint is answered is not stated.

Why the bounds are enough. A race over a seat needs two claimants and one seat; a lost
update needs the process that reads, the one that writes and one that profits from the
stale row; of the five checkouts any two meet, and one that repeats a key is answered from a
row that the other created or dropped. A capacity of 2 is what a change to 1 makes smaller
while two signups run; a second schedule is needed for a successor, and a third would only
repeat the change. For a private request, two overlapping purchases are
what a refused and an accepted approval need; a second request of the same student brings in
both unique indexes; two slots make a selection differ from its request. Events of different
requests do not meet in the outbox, so one request is enough for the chat; three versions are
a creation, an approval and its reopening, or a rejection and an acceptance; two attempts are
a retry and a last one; one mishap gives two workers the same event. An event *after* a
reopening needs a fourth version: that case is left to the theorems, which hold for any
number. In `Sessions`, three days cross a month end and a week end and
the horizon moves; one schedule is the predecessor and one the successor. In `NoticeOutbox`
rows do not interact beyond the choice of the oldest, two workers and two crashes give a
row to two workers in turn, and seven ticks outlast the cut-off and the provider's memory. In
`Notices`, two replacements make a chain, siblings share a parent, and two requests are what
an edit and a membership change, or two marks, need. In `Api`, one change is what invalidates
a check made before it, and one fact at a time reaches every refusal, because the first
decides; two tenants and two parents make a row own, of another family or of another tenant.

Fairness. A request that has begun is run by its goroutine to its end, and PostgreSQL
queues the waiters of a row lock, so a waiting step is not passed over for ever: strong
fairness of `CheckoutStep` and `WorkerStep`. Billing repeats an activation until it is
answered with success: strong fairness of `ActivateEnrollment` until it is acknowledged.
Starting a request, paying, failing and the calendar have no fairness. The chat worker polls
for ever and takes the oldest due row, so no row is passed over for ever (strong fairness of
a claim per request); its calls have timeouts (weak fairness of `DeliveryStep`), and clocks
run (`TimeStep`). The chat service and the operator who requeues have no fairness:
`EventsResolve` holds if no call is ever answered, because attempts run out. The same holds
of the notification workers: they poll (weak fairness of a claim) and finish what they began,
and no send has to succeed. Of the session generation worker one replica has to run: it
starts a pass every interval and leaves its loop, and a schedule whose transaction can succeed
again and again is generated (strong fairness, because a pass may end before it); the other
replica may stop for good. Reminder passes start, and what some replica can lock or write
again and again it does, each statement of a pass included. (The fairness of reminders and
delivery is in `MCNotices`, under the subject it belongs to.) The catalog's mutex is fair (Go's hands itself to whoever has waited for a
millisecond) and calls to identity have deadlines; the database wakes those who wait
for a key.

## Findings

* `overbook` - a cancellation that commits while the checkout waits for billing is
  undone by the checkout's save; the seat has been sold again and exists twice.
  The same save rewinds an activation that commits before it.
* `revoked` - a cancellation that asks billing before the checkout does learns that there is
  no invoice, and drops the seat; the checkout opens the invoice meanwhile, and the parent
  pays for a seat that is gone. The locked read of the cancellation looks at the status only.
* `stranded` - the deletion of a class looks for active enrollments and deletes the schedules
  later; a pending enrollment is activated in between, and its schedule is deleted.
* `falseapproval` - a refused approval cannot be reopened while the student has another
  pending request: the unique index refuses it, and the request stays approved with a
  refused enrollment that no further approval takes up.
* `wrongslots` - after a refused approval, a rejection with other slots and its acceptance,
  the restored enrollment still has the schedules of the first selection.

The passing properties say what holds otherwise: `rewound` names exactly the rows on
which such a save happened, and everything is proved of all other rows.

Met while modelling, kept in the models as the code has it, and not stated as properties
because no text of the repository decides what is wanted:

* `DeleteCategory` counts the classes and then deletes without a lock; a class created in
  between stays in a deleted category. Beside what `stranded` shows, `DeleteClass` is not
  held back by pending enrollments and concurrent signups: they stay on deleted schedules.
* Students, reports and sessions are written with `Save`: an update that overlaps a deletion
  brings the row back. `AnswersAreTrue` allows this for these routes and for no other.
* Two catalog requests may write tenant snapshots in the opposite order of identity's answers
  (`catalog_usecase.go:75-92`).
* A session that is already rescheduled can be rescheduled again; a replacement of a
  replacement has no attendance cohort although its notifications find one; after a
  permanent change neither has the first replacement.
* The older attendance form accepts a cancelled session, and attendance accepted before a
  cancellation is written after it.
* A child that is suspended while its reminded session is moved, and resumed later, is told of
  neither (the exception in `FamiliesAreTold`).
* The `@x-permission` of the payment link names only `enrollment:update`, though the route
  also asks `chat:manage`; that of `GET /classes/:id/schedules` leaves out `schedule:read`.
  The body's id wins over the path's in the reschedule and permanent-change handlers.

## Theorems

`EnrollmentProofs` proves, from the assumption `EnrollmentConstants` (the identifier
sets are disjoint and do not contain `Null`, the maps have their types, enrollments are
finitely many, capacities are positive, at most one private purchase per student and class):

* `TypeCorrect`: `Spec => []TypeOK`.
* `SeatInvariantHolds`: `Spec => []SeatInvariant`.
* `SeatsNeverExceed`: `Spec => []SeatsWithinCapacity`.
* `DeletedSchedulesStayEmpty`: `Spec => []NoSeatOnDeletedSchedule`.
* `EnrollmentInvariantHolds`: `Spec => []EnrollmentInvariant`, and from it
* `OneEnrollmentPerClass`, `ActivationsStick`, `SuccessesMatch`:
  `[]OneLiveEnrollment`, `[]ActivationSticks`, `[]AnswersMatchRequest`.
* `RefusedNeverSucceeds`: `Spec => NoSuccessForRejected`, about steps.

`SeatsWithinCapacity` is not inductive: an insert may follow a check made long before.
`SeatInvariant` adds what makes it so. `CheckoutLocals` and `WorkerLocals` say what a
process knows at each step (the row it holds locked is still suspended, or still pending
without a schedule). `NoUseOfUnused` says that no row, and no copy a checkout will save,
refers to a schedule that does not exist yet, so a successor starts empty.
`CheckedUnderLock` is the core: whoever is between its check and its write holds the
schedule's lock, and what it checked (a free seat, a capacity not below the seats, no
seats at all) still holds. The induction classifies every step by its effect on the
seats of a schedule: `Quiet` (none added), one added by the holder of the lock, or a whole
schedule moved to a fresh one; `OthersChecked` then shows that no step spoils what the
others have checked.

`EnrollmentInvariant` adds to it the properties that are inductive together with
`SeatInvariant` (`OneLiveEnrollment`, because every write that makes a row live is guarded by
the unique index) and two more facts. `CheckoutAnswers`: the row a checkout carries has the
student, class and key it asked for and those of the stored row, which no statement changes;
so what it saves or answers is its own order, however stale the rest. `PaymentsWithdrawn`: a
cancellation that found an invoice goes on only with the invoice cancelled, which is final.
(That no cancelled seat is paid for does not follow, see `revoked`.)

`NoSeatOnDeletedSchedule` distinguishes the two deletions. `DeleteSchedule` counts the seats
under the schedule lock that every signup, resume, assignment and change takes too, so a
schedule that goes alone is empty and stays so. `DeleteClass` takes none, so a live seat may be
left, and `log` marks it as `stranded` in the step that deletes its schedule; the theorem says
that there is no other, that is, that nobody gets onto a deleted schedule later.

`PrivateRequestProofs` proves from `PrivateRequestConstants`:

* `PurchaseInvariantHolds`: `Spec => []PurchaseInvariant`, and from it
* `PurchaseIsApproved`, `SelectionIsSold`, `PurchasesAreExclusive`, `ActivationIsKept`:
  `[]PurchaseImpliesApproval`, `[]SoldAsApproved`, `[]OneLivePurchase`, `[]ActivationKept`.

The strengthening is `JobsNamed` (a running HTTP request works on an existing request) and
`Sales` (a request is sold at most once and keeps its slots and the selection recorded then,
whatever statuses it goes through). Every action writes the rows of one request only, so
the proof shows what it does to that request (`OneRow`) and one lemma lifts this to all.
`PurchaseIsApproved` also shows that the branch of `purchase` that takes up a *pending*
enrollment of an open request is never taken.

`PrivateChatProofs` proves from `PrivateChatConstants` (the bounds are naturals, there is at
least one attempt, `Null` is not a worker):

* `ChatAddsNothing`: `ChatSpec => Spec`, so that `PurchaseInvariant` holds in the composition.
* `ChatInvariantHolds`: `ChatSpec => []ChatInvariant`, and from it `PostedWithoutGaps`
  (`[]NoGaps`) and `ApprovalsAreCurrent` (`[]NoOutdatedApproval`).
* `OutboxDeliversInOrder`: `ChatSpec => ImplementsOrderedDelivery`.

`NoGaps` is not inductive, because the chat service may post long after a worker lost its
lease. `InTurn` says that whatever was claimed, asked for or posted, and whatever a worker
still holds, has no unresolved older event; `Versioned` that no event is newer than its
request's version, so what is captured later cannot come before it; `SentIsPosted` ties
`sent` to the chat service. Each step has one of five shapes (`QuietStep`, `CaptureStep`,
`ReopenStep`, `RewriteStep`, `CallStep`), and the lemma of a shape proves all conjuncts once.
For the refinement, `PutAbstract` turns a write of a row into a change of the abstract entry;
`InTurn` gives the order of announcements and `Versioned` that only the newest is withdrawn.

`SessionsProofs` proves from `SessionConstants` (months, weeks, the horizon and the calendar
have positive lengths; identifiers are disjoint; the initial schedules, offers and changes
have their types):

* `SessionsInvariantHolds`: `Spec => []SessionsInvariant`, and from it
* `NoSessionMissing`, `GeneratedOnce`, `SchedulesFollowed`, `TutorsFollowed`:
  `[]NoMissingSession`, `[]NeverGeneratedTwice`, `[]SessionsFollowSchedule`,
  `[]SessionsHaveTutor`.

None of the four is inductive. A later pass could generate again what a predecessor had,
were it not for `Lineage` (a successor starts after its predecessor's end, and what the
predecessor generated from there on lies below the watermark it inherited) and `WithinRange`
(nothing is generated outside a schedule's start and watermark). An edit writes back a row
it read long ago; `EditsPlaced` says that it still is where its name says (`Placed`), so it
can bring back stale columns, which the properties except, but no session of another
schedule or date. A step is reduced to what it does to the schedules (`Advances`: starts,
ends and watermarks move in one direction, or a successor takes a range over; `Continues`:
what a live schedule generates up to its watermark is there), to the rows (`Settled`: a row
stays where it is or is put where it belongs; `Obeys` or `Stays`: what is still to be held
suits its schedule, or neither has changed) and to the copies (`Copies`); `SoundStep` shows
once that such a step keeps the invariant. The calendar lemmas (`Months`,
`MonthsOrdered`, `Horizon`) hold for any length of months; the lemmas on bulk statements
(`Inserted`, `Cancelled`, `TutorUpdated`) say what an `UPDATE` or `INSERT` over many rows
leaves in each.

`NoticesProofs` proves from `NoticeConstants`:

* `NoticesInvariantHolds`: `Spec => []NoticesInvariant`, and from it `MarksAreUnique`
  (`[]OneMark`) and `AbsencesToldOnce` (`Spec => AbsenceToldOnce`, about steps),
* `RemindersInvariantHolds`: `Spec => []RemindersInvariant`, and from it
  `FamiliesRemindedOnce` (`[]RemindedOnce`).

`RowsNamed` says that an attendance row is known by its session and enrollment (the unique
index) and was inserted by one request, which ended with it; `EventsNamed` that a notice of an
absence carries the request that wrote the mark. A request writes once, so the names of its
notices are new and none is swallowed (`AbsencesAreNew`).

`RemindedOnce` relates reminders sent in different passes, between which sessions are moved.
It is not inductive: two replicas could have reminders of a session and of its replacement on
the way at once, or a session could be moved under a pass that reminds of it. So
`RemindersFollowChain` speaks of the reminders in open transactions too (`Reminded`);
`PassesHoldSessions` says that a pass keeps what it reminds of locked and scheduled, so no move
can come in between; `ReplacedSessions` that what was replaced is not scheduled, unless a stale
save revived it, so no pass finds a session and its replacement both; and `EditsCarryOrigins`
that a stale edit writes back the origin that is stored, so the chain of a session never changes. With these, a
statement reminds of a session only if nothing in its chain was reminded of, and none of the
sessions that replace it can have been (`PassMoves`, `EnqueueKeeps`, `MoveKeeps`). The chain
of the SQL function is defined as the least set closed under replacement, which the provers
can use without induction. The theorem is about students: a sibling who joins after a reminder
makes the parent hear of the replacement too.

`NoticeOutboxProofs` proves from `OutboxConstants` (a send times out before its lease ends,
and `Cutoff + Timeout <= Memory`):

* `OutboxInvariantHolds`: `DeliverySpec => []OutboxInvariant`, and from it
* `NoticesDeliveredOnce`: `[]DeliveredOnce`; `RecordedResultsHold`: `DeliverySpec => ResultsHold`.

`TakenOnce` says that the provider took a row's key no earlier than the row's first attempt
and delivered it once; `CopiesOfRows` that the row a worker carries, however old, has that
same first attempt. A worker sends only before the cut-off, and a send ends within its
timeout, so whatever it sends reaches a provider that still remembers the key.

`CatalogCreationProofs` proves, from no assumption, `CatalogInvariantHolds` and
`CatalogStaysHidden`: `[]ClosedCatalogHidden`. A class is shown long after the gate asked
identity; `GateSawOpen` carries what the gate learnt to that step. It is inductive because an
open policy is noted by all requests under way when it comes into force, and because only a
closed answer is served again. And it proves, from no assumption either,
`CreationInvariantHolds` and `KeyCreatesOneClass`: `[]OneClassPerKey`. `ClaimHasClass` says
that the keyed classes are exactly the class of the committed claim; `ClaimHeld` that a keyed
request inside its transaction holds the claim uncommitted, so that a second one cannot
write, and that an uncommitted claim always belongs to such a request, so that neither a
failure nor a crash leaves the key taken; `PromisesKept` that the class of an answer is
committed.

`ApiProofs` proves from `AccessConstants` (what names nothing is no tenant; `parent` and
`pinned` of a claim are Booleans) and `ApiConstants` (`MaxChanges` is a natural, facts are
those of `Facts`), for any tenants, parents and claims and any combination of facts:

* `InvariantHolds`: `ApiSpec => []ApiInvariant`, and from it
* `OnlyOwnRowsShown`, `ChangesPermitted`, `AnswersTrue`, `IdsAreHidden`: `[]OnlyOwnRows`,
  `[]ChangesArePermitted`, `[]AnswersAreTrue`, `[]IdsHidden`.

`ApiSpec` is the request alone; in the run it is the subject `endpoint`. An answer is the end
of a chain of checks by middleware, handler and use case, and the invariant says at each stage
what has been established. `GuardsPassed`: the token is of the route's kind, and each guard of
the route was passed with a permission held since the request arrived, or is still to come.
`HandlerAdmits`: the handler keeps out those whom a missing or lenient guard lets in (staff on
the parents' routes, a token without a usable tenant on those of attendance and reports) and
asks for the permission of each part of an aggregate. `WritesOwn`: a write that others can
overtake is to a row of the caller, and fails on a row that is gone unless the route deletes it
or saves it anyway.

The argument has four parts. (1) The table of guards is gone through once (`RouteGuards`): the
guard of a route asks for what its handler documents. So whoever reaches the handler of a route
that writes is a parent it is open to, or staff holding the documented permission
(`Entitled`). (2) One lemma per use case says what it does when it does not refuse, and to
which row; one per handler what its status and write can be (`EveryEndpoint`): it refuses with
an error status, it shows rows of the caller, it writes a row of the caller under a lock, or it
leaves such a write pending. That a query returns rows of the caller only is proved from the
query's own conditions. (3) From (1) and (2) each step keeps the invariant. (4) `Concealed`:
on a route of `Hiding`, everything asked before the row is looked up does not depend on the
row, and a row outside the caller's query is refused as a missing one is, so both get one
status whatever the facts are. It is no conjunct of the invariant: it follows from where the
request has come.

TLC has checked each of these invariants before it was proved: on the instance of its run
(`RemindersInvariant` with attendance and reminders in one behaviour),
those of `Catalog` and `ClassCreation` with three visitors and three creations, and
`ApiInvariant` with 144 claims (every combination of token, `parent`, user, tenant and
`pinned`).

### Only model-checked

* The properties that need fairness are out of the prover's reach: `RequestsFinish`,
  `PaidIsActivated`, `EventsResolve`, `GenerationCatchesUp`, `NoticesResolve`,
  `FamiliesAreTold`, `RequestsAnswered`.
* The five violated statements of the findings.

## Not modelled

* Start-up, health, readiness and draining (`cmd/server/main.go`, `lifecycle.go`,
  `health.go`, `readiness.go`): wiring and I/O. What a stop leaves behind is the failure or
  crash step of every modelled request, pass and worker.
* Configuration, the database connection and the migrations as programs; the indexes, foreign
  keys and triggers the migrations create are part of the models that rely on them.
* Token parsing and validation, JSON binding, request validation field by field: a body
  binds or does not, an id parses or does not, and a rule of a field is a fact.
* Generated code (`docs/docs.go`, `pkg/proto`), transports and their headers, message texts,
  money, names, search, filters, sorting and paging.

## Plan

All safety properties that a passing run checks are proved for every value of the constants.
What is left:

1. The hazards that have no property: they are behaviours no text of the repository decides,
   listed with their reason in `PROJECT.json`. A property for one of them can be stated when
   the intended behaviour is.
2. When a route is added, its row in `Routes`, its use case and handler in the endpoint
   modules, and one lemma of each kind in `ApiProofs`: the theorems hold again when
   `RouteGuards`, `EveryEndpoint` and, if it hides ids, `Concealed` do.
