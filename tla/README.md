# EduAI back end: a TLA+ model

The back end is one NestJS process (it may run in several replicas) over
PostgreSQL. Redis holds leases and sign-in flows, Google Cloud Storage holds
files, PayOS and VNPay take payments. Almost everything that can go wrong
happens *between* transactions: a handler reads, asks a provider or another
service, and comes back to write, while webhooks, schedulers, operators and a
second browser tab do the same. That is what the modules model. An action is a
transaction, or the part of a handler up to the point where it lets go of what
it holds; what a handler read earlier and uses later is part of its state.

## Components

| Part of the code (`src/src/modules/`) | State it keeps | Module |
|---|---|---|
| `payments/`: payment request, verified webhook, cancellation, expiry, fulfillment, reconciliation | orders, attempts, provider links, collections, settlements, review cases, reservations, fulfillment | `PaymentLifecycle` |
| what an order promises its buyer | window, decision, benefit | `OrderSettlement` (abstract) |
| `payments/`: notices, the VNPay IPN, queries, the settlement of a collection | events, settlements, mismatches, answers to the provider | `PaymentEvidence` |
| `payments/payment-reconciliation*`: runs over all attempts | lease, page, cursor, what a run looked at, cases | `PaymentSweeps` |
| `payments/payment-refund*` | refunds and their lines, revocations, cases of late money | `PaymentRefunds` |
| `payments/bank-transfer*` | requests, statements, approvals, settlements | `BankTransfer` |
| `payments/bank-transfer-receipt*`, `bank-receipt-access` | receipt images, leases, retention, provisional access | `BankReceipts` |
| `vouchers/` with checkout and the payment services | voucher, reservations, redemptions | `VoucherQuota` |
| `commerce/`, the selling side of `courses/` | courses, products, cart, orders by key | `CourseSales` |
| `wallet/`: journal, checkout, withdrawals; `revenue-sharing/` | balances, holds, entries, earnings, debts | `GdsWallet` |
| `wallet/`: PayOS top-ups | intents, links, inbox, workers, cancellation | `GdsTopup` |
| `memberships/`: checkout, terms, grants, quotas | members' orders, terms, grants, grace, quota periods, receipts | `Memberships` |
| `memberships/` administration with `revenue-sharing/` policies | versions of a plan, policies, participation of sellers | `MembershipCatalog` |
| `courses/` completion, `certificates/`, progress | enrollment, items done, certificate, requests in flight | `CourseCompletion` |
| `quizzes/`, `assignments/`, lesson progress | papers, attempts, hand-ins, grades, audit | `Coursework` |
| `tmi/`, `scholarships/` | points, redemptions, grants, awards | `Benefits` |
| `auth/` with OAuth and Firebase, `admin/` users | users, identities, flows, sessions | `Accounts` |
| `notifications/`, the outbox of `payments/` | rows, emails in work, live stream of one replica | `Notifications` |
| `lessons/` media, `profile/` images, course thumbnails | rows that name objects, the bucket, requests in flight | `Media` |
| `classrooms/` | sessions, attendance, requests in flight | `Classrooms` |
| `jobs/` | jobs, audit, saved jobs, applications with their history | `Jobs` |
| `community/`, `moderation/`, `library/` | posts, comments, resources, categories, audit | `Community` |
| `scripts/run-production-migrations.cjs` | ledger, database, stages of a release | `Deployment` |

How they interact: a checkout (`CourseSales`) creates an order and reserves a
voucher (`VoucherQuota`); a payment of some kind confirms it
(`PaymentLifecycle`, `BankTransfer`, `GdsWallet`) and fulfillment delivers the
benefit; delivered courses start an enrollment (`CourseCompletion`), whose items
are those of `Coursework`. A paid membership opens a term (`Memberships`) of the
version its plan sells (`MembershipCatalog`). What a provider tells of a
collection (`PaymentEvidence`) is one transaction of `PaymentLifecycle`, looked at
closely; the same holds of a sweep (`PaymentSweeps`) and its recoveries. A
delivery or a failure leaves a notification in the outbox (`Notifications`), and a
refund takes benefits back (`PaymentRefunds`, `Memberships`). Paid orders earn revenue shares that reach the wallet
(`GdsWallet`). The variables a module shares with another part are kept to what
the code reads there, and the steps of the other part are actions of the module
(a bank confirmation in `VoucherQuota`, a provider request in `GdsWallet`).

Every module starts with the state it models and maps it to the tables. A
definition stands for the lines `PROJECT.json` maps it to.

## What is checked

A host module puts components that share nothing side by side: `focus` chooses
one of them, the others rest in an initial state, so the states add up instead
of multiplying.

| Run | Modules | Question |
|---|---|---|
| `lifecycle` | PaymentLifecycle, OrderSettlement; Notifications; Jobs | One order, two attempts, two handlers of any kind, two collections: is every decision final, booked once and true to the evidence, and does the model implement the order promise (`KeepsPromise`, a refinement)? By itself: is a user told once of an event, by row, email and stream (`NotificationsKept`)? And do audit and history explain the status of jobs and applications (`JobsConsistent`)? |
| `progress` | PaymentLifecycle | One attempt, two collections, one crash, under fairness: does the window close, is a lost webhook found, a lost handoff repeated, or does the case wait for a person where a link was paid twice? |
| `live` | GdsWallet, GdsTopup | Do earnings reach the wallet, is every transfer answered? |
| `money_in` | BankTransfer, BankReceipts; GdsTopup | Two operators, two statements, two images: who may confirm what, and when does provisional access end? Is a top-up credited exactly for a full payment in time? |
| `gds` | GdsWallet; Memberships; MembershipCatalog | Is money conserved? Do terms, quotas and grants agree through receipts, payments and refunds? Does a plan sell only what its sellers permit? |
| `commerce` | CourseSales; Benefits; VoucherQuota; PaymentRefunds | Carts, two checkouts and catalog edits; points and awards while the policies change; three orders, a claim and an administrator at one voucher; two settlements and three refunds of one order. |
| `learning` | CourseCompletion; Accounts | Two tabs finish a course while it is edited; two sign-ins race with registrations and administrators. |
| `platform` | Deployment; Community; Coursework; Media; Classrooms; PaymentEvidence; PaymentSweeps | A release, moderated content, the library, quizzes, assignments and progress, images and lesson media, live sessions, two requests in flight each; two collections told of by notices and queries; two operators sweep while webhooks and the expiry go on. |
| `voucher_bank` | VoucherQuota | *Violation*: with bank transfers a voucher that is used up is accepted again. |
| `learning_counts` | CourseCompletion | *Violation*: an evaluation that reads while the course is edited completes an enrollment that never had everything done. |
| `firebase` | Accounts | *Violation*: two provider uids sign in to one account that has none yet, and the first has a session of an account linked to the second. |
| `upgrade` | Memberships | *Violation*: a paid upgrade is not activated. |

The properties of a component are conjunctions of named parts (`OrdersSettled`,
`BooksBalance`, `CatalogConsistent`, ...), so one invariant of a run is the whole
of what its component promises; the parts, with their comments, are at the end of
each module.

### Bounds

Two of a kind are enough for a race between two requests, and the hazards of this
code are races of two. `MaxAttempts = 2` gives an order a second payment attempt,
and `MaxCollections = 2` a duplicate or a second payment. In `progress` the process
may also crash once, anywhere (`MaxCrashes = 1`); `lifecycle` has no crash
(`MaxCrashes = 0`): what safety has to fear of one is a handler that stays between
two steps for ever, which it may. `progress` has one attempt; two handlers work at
it until it is paid a second time, and one at a time from then on
(`OneAtPaidTwice`). `MaxTries`, `MaxEdits`, `MaxCatalogEdits`, `AdminEdits`,
`MaxOrders`, `MaxGenerations`, `ReceiptLimit`, `MaxModerations`, `MaxVersions`,
`MaxByHand`, `MaxReports`, `MaxTraffic`, `MaxReplay` and `MaxFailures` cap counters
that the code does not cap, or caps higher; each is a conjunct of one guard.
`MaxJobRecords` caps the audit of a job and the history of an application,
`MaxClock` the clock of the live sessions; the schedule's `Slots` are two, so an
edit can turn them round. In `platform` a save gives one kind of media, and nothing
more is asked of a key once two requests have named it. `Horizon = 2` months see a
term of one month end and its grace begin. In `commerce` what an edit writes is
draft or active, since no other status gives more than draft does, and the third
refund request closes no case. In `gds`, `MaxVersions = 3` is a version made by
hand, the one of a policy and the one that is rebuilt when a course of it is
moderated or its seller leaves; at most one course is not for sale (`OneMissing`).
`MaxTime = 2` in `PaymentSweeps` lets a lease (`RunTime + Slack = 2`) run out under
a run, and a page of one attempt (`Limit = 1`) makes a sweep of two pages. VNPay's
amounts are hundredths, so `Raw` has one that is no whole amount. In `learning` the
course starts with its lesson and assignment published and its quiz required; a
quiz's limit is one of two, or none. At most two Firebase logins are under way at
once (`FewSessions`), with one uid in `learning` and two in `firebase`. In `gds`
there is either one earning, with an order and either a top-up or a second request,
or two earnings with a refund; in `money_in` the second order only waits with its
receipt, and there is a second statement or a second image. In `live` the wallet has
no orders and no withdrawals. Symmetry is used where the members of a set are alike
and only safety (invariants, step properties) is checked.

### Fairness

A handler that has begun goes on (`WF` of its next step): Node does not abandon
a promise, and a crash is an action of its own. The expiry and the inbox
schedulers keep selecting what is due (`SF`, because other work may disable the
selection for a while). Reconciliation is run by operators
(`POST /admin/commerce/reconciliation/runs`); fairness assumes that they keep
running it, and that a provider which is asked again and again answers at some
time (`SF` of the answer). In
`live` the workers of the journal and of the inbox go on, and providers repeat a
notice until it is acknowledged. Nothing is assumed of buyers, learners or providers otherwise.

## What is proved

Every theorem holds for every value of the constants that satisfies the named
`ASSUME`s, which TLC evaluates in the runs. Each inductive invariant was checked by
TLC on the instance of its run before it was proved.

| Module | Theorems | Say |
|---|---|---|
| `PaymentLifecycleProofs` | `PaymentTypeOK`, `PaymentInvariant`, `PaidOnceHolds`, `DeliveredOnceHolds`, `ClosedFirstHolds` | an order is confirmed by one collection that its provider did take, whose attempt stays paid, delivered once, and never closed with a payable PayOS link left |
| | `GuardedMovesHolds`, `FulfilledForeverHolds` | what no step does: decide an order twice, rewrite a settlement, take a delivery back |
| | `KeepsPromiseHolds` | the payment code implements `OrderSettlement` |
| `MoneyInProofs` | `ReceiptsInvariant`, `OrdersSettledHolds`, `ReceiptsConsistentHolds` | request, attempt, reservation, settlement and proof of a bank order agree; provisional access is the latest unverified generation |
| | `MoneyInStepsHolds` | who vouches for money is active when it is committed; delivery, and nothing else after the confirmation, ends provisional access |
| | `TopupsSoundHolds`, `CreditSoundHolds`, `CancelledUnpaidHolds` | a credit stands for a full payment in time; a cancelled top-up has none |
| `CommerceProofs` | `PromisesKept`, `VoucherConsistentHolds` | no voucher promises more uses than the highest limits it had, and no more have the discount but by bank transfer; reservations, redemptions and the counter follow the orders |
| | `SalesConsistentHolds`, `DoneAsShownHolds` | a price is whole whoever edits it; a key makes one order, of the lines taken from the cart; a withdrawal is of the course that was shown |
| | `RefundsConsistentHolds` | no more is paid back than came in or than a line cost; who has a line's whole price back has no access by it |
| | `BenefitsConsistentHolds` | points are not spent twice and come back once, as paid; grants and quota counters follow what was given |
| `PaymentReconciliationProofs` | `EvidenceInvariant`, `EvidenceSoundHolds` | what ends a provider's retries is booked as it was collected; a conflict is real; one collection confirms an order |
| | `SweepInvariant`, `SweepsSoundHolds` | two runs never ask the provider at once, and a sweep that ended left nothing out |
| `CourseCompletionProofs` | `LearningConsistentHolds`, `AttemptsLimited`, `CertificateFollows`, `LastItemCountsHolds` | no more attempts than the highest limit; an enrollment and its certificate are decided together; requests that finish a course together complete it |
| | `ClassroomsConsistentHolds` | a live session begins before it ends, and the time counted is the time attended, of all that only one request at a time was about |
| | `CourseworkConsistentHolds`, `NothingTakenBackHolds` | an attempt scores no more than its paper is worth, a version is handed in once, a grade is the one audited last; nothing deleted is shown again, no best grade is lost |
| `GdsProofs` | `OneInstrumentHolds` | an order is held by the wallet or offered to a provider, never both |
| | `BooksBalanceHolds`, `ClaimAfterRefundsHolds` | the journal, the holds, the withdrawals and the balance agree; no transfer starts before the refunds are taken back and the debt is repaid |
| | `MembershipsConsistentHolds` | the terms of a learner's memberships, what their use is counted against and their capabilities agree |
| | `CatalogConsistentHolds` | the version that is sold holds what the active policy selected, and a policy in force is the only one |
| `PlatformProofs` | `DeployInvariant`, `ReleaseSafeHolds`, `AppliesWhatWasAdmittedHolds` | the release serves only over a database that is ready for it; prisma applies only what a preflight reviewed |
| | `AccountsConsistentHolds` | an administrator remains; a social flow opens one session, of the account its identity created, never of one that merely has its email |
| | `NotificationsKeptHolds` | an outbox entry is closed only when its buyer is told; one sender per email; no gap in a stream that caught up |
| | `CommunityConsistentHolds`, `RemovedStaysRemovedHolds` | the status of an item is the one its last audit record names; what is removed is never shown again |
| | `JobsConsistentHolds` | the audit of a job ends with its status, and the history of an application explains its own |
| | `MediaKeptHolds` | an image that a row shows is in the bucket and that row's alone; a lesson lacks a file only if two requests named its key |

*Payments.* None of the properties is inductive, because a handler writes in a
later transaction what it read in an earlier one. `IInv` of
`PaymentLifecycleProofs` adds two things: what a handler still knows when it comes
back (an attempt it still asks the provider for is only created, a PayOS link it
closed is closed, a collection it carries was taken, and from the delivery on it is the
one that confirmed the order), and that of an order's attempts at most one is alive.
The code that completes a payment request writes `pending` without looking again;
it is the row's trigger (`commerce_guard_payment_attempt_update`) that refuses it when
the attempt has been decided meanwhile, and the model has that guard (`Completable`).
So the payment of a confirmed order stays paid (`ConfirmedByPaid`), and who delivers it
or writes down a failure always finds the payment canonical (`HandoffsCanonical`).
Every action has a lemma that keeps these; the properties follow. The
refinement maps the window, the decision and the benefit of each order to
`OrderSettlement` and shows of each action which abstract step it is, or that it
stutters; it uses `IInv` for the steps that confirm and deliver.

*Bank transfers.* `ReceiptsIInv` has a part for each group of variables. The ledger:
a request that is paid belongs to a confirmed order and stays so, an order that can
still be decided has its reservation, and since only a request under review is
approved, what was settled keeps its approvals. The images: a code
belongs to one claim, and an image whose retention is over is read by nobody, which
is why a removed file is never written again. The access: of a delivered order the
latest generation is verified. `EveryStep` joins them, with what the second action
property needs.

*Vouchers.* A use is promised by comparing with the row's own limits, and the
property speaks of the highest there were. `QuotaIInv` adds that the row's limits
are not above the highest; counting lemmas about finite sets carry the comparison
from the reservation to the redemption (`UsesCounted`). What a gateway settles after
the reservation lapsed (`late`) is outside the promise, as it is in the code, and so are
the uses of orders that a bank transfer paid, which leave no redemption. The wallet
pays no order with a voucher: it leaves the reservation as it is, and the deferred
trigger `commerce_orders_require_lifecycle` refuses the commit.

*Sales.* `SalesIInv` says that an instructor's update in flight names a course and what
the request gave, and that the administrator's form is as it was loaded while its
course is at that version. The price pair is decided again on the row the update
writes, not on the one it read, and a key is compared with every order in the
transaction that makes the next one.

*Evidence.* `EvidenceSound` speaks of answers and mismatches, which are given long
after what they rest on was read. `EvidenceIInv` says that the books follow what was
collected (an event, and a settlement, only of a good collection of the price), that
what a handler is about to answer fits the books, and that an order is paid exactly
by a matched settlement. No collection, settlement or delivery ever goes away
(`Grows`), which keeps an answer true and a conflict real; that a query flags only
what is really wrong rests on counting two different collections of one attempt.
`EvidenceAssumption` asks of the constants only that names differ, that the
collections are finite and that the price is positive.

*Sweeps.* Mutual exclusion of runs rests on time: `TakeTurns` says that a run
that may still ask holds the lease strictly beyond its deadline. This needs the
slack of the lease (5 s in the code) to be positive. Completeness of a sweep is
`SweepsCover`: of the attempts that are eligible all through it, those up to the
last one of the run have been looked at, and what a page leaves out comes behind it.
That nothing paid is taken back needs the converse of booking: what is paid, or was
paid when a page was read, was booked.

*Completion.* `AttemptsWithinLimit` is not inductive: a request that holds the
quiz's row lock is about to write. `IInv` adds what each step of a request knows
(which locks it holds, that the limit it compares is the one now in force), and
that an enrollment under evaluation is still as its lock found it. For
`LastItemCounts` a second invariant, `Counted`, says that whoever holds the
enrollment's lock has counted exactly what is required and done, kind by kind, since
only the holder of that lock writes what is done; the commit that finishes the
course therefore finds as much as it needs.

*Top-ups.* `CreditSound` needs the whole chain from the transfer to the credit:
what an event in the inbox says, what a worker has asked, and what a cancelling
request may still write.

*Wallet.* The books are sums over the constant sets of orders, top-ups, withdrawals and
periods of what each contributes in its state, so a step changes one term of one or two
sums (`SetFacts!TotalChange`). A step that posts to the journal moves the balance by as
much; income first repays the debt, which leaves `available - debt` the sum of the two.
`syncOwner` climbs the owner's periods: after each one, what the wallet gained is what
the projections gained, and every period passed is settled (`SetFacts!Climbed`: what
holds before the first step of a recursive function and is kept by each holds after the
last). `BooksIInv` adds that no more than the seller's part of a period is refunded.

*Memberships.* A term is written after it was compared with the others, and a use
after it was compared with its pool. `MemberIInv` says what makes this enough: the
early pool of an order without a receipt is empty, an order has a paid term only
once it is paid, and the running term is the unique current one.

*Catalogue.* `CatalogIInv` says that the version of the active policy is the last
there is, because nobody else makes versions while a policy is in force; so it is
the greatest published one, which a checkout takes. That a finite set of numbers has
a greatest element (`SetFacts!Greatest`) is proved by the well-foundedness of strict
inclusion among the subsets of a finite set.

*Deployment.* What has been applied stays applied, so after the second preflight
what is left to apply only shrinks: `DeployIInv` says, stage by stage, what the
marker, the usable database and the reviewed list are. A prisma process that outlives
its deployment was started for at least what is still unapplied, so it applies
nothing that a preflight did not see.

*Accounts.* `AccountsIInv` says that an identity owns an account when a flow of it
that has ended created the account. Nobody rewrites who created an account, and an
ended flow stays ended, so ownership lasts; what an identity is linked to, what a
callback resolved and what a session was opened for are all owned. A ticket is
consumed before its flow ends, which is why a flow opens one session. Between the
reads of a sign-in and its write others may link, complete or suspend the account: the
steps are apart, and nothing is claimed that would need them together.

*Notifications.* `NotifyIInv` says that only a call that also wants the email makes
the row of a purchase, that a delivery is started after the row, and that a
connection is among the subscribers before it reads what it missed. Rows are counted,
so that the time of the next one is within the type.

*Community.* `CommunityIInv` says what each request under way carries from its reads to
its write: a moderator's the status the item had and the one it is to get, an upload
the category it was checked for, a record whose file is stored. An item that is there
has the category or the post of its kind. The status and its audit record commit
together, so the last record names the status although its moderator may have read an
older one.

*Jobs, media and classrooms.* What a request read is carried to its write, and may be old
by then. `JobsIInv` says what cannot have changed meanwhile: a job that was published
has a record of it, and a status that an application had is in its history.
`MediaIInv` keeps three things apart: the key of an upload under way, the keys the
rows name and the keys about to be deleted, except those that two requests
named. `ClassroomsIInv` ends where the code's own protection does: of a row that two
requests changed at once (`crossed`) it says nothing.

*Coursework.* What a paper is worth and what answers earn are sums over the questions
asked; `SetFacts!SumAtMost` compares them. That the number drawn for a version stays
free needs that one call at a time holds the assignment's row. Under "highest" somebody
with a grade has a best one because the grades given are bounded, and a version has one
submission, so a grade that is rewritten is not also kept. What a report of a video read
may be old, but the reports that explain it are among those there are by now.

*Refunds and benefits.* What is back of a line, or out of a settlement, is a sum over all
refund requests of what each gives back in its state, so `record` raises two sums by what
it allots and every other step leaves them. The access of a line ends at the record that
exhausts it because what came out of the confirming payment is never more than what came
out of all (`SetFacts!SumAtMost`); the part paid back before delivery is the exception the
property names. `BenefitIInv` says which entries of the ledger a redemption has: one of
its price, and once it is revoked one that gives that price back; so an idempotency key
finds them, and the zero of `summarizeWallet` is not needed. A grant is of one redemption
or award, and the edit that writes a row it read long ago leaves the counter alone.

Model-checked only: liveness (`progress`, `live`), since the prover does not reason
about `ENABLED`. Every invariant and action property of the passing runs is the
statement of a theorem, unless it is one of these two runs'.
`SetFacts` has what the proofs share: a finite, non-empty set of numbers has a greatest,
and what `SumFunctionOnSet` of the community modules gives when an element is taken out,
added or changed. Induction over the set is by the well-foundedness of strict inclusion
among its subsets, since the library's induction theorems take an operator.

## Findings

* `voucher_bank`: an approved bank transfer consumes the reservation of a voucher
  and writes no redemption (`bank-transfer.service.ts:235`); the quota forgets it.
* `learning_counts`: completion counts what is required and what is done in
  separate reads (`course-completion.service.ts:56`).
* `upgrade`: the term of an upgrade starts at checkout and overlaps the one it is to
  replace, so the paid order is never fulfilled
  (`commerce-fulfillment.service.ts:541`). The same happens when two renewals are
  bought before the first is paid.
* `firebase`: a Firebase sign-in compares uid and email with rows it read without a
  lock and updates the account by its id (`auth.service.ts:313`); the second of two uids
  replaces the first, which keeps its session.

Met on the way, not stated as properties:

* A PayOS link that is paid twice, and both notices of which are lost, leaves its order
  open until a person acts: the expiry and the reconciliation see more than the price,
  flag the attempt at every visit and neither book nor close it
  (`payment-lifecycle.service.ts:236`, `payment-reconciliation.service.ts:422`).
  `WindowCloses` and `LostWebhookRecovered` except it by name (`PaidTwice`), and claim
  that it is on review.
* Archiving the version of a policy by hand makes an older one, made by hand, the one
  that is sold, whoever participates by then (`membership-admin.service.ts:367`);
  `CatalogConsistent` excepts it (`byHand`).
* An order with a voucher can never be paid from the wallet: the commit is refused
  (`gds-internal-checkout.service.ts:128`).
* A suspension that commits between a sign-in's read and its commit is not noticed by
  the sign-in (`oauth.service.ts:365`); the guard of private routes reads the status
  again and refuses the session.
* A social identity that is completed between the read and the write of a second
  callback is linked and has an expiry again; a completion looks at the link, so
  nothing follows (`oauth.service.ts:513`).
* The edits of vouchers, rewards and scholarships check on a row read before their
  transaction that nothing was given yet: a redemption in between is given under terms
  that then change (`tmi-reward.service.ts:38`, `scholarships.service.ts:229`).
* A review case left open after its order was fulfilled by another path can never
  be resolved (409 `FULFILLMENT_ALREADY_RECORDED`).
* A second clean bank transfer for an order that is paid gets no review case.
* Provisional access stays after the order expires until somebody revokes it, and
  an emergency revocation is undone by a later paid delivery.
* An attempt left `CREATED` or `FAILED` blocks cancellation and is skipped by
  expiry. Twenty attempts the provider never answers for starve the expiry of the
  others.
* A fulfillment that is retried after a full refund is carried out.
* The second collection of an attempt that was paid late is rejected
  (`PAYMENT_STATE_MISMATCH`) and never booked.
* A collection that arrives twice for an order can be refunded out of the duplicate,
  and such refunds count towards taking the benefit back.
* A notification whose sender crashed stays `processing` and is never sent; a stream
  that missed more than `MAX_REPLAY_EVENTS` has a gap, and so has one that missed a
  row which was created before, but committed after, the last it saw.
* `flagAttempt` reads and then upserts a review case outside a transaction, and the
  retry of a fulfillment at the end of a run may outlive the run's lease.
* A checkout under a version of a policy that was archived is refused for good
  (`MEMBERSHIP_CATALOG_REFRESH_REQUIRED`).
* A gateway that settles after a reservation lapsed takes a use beyond the quota
  (`VoucherQuota!late`).

## Not modelled

* Differences in the time or the payment identity that a provider tells of one
  transaction: it is taken to tell the same each time. Unknown payments are only
  audited. Two checkouts with one key are one transaction each.
* Signatures, checksums and request formats of the providers (a notice with a bad
  signature changes nothing), reversals after success, the variance of a
  receiver, idempotency records of payment requests, orders with nothing to pay
  (except in `VoucherQuota`). A buyer pays only through a link he was shown.
* Prices of memberships; early access is taken as switched on. A reply of Redis is
  assumed to come within the slack of the lease.
* Marking notifications as read, their text; streams of other replicas.
* Mentoring: single-row edits and lists. Of classrooms, the recordings and the
  settings of the room; of profiles, what is not uploaded; of courses, prices and
  descriptions.
* Verification of payout accounts, revenue statements.
* Due dates, shuffling and access checks of coursework, the watched seconds a
  client reports; moderation of courses, tags.
* Receipt quotas that start anew with a calendar month.
* The release model admits databases as the checks of the script do; the contents
  of the checks are one condition each.
* Dashboards and the read side of every module, AI assistants, configuration.
