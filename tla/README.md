# Verification of the Global Jump backend

Global Jump is a FastAPI service over PostgreSQL on which people who want to emigrate are
assessed, matched with advisors, book and pay for consultations, submit documents and follow
their visa journey. Payments go through Stripe Checkout, the advisor's share is held and later
transferred with Stripe Connect, and sessions take place in Zoom meetings. This directory holds
TLA+ models of it, TLC runs that check them on small instances, and TLAPS proofs of theorems about
them. `PROJECT.json` ties every definition to the lines it stands for, every property to a run
and to a change of the code that would break it, and lists the hazards, findings and theorems.

Contents: [inventory](#the-system), [how the code becomes steps](#how-the-code-becomes-steps),
[modules](#modules), [runs](#runs), [bounds](#bounds-and-why-they-are-enough),
[findings](#findings), [observations](#observations), [fairness](#fairness),
[proofs](#proofs), [limits](#what-is-only-checked-and-what-is-left-out), [plan](#plan).

## The system

One process (or several, the code allows for it with `SKIP LOCKED`) serves HTTP requests and
runs APScheduler interval jobs, the *sweeps*. Every request works in one SQLAlchemy session
and one READ COMMITTED transaction (`app/db/session.py`). Requests meet in the database rows
they share, in the files they store, and in what they have told Stripe, Zoom, FCM, SMTP and the
open WebSockets, which no roll back undoes.

| Part | State | Operations | Hard behaviour | What makes it correct |
|---|---|---|---|---|
| Booking lifecycle (`booking_service`) | `bookings`: status, payment status, times, meeting link | create, create by advisor, cancel, reschedule, accept, reject, complete, no-show, two expiry sweeps; lists, banner, session pages | guards on unlocked reads; calls to Stripe and Zoom in the middle; each screen has its own query | one outcome per booking; nobody is confirmed unpaid; every request ends; screens agree |
| Desk of a booking (`booking_service`, `booking_note_service`, `booking_document_service`) | stamps of what was written and read, notes, document requests | deal later, important, interpreter, note, ask, fulfil, open the menu | stamps are taken before the commit; capabilities computed apart from the guards | a button works; news is flagged |
| Payments (`payment_service`, `api/v1/payments`) | `transactions`: status, refunded amount, payout status, hold, invoice | checkout, webhooks, admin refund, refund on closing, transfer sweep; cards, histories, exports, finance pages | lost, late and duplicated events; refunds from four places; two lock orders; crash after a Stripe call | books agree with Stripe; payout and refund exclude each other; a hold ends; the figures agree |
| Availability (`availability_service`) | weekly slots, overrides | set slots, add and delete overrides, `free_slots` | changes beside bookings being written | no time sold twice |
| Zoom meetings (`booking_meeting_service`) | link in the booking, meeting at Zoom | provision, move, remove | Zoom refuses, a roll back after a call, stale copies | a meeting starts when its booking does |
| Scheduler (`core/scheduler`) | none | starts the sweeps | batches, several processes | each sweep comes again |
| Unit of work (`db/session`) | objects as read | flush, commit, roll back | no version column: last writer wins per attribute | see below |
| Connections (`zoom_connection_service`, `payment_service`) | the connection's row, columns that cache Stripe's answers, two flags | connect, callback, token refresh, disconnect, `account.updated` | two copies of one fact; answers that come late | the checkout's gate is honest |
| Notifications, push outbox (`notification_service`, `push_service`) | outbox rows, devices | enqueue, sweep with backoff, mark read, register, prune | sent before committed; several instances | sent once, ended once; limited devices |
| Tidings (`email_service` and its callers) | letters, notifications | what every handler tells whom | letters leave before the commit, or without it | who is concerned is told the truth |
| Payout requests (`payout_service`) | request rows | ask, complete, reject | sum then insert without a lock | balance never overdrawn; decisions final |
| Authentication (`auth_service`, `user_service`) | refresh tokens, `token_version`, mailed links | sign in, rotate, log out, mail links, new password, impersonate | two rotations of one token; increments in the process | a revoked session stays revoked |
| Accounts (`user_admin_service`, `advisor_credential_service`, `verification_queue_service`) | status, suspension, credentials and files | verdicts, suspend, reactivate, review, onboard | verdicts of two administrators mix | status says what was decided |
| Directory (`advisor_search_service`, `bookmark_service`, admin lists) | profile card, bookmarks, suggestions | search, open, feature, bookmark, list, filter | every list has its own conditions | who is listed can be opened, who is suspended is not listed |
| Country rules (`country_rule_service`) | drafts and published rules | generate in two transactions, edit, publish, archive | crash between the two | one published rule per pair |
| Conversations (`conversation_service`) | threads, messages, read marks | send, edit, read, delete, report, moderate | the list's order is a stored copy | newest shown message leads |
| Live sockets (`ws_manager`) | the process's registry | connect, broadcast, push to the inbox | frames leave before the commit | windows show what is there |
| Offered services (`advisor_offered_service_service`) | catalog, offerings | replace list, delete, drop from the catalog | check and withdrawal without the booking's lock | what is booked is offered |
| Leads and matching | `advisor_leads` | gate, score, rank by a model, list, contact | two first looks; a model that invents | leads are those the gate let through |
| Assessments | answers, questionnaire, result | save progress, submit, edit the questionnaire | two submissions mix | a result is explained |
| Visa journey | saved recommendations, submission | profile, matches, submit | steps computed from what goes on changing | full means done |
| Documents (`seeker_document_service`, `upload_cleanup_service`) | portfolio, verdicts, files | upload, replace, judge, comment, expire, sweep | files deleted at once; verdicts valid by timestamps | a verdict is about the file; screens agree |
| Tickets, reviews | status columns, rulings | open, reply, move; review, respond, report, moderate | per-attribute flush | resolved columns follow the status; removed is hidden |
| Dashboards, analytics | none | every figure computed anew | windows of days and calendar months | figures add up |
| Application shell | none | routing, configuration, logging, rate limits | none of its own | not modelled |

How the parts meet: a seeker fills in an assessment, whose first look makes leads; finds an advisor
in the directory (account, connections, services), creates a booking (availability, advisor's
lock), opens a checkout (Stripe session, `transactions` row) and pays at Stripe; the webhook
settles the transaction, arms the payout hold, confirms the booking and provisions the meeting. The
advisor accepts, rejects, completes; either side cancels; a closed booking that was paid for
is refunded. After the hold the sweep transfers the advisor's share. A confirmed booking opens the
chat and the documents to the advisor and moves the visa journey on. All of it is told by
notifications and e-mails and counted by the dashboards.

## How the code becomes steps

* **Unit of work.** `Flush(row, seen, new)` in `UnitOfWork` is SQLAlchemy's UPDATE: only
  attributes whose value differs from the one read are written, whatever has happened to the
  row since, because no model has a version column.
* **Steps.** A request is cut where another can get in: after an unlocked read, where it may
  have to wait for a row lock, and around a call to another service. What follows the last such
  point up to the commit is one action. Reads that are not locked leave a *copy* in the request's
  record (`req[p].booking`, `call[p].seen`, `paper[p].seen`, ...), and later guards use the copy
  where the code does, and the row where the code refreshes it (`accept` and `reject` refresh,
  `cancel` and the webhooks do not).
* **Locks.** `HoldsBooking` and `HoldsTxn` say which step holds which row, from the UPDATE or
  the `FOR UPDATE` on. Two requests that hold one row each and want the other's are a
  `Deadlock`, in which the database rolls back one. `SKIP LOCKED` is a guard.
* **Other services.** What Stripe, Zoom, FCM, SMTP, the file storage and the sockets were told is
  in variables of its own, which a roll back does not touch. A call may be refused, and with
  `Outages` its answer may be lost after it took effect.
* **Webhooks.** The 200 leaves before `get_session` commits, so a crash at the last step can
  lose an event, and anything earlier delivers it again.
* **Queries.** A screen is an operator over the rows, named after its function
  (`seeker_payment_summary`, `list_my_clients`, `dashboard_summary`), evaluated at one instant.
  In the code a screen's figures come from several statements, which under READ COMMITTED may
  straddle a commit; the properties of screens say what they show when nothing is written between
  their statements.
* **History variables** (marked so where they are declared) record the overlaps that the code does
  not prevent: `raced`, `overruled`, `forked`, `parallel`, `crossed`, `blurred`, `overtaken`,
  `unseen`, `contested`, `rivals`, `torn`, `beside`, `outrun`, `revived`, `adrift`. A property
  excepts exactly what they record, and so shows that nothing else goes wrong. What a handler
  does never depends on them.
* **Definitions whose comment begins with "Mutation:"** are plausible mistakes in the definition
  below them. No specification uses them: they are the forms for which the runs must fail.

## Modules

Bookings and money:

* `UnitOfWork`: the flush, used by every model whose rows are written from copies.
* `BookingPayment`: one booking, its transaction, the Stripe objects behind them, and any number
  of requests. Booking operations `Accept`, `Complete`, `MarkNoShow`, `Cancel`, `Reject`,
  `ExpireUnaccepted`, `ExpireStaleUnpaid` and their later steps; money operations `Checkout...`,
  `Receive`/`Ignore` with `Completed...`, `Expired...`, `Refunded...`, `AdminRefund`,
  `CloseRefund`, `Transfer...`; failures `RollBack`, `RowGone`, `Deadlock`, `Crash`;
  surroundings `SeekerPays`, `SessionExpires`, `DashboardRefund`, `TimePasses`,
  `ConnectionChanges`. `clock`, `unpaidTooLong` and `holdOver` are the outcomes of the code's
  comparisons with `now`.
* `BookingLifecycle`: the abstract specification, two variables and five actions: what the
  seeker and the advisor may rely on. `BookingPayment` implements it under
  `status <- booking.status, payment <- booking.payment` when requests are served one after
  the other (run `payment_serial`); interleaved requests do not implement it, which is the
  subject of the findings.
* `AdvisorSchedule`: all bookings of one advisor in a small calendar, the published
  availability, requests that lock the advisor's profile (`create`, `create_by_advisor`,
  `reschedule`) and those that do not, and the Zoom meetings. Payment is left to
  `BookingPayment`; here a handler is only held to the statuses it demands, which allows more
  behaviours, so the safety shown holds of fewer.
* `BookingDesk`: one booking's menu: flags, notes, document requests, the dot of what is unread,
  and the capabilities the read model computes beside the guards that decide.
* `BookingScreens`: several bookings moved by whole steps, and every list, banner, drawer, client
  page, session page and timeline as an operator over them.
* `FinanceBooks`: several transactions moved by whole steps, and every figure the seeker, the
  advisor and the administrators are shown of them.
* `PayoutRequests`: balance, requests and decisions of one advisor.
* `AdvisorConnections`: the Zoom connection and the Stripe account of one advisor, and the flags.
* `OfferedServices`: the catalog, one advisor's offerings and the bookings of them.

Accounts and people:

* `AuthSessions`: refresh tokens, access tokens, mailed links and the version of one account.
* `AdvisorAccount`: status, suspension, credentials and queue of one advisor under verdicts of
  several administrators.
* `Directory` EXTENDS `AdvisorAccount`: the profile card, bookmarks, suggestions and a seeker's
  account on top of it, and every list that shows them.
* `SeekerDocuments`: one portfolio, interleaved requests, files and the orphan sweep;
  `DocumentScreens` EXTENDS it with comments and what everybody is shown.
* `CountryRules`: the policies of one country and visa type.
* `DeviceTokens`, `PushOutbox`: devices, and the outbox with its sweeps.
* `PlatformFigures`: people, assessments and sessions moved by whole steps, and the home screen
  and analytics tabs as operators.

The seeker's case:

* `Matching`: the score, the pool, the model's answer and the blend, as operators;
  `AdvisorLeads` makes and works leads with them.
* `Assessments`: questionnaire and submissions of one assessment.
* `VisaJourney`: intent, saved recommendations, documents, sessions and the submission behind the
  journey's steps.
* `Conversations`, `Reviews`: one thread, the reviews; both decide reports with `Moderation`.
* `LiveSockets`: the frames and the open windows of one conversation. The window is the browser,
  which is not in the repository: it loads what is committed when it opens and applies each frame.
* `Tidings`: one row (a booking, a document, an account, a lead, a conversation or a login) and
  the handlers that tell of its changes.
* `SupportTickets`: tickets, replies and what resolves them.

Instances: `MCBookingPayment`, `MCAdvisorSchedule`, `MCPushOutbox` are the constants and
symmetries of theirs. `MCRecords` and `MCCases` put the components side by side that share no
state: a behaviour takes place in one *scene*, which names the component at work, the operations
that are called and how many requests are in progress, so that a run adds the instances up
instead of multiplying them.

Proofs: `BookingPaymentProofs`, `AdvisorScheduleProofs`, `PushOutboxProofs`; for the components of
the two scene modules, `RecordsProofs` on top of `AccountsProofs`, and `CasesProofs` on top of
`FinanceBooksProofs`; `FiniteSums`, lemmas on induction, sums and orders that they share. `Tables` has the two
operators on rows, a sum and a descending order, that the components use where the code has
`SUM` and `ORDER BY`.

### Initial states

In `BookingPayment`, `NewInit` is a booking just created. `PaidInit` is a request that is paid for
and still pending: today's webhook confirms a booking when it is paid, so no run of this code makes
such a row, but the code provides for it (`accept` demands payment of a pending booking, `reject`
and the expiry sweep refund it), the comment in `create` tells of that older flow
(`app/services/booking_service.py:594`), and the tests start from it (`_paid_pending_booking`,
`tests/test_bookings.py:439`). `PaidRequests` switches these rows on; the findings do
without them. Everywhere else a model starts with no rows, or with the rows a component finds when
its part begins: an approved advisor where leads are made, an active account, a paid or unpaid
booking at its desk.

## Runs

| Run | Question | Instance | Result |
|---|---|---|---|
| `payment_hazards` | Do the books and the confirmation stay true whatever fails? | 2 concurrent requests, 1 session, price 2, redelivery, dashboard refunds, outages, accept, cancel, checkout, three webhooks, admin refund, transfer | holds, 265,095 states |
| `payment_serial` | Do all operations, one after the other, tell one story, implement `BookingLifecycle` and come to an end? | 1 request at a time, price 2, all 14 operations, dashboard refunds, fairness | holds, 45,164 states |
| `payment_locks` | Do the row locks alone keep payout and refund apart, and let every request return? | 2 concurrent requests, 2 sessions, price 1, no admin or dashboard refunds, no outages, request fairness | holds, 141,008 states |
| `schedule_slots` | Is a time sold once, do meetings follow? | 2 bookings, 2 requests, calendar 0..3, clock 0..1, durations 1 and 2, two schedules | holds, 1.4 million states |
| `records` | Do accounts, sessions, payouts, rules, devices, documents, reviews, messages and tickets keep their promises beside each other, and do their screens? | scenes of up to 2 requests | holds, about 420,000 states |
| `cases` | The same of assessments, leads, services, links, desks, journeys, books, screens, letters and windows | scenes of up to 2 requests | holds, about 485,000 states |
| `notifications` | Is each push sent once, and does each end? | 2 notifications, 2 instances, 1 reader, 2 attempts, 1 lost sweep, fairness | holds, about 229,000 states |
| `duplicate_checkout` | "Idempotent against duplicate webhook delivery" | 1 request, 1 session, redelivery | violated |
| `refund_deadlock` | "locked FOR UPDATE so this serialises against the sweep" | 2 requests, no outages | violated |
| `double_booking` | "prevent concurrent double-booking" | 2 bookings, 2 requests | violated |
| `reviewed_file_lost` | "Only pending credentials can be deleted" | 1 credential | violated |
| `paid_twice` | "funds sitting in the platform account" | 1 earning | violated |

Properties of `payment_hazards`: no payment, refund or payout is recorded that did not happen at
Stripe (`MoneyReal`), no booking is confirmed, held or given a meeting that nobody paid for
(`ConfirmedWasPaid`), and everything a request or an event in flight says of money is still true
when it is acted on (`InFlightReal`), the heart of the inductive invariant. `payment_serial`:
`StatusesAgree`, `LifecycleSpec`, `RefundedGrows` (events out of order never lower a refund),
`RequestsEnd` and `HoldEnds` (liveness). `payment_locks`: `PayoutOrRefund`, `RequestsReturn`.
`schedule_slots`: `SlotHeld`, `SlotsDisjoint`, `MeetingAtStart`. `notifications`: `SentOnce`,
`ReadNotPushed` and `EveryPushEnds` (liveness).

`records` checks one property per component, most of them a conjunction of named parts:

| Property | Says |
|---|---|
| `KilledForGood`, `OneLive` | after a new password no session or link from before it works; a sign-in has one live token and a purpose one link |
| `StatusHonest` (`ServesByVerdict`, `AwaitingInQueue`) | an advisor serves exactly when the last verdict says so and no suspension is in force; who waits for a verdict is in the queue |
| `PeopleShown` (`Directory`) | who is listed opens and could answer; who is suspended is in no list; filters agree with what is shown |
| `PayoutsSound` | requests stay within what was earned; a decision is final |
| `OneLivePolicy`, `PlaceholdersEnd`, `PublishedStands` | one policy is live and one in the making; a placeholder is worked on; what is published keeps its text |
| `DeviceLimit` | an account has no more devices than allowed |
| `PortfolioSound` (`ApprovedAsSeen`, `DocumentFileKept`) | an approval that counts is of the file that is there; no document loses its file |
| `FoldersShown` (`DocumentScreens`) | seeker, advisors and tables see one portfolio; the dot is honest |
| `ModerationStands` (`RemovedHidden`, `NewestListed`) | what was removed stays out of the reviews and of the order of the conversations |
| `ResolutionKept` | when and by whom a ticket was resolved follows its status |
| `FiguresShown` (`PlatformFigures`) | trends add up to cards, windows meet, funnels narrow, the feed is complete |

`cases` likewise:

| Property | Says |
|---|---|
| `OffersHonest` (`GateHonest`, `BookedIsOffered`) | the checkout's gate opens for who can be paid; what is booked is offered |
| `FindingsGrounded` (`LeadsAsGated`, `ResultExplained`) | leads are those the gate let through; a result rests on stored answers and names what was left out |
| `DeskHonest` (`CapabilitiesHonest`, `NewsFlagged`) | a button that is shown works; news has its dot |
| `JourneyHonest` (`FullMeansDone`, `MatchesCurrent`) | the journey is full exactly when nothing is left; recommendations are of the present intent |
| `BooksShown` (`FinanceBooks`) | cards, histories, earnings, shares, windows and invoices tell one story |
| `AgendaShown` (`BookingScreens`) | banner, chat, lists, client pages and timelines say the same of a booking |
| `ToldTrue` (`Tidings`) | the other party is notified with the change and not without it; letters name the refund, the links and the time of the change they report |
| `WindowsTrue` (`LiveSockets`) | once nothing is in progress, open windows show what is stored |

`RecordsTypeOK` and `CasesTypeOK` join the type invariants. Runs say `CHECK_DEADLOCK FALSE`
because the system may rest: a booking that is closed, paid out and without events has nothing
left to do, and every table is bounded.

### Bounds, and why they are enough

* `Requests`, `Callers`, `Clerks`, ...: two in progress at once. Every race listed is one of two
  requests; finished requests free their place, so any number follow each other.
* `Sessions` of `BookingPayment`: a session is a Stripe object that is never reused. One session
  reaches every money state; two let a checkout replace an expired one while the first still has
  events.
* `Price`: 2 tells a partial refund from a full one and one partial refund from two; 1 is enough
  where amounts do not matter. 0, an advisor-created booking, is covered by the proofs.
* `MaxTransferAttempts`: 1 in the runs; `attempts` stops at the limit it is compared with
  (`OneMoreAttempt`), since the code only asks whether it is reached.
* `Horizon`, `LastTick`: the calendar 0..3 has adjoining, overlapping and nested sessions of the
  two `Durations`; two ticks put the clock before and at the start of a session. A time
  is asked for only if the session ends by `Horizon`. A start that is
  not a multiple of the slot is refused by `cut`; seconds are not modelled.
* `Schedules`: all day, and a shorter day with a blocked hour, so that every change adds
  and removes times.
* `Ops`: the operations of an instance; those a run leaves out are in another run.
  `TimePasses` follows a deadline only when an operation present has one. `reject`, `expired`,
  `no_show` and `create_by_advisor` of `AdvisorSchedule` differ from their neighbours in a status
  only; `double_booking` uses the last, and the theorems cover all.
* A sweep handles one row at a time; that a batch shares one commit shows as `Crash` of a
  row already handled at Stripe.
* `MCPushOutbox`: two instances compete for two notifications, of which `n1` is queued first
  (they are alike) and `n2` never gets stale; one sweep is lost. Neither queueing nor getting
  stale is fair, so fixing them takes no fair action away.
* `records`: three tokens and three links (a chain of two rotations, a fork); two credentials; two
  earnings of one unit and three payouts; two rules; three devices with a limit of one; two
  documents, three files, two advisors, clock 0..2 (before, at and after a verdict or an expiry);
  three messages; one ticket; two visa types, three people, one assessment and two sessions over
  six instants, with days of one and months of two. The scenes that interleave two requests
  restrict the operations to those that touch the same columns; a scene with one request at a
  time has them all (`account`, `advisor`, `policies`, `editing`).
* `cases`: three kinds of advisor (full marks, just through the gate, held back) and a model that
  may name a stranger; two questions, the second asked only of those who chose the first's first
  option; a notice of two hours in a day of five; three intents of which two share destination and
  type; two payments over three days; two bookings that may start together or one after the other;
  three changes of one row, two of a booking; two messages. The questionnaire stays as it is while
  two submissions interleave (`answers`) and changes while one is at work (`questions`). In the
  window scenes at most one message is sent where both windows are open and two where one is.
  The mail server works and every address can be reached in the run; `Mailing` and `Unreachable`
  turn either off.
* Requests are alike and interchanged (`SYMMETRY`); the properties of those runs are safety
  properties.

## Findings

1. **A duplicate `checkout.session.completed` re-arms a refunded payment** (run
   `duplicate_checkout`). `_handle_checkout_completed` ignores the event only while the
   transaction is `succeeded` (`payment_service.py:415`); the comment above promises
   idempotence. After a refund the duplicate sets the transaction back to `succeeded`, the payout
   back to `pending` and the booking to `paid`.
2. **An admin refund that loses a deadlock can be paid out as well** (run `refund_deadlock`).
   `refund_transaction` locks transaction then booking, `cancel` and `reject` booking then
   transaction. When PostgreSQL aborts the refund, Stripe has already paid back; the row says
   `succeeded` with the payout pending, and the sweep transfers unless the refund's event is
   handled first.
3. **A confirmation from a stale read revives a cancelled booking** (run `double_booking`).
   `accept` and the completed webhook write `confirmed` over a status read without a lock; if the
   booking was cancelled and its time sold in between, the advisor is booked twice.
4. **A reviewed credential loses its file** (run `reviewed_file_lost`). `delete_credential`
   removes the file (`api/v1/advisors.py:976`) before the service refuses to delete the row.
5. **A payment may be paid out twice** (run `paid_twice`). `get_available_balance` counts
   transactions whose share Stripe Connect has transferred, although `models/payout_request.py`
   calls the two distinct.

## Observations

What modelling showed of the code beside the findings; no text of the repository speaks
against these, or two requests at the same moment are needed, and the properties except them by
name.

* *Money.* Without a Connect account the sweep counts an attempt but never applies the limit
  (`payment_service.py:908`), so `HoldEnds` promises an end only while the advisor stays connected.
  The docstring at `payment_service.py:835` allows refunds only while the payout is `pending`; the
  code refuses only `completed` and `failed`, and the model follows the code. Two payout requests
  beside each other can overdraw the balance, and of two administrators the later overwrites the
  decision of the earlier. The session details show a price as paid whose checkout is open or
  failed.
* *Bookings.* A seeker who pays in a session left open after a cancellation is not refunded. A
  booking created by an advisor has no confirmed date. When two bookings of a client start last at
  the same time, the client may be listed under one's status and show the other's. An
  administrator's drawer of a session shows the seeker's join link, the history of sessions none.
  A free booking that is requested is told to nobody; `send_new_consultation_request_email` has no
  caller.
* *Tidings.* E-mails may report changes that are rolled back, arrive in any order, and are lost
  when the process stops; failures of SMTP are only logged. Two verdicts read before either
  commits send two letters. An approval tells seekers that an advisor "is now available" though
  without Stripe and Zoom the advisor is not listed.
* *Windows.* Frames are sent before the commit (only a receipt that comes over the socket is
  committed first), so a window may show what never was stored, a badge may be wrong after a
  reading and a sending that overlap, and of two overlapping sendings the earlier preview may stay,
  each until the next frame. The unread count includes deleted messages. Moderation sends no
  frame. The registry is per process, and sockets authenticate only when they open.
* *Accounts.* A verdict other than approval on a suspended advisor leaves `is_suspended` set: the
  list of advisors filters by `verification_status` and shows "suspended", and the account may call
  again while onboarding. The marketplace does not ask `is_suspended`, so a row that two requests
  mixed may be listed while a bookmark is refused. The queue counts deleted documents, the detail
  page does not. Impersonating a rejected advisor gives a token that no call accepts. The list of
  bookmarks filters by integrations but not by the account's status.
* *Documents.* Any write of the document's row, another advisor's verdict and the reading of
  comments among them, moves `updated_at` and so voids approvals, where the docstring speaks of
  file and metadata. The seeker's filter by status uses the stored status, which advisors never
  write. The table of customers is not refreshed, and its filter ignores outdated verdicts. An
  administrator's "approved" on a lapsed document lasts until the next refresh.
  `is_portfolio_completed` and `assert_portfolio_editable` have no caller.
* *Figures.* `session_booked` may exceed `advisors_clicked`, since it counts bookings and not
  advisors; the match funnel counts bookings made before the assessment, where its docstring says
  "after". Percentages are rounded, so that the shares of an eligibility breakdown need not add up to
  100, and one of over twenty thousand who came back, or one session held of as many, is shown as 0.

## Fairness

* *Requests* (`RequestFairness` of `BookingPayment`): strong fairness of each request's `Advance`.
  Calls to Stripe have time limits, and PostgreSQL grants a row lock in the order of asking, so a
  request that is again and again able to go on does. Weak fairness of deadlock detection
  (`deadlock_timeout`).
* *Surroundings* (`WorldFairness`): strong fairness of each sweep, since the interval jobs come
  again for ever and skip locked rows rather than wait; of `Webhook`, since Stripe retries; weak
  fairness of session expiry and of time. Seekers, advisors and administrators owe nothing.
* `RequestsReturn` needs the first only; `RequestsEnd` and `HoldEnds` both.
* *Outbox* (`OutboxFairness`): weak fairness of starting Firebase, of each step of a sweep, which
  the scheduler starts every few seconds and which holds no lock another waits for, of a reader's
  second statement and of the end of a backoff. Queueing, reading, staleness and losses are not
  fair. `EveryPushEnds` needs an instance whose Firebase could start.

All other specifications are safety only: their requests may stop anywhere.

## Proofs

All theorems hold for every set of requests, rows, sessions, tokens and instances, every price,
calendar, set of services and limit. They assume only what the modules name: that the values which
stand for "none" are none of the real ones, that tokens and links differ, that seekers and
advisors are not the same people, that bounds are natural numbers, at least one attempt is made and
one device allowed, durations are positive, schedules consist of intervals, starts lie in the
calendar, the rows of a table that is counted or added up are finitely many, the model's scores are
within the scale its answers are validated to, the price in the books is positive and its
commission and tax together are at most the whole, the bounds of the figures leave room for two
people and two instants, and that the four hazard switches are Booleans. Unless a theorem says
otherwise it holds with all the switches on.

**`BookingPaymentProofs`**: `TypeCorrect`, `NoPaymentInvented`, `NoRefundInvented`,
`NoTransferInvented`, `BooksAreReal`, `NoUnpaidConfirmation`, `CopiesStayReal`. None of these
properties but the first is inductive: rows are written from copies taken earlier, so the copies
have to be true. The inductive invariant is

    IInv == TypeOK /\ BooksReal /\ InFlightReal

where `BooksReal` joins the properties of the rows and `InFlightReal` says the same of every
copy and every event. The argument has three layers. First, types. Second, `StripeGrows`: no step
undoes a completed session, a refund or a transfer, and no step makes a booking unpaid again,
hence what was true of a copy stays true (`RowStays`, `EventStays`, `RequestStays`). Third, what a
step writes: in the booking (`NextBooking`), the transaction (`NextRow`), at Stripe
(`NextStripe`) and in the requests (`NextRequests`), one case per action, each of them from a row,
a copy or an event that was true, or from what the step has just done at Stripe.

Its second half has `StoriesAgree`, `RefundsOnlyGrow`, `LifecycleKept` and
`PayoutsAndRefundsExclude`. These hold of the code under conditions that the theorems name, because
without them they are false, as the findings show. The first three assume `OneByOne`, that
no two requests are in progress together, and that Stripe does not deliver a payment's event again
(finding 1); outages, crashes, dashboard refunds and events that are late or lost are allowed.
Their invariant

    SerialInv == IInv /\ RowsFit /\ AnnouncedOnce /\ CallFits /\ TxnCallFits

says of the one request in progress what it found and that it is still so; `AnnouncedOnce` that
a payment's event is not there after the payment was recorded. `NextOrderly` proves of each
step that it keeps the invariant and is what `Promised` allows, which is a step of `BookingLifecycle`
or none and never lowers a refund: `LifecycleKept` is the refinement
`status <- booking.status, payment <- booking.payment`. `PayoutsAndRefundsExclude` is of requests
side by side: no session is both paid out and paid back, if no answer of Stripe is lost, nobody
refunds from Stripe's dashboard and no event comes twice, and the admin refund, whose deadlock is
finding 2, either does not take part or is alone. Its

    OneWayInv == IInv /\ PayoutOrRefund /\ RowKnows /\ EventFits /\ StepFits /\ Apart

says what the locks keep: whoever is going to write the transaction holds its row (`WritersHold`),
so nobody else does, its copy is of the row's session (`Apart`), and what happened at Stripe
is in the row, or in the copy of the one that made it happen (`RowKnows`).

**`AdvisorScheduleProofs`**: `TypeCorrect`, `DurationKept`, `LockProtects`, `NoDoubleBooking`,
`MeetingsFollow`. Here

    IInv == TypeOK /\ CopiesFit /\ EndsFollowStarts /\ SlotHeld /\ SlotsDisjoint

`SlotsDisjoint` alone does not survive `Insert`, which writes a time checked a step earlier:
`SlotHeld` carries the check across the interleaving, and needs in turn that nobody without the
lock makes a booking active except by reviving it. `EndsFollowStarts` needs `CopiesFit`: a
reschedule writes start and end over a row that another flush may have merged into.
`MeetingAtStart` is proved on top of it, action by action.

**`AccountsProofs`** is of the accounts and the figures made of them.

Sessions: `SessionsAreKilled`, `LinksAreKilled`, `OneTokenLives`, `OneLinkWorks`,
and from them `NewPasswordKills` and `OnlyTheLatestLives`. The inductive invariant is

    SessionInv == AuthTypeOK /\ CallsFit /\ InStep /\ Bounded /\ ListedOrMissed
                  /\ LinesReal /\ OneInLine /\ OneUnused /\ SessionsKilled /\ LinksKilled

A new password revokes the tokens it has listed and adds one to the version it has read. That
whatever it has not listed came in beside it is `ListedOrMissed`; that a request no killing has
overtaken binds what it issues to the present version is `InStep`; that nothing is bound to a
version still to come, which the increment would make valid again, is `Bounded`. `OneInLine` and
`OneUnused` are `OneLive` without its cardinalities, which the last steps put back; they need
`LinesReal`, for a new token's name must not be a sign-in's already.

* *Account*: `AccountTypes`, `StatusIsHonest`, by `AccountTypeOK /\ TasksFit /\ StandingFits /\ Awaited`.
  `StandingFits` strengthens who serves with what a suspension keeps: unless a verdict was given
  since, `pre` agrees with the last verdict, or a reactivation would restore another. `Awaited`
  needs `TasksFit`, for a request that opens the documents again has listed all that are not
  pending, unless they have changed since.
* *Directory*: `DirectoryIsTrue`, from the account's invariant with `SeatFits` and `SuspensionShown`:
  the flags that different lists filter by are written together, and as long as no verdict was given
  the status shows a suspension. That the lists and counts agree then follows screen by screen.
* *Devices*: `DevicesAreLimited` and `DeviceTypes`. `ListedFit`: a registration that is alone has
  listed all devices that count. The step that drops the overflow needs the least used first, which
  is a lemma on reversing and cutting a sequence (`ReverseType`, `FirstTokens`). The type has more
  in it than the limit needs, that the order in which devices were seen names none twice
  (`SeenOnce`): whatever is seen again is taken out first.
* *Figures*: `FiguresAreTrue`. The steps keep the types and that nothing is of a time to come
  (`RowsInTime`); the rest is counting in one state. Rows that fall into buckets are as many as
  the buckets add up to, with the empty ones shown or left out (`PartsAddUp`), and windows that
  meet share no row, so trends add up to cards. A share is a quotient, and `RoundedIs` says how far
  it is from one: three shares of a whole come to between 99.9 and 100.1 percent.
  The feed is a sorted list cut into pages (`DescendingIs`, `PagesMeet`, `PageIs`): every entry
  falls on one page, and pages that follow each other list what follows each other.

**`PushOutboxProofs`**: `PushTypes`, `SentOnceEach`, `ReadIsNotPushed`. With

    PushInv == PushTypeOK /\ Exclusive /\ Partition /\ Tries /\ Accounted /\ ReadersFit /\ ReadNotPushed

`Exclusive` is what `SKIP LOCKED` gives, `Partition` that a sweep deals with each row in one way,
and `Accounted` counts: what FCM took was lost with a sweep, is about to be recorded by the one
sweep that holds the row, or is recorded. `ReadersFit` is why a reader who has waited for a row
cannot make it pending again.

**`RecordsProofs`** has an inductive invariant for each of the other components of `MCRecords`.

* *Tickets*: `ResolutionIsKept`. A move writes the columns it changes in its copy, so the row
  follows its status only if the copy was the row: `MattersFit` says that a copy is stale or equal
  to the row, and that what is replied to was open when it was checked.
* *Reviews and messages*: `ModerationIsKept`. `ReadingsFit` is `MattersFit` for reviews;
  `WritersFit` says that a sending or deletion that nothing ran beside has the latest time, or has
  seen the messages as they are, so that `last_message_at` stays the newest shown.
* *Documents*: `PortfolioIsSound`. `FilesApart`, that no two documents claim a file, now or by a
  request in progress, is why removing one document's file takes none from another; `SweepSees`, why
  the orphan sweep takes only files of documents that came after its list; `OpinionsFit`, that a
  verdict is on the file the document has unless the verdict never saw it.
* *Payouts*: `PayoutsAreSound`. What stands undisputed, and with it what a request has found
  available, is covered by what was ever earned. `FiniteSums` gives what a sum does when a row is
  added or changed.
* *Country rules*: `OneIsLive`, `PlaceholdersAreDrafted`, `PublishedIsImmutable`, by
  `CountryTypeOK /\ DesksFit /\ DraftsApart /\ OneEach /\ Complete /\ PlaceholdersEnd`. `DesksFit`
  says what a request has checked and that it still holds unless it is stale, `DraftsApart` that
  no two generations work on one placeholder; `Complete` is the half of `PublishedStands` that
  speaks of states, and the rest is proved of each step.
* *Document screens*: `PortfolioIsShown`. `ExpiredInTime` and `ReadInOrder` are what the steps keep; the
  rest compares the counts, checklists and tables of one state, which is counting: a table's rows
  by status add up to its total because the statuses are disjoint.
* *Together*: `RecordsAreTyped`, `PeopleAreShown`, `FoldersAreShown`, `FiguresAreShown` are of
  `MCSpec` itself, the specification the run `records` checks. `RecordsInv` joins the invariants of all
  components; which of two holds of an account or a portfolio depends on the scene, since an
  account that nothing is shown of moves without its directory, and the requests on a portfolio
  interleave only where its screens are not looked at. Every step of the whole is shown to be a step
  of each component or to leave it alone (`StepsOfParts`, `StepsOfAccounts`, `StepsOfPortfolios`).

**`FinanceBooksProofs`**: `BooksAgreeAlways`, that the books are typed and agree. What the steps keep is small:

    BooksInv == BooksTypeOK /\ NumbersApart /\ (each row RowFits) /\ (each payout is of the past)

`RowFits` says what a row's status, refund, invoice and dates say of one another; it is needed because
the screens filter by different columns, one by the status and one by the refund's date.
The rest is about one state. A figure is the sum of a column over a set of rows (`TotalsAre`), so
that two figures agree if one set of rows is the other, renamed by the list that is shown
(`ListedAddsUp`, from `DescendingIs`: a sorted list has each row once), split by seeker or by month
(`BySeeker`, `TotalParts`), or cut at an instant (`TotalUnion`).

**`CasesProofs`** does the same for `MCCases`, with `BooksAreShown` from the former, and `CasesHaveTypes` for
the types of all its components.

* *Connections and services*: `OffersAreHonest`. `ConnectionInv` is the types and `GateHonest` itself,
  for every write of a flag takes it from columns it has just read or sets. `OfferInv` adds
  that a list being saved takes away nothing booked, unless the booking ran beside it.
* *Desk*: `DeskIsHonest`. `DeskInv` adds that who has news was sent something later than what
  they last opened.
* *Journey*: `JourneyIsHonest`. `FullMeansDone` is arithmetic on the weights of the steps,
  `MatchesCurrent` an invariant of the saved recommendations.
* *Windows*: `WindowsAreTrue`. A window is not what is stored while a frame is ahead of its
  commit, so `LiveInv` says of every message in every open window that it shows what is committed
  and what was sent ahead of it (`ShownInv`, `TicksInv`), and of a badge that it counts what the
  one handler that has pushed is about to commit (`BadgeInv`, `PreviewInv`). `JobsReal` ties
  handlers to messages: two sendings never are of one message. With no handler at
  work this is the property.
* *Booking screens*: `ScreensDoAgree`. `ScreenInv` is the types, what the dates of a booking say of its
  status (`DatesInv`), and that two open bookings of an advisor are `Apart`. The screens then agree in
  each state: a banner because a non-empty set of bookings has an earliest (`SomeFirst`), lists
  because every booking has one status, the numbers of a session page by a bijection between
  its rows and the bookings.
* *Findings*: `FindingsAreGrounded`, from `LeadsAreGated` and `ResultsAreExplained`. For the leads,
  `BestFirst` orders every finite set (`BestFirstIs`), so that whatever the model answers, the ranking has the
  people of the gate's list and no others (`BlendedIs`); `LeadInv` carries what a request has read to
  the insertion. For the result, `NumbersFit` tells the rows of one submission from all others',
  and `ReadersSound` says that what a submission will delete is not of the result unless it was late.
  That strengths keep their marks while two submissions each delete what they had read is inductive
  only for all sets of submissions at once (`Grounds`). The score is a weighted mean by sums over
  finite sets (`ScoreSays`). It showed that a full score does not quite mean the best answers: the
  result is kept with two decimals, so what lacks of a question may be rounded away once the
  question weighs less than a twenty-thousandth of all (weights are any positive number up to 10).
  `ResultExplained` says so (`Rounds`); in the run, where weights are small, nothing is rounded away.
* *Tidings*: `TidingsAreTrue`. `Told` says of one change and what goes with it that the right people hear,
  money and links are named as they are, and is shown of what each handler hands to `Tell`
  (`PlainTell` for those that touch neither money nor meetings, `OffTold` and `LinksWith` for the
  rest). `TellInv` keeps it for what is written and not committed (`WriterTrue`) and for the journal
  (`ChangeTrue`), with the numbers that tie letters to changes (`Numbered`): a letter leaves before the
  commit, and no later request has its number. That a verdict is not given twice needs what a
  request had read to be a row of the journal (`WasRead`), as long ago as that may be.

## What is only checked, and what is left out

Only model-checked:

* `RequestsEnd`, `HoldEnds`, `RequestsReturn`, `EveryPushEnds`: liveness under fairness and ENABLED are
  out of the prover's reach.

Every invariant and every action property of a passing run is stated by a theorem.

The prover cannot instantiate the library's induction theorems, whose parameter is an operator. Where a
proof needs induction (a least number, a sum, the size of a set) it is done by way of the
well-foundedness of the natural numbers, with a set in place of the predicate (`Least`,
`SubsetInduction` in `FiniteSums`).

Assumptions of the models, beside the bounds:

* a file that was uploaded is attached to one document;
* the documents of the journey are one seeker's, and not told apart by visa type;
* a screen is evaluated at one instant, although its figures come from several statements
  (`get_dashboard_summary` even gathers six coroutines on one session);
* an `IntegrityError` in a checkout is a roll back, though the code also resumes the winner's
  session, which changes no state;
* the orders of several sweeps within one job are covered by their interleaving;
* the model behind matching and insights may answer anything of the right form.

Not modelled, and why:

* the application shell: wiring, configuration, logging; rate limits are kept by a library;
* the text of notifications, letters, templates, invoices, receipts, policies and insights, and the
  payment event log, which nothing reads back into a decision;
* OAuth exchanges, Google's tokens, the encryption of Zoom tokens: I/O of one request;
* profile forms, contact forms, priorities and categories of tickets, pre-registrations, A/B
  variants, eligibility rules (stored and never evaluated), the editing of matching weights: rows
  written whole by one form, whose validation is the schema's;
* page sizes, searches by text, sort orders other than those properties speak of;
* the ranking of seekers for an advisor, which is not saved;
* seeds, scripts, migrations, country data and prompts, which run before or outside the service.

## Plan

Done: all components above, with eight proof modules. What is left: `Tidings` composed with
`BookingPayment`, so that letters are of changes with their locks and calls, at the price of a much
smaller instance.
