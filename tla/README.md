# MARITCHO in TLA+

MARITCHO is a marketplace for tradespeople: a buyer posts a job, a worker is
matched and booked, quotes on site, does the work and is paid on sign-off. The
repository holds a FastAPI/Postgres backend (`src/backend`), a Flutter app for
workers that works offline (`src/mobile`) and a Next.js web app
(`src/frontend`).

This directory holds TLA+ modules translated from that code, the TLC
configurations that check them on small instances, and proofs checked by TLAPS.
`PROJECT.json` maps every definition to the lines it models and lists
components, runs, mutants, findings, hazards and theorems.

1. [The system](#the-system)
2. [What is hard about it](#what-is-hard-about-it)
3. [The modules](#the-modules)
4. [How QuickHire corresponds to the code](#how-quickhire-corresponds-to-the-code)
5. [How Outbox corresponds to the code](#how-outbox-corresponds-to-the-code)
6. [How the service modules correspond to the code](#how-the-service-modules-correspond-to-the-code)
7. [What the runs check and show](#what-the-runs-check-and-show)
8. [Bounds](#bounds)
9. [Fairness](#fairness)
10. [What is proved](#what-is-proved)
11. [What is only model-checked](#what-is-only-model-checked)
12. [What is not modelled](#what-is-not-modelled)
13. [Plan](#plan)

## The system

Backend, one directory per app under `src/backend/app/apps`, each with
`domain` (use cases), `infrastructure` (SQLAlchemy repositories) and
`interface_adapters` (routes):

| Component | State | Operations | Correct when |
| --- | --- | --- | --- |
| jobs: lifecycle | `jobs` row: status, worker, currency, quote | request, matches, book, quote, complete, dispute, respond | each stage once and in order; the money of a stage is on the ledger; one active job per worker |
| jobs: ledger | `ledger_entries`, append-only | add, sum by type | a job is paid out once, never more than was paid in, in one currency |
| jobs: disputes | `disputes` rows | add, latest open, save | a frozen job can always be answered; nothing is released while frozen |
| jobs: record | `record_entries`, unique per job, immutable, trigger | add | one per job, written with the payout, naming the job's worker |
| jobs: offers, reviews | `job_offers`, `reviews` | upsert, insert | one offer per worker and job, one review per job |
| jobs: matching | none | score and order candidates | deterministic order, busy workers left out |
| workers: standing | `standings` row: rates, grade | recompute in the jobs transactions | equals what the job history says |
| workers: vetting | `worker_vetting`, references, vouches, `standings.grade` | submit ID, add reference, vouch | the grade is what the evidence gives |
| crews | crews, members, orders, order ledger | as jobs, without record, dispute or standing | as the job ledger; one active order per crew |
| payments | gateway config, callback log | collect (EcoCash), webhook | every EcoCash deposit was collected |
| messaging | `messages`, Redis channel | send, list, mark read, socket | every stored message reaches both parties |
| accounts | persons, one-time codes | request, verify, token | a code is used once and guessed at a few times only |
| skills, areas | `skills`, `service_areas`, unique per worker | register | a registered worker has a standing |
| media | files and `media_files` | upload, download | one file per idempotency key |
| suburbs | reference data | list, exists | read-only |
| core | session per request | commit, rollback, close | all of a use case's writes or none |

Mobile (correct when work done without signal is neither lost nor called sent
before it is, and is settled in the end): `core/sync` keeps an outbox in SQLite (quotes and photos taken
offline), `SyncScheduler` nudges `SyncService`, which sends each due item and
reschedules, marks sent or marks failed; `core/network/api_client.dart` adds a
retry interceptor and a circuit breaker; the rest is screens over a read
cache. Web: TanStack Query caches reads and replays mutations made offline; a
stateless proxy attaches the session; a socket and a polling fallback feed the
chat; a service worker caches pages.

How they interact: the clients call the backend over HTTP and may retry. The
use cases of one request share one database session and so one transaction;
requests interact only through committed rows and the locks and unique indexes
of Postgres. jobs calls workers (`RecomputeStandingUseCase`) inside its own
transaction, and workers reads job history back through a port that jobs
implements. Booking calls EcoCash in the middle of its transaction. Messaging
publishes to Redis after its commit. Crew orders repeat the shape of jobs.

## What is hard about it

Every use case is get → check → save → commit with an `await` at each arrow,
in a READ COMMITTED transaction without row versions or `SELECT ... FOR
UPDATE`. So:

- a request may act on a row that has since moved on (two bookings, two
  sign-offs, a sign-off racing a dispute, two answers to one dispute);
- `JobRepository.save` writes an entity that was copied at the start of the
  request: a late commit can take the row *back* to an earlier stage, change
  its worker or reset its currency;
- checks such as `is_worker_busy` and the deposit sum see committed rows only;
- what saves the invariants is elsewhere: the append-only ledger, the unique
  index on `record_entries.job_id`, the row locks held from UPDATE to commit;
- EcoCash takes money before the transaction commits;
- any request may be cut off at any point (client gone, process killed,
  connection lost) and then rolls back;
- the clients retry what may have been done already;
- some rows are protected by nothing but their unique key: two first
  registrations, two vouches, two uploads both find nothing and both insert;
- the chat has three ways to the screen (push, fetch, answer) that overtake each
  other, and a channel that remembers nothing.

On the phone, a pass of `SyncService` is sequential, but its requests go through
a breaker and a retry interceptor shared with every screen, a request given up
on may still be handled (the web server in between answers 503 after 15 s while
the backend goes on), the app may die between any two steps with only the rows
and files left, and an upload and its message are two requests.

`PROJECT.json` "hazards" lists these at their lines with the properties that
cover them, and the ones no property covers yet.

## The modules

| Module | What it is |
| --- | --- |
| `QuickHire` | the job lifecycle, its ledger, disputes, record entry, standing statistics and EcoCash, with every request in flight as a process; properties; mutations |
| `Escrow` | abstract: what the ledger promises of a job's money under any interleaving |
| `JobContract` | abstract: the documented lifecycle, one atomic step per table row of `docs/architecture/database_schema_design.md` §4–5 with the money that moves in it |
| `MCQuickHire` | `QuickHire` with a symmetry set, for TLC |
| `QuickHireProofs` | the theorems about `QuickHire` |
| `Outbox` | the mobile queue: rows and photo files on the phone, passes, requests with resends and the breaker, the network and the backend's side of three requests; properties; mutations |
| `Delivery` | abstract: what the phone promises of work saved on it |
| `OutboxProofs` | the theorems about `Outbox` |
| `Vetting` | evidence, vouches and the grade recomputed from them; the standing row they share with sign-offs |
| `CrewOrders` | crew orders and their ledger, with every request in flight; instantiates `JobContract` |
| `Matching` | the three list queries, as operators over profiles, rosters and open jobs |
| `Chat` | one job's messages from the POST to the reader's screen |
| `SignIn` | one-time codes, the account behind them, profile updates |
| `UniqueRows` | the handlers that store a row under a unique key: uploads, reviews, offers, skills, areas, crews, members, payment configuration |
| `VettingProofs`, `CrewOrdersProofs`, `MatchingProofs`, `ChatProofs`, `RowsProofs` | the theorems about these six; `RowsProofs` holds those of `SignIn` and `UniqueRows` |
| `MCServices` | the six service modules for TLC; they share no state, so a behaviour exercises one and leaves the others at rest |
| `ServicesProofs` | that the composition keeps every service's own specification and invariant |

`QuickHire` instantiates both abstract modules with refinement mappings: the
account balances of `Escrow` are the sums of the three entry types;
`JobContract` sees, besides them, the status and worker columns. `Outbox`
instantiates `Delivery`: the status of an item is that of its row, and an item
is stored when the job has a price (a quote) or its message is in the chat (a
photo). `QuickHire` and `Outbox` meet in one operation, `SubmitQuote`, of which
`Outbox` uses what the phone can see: a price is taken while the job is
`BOOKED` and answered 409 afterwards. `CrewOrders` instantiates `JobContract` a
second time, for the crew, status and ledger of an order; an order has no dispute,
so it takes neither of the contract's two steps about disputes. `UniqueRows` uses
of a job's life what an offer or a review asks: open, booked, completed.

## How QuickHire corresponds to the code

State. `job`, `ledger`, `disputes`, `record` and `standing` are the committed
tables. A job that does not exist yet has status `ABSENT`. Ledger rows of one
job and type are kept as a count, a sum, the number that carry an external
reference and the currencies that occur; nothing the code or the properties
read is lost by that. Disputes are numbered by `created_at`, which Python sets
when the row is flushed, hence `clock` counts insertions, rolled back ones
included. `standing` holds the four counts from which the three rates and
`jobs_completed` are computed. `collected` counts what the provider took.

A request is `pc[r]` and `req[r]`. Its phases are the awaits of the use case:

| Phase | Reached by | Code |
| --- | --- | --- |
| `loaded` | `GetJobMatches`, `BookJob`, `SubmitQuote`, `CompleteJob`, `RaiseDispute`, `RespondToDispute` | `jobs.get` and the status check |
| `checked` | `CheckBusy`, `SumDeposits`, `InsertRecord`, `InsertDispute`, `FindOpenDispute` | the reads and inserts between `get` and `save` |
| `collected` | `Collect` | the answer of `initiate_collection` |
| `selected` | `SaveSelect` | `save`: the row is selected again |
| `flushed` | `SaveFlush` | the UPDATE is flushed, the row locked, the statistics read |
| `idle` | `CommitMatch` … `CommitRaise`, `Refuse`, `Crash` | commit, or an exception, or a lost connection |

What is worth knowing about the translation:

- *Two reads of the row.* `get` converts the row to a dataclass and drops the
  model object; SQLAlchemy's identity map holds it weakly, so `save` issues a
  second SELECT. `ent` is the first read, `base` the second. At flush only
  the attributes in which the assigned entity differs from `base` are in the
  UPDATE (`Updated`, `Column`), and none is sent if there are none (`Dirty`).
- *Locks.* Between UPDATE and commit the row is locked. For the operations
  that do nothing observable in between, UPDATE and commit are one step; for
  `CompleteJob` and `RaiseDispute` they are two, since the statistics are read
  between them. Inserting a row with a foreign key to the job takes a key-share
  lock that does not conflict with those UPDATEs. The UPDATE of a standing row
  and of its job always take their locks in the same order, so collapsing
  `standings.save` into the commit hides no deadlock.
- *Unique record entry.* A second insert for the job waits for the first
  transaction (`RecordPending`) and fails if it committed (`Refused`). The
  trigger compares workers before the insert (`TriggerPasses`).
- *Two answers to one dispute.* `disputes.save` updates the dispute row before
  the job row, so the second answer waits (`DisputeLocked`).
- *EcoCash.* The provider takes the money; the answer arrives, or it is lost
  and the request ends with 502. A request that is never sent (not configured)
  is a `Refuse`.
- *Quote.* `labor_amount` and `materials_amount` are always written with
  `quote_amount`, which is their sum; one number stands for the three. The
  CHECK constraint that ties them can make a racing UPDATE fail: an outcome
  `Crash` already has.
- Callers without the right role, skill or ownership are refused before any
  state changes and are left out. The four queries of `get_stats` are one
  read.
- Postgres, SQLAlchemy's unit of work and the EcoCash provider are not in the
  repository: they are modelled from how the code uses them and marked
  `external` in the map.

## How Outbox corresponds to the code

One worker's phone and one job.

| Variable | Code |
| --- | --- |
| `queue` | the rows of `offline_queue`; `due` stands for `next_attempt_at`, `url` for a `media_url` in the payload |
| `photos` | the file kept for each photo |
| `sync` | `_isSyncing`, the list read by `due`, and the item and request a pass is at; `resends` is `retry_attempt` |
| `breaker` | `ClientCircuitBreaker`; `expired` is an open breaker whose cooldown is over but was not asked yet |
| `price`, `uploads`, `shared` | the backend: `jobs.quote_amount` by the item that brought it, stored files by upload key, photos with a message |
| `late` | requests given up on that the backend may still handle |

A pass is `StartPass`, then per item `PickItem`, its requests, and one of
`MarkSent` + `RemoveFile`, `Reschedule` or `MarkFailed`, and `EndPass`. A
request is `Send` (or `TurnAway` by the breaker, or `PhotoMissing` before
anything is sent) and then `Answer` or `NoAnswer`, each of which runs the
breaker, then the retry interceptor, then `classify`, in the order of
`buildApiDio`. What is worth knowing:

- *Handling and answering.* `Answer` handles the request and delivers the answer
  in one step; a request handled whose answer is lost is `NoAnswer` with the
  request in `late` and then `LateRequest`. The 503 of the web server for a slow
  backend is `NoAnswer` with outcome `error`.
- *Messages* are committed before they are published, so a failed publish answers
  500 for a message that is stored.
- *Resends* of an upload: the HTTP library reads a multipart form once and may
  refuse to send it again. That is a failure with nothing arriving, which
  `NoAnswer` includes; a library that does send it again is included too.
- *The screen* may show a copy of the job of any age, so `QueueQuote` does not
  ask whether the job is still `BOOKED`; it does ask for no queued price
  (`ActiveJobCard._hasQueuedPrice`), which reads the queue itself.
- *Left out:* lengths of waits and attempt counts (a row is due or not), the
  wording of reasons, rows of an unknown action type (no version of the app
  writes one the next does not know), a photo that could not be copied (nothing
  is changed), and amounts (an item's price is the item).

## How the service modules correspond to the code

**Vetting** (`workers/domain/services.py`). A request is one record: what it
sends, the entity's grade, what its reads returned and how far it is. `VetInsert`
is the insert of its evidence, `VetEnsure` `standings.ensure`, `VetLoad` to
`VetCountVouches` are `RecomputeGradeUseCase`, `VetSelect` and `VetCommit`
`standings.save` and the commit. Own inserts are seen by their transaction only
(`OwnPhotos`, `OwnReferences`, `OwnVouches`). A second insert of a vouch, vetting
or standing row waits for the first (`EvidenceHeld`, `RowHeld`) and is refused if
it committed. A sign-off or dispute saves the same row for the sake of the counts
(operation `Stats`); of its columns the model keeps the grade. The recompute's
two reads behind the row (vetting row, references) are one step: rows are only
added, and references matter only behind a photo. First seniors are set by an
operator (`VetSeeds`), since nobody can vouch before someone is `JOURNEYMAN`.

**CrewOrders** (`crews/domain/services.py`). The phases of `QuickHire`: `CrewGet`
with its status check, the reads in between (`CheckCrewBusy`, `CollectDeposit`,
`SumCrewDeposits`), `SelectCrewOrder`, `FlushCrewOrder`, `CommitCrewOrder`. There
is no record entry, so nothing but the status stops a second sign-off, and no
dispute. Checks of ownership, and the reads of the crew, change nothing and are
left out.

**Matching** (`jobs/domain/matching.py`, `crews/domain/matching.py`,
`ListOpenJobsForWorkerUseCase`). Each loop is a set with a filter and a key;
Python's sort is stable over sets that iterate in any order, so the answer is
any sequence sorted by the key. The machine starts in every world the constants
allow and answers one query. The properties are stated over the distances and
profiles, not over the operators that compute the answer.

**Chat** (`messaging`, `features/messaging/hooks.ts`). A message goes from
`inserted` to `committed` to `published` to `ended`; numbers are `created_at`, which
the insert sets, so messages may commit in another order. The socket is accepted
before it subscribes; a publish reaches who is subscribed (`wire`). `page` is the
answer of a fetch on its way, which replaces the cache when it arrives, also if
a push was merged after the server read it. The client polls while its socket is
down; every other refetch is `Refetch` at any time.

**SignIn** (`accounts/interface_adapters/router.py`). `RequestOtp` and `StoreCode`
are the two halves of `request_otp`; `VerifyOtp` loads the newest unverified code,
`CommitAttempt` writes the loaded count plus one, and `FindPerson` and
`CreatePerson` run in a second transaction of the same request. `UpdateMe`,
`SelectMe` and `SaveMe` are a profile update, which writes the columns in which the
copy differs from the row selected again. Time goes in steps of five minutes, the
life of a code and half of the window. `/token` answers 404 in production and is
left out.

**UniqueRows**. One key of each table is followed, with two calls of each kind.
A handler that flushes and commits one row is one step from its INSERT on. A
registration keeps its row to itself (`stored` false) while it looks for the
standing. A lost race is a 409 where the code catches the `IntegrityError`
(crews, members, registrations) and a 500 otherwise; in both cases, and after a
lost answer, the caller may call again with the same key (`Retry`), as the
outbox does for uploads.

Every request of these modules may also be cut off at any await (`VetCrash`,
`AbandonCrewRequest`, `SendFails`, `DropCall`, `LoseRequest`), which rolls its
transaction back and leaves what it did outside (a collection, a file).

## What the runs check and show

The first seven runs are of `MCQuickHire`, the next three of `Outbox`, `services`
of `MCServices` and `crew_currency` of `CrewOrders`. A job that is signed off with no request left to
accept is an end the system may reach, so deadlock is not checked; that
requests do not block each other is `EveryRequestFinishes`. A queue whose items
are all sent is such an end too, and so are the services when every bounded
request was made.

| Run | Instance | Checks | Result |
| --- | --- | --- | --- |
| `races` | 1 job, 2 workers, 2 requests, 2 currencies, quotes 2 and 3 | `StatusBackedByLedger`, `SignedOffOnce`, `NeverOverReleased`, `EcoCashDepositsCollected`, `IndInv`, `ImplementsEscrow` | holds |
| `answers` | 1 job, 1 worker, 2 requests, 3 disputes | `DisputedHasOpenDispute`, `EveryRequestFinishes` | holds |
| `apart` | 2 jobs, 2 workers, 2 requests that keep apart | `ApartInv`, `OneCurrency`, `CompletionsCounted`, `ImplementsContract` | holds |
| `freeze` | 1 job, 2 requests | `MoneyFreezes` | violated |
| `double_booking` | 2 jobs, 1 worker, 2 requests | `OneActiveJobPerWorker` | violated |
| `record` | 1 job, 2 requests | `RecordNamesTheWorker` | violated |
| `standing` | 2 jobs, 1 worker, 1 request at a time | `StandingNeverDrifts` | violated |
| `outbox` | 2 items, threshold 3, 1 resend, 1 late request, 1 event | `OutboxInv`, `RemovedOnlyWhenSent`, `SharedPhotosExist`, `ImplementsDelivery`, `EveryItemSettles` | holds |
| `outbox_conflict` | 2 items, threshold 5, 3 resends | `SentQuoteIsStored` | violated |
| `outbox_tried` | 2 items, threshold 5, 3 resends | `EachItemIsTried` | violated |
| `services` | see [Bounds](#bounds) | 14 invariants and 9 temporal properties, below | holds |
| `crew_currency` | 1 order, 1 crew, 2 requests | `CurrencySetOnceBooked` | violated |

`races` shows what survives every interleaving: however stale the entity a
request writes back, the row never shows a stage whose money is missing, the
worker is paid at most once and never more than the buyer put in, no EcoCash
deposit is on the books that was not collected, and the three sums are an
escrow account. `IndInv` is the inductive invariant of the proofs; it contains
the type invariant `TypeOK`.

`answers` needs several disputes: two racing answers, or an answer and a new
dispute, must not leave the row `DISPUTED` with nothing to answer, because
`RespondToDispute` is the only way out of that state.

`apart` shows what two overlapping requests keep as long as they do not race for
one thing: no two of them are in flight on one job (`JobsApart`), and no two book
one worker (`BookingsApart`). Everything else overlaps: a booking of one job and
the sign-off of another of the same worker, busy checks against rows that other
requests are about to commit, two recomputations of standings, crashes. Then the
use cases implement the documented lifecycle, including the exclusion of busy
workers and the payout equal to deposit plus balance. `ApartInv` conjoins the
invariants behind this, among them two of the properties that racing requests
violate (`OneActiveJobPerWorker`, `RecordNamesTheWorker`).

`outbox` shows that the phone keeps its promise across lost answers, requests
handled late, resends, one death of the app or failure of its database, a lost
photo and a busy breaker: no saved item disappears, nothing is called sent of
which the backend has no trace, no chat message names a photo that is not
stored, the file outlives the need for it, and every item is settled.

`services` checks, besides `ServicesInv`, which conjoins the inductive invariants
of the six modules and so their type invariants:

| Part | Property | What it shows |
| --- | --- | --- |
| vetting | `GradeWasEarned` | no stale save or rollback leaves a grade without its evidence |
| | `SeniorityTracesToSeeds` | every senior is reached from the first ones by vouches, also while givers are demoted |
| | `GradeFollowsEvidence` | for requests that keep apart, the grade a request leaves is the one the evidence in the tables yields |
| | `VettingRequestsEnd` | no two requests wait for each other's keys |
| crew orders | `CrewStatusBackedByLedger` | no stage whose money is missing; for requests that keep apart also crew, currency and quote |
| | `EachPayoutCovered` | no single payout exceeds what was put in |
| | `CrewContractKept`, `CrewServesOneOrder` | for requests that keep apart, an order lives the life of a job (`JobContract`) and a crew serves one order |
| | `CrewRequestsEnd` | no request waits forever |
| matching | `BuyersSeeWhoCanTakeTheJob` | exactly workers who can take the job, every bidder among them |
| | `NearestSuggestedFirst` | nobody left out is nearer, or as near and better |
| | `ListsMirrorEachOther` | a job that would name a worker is in the worker's list |
| | `ListedCrewsCanStaff` | a listed crew is free and has the members |
| chat | `OnlyStoredShown` | nothing uncommitted reaches a screen |
| | `ShownOnceInOrder` | push, fetch and answer show a message once, in order |
| | `FallbackCatchesUp` | polling brings what no push brought |
| sign-in | `AccountsComeFromCodes` | no account without a verified code |
| | `RoleIsKept` | overlapping first sign-ins and updates keep the role |
| | `LockoutEnds` | a phone is not refused codes forever |
| unique rows | `AnswersMatchRows` | uploads of one key all name the one stored row, with its file |
| | `RegisteredWorkersHaveStanding` | no skill or area is committed without a standing |
| | `UniqueCallsSettle` | who keeps calling is answered |

Two variables are chosen at the start of a behaviour and never change. With
`crewApart` no two crew requests are in flight on one order, and no two book one
crew (`KeepsApart`). With `vetApart` no two vetting requests are in flight of which
one writes the grade of the other's worker, or of a giver whose vouch the other
counts (`VetKeepsApart`). Without them requests overlap at will, and a property
that begins with `crewApart` or `vetApart` is not true. Nor does it suffice that
vetting requests keep apart by worker: without the clauses about givers TLC finds
`GradeFollowsEvidence` violated, since a giver may change grade after the count.

The seven violated properties are disagreements between documents and code, each
with a counterexample; `freeze`, `double_booking`, `record` and `crew_currency` need
overlapping requests:

- *`MoneyFreezes`*: a sign-off reads `IN_PROGRESS`, a dispute commits, the
  sign-off releases the money of a `DISPUTED` job
  (`jobs/domain/services.py:471-502` against its line 506 and
  `database_schema_design.md:306`).
- *`OneActiveJobPerWorker`*: two bookings pass the busy check before either
  commits (`services.py:367` against `database_schema_design.md:287`).
- *`RecordNamesTheWorker`*: a `GET /matches` that read the job before it was
  booked commits after the sign-off and sets `jobs.worker_id` back to NULL;
  the record entry still names the worker (`repositories.py:163` against
  `schema.sql:257-259`).
- *`StandingNeverDrifts`*: booking a job adds to `total_booked`, the
  denominator of `fill_rate`, and nothing recomputes the standing until the
  next completion or dispute, so the stored rate and the history disagree
  after a second booking (`jobs/domain/services.py:389` against "so it can
  never drift out of sync with reality", `workers/domain/services.py:182`).
  The completed and redone counts do agree: `CompletionsCounted` in `apart`.
- *`SentQuoteIsStored`*: the worker prices the job on another device (or again
  from a screen that is out of date); the queued price is answered 409 because
  the job is no longer `BOOKED`, and is marked sent (`sync_service.dart:211`
  "Already applied on the backend"). `ImplementsDelivery` is the part that does
  hold: the job has a price.
- *`EachItemIsTried`*: an item that fails with its three resends leaves the
  breaker one failure short; the next failure opens it, and the other due items
  are put off without a request (`api_client.dart:51` against
  `sync_service.dart:15-16`).

- *`CurrencySetOnceBooked`*: a slow `GET /matches` that read the order as
  `REQUESTED` commits after it was matched and booked, and sets status, crew and
  currency back; a quote that had selected the booked row then writes
  `IN_PROGRESS`, and only the columns it changed. `CompleteCrewOrder` stops at its
  assertion "IN_PROGRESS implies a currency was set"
  (`crews/infrastructure/repositories.py:195` against
  `crews/domain/services.py:376`).

Also learned on the way, and not stated as a property because no document
promises the contrary:

- with three overlapping requests a stale save can leave a `BOOKED` job without
  currency, on which `SubmitQuote` then stops at its `assert`;
- two overlapping sign-offs of a crew order release its money twice, each within
  what was paid in, since no unique key stands behind them;
- the statistics a sign-off saves can write back a grade that vetting has just
  raised: the save covers the whole entity, although the docstring of
  `RecomputeStandingUseCase` says it does not touch the grade
  (`workers/domain/services.py:193`);
- the chat fetches the first fifty messages of a job, oldest first: a longer
  chat shows its later messages only until the next fetch replaces the list,
  hence the `PageLimit` in `FallbackCatchesUp`;
- concurrent wrong guesses of a code may count as one.

Every property of a passing run has a mutant in `PROJECT.json`: a plausible bug
in one definition under which TLC finds the property violated. The mutated
definitions stand next to the originals, each with a `Mutation`
comment, and nothing else uses them.

## Bounds

- Two overlapping requests in the interleaving runs: every hazard listed is a
  race of two, since a request interacts with others only through committed
  rows and a third adds only rows that were committed before. The state
  invariants were also checked with three requests (one worker, one currency,
  up to two disputes: 817,000 states) and are proved for any number.
- One job in `races` and `answers`: requests of different jobs meet only in
  `is_worker_busy` and in the standing, which `apart` and `double_booking`
  exercise with two.
- `MaxDisputes` bounds the disputes inserted per job and `MaxCollections` the
  collections taken per job; each appears in the guard of the one action that
  counts up. Three disputes allow one resolved, one open and one being raised.
- Two quotes and, in `apart`, two deposits, so that a quote may equal, exceed
  or fall below a deposit. The number of ledger rows needs no bound: each
  needs a stage, and stages are revisited only through requests already in
  flight or bounded disputes.
- `Outbox`: two items make every relation between items (one fails, the other
  waits; two photos; a price and a photo); `MaxResends` 1 and `Threshold` 3 keep
  the relation of the real 3 and 5 that matters, that the resends of one request
  cannot open the breaker alone but two items, or one and another screen, can;
  the violation runs use 3 and 5. `MaxEvents` bounds deaths, database failures,
  lost photos, requests of other screens and "Try again" taps together, and
  `MaxLate` the requests in the network; attempts and passes are unbounded. The
  invariants are proved for all values.
- `services`: two overlapping requests in every part, for the reason above, in
  up to four (vetting), five (crew orders) or three (sign-in, besides codes)
  requests of a behaviour. Vetting has a senior, a registered worker and a
  newcomer, and a plan of calls in which the newcomer becomes senior and vouches
  on; one vouch makes a `JOURNEYMAN` and two an `EXPERT` (3 in the code, for which
  three givers would be needed). Crew orders: two orders for one crew. Matching:
  all assignments of seven profiles to three workers, every distance band, one
  suggestion (3 in the code) so that the cut-off bites. Chat: three messages, one
  of them the reader's, pages of two. Sign-in: one phone, two codes, two attempts;
  the limit per address, with two, is not reached before the limit per phone.
  Unique rows: the mixes of two or three calls that meet on a key, two losses.
- Workers and request slots are symmetric; symmetry is not used in the run
  with a liveness property.

## Fairness

`FairSpec` assumes, for each request, strong fairness of `Progress`: what the
event loop and Postgres do for a request that was accepted. The event loop
resumes every ready task; a lock waiter in Postgres is granted the lock in
queue order, so a request that can proceed again and again does proceed, even
if others take the lock in between. Arrivals and `Crash` are not fair: no
property relies on a request being made or cut off.

`Outbox!FairSpec` assumes that the app is opened again and its timer runs
(`SyncScheduler`: at start, on resume and once a minute), so a pass makes its
next step; that the cooldown and the wait of an item end; and, for each item,
strong fairness of `Settles`: an item whose requests go out again and again
gets an answer other than "later" in the end. The last is an assumption about
signal and backend, not about this code; it says nothing of the breaker, of
other items, or of getting the request out at all, which is what
`EveryItemSettles` is about. It also excludes a request that hangs for ever
(the client sets no timeout).

`MCServices!Spec` assumes weak fairness of three actions. `Progress`: of the
vetting, crew and unique-key requests that can go on, some one goes on (the event
loop runs ready tasks, and Postgres grants locks); for the unique keys this
includes that a caller who was told of a failure calls again, which
`UniqueCallsSettle` is about; for sign-in it is the clock. With bounded requests
this is enough for each of them to end. `PollFires`: the interval timer of the query
fires while the socket is down. `PageComes`: a fetch is answered in the end (the
query retries). Sending, connecting, pushing and crashing are not fair.

## What is proved

`QuickHireProofs` proves, from `ConstantsAssumption` alone (finite sets of jobs
and requests, positive amounts, NULLs that are not values), hence for any
number of jobs, workers, requests, disputes and any amounts:

| Theorem | Property |
| --- | --- |
| `Invariance` | `Spec => []IndInv` |
| `TypeCorrect` | `TypeOK` |
| `StatusIsBacked` | `StatusBackedByLedger` |
| `SignOffIsOnce` | `SignedOffOnce` |
| `ReleaseIsCovered` | `NeverOverReleased` |
| `DisputeIsOpen` | `DisputedHasOpenDispute` |
| `EcoCashIsBacked` | `EcoCashDepositsCollected` |
| `LedgerIsEscrow` | `ImplementsEscrow` (initial states and every step) |

None of the safety properties is inductive by itself: a step writes what a
request read earlier, so the invariant must say what requests in flight know.
`IndInv` adds to the properties

- `ChecksPassed`: what the checks found is a fact about the request's own copy
  and stays true;
- `EntitiesBacked`: the status a request read is its operation's source status
  and is still backed, because ledger rows are never removed;
- `SignOffExclusive`: between its record insert and its commit, a sign-off is
  alone on its job, and the job has no record entry: the unique index;
- `QuotesPaidIn`: every quote in a row, or in an entity that may be written back
  to it, was paid in: a quote is `deposited` plus the balance its commit adds,
  and deposits only grow;
- `DisputesNumbered`: a dispute number is handed out once, and an answered
  dispute existed;
- `DisputeAnswerable`: while a row says `DISPUTED`, some open dispute has no
  answer on its way that would resolve it without also writing the status;
  this is where the second SELECT of `save` matters.

The proof first shows every step has one of a few shapes (`Loads`, `Prepares`,
`Continues`, `Commits`, `Aborts` of one request, or a new job), then what a
commit may have done to each table (`RowAfter`, `LedgerAfter`, `RecordAfter`,
`DisputesAfter`, `PaidInGrows`), and from these one step lemma per conjunct of
`IndInv`. `LedgerIsEscrow` and `EcoCashIsBacked` use the invariant and the same
shapes.

For requests that keep apart, and again for any number of jobs, workers, requests
and disputes, the same module proves

| Theorem | Hypotheses | Conclusion |
| --- | --- | --- |
| `ApartJobInvariance` | `[]JobsApart` | `JobInv` |
| `ApartOneCurrency` | `[]JobsApart` | `OneCurrency` |
| `ApartRecordNames` | `[]JobsApart` | `RecordNamesTheWorker` |
| `ApartMoneyFreezes` | `[]JobsApart` | `MoneyFreezes` |
| `ApartKeepsEachJob` | `[]JobsApart` | `Contract!JobSpec` (the lifecycle of each job) |
| `ApartCountsSaved` | `[]JobsApart`, `[]StandingsApart` | `CompletionsCounted` |
| `ApartBookingInvariance` | `[]JobsApart`, `[]BookingsApart` | `BookingInv` |
| `ApartOneActiveJob` | `[]JobsApart`, `[]BookingsApart` | `OneActiveJobPerWorker` |
| `ApartCompletionsCounted` | `[]JobsApart`, `[]BookingsApart` | `StandingsApart`, `CompletionsCounted` |
| `ApartImplementsContract` | `[]JobsApart`, `[]BookingsApart` | `ImplementsContract` (initial states and every step) |
| `ApartSpecIsApart` | `ApartSpec` | the hypotheses, and `ApartInv` |

The hypotheses say what a lock per job and a lock per booked worker would ensure;
the code has neither. So the theorems and the runs `freeze`, `double_booking` and
`record` belong together: the runs show that two requests break the promises of
the documents when they meet on a job or a worker, the theorems that nothing else
does: not requests of other jobs, failures or crashes. Which promise needs which
lock is the hypothesis column: the freeze, the record, the currency and the life
of each job need the first only. `JobContract!JobSpec` is the contract in which a
booking takes its worker whether free or not.

`JobInv` consists of `EntitiesFresh` (entity and base are the row), `ChecksCurrent`
(the deposits a quote was compared with are still the deposits), `BooksMatchStage`
(money, worker, currency and record of a job are those of its stage: before a
booking there are none, from `IN_PROGRESS` on the quote is what was paid in),
`OneCurrency` and `RecordNamesTheWorker`. From `EntitiesFresh` follows
`CommittedRow`: a commit writes the row it read with what the use case assigned.
`BookingInv` adds that a worker found free is free until the booking commits
(`BookedAreFree`): another job can only take the worker by a booking of its own.
`StandingInv` adds `StatsCurrent` (the counts read after the flush are those of the
rows at the commit), for which `StatsSame` shows that they depend only on the rows
that name the worker. `StandingsApart` follows from the other two hypotheses: two
requests that recompute one standing would be at two active jobs of one worker.

`OutboxProofs` proves, from `OutboxAssumption` alone (numbers are numbers, prices
that are not items), hence for any number of items, resends, events, late
requests and any threshold:

| Theorem | Property |
| --- | --- |
| `OutboxInvariance` | `Spec => []OutboxInv` |
| `PhotoIsKept` | `RemovedOnlyWhenSent` |
| `MessageHasItsPhoto` | `SharedPhotosExist` |
| `QueueDelivers` | `ImplementsDelivery` (initial states and every step) |

A row is written from a verdict reached several steps before, so `OutboxInv`
says what the pass in progress knows: `PassIsSound` (it works on an item that is
still to send, which is not in the rest of the pass; "Try again" touches only
`FAILED` rows, never one of the pass), `UploadsBehindAddresses` (an address in a
row, in the attempt or in a late message means a stored file) and
`DeliveredIsApplied` (a delivered verdict means the backend has what the item is
for, and the backend takes nothing back). The proof has one lemma per action
and in it one step per conjunct; `QueueDelivers` then shows each action to be a
step of `Delivery` or a stutter, with `DeliveredIsApplied` for `MarkSent`.

The service modules are proved about one by one, each from its own assumption
and for every value of its constants. Each has an inductive invariant, which
run `services` also checks (`ServicesInv` is their conjunction):

| Module, from | Theorem | Property |
| --- | --- | --- |
| `CrewOrdersProofs`, `CrewAssumption` | `CrewInvariance` | `CrewInv` |
| | `CrewTypeCorrect` | `CrewTypeOK` |
| | `CrewStatusIsBacked` | `CrewStatusBackedByLedger` |
| | `CrewIsNotDoubleBooked` | `CrewServesOneOrder` |
| | `CrewPayoutIsCovered` | `EachPayoutCovered` |
| | `CrewOrdersKeepContract` | `CrewContractKept` (refinement of `JobContract`) |
| `VettingProofs`, `VettingAssumption` | `VettingInvariance` | `VettingInv` |
| | `VettingGradesAreEarned` | `GradeWasEarned` |
| | `VettingSeniorityIsHandedOn` | `SeniorityTracesToSeeds` |
| | `VettingGradeFollowsEvidence` | `GradeFollowsEvidence` |
| `MatchingProofs`, `MatchingAssumption` | `MatchingShowsWhoCan` | `BuyersSeeWhoCanTakeTheJob` |
| | `MatchingNearestFirst` | `NearestSuggestedFirst` |
| | `MatchingMirrors` | `ListsMirrorEachOther` |
| | `MatchingCrewsCanStaff` | `ListedCrewsCanStaff` |
| `ChatProofs`, `ChatAssumption` | `ChatInvariance` | `ChatInv` |
| | `ChatShowsOnlyStored` | `OnlyStoredShown` |
| | `ChatShowsOnceInOrder` | `ShownOnceInOrder` |
| `RowsProofs`, `SignInAssumption` | `SignInInvariance` | `SignInInv` |
| | `SignInAccountsComeFromCodes` | `AccountsComeFromCodes` |
| | `SignInRoleIsKept` | `RoleIsKept` |
| `RowsProofs`, `UniqueAssumption` | `UniqueInvariance` | `UniqueInv` |
| | `UniqueAnswersMatchRows` | `AnswersMatchRows` |
| | `UniqueRegisteredHaveStanding` | `RegisteredWorkersHaveStanding` |
| `ServicesProofs`, all of these | `ServicesAreThemselves` | every service's `Spec` |
| | `ServicesInvariance` | `ServicesInv` |

`ServicesAreThemselves` shows that a behaviour of the composition, `MCServices!Spec`,
is a behaviour of `VettingSpec`, `CrewSpec`, `MatchingSpec`, `ChatSpec`, `SignInSpec`
and `UniqueSpec`: each of its steps is a step of one service and leaves the variables
of the others alone. So every theorem of a service holds in what `services` runs.

What the invariants say beyond the properties, and why:

- `CrewInv`: `CrewEntitiesBacked`, what a request's copy says of money stays covered,
  because entries are only added; `CrewDepositsCollected`, each EcoCash deposit on
  the ledger or about to be has a collection of its own; `CrewServedApart`, for
  requests that keep apart: they do (`KeepsApart`), a request's copy is the row,
  its crew is still free and the deposits it summed are still the deposits
  (`CrewCopyCurrent`), and crew and money of an order are those of its stage
  (`CrewStageBooks`). The first two carry the properties that hold under any
  overlap, the last those of requests that keep apart.
- `VettingInv`: `EntityEarned` and `EntityTraces` say of the grade a request will
  write what the properties say of the grades in the table, over the evidence that
  is committed or will be with it. `SeniorityTracesToSeeds` quantifies over every
  set that contains the seeds and is closed under vouches by its members, so no
  path has to be built: a new senior grade puts its worker in each such set,
  since a valid voucher is in it. `EntityWellFormed` includes that nobody vouches
  for himself; without it a grade could count towards itself. `EntityCurrent`
  and `VetKeepsApart` are what keeping apart adds for `GradeFollowsEvidence`: what a
  request read is still what its commit will publish, since no other commit writes
  its worker's row or a giver's (`VetCurrentBesideCommit`).
- `UniqueInv`: `RegistrationsHoldTheirRow` (the flushed row under a key is the
  registration's own until it ends), `StandingsSeenAreStored`, `StoredUploadHasFile`
  (the file is written before the row and never removed once stored).
- `SignInInv`: `CallsHaveCodes` (a verification goes on only with a stored code of
  its phone, verified before the account is looked for) and `EditsKeepRole`.
- `ChatInv`: a page on its way is in order, like the cache it will replace. The
  proof rests on lemmas about a chronological sequence of a set (`Chronological`)
  and about inserting a message into one.
- `MatchingInv` says nothing beyond types and that an answer is still the one `Ask`
  assigned, since the rows do not change under a query (`AnswersTheQuery`); it is a
  stepping stone, and `MatchingInvariance` a lemma. All content is in the four
  properties, which rest on lemmas about the operators: `BestAreaIsNearest` and
  `BestAreaDecides` (the best of a worker's areas by band and distance is a nearest one, so looking
  at it alone decides reach), `BandsAndDistances`, `Enumerates` (a list sorted by the
  key holds each candidate once), `TopKeepsTheFirst` and `NoneTwice` (cutting off
  and appending bidders).

## What is only model-checked

- Liveness, which is outside the prover: `EveryRequestFinishes`,
  `EveryItemSettles`, `VettingRequestsEnd`, `CrewRequestsEnd`, `FallbackCatchesUp`,
  `LockoutEnds`, `UniqueCallsSettle`.
- That requests keep apart (`JobsApart`, `BookingsApart`, `crewApart`, `vetApart`) is a
  hypothesis of theorems, not something the code ensures: it has no lock that
  would serialise requests.
- The seven violated properties, as counterexamples; the theorems say of three of
  them that they hold while requests keep apart. `StandingNeverDrifts` is violated
  by one request after another, too.

## What the properties do not tell apart

- `OneCurrency`, `CompletionsCounted`, `ImplementsContract`, `CrewServesOneOrder` and
  `CrewContractKept` hold only while requests keep apart. They say nothing of a stale
  save over a booking that resets a currency, of two sign-offs of one crew order that
  both release the balance, or of two bookings of one crew that both pass the check.
  The code allows all three.
- `NeverOverReleased` adds amounts whatever their currency, as `sum_by_type` does:
  deposits of two bookings in two currencies are not told apart.
- `EachPayoutCovered` compares each payout by itself with what was paid in for the
  order, so two payouts of one order may exceed it together.
- `RoleIsKept` is about the role; another field of the profile may be lost to an
  update that writes back what it read.
- `ServicesInv` bounds the attempts of a code; guesses made at the same time may be
  counted as one.

## What is not modelled

- Presentation: screens of both clients, the phone's cache of reads, the query
  cache's replay of mutations made offline (behaviour of TanStack Query), the
  service worker's page cache.
- The stateless proxy of the web app, except for its timeout, which `Outbox`
  contains.
- Deployment, telemetry, health, connection pooling. What migrations enforce
  (unique keys, trigger, append-only ledgers) is part of the modules.
- The log of payment callbacks: appended to, never read, not reconciled with the
  ledger by design.
- Tokens, which keep no state, and the development login.
- The list of suburbs and the other reads that only show rows.
- No property says what the counts of a standing are between a lost update of two
  overlapping recomputations and the next one, which makes them true again.

`PROJECT.json` gives the reason for each component.

## Plan

Done: all modules, their runs, theorems for every safety property that a passing
run checks, the theorems about requests that keep apart (jobs, crew orders, vetting), and
the composition of the services. Left:

1. `UniqueRows` and `SignIn`: action properties, that an answered key is never
   answered otherwise later and that a verified code stays verified.
