----------------------------- MODULE QuickHire -----------------------------
(***************************************************************************)
(* The Quick Hire core of the backend: the life of a job, its ledger, its  *)
(* disputes, its record entry and its worker's standing, as the use cases  *)
(* of app/apps/jobs/domain/services.py change them.                        *)
(*                                                                         *)
(* Every use case runs in one Postgres READ COMMITTED transaction and has  *)
(* the shape get -> check -> save -> commit with an await at each arrow,   *)
(* no row version and no SELECT ... FOR UPDATE.  So a request in flight is *)
(* a record of its own: the entity get() copied out of the row (ent), the  *)
(* row save() selects again just before it assigns its columns (base: the  *)
(* session's identity map is weak and nothing keeps the first model        *)
(* object), and what the checks found.  At commit the UPDATE writes only   *)
(* the columns in which the entity differs from base.                      *)
(*                                                                         *)
(* Abstracted: trade, suburb, texts and photos; labor + materials are one  *)
(* quote; a caller without the right role, skill or ownership is refused   *)
(* without a state change and is left out; matching itself (which          *)
(* candidates are listed) reads only.                                      *)
(***************************************************************************)
EXTENDS Integers, FiniteSets

CONSTANTS
  Jobs, Workers,          \* rows of jobs; skilled persons with role WORKER
  Requests,               \* HTTP requests the API runs at the same time
  Currencies, EcoCash,    \* CurrencyEnum; the one that is collected digitally
  Deposits, Quotes,       \* amounts a client may send
  NoWorker, NoCurrency,   \* NULL in jobs.worker_id and jobs.currency
  NoRequest,              \* content of an idle request slot
  MaxDisputes,            \* bound: disputes inserted per job
  MaxCollections          \* bound: collections EcoCash takes per job

NoQuote == 0              \* NULL in jobs.quote_amount (amounts are > 0)

ASSUME ConstantsAssumption ==
  /\ NoWorker \notin Workers
  /\ NoCurrency \notin Currencies
  /\ Deposits \subseteq Nat \ {0}
  /\ Quotes \subseteq Nat \ {0}
  /\ MaxDisputes \in Nat
  /\ MaxCollections \in Nat
  /\ IsFiniteSet(Jobs)
  /\ IsFiniteSet(Requests)

VARIABLES
  job,        \* the jobs table: status, worker, currency and quote of each row
  ledger,     \* ledger_entries: per job and type, how many rows and their sum
  disputes,   \* disputes: status of each dispute, numbered by created_at
  clock,      \* disputes inserted so far, committed or rolled back
  record,     \* record_entries: the worker on the job's record, or NoWorker
  standing,   \* standings: the statistics each worker's rates were computed from
  collected,  \* EcoCash: collections the provider has taken for the job
  pc,         \* how far each request has come
  req         \* each request in flight

db == <<job, ledger, disputes, record, standing>>
vars == <<db, clock, collected, pc, req>>

----------------------------------------------------------------------------
(* Types *)

\* ABSENT stands for a row that does not exist yet.  CANCELLED is never set.
Statuses ==
  {"ABSENT", "REQUESTED", "MATCHED", "BOOKED", "IN_PROGRESS", "DISPUTED",
   "COMPLETED"}

EntryTypes == {"DEPOSIT_HELD", "BALANCE_COMMITTED", "RELEASED"}

DisputeStatuses == {"NONE", "OPEN", "RESOLVED_RETURN_VISIT"}

DisputeIds == 1 .. MaxDisputes

Row ==
  [status   : Statuses,
   worker   : Workers \cup {NoWorker},
   currency : Currencies \cup {NoCurrency},
   quote    : Nat]

\* The rows of one entry type of one job: count, sum, how many carry an
\* external reference, and the currencies that occur.
Entries == [n : Nat, total : Nat, refs : Nat, currencies : SUBSET Currencies]

Stats == [booked : Nat, completed : Nat, disputed : Nat, redone : Nat]

Operations == {"Match", "Book", "Quote", "Complete", "Raise", "Respond"}

Phases == {"idle", "loaded", "checked", "collected", "selected", "flushed"}

Request ==
  [op        : Operations,
   job       : Jobs,
   worker    : Workers \cup {NoWorker},         \* BookJob: worker_id
   currency  : Currencies \cup {NoCurrency},    \* BookJob: currency
   amount    : Nat,                             \* BookJob, SubmitQuote
   ent       : Row,                             \* what get() returned
   base      : Row,                             \* what save() selected
   deposited : Nat,                             \* SubmitQuote: deposit_total
   dispute   : 0 .. MaxDisputes,                \* the dispute raised or answered
   stats     : Stats]                           \* what get_stats() returned

TypeOK ==
  /\ job \in [Jobs -> Row]
  /\ ledger \in [Jobs -> [EntryTypes -> Entries]]
  /\ disputes \in [Jobs -> [DisputeIds -> DisputeStatuses]]
  /\ clock \in [Jobs -> 0 .. MaxDisputes]
  /\ record \in [Jobs -> Workers \cup {NoWorker}]
  /\ standing \in [Workers -> Stats]
  /\ collected \in [Jobs -> Nat]
  /\ pc \in [Requests -> Phases]
  /\ req \in [Requests -> Request \cup {NoRequest}]
  /\ \A r \in Requests : pc[r] # "idle" => req[r] \in Request

NoEntries == [n |-> 0, total |-> 0, refs |-> 0, currencies |-> {}]

NoStats == [booked |-> 0, completed |-> 0, disputed |-> 0, redone |-> 0]

EmptyRow ==
  [status |-> "ABSENT", worker |-> NoWorker, currency |-> NoCurrency,
   quote |-> NoQuote]

Init ==
  /\ job = [j \in Jobs |-> EmptyRow]
  /\ ledger = [j \in Jobs |-> [t \in EntryTypes |-> NoEntries]]
  /\ disputes = [j \in Jobs |-> [d \in DisputeIds |-> "NONE"]]
  /\ clock = [j \in Jobs |-> 0]
  /\ record = [j \in Jobs |-> NoWorker]
  /\ standing = [w \in Workers |-> NoStats]
  /\ collected = [j \in Jobs |-> 0]
  /\ pc = [r \in Requests |-> "idle"]
  /\ req = [r \in Requests |-> NoRequest]

----------------------------------------------------------------------------
(* What the repositories compute *)

\* Mutation: a worker in a dispute is taken for free.
BusyWithoutDisputed == {"MATCHED", "BOOKED", "IN_PROGRESS"}

\* JOB_BUSY_STATUSES
BusyStatuses == {"MATCHED", "BOOKED", "IN_PROGRESS", "DISPUTED"}

IsWorkerBusy(w) ==
  \E j \in Jobs : job[j].worker = w /\ job[j].status \in BusyStatuses

\* Mutation: the entry of that type is replaced, as an upsert would.
UpsertEntry(j, t, amount, currency, refs) ==
  ledger' = [ledger EXCEPT ![j][t] =
               [n          |-> 1,
                total      |-> amount,
                refs       |-> refs,
                currencies |-> {currency}]]

\* LedgerEntryRepository.add: one more row of type t.
AddEntry(j, t, amount, currency, refs) ==
  ledger' = [ledger EXCEPT ![j][t] =
               [n          |-> @.n + 1,
                total      |-> @.total + amount,
                refs       |-> @.refs + refs,
                currencies |-> @.currencies \cup {currency}]]

\* LedgerEntryRepository.sum_by_type
SumByType(j, t) == ledger[j][t].total

\* DisputeRepository.get_latest_open: the OPEN dispute inserted last.
IsLatestOpen(j, d) ==
  /\ disputes[j][d] = "OPEN"
  /\ \A e \in DisputeIds : disputes[j][e] = "OPEN" => e <= d

\* Mutation: BookJob does not set the currency.
AssignedWithoutCurrency(q) ==
  CASE q.op = "Match"    -> [q.ent EXCEPT !.status = "MATCHED"]
    [] q.op = "Book"     -> [q.ent EXCEPT !.status = "BOOKED", !.worker = q.worker]
    [] q.op = "Quote"    -> [q.ent EXCEPT !.status = "IN_PROGRESS",
                                          !.quote = q.amount]
    [] q.op = "Complete" -> [q.ent EXCEPT !.status = "COMPLETED"]
    [] q.op = "Raise"    -> [q.ent EXCEPT !.status = "DISPUTED"]
    [] q.op = "Respond"  -> [q.ent EXCEPT !.status = "IN_PROGRESS"]

\* The attributes the use case assigns to its entity before save().
Assigned(q) ==
  CASE q.op = "Match"    -> [q.ent EXCEPT !.status = "MATCHED"]
    [] q.op = "Book"     -> [q.ent EXCEPT !.status = "BOOKED",
                                          !.worker = q.worker,
                                          !.currency = q.currency]
    [] q.op = "Quote"    -> [q.ent EXCEPT !.status = "IN_PROGRESS",
                                          !.quote = q.amount]
    [] q.op = "Complete" -> [q.ent EXCEPT !.status = "COMPLETED"]
    [] q.op = "Raise"    -> [q.ent EXCEPT !.status = "DISPUTED"]
    [] q.op = "Respond"  -> [q.ent EXCEPT !.status = "IN_PROGRESS"]

\* UPDATE jobs SET: a column is written when the entity differs in it from
\* the row save() selected; the others keep what the table holds by then.
Column(now, base, new) == IF new = base THEN now ELSE new

Updated(q) ==
  LET now == job[q.job]
      new == Assigned(q)
  IN  [status   |-> Column(now.status, q.base.status, new.status),
       worker   |-> Column(now.worker, q.base.worker, new.worker),
       currency |-> Column(now.currency, q.base.currency, new.currency),
       quote    |-> Column(now.quote, q.base.quote, new.quote)]

\* An UPDATE is emitted, and the row locked until commit, only for a change.
Dirty(q) == Assigned(q) # q.base

RowLocked(j) ==
  \E p \in Requests : pc[p] = "flushed" /\ req[p].job = j /\ Dirty(req[p])

\* WorkerJobStatsAdapter.get_stats over the committed rows and the
\* request's own flushed job (and dispute).
StatsOf(w, rows, raised) ==
  LET mine == {j \in Jobs : rows[j].worker = w}
      done == {j \in mine : rows[j].status = "COMPLETED"}
  IN  [booked    |-> Cardinality(mine),
       completed |-> Cardinality(done),
       disputed  |-> Cardinality(mine \cap raised),
       redone    |-> Cardinality(done \cap raised)]

DisputedJobs == {j \in Jobs : \E d \in DisputeIds : disputes[j][d] # "NONE"}

\* Mutation: the statistics are read before the job is flushed.
GetStatsUnflushed(q) == StatsOf(q.ent.worker, job, DisputedJobs)

GetStats(q) ==
  StatsOf(q.ent.worker,
          [job EXCEPT ![q.job] = Updated(q)],
          DisputedJobs \cup (IF q.op = "Raise" THEN {q.job} ELSE {}))

\* _pct, in hundredths of a percent and rounded half up.
Pct(numerator, denominator, default) ==
  IF denominator = 0
    THEN default
    ELSE (20000 * numerator + denominator) \div (2 * denominator)

\* RecomputeStanding: the columns of a standing, from the statistics.
Rates(s) ==
  [jobs_completed |-> s.completed,
   fill_rate      |-> Pct(s.completed, s.booked, 0),
   dispute_rate   |-> Pct(s.disputed, s.booked, 0),
   on_time_rate   |-> Pct(s.completed - s.redone, s.completed, 10000)]

----------------------------------------------------------------------------
(* Request bookkeeping *)

At(r, op, phase) == pc[r] = phase /\ req[r].op = op

Goto(r, phase, q) ==
  /\ pc' = [pc EXCEPT ![r] = phase]
  /\ req' = [req EXCEPT ![r] = q]

Finish(r) ==
  /\ pc' = [pc EXCEPT ![r] = "idle"]
  /\ req' = [req EXCEPT ![r] = NoRequest]

\* Mutation: the status is not checked.
GetAnyStatus(r, op, j, status, w, c, amount) ==
  /\ pc[r] = "idle"
  /\ job[j].status # "ABSENT"
  /\ Goto(r, "loaded",
          [op |-> op, job |-> j, worker |-> w, currency |-> c,
           amount |-> amount, ent |-> job[j], base |-> job[j],
           deposited |-> 0, dispute |-> 0, stats |-> NoStats])
  /\ UNCHANGED <<db, clock, collected>>

\* JobRepository.get and the status check every use case starts with.
Get(r, op, j, status, w, c, amount) ==
  /\ pc[r] = "idle"
  /\ job[j].status = status
  /\ Goto(r, "loaded",
          [op |-> op, job |-> j, worker |-> w, currency |-> c,
           amount |-> amount, ent |-> job[j], base |-> job[j],
           deposited |-> 0, dispute |-> 0, stats |-> NoStats])
  /\ UNCHANGED <<db, clock, collected>>

----------------------------------------------------------------------------
(* The use cases: first step *)

CreateJobRequest(j) ==
  /\ job[j].status = "ABSENT"
  /\ job' = [job EXCEPT ![j].status = "REQUESTED"]
  /\ UNCHANGED <<ledger, disputes, clock, record, standing, collected, pc, req>>

\* On a job that is MATCHED already nothing is written.
GetJobMatches(r, j) == Get(r, "Match", j, "REQUESTED", NoWorker, NoCurrency, 0)

BookJob(r, j, w, c, deposit) == Get(r, "Book", j, "MATCHED", w, c, deposit)

\* Only the worker on the row gets past the 403.
SubmitQuote(r, j, quote) ==
  /\ job[j].worker # NoWorker
  /\ Get(r, "Quote", j, "BOOKED", NoWorker, NoCurrency, quote)

CompleteJob(r, j) ==
  /\ job[j].worker # NoWorker                        \* assert
  /\ Get(r, "Complete", j, "IN_PROGRESS", NoWorker, NoCurrency, 0)

RaiseDispute(r, j) == Get(r, "Raise", j, "IN_PROGRESS", NoWorker, NoCurrency, 0)

RespondToDispute(r, j) ==
  /\ job[j].worker # NoWorker
  /\ Get(r, "Respond", j, "DISPUTED", NoWorker, NoCurrency, 0)

----------------------------------------------------------------------------
(* The use cases: checks and inserts between get() and save() *)

Check(r, q) ==
  /\ Goto(r, "checked", q)
  /\ UNCHANGED <<db, collected>>

\* BookJob: is_worker_busy over the committed rows.
CheckBusy(r) ==
  /\ At(r, "Book", "loaded")
  /\ ~IsWorkerBusy(req[r].worker)
  /\ Check(r, req[r])
  /\ UNCHANGED clock

\* BookJob: initiate_collection, outside the transaction.  The provider takes
\* the money; its answer arrives, or the request ends with 502.
Collect(r) ==
  LET q == req[r] IN
  /\ At(r, "Book", "checked")
  /\ q.currency = EcoCash
  /\ collected[q.job] < MaxCollections
  /\ collected' = [collected EXCEPT ![q.job] = @ + 1]
  /\ Goto(r, "collected", q) \/ Finish(r)
  /\ UNCHANGED <<db, clock>>

\* Mutation: any quote is accepted.
SumDepositsUnchecked(r) ==
  LET q == req[r] IN
  /\ At(r, "Quote", "loaded")
  /\ q.ent.currency # NoCurrency
  /\ Check(r, [q EXCEPT !.deposited = SumByType(q.job, "DEPOSIT_HELD")])
  /\ UNCHANGED clock

\* SubmitQuote: the quote must exceed the deposits on the ledger.
SumDeposits(r) ==
  LET q == req[r]
      total == SumByType(q.job, "DEPOSIT_HELD")
  IN  /\ At(r, "Quote", "loaded")
      /\ q.amount > total
      /\ q.ent.currency # NoCurrency                 \* assert
      /\ Check(r, [q EXCEPT !.deposited = total])
      /\ UNCHANGED clock

\* Mutation: no unique index, the insert never waits.
NoUniqueIndex(r) == FALSE

\* Mutation: the entry is reserved when the job is read.
RecordPendingOnRead(r) ==
  \E p \in Requests \ {r} :
    /\ pc[p] # "idle"
    /\ req[p].op = "Complete"
    /\ req[p].job = req[r].job

\* record_entries.job_id is UNIQUE: a second insert waits for the first.
RecordPending(r) ==
  \E p \in Requests \ {r} :
    /\ pc[p] \in {"checked", "selected", "flushed"}
    /\ req[p].op = "Complete"
    /\ req[p].job = req[r].job

\* check_record_entry_worker_matches_job, before the insert.
TriggerPasses(q) == job[q.job].worker = q.ent.worker

\* CompleteJob: the record entry and the RELEASED entry, not yet committed.
InsertRecord(r) ==
  LET q == req[r] IN
  /\ At(r, "Complete", "loaded")
  /\ TriggerPasses(q)
  /\ ~RecordPending(r)
  /\ record[q.job] = NoWorker
  /\ q.ent.currency # NoCurrency                     \* assert
  /\ q.ent.quote # NoQuote                           \* assert
  /\ Check(r, q)
  /\ UNCHANGED clock

InsertDispute(r) ==
  LET q == req[r] IN
  /\ At(r, "Raise", "loaded")
  /\ clock[q.job] < MaxDisputes
  /\ clock' = [clock EXCEPT ![q.job] = @ + 1]
  /\ Check(r, [q EXCEPT !.dispute = clock[q.job] + 1])

FindOpenDispute(r) ==
  /\ At(r, "Respond", "loaded")
  /\ \E d \in DisputeIds :
       /\ IsLatestOpen(req[r].job, d)
       /\ Check(r, [req[r] EXCEPT !.dispute = d])
  /\ UNCHANGED clock

----------------------------------------------------------------------------
(* The use cases: JobRepository.save *)

\* Mutation: an EcoCash booking is saved without waiting for the collection.
ReadyUncollected(r) ==
  IF req[r].op = "Match" THEN pc[r] = "loaded" ELSE pc[r] \in {"checked", "collected"}

ReadyToSave(r) ==
  LET q == req[r] IN
  CASE q.op = "Match" -> pc[r] = "loaded"
    [] q.op = "Book" /\ q.currency = EcoCash -> pc[r] = "collected"
    [] OTHER -> pc[r] = "checked"

\* RespondToDispute updates its dispute row first and locks it until commit.
DisputeLocked(q) ==
  \E p \in Requests :
    /\ At(p, "Respond", "selected")
    /\ req[p].job = q.job
    /\ req[p].dispute = q.dispute

SaveSelect(r) ==
  LET q == req[r] IN
  /\ pc[r] # "idle"
  /\ ReadyToSave(r)
  /\ q.op = "Respond" => ~DisputeLocked(q)
  /\ Goto(r, "selected", [q EXCEPT !.base = job[q.job]])
  /\ UNCHANGED <<db, clock, collected>>

\* CompleteJob and RaiseDispute flush the UPDATE, then RecomputeStanding
\* reads the statistics.
SaveFlush(r) ==
  LET q == req[r] IN
  /\ pc[r] = "selected"
  /\ q.op \in {"Complete", "Raise"}
  /\ q.ent.worker # NoWorker                         \* assert
  /\ Dirty(q) => ~RowLocked(q.job)
  /\ Goto(r, "flushed", [q EXCEPT !.stats = GetStats(q)])
  /\ UNCHANGED <<db, clock, collected>>

----------------------------------------------------------------------------
(* The use cases: the UPDATE, what is inserted after it, and the commit *)

UpdateJob(r) ==
  LET q == req[r] IN
  /\ pc[r] = "selected"
  /\ Dirty(q) => ~RowLocked(q.job)
  /\ job' = [job EXCEPT ![q.job] = Updated(q)]
  /\ Finish(r)
  /\ UNCHANGED <<clock, record, standing, collected>>

CommitMatch(r) ==
  /\ At(r, "Match", "selected")
  /\ UpdateJob(r)
  /\ UNCHANGED <<ledger, disputes>>

CommitBook(r) ==
  LET q == req[r] IN
  /\ At(r, "Book", "selected")
  /\ UpdateJob(r)
  /\ AddEntry(q.job, "DEPOSIT_HELD", q.amount, q.currency,
              IF q.currency = EcoCash THEN 1 ELSE 0)
  /\ UNCHANGED disputes

\* Mutation: the balance is not put on the ledger.
CommitQuoteUnbooked(r) ==
  /\ At(r, "Quote", "selected")
  /\ UpdateJob(r)
  /\ UNCHANGED <<ledger, disputes>>

CommitQuote(r) ==
  LET q == req[r] IN
  /\ At(r, "Quote", "selected")
  /\ UpdateJob(r)
  /\ AddEntry(q.job, "BALANCE_COMMITTED", q.amount - q.deposited,
              q.ent.currency, 0)
  /\ UNCHANGED disputes

\* Mutation: the answer resolves every dispute of the job.
CommitRespondAll(r) ==
  LET q == req[r] IN
  /\ At(r, "Respond", "selected")
  /\ UpdateJob(r)
  /\ disputes' = [disputes EXCEPT ![q.job] =
                    [d \in DisputeIds |->
                       IF @[d] = "OPEN" THEN "RESOLVED_RETURN_VISIT" ELSE @[d]]]
  /\ UNCHANGED ledger

CommitRespond(r) ==
  LET q == req[r] IN
  /\ At(r, "Respond", "selected")
  /\ UpdateJob(r)
  /\ disputes' = [disputes EXCEPT ![q.job][q.dispute] = "RESOLVED_RETURN_VISIT"]
  /\ UNCHANGED ledger

\* The row is locked since SaveFlush: the UPDATE and the standing of the
\* entity's worker become visible together.
CommitFlushed(r) ==
  LET q == req[r] IN
  /\ pc[r] = "flushed"
  /\ job' = [job EXCEPT ![q.job] = Updated(q)]
  /\ standing' = [standing EXCEPT ![q.ent.worker] = q.stats]
  /\ Finish(r)
  /\ UNCHANGED <<clock, collected>>

CommitComplete(r) ==
  LET q == req[r] IN
  /\ At(r, "Complete", "flushed")
  /\ CommitFlushed(r)
  /\ record' = [record EXCEPT ![q.job] = q.ent.worker]
  /\ AddEntry(q.job, "RELEASED", q.ent.quote, q.ent.currency, 0)
  /\ UNCHANGED disputes

CommitRaise(r) ==
  LET q == req[r] IN
  /\ At(r, "Raise", "flushed")
  /\ CommitFlushed(r)
  /\ disputes' = [disputes EXCEPT ![q.job][q.dispute] = "OPEN"]
  /\ UNCHANGED <<ledger, record>>

----------------------------------------------------------------------------
(* Requests that end without a commit *)

\* The checks that raise after get(): 409 busy, 502/503 from EcoCash, 422
\* quote too low, an assert, the trigger or the unique index, 404 no dispute.
Refused(r) ==
  LET q == req[r] IN
  \/ At(r, "Book", "loaded") /\ IsWorkerBusy(q.worker)
  \/ At(r, "Book", "checked") /\ q.currency = EcoCash
  \/ /\ At(r, "Quote", "loaded")
     /\ \/ q.amount <= SumByType(q.job, "DEPOSIT_HELD")
        \/ q.ent.currency = NoCurrency
  \/ /\ At(r, "Complete", "loaded")
     /\ \/ ~TriggerPasses(q)
        \/ record[q.job] # NoWorker
        \/ q.ent.currency = NoCurrency
        \/ q.ent.quote = NoQuote
  \/ At(r, "Respond", "loaded") /\ ~\E d \in DisputeIds : IsLatestOpen(q.job, d)
  \/ At(r, "Raise", "selected") /\ q.ent.worker = NoWorker
  \/ At(r, "Raise", "loaded") /\ clock[q.job] = MaxDisputes        \* bound

Rollback(r) ==
  /\ Finish(r)
  /\ UNCHANGED <<db, clock, collected>>

Refuse(r) ==
  /\ pc[r] # "idle"
  /\ Refused(r)
  /\ Rollback(r)

\* The client disconnects, the process dies or the connection drops: the
\* session closes and rolls back.
Crash(r) ==
  /\ pc[r] # "idle"
  /\ Rollback(r)

----------------------------------------------------------------------------
(* Specification *)

Start(r) ==
  \E j \in Jobs :
    \/ GetJobMatches(r, j)
    \/ \E w \in Workers, c \in Currencies, a \in Deposits : BookJob(r, j, w, c, a)
    \/ \E a \in Quotes : SubmitQuote(r, j, a)
    \/ CompleteJob(r, j)
    \/ RaiseDispute(r, j)
    \/ RespondToDispute(r, j)

\* What the event loop and Postgres do for a request that is not cut off.
Progress(r) ==
  \/ CheckBusy(r)
  \/ Collect(r)
  \/ SumDeposits(r)
  \/ InsertRecord(r)
  \/ InsertDispute(r)
  \/ FindOpenDispute(r)
  \/ SaveSelect(r)
  \/ SaveFlush(r)
  \/ CommitMatch(r)
  \/ CommitBook(r)
  \/ CommitQuote(r)
  \/ CommitRespond(r)
  \/ CommitComplete(r)
  \/ CommitRaise(r)
  \/ Refuse(r)

Next ==
  \/ \E j \in Jobs : CreateJobRequest(j)
  \/ \E r \in Requests : Start(r) \/ Progress(r) \/ Crash(r)

Spec == Init /\ [][Next]_vars

\* The event loop resumes every request, and Postgres queues lock waiters in
\* order: a request that can go on again and again does go on.
FairSpec == Spec /\ \A r \in Requests : SF_vars(Progress(r))

----------------------------------------------------------------------------
(* Properties: whatever the interleaving *)

InFlight(r) == pc[r] # "idle"

\* What the ledger and the record must hold for a job of this status.
Backed(j, status) ==
  /\ status \in {"BOOKED", "IN_PROGRESS", "DISPUTED", "COMPLETED"}
       => ledger[j]["DEPOSIT_HELD"].n > 0
  /\ status \in {"IN_PROGRESS", "DISPUTED", "COMPLETED"}
       => ledger[j]["BALANCE_COMMITTED"].n > 0
  /\ status = "COMPLETED" => ledger[j]["RELEASED"].n = 1

\* However stale the entity a request writes back, no job row shows a stage
\* whose money is not on the ledger: BOOKED has a deposit, work in progress
\* and disputes have a committed balance, COMPLETED has been paid out.
StatusBackedByLedger == \A j \in Jobs : Backed(j, job[j].status)

\* Two sign-offs at once, a retried one, or one after the row went back to an
\* earlier stage: the worker is paid at most once, and exactly when the record
\* entry exists, because the unique index on record_entries.job_id makes the
\* second CompleteJob fail before its RELEASED entry commits.
SignedOffOnce ==
  \A j \in Jobs :
    ledger[j]["RELEASED"].n = (IF record[j] = NoWorker THEN 0 ELSE 1)

PaidIn(j) == ledger[j]["DEPOSIT_HELD"].total + ledger[j]["BALANCE_COMMITTED"].total

\* What is released for a job never exceeds what its buyer put in, although
\* quote_amount is released from an entity that may be stale, and deposits and
\* quotes may race.
NeverOverReleased == \A j \in Jobs : ledger[j]["RELEASED"].total <= PaidIn(j)

\* A DISPUTED job always has a dispute its worker can still answer: racing
\* answers, or an answer racing a new dispute, never resolve the last open
\* dispute and leave the row DISPUTED, from where only RespondToDispute leads.
DisputedHasOpenDispute ==
  \A j \in Jobs :
    job[j].status = "DISPUTED" => \E d \in DisputeIds : disputes[j][d] = "OPEN"

\* Requests between EcoCash's answer and the commit of the deposit it paid.
CollectedInFlight(j) ==
  {r \in Requests :
     /\ pc[r] \in {"collected", "selected"}
     /\ req[r].op = "Book"
     /\ req[r].job = j
     /\ req[r].currency = EcoCash}

\* No EcoCash deposit is on the ledger, or about to be, that the provider did
\* not collect: each collection backs at most one DEPOSIT_HELD row.
EcoCashDepositsCollected ==
  \A j \in Jobs :
    ledger[j]["DEPOSIT_HELD"].refs + Cardinality(CollectedInFlight(j)) <= collected[j]

Total(t) == [j \in Jobs |-> ledger[j][t].total]

Bank == INSTANCE Escrow WITH
  held <- Total("DEPOSIT_HELD"),
  committed <- Total("BALANCE_COMMITTED"),
  released <- Total("RELEASED")

\* The ledger implements the escrow account: append-only, released once and
\* never beyond what was paid in, under every interleaving and crash.
ImplementsEscrow == Bank!Spec

\* Every request the API accepted ends, with a response or a rollback: no two
\* of them wait for each other's record entry, dispute row or job row forever.
EveryRequestFinishes == \A r \in Requests : InFlight(r) ~> ~InFlight(r)

----------------------------------------------------------------------------
(* Why these properties hold: what the requests in flight rely on *)

\* The status get() checked, by operation.
Source ==
  [Match |-> "REQUESTED", Book |-> "MATCHED", Quote |-> "BOOKED",
   Complete |-> "IN_PROGRESS", Raise |-> "IN_PROGRESS", Respond |-> "DISPUTED"]

\* What the checks found stays true of the entity: it is the request's own.
ChecksPassed ==
  \A r \in Requests : InFlight(r) =>
    LET q == req[r] IN
    /\ q.op = "Book" => q.currency \in Currencies /\ q.amount > 0
    /\ q.op = "Quote" /\ pc[r] # "loaded" =>
         q.deposited < q.amount /\ q.ent.currency # NoCurrency
    /\ q.op = "Complete" => q.ent.worker # NoWorker
    /\ q.op = "Complete" /\ pc[r] # "loaded" =>
         q.ent.currency # NoCurrency /\ q.ent.quote # NoQuote

\* Ledger rows are never removed, so what backed an entity still backs it.
EntitiesBacked ==
  \A r \in Requests : InFlight(r) =>
    /\ req[r].ent.status = Source[req[r].op]
    /\ Backed(req[r].job, req[r].ent.status)

SigningOff(r) ==
  pc[r] \in {"checked", "selected", "flushed"} /\ req[r].op = "Complete"

\* One CompleteJob at a time holds a job's entry in the unique index.
SignOffExclusive ==
  \A r \in Requests : SigningOff(r) =>
    /\ record[req[r].job] = NoWorker
    /\ \A p \in Requests : SigningOff(p) /\ req[p].job = req[r].job => p = r

\* Every quote that is in a row, or in an entity that may be written back to
\* it, was paid in.
QuotesPaidIn ==
  /\ \A j \in Jobs :
       /\ job[j].quote <= PaidIn(j)
       /\ record[j] = NoWorker => ledger[j]["RELEASED"].total = 0
  /\ \A r \in Requests : InFlight(r) =>
       /\ req[r].ent.quote <= PaidIn(req[r].job)
       /\ req[r].op = "Quote" /\ pc[r] # "loaded" =>
            req[r].deposited <= ledger[req[r].job]["DEPOSIT_HELD"].total

Raising(r) ==
  pc[r] \in {"checked", "selected", "flushed"} /\ req[r].op = "Raise"

Answering(r) == pc[r] \in {"checked", "selected"} /\ req[r].op = "Respond"

\* Dispute numbers are handed out once.
DisputesNumbered ==
  /\ \A j \in Jobs, d \in DisputeIds : d > clock[j] => disputes[j][d] = "NONE"
  /\ \A r \in Requests : Raising(r) =>
       /\ req[r].dispute \in 1 .. clock[req[r].job]
       /\ disputes[req[r].job][req[r].dispute] = "NONE"
       /\ \A p \in Requests :
            Raising(p) /\ req[p].job = req[r].job /\ req[p].dispute = req[r].dispute
              => p = r
  /\ \A r \in Requests : Answering(r) =>
       /\ req[r].dispute \in DisputeIds
       /\ disputes[req[r].job][req[r].dispute] # "NONE"

\* While a job is DISPUTED some open dispute has no answer on its way that
\* would resolve it and leave the status alone.
DisputeAnswerable ==
  \A j \in Jobs : job[j].status = "DISPUTED" =>
    \E d \in DisputeIds :
      /\ disputes[j][d] = "OPEN"
      /\ \A r \in Requests :
           /\ At(r, "Respond", "selected")
           /\ req[r].job = j
           /\ req[r].dispute = d
           => req[r].base.status = "DISPUTED"

\* The inductive invariant: each of the properties above follows from it.
IndInv ==
  /\ TypeOK
  /\ ChecksPassed
  /\ StatusBackedByLedger
  /\ EntitiesBacked
  /\ SignedOffOnce
  /\ SignOffExclusive
  /\ QuotesPaidIn
  /\ NeverOverReleased
  /\ DisputesNumbered
  /\ DisputeAnswerable

----------------------------------------------------------------------------
(* Which requests must keep apart, and what holds when they do *)

\* No two requests work on the same job.
JobsApart ==
  \A p, r \in Requests :
    InFlight(p) /\ InFlight(r) /\ req[p].job = req[r].job => p = r

Booking(r) == InFlight(r) /\ req[r].op = "Book"

\* No two requests book the same worker.
BookingsApart ==
  \A p, r \in Requests :
    Booking(p) /\ Booking(r) /\ req[p].worker = req[r].worker => p = r

\* No two sign-offs or disputes of one worker are between the statistics and
\* their commit: follows where the other two hold.
StandingsApart ==
  \A p, r \in Requests :
    /\ pc[p] = "flushed" /\ pc[r] = "flushed"
    /\ req[p].ent.worker = req[r].ent.worker
    => p = r

\* Requests interleave at will, except that no two race for a job or for the
\* worker they book.
ApartSpec == Init /\ [][Next /\ (JobsApart /\ BookingsApart)']_vars

Contract == INSTANCE JobContract WITH
  status <- [j \in Jobs |-> job[j].status],
  worker <- [j \in Jobs |-> job[j].worker],
  held <- Total("DEPOSIT_HELD"),
  committed <- Total("BALANCE_COMMITTED"),
  released <- Total("RELEASED")

\* Where no two requests race for a job or for a worker, crashes included, the
\* use cases keep the lifecycle the documents describe: each stage once and in
\* order, no worker with two active jobs, the payout equal to deposit plus
\* balance, nothing released while a dispute is open.
ImplementsContract == Contract!Spec

\* Every entry of a job is in the currency fixed at its booking.
OneCurrency ==
  \A j \in Jobs, t \in EntryTypes :
    ledger[j][t].currencies \subseteq {job[j].currency}

Truth(w) == StatsOf(w, job, DisputedJobs)

\* RecomputeStanding runs in the transactions that complete or dispute a job,
\* so the completed and redone counts on a standing are always the true ones.
CompletionsCounted ==
  \A w \in Workers :
    /\ standing[w].completed = Truth(w).completed
    /\ standing[w].redone = Truth(w).redone

----------------------------------------------------------------------------
(* What the documents say and concurrent requests break *)

\* RaiseDispute: "money freezes (no further ledger release)".
MoneyFreezes ==
  [][\A j \in Jobs :
       job[j].status = "DISPUTED" => ledger'[j]["RELEASED"] = ledger[j]["RELEASED"]]_vars

\* BookJob: the chosen worker is "not already tied to another active job".
OneActiveJobPerWorker ==
  \A i, j \in Jobs :
    /\ job[i].worker # NoWorker
    /\ job[i].worker = job[j].worker
    /\ job[i].status \in BusyStatuses
    /\ job[j].status \in BusyStatuses
    => i = j

\* RecomputeStanding: the rates "can never drift out of sync with reality".
StandingNeverDrifts == \A w \in Workers : Rates(standing[w]) = Rates(Truth(w))

\* record_entries.worker_id "stays in sync with jobs.worker_id".
RecordNamesTheWorker ==
  \A j \in Jobs : record[j] # NoWorker => record[j] = job[j].worker

----------------------------------------------------------------------------
(* Why the properties of requests that keep apart hold *)

\* Nothing else commits to the job between a get() and its save(): what the
\* use case works on is the row.
EntitiesFresh ==
  \A r \in Requests : InFlight(r) =>
    /\ req[r].ent = job[req[r].job]
    /\ pc[r] \in {"selected", "flushed"} => req[r].base = job[req[r].job]

\* What the client sent, and the deposits a quote was compared with.
CheckCurrent(r) ==
  LET q == req[r] IN
  /\ q.op = "Book" => q.worker \in Workers /\ q.amount \in Deposits
  /\ q.op = "Quote" =>
       /\ q.amount \in Quotes
       /\ pc[r] # "loaded" => q.deposited = SumByType(q.job, "DEPOSIT_HELD")

ChecksCurrent == \A r \in Requests : InFlight(r) => CheckCurrent(r)

\* A job's worker, money and record are those of its stage.
StageBooks(j) ==
  /\ job[j].status \in {"ABSENT", "REQUESTED", "MATCHED"} =>
       /\ job[j].worker = NoWorker
       /\ job[j].currency = NoCurrency
       /\ ledger[j]["DEPOSIT_HELD"].total = 0
  /\ IF job[j].status \in {"IN_PROGRESS", "DISPUTED", "COMPLETED"}
       THEN job[j].quote = PaidIn(j)
       ELSE ledger[j]["BALANCE_COMMITTED"].total = 0
  /\ job[j].status # "COMPLETED" => record[j] = NoWorker

BooksMatchStage == \A j \in Jobs : StageBooks(j)

\* Inductive beside IndInv where JobsApart holds.
JobInv ==
  /\ EntitiesFresh
  /\ ChecksCurrent
  /\ BooksMatchStage
  /\ OneCurrency
  /\ RecordNamesTheWorker

\* The worker a booking found free is still free.
BookedAreFree ==
  \A r \in Requests : Booking(r) /\ pc[r] # "loaded" => ~IsWorkerBusy(req[r].worker)

\* Inductive beside JobInv where BookingsApart holds.
BookingInv == BookedAreFree /\ OneActiveJobPerWorker

\* The statistics read after the flush still count the worker's jobs.
StatsCurrent ==
  \A r \in Requests : pc[r] = "flushed" =>
    LET q == req[r] IN
    /\ q.ent.worker # NoWorker
    /\ q.stats.completed = GetStats(q).completed
    /\ q.stats.redone = GetStats(q).redone

\* Inductive beside JobInv where StandingsApart holds.
StandingInv == StatsCurrent /\ CompletionsCounted

ApartInv == JobInv /\ BookingInv /\ StandingsApart /\ StandingInv

============================================================================
