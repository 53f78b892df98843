-------------------------- MODULE QuickHireProofs --------------------------
(***************************************************************************)
(* Proofs about QuickHire for every number of jobs, workers, requests,     *)
(* disputes, and every amount.                                             *)
(***************************************************************************)
EXTENDS QuickHire, FiniteSetTheorems, TLAPS

----------------------------------------------------------------------------
(* The helpers return values of their types *)

\* What a use case writes back is a row of the jobs table.
LEMMA AssignedType ==
  ASSUME NEW q \in Request
  PROVE  Assigned(q) \in Row
<1>1. /\ q.ent \in Row
      /\ q.worker \in Workers \cup {NoWorker}
      /\ q.currency \in Currencies \cup {NoCurrency}
      /\ q.amount \in Nat
      /\ q.op \in Operations
  BY DEF Request
<1>2. CASE q.op = "Match"
  BY <1>1, <1>2 DEF Assigned, Row, Statuses
<1>3. CASE q.op = "Book"
  BY <1>1, <1>3 DEF Assigned, Row, Statuses
<1>4. CASE q.op = "Quote"
  BY <1>1, <1>4 DEF Assigned, Row, Statuses
<1>5. CASE q.op = "Complete"
  BY <1>1, <1>5 DEF Assigned, Row, Statuses
<1>6. CASE q.op = "Raise"
  BY <1>1, <1>6 DEF Assigned, Row, Statuses
<1>7. CASE q.op = "Respond"
  BY <1>1, <1>7 DEF Assigned, Row, Statuses
<1> QED
  BY <1>1, <1>2, <1>3, <1>4, <1>5, <1>6, <1>7 DEF Operations

\* The UPDATE of one row leaves a row of the table.
LEMMA UpdatedType ==
  ASSUME TypeOK, NEW q \in Request
  PROVE  Updated(q) \in Row
<1>1. job[q.job] \in Row /\ Assigned(q) \in Row
  BY AssignedType DEF TypeOK, Request
<1>2. \A now, base, new : Column(now, base, new) \in {now, new}
  BY DEF Column
<1> QED
  BY <1>1, <1>2 DEF Updated, Row

\* The four counts are numbers because there are finitely many jobs.
LEMMA StatsType ==
  ASSUME NEW w, NEW rows, NEW raised
  PROVE  StatsOf(w, rows, raised) \in Stats
<1> DEFINE mine == {j \in Jobs : rows[j].worker = w}
<1> DEFINE done == {j \in mine : rows[j].status = "COMPLETED"}
<1>1. \A S \in SUBSET Jobs : Cardinality(S) \in Nat
  BY ConstantsAssumption, FS_Subset, FS_CardinalityType
<1>2. /\ mine \in SUBSET Jobs
      /\ done \in SUBSET Jobs
      /\ mine \cap raised \in SUBSET Jobs
      /\ done \cap raised \in SUBSET Jobs
  OBVIOUS
<1>3. /\ Cardinality(mine) \in Nat
      /\ Cardinality(done) \in Nat
      /\ Cardinality(mine \cap raised) \in Nat
      /\ Cardinality(done \cap raised) \in Nat
  BY <1>1, <1>2
<1> QED
  BY <1>3 DEF StatsOf, Stats

----------------------------------------------------------------------------
(* Type correctness *)

\* The two halves of TypeOK: what is stored, and the requests in flight.
StoreOK ==
  /\ job \in [Jobs -> Row]
  /\ ledger \in [Jobs -> [EntryTypes -> Entries]]
  /\ disputes \in [Jobs -> [DisputeIds -> DisputeStatuses]]
  /\ clock \in [Jobs -> 0 .. MaxDisputes]
  /\ record \in [Jobs -> Workers \cup {NoWorker}]
  /\ standing \in [Workers -> Stats]
  /\ collected \in [Jobs -> Nat]

RequestsOK ==
  /\ pc \in [Requests -> Phases]
  /\ req \in [Requests -> Request \cup {NoRequest}]
  /\ \A r \in Requests : pc[r] # "idle" => req[r] \in Request

LEMMA TypeHalves == TypeOK <=> StoreOK /\ RequestsOK
BY DEF TypeOK, StoreOK, RequestsOK

LEMMA GotoType ==
  ASSUME RequestsOK, NEW r \in Requests, NEW q \in Request,
         NEW phase \in Phases \ {"idle"}, Goto(r, phase, q)
  PROVE  RequestsOK'
BY DEF RequestsOK, Goto

LEMMA FinishType ==
  ASSUME RequestsOK, NEW r \in Requests, Finish(r)
  PROVE  RequestsOK'
BY DEF RequestsOK, Finish, Phases

\* One more ledger entry of a positive amount keeps the ledger well typed.
LEMMA AddEntryType ==
  ASSUME TypeOK, NEW j \in Jobs, NEW t \in EntryTypes, NEW amount \in Nat,
         NEW currency \in Currencies, NEW refs \in Nat,
         AddEntry(j, t, amount, currency, refs)
  PROVE  ledger' \in [Jobs -> [EntryTypes -> Entries]]
BY DEF TypeOK, AddEntry, Entries

\* What every request of the API has in common: its fields are well typed.
LEMMA RequestFields ==
  ASSUME NEW q \in Request
  PROVE  /\ q.op \in Operations
         /\ q.job \in Jobs
         /\ q.worker \in Workers \cup {NoWorker}
         /\ q.currency \in Currencies \cup {NoCurrency}
         /\ q.amount \in Nat
         /\ q.ent \in Row /\ q.base \in Row
         /\ q.deposited \in Nat
         /\ q.dispute \in 0 .. MaxDisputes
         /\ q.stats \in Stats
BY DEF Request

LEMMA RowFields ==
  ASSUME NEW row \in Row
  PROVE  /\ row.status \in Statuses
         /\ row.worker \in Workers \cup {NoWorker}
         /\ row.currency \in Currencies \cup {NoCurrency}
         /\ row.quote \in Nat
BY DEF Row

\* A request starts with what it read from the row.
LEMMA GetType ==
  ASSUME TypeOK, NEW r \in Requests, NEW op \in Operations, NEW j \in Jobs,
         NEW status, NEW w \in Workers \cup {NoWorker},
         NEW c \in Currencies \cup {NoCurrency}, NEW amount \in Nat,
         Get(r, op, j, status, w, c, amount)
  PROVE  TypeOK'
<1> DEFINE q == [op |-> op, job |-> j, worker |-> w, currency |-> c,
                 amount |-> amount, ent |-> job[j], base |-> job[j],
                 deposited |-> 0, dispute |-> 0, stats |-> NoStats]
<1>1. job[j] \in Row /\ NoStats \in Stats /\ 0 \in 0 .. MaxDisputes
  BY ConstantsAssumption DEF TypeOK, NoStats, Stats
<1>2. q \in Request
  BY <1>1 DEF Request
<1>3. RequestsOK'
  <2>1. Goto(r, "loaded", q) /\ "loaded" \in Phases \ {"idle"}
    BY DEF Get, Phases
  <2> HIDE DEF q
  <2> QED
    BY <2>1, <1>2, GotoType, TypeHalves
<1>4. StoreOK'
  BY TypeHalves DEF Get, db, StoreOK
<1> QED
  BY <1>3, <1>4 DEF TypeOK, StoreOK, RequestsOK

\* The same for the checks between get() and save().
LEMMA CheckType ==
  ASSUME TypeOK, NEW r \in Requests, NEW q \in Request, Check(r, q),
         clock' \in [Jobs -> 0 .. MaxDisputes]
  PROVE  TypeOK'
<1>1. RequestsOK'
  BY GotoType, TypeHalves DEF Check, Phases
<1>2. StoreOK'
  BY TypeHalves DEF Check, db, StoreOK
<1> QED
  BY <1>1, <1>2 DEF TypeOK, StoreOK, RequestsOK

LEMMA StartType ==
  ASSUME TypeOK, NEW r \in Requests, Start(r)
  PROVE  TypeOK'
<1>1. PICK j \in Jobs :
        \/ GetJobMatches(r, j)
        \/ \E w \in Workers, c \in Currencies, a \in Deposits : BookJob(r, j, w, c, a)
        \/ \E a \in Quotes : SubmitQuote(r, j, a)
        \/ CompleteJob(r, j)
        \/ RaiseDispute(r, j)
        \/ RespondToDispute(r, j)
  BY DEF Start
<1>2. CASE GetJobMatches(r, j)
  BY <1>2, GetType DEF GetJobMatches, Operations
<1>3. CASE \E w \in Workers, c \in Currencies, a \in Deposits : BookJob(r, j, w, c, a)
  <2>1. PICK w \in Workers, c \in Currencies, a \in Deposits : BookJob(r, j, w, c, a)
    BY <1>3
  <2>2. "Book" \in Operations /\ a \in Nat
    BY ConstantsAssumption DEF Operations
  <2> QED
    BY <2>1, <2>2, GetType DEF BookJob
<1>4. CASE \E a \in Quotes : SubmitQuote(r, j, a)
  <2>1. PICK a \in Quotes : SubmitQuote(r, j, a)
    BY <1>4
  <2>2. "Quote" \in Operations /\ a \in Nat
    BY ConstantsAssumption DEF Operations
  <2> QED
    BY <2>1, <2>2, GetType DEF SubmitQuote
<1>5. CASE CompleteJob(r, j)
  BY <1>5, GetType DEF CompleteJob, Operations
<1>6. CASE RaiseDispute(r, j)
  BY <1>6, GetType DEF RaiseDispute, Operations
<1>7. CASE RespondToDispute(r, j)
  BY <1>7, GetType DEF RespondToDispute, Operations
<1> QED
  BY <1>1, <1>2, <1>3, <1>4, <1>5, <1>6, <1>7

\* The steps before the commit change a request and nothing it wrote.
LEMMA PrepareType ==
  ASSUME TypeOK, NEW r \in Requests,
         \/ CheckBusy(r) \/ SumDeposits(r) \/ InsertRecord(r)
         \/ InsertDispute(r) \/ FindOpenDispute(r)
         \/ Collect(r) \/ SaveSelect(r) \/ SaveFlush(r)
  PROVE  TypeOK'
<1> DEFINE q == req[r]
<1>1. q \in Request
  BY DEF TypeOK, CheckBusy, SumDeposits, InsertRecord, InsertDispute,
         FindOpenDispute, Collect, SaveSelect, SaveFlush, At
<1>2. clock \in [Jobs -> 0 .. MaxDisputes] /\ q.job \in Jobs
  BY <1>1, RequestFields DEF TypeOK
<1>3. CASE CheckBusy(r)
  BY <1>3, <1>1, <1>2, CheckType DEF CheckBusy
<1>4. CASE SumDeposits(r)
  <2>1. ledger[q.job]["DEPOSIT_HELD"].total \in Nat
    BY <1>2 DEF TypeOK, EntryTypes, Entries
  <2>2. [q EXCEPT !.deposited = SumByType(q.job, "DEPOSIT_HELD")] \in Request
    BY <1>1, <2>1 DEF Request, SumByType
  <2> QED
    BY <1>4, <1>2, <2>2, CheckType DEF SumDeposits
<1>5. CASE InsertRecord(r)
  BY <1>5, <1>1, <1>2, CheckType DEF InsertRecord
<1>6. CASE InsertDispute(r)
  <2>1. /\ clock[q.job] + 1 \in 0 .. MaxDisputes
        /\ clock' = [clock EXCEPT ![q.job] = clock[q.job] + 1]
    BY <1>6, <1>2, ConstantsAssumption DEF InsertDispute
  <2>2. [q EXCEPT !.dispute = clock[q.job] + 1] \in Request
    BY <1>1, <2>1 DEF Request
  <2>3. clock' \in [Jobs -> 0 .. MaxDisputes]
    BY <1>2, <2>1
  <2> QED
    BY <1>6, <2>2, <2>3, CheckType DEF InsertDispute
<1>7. CASE FindOpenDispute(r)
  <2>1. PICK d \in DisputeIds : Check(r, [q EXCEPT !.dispute = d])
    BY <1>7 DEF FindOpenDispute
  <2>2. [q EXCEPT !.dispute = d] \in Request
    BY <1>1, ConstantsAssumption DEF Request, DisputeIds
  <2> QED
    BY <1>7, <1>2, <2>1, <2>2, CheckType DEF FindOpenDispute
<1>8. CASE Collect(r)
  <2>1. RequestsOK'
    BY <1>8, <1>1, GotoType, FinishType, TypeHalves DEF Collect, Phases
  <2>2. StoreOK'
    BY <1>8, <1>2, TypeHalves DEF Collect, StoreOK, db
  <2> QED
    BY <2>1, <2>2 DEF TypeOK, StoreOK, RequestsOK
<1>9. CASE SaveSelect(r)
  <2>1. [q EXCEPT !.base = job[q.job]] \in Request
    BY <1>1, <1>2 DEF Request, TypeOK
  <2>2. RequestsOK'
    BY <1>9, <2>1, GotoType, TypeHalves DEF SaveSelect, Phases
  <2>3. StoreOK'
    BY <1>9, TypeHalves DEF SaveSelect, StoreOK, db
  <2> QED
    BY <2>2, <2>3 DEF TypeOK, StoreOK, RequestsOK
<1>10. CASE SaveFlush(r)
  <2>1. GetStats(q) \in Stats
    BY StatsType DEF GetStats
  <2>2. [q EXCEPT !.stats = GetStats(q)] \in Request
    BY <1>1, <2>1 DEF Request
  <2>3. RequestsOK'
    BY <1>10, <2>2, GotoType, TypeHalves DEF SaveFlush, Phases
  <2>4. StoreOK'
    BY <1>10, TypeHalves DEF SaveFlush, StoreOK, db
  <2> QED
    BY <2>3, <2>4 DEF TypeOK, StoreOK, RequestsOK
<1> QED
  BY <1>3, <1>4, <1>5, <1>6, <1>7, <1>8, <1>9, <1>10

\* A commit replaces one row by one row, and one ledger entry, dispute or
\* standing beside it.
LEMMA CommitType ==
  ASSUME TypeOK, ChecksPassed, NEW r \in Requests,
         \/ CommitMatch(r) \/ CommitBook(r) \/ CommitQuote(r)
         \/ CommitRespond(r) \/ CommitComplete(r) \/ CommitRaise(r)
  PROVE  TypeOK'
<1> DEFINE q == req[r]
<1>1. q \in Request /\ InFlight(r)
  BY DEF TypeOK, CommitMatch, CommitBook, CommitQuote, CommitRespond,
         CommitComplete, CommitRaise, At, InFlight
<1>2. /\ q.job \in Jobs /\ q.amount \in Nat /\ q.deposited \in Nat
      /\ q.stats \in Stats /\ q.ent \in Row
      /\ q.dispute \in 0 .. MaxDisputes
  BY <1>1, RequestFields
<1>3. /\ q.ent.worker \in Workers \cup {NoWorker} /\ q.ent.quote \in Nat
      /\ q.ent.currency \in Currencies \cup {NoCurrency}
  BY <1>2, RowFields
<1>4. job' = [job EXCEPT ![q.job] = Updated(q)] /\ Finish(r) /\ UNCHANGED collected
  BY DEF CommitMatch, CommitBook, CommitQuote, CommitRespond, CommitComplete,
         CommitRaise, UpdateJob, CommitFlushed
<1>5. job' \in [Jobs -> Row]
  BY <1>1, <1>2, <1>4, UpdatedType DEF TypeOK
<1>6. RequestsOK'
  BY <1>4, FinishType, TypeHalves
<1>7. ledger' \in [Jobs -> [EntryTypes -> Entries]]
  <2>1. CASE UNCHANGED ledger
    BY <2>1 DEF TypeOK
  <2>2. CASE CommitBook(r)
    <3>1. q.currency \in Currencies
      BY <1>1, <2>2 DEF ChecksPassed, CommitBook, At
    <3>2. AddEntry(q.job, "DEPOSIT_HELD", q.amount, q.currency, 0)
          \/ AddEntry(q.job, "DEPOSIT_HELD", q.amount, q.currency, 1)
      BY <2>2 DEF CommitBook
    <3> QED
      BY <1>2, <3>1, <3>2, AddEntryType DEF EntryTypes
  <2>3. CASE CommitQuote(r)
    <3>1. q.deposited < q.amount /\ q.ent.currency # NoCurrency
      BY <1>1, <2>3 DEF ChecksPassed, CommitQuote, At
    <3>2. q.amount - q.deposited \in Nat /\ q.ent.currency \in Currencies
      BY <1>2, <1>3, <3>1
    <3>3. AddEntry(q.job, "BALANCE_COMMITTED", q.amount - q.deposited, q.ent.currency, 0)
      BY <2>3 DEF CommitQuote
    <3> QED
      BY <1>2, <3>2, <3>3, AddEntryType DEF EntryTypes
  <2>4. CASE CommitComplete(r)
    <3>1. q.ent.currency \in Currencies
      BY <1>1, <1>3, <2>4 DEF ChecksPassed, CommitComplete, At
    <3>2. AddEntry(q.job, "RELEASED", q.ent.quote, q.ent.currency, 0)
      BY <2>4 DEF CommitComplete
    <3> QED
      BY <1>2, <1>3, <3>1, <3>2, AddEntryType DEF EntryTypes
  <2> QED
    BY <2>1, <2>2, <2>3, <2>4 DEF CommitMatch, CommitRespond, CommitRaise
<1>8. disputes' \in [Jobs -> [DisputeIds -> DisputeStatuses]]
  <2>1. ASSUME NEW s \in DisputeStatuses,
               disputes' = [disputes EXCEPT ![q.job][q.dispute] = s]
        PROVE  disputes' \in [Jobs -> [DisputeIds -> DisputeStatuses]]
    <3>1. [disputes[q.job] EXCEPT ![q.dispute] = s] \in [DisputeIds -> DisputeStatuses]
      BY <1>2 DEF TypeOK
    <3> QED
      BY <1>2, <2>1, <3>1 DEF TypeOK
  <2>2. "OPEN" \in DisputeStatuses /\ "RESOLVED_RETURN_VISIT" \in DisputeStatuses
    BY DEF DisputeStatuses
  <2>3. CASE UNCHANGED disputes
    BY <2>3 DEF TypeOK
  <2> QED
    BY <2>1, <2>2, <2>3 DEF CommitMatch, CommitBook, CommitQuote, CommitRespond,
         CommitComplete, CommitRaise
<1>9. UNCHANGED clock
  BY DEF CommitMatch, CommitBook, CommitQuote, CommitRespond, CommitComplete,
         CommitRaise, UpdateJob, CommitFlushed
<1>10. record' \in [Jobs -> Workers \cup {NoWorker}]
  BY <1>2, <1>3 DEF TypeOK, CommitMatch, CommitBook, CommitQuote, CommitRespond,
         CommitComplete, CommitRaise, UpdateJob, CommitFlushed
<1>11. standing' \in [Workers -> Stats]
  BY <1>2 DEF TypeOK, CommitMatch, CommitBook, CommitQuote, CommitRespond,
         CommitComplete, CommitRaise, UpdateJob, CommitFlushed
<1> QED
  BY <1>4, <1>5, <1>6, <1>7, <1>8, <1>9, <1>10, <1>11 DEF TypeOK, RequestsOK

LEMMA TypeStep ==
  ASSUME TypeOK, ChecksPassed, [Next]_vars
  PROVE  TypeOK'
<1>1. CASE UNCHANGED vars
  BY <1>1 DEF TypeOK, vars, db
<1>2. ASSUME NEW j \in Jobs, CreateJobRequest(j)
      PROVE  TypeOK'
  <2>1. [job[j] EXCEPT !.status = "REQUESTED"] \in Row
    BY DEF TypeOK, Row, Statuses
  <2>2. job' \in [Jobs -> Row]
    BY <1>2, <2>1 DEF CreateJobRequest, TypeOK
  <2> QED
    BY <1>2, <2>2 DEF CreateJobRequest, TypeOK
<1>3. ASSUME NEW r \in Requests, Start(r)
      PROVE  TypeOK'
  BY <1>3, StartType
<1>4. ASSUME NEW r \in Requests, Progress(r), ~Refuse(r)
      PROVE  TypeOK'
  BY <1>4, PrepareType, CommitType DEF Progress
<1>5. ASSUME NEW r \in Requests, Rollback(r)
      PROVE  TypeOK'
  <2>1. RequestsOK'
    BY <1>5, FinishType, TypeHalves DEF Rollback
  <2>2. StoreOK'
    BY <1>5, TypeHalves DEF Rollback, StoreOK, db
  <2> QED
    BY <2>1, <2>2 DEF TypeOK, StoreOK, RequestsOK
<1> QED
  BY <1>1, <1>2, <1>3, <1>4, <1>5 DEF Next, Refuse, Crash

----------------------------------------------------------------------------
(* The shape of a step: one request loads a row, goes on, or ends *)

Acts(r) == Start(r) \/ Progress(r) \/ Crash(r)

\* get() copied a row that passed the status check.
Loads(r) ==
  LET q == req'[r] IN
  /\ pc[r] = "idle" /\ pc'[r] = "loaded"
  /\ q \in Request
  /\ q.ent = job[q.job]
  /\ q.ent.status = Source[q.op]
  /\ q.op = "Book" => q.currency \in Currencies /\ q.amount > 0
  /\ q.op = "Book" => q.worker \in Workers /\ q.amount \in Deposits
  /\ q.op = "Quote" => q.amount \in Quotes
  /\ q.op = "Complete" => q.ent.worker # NoWorker
  /\ UNCHANGED <<db, clock>>

\* A step towards the commit keeps the entity and writes nothing.
Continues(r) ==
  /\ pc[r] # "idle" /\ pc'[r] \notin {"idle", "loaded"}
  /\ req'[r].op = req[r].op
  /\ req'[r].job = req[r].job
  /\ req'[r].amount = req[r].amount
  /\ req'[r].currency = req[r].currency
  /\ req'[r].ent = req[r].ent
  /\ UNCHANGED db

Ends(r) == pc[r] # "idle" /\ pc'[r] = "idle"

Commits(r) ==
  \/ CommitMatch(r) \/ CommitBook(r) \/ CommitQuote(r)
  \/ CommitRespond(r) \/ CommitComplete(r) \/ CommitRaise(r)

LEMMA GotoAt ==
  ASSUME TypeOK, NEW r \in Requests, NEW phase, NEW q, Goto(r, phase, q)
  PROVE  /\ pc'[r] = phase /\ req'[r] = q
         /\ \A p \in Requests \ {r} : pc'[p] = pc[p] /\ req'[p] = req[p]
BY DEF TypeOK, Goto

LEMMA FinishAt ==
  ASSUME TypeOK, NEW r \in Requests, Finish(r)
  PROVE  /\ pc'[r] = "idle"
         /\ \A p \in Requests \ {r} : pc'[p] = pc[p] /\ req'[p] = req[p]
BY DEF TypeOK, Finish

LEMMA GetLoads ==
  ASSUME TypeOK, NEW r \in Requests, NEW op \in Operations, NEW j \in Jobs,
         NEW w \in Workers \cup {NoWorker},
         NEW c \in Currencies \cup {NoCurrency}, NEW amount \in Nat,
         Get(r, op, j, Source[op], w, c, amount),
         op = "Book" => c \in Currencies /\ amount > 0,
         op = "Book" => w \in Workers /\ amount \in Deposits,
         op = "Quote" => amount \in Quotes,
         op = "Complete" => job[j].worker # NoWorker
  PROVE  Loads(r) /\ \A p \in Requests \ {r} : pc'[p] = pc[p] /\ req'[p] = req[p]
<1> DEFINE q == [op |-> op, job |-> j, worker |-> w, currency |-> c,
                 amount |-> amount, ent |-> job[j], base |-> job[j],
                 deposited |-> 0, dispute |-> 0, stats |-> NoStats]
<1>1. /\ pc'[r] = "loaded" /\ req'[r] = q
      /\ \A p \in Requests \ {r} : pc'[p] = pc[p] /\ req'[p] = req[p]
  BY GotoAt DEF Get
<1>2. q \in Request
  <2>1. job[j] \in Row /\ NoStats \in Stats /\ 0 \in 0 .. MaxDisputes
    BY ConstantsAssumption DEF TypeOK, NoStats, Stats
  <2> QED
    BY <2>1 DEF Request
<1>3. /\ q.ent = job[q.job] /\ q.job = j /\ q.op = op /\ q.currency = c
      /\ q.amount = amount /\ q.worker = w
      /\ q.ent.status = Source[q.op]
  BY DEF Get
<1> HIDE DEF q
<1>4. pc[r] = "idle" /\ UNCHANGED <<db, clock>>
  BY DEF Get
<1>5. q.op = "Complete" => q.ent.worker # NoWorker
  BY <1>3
<1> QED
  BY <1>1, <1>2, <1>3, <1>4, <1>5 DEF Loads

LEMMA StartLoads ==
  ASSUME TypeOK, NEW r \in Requests, Start(r)
  PROVE  Loads(r) /\ \A p \in Requests \ {r} : pc'[p] = pc[p] /\ req'[p] = req[p]
<1>1. PICK j \in Jobs :
        \/ GetJobMatches(r, j)
        \/ \E w \in Workers, c \in Currencies, a \in Deposits : BookJob(r, j, w, c, a)
        \/ \E a \in Quotes : SubmitQuote(r, j, a)
        \/ CompleteJob(r, j)
        \/ RaiseDispute(r, j)
        \/ RespondToDispute(r, j)
  BY DEF Start
<1>2. CASE GetJobMatches(r, j)
  BY <1>2, GetLoads DEF GetJobMatches, Operations, Source
<1>3. CASE \E w \in Workers, c \in Currencies, a \in Deposits : BookJob(r, j, w, c, a)
  <2>1. PICK w \in Workers, c \in Currencies, a \in Deposits : BookJob(r, j, w, c, a)
    BY <1>3
  <2>2. "Book" \in Operations /\ a \in Nat /\ a > 0 /\ Source["Book"] = "MATCHED"
    BY ConstantsAssumption DEF Operations, Source
  <2> QED
    BY <2>1, <2>2, GetLoads DEF BookJob
<1>4. CASE \E a \in Quotes : SubmitQuote(r, j, a)
  <2>1. PICK a \in Quotes : SubmitQuote(r, j, a)
    BY <1>4
  <2>2. "Quote" \in Operations /\ a \in Nat /\ Source["Quote"] = "BOOKED"
    BY ConstantsAssumption DEF Operations, Source
  <2> QED
    BY <2>1, <2>2, GetLoads DEF SubmitQuote
<1>5. CASE CompleteJob(r, j)
  BY <1>5, GetLoads DEF CompleteJob, Operations, Source
<1>6. CASE RaiseDispute(r, j)
  BY <1>6, GetLoads DEF RaiseDispute, Operations, Source
<1>7. CASE RespondToDispute(r, j)
  BY <1>7, GetLoads DEF RespondToDispute, Operations, Source
<1> QED
  BY <1>1, <1>2, <1>3, <1>4, <1>5, <1>6, <1>7

Prepares(r) ==
  \/ CheckBusy(r) \/ SumDeposits(r) \/ InsertRecord(r) \/ InsertDispute(r)
  \/ FindOpenDispute(r) \/ Collect(r) \/ SaveSelect(r) \/ SaveFlush(r)

LEMMA PreparesShape ==
  ASSUME TypeOK, NEW r \in Requests, Prepares(r)
  PROVE  /\ Continues(r) \/ (Ends(r) /\ UNCHANGED <<db, clock>>)
         /\ \A p \in Requests \ {r} : pc'[p] = pc[p] /\ req'[p] = req[p]
<1> DEFINE q == req[r]
           Others == \A p \in Requests \ {r} : pc'[p] = pc[p] /\ req'[p] = req[p]
<1>1. q \in Request /\ pc[r] # "idle"
  BY DEF TypeOK, Prepares, CheckBusy, SumDeposits, InsertRecord, InsertDispute,
         FindOpenDispute, Collect, SaveSelect, SaveFlush, At
<1>2. CASE CheckBusy(r)
  <2>1. pc'[r] = "checked" /\ req'[r] = q /\ Others /\ UNCHANGED db
    BY <1>2, GotoAt DEF CheckBusy, Check
  <2> QED
    BY <1>1, <2>1 DEF Continues
<1>3. CASE SumDeposits(r)
  <2>1. /\ pc'[r] = "checked" /\ Others /\ UNCHANGED db
        /\ req'[r] = [q EXCEPT !.deposited = SumByType(q.job, "DEPOSIT_HELD")]
    BY <1>3, GotoAt DEF SumDeposits, Check
  <2> QED
    BY <1>1, <2>1 DEF Continues, Request
<1>4. CASE InsertRecord(r)
  <2>1. pc'[r] = "checked" /\ req'[r] = q /\ Others /\ UNCHANGED db
    BY <1>4, GotoAt DEF InsertRecord, Check
  <2> QED
    BY <1>1, <2>1 DEF Continues
<1>5. CASE InsertDispute(r)
  <2>1. /\ pc'[r] = "checked" /\ Others /\ UNCHANGED db
        /\ req'[r] = [q EXCEPT !.dispute = clock[q.job] + 1]
    BY <1>5, GotoAt DEF InsertDispute, Check
  <2> QED
    BY <1>1, <2>1 DEF Continues, Request
<1>6. CASE FindOpenDispute(r)
  <2>1. PICK d \in DisputeIds : Check(r, [q EXCEPT !.dispute = d])
    BY <1>6 DEF FindOpenDispute
  <2>2. /\ pc'[r] = "checked" /\ Others /\ UNCHANGED db
        /\ req'[r] = [q EXCEPT !.dispute = d]
    BY <2>1, GotoAt DEF Check
  <2> QED
    BY <1>1, <2>2 DEF Continues, Request
<1>7. CASE Collect(r) /\ Goto(r, "collected", q)
  <2>1. pc'[r] = "collected" /\ req'[r] = q /\ Others /\ UNCHANGED db
    BY <1>7, GotoAt DEF Collect
  <2> QED
    BY <1>1, <2>1 DEF Continues
<1>8. CASE Collect(r) /\ Finish(r)
  BY <1>1, <1>8, FinishAt DEF Collect, Ends
<1>9. CASE SaveSelect(r)
  <2>1. /\ pc'[r] = "selected" /\ Others /\ UNCHANGED db
        /\ req'[r] = [q EXCEPT !.base = job[q.job]]
    BY <1>9, GotoAt DEF SaveSelect
  <2> QED
    BY <1>1, <2>1 DEF Continues, Request
<1>10. CASE SaveFlush(r)
  <2>1. /\ pc'[r] = "flushed" /\ Others /\ UNCHANGED db
        /\ req'[r] = [q EXCEPT !.stats = GetStats(q)]
    BY <1>10, GotoAt DEF SaveFlush
  <2> QED
    BY <1>1, <2>1 DEF Continues, Request
<1> QED
  BY <1>2, <1>3, <1>4, <1>5, <1>6, <1>7, <1>8, <1>9, <1>10 DEF Prepares, Collect

\* A request that ends without a commit leaves the tables alone.
Aborts(r) == Ends(r) /\ UNCHANGED <<db, clock>>

OthersWait(r) == \A p \in Requests \ {r} : pc'[p] = pc[p] /\ req'[p] = req[p]

LEMMA CommitsEnd ==
  ASSUME TypeOK, NEW r \in Requests, Commits(r)
  PROVE  /\ Ends(r) /\ OthersWait(r) /\ UNCHANGED clock
         /\ req[r] \in Request
         /\ job' = [job EXCEPT ![req[r].job] = Updated(req[r])]
<1>1. /\ Finish(r) /\ pc[r] # "idle" /\ UNCHANGED clock
      /\ job' = [job EXCEPT ![req[r].job] = Updated(req[r])]
  BY DEF Commits, CommitMatch, CommitBook, CommitQuote, CommitRespond,
         CommitComplete, CommitRaise, UpdateJob, CommitFlushed, At
<1> QED
  BY <1>1, FinishAt DEF Ends, OthersWait, TypeOK

LEMMA RollbackAborts ==
  ASSUME TypeOK, NEW r \in Requests, pc[r] # "idle", Rollback(r)
  PROVE  Aborts(r) /\ OthersWait(r)
BY FinishAt DEF Rollback, Aborts, Ends, OthersWait

LEMMA Shape ==
  ASSUME TypeOK, [Next]_vars
  PROVE  \/ UNCHANGED vars
         \/ \E j \in Jobs : CreateJobRequest(j)
         \/ \E r \in Requests :
              /\ OthersWait(r)
              /\ \/ Loads(r)
                 \/ Prepares(r) /\ Continues(r)
                 \/ Commits(r)
                 \/ Aborts(r)
<1>1. ASSUME NEW r \in Requests, Start(r)
      PROVE  Loads(r) /\ OthersWait(r)
  BY <1>1, StartLoads DEF OthersWait
<1>2. ASSUME NEW r \in Requests, Progress(r)
      PROVE  Prepares(r) \/ Commits(r) \/ Refuse(r)
  BY <1>2 DEF Progress, Prepares, Commits
<1>3. ASSUME NEW r \in Requests, Prepares(r)
      PROVE  OthersWait(r) /\ ((Prepares(r) /\ Continues(r)) \/ Aborts(r))
  BY <1>3, PreparesShape DEF OthersWait, Aborts
<1>4. ASSUME NEW r \in Requests, Refuse(r) \/ Crash(r)
      PROVE  OthersWait(r) /\ Aborts(r)
  BY <1>4, RollbackAborts DEF Refuse, Crash
<1>5. ASSUME NEW r \in Requests, Commits(r)
      PROVE  OthersWait(r)
  BY <1>5, CommitsEnd
<1> QED
  BY <1>1, <1>2, <1>3, <1>4, <1>5 DEF Next

\* save() comes after the checks of its use case.
LEMMA SelectPhase ==
  ASSUME TypeOK, NEW r \in Requests, SaveSelect(r)
  PROVE  /\ req[r].op \in {"Quote", "Complete", "Raise", "Respond"} => pc[r] = "checked"
         /\ req[r].op = "Book" => pc[r] \in {"checked", "collected"}
         /\ req[r].op = "Book" /\ req[r].currency = EcoCash => pc[r] = "collected"
BY DEF SaveSelect, ReadyToSave

----------------------------------------------------------------------------
(* The inductive invariant, one conjunct at a time *)

LEMMA ChecksPassedStep ==
  ASSUME TypeOK, ChecksPassed, [Next]_vars
  PROVE  ChecksPassed'
<1>1. CASE UNCHANGED <<pc, req>>
  BY <1>1 DEF ChecksPassed, InFlight
<1>2. ASSUME NEW r \in Requests, OthersWait(r), Loads(r) \/ Aborts(r) \/ Commits(r)
      PROVE  ChecksPassed'
  BY <1>2, CommitsEnd DEF ChecksPassed, InFlight, OthersWait, Loads, Aborts, Ends
<1>3. ASSUME NEW r \in Requests, OthersWait(r), Prepares(r), Continues(r)
      PROVE  ChecksPassed'
  <2> DEFINE q == req[r]
             Passed == /\ q.op = "Quote" =>
                            req'[r].deposited < q.amount /\ q.ent.currency # NoCurrency
                       /\ q.op = "Complete" =>
                            q.ent.currency # NoCurrency /\ q.ent.quote # NoQuote
  <2>1. q \in Request
    BY <1>3 DEF TypeOK, Continues
  <2>2. ASSUME SumDeposits(r)
        PROVE  Passed
    <3>1. req'[r] = [q EXCEPT !.deposited = SumByType(q.job, "DEPOSIT_HELD")]
      BY <2>2, GotoAt DEF SumDeposits, Check
    <3>2. req'[r].deposited = SumByType(q.job, "DEPOSIT_HELD")
      BY <2>1, <3>1 DEF Request
    <3>3. q.job \in Jobs /\ q.amount \in Nat
      BY <2>1, RequestFields
    <3>4. SumByType(q.job, "DEPOSIT_HELD") \in Nat
      BY <3>3 DEF SumByType, TypeOK, EntryTypes, Entries
    <3>5. Passed
      BY <2>2, <3>2, <3>3, <3>4 DEF SumDeposits, At
    <3> QED
      BY <3>5
  <2>3. ASSUME InsertRecord(r)
        PROVE  Passed
    BY <2>3 DEF InsertRecord, At
  <2>4. ASSUME SaveSelect(r)
        PROVE  Passed
    <3>1. req'[r] = [q EXCEPT !.base = job[q.job]]
      BY <2>4, GotoAt DEF SaveSelect
    <3>2. req'[r].deposited = q.deposited
      BY <2>1, <3>1 DEF Request
    <3> QED
      BY <2>4, <3>2, SelectPhase, <1>3 DEF ChecksPassed, InFlight, Continues
  <2>5. ASSUME SaveFlush(r)
        PROVE  Passed
    <3>1. q.op \in {"Complete", "Raise"} /\ pc[r] = "selected"
      BY <2>5 DEF SaveFlush
    <3> QED
      BY <3>1 DEF ChecksPassed, InFlight
  <2>6. ASSUME CheckBusy(r) \/ Collect(r) \/ InsertDispute(r) \/ FindOpenDispute(r)
        PROVE  Passed
    <3>1. q.op \in {"Book", "Raise", "Respond"}
      BY <2>6 DEF CheckBusy, Collect, InsertDispute, FindOpenDispute, At
    <3> QED
      BY <3>1
  <2>7. Passed
    BY <1>3, <2>2, <2>3, <2>4, <2>5, <2>6 DEF Prepares
  <2> QED
    BY <1>3, <2>7 DEF ChecksPassed, InFlight, OthersWait, Continues
<1> QED
  BY <1>1, <1>2, <1>3, Shape DEF vars, CreateJobRequest

\* The stage each operation moves its entity to.
Target ==
  [Match |-> "MATCHED", Book |-> "BOOKED", Quote |-> "IN_PROGRESS",
   Complete |-> "COMPLETED", Raise |-> "DISPUTED", Respond |-> "IN_PROGRESS"]

LEMMA AssignedFields ==
  ASSUME NEW q \in Request
  PROVE  /\ Assigned(q).status = Target[q.op]
         /\ Assigned(q).quote = IF q.op = "Quote" THEN q.amount ELSE q.ent.quote
<1>1. q.ent \in Row /\ q.op \in Operations
  BY DEF Request
<1>2. CASE q.op = "Match"
  BY <1>1, <1>2 DEF Assigned, Row, Target
<1>3. CASE q.op = "Book"
  <2>1. Assigned(q) = [q.ent EXCEPT !.status = "BOOKED", !.worker = q.worker,
                                    !.currency = q.currency]
    BY <1>3 DEF Assigned
  <2>2. Assigned(q).status = "BOOKED" /\ Assigned(q).quote = q.ent.quote
    BY <1>1, <2>1 DEF Row
  <2> QED
    BY <1>3, <2>2 DEF Target
<1>4. CASE q.op = "Quote"
  <2>1. Assigned(q) = [q.ent EXCEPT !.status = "IN_PROGRESS", !.quote = q.amount]
    BY <1>4 DEF Assigned
  <2>2. Assigned(q).status = "IN_PROGRESS" /\ Assigned(q).quote = q.amount
    BY <1>1, <2>1 DEF Row
  <2> QED
    BY <1>4, <2>2 DEF Target
<1>5. CASE q.op = "Complete"
  BY <1>1, <1>5 DEF Assigned, Row, Target
<1>6. CASE q.op = "Raise"
  BY <1>1, <1>6 DEF Assigned, Row, Target
<1>7. CASE q.op = "Respond"
  BY <1>1, <1>7 DEF Assigned, Row, Target
<1> QED
  BY <1>1, <1>2, <1>3, <1>4, <1>5, <1>6, <1>7 DEF Operations

\* A commit changes its own job's row: the status is written unless save()
\* found it there already.
LEMMA RowAfter ==
  ASSUME TypeOK, NEW r \in Requests, Commits(r)
  PROVE  LET q == req[r] IN
         /\ job'[q.job].status =
              Column(job[q.job].status, q.base.status, Target[q.op])
         /\ job'[q.job].quote \in
              {job[q.job].quote, IF q.op = "Quote" THEN q.amount ELSE q.ent.quote}
         /\ \A k \in Jobs \ {q.job} : job'[k] = job[k]
<1> DEFINE q == req[r]
<1>1. q \in Request /\ job' = [job EXCEPT ![q.job] = Updated(q)]
  BY CommitsEnd
<1>2. q.job \in Jobs
  BY <1>1, RequestFields
<1>3. job'[q.job] = Updated(q) /\ \A k \in Jobs \ {q.job} : job'[k] = job[k]
  BY <1>1, <1>2 DEF TypeOK
<1>4. /\ Updated(q).status = Column(job[q.job].status, q.base.status, Assigned(q).status)
      /\ Updated(q).quote = Column(job[q.job].quote, q.base.quote, Assigned(q).quote)
  BY DEF Updated
<1>5. Updated(q).quote \in {job[q.job].quote, Assigned(q).quote}
  BY <1>4 DEF Column
<1> QED
  BY <1>1, <1>3, <1>4, <1>5, AssignedFields

LEMMA AddEntryAt ==
  ASSUME TypeOK, NEW j \in Jobs, NEW t \in EntryTypes, NEW amount \in Nat,
         NEW currency, NEW refs \in Nat, AddEntry(j, t, amount, currency, refs)
  PROVE  /\ ledger'[j][t].n = ledger[j][t].n + 1
         /\ ledger'[j][t].total = ledger[j][t].total + amount
         /\ ledger'[j][t].refs = ledger[j][t].refs + refs
         /\ \A u \in EntryTypes \ {t} : ledger'[j][u] = ledger[j][u]
         /\ \A k \in Jobs \ {j} : ledger'[k] = ledger[k]
BY DEF TypeOK, AddEntry

\* The entry a commit adds, if any, and its amount.
Entry ==
  [Book |-> "DEPOSIT_HELD", Quote |-> "BALANCE_COMMITTED", Complete |-> "RELEASED"]

Amount(q) ==
  CASE q.op = "Book" -> q.amount
    [] q.op = "Quote" -> q.amount - q.deposited
    [] q.op = "Complete" -> q.ent.quote

LEMMA LedgerAfter ==
  ASSUME TypeOK, ChecksPassed, NEW r \in Requests, Commits(r)
  PROVE  LET q == req[r] IN
         /\ q.op \in DOMAIN Entry =>
              /\ Amount(q) \in Nat
              /\ ledger'[q.job][Entry[q.op]].n = ledger[q.job][Entry[q.op]].n + 1
              /\ ledger'[q.job][Entry[q.op]].total =
                   ledger[q.job][Entry[q.op]].total + Amount(q)
              /\ \A u \in EntryTypes \ {Entry[q.op]} :
                   ledger'[q.job][u] = ledger[q.job][u]
              /\ \A k \in Jobs \ {q.job} : ledger'[k] = ledger[k]
         /\ q.op \notin DOMAIN Entry => UNCHANGED ledger
<1> DEFINE q == req[r]
<1>1. q \in Request /\ InFlight(r)
  BY CommitsEnd DEF Ends, InFlight
<1>2. /\ q.job \in Jobs /\ q.amount \in Nat /\ q.deposited \in Nat
      /\ q.ent \in Row
  BY <1>1, RequestFields
<1>3. q.ent.quote \in Nat
  BY <1>2, RowFields
<1>4. CASE CommitBook(r)
  <2>1. /\ q.op = "Book" /\ Amount(q) = q.amount
        /\ \/ AddEntry(q.job, "DEPOSIT_HELD", q.amount, q.currency, 0)
           \/ AddEntry(q.job, "DEPOSIT_HELD", q.amount, q.currency, 1)
    BY <1>4 DEF CommitBook, At, Amount
  <2> QED
    BY <1>2, <2>1, AddEntryAt DEF Entry, EntryTypes
<1>5. CASE CommitQuote(r)
  <2>1. /\ q.op = "Quote" /\ Amount(q) = q.amount - q.deposited
        /\ AddEntry(q.job, "BALANCE_COMMITTED", q.amount - q.deposited,
                    q.ent.currency, 0)
    BY <1>5 DEF CommitQuote, At, Amount
  <2>2. q.amount - q.deposited \in Nat
    BY <1>1, <1>2, <1>5 DEF ChecksPassed, CommitQuote, At
  <2> QED
    BY <1>2, <2>1, <2>2, AddEntryAt DEF Entry, EntryTypes
<1>6. CASE CommitComplete(r)
  <2>1. /\ q.op = "Complete" /\ Amount(q) = q.ent.quote
        /\ AddEntry(q.job, "RELEASED", q.ent.quote, q.ent.currency, 0)
    BY <1>6 DEF CommitComplete, At, Amount
  <2> QED
    BY <1>2, <1>3, <2>1, AddEntryAt DEF Entry, EntryTypes
<1>7. CASE CommitMatch(r) \/ CommitRespond(r) \/ CommitRaise(r)
  BY <1>7 DEF CommitMatch, CommitRespond, CommitRaise, At, Entry
<1> QED
  BY <1>4, <1>5, <1>6, <1>7 DEF Commits

\* Entries are only added, and RELEASED once: what is backed stays backed.
LEMMA BackedStays ==
  ASSUME TypeOK, ChecksPassed, SignedOffOnce, SignOffExclusive,
         NEW r \in Requests, Commits(r), NEW k \in Jobs, NEW status,
         Backed(k, status)
  PROVE  Backed(k, status)'
<1> DEFINE q == req[r]
<1>1. q \in Request /\ InFlight(r)
  BY CommitsEnd DEF Ends, InFlight
<1>2. q.job \in Jobs
  BY <1>1, RequestFields
<1>3. \A t \in EntryTypes : ledger[k][t].n \in Nat
  BY DEF TypeOK, Entries
<1>4. CASE q.op \notin DOMAIN Entry
  BY <1>4, LedgerAfter DEF Backed
<1>5. CASE q.op \in DOMAIN Entry /\ k # q.job
  <2>1. ledger'[k] = ledger[k]
    BY <1>5, LedgerAfter
  <2> QED
    BY <2>1 DEF Backed
<1>6. CASE q.op \in {"Book", "Quote"} /\ k = q.job
  <2>1. /\ Entry[q.op] \in {"DEPOSIT_HELD", "BALANCE_COMMITTED"}
        /\ ledger'[k][Entry[q.op]].n = ledger[k][Entry[q.op]].n + 1
        /\ \A u \in EntryTypes \ {Entry[q.op]} : ledger'[k][u] = ledger[k][u]
    BY <1>6, LedgerAfter DEF Entry
  <2> QED
    BY <2>1, <1>3 DEF Backed, EntryTypes
<1>7. CASE q.op = "Complete" /\ k = q.job
  <2>1. \A u \in EntryTypes \ {"RELEASED"} : ledger'[k][u] = ledger[k][u]
    BY <1>7, LedgerAfter DEF Entry
  <2>2. SigningOff(r)
    BY <1>7 DEF Commits, CommitMatch, CommitBook, CommitQuote, CommitRespond,
                CommitComplete, CommitRaise, At, SigningOff
  <2>3. record[k] = NoWorker
    BY <1>7, <2>2 DEF SignOffExclusive
  <2>4. ledger[k]["RELEASED"].n = 0
    BY <2>3 DEF SignedOffOnce
  <2>5. status # "COMPLETED"
    BY <2>4 DEF Backed
  <2> QED
    BY <2>1, <2>5 DEF Backed, EntryTypes
<1> QED
  BY <1>4, <1>5, <1>6, <1>7 DEF Entry

LEMMA StatusBackedStep ==
  ASSUME TypeOK, ChecksPassed, SignedOffOnce, SignOffExclusive, EntitiesBacked,
         StatusBackedByLedger, [Next]_vars
  PROVE  StatusBackedByLedger'
<1>1. CASE UNCHANGED <<job, ledger>>
  BY <1>1 DEF StatusBackedByLedger, Backed
<1>2. ASSUME NEW j \in Jobs, CreateJobRequest(j)
      PROVE  StatusBackedByLedger'
  <2>1. \A k \in Jobs : job'[k].status \in {job[k].status, "REQUESTED"}
    BY <1>2 DEF CreateJobRequest, TypeOK, Row
  <2> QED
    BY <1>2, <2>1 DEF StatusBackedByLedger, Backed, CreateJobRequest
<1>3. ASSUME NEW r \in Requests, Commits(r), NEW k \in Jobs
      PROVE  Backed(k, job[k].status)'
  <2> DEFINE q == req[r]
  <2>1. /\ q \in Request /\ InFlight(r)
    BY <1>3, CommitsEnd DEF Ends, InFlight
  <2>2. q.job \in Jobs /\ q.op \in Operations
    BY <2>1, RequestFields
  <2>3. \A t \in EntryTypes : ledger[k][t].n \in Nat
    BY DEF TypeOK, Entries
  <2>4. Backed(k, job[k].status)
    BY DEF StatusBackedByLedger
  <2>5. CASE job'[k].status = job[k].status
    <3>1. PICK s : s = job[k].status
      OBVIOUS
    <3>2. Backed(k, s)
      BY <2>4, <3>1
    <3>3. Backed(k, s)'
      BY <1>3, <3>2, BackedStays
    <3> QED
      BY <2>5, <3>1, <3>3 DEF Backed
  <2>6. CASE k = q.job /\ job'[k].status = Target[q.op]
    <3>1. Backed(k, Source[q.op])
      BY <2>1, <2>6 DEF EntitiesBacked
    <3>2. CASE q.op = "Match"
      BY <2>6, <3>2 DEF Backed, Target
    <3>3. CASE q.op = "Book"
      <4>1. ledger'[k]["DEPOSIT_HELD"].n = ledger[k]["DEPOSIT_HELD"].n + 1
        BY <1>3, <2>6, <3>3, LedgerAfter DEF Entry
      <4> QED
        BY <2>3, <2>6, <3>3, <4>1 DEF Backed, Target, EntryTypes
    <3>4. CASE q.op = "Quote"
      <4>1. /\ ledger'[k]["BALANCE_COMMITTED"].n = ledger[k]["BALANCE_COMMITTED"].n + 1
            /\ ledger'[k]["DEPOSIT_HELD"] = ledger[k]["DEPOSIT_HELD"]
        BY <1>3, <2>6, <3>4, LedgerAfter DEF Entry, EntryTypes
      <4> QED
        BY <2>3, <2>6, <3>1, <3>4, <4>1 DEF Backed, Target, Source, EntryTypes
    <3>5. CASE q.op = "Complete"
      <4>1. SigningOff(r)
        BY <1>3, <3>5 DEF Commits, CommitMatch, CommitBook, CommitQuote,
                  CommitRespond, CommitComplete, CommitRaise, At, SigningOff
      <4>2. ledger[k]["RELEASED"].n = 0
        BY <2>6, <4>1 DEF SignOffExclusive, SignedOffOnce
      <4>3. /\ ledger'[k]["RELEASED"].n = ledger[k]["RELEASED"].n + 1
            /\ ledger'[k]["DEPOSIT_HELD"] = ledger[k]["DEPOSIT_HELD"]
            /\ ledger'[k]["BALANCE_COMMITTED"] = ledger[k]["BALANCE_COMMITTED"]
        BY <1>3, <2>6, <3>5, LedgerAfter DEF Entry, EntryTypes
      <4> QED
        BY <2>6, <3>1, <3>5, <4>2, <4>3 DEF Backed, Target, Source
    <3>6. CASE q.op \in {"Raise", "Respond"}
      <4>1. UNCHANGED ledger
        BY <1>3, <3>6, LedgerAfter DEF Entry
      <4> QED
        BY <2>6, <3>1, <3>6, <4>1 DEF Backed, Target, Source
    <3> QED
      BY <2>2, <3>2, <3>3, <3>4, <3>5, <3>6 DEF Operations
  <2> QED
    BY <1>3, <2>5, <2>6, RowAfter DEF Column
<1> QED
  BY <1>1, <1>2, <1>3, Shape
     DEF StatusBackedByLedger, vars, db, Loads, Continues, Aborts

LEMMA EntitiesBackedStep ==
  ASSUME TypeOK, ChecksPassed, SignedOffOnce, SignOffExclusive, EntitiesBacked,
         StatusBackedByLedger, [Next]_vars
  PROVE  EntitiesBacked'
<1>1. CASE UNCHANGED <<pc, req, ledger>>
  BY <1>1 DEF EntitiesBacked, Backed, InFlight
<1>2. ASSUME NEW r \in Requests, OthersWait(r),
             Loads(r) \/ Continues(r) \/ Aborts(r)
      PROVE  EntitiesBacked'
  <2>1. UNCHANGED ledger
    BY <1>2 DEF Loads, Continues, Aborts, db
  <2>2. \A k \in Jobs, s \in Statuses : Backed(k, s) => Backed(k, s)'
    BY <2>1 DEF Backed
  <2>3. ASSUME Loads(r)
        PROVE  /\ req'[r].ent.status = Source[req'[r].op]
               /\ Backed(req'[r].job, req'[r].ent.status)
    <3>1. req'[r].job \in Jobs
      BY <2>3, RequestFields DEF Loads
    <3> QED
      BY <2>3, <3>1 DEF Loads, StatusBackedByLedger
  <2>4. ASSUME Continues(r)
        PROVE  /\ req'[r].ent.status = Source[req'[r].op]
               /\ Backed(req'[r].job, req'[r].ent.status)
    BY <2>4 DEF Continues, EntitiesBacked, InFlight
  <2> QED
    BY <1>2, <2>1, <2>3, <2>4
       DEF EntitiesBacked, InFlight, Backed, OthersWait, Aborts, Ends
<1>3. ASSUME NEW r \in Requests, OthersWait(r), Commits(r)
      PROVE  EntitiesBacked'
  <2>1. ASSUME NEW p \in Requests, InFlight(p)'
        PROVE  /\ pc[p] # "idle" /\ req'[p] = req[p]
               /\ req[p].ent.status = Source[req[p].op]
               /\ Backed(req[p].job, req[p].ent.status)
               /\ req[p].job \in Jobs
    <3>1. p # r
      BY <1>3, <2>1, CommitsEnd DEF Ends, InFlight
    <3>2. pc[p] # "idle" /\ req'[p] = req[p]
      BY <1>3, <2>1, <3>1 DEF OthersWait, InFlight
    <3> QED
      BY <3>2, RequestFields DEF EntitiesBacked, InFlight, TypeOK
  <2>2. ASSUME NEW k \in Jobs, NEW s, Backed(k, s)
        PROVE  Backed(k, s)'
    BY <1>3, <2>2, BackedStays
  <2> QED
    BY <2>1, <2>2 DEF EntitiesBacked, Backed
<1> QED
  BY <1>1, <1>2, <1>3, Shape DEF vars, db, CreateJobRequest

\* Only the commit of a sign-off touches the record and the RELEASED entries.
LEMMA RecordAfter ==
  ASSUME TypeOK, ChecksPassed, NEW r \in Requests, Commits(r)
  PROVE  LET q == req[r] IN
         /\ q.op = "Complete" =>
              /\ SigningOff(r)
              /\ q.ent.worker # NoWorker
              /\ record' = [record EXCEPT ![q.job] = q.ent.worker]
         /\ q.op # "Complete" =>
              /\ UNCHANGED record
              /\ \A k \in Jobs : ledger'[k]["RELEASED"] = ledger[k]["RELEASED"]
<1> DEFINE q == req[r]
<1>1. q \in Request /\ InFlight(r)
  BY CommitsEnd DEF Ends, InFlight
<1>2. q.job \in Jobs
  BY <1>1, RequestFields
<1>3. ASSUME q.op = "Complete"
      PROVE  CommitComplete(r)
  BY <1>3 DEF Commits, CommitMatch, CommitBook, CommitQuote, CommitRespond,
              CommitRaise, At
<1>4. ASSUME q.op = "Complete"
      PROVE  /\ SigningOff(r) /\ q.ent.worker # NoWorker
             /\ record' = [record EXCEPT ![q.job] = q.ent.worker]
  BY <1>1, <1>3, <1>4 DEF CommitComplete, At, SigningOff, ChecksPassed
<1>5. ASSUME q.op # "Complete"
      PROVE  UNCHANGED record
  BY <1>5 DEF Commits, CommitMatch, CommitBook, CommitQuote, CommitRespond,
              CommitComplete, CommitRaise, UpdateJob, At
<1>6. ASSUME q.op # "Complete", NEW k \in Jobs
      PROVE  ledger'[k]["RELEASED"] = ledger[k]["RELEASED"]
  BY <1>6, <1>2, LedgerAfter DEF Entry, EntryTypes
<1> QED
  BY <1>4, <1>5, <1>6

LEMMA SignedOffOnceStep ==
  ASSUME TypeOK, ChecksPassed, SignedOffOnce, SignOffExclusive, [Next]_vars
  PROVE  SignedOffOnce'
<1>1. CASE UNCHANGED <<record, ledger>>
  BY <1>1 DEF SignedOffOnce
<1>2. ASSUME NEW r \in Requests, Commits(r), req[r].op # "Complete"
      PROVE  SignedOffOnce'
  BY <1>2, RecordAfter DEF SignedOffOnce
<1>3. ASSUME NEW r \in Requests, Commits(r), req[r].op = "Complete"
      PROVE  SignedOffOnce'
  <2> DEFINE j == req[r].job
  <2>1. j \in Jobs
    BY <1>3, CommitsEnd, RequestFields
  <2>2. /\ SigningOff(r) /\ req[r].ent.worker # NoWorker
        /\ record' = [record EXCEPT ![j] = req[r].ent.worker]
    BY <1>3, RecordAfter
  <2>3. record[j] = NoWorker
    BY <2>2 DEF SignOffExclusive
  <2>4. /\ ledger'[j]["RELEASED"].n = ledger[j]["RELEASED"].n + 1
        /\ \A k \in Jobs \ {j} : ledger'[k] = ledger[k]
    BY <1>3, LedgerAfter DEF Entry
  <2>5. record'[j] # NoWorker /\ \A k \in Jobs \ {j} : record'[k] = record[k]
    BY <2>1, <2>2 DEF TypeOK
  <2>6. ledger'[j]["RELEASED"].n = 1
    BY <2>1, <2>3, <2>4 DEF SignedOffOnce
  <2> QED
    BY <2>1, <2>4, <2>5, <2>6 DEF SignedOffOnce
<1> QED
  BY <1>1, <1>2, <1>3, Shape
     DEF vars, db, CreateJobRequest, Loads, Continues, Aborts

LEMMA SignOffExclusiveStep ==
  ASSUME TypeOK, ChecksPassed, SignedOffOnce, SignOffExclusive, [Next]_vars
  PROVE  SignOffExclusive'
<1>1. CASE UNCHANGED <<pc, req, record>>
  BY <1>1 DEF SignOffExclusive, SigningOff
<1>2. ASSUME NEW r \in Requests, OthersWait(r), Loads(r) \/ Aborts(r)
      PROVE  SignOffExclusive'
  BY <1>2 DEF SignOffExclusive, SigningOff, OthersWait, Loads, Aborts, Ends, db
<1>3. ASSUME NEW r \in Requests, OthersWait(r), Prepares(r), Continues(r)
      PROVE  SignOffExclusive'
  <2>1. UNCHANGED record /\ req'[r].job = req[r].job /\ req'[r].op = req[r].op
    BY <1>3 DEF Continues, db
  <2>2. ASSUME SigningOff(r)'
        PROVE  SigningOff(r) \/ InsertRecord(r)
    <3>1. req[r].op = "Complete"
      BY <2>1, <2>2 DEF SigningOff
    <3>2. SaveSelect(r) => SigningOff(r)
      BY <3>1, SelectPhase DEF SigningOff
    <3>3. SaveFlush(r) => SigningOff(r)
      BY <3>1 DEF SigningOff, SaveFlush
    <3> QED
      BY <1>3, <3>1, <3>2, <3>3
         DEF Prepares, CheckBusy, SumDeposits, InsertDispute, FindOpenDispute,
             Collect, At
  <2>3. ASSUME InsertRecord(r)
        PROVE  /\ record[req[r].job] = NoWorker
               /\ \A p \in Requests \ {r} :
                    ~(SigningOff(p) /\ req[p].job = req[r].job)
    BY <2>3 DEF InsertRecord, RecordPending, SigningOff
  <2>4. \A p \in Requests \ {r} :
          /\ SigningOff(p)' <=> SigningOff(p)
          /\ req'[p] = req[p]
    BY <1>3 DEF OthersWait, SigningOff
  <2> QED
    BY <2>1, <2>2, <2>3, <2>4 DEF SignOffExclusive
<1>4. ASSUME NEW r \in Requests, OthersWait(r), Commits(r)
      PROVE  SignOffExclusive'
  <2>1. ~SigningOff(r)'
    BY <1>4, CommitsEnd DEF Ends, SigningOff
  <2>2. \A p \in Requests \ {r} :
          /\ SigningOff(p)' <=> SigningOff(p)
          /\ req'[p] = req[p]
    BY <1>4 DEF OthersWait, SigningOff
  <2>3. CASE req[r].op # "Complete"
    BY <1>4, <2>1, <2>2, <2>3, RecordAfter DEF SignOffExclusive
  <2>4. CASE req[r].op = "Complete"
    <3>1. SigningOff(r) /\ record' = [record EXCEPT ![req[r].job] = req[r].ent.worker]
      BY <1>4, <2>4, RecordAfter
    <3>2. ASSUME NEW p \in Requests, SigningOff(p)'
          PROVE  /\ p # r /\ SigningOff(p) /\ req'[p] = req[p]
                 /\ req[p].job # req[r].job
                 /\ req[p].job \in Jobs
      <4>1. p # r /\ SigningOff(p) /\ req'[p] = req[p]
        BY <2>1, <2>2, <3>2
      <4> QED
        BY <3>1, <4>1, RequestFields DEF SignOffExclusive, SigningOff, TypeOK
    <3>3. \A p \in Requests : SigningOff(p)' =>
            record'[req'[p].job] = record[req[p].job]
      BY <3>1, <3>2 DEF TypeOK
    <3> QED
      BY <3>2, <3>3 DEF SignOffExclusive
  <2> QED
    BY <2>3, <2>4
<1> QED
  BY <1>1, <1>2, <1>3, <1>4, Shape DEF vars, db, CreateJobRequest

LEMMA TotalsType ==
  ASSUME TypeOK, NEW k \in Jobs
  PROVE  /\ \A t \in EntryTypes : ledger[k][t].total \in Nat
         /\ PaidIn(k) \in Nat
         /\ job[k].quote \in Nat
BY DEF TypeOK, EntryTypes, Entries, PaidIn, Row

\* What a buyer paid in only grows, and a quote that commits pays in the rest
\* of its amount.
LEMMA PaidInGrows ==
  ASSUME TypeOK, ChecksPassed, QuotesPaidIn, NEW r \in Requests, Commits(r)
  PROVE  /\ \A k \in Jobs :
              /\ PaidIn(k)' >= PaidIn(k)
              /\ ledger'[k]["DEPOSIT_HELD"].total >= ledger[k]["DEPOSIT_HELD"].total
              /\ req[r].op = "Quote" /\ k = req[r].job => PaidIn(k)' >= req[r].amount
<1> DEFINE q == req[r]
<1>1. q \in Request /\ InFlight(r)
  BY CommitsEnd DEF Ends, InFlight
<1>2. q.job \in Jobs /\ q.amount \in Nat /\ q.deposited \in Nat
  BY <1>1, RequestFields
<1>3. \A k \in Jobs :
        /\ ledger[k]["DEPOSIT_HELD"].total \in Nat
        /\ ledger[k]["BALANCE_COMMITTED"].total \in Nat
  BY TotalsType DEF EntryTypes
<1>4. CASE q.op \notin DOMAIN Entry
  <2>1. UNCHANGED ledger
    BY <1>4, LedgerAfter
  <2> QED
    BY <1>3, <1>4, <2>1 DEF PaidIn, Entry
<1>5. CASE q.op = "Book"
  <2>1. /\ Amount(q) \in Nat
        /\ ledger'[q.job]["DEPOSIT_HELD"].total =
             ledger[q.job]["DEPOSIT_HELD"].total + Amount(q)
        /\ ledger'[q.job]["BALANCE_COMMITTED"] = ledger[q.job]["BALANCE_COMMITTED"]
        /\ \A k \in Jobs \ {q.job} : ledger'[k] = ledger[k]
    BY <1>5, LedgerAfter DEF Entry, EntryTypes
  <2> QED
    BY <1>2, <1>3, <1>5, <2>1 DEF PaidIn
<1>6. CASE q.op = "Quote"
  <2>1. /\ ledger'[q.job]["BALANCE_COMMITTED"].total =
             ledger[q.job]["BALANCE_COMMITTED"].total + (q.amount - q.deposited)
        /\ ledger'[q.job]["DEPOSIT_HELD"] = ledger[q.job]["DEPOSIT_HELD"]
        /\ \A k \in Jobs \ {q.job} : ledger'[k] = ledger[k]
    BY <1>6, LedgerAfter DEF Entry, EntryTypes, Amount
  <2>2. pc[r] # "loaded"
    BY <1>6 DEF Commits, CommitMatch, CommitBook, CommitQuote, CommitRespond,
                CommitComplete, CommitRaise, At
  <2>3. /\ q.deposited < q.amount
        /\ q.deposited <= ledger[q.job]["DEPOSIT_HELD"].total
    BY <1>1, <1>6, <2>2 DEF ChecksPassed, QuotesPaidIn
  <2> SUFFICES ASSUME NEW k \in Jobs
               PROVE  /\ PaidIn(k)' >= PaidIn(k)
                      /\ ledger'[k]["DEPOSIT_HELD"].total >= ledger[k]["DEPOSIT_HELD"].total
                      /\ k = q.job => PaidIn(k)' >= q.amount
    BY <1>6
  <2>4. CASE k = q.job
    BY <1>2, <1>3, <2>1, <2>3, <2>4 DEF PaidIn
  <2>5. CASE k # q.job
    BY <1>3, <2>1, <2>5 DEF PaidIn
  <2> QED
    BY <2>4, <2>5
<1>7. CASE q.op = "Complete"
  <2>1. /\ ledger'[q.job]["DEPOSIT_HELD"] = ledger[q.job]["DEPOSIT_HELD"]
        /\ ledger'[q.job]["BALANCE_COMMITTED"] = ledger[q.job]["BALANCE_COMMITTED"]
        /\ \A k \in Jobs \ {q.job} : ledger'[k] = ledger[k]
    BY <1>7, LedgerAfter DEF Entry, EntryTypes
  <2> QED
    BY <1>2, <1>3, <1>7, <2>1 DEF PaidIn
<1> QED
  BY <1>4, <1>5, <1>6, <1>7 DEF Entry

\* SumDeposits reads what is on the ledger; later steps keep what it read.
LEMMA DepositedRead ==
  ASSUME TypeOK, NEW r \in Requests, Prepares(r), req[r] \in Request,
         req[r].op = "Quote"
  PROVE  \/ req'[r].deposited = ledger[req[r].job]["DEPOSIT_HELD"].total
         \/ req'[r].deposited = req[r].deposited /\ pc[r] # "loaded"
<1> DEFINE q == req[r]
<1>1. SumDeposits(r) \/ SaveSelect(r)
  BY DEF Prepares, CheckBusy, InsertRecord, InsertDispute, FindOpenDispute,
         Collect, SaveFlush, At
<1>2. CASE SumDeposits(r)
  <2>1. req'[r] = [q EXCEPT !.deposited = SumByType(q.job, "DEPOSIT_HELD")]
    BY <1>2, GotoAt DEF SumDeposits, Check
  <2> QED
    BY <2>1 DEF Request, SumByType
<1>3. CASE SaveSelect(r)
  <2>1. req'[r] = [q EXCEPT !.base = job[q.job]]
    BY <1>3, GotoAt DEF SaveSelect
  <2> QED
    BY <1>3, <2>1, SelectPhase DEF Request
<1> QED
  BY <1>1, <1>2, <1>3

LEMMA QuotesPaidInStep ==
  ASSUME TypeOK, ChecksPassed, SignedOffOnce, SignOffExclusive, QuotesPaidIn,
         [Next]_vars
  PROVE  QuotesPaidIn'
<1> DEFINE JobPaid(k) ==
             /\ job[k].quote <= PaidIn(k)
             /\ record[k] = NoWorker => ledger[k]["RELEASED"].total = 0
           ReqPaid(p) ==
             /\ req[p].ent.quote <= PaidIn(req[p].job)
             /\ req[p].op = "Quote" /\ pc[p] # "loaded" =>
                  req[p].deposited <= ledger[req[p].job]["DEPOSIT_HELD"].total
<1>1. CASE UNCHANGED <<pc, req, ledger, record>> /\ \A k \in Jobs : job'[k].quote = job[k].quote
  BY <1>1 DEF QuotesPaidIn, PaidIn, InFlight
<1>2. ASSUME NEW r \in Requests, OthersWait(r), Loads(r) \/ Aborts(r)
      PROVE  QuotesPaidIn'
  <2>1. UNCHANGED <<job, ledger, record>>
    BY <1>2 DEF Loads, Aborts, db
  <2>2. Loads(r) => req'[r].job \in Jobs /\ req'[r].ent = job[req'[r].job]
    BY RequestFields DEF Loads
  <2> QED
    BY <1>2, <2>1, <2>2
       DEF QuotesPaidIn, PaidIn, InFlight, OthersWait, Loads, Aborts, Ends
<1>3. ASSUME NEW r \in Requests, OthersWait(r), Prepares(r), Continues(r)
      PROVE  QuotesPaidIn'
  <2>1. UNCHANGED <<job, ledger, record>>
    BY <1>3 DEF Continues, db
  <2>2. /\ InFlight(r) /\ req[r] \in Request
        /\ req'[r].op = req[r].op /\ req'[r].job = req[r].job
        /\ req'[r].ent = req[r].ent
    BY <1>3 DEF Continues, InFlight, TypeOK
  <2>3. ledger[req[r].job]["DEPOSIT_HELD"].total \in Nat
    BY <2>2, RequestFields, TotalsType DEF EntryTypes
  <2>4. req[r].op = "Quote" =>
          req'[r].deposited <= ledger[req[r].job]["DEPOSIT_HELD"].total
    BY <1>3, <2>2, <2>3, DepositedRead DEF QuotesPaidIn
  <2> QED
    BY <1>3, <2>1, <2>2, <2>4 DEF QuotesPaidIn, PaidIn, InFlight, OthersWait
<1>4. ASSUME NEW r \in Requests, OthersWait(r), Commits(r)
      PROVE  QuotesPaidIn'
  <2> DEFINE q == req[r]
  <2>1. /\ q \in Request /\ InFlight(r)
    BY <1>4, CommitsEnd DEF Ends, InFlight
  <2>2. q.job \in Jobs /\ q.amount \in Nat /\ q.ent.quote \in Nat
    BY <2>1, RequestFields, RowFields
  <2>3. TypeOK'
    BY TypeStep
  <2>4. ASSUME NEW k \in Jobs
        PROVE  job'[k].quote <= PaidIn(k)'
    <3>1. /\ PaidIn(k) \in Nat /\ PaidIn(k)' \in Nat /\ PaidIn(k)' >= PaidIn(k)
          /\ job[k].quote \in Nat /\ job[k].quote <= PaidIn(k)
      <4>1. PaidIn(k)' \in Nat
        BY <2>3 DEF TypeOK, EntryTypes, Entries, PaidIn
      <4> QED
        BY <1>4, <4>1, TotalsType, PaidInGrows DEF QuotesPaidIn
    <3>2. CASE k # q.job
      BY <1>4, <3>1, <3>2, RowAfter
    <3>3. CASE k = q.job
      <4>1. q.ent.quote <= PaidIn(k)
        BY <2>1, <3>3 DEF QuotesPaidIn
      <4>2. q.op = "Quote" => q.amount <= PaidIn(k)'
        BY <1>4, <3>1, <3>3, <2>2, PaidInGrows
      <4>3. job'[k].quote \in {job[k].quote, IF q.op = "Quote" THEN q.amount ELSE q.ent.quote}
        BY <1>4, <3>3, RowAfter
      <4> QED
        BY <2>2, <3>1, <4>1, <4>2, <4>3
    <3> QED
      BY <3>2, <3>3
  <2>5. ASSUME NEW k \in Jobs, record'[k] = NoWorker
        PROVE  ledger'[k]["RELEASED"].total = 0
    <3>1. CASE q.op # "Complete"
      BY <1>4, <2>5, <3>1, RecordAfter DEF QuotesPaidIn
    <3>2. CASE q.op = "Complete"
      <4>1. record' = [record EXCEPT ![q.job] = q.ent.worker] /\ q.ent.worker # NoWorker
        BY <1>4, <3>2, RecordAfter
      <4>2. k # q.job /\ record[k] = NoWorker
        BY <2>2, <2>5, <4>1 DEF TypeOK
      <4>3. ledger'[k] = ledger[k]
        BY <1>4, <3>2, <4>2, LedgerAfter DEF Entry
      <4> QED
        BY <4>2, <4>3 DEF QuotesPaidIn
    <3> QED
      BY <3>1, <3>2
  <2>6. ASSUME NEW p \in Requests, InFlight(p)'
        PROVE  /\ InFlight(p) /\ req'[p] = req[p] /\ pc'[p] = pc[p]
               /\ req[p] \in Request
    <3>1. p # r
      BY <1>4, <2>6, CommitsEnd DEF Ends, InFlight
    <3> QED
      BY <1>4, <2>6, <3>1 DEF OthersWait, InFlight, TypeOK
  <2>7. ASSUME NEW p \in Requests, InFlight(p)'
        PROVE  ReqPaid(p)'
    <3>0. PICK k : k = req[p].job
      OBVIOUS
    <3>1. k \in Jobs /\ req[p].ent.quote \in Nat /\ req[p].deposited \in Nat
      BY <2>6, <2>7, <3>0, RequestFields, RowFields
    <3>2. /\ PaidIn(k)' >= PaidIn(k)
          /\ ledger'[k]["DEPOSIT_HELD"].total >= ledger[k]["DEPOSIT_HELD"].total
      BY <1>4, <3>1, PaidInGrows
    <3>3. /\ PaidIn(k) \in Nat /\ PaidIn(k)' \in Nat
          /\ ledger[k]["DEPOSIT_HELD"].total \in Nat
          /\ ledger'[k]["DEPOSIT_HELD"].total \in Nat
      BY <2>3, <3>1 DEF TypeOK, EntryTypes, Entries, PaidIn
    <3>4. /\ req[p].ent.quote <= PaidIn(k)
          /\ req[p].op = "Quote" /\ pc[p] # "loaded" =>
               req[p].deposited <= ledger[k]["DEPOSIT_HELD"].total
      BY <2>6, <2>7, <3>0 DEF QuotesPaidIn
    <3>5. req[p].ent.quote <= PaidIn(k)'
      BY <3>1, <3>2, <3>3, <3>4
    <3>6. req[p].op = "Quote" /\ pc[p] # "loaded" =>
            req[p].deposited <= ledger'[k]["DEPOSIT_HELD"].total
      BY <3>1, <3>2, <3>3, <3>4
    <3> QED
      BY <2>6, <2>7, <3>0, <3>5, <3>6 DEF PaidIn
  <2> QED
    BY <2>4, <2>5, <2>7 DEF QuotesPaidIn
<1>5. ASSUME NEW j \in Jobs, CreateJobRequest(j)
      PROVE  UNCHANGED <<pc, req, ledger, record>> /\ \A k \in Jobs : job'[k].quote = job[k].quote
  BY <1>5 DEF CreateJobRequest, TypeOK, Row
<1> QED
  BY <1>1, <1>2, <1>3, <1>4, <1>5, Shape DEF vars, db

LEMMA NeverOverReleasedStep ==
  ASSUME TypeOK, ChecksPassed, SignedOffOnce, SignOffExclusive, QuotesPaidIn,
         NeverOverReleased, [Next]_vars
  PROVE  NeverOverReleased'
<1>1. CASE UNCHANGED ledger
  BY <1>1 DEF NeverOverReleased, PaidIn
<1>2. ASSUME NEW r \in Requests, Commits(r), NEW k \in Jobs
      PROVE  ledger'[k]["RELEASED"].total <= PaidIn(k)'
  <2> DEFINE q == req[r]
  <2>1. q \in Request /\ InFlight(r)
    BY <1>2, CommitsEnd DEF Ends, InFlight
  <2>2. q.job \in Jobs /\ q.ent.quote \in Nat
    BY <2>1, RequestFields, RowFields
  <2>3. TypeOK'
    BY TypeStep
  <2>4. /\ PaidIn(k) \in Nat /\ PaidIn(k)' \in Nat /\ PaidIn(k)' >= PaidIn(k)
        /\ ledger[k]["RELEASED"].total \in Nat
    <3>1. PaidIn(k)' \in Nat
      BY <2>3 DEF TypeOK, EntryTypes, Entries, PaidIn
    <3> QED
      BY <1>2, <3>1, TotalsType, PaidInGrows DEF EntryTypes
  <2>5. CASE q.op = "Complete" /\ k = q.job
    <3>1. SigningOff(r)
      BY <1>2, <2>5, RecordAfter
    <3>2. ledger[k]["RELEASED"].total = 0
      BY <2>5, <3>1 DEF SignOffExclusive, QuotesPaidIn
    <3>3. ledger'[k]["RELEASED"].total = ledger[k]["RELEASED"].total + q.ent.quote
      BY <1>2, <2>5, LedgerAfter DEF Entry, Amount
    <3>4. q.ent.quote <= PaidIn(k)
      BY <2>1, <2>5 DEF QuotesPaidIn
    <3> QED
      BY <2>2, <2>4, <3>2, <3>3, <3>4
  <2>6. CASE ~(q.op = "Complete" /\ k = q.job)
    <3>1. ledger'[k]["RELEASED"] = ledger[k]["RELEASED"]
      BY <1>2, <2>6, RecordAfter, LedgerAfter DEF Entry
    <3> QED
      BY <2>4, <3>1 DEF NeverOverReleased
  <2> QED
    BY <2>5, <2>6
<1> QED
  BY <1>1, <1>2, Shape
     DEF NeverOverReleased, vars, db, CreateJobRequest, Loads, Continues, Aborts

\* How a request on its way gets the dispute it is about.
LEMMA DisputePicked ==
  ASSUME TypeOK, NEW r \in Requests, Prepares(r), Continues(r)
  PROVE  \/ /\ InsertDispute(r)
            /\ pc[r] = "loaded" /\ req[r].op = "Raise"
            /\ req'[r].dispute = clock[req[r].job] + 1
            /\ clock[req[r].job] < MaxDisputes
            /\ clock' = [clock EXCEPT ![req[r].job] = clock[req[r].job] + 1]
         \/ /\ req[r].op = "Respond"
            /\ req'[r].dispute \in DisputeIds
            /\ disputes[req[r].job][req'[r].dispute] = "OPEN"
            /\ pc'[r] = "checked"
            /\ UNCHANGED clock
         \/ /\ req'[r].dispute = req[r].dispute
            /\ UNCHANGED clock
            /\ Raising(r)' => Raising(r)
            /\ Answering(r)' => Answering(r)
<1> DEFINE q == req[r]
<1>1. q \in Request /\ req'[r].op = q.op
  BY DEF Continues, TypeOK
<1>2. CASE InsertDispute(r)
  <2>1. req'[r] = [q EXCEPT !.dispute = clock[q.job] + 1]
    BY <1>2, GotoAt DEF InsertDispute, Check
  <2>2. req'[r].dispute = clock[q.job] + 1
    BY <1>1, <2>1 DEF Request
  <2> QED
    BY <1>2, <2>2 DEF InsertDispute, At
<1>3. CASE FindOpenDispute(r)
  <2>1. PICK d \in DisputeIds :
          IsLatestOpen(q.job, d) /\ Check(r, [q EXCEPT !.dispute = d])
    BY <1>3 DEF FindOpenDispute
  <2>2. req'[r] = [q EXCEPT !.dispute = d] /\ pc'[r] = "checked"
    BY <2>1, GotoAt DEF Check
  <2>3. req'[r].dispute = d
    BY <1>1, <2>2 DEF Request
  <2> QED
    BY <1>3, <2>1, <2>2, <2>3 DEF FindOpenDispute, IsLatestOpen, At
<1>4. CASE SaveSelect(r)
  <2>1. req'[r] = [q EXCEPT !.base = job[q.job]]
    BY <1>4, GotoAt DEF SaveSelect
  <2>2. req'[r].dispute = q.dispute
    BY <1>1, <2>1 DEF Request
  <2> QED
    BY <1>1, <1>4, <2>2, SelectPhase DEF SaveSelect, Raising, Answering
<1>5. CASE SaveFlush(r)
  <2>1. req'[r] = [q EXCEPT !.stats = GetStats(q)]
    BY <1>5, GotoAt DEF SaveFlush
  <2>2. req'[r].dispute = q.dispute
    BY <1>1, <2>1 DEF Request
  <2> QED
    BY <1>1, <1>5, <2>2 DEF SaveFlush, Raising, Answering
<1>6. CASE CheckBusy(r) \/ InsertRecord(r)
  <2>1. req'[r] = q
    BY <1>6, GotoAt DEF CheckBusy, InsertRecord, Check
  <2> QED
    BY <1>6, <2>1 DEF CheckBusy, InsertRecord, At, Raising, Answering
<1>7. CASE SumDeposits(r)
  <2>1. req'[r] = [q EXCEPT !.deposited = SumByType(q.job, "DEPOSIT_HELD")]
    BY <1>7, GotoAt DEF SumDeposits, Check
  <2>2. req'[r].dispute = q.dispute
    BY <1>1, <2>1 DEF Request
  <2> QED
    BY <1>1, <1>7, <2>2 DEF SumDeposits, At, Raising, Answering
<1>8. CASE Collect(r)
  <2>1. req'[r] = q
    BY <1>8, GotoAt, FinishAt DEF Collect, Continues
  <2> QED
    BY <1>8, <2>1 DEF Collect, At, Raising, Answering
<1> QED
  BY <1>2, <1>3, <1>4, <1>5, <1>6, <1>7, <1>8 DEF Prepares

\* A commit changes the status of the dispute it is about and of no other.
LEMMA DisputesAfter ==
  ASSUME TypeOK, NEW r \in Requests, Commits(r)
  PROVE  LET q == req[r] IN
         \/ /\ q.op = "Raise" /\ Raising(r)
            /\ disputes' = [disputes EXCEPT ![q.job][q.dispute] = "OPEN"]
         \/ /\ q.op = "Respond" /\ Answering(r) /\ At(r, "Respond", "selected")
            /\ disputes' =
                 [disputes EXCEPT ![q.job][q.dispute] = "RESOLVED_RETURN_VISIT"]
         \/ q.op \notin {"Raise", "Respond"} /\ UNCHANGED disputes
BY DEF Commits, CommitMatch, CommitBook, CommitQuote, CommitRespond,
       CommitComplete, CommitRaise, At, Raising, Answering

LEMMA DisputesNumberedStep ==
  ASSUME TypeOK, DisputesNumbered, [Next]_vars
  PROVE  DisputesNumbered'
<1>1. CASE UNCHANGED <<pc, req, disputes, clock>>
  BY <1>1 DEF DisputesNumbered, Raising, Answering
<1>2. ASSUME NEW r \in Requests, OthersWait(r), Loads(r) \/ Aborts(r)
      PROVE  DisputesNumbered'
  BY <1>2 DEF DisputesNumbered, Raising, Answering, OthersWait, Loads, Aborts, Ends, db
<1>3. \A p \in Requests : Raising(p) \/ Answering(p) =>
        req[p].job \in Jobs /\ req[p].dispute \in 0 .. MaxDisputes
  BY RequestFields DEF Raising, Answering, TypeOK
<1>4. \A j \in Jobs : clock[j] \in Nat /\ clock[j] <= MaxDisputes
  BY ConstantsAssumption DEF TypeOK
<1>5. ASSUME NEW r \in Requests, OthersWait(r), Prepares(r), Continues(r)
      PROVE  DisputesNumbered'
  <2> DEFINE q == req[r]
  <2>1. /\ UNCHANGED disputes
        /\ req'[r].job = q.job /\ req'[r].op = q.op
        /\ q.job \in Jobs
    BY <1>5, RequestFields DEF Continues, db, TypeOK
  <2>2. \A p \in Requests \ {r} :
          /\ req'[p] = req[p]
          /\ Raising(p)' <=> Raising(p)
          /\ Answering(p)' <=> Answering(p)
    BY <1>5 DEF OthersWait, Raising, Answering
  <2>3. CASE /\ InsertDispute(r)
             /\ pc[r] = "loaded" /\ q.op = "Raise"
             /\ req'[r].dispute = clock[q.job] + 1
             /\ clock[q.job] < MaxDisputes
             /\ clock' = [clock EXCEPT ![q.job] = clock[q.job] + 1]
    <3>1. /\ clock'[q.job] = clock[q.job] + 1
          /\ \A j \in Jobs \ {q.job} : clock'[j] = clock[j]
      BY <2>1, <2>3 DEF TypeOK
    <3>2. ~Answering(r)'
      BY <2>1, <2>3 DEF Answering
    <3>3. req'[r].dispute \in DisputeIds /\ req'[r].dispute \in 1 .. clock'[q.job]
      BY <1>4, <2>1, <2>3, <3>1, ConstantsAssumption DEF DisputeIds
    <3>4. disputes[q.job][req'[r].dispute] = "NONE"
      BY <1>4, <2>1, <2>3, <3>3 DEF DisputesNumbered
    <3>5. \A j \in Jobs, d \in DisputeIds : d > clock'[j] => disputes'[j][d] = "NONE"
      BY <1>4, <2>1, <3>1, ConstantsAssumption DEF DisputesNumbered, DisputeIds
    <3>6. ASSUME NEW p \in Requests \ {r}, Raising(p)
          PROVE  /\ req[p].dispute \in 1 .. clock'[req[p].job]
                 /\ disputes'[req[p].job][req[p].dispute] = "NONE"
                 /\ ~(req[p].job = q.job /\ req[p].dispute = req'[r].dispute)
      <4>1. /\ req[p].dispute \in 1 .. clock[req[p].job]
            /\ disputes[req[p].job][req[p].dispute] = "NONE"
            /\ req[p].job \in Jobs
        BY <1>3, <3>6 DEF DisputesNumbered
      <4> QED
        BY <1>4, <2>1, <2>3, <3>1, <4>1
    <3>7. ASSUME NEW p \in Requests, Raising(p)'
          PROVE  /\ req'[p].dispute \in 1 .. clock'[req'[p].job]
                 /\ disputes'[req'[p].job][req'[p].dispute] = "NONE"
                 /\ \A o \in Requests :
                      Raising(o)' /\ req'[o].job = req'[p].job
                        /\ req'[o].dispute = req'[p].dispute => o = p
      BY <2>1, <2>2, <3>3, <3>4, <3>6, <3>7 DEF DisputesNumbered
    <3>8. \A p \in Requests : Answering(p)' =>
            /\ req'[p].dispute \in DisputeIds
            /\ disputes'[req'[p].job][req'[p].dispute] # "NONE"
      BY <2>1, <2>2, <3>2 DEF DisputesNumbered
    <3> QED
      BY <3>5, <3>7, <3>8 DEF DisputesNumbered
  <2>4. CASE /\ q.op = "Respond"
             /\ req'[r].dispute \in DisputeIds
             /\ disputes[q.job][req'[r].dispute] = "OPEN"
             /\ UNCHANGED clock
    <3>1. ~Raising(r)'
      BY <2>1, <2>4 DEF Raising
    <3> QED
      BY <2>1, <2>2, <2>4, <3>1 DEF DisputesNumbered
  <2>5. CASE /\ req'[r].dispute = q.dispute
             /\ UNCHANGED clock
             /\ Raising(r)' => Raising(r)
             /\ Answering(r)' => Answering(r)
    BY <2>1, <2>2, <2>5 DEF DisputesNumbered
  <2> QED
    BY <1>5, <2>3, <2>4, <2>5, DisputePicked
<1>6. ASSUME NEW r \in Requests, OthersWait(r), Commits(r)
      PROVE  DisputesNumbered'
  <2> DEFINE q == req[r]
  <2>1. /\ UNCHANGED clock /\ ~Raising(r)' /\ ~Answering(r)'
        /\ q.job \in Jobs
    BY <1>6, CommitsEnd, RequestFields DEF Ends, Raising, Answering
  <2>2. \A p \in Requests \ {r} :
          /\ req'[p] = req[p]
          /\ Raising(p)' <=> Raising(p)
          /\ Answering(p)' <=> Answering(p)
    BY <1>6 DEF OthersWait, Raising, Answering
  <2>3. CASE UNCHANGED disputes
    BY <2>1, <2>2, <2>3 DEF DisputesNumbered
  <2>4. ASSUME NEW s \in {"OPEN", "RESOLVED_RETURN_VISIT"},
               Raising(r) \/ Answering(r),
               disputes' = [disputes EXCEPT ![q.job][q.dispute] = s]
        PROVE  DisputesNumbered'
    <3>1. /\ q.dispute \in DisputeIds /\ ~(q.dispute > clock[q.job])
          /\ Answering(r) => disputes[q.job][q.dispute] # "NONE"
      BY <1>4, <2>1, <2>4, ConstantsAssumption DEF DisputesNumbered, DisputeIds
    <3>2. /\ disputes'[q.job][q.dispute] = s
          /\ \A j \in Jobs, d \in DisputeIds :
               ~(j = q.job /\ d = q.dispute) => disputes'[j][d] = disputes[j][d]
      BY <2>1, <2>4, <3>1 DEF TypeOK
    <3>3. ASSUME NEW p \in Requests, Raising(p)'
          PROVE  /\ p # r /\ Raising(p) /\ req'[p] = req[p]
                 /\ req[p].dispute \in DisputeIds
                 /\ ~(req[p].job = q.job /\ req[p].dispute = q.dispute)
      <4>1. p # r /\ Raising(p) /\ req'[p] = req[p]
        BY <2>1, <2>2, <3>3
      <4>2. req[p].job \in Jobs /\ req[p].dispute \in 1 .. clock[req[p].job]
        BY <1>3, <4>1 DEF DisputesNumbered
      <4>3. req[p].dispute \in DisputeIds
        BY <1>4, <4>2, ConstantsAssumption DEF DisputeIds
      <4> QED
        BY <2>4, <3>1, <4>1, <4>3 DEF DisputesNumbered
    <3>4. \A p \in Requests : Raising(p)' =>
            disputes'[req[p].job][req[p].dispute] = disputes[req[p].job][req[p].dispute]
      BY <1>3, <3>2, <3>3
    <3>5. \A p \in Requests : Answering(p)' =>
            /\ Answering(p) /\ req'[p] = req[p]
            /\ req[p].dispute \in DisputeIds
            /\ disputes'[req[p].job][req[p].dispute] # "NONE"
      BY <1>3, <2>1, <2>2, <3>2 DEF DisputesNumbered
    <3>6. \A j \in Jobs, d \in DisputeIds : d > clock[j] => disputes'[j][d] = "NONE"
      BY <3>1, <3>2 DEF DisputesNumbered
    <3> QED
      BY <2>1, <3>3, <3>4, <3>5, <3>6 DEF DisputesNumbered
  <2> QED
    BY <1>6, <2>3, <2>4, DisputesAfter
<1> QED
  BY <1>1, <1>2, <1>5, <1>6, Shape DEF vars, db, CreateJobRequest

LEMMA DisputeAnswerableStep ==
  ASSUME TypeOK, DisputesNumbered, DisputeAnswerable, [Next]_vars
  PROVE  DisputeAnswerable'
<1>1. CASE UNCHANGED <<pc, req, disputes, job>>
  BY <1>1 DEF DisputeAnswerable, At
<1>2. ASSUME NEW j \in Jobs, CreateJobRequest(j)
      PROVE  DisputeAnswerable'
  <2>1. \A k \in Jobs : job'[k].status \in {job[k].status, "REQUESTED"}
    BY <1>2 DEF CreateJobRequest, TypeOK, Row
  <2> QED
    BY <1>2, <2>1 DEF DisputeAnswerable, At, CreateJobRequest
<1>3. ASSUME NEW r \in Requests, OthersWait(r), Loads(r) \/ Aborts(r)
      PROVE  DisputeAnswerable'
  BY <1>3 DEF DisputeAnswerable, At, OthersWait, Loads, Aborts, Ends, db
<1>4. ASSUME NEW r \in Requests, OthersWait(r), Prepares(r), Continues(r)
      PROVE  DisputeAnswerable'
  <2>1. /\ UNCHANGED <<job, disputes>>
        /\ req'[r].op = req[r].op /\ req'[r].job = req[r].job
        /\ req[r] \in Request
    BY <1>4 DEF Continues, db, TypeOK
  <2>2. ASSUME At(r, "Respond", "selected")'
        PROVE  req'[r].base = job[req[r].job]
    <3>1. SaveSelect(r)
      <4>1. CheckBusy(r) \/ SumDeposits(r) \/ InsertRecord(r) \/ InsertDispute(r)
              \/ FindOpenDispute(r) => pc'[r] = "checked"
        BY GotoAt DEF CheckBusy, SumDeposits, InsertRecord, InsertDispute,
                      FindOpenDispute, Check
      <4>2. Collect(r) => req[r].op = "Book"
        BY DEF Collect, At
      <4>3. SaveFlush(r) => req[r].op \in {"Complete", "Raise"}
        BY DEF SaveFlush
      <4> QED
        BY <1>4, <2>1, <2>2, <4>1, <4>2, <4>3 DEF Prepares, At
    <3>2. req'[r] = [req[r] EXCEPT !.base = job[req[r].job]]
      BY <3>1, GotoAt DEF SaveSelect
    <3> QED
      BY <2>1, <3>2 DEF Request
  <2>3. \A p \in Requests \ {r} :
          /\ req'[p] = req[p]
          /\ At(p, "Respond", "selected")' <=> At(p, "Respond", "selected")
    BY <1>4 DEF OthersWait, At
  <2> QED
    BY <2>1, <2>2, <2>3 DEF DisputeAnswerable
<1>5. ASSUME NEW r \in Requests, OthersWait(r), Commits(r),
             NEW k \in Jobs, job'[k].status = "DISPUTED"
      PROVE  \E d \in DisputeIds :
               /\ disputes'[k][d] = "OPEN"
               /\ \A p \in Requests :
                    /\ At(p, "Respond", "selected")'
                    /\ req'[p].job = k
                    /\ req'[p].dispute = d
                    => req'[p].base.status = "DISPUTED"
  <2> DEFINE q == req[r]
  <2>1. /\ q \in Request /\ q.job \in Jobs /\ q.op \in Operations
        /\ ~At(r, "Respond", "selected")'
    BY <1>5, CommitsEnd, RequestFields DEF Ends, At
  <2>2. \A p \in Requests \ {r} :
          /\ req'[p] = req[p]
          /\ At(p, "Respond", "selected")' <=> At(p, "Respond", "selected")
    BY <1>5 DEF OthersWait, At
  <2>3. CASE q.op = "Raise" /\ k = q.job
    <3>1. Raising(r) /\ disputes' = [disputes EXCEPT ![k][q.dispute] = "OPEN"]
      BY <1>5, <2>3, DisputesAfter
    <3>2. /\ q.dispute \in 1 .. clock[k] /\ disputes[k][q.dispute] = "NONE"
      BY <2>3, <3>1 DEF DisputesNumbered
    <3>3. q.dispute \in DisputeIds
      BY <3>2, ConstantsAssumption DEF TypeOK, DisputeIds
    <3>4. disputes'[k][q.dispute] = "OPEN"
      BY <3>1, <3>3 DEF TypeOK
    <3>5. ASSUME NEW p \in Requests, At(p, "Respond", "selected")',
                 req'[p].job = k, req'[p].dispute = q.dispute
          PROVE  FALSE
      <4>1. p # r /\ Answering(p) /\ req'[p] = req[p]
        BY <2>1, <2>2, <3>5 DEF Answering, At
      <4> QED
        BY <3>2, <3>5, <4>1 DEF DisputesNumbered
    <3> QED
      BY <3>3, <3>4, <3>5
  <2>4. CASE ~(q.op = "Raise" /\ k = q.job)
    <3>1. /\ job[k].status = "DISPUTED"
          /\ q.op = "Respond" /\ k = q.job => q.base.status # "DISPUTED"
      <4>1. CASE k # q.job
        BY <1>5, <4>1, RowAfter
      <4>2. CASE k = q.job
        <5>1. Target[q.op] # "DISPUTED"
          BY <2>1, <2>4, <4>2 DEF Target, Operations
        <5>2. job'[k].status = Column(job[k].status, q.base.status, Target[q.op])
          BY <1>5, <4>2, RowAfter
        <5> QED
          BY <1>5, <5>1, <5>2 DEF Column
      <4> QED
        BY <4>1, <4>2
    <3>2. PICK d \in DisputeIds :
            /\ disputes[k][d] = "OPEN"
            /\ \A p \in Requests :
                 /\ At(p, "Respond", "selected")
                 /\ req[p].job = k
                 /\ req[p].dispute = d
                 => req[p].base.status = "DISPUTED"
      BY <3>1 DEF DisputeAnswerable
    <3>3. disputes'[k][d] = "OPEN"
      <4>1. CASE q.op \notin {"Raise", "Respond"}
        BY <1>5, <3>2, <4>1, DisputesAfter
      <4>2. CASE q.op = "Raise"
        <5>1. k # q.job /\ disputes' = [disputes EXCEPT ![q.job][q.dispute] = "OPEN"]
          BY <1>5, <2>4, <4>2, DisputesAfter
        <5> QED
          BY <2>1, <3>2, <5>1 DEF TypeOK
      <4>3. CASE q.op = "Respond"
        <5>1. /\ At(r, "Respond", "selected")
              /\ disputes' =
                   [disputes EXCEPT ![q.job][q.dispute] = "RESOLVED_RETURN_VISIT"]
          BY <1>5, <4>3, DisputesAfter
        <5>2. ~(k = q.job /\ d = q.dispute)
          BY <3>1, <3>2, <4>3, <5>1
        <5> QED
          BY <2>1, <3>2, <5>1, <5>2 DEF TypeOK
      <4> QED
        BY <4>1, <4>2, <4>3
    <3> QED
      BY <2>1, <2>2, <3>2, <3>3
  <2> QED
    BY <2>3, <2>4
<1>6. ASSUME NEW r \in Requests, OthersWait(r), Commits(r)
      PROVE  DisputeAnswerable'
  BY <1>5, <1>6 DEF DisputeAnswerable
<1> QED
  BY <1>1, <1>2, <1>3, <1>4, <1>6, Shape DEF vars, db

----------------------------------------------------------------------------
(* The theorems *)

LEMMA InitIndInv == Init => IndInv
<1> SUFFICES ASSUME Init PROVE IndInv
  OBVIOUS
<1>1. TypeOK
  <2>1. EmptyRow \in Row /\ NoEntries \in Entries /\ NoStats \in Stats
    BY DEF EmptyRow, Row, Statuses, NoQuote, NoEntries, Entries, NoStats, Stats
  <2>2. "NONE" \in DisputeStatuses /\ "idle" \in Phases /\ 0 \in 0 .. MaxDisputes
    BY ConstantsAssumption DEF DisputeStatuses, Phases
  <2> QED
    BY <2>1, <2>2 DEF Init, TypeOK
<1>2. \A r \in Requests : pc[r] = "idle"
  BY DEF Init
<1>3. \A j \in Jobs : job[j].status = "ABSENT" /\ job[j].quote = 0
  BY DEF Init, EmptyRow, NoQuote
<1>4. \A j \in Jobs, t \in EntryTypes : ledger[j][t].n = 0 /\ ledger[j][t].total = 0
  BY DEF Init, NoEntries
<1>5. StatusBackedByLedger /\ SignedOffOnce /\ DisputeAnswerable
  BY <1>3, <1>4 DEF Init, StatusBackedByLedger, Backed, SignedOffOnce,
                    DisputeAnswerable, EntryTypes
<1>6. ChecksPassed /\ EntitiesBacked /\ SignOffExclusive
  BY <1>2 DEF ChecksPassed, EntitiesBacked, SignOffExclusive, InFlight, SigningOff
<1>7. QuotesPaidIn /\ NeverOverReleased
  BY <1>2, <1>3, <1>4 DEF QuotesPaidIn, NeverOverReleased, PaidIn, InFlight, EntryTypes
<1>8. DisputesNumbered
  BY <1>2 DEF Init, DisputesNumbered, Raising, Answering
<1> QED
  BY <1>1, <1>5, <1>6, <1>7, <1>8 DEF IndInv

LEMMA NextIndInv == IndInv /\ [Next]_vars => IndInv'
BY TypeStep, ChecksPassedStep, StatusBackedStep, EntitiesBackedStep,
   SignedOffOnceStep, SignOffExclusiveStep, QuotesPaidInStep,
   NeverOverReleasedStep, DisputesNumberedStep, DisputeAnswerableStep
   DEF IndInv

\* For any number of jobs, workers, requests, disputes and amounts, every
\* state of QuickHire satisfies the inductive invariant.
THEOREM Invariance == Spec => []IndInv
BY InitIndInv, NextIndInv, PTL DEF Spec

\* Every table, request and derived statistic keeps its type.
THEOREM TypeCorrect == Spec => []TypeOK
<1>1. IndInv => TypeOK
  BY DEF IndInv
<1> QED
  BY <1>1, Invariance, PTL

\* However stale the entities the requests write back, each stage of a job is
\* backed by its ledger entries.
THEOREM StatusIsBacked == Spec => []StatusBackedByLedger
<1>1. IndInv => StatusBackedByLedger
  BY DEF IndInv
<1> QED
  BY <1>1, Invariance, PTL

\* Racing, retried and stale sign-offs release a job's money once, together
\* with its record entry.
THEOREM SignOffIsOnce == Spec => []SignedOffOnce
<1>1. IndInv => SignedOffOnce
  BY DEF IndInv
<1> QED
  BY <1>1, Invariance, PTL

\* No interleaving releases more than the buyer paid in.
THEOREM ReleaseIsCovered == Spec => []NeverOverReleased
<1>1. IndInv => NeverOverReleased
  BY DEF IndInv
<1> QED
  BY <1>1, Invariance, PTL

\* A disputed job always has an open dispute its worker can answer.
THEOREM DisputeIsOpen == Spec => []DisputedHasOpenDispute
<1>1. IndInv => DisputedHasOpenDispute
  BY DEF IndInv, DisputeAnswerable, DisputedHasOpenDispute
<1> QED
  BY <1>1, Invariance, PTL

----------------------------------------------------------------------------
(* QuickHire implements Escrow *)

LEMMA InitEscrow == Init => Bank!Init
<1>1. ASSUME Init, NEW t \in EntryTypes
      PROVE  Total(t) = [j \in Jobs |-> 0]
  BY <1>1 DEF Init, Total, NoEntries
<1> QED
  BY <1>1 DEF Bank!Init, Bank!Zero, EntryTypes

\* An entry of positive amount on one job makes that job's sum grow and
\* leaves the other sums alone.
LEMMA TotalGrows ==
  ASSUME TypeOK, NEW j \in Jobs, NEW t \in EntryTypes, NEW a \in Nat, a > 0,
         ledger'[j][t].total = ledger[j][t].total + a,
         \A u \in EntryTypes \ {t} : ledger'[j][u] = ledger[j][u],
         \A k \in Jobs \ {j} : ledger'[k] = ledger[k]
  PROVE  /\ Bank!Grows(Total(t), Total(t)', j)
         /\ \A u \in EntryTypes \ {t} : Total(u)' = Total(u)
<1>1. ledger[j][t].total \in Nat
  BY TotalsType
<1>2. Total(t)'[j] > Total(t)[j]
  BY <1>1 DEF Total
<1>3. Total(t)' = [Total(t) EXCEPT ![j] = Total(t)'[j]]
  BY DEF Total
<1>4. \A u \in EntryTypes \ {t} : Total(u)' = Total(u)
  <2>1. ASSUME NEW u \in EntryTypes \ {t}
        PROVE  \A k \in Jobs : ledger'[k][u].total = ledger[k][u].total
    OBVIOUS
  <2> QED
    BY <2>1 DEF Total
<1> QED
  BY <1>2, <1>3, <1>4 DEF Bank!Grows

LEMMA NextEscrow ==
  ASSUME IndInv, [Next]_vars
  PROVE  [Bank!Next]_<<Total("DEPOSIT_HELD"), Total("BALANCE_COMMITTED"),
                       Total("RELEASED")>>
<1> USE DEF IndInv
<1>1. CASE UNCHANGED ledger
  BY <1>1 DEF Total
<1>2. ASSUME NEW r \in Requests, Commits(r)
      PROVE  UNCHANGED ledger \/ Bank!Next
  <2> DEFINE q == req[r]
  <2>1. q \in Request /\ InFlight(r)
    BY <1>2, CommitsEnd DEF Ends, InFlight
  <2>2. /\ q.job \in Jobs /\ q.amount \in Nat /\ q.deposited \in Nat
        /\ q.ent.quote \in Nat
    BY <2>1, RequestFields, RowFields
  <2>3. CASE q.op \notin DOMAIN Entry
    BY <1>2, <2>3, LedgerAfter
  <2>4. CASE q.op = "Book"
    <3>1. q.amount > 0 /\ Amount(q) = q.amount
      BY <2>1, <2>4 DEF ChecksPassed, Amount
    <3>2. /\ Bank!Grows(Total("DEPOSIT_HELD"), Total("DEPOSIT_HELD")', q.job)
          /\ Total("BALANCE_COMMITTED")' = Total("BALANCE_COMMITTED")
          /\ Total("RELEASED")' = Total("RELEASED")
      BY <1>2, <2>2, <2>4, <3>1, LedgerAfter, TotalGrows DEF Entry, EntryTypes
    <3>3. Bank!Hold(q.job)
      BY <3>2 DEF Bank!Hold
    <3> QED
      BY <2>2, <3>3 DEF Bank!Next
  <2>5. CASE q.op = "Quote"
    <3>1. pc[r] # "loaded"
      BY <1>2, <2>5 DEF Commits, CommitMatch, CommitBook, CommitQuote,
                CommitRespond, CommitComplete, CommitRaise, At
    <3>2. /\ q.amount - q.deposited > 0 /\ q.amount - q.deposited \in Nat
          /\ Amount(q) = q.amount - q.deposited
      BY <2>1, <2>2, <2>5, <3>1 DEF ChecksPassed, Amount
    <3>3. /\ Bank!Grows(Total("BALANCE_COMMITTED"), Total("BALANCE_COMMITTED")', q.job)
          /\ Total("DEPOSIT_HELD")' = Total("DEPOSIT_HELD")
          /\ Total("RELEASED")' = Total("RELEASED")
      BY <1>2, <2>2, <2>5, <3>2, LedgerAfter, TotalGrows DEF Entry, EntryTypes
    <3>4. Bank!Commit(q.job)
      BY <3>3 DEF Bank!Commit
    <3> QED
      BY <2>2, <3>4 DEF Bank!Next
  <2>6. CASE q.op = "Complete"
    <3>1. SigningOff(r)
      BY <1>2, <2>6, RecordAfter
    <3>2. q.ent.quote > 0 /\ Amount(q) = q.ent.quote
      BY <2>1, <2>2, <2>6, <3>1 DEF ChecksPassed, Amount, SigningOff, NoQuote
    <3>3. /\ Bank!Grows(Total("RELEASED"), Total("RELEASED")', q.job)
          /\ Total("DEPOSIT_HELD")' = Total("DEPOSIT_HELD")
          /\ Total("BALANCE_COMMITTED")' = Total("BALANCE_COMMITTED")
      BY <1>2, <2>2, <2>6, <3>2, LedgerAfter, TotalGrows DEF Entry, EntryTypes
    <3>4. ledger[q.job]["RELEASED"].total = 0
      BY <2>2, <3>1 DEF SignOffExclusive, QuotesPaidIn
    <3>5. q.ent.quote <= PaidIn(q.job)
      BY <2>1 DEF QuotesPaidIn
    <3>6. ledger'[q.job]["RELEASED"].total = q.ent.quote
      BY <1>2, <2>2, <2>6, <3>2, <3>4, LedgerAfter DEF Entry
    <3>7. /\ Total("RELEASED")[q.job] = 0
          /\ Total("RELEASED")'[q.job] <=
               Total("DEPOSIT_HELD")[q.job] + Total("BALANCE_COMMITTED")[q.job]
      BY <2>2, <3>4, <3>5, <3>6 DEF Total, PaidIn
    <3>8. Bank!Release(q.job)
      BY <3>3, <3>7 DEF Bank!Release
    <3> QED
      BY <2>2, <3>8 DEF Bank!Next
  <2> QED
    BY <2>3, <2>4, <2>5, <2>6 DEF Entry
<1> QED
  BY <1>1, <1>2, Shape
     DEF vars, db, CreateJobRequest, Loads, Continues, Aborts

\* Whatever the interleaving and whoever crashes, the ledger behaves as the
\* escrow account: it only grows, pays out once and never beyond what was
\* paid in.
THEOREM LedgerIsEscrow == Spec => ImplementsEscrow
<1>1. Init => Bank!Init
  BY InitEscrow
<1>2. IndInv /\ [Next]_vars =>
        [Bank!Next]_<<Total("DEPOSIT_HELD"), Total("BALANCE_COMMITTED"),
                      Total("RELEASED")>>
  BY NextEscrow
<1> QED
  BY <1>1, <1>2, Invariance, PTL DEF Spec, ImplementsEscrow, Bank!Spec

----------------------------------------------------------------------------
(* EcoCash deposits *)

LEMMA CollectedGrows ==
  ASSUME TypeOK, [Next]_vars, NEW j \in Jobs
  PROVE  collected'[j] \in Nat /\ collected'[j] >= collected[j]
<1>1. collected[j] \in Nat
  BY DEF TypeOK
<1>2. CASE UNCHANGED collected
  BY <1>1, <1>2
<1>3. ASSUME NEW r \in Requests, Collect(r)
      PROVE  collected'[j] \in Nat /\ collected'[j] >= collected[j]
  BY <1>1, <1>3 DEF Collect, TypeOK
<1>4. ASSUME NEW r \in Requests, Start(r) \/ Crash(r) \/ Refuse(r)
      PROVE  UNCHANGED collected
  BY <1>4 DEF Start, GetJobMatches, BookJob, SubmitQuote, CompleteJob,
         RaiseDispute, RespondToDispute, Get, Crash, Refuse, Rollback
<1>5. ASSUME NEW r \in Requests, Prepares(r), ~Collect(r)
      PROVE  UNCHANGED collected
  BY <1>5 DEF Prepares, CheckBusy, SumDeposits, InsertRecord, InsertDispute,
         FindOpenDispute, Check, SaveSelect, SaveFlush
<1>6. ASSUME NEW r \in Requests, Commits(r)
      PROVE  UNCHANGED collected
  BY <1>6 DEF Commits, CommitMatch, CommitBook, CommitQuote, CommitRespond,
         CommitComplete, CommitRaise, UpdateJob, CommitFlushed
<1>7. ASSUME NEW r \in Requests, Progress(r)
      PROVE  Prepares(r) \/ Commits(r) \/ Refuse(r)
  BY <1>7 DEF Progress, Prepares, Commits
<1> QED
  BY <1>2, <1>3, <1>4, <1>5, <1>6, <1>7 DEF Next, CreateJobRequest, vars

\* A deposit row carries an EcoCash reference when its booking collected one.
LEMMA RefsAfter ==
  ASSUME TypeOK, ChecksPassed, NEW r \in Requests, Commits(r), NEW k \in Jobs
  PROVE  ledger'[k]["DEPOSIT_HELD"].refs = ledger[k]["DEPOSIT_HELD"].refs +
           (IF r \in CollectedInFlight(k) THEN 1 ELSE 0)
<1> DEFINE q == req[r]
<1>1. q \in Request /\ InFlight(r)
  BY CommitsEnd DEF Ends, InFlight
<1>2. q.job \in Jobs /\ q.amount \in Nat
  BY <1>1, RequestFields
<1>3. ledger[k]["DEPOSIT_HELD"].refs \in Nat
  BY DEF TypeOK, EntryTypes, Entries
<1>4. CASE CommitBook(r)
  <2>1. /\ At(r, "Book", "selected")
        /\ AddEntry(q.job, "DEPOSIT_HELD", q.amount, q.currency,
                    IF q.currency = EcoCash THEN 1 ELSE 0)
    BY <1>4 DEF CommitBook
  <2>2. /\ ledger'[q.job]["DEPOSIT_HELD"].refs = ledger[q.job]["DEPOSIT_HELD"].refs +
             (IF q.currency = EcoCash THEN 1 ELSE 0)
        /\ \A i \in Jobs \ {q.job} : ledger'[i] = ledger[i]
    BY <1>2, <2>1, AddEntryAt DEF EntryTypes
  <2>3. r \in CollectedInFlight(k) <=> k = q.job /\ q.currency = EcoCash
    BY <2>1 DEF CollectedInFlight, At
  <2> QED
    BY <1>3, <2>2, <2>3
<1>5. CASE ~CommitBook(r)
  <2>1. q.op # "Book" /\ r \notin CollectedInFlight(k)
    BY <1>5 DEF Commits, CommitMatch, CommitQuote, CommitRespond, CommitComplete,
                CommitRaise, At, CollectedInFlight
  <2>2. ledger'[k]["DEPOSIT_HELD"] = ledger[k]["DEPOSIT_HELD"]
    BY <1>2, <2>1, LedgerAfter DEF Entry, EntryTypes
  <2> QED
    BY <1>3, <2>1, <2>2
<1> QED
  BY <1>4, <1>5

LEMMA EcoCashStep ==
  ASSUME IndInv, EcoCashDepositsCollected, [Next]_vars
  PROVE  EcoCashDepositsCollected'
<1> USE DEF IndInv
<1> SUFFICES ASSUME NEW k \in Jobs
             PROVE  ledger'[k]["DEPOSIT_HELD"].refs + Cardinality(CollectedInFlight(k)')
                      <= collected'[k]
  BY DEF EcoCashDepositsCollected
<1> DEFINE C == CollectedInFlight(k)
           refs == ledger[k]["DEPOSIT_HELD"].refs
<1>1. /\ IsFiniteSet(C) /\ Cardinality(C) \in Nat
      /\ IsFiniteSet(C') /\ Cardinality(C') \in Nat
  <2>1. C \subseteq Requests /\ C' \subseteq Requests
    BY DEF CollectedInFlight
  <2> QED
    BY <2>1, ConstantsAssumption, FS_Subset, FS_CardinalityType
<1>2. /\ refs \in Nat /\ collected[k] \in Nat
      /\ refs + Cardinality(C) <= collected[k]
      /\ collected'[k] \in Nat /\ collected'[k] >= collected[k]
  BY CollectedGrows DEF TypeOK, EntryTypes, Entries, EcoCashDepositsCollected
<1>3. CASE UNCHANGED <<pc, req, ledger>>
  <2>1. C' = C
    BY <1>3 DEF CollectedInFlight
  <2>2. ledger'[k]["DEPOSIT_HELD"].refs = refs /\ Cardinality(C') = Cardinality(C)
    BY <1>3, <2>1
  <2> QED
    BY <1>1, <1>2, <2>2
<1>4. ASSUME NEW r \in Requests, OthersWait(r), Loads(r) \/ Aborts(r)
      PROVE  ledger'[k]["DEPOSIT_HELD"].refs + Cardinality(C') <= collected'[k]
  <2>1. C' \subseteq C /\ UNCHANGED ledger
    BY <1>4 DEF CollectedInFlight, OthersWait, Loads, Aborts, Ends, db
  <2>2. Cardinality(C') <= Cardinality(C)
    BY <1>1, <2>1, FS_Subset
  <2> HIDE DEF C
  <2> QED
    BY <1>1, <1>2, <2>1, <2>2
<1>5. ASSUME NEW r \in Requests, OthersWait(r), Prepares(r), Continues(r)
      PROVE  ledger'[k]["DEPOSIT_HELD"].refs + Cardinality(C') <= collected'[k]
  <2>1. UNCHANGED ledger
    BY <1>5 DEF Continues, db
  <2>2. CASE Collect(r) /\ req[r].job = k
    <3>1. C' \subseteq C \cup {r}
      BY <1>5 DEF CollectedInFlight, OthersWait
    <3>2. r \notin C
      BY <2>2 DEF Collect, At, CollectedInFlight
    <3>3. collected'[k] = collected[k] + 1
      BY <2>2 DEF Collect, TypeOK
    <3>4. /\ IsFiniteSet(C \cup {r})
          /\ Cardinality(C \cup {r}) = Cardinality(C) + 1
      BY <1>1, <3>2, FS_AddElement
    <3>5. Cardinality(C') <= Cardinality(C) + 1
      BY <3>1, <3>4, FS_Subset
    <3> HIDE DEF C
    <3> QED
      BY <1>1, <1>2, <2>1, <3>3, <3>5
  <2>3. CASE ~(Collect(r) /\ req[r].job = k)
    <3>1. r \in C' => r \in C
      <4> SUFFICES ASSUME r \in C'
                   PROVE  r \in C
        OBVIOUS
      <4>1. /\ pc'[r] \in {"collected", "selected"}
            /\ req[r].op = "Book" /\ req[r].job = k /\ req[r].currency = EcoCash
        BY <1>5 DEF CollectedInFlight, Continues
      <4>2. SaveSelect(r)
        <5>1. CheckBusy(r) \/ SumDeposits(r) \/ InsertRecord(r) \/ InsertDispute(r)
                \/ FindOpenDispute(r) => pc'[r] = "checked"
          BY GotoAt DEF CheckBusy, SumDeposits, InsertRecord, InsertDispute,
                        FindOpenDispute, Check
        <5>2. SaveFlush(r) => req[r].op \in {"Complete", "Raise"}
          BY DEF SaveFlush
        <5> QED
          BY <1>5, <2>3, <4>1, <5>1, <5>2 DEF Prepares
      <4> QED
        BY <4>1, <4>2, SelectPhase DEF CollectedInFlight
    <3>2. C' \subseteq C
      BY <1>5, <3>1 DEF CollectedInFlight, OthersWait
    <3>3. Cardinality(C') <= Cardinality(C)
      BY <1>1, <3>2, FS_Subset
    <3> HIDE DEF C
    <3> QED
      BY <1>1, <1>2, <2>1, <3>3
  <2> QED
    BY <2>2, <2>3
<1>6. ASSUME NEW r \in Requests, OthersWait(r), Commits(r)
      PROVE  ledger'[k]["DEPOSIT_HELD"].refs + Cardinality(C') <= collected'[k]
  <2>1. ledger'[k]["DEPOSIT_HELD"].refs = refs + (IF r \in C THEN 1 ELSE 0)
    BY <1>6, RefsAfter
  <2>2. C' \subseteq C \ {r}
    BY <1>6, CommitsEnd DEF CollectedInFlight, OthersWait, Ends
  <2>3. /\ IsFiniteSet(C \ {r})
        /\ Cardinality(C \ {r}) = IF r \in C THEN Cardinality(C) - 1 ELSE Cardinality(C)
    BY <1>1, FS_RemoveElement
  <2>4. Cardinality(C') <= Cardinality(C \ {r})
    BY <2>2, <2>3, FS_Subset
  <2> HIDE DEF C, refs
  <2> QED
    BY <1>1, <1>2, <2>1, <2>3, <2>4
<1> QED
  BY <1>3, <1>4, <1>5, <1>6, Shape DEF vars, db, CreateJobRequest

\* Each EcoCash reference on the ledger stands for a collection of its own.
THEOREM EcoCashIsBacked == Spec => []EcoCashDepositsCollected
<1>1. Init => EcoCashDepositsCollected
  <2>1. ASSUME Init, NEW j \in Jobs
        PROVE  /\ CollectedInFlight(j) = {}
               /\ ledger[j]["DEPOSIT_HELD"].refs = 0 /\ collected[j] = 0
    BY <2>1 DEF Init, CollectedInFlight, NoEntries, EntryTypes
  <2> QED
    BY <2>1, FS_EmptySet DEF EcoCashDepositsCollected
<1>2. IndInv /\ EcoCashDepositsCollected /\ [Next]_vars => EcoCashDepositsCollected'
  BY EcoCashStep
<1> QED
  BY <1>1, <1>2, Invariance, PTL DEF Spec

----------------------------------------------------------------------------
(* Requests that keep apart *)

\* All the columns of the row a use case saves.
LEMMA AssignedColumns ==
  ASSUME NEW q \in Request
  PROVE  /\ Assigned(q).status = Target[q.op]
         /\ Assigned(q).quote = IF q.op = "Quote" THEN q.amount ELSE q.ent.quote
         /\ Assigned(q).worker = IF q.op = "Book" THEN q.worker ELSE q.ent.worker
         /\ Assigned(q).currency = IF q.op = "Book" THEN q.currency ELSE q.ent.currency
<1>1. q.ent \in Row /\ q.op \in Operations
  BY DEF Request
<1>2. CASE q.op = "Book"
  <2>1. Assigned(q) = [q.ent EXCEPT !.status = "BOOKED", !.worker = q.worker,
                                    !.currency = q.currency]
    BY <1>2 DEF Assigned
  <2>2. Assigned(q).worker = q.worker /\ Assigned(q).currency = q.currency
    BY <1>1, <2>1 DEF Row
  <2> QED
    BY <1>2, <2>2, AssignedFields
<1>3. CASE q.op # "Book"
  <2>1. Assigned(q).worker = q.ent.worker /\ Assigned(q).currency = q.ent.currency
    <3>1. CASE q.op = "Match"
      BY <1>1, <3>1 DEF Assigned, Row
    <3>2. CASE q.op = "Quote"
      <4>1. Assigned(q) = [q.ent EXCEPT !.status = "IN_PROGRESS", !.quote = q.amount]
        BY <3>2 DEF Assigned
      <4> QED
        BY <1>1, <4>1 DEF Row
    <3>3. CASE q.op = "Complete"
      BY <1>1, <3>3 DEF Assigned, Row
    <3>4. CASE q.op = "Raise"
      BY <1>1, <3>4 DEF Assigned, Row
    <3>5. CASE q.op = "Respond"
      BY <1>1, <3>5 DEF Assigned, Row
    <3> QED
      BY <1>1, <1>3, <3>1, <3>2, <3>3, <3>4, <3>5 DEF Operations
  <2> QED
    BY <1>3, <2>1, AssignedFields
<1> QED
  BY <1>2, <1>3

\* A commit writes what the use case assigned to the row it had read.
LEMMA CommittedRow ==
  ASSUME IndInv, EntitiesFresh, NEW r \in Requests, Commits(r)
  PROVE  LET q == req[r] IN
         /\ q \in Request /\ InFlight(r) /\ q.job \in Jobs /\ q.op \in Operations
         /\ q.ent = job[q.job]
         /\ job[q.job].status = Source[q.op]
         /\ job'[q.job].status = Target[q.op]
         /\ job'[q.job].quote = IF q.op = "Quote" THEN q.amount ELSE job[q.job].quote
         /\ job'[q.job].worker = IF q.op = "Book" THEN q.worker ELSE job[q.job].worker
         /\ job'[q.job].currency =
              IF q.op = "Book" THEN q.currency ELSE job[q.job].currency
         /\ \A k \in Jobs \ {q.job} : job'[k] = job[k]
<1> DEFINE q == req[r]
<1>1. /\ q \in Request /\ InFlight(r)
      /\ job' = [job EXCEPT ![q.job] = Updated(q)]
  BY CommitsEnd DEF Ends, InFlight, IndInv
<1>2. q.job \in Jobs /\ q.op \in Operations
  BY <1>1, RequestFields
<1>3. pc[r] \in {"selected", "flushed"}
  BY DEF Commits, CommitMatch, CommitBook, CommitQuote, CommitRespond,
         CommitComplete, CommitRaise, At
<1>4. q.ent = job[q.job] /\ q.base = job[q.job]
  BY <1>1, <1>3 DEF EntitiesFresh
<1>5. job[q.job].status = Source[q.op]
  BY <1>1, <1>4 DEF IndInv, EntitiesBacked
<1>6. job'[q.job] = Updated(q) /\ \A k \in Jobs \ {q.job} : job'[k] = job[k]
  BY <1>1, <1>2 DEF IndInv, TypeOK
<1>7. /\ Updated(q).status = Assigned(q).status
      /\ Updated(q).worker = Assigned(q).worker
      /\ Updated(q).currency = Assigned(q).currency
      /\ Updated(q).quote = Assigned(q).quote
  BY <1>4 DEF Updated, Column
<1> QED
  BY <1>1, <1>2, <1>4, <1>5, <1>6, <1>7, AssignedColumns

\* The rows of other requests in flight are not touched by a commit.
LEMMA OthersKeepTheirRow ==
  ASSUME IndInv, JobsApart, EntitiesFresh, NEW r \in Requests, Commits(r),
         NEW p \in Requests \ {r}, InFlight(p)'
  PROVE  /\ InFlight(p) /\ pc'[p] = pc[p] /\ req'[p] = req[p]
         /\ req[p] \in Request /\ req[p].job \in Jobs \ {req[r].job}
         /\ job'[req[p].job] = job[req[p].job]
<1>1. OthersWait(r) /\ InFlight(r) /\ \A k \in Jobs \ {req[r].job} : job'[k] = job[k]
  BY CommitsEnd, CommittedRow DEF IndInv
<1>2. InFlight(p) /\ pc'[p] = pc[p] /\ req'[p] = req[p]
  BY <1>1 DEF OthersWait, InFlight
<1>3. req[p] \in Request /\ req[p].job \in Jobs
  BY <1>2, RequestFields DEF IndInv, TypeOK, InFlight
<1>4. req[p].job # req[r].job
  BY <1>1, <1>2 DEF JobsApart
<1> QED
  BY <1>1, <1>2, <1>3, <1>4

\* A new job is no one's and is not the job of a request.
LEMMA CreatedRow ==
  ASSUME IndInv, NEW j \in Jobs, CreateJobRequest(j)
  PROVE  /\ job[j].status = "ABSENT" /\ job'[j].status = "REQUESTED"
         /\ job'[j].worker = job[j].worker /\ job'[j].currency = job[j].currency
         /\ job'[j].quote = job[j].quote
         /\ \A k \in Jobs \ {j} : job'[k] = job[k]
         /\ UNCHANGED <<ledger, disputes, record, standing, pc, req>>
<1>1. /\ job' = [job EXCEPT ![j].status = "REQUESTED"]
      /\ job[j].status = "ABSENT"
      /\ UNCHANGED <<ledger, disputes, record, standing, pc, req>>
  BY DEF CreateJobRequest
<1>2. job[j] \in Row /\ job \in [Jobs -> Row]
  BY DEF IndInv, TypeOK
<1>3. job'[j] = [job[j] EXCEPT !.status = "REQUESTED"]
  BY <1>1, <1>2
<1> QED
  BY <1>1, <1>2, <1>3 DEF Row

LEMMA EntitiesFreshStep ==
  ASSUME IndInv, JobsApart, EntitiesFresh, [Next]_vars
  PROVE  EntitiesFresh'
<1>1. CASE UNCHANGED vars
  BY <1>1 DEF EntitiesFresh, InFlight, vars, db
<1>2. ASSUME NEW j \in Jobs, CreateJobRequest(j)
      PROVE  EntitiesFresh'
  <2> SUFFICES ASSUME NEW r \in Requests, InFlight(r)'
               PROVE  /\ req'[r].ent = job'[req'[r].job]
                      /\ pc'[r] \in {"selected", "flushed"} =>
                           req'[r].base = job'[req'[r].job]
    BY DEF EntitiesFresh
  <2>1. InFlight(r) /\ req'[r] = req[r] /\ pc'[r] = pc[r]
    BY <1>2, CreatedRow DEF InFlight
  <2>2. req[r] \in Request /\ req[r].job \in Jobs /\ req[r].op \in Operations
    BY <2>1, RequestFields DEF IndInv, TypeOK, InFlight
  <2>3. req[r].ent = job[req[r].job] /\ req[r].ent.status = Source[req[r].op]
    BY <2>1 DEF EntitiesFresh, IndInv, EntitiesBacked
  <2>4. req[r].job # j
    BY <1>2, <2>2, <2>3, CreatedRow DEF Source, Operations
  <2> QED
    BY <1>2, <2>1, <2>2, <2>4, CreatedRow DEF EntitiesFresh
<1>3. ASSUME NEW r \in Requests, OthersWait(r), Loads(r)
      PROVE  EntitiesFresh'
  BY <1>3 DEF EntitiesFresh, InFlight, OthersWait, Loads, db
<1>4. ASSUME NEW r \in Requests, OthersWait(r), Prepares(r), Continues(r)
      PROVE  EntitiesFresh'
  <2> DEFINE q == req[r]
  <2>1. /\ q \in Request /\ InFlight(r) /\ UNCHANGED job
        /\ req'[r].ent = q.ent /\ req'[r].job = q.job
    BY <1>4 DEF Continues, IndInv, TypeOK, InFlight, db
  <2>2. q.ent = job[q.job]
    BY <2>1 DEF EntitiesFresh
  <2>3. ASSUME pc'[r] \in {"selected", "flushed"}
        PROVE  req'[r].base = job[q.job]
    <3>1. SaveSelect(r) \/ SaveFlush(r)
      <4>1. CheckBusy(r) \/ SumDeposits(r) \/ InsertRecord(r) \/ InsertDispute(r)
              \/ FindOpenDispute(r) => pc'[r] = "checked"
        BY GotoAt DEF CheckBusy, SumDeposits, InsertRecord, InsertDispute,
                      FindOpenDispute, Check, IndInv
      <4>2. Collect(r) => pc'[r] \in {"collected", "idle"}
        BY GotoAt, FinishAt DEF Collect, IndInv
      <4> QED
        BY <1>4, <2>3, <4>1, <4>2 DEF Prepares
    <3>2. CASE SaveSelect(r)
      <4>1. req'[r] = [q EXCEPT !.base = job[q.job]]
        BY <3>2, GotoAt DEF SaveSelect, IndInv
      <4> QED
        BY <2>1, <4>1 DEF Request
    <3>3. CASE SaveFlush(r)
      <4>1. req'[r] = [q EXCEPT !.stats = GetStats(q)] /\ pc[r] = "selected"
        BY <3>3, GotoAt DEF SaveFlush, IndInv
      <4>2. req'[r].base = q.base
        BY <2>1, <4>1 DEF Request
      <4> QED
        BY <2>1, <4>1, <4>2 DEF EntitiesFresh
    <3> QED
      BY <3>1, <3>2, <3>3
  <2> QED
    BY <1>4, <2>1, <2>2, <2>3 DEF EntitiesFresh, InFlight, OthersWait
<1>5. ASSUME NEW r \in Requests, OthersWait(r), Aborts(r)
      PROVE  EntitiesFresh'
  BY <1>5 DEF EntitiesFresh, InFlight, OthersWait, Aborts, Ends, db
<1>6. ASSUME NEW r \in Requests, Commits(r)
      PROVE  EntitiesFresh'
  <2>1. ~InFlight(r)'
    BY <1>6, CommitsEnd DEF InFlight, Ends, IndInv
  <2> QED
    BY <1>6, <2>1, OthersKeepTheirRow DEF EntitiesFresh
<1> QED
  BY <1>1, <1>2, <1>3, <1>4, <1>5, <1>6, Shape DEF IndInv

\* The currency of an entry is that of the booking, of the row, or none.
LEMMA CurrenciesAfter ==
  ASSUME IndInv, EntitiesFresh, NEW r \in Requests, Commits(r)
  PROVE  LET q == req[r] IN
         /\ \A t \in EntryTypes :
              ledger'[q.job][t].currencies \subseteq
                ledger[q.job][t].currencies \cup {job'[q.job].currency}
         /\ \A k \in Jobs \ {q.job} : ledger'[k] = ledger[k]
<1> DEFINE q == req[r]
<1>1. /\ q.job \in Jobs /\ q.ent = job[q.job]
      /\ job'[q.job].currency = IF q.op = "Book" THEN q.currency ELSE job[q.job].currency
  BY CommittedRow
<1>2. ASSUME NEW t \in EntryTypes, NEW a, NEW refs,
             AddEntry(q.job, t, a, job'[q.job].currency, refs)
      PROVE  /\ \A u \in EntryTypes :
                  ledger'[q.job][u].currencies \subseteq
                    ledger[q.job][u].currencies \cup {job'[q.job].currency}
             /\ \A k \in Jobs \ {q.job} : ledger'[k] = ledger[k]
  <2> DEFINE c == job'[q.job].currency
  <2>1. AddEntry(q.job, t, a, c, refs)
    BY <1>2
  <2> HIDE DEF c
  <2>2. /\ ledger'[q.job][t].currencies = ledger[q.job][t].currencies \cup {c}
        /\ \A u \in EntryTypes \ {t} : ledger'[q.job][u] = ledger[q.job][u]
        /\ \A k \in Jobs \ {q.job} : ledger'[k] = ledger[k]
    BY <1>1, <2>1 DEF AddEntry, IndInv, TypeOK, Entries
  <2>3. \A u \in EntryTypes : ledger'[q.job][u].currencies \subseteq
                                ledger[q.job][u].currencies \cup {c}
    BY <2>2
  <2> QED
    BY <2>2, <2>3 DEF c
<1>3. CASE CommitBook(r)
  <2>1. /\ AddEntry(q.job, "DEPOSIT_HELD", q.amount, job'[q.job].currency,
                    IF q.currency = EcoCash THEN 1 ELSE 0)
        /\ "DEPOSIT_HELD" \in EntryTypes
    BY <1>1, <1>3 DEF CommitBook, At, EntryTypes
  <2> QED
    BY <2>1, <1>2
<1>4. CASE CommitQuote(r)
  <2>1. /\ AddEntry(q.job, "BALANCE_COMMITTED", q.amount - q.deposited,
                    job'[q.job].currency, 0)
        /\ "BALANCE_COMMITTED" \in EntryTypes
    BY <1>1, <1>4 DEF CommitQuote, At, EntryTypes
  <2> QED
    BY <2>1, <1>2
<1>5. CASE CommitComplete(r)
  <2>1. /\ AddEntry(q.job, "RELEASED", q.ent.quote, job'[q.job].currency, 0)
        /\ "RELEASED" \in EntryTypes
    BY <1>1, <1>5 DEF CommitComplete, At, EntryTypes
  <2> QED
    BY <2>1, <1>2
<1>6. CASE CommitMatch(r) \/ CommitRespond(r) \/ CommitRaise(r)
  BY <1>6 DEF CommitMatch, CommitRespond, CommitRaise
<1> QED
  BY <1>3, <1>4, <1>5, <1>6 DEF Commits

LEMMA OneCurrencyStep ==
  ASSUME IndInv, EntitiesFresh, BooksMatchStage, OneCurrency, [Next]_vars
  PROVE  OneCurrency'
<1>1. CASE UNCHANGED <<job, ledger>>
  BY <1>1 DEF OneCurrency
<1>2. ASSUME NEW j \in Jobs, CreateJobRequest(j)
      PROVE  OneCurrency'
  BY <1>2, CreatedRow DEF OneCurrency
<1>3. ASSUME NEW r \in Requests, Commits(r)
      PROVE  OneCurrency'
  <2> DEFINE q == req[r]
             i == q.job
  <2>1. /\ i \in Jobs /\ job[i].status = Source[q.op]
        /\ job'[i].currency = IF q.op = "Book" THEN q.currency ELSE job[i].currency
        /\ \A k \in Jobs \ {i} : job'[k] = job[k]
    BY <1>3, CommittedRow
  <2>2. ASSUME NEW t \in EntryTypes
        PROVE  ledger[i][t].currencies \subseteq {job'[i].currency}
    <3>1. ledger[i][t].currencies \subseteq Currencies
      BY <2>1 DEF IndInv, TypeOK, Entries
    <3>2. ledger[i][t].currencies \subseteq {job[i].currency}
      BY <2>1 DEF OneCurrency
    <3>3. CASE q.op = "Book"
      <4>1. job[i].currency = NoCurrency
        BY <2>1, <3>3 DEF BooksMatchStage, StageBooks, Source
      <4> QED
        BY <3>1, <3>2, <4>1, ConstantsAssumption
    <3> QED
      BY <2>1, <3>2, <3>3
  <2>3. /\ \A t \in EntryTypes : ledger'[i][t].currencies \subseteq
             ledger[i][t].currencies \cup {job'[i].currency}
        /\ \A k \in Jobs \ {i} : ledger'[k] = ledger[k]
    BY <1>3, CurrenciesAfter
  <2>4. \A t \in EntryTypes : ledger'[i][t].currencies \subseteq {job'[i].currency}
    BY <2>2, <2>3
  <2> HIDE DEF i
  <2> QED
    BY <2>1, <2>3, <2>4 DEF OneCurrency
<1> QED
  BY <1>1, <1>2, <1>3, Shape DEF IndInv, vars, db, Loads, Continues, Aborts

\* Before a stage's money is committed it is not on the ledger; after it is,
\* the quote is what the buyer paid in.
LEMMA BooksMatchStageStep ==
  ASSUME IndInv, EntitiesFresh, ChecksCurrent, BooksMatchStage, [Next]_vars
  PROVE  BooksMatchStage'
<1>1. CASE UNCHANGED <<job, ledger, record>>
  BY <1>1 DEF BooksMatchStage, StageBooks, PaidIn
<1>2. ASSUME NEW j \in Jobs, CreateJobRequest(j), NEW k \in Jobs
      PROVE  StageBooks(k)'
  <2>1. PaidIn(k)' = PaidIn(k) /\ StageBooks(k)
    BY <1>2, CreatedRow DEF PaidIn, BooksMatchStage
  <2>2. CASE k = j
    BY <1>2, <2>1, <2>2, CreatedRow DEF StageBooks
  <2>3. CASE k # j
    BY <1>2, <2>1, <2>3, CreatedRow DEF StageBooks
  <2> QED
    BY <2>2, <2>3
<1>3. ASSUME NEW r \in Requests, Commits(r), NEW k \in Jobs
      PROVE  StageBooks(k)'
  <2> DEFINE q == req[r]
             held == ledger[k]["DEPOSIT_HELD"].total
             balance == ledger[k]["BALANCE_COMMITTED"].total
  <2>1. /\ q.job \in Jobs /\ q.op \in Operations /\ InFlight(r) /\ q \in Request
        /\ \A i \in Jobs \ {q.job} : job'[i] = job[i]
    BY <1>3, CommittedRow
  <2>2. /\ StageBooks(k)
        /\ PaidIn(k) = held + balance
        /\ PaidIn(k)' = ledger'[k]["DEPOSIT_HELD"].total
                          + ledger'[k]["BALANCE_COMMITTED"].total
    BY <1>3 DEF PaidIn, BooksMatchStage
  <2>3. /\ q.op \in DOMAIN Entry =>
             /\ ledger'[q.job][Entry[q.op]].total =
                  ledger[q.job][Entry[q.op]].total + Amount(q)
             /\ \A u \in EntryTypes \ {Entry[q.op]} : ledger'[q.job][u] = ledger[q.job][u]
             /\ \A i \in Jobs \ {q.job} : ledger'[i] = ledger[i]
        /\ q.op \notin DOMAIN Entry => UNCHANGED ledger
    BY <1>3, LedgerAfter DEF IndInv
  <2>4. /\ q.op # "Complete" => UNCHANGED record
        /\ \A i \in Jobs \ {q.job} : record'[i] = record[i]
    BY <1>3, RecordAfter DEF IndInv, TypeOK
  <2>5. CASE k # q.job
    <3>1. job'[k] = job[k] /\ ledger'[k] = ledger[k] /\ record'[k] = record[k]
      BY <1>3, <2>1, <2>3, <2>4, <2>5
    <3> QED
      BY <2>2, <3>1 DEF StageBooks
  <2>6. CASE k = q.job
    <3>1. /\ job[k].status = Source[q.op] /\ job'[k].status = Target[q.op]
          /\ job'[k].quote = IF q.op = "Quote" THEN q.amount ELSE job[k].quote
          /\ job'[k].worker = IF q.op = "Book" THEN q.worker ELSE job[k].worker
          /\ job'[k].currency = IF q.op = "Book" THEN q.currency ELSE job[k].currency
      BY <1>3, <2>6, CommittedRow
    <3>2. /\ held \in Nat /\ balance \in Nat /\ job[k].quote \in Nat
          /\ q.amount \in Nat /\ q.deposited \in Nat
      BY <1>3, <2>1, TotalsType, RequestFields DEF IndInv, EntryTypes
    <3>3. q.op = "Quote" => q.deposited = held
      BY <1>3, <2>1, <2>6 DEF ChecksCurrent, CheckCurrent, SumByType, Commits, CommitMatch,
         CommitBook, CommitQuote, CommitRespond, CommitComplete, CommitRaise, At
    <3>4. /\ ledger'[k]["DEPOSIT_HELD"].total =
               IF q.op = "Book" THEN held + q.amount ELSE held
          /\ ledger'[k]["BALANCE_COMMITTED"].total =
               IF q.op = "Quote" THEN balance + (q.amount - q.deposited) ELSE balance
      <4>1. /\ q.op = "Book" => Amount(q) = q.amount
            /\ q.op = "Quote" => Amount(q) = q.amount - q.deposited
        BY DEF Amount
      <4> HIDE DEF q
      <4> QED
        BY <2>3, <2>6, <4>1 DEF Entry, EntryTypes
    <3> HIDE DEF held, balance, q
    <3>5. CASE q.op = "Match"
      BY <2>2, <2>4, <3>1, <3>2, <3>4, <3>5 DEF StageBooks, held, balance, Source, Target
    <3>6. CASE q.op = "Book"
      BY <2>2, <2>4, <3>1, <3>2, <3>4, <3>6 DEF StageBooks, held, balance, Source, Target
    <3>7. CASE q.op = "Quote"
      <4>1. job[k].status = "BOOKED" /\ job'[k].status = "IN_PROGRESS"
        BY <3>1, <3>7 DEF Source, Target
      <4>2. balance = 0
        BY <2>2, <4>1 DEF StageBooks, balance
      <4>3. job'[k].quote = PaidIn(k)'
        BY <2>2, <3>1, <3>2, <3>3, <3>4, <3>7, <4>2
      <4> QED
        BY <2>2, <2>4, <3>7, <4>1, <4>3 DEF StageBooks
    <3>8. CASE q.op = "Complete"
      BY <2>2, <3>1, <3>2, <3>4, <3>8 DEF StageBooks, Source, Target
    <3>9. CASE q.op = "Raise"
      BY <2>2, <2>4, <3>1, <3>2, <3>4, <3>9 DEF StageBooks, Source, Target
    <3>10. CASE q.op = "Respond"
      BY <2>2, <2>4, <3>1, <3>2, <3>4, <3>10 DEF StageBooks, Source, Target
    <3> QED
      BY <2>1, <3>5, <3>6, <3>7, <3>8, <3>9, <3>10 DEF Operations
  <2> QED
    BY <2>5, <2>6
<1> QED
  BY <1>1, <1>2, <1>3, Shape
     DEF IndInv, BooksMatchStage, vars, db, Loads, Continues, Aborts

\* The statistics of a worker are those of the rows that name the worker.
LEMMA StatsSame ==
  ASSUME NEW w, NEW rows, NEW later, NEW raised, NEW after,
         \A k \in Jobs :
           /\ rows[k].worker = w <=> later[k].worker = w
           /\ rows[k].worker = w =>
                /\ rows[k].status = "COMPLETED" <=> later[k].status = "COMPLETED"
                /\ k \in raised <=> k \in after
  PROVE  StatsOf(w, rows, raised) = StatsOf(w, later, after)
<1> DEFINE mine == {j \in Jobs : rows[j].worker = w}
           done == {j \in mine : rows[j].status = "COMPLETED"}
           mine2 == {j \in Jobs : later[j].worker = w}
           done2 == {j \in mine2 : later[j].status = "COMPLETED"}
<1>1. mine = mine2
  OBVIOUS
<1>2. done = done2
  OBVIOUS
<1>3. mine \cap raised = mine2 \cap after
  OBVIOUS
<1>4. done \cap raised = done2 \cap after
  OBVIOUS
<1> QED
  BY <1>1, <1>2, <1>3, <1>4 DEF StatsOf

\* They do not depend on what the request was told of them.
LEMMA GetStatsSame ==
  ASSUME NEW q \in Request, NEW stats
  PROVE  GetStats([q EXCEPT !.stats = stats]) = GetStats(q)
<1> DEFINE p == [q EXCEPT !.stats = stats]
<1>1. /\ p.op = q.op /\ p.job = q.job /\ p.worker = q.worker
      /\ p.currency = q.currency /\ p.amount = q.amount
      /\ p.ent = q.ent /\ p.base = q.base
  BY DEF Request
<1> HIDE DEF p
<1>2. Assigned(p) = Assigned(q)
  BY <1>1 DEF Assigned
<1>3. Updated(p) = Updated(q)
  BY <1>1, <1>2 DEF Updated
<1>4. GetStats(p) = GetStats(q)
  BY <1>1, <1>3 DEF GetStats
<1> QED
  BY <1>4 DEF p

\* A new job is in nobody's statistics and keeps nobody busy.
LEMMA CreatedCounts ==
  ASSUME IndInv, BooksMatchStage, NEW j \in Jobs, CreateJobRequest(j)
  PROVE  /\ \A w \in Workers : IsWorkerBusy(w)' <=> IsWorkerBusy(w)
         /\ \A q \in Request :
              q.job # j /\ q.ent.worker # NoWorker => GetStats(q)' = GetStats(q)
         /\ \A w \in Workers : Truth(w)' = Truth(w)
<1>1. /\ job[j].status = "ABSENT" /\ job'[j].status = "REQUESTED"
      /\ job[j].worker = NoWorker /\ job'[j].worker = NoWorker
      /\ \A k \in Jobs \ {j} : job'[k] = job[k]
      /\ UNCHANGED disputes
  BY CreatedRow DEF BooksMatchStage, StageBooks
<1>2. ASSUME NEW w \in Workers
      PROVE  IsWorkerBusy(w)' <=> IsWorkerBusy(w)
  BY <1>1, ConstantsAssumption DEF IsWorkerBusy, BusyStatuses
<1>3. DisputedJobs' = DisputedJobs
  BY <1>1 DEF DisputedJobs
<1>4. ASSUME NEW w \in Workers
      PROVE  Truth(w)' = Truth(w)
  <2>1. \A k \in Jobs :
          /\ job[k].worker = w <=> job'[k].worker = w
          /\ job[k].worker = w =>
               (job[k].status = "COMPLETED" <=> job'[k].status = "COMPLETED")
    BY <1>1, ConstantsAssumption
  <2>2. StatsOf(w, job, DisputedJobs) = StatsOf(w, job', DisputedJobs)
    BY <2>1, StatsSame
  <2> QED
    BY <1>3, <2>2 DEF Truth
<1>5. ASSUME NEW q \in Request, q.job # j, q.ent.worker # NoWorker
      PROVE  GetStats(q)' = GetStats(q)
  <2> DEFINE rows == [job EXCEPT ![q.job] = Updated(q)]
             later == [job' EXCEPT ![q.job] = Updated(q)]
             raised == DisputedJobs \cup (IF q.op = "Raise" THEN {q.job} ELSE {})
  <2>1. /\ q.job \in Jobs /\ job'[q.job] = job[q.job]
        /\ job \in [Jobs -> Row] /\ job' \in [Jobs -> Row]
    <3>1. TypeOK'
      BY TypeStep DEF Next, IndInv
    <3> QED
      BY <1>1, <1>5, <3>1, RequestFields DEF IndInv, TypeOK
  <2>2. Updated(q)' = Updated(q)
    BY <2>1 DEF Updated
  <2>3. \A k \in Jobs : rows[k] = later[k] \/ (k = j /\ rows[k] = job[k] /\ later[k] = job'[k])
    <3> DEFINE U == Updated(q)
    <3>1. rows = [job EXCEPT ![q.job] = U] /\ later = [job' EXCEPT ![q.job] = U]
      OBVIOUS
    <3> HIDE DEF U, rows, later
    <3> QED
      BY <1>1, <1>5, <2>1, <3>1
  <2>4. GetStats(q) = StatsOf(q.ent.worker, rows, raised)
    BY DEF GetStats
  <2>5. GetStats(q)' = StatsOf(q.ent.worker, later, raised)
    BY <1>3, <2>2 DEF GetStats
  <2> HIDE DEF rows, later, raised
  <2>6. \A k \in Jobs :
          /\ rows[k].worker = q.ent.worker <=> later[k].worker = q.ent.worker
          /\ rows[k].worker = q.ent.worker =>
               (rows[k].status = "COMPLETED" <=> later[k].status = "COMPLETED")
    BY <1>1, <1>5, <2>3
  <2>7. StatsOf(q.ent.worker, rows, raised) = StatsOf(q.ent.worker, later, raised)
    BY <2>6, StatsSame
  <2> QED
    BY <2>4, <2>5, <2>7
<1> QED
  BY <1>2, <1>4, <1>5

LEMMA ChecksCurrentStep ==
  ASSUME IndInv, JobsApart, EntitiesFresh, ChecksCurrent, [Next]_vars
  PROVE  ChecksCurrent'
<1>1. CASE UNCHANGED vars
  BY <1>1 DEF ChecksCurrent, CheckCurrent, InFlight, SumByType, vars, db
<1>2. ASSUME NEW j \in Jobs, CreateJobRequest(j)
      PROVE  ChecksCurrent'
  BY <1>2, CreatedRow DEF ChecksCurrent, CheckCurrent, InFlight, SumByType
<1>3. ASSUME NEW r \in Requests, Loads(r)
      PROVE  CheckCurrent(r)'
  BY <1>3 DEF Loads, CheckCurrent
<1>4. ASSUME NEW r \in Requests, Prepares(r), Continues(r)
      PROVE  CheckCurrent(r)'
  <2> DEFINE q == req[r]
  <2>1. /\ q \in Request /\ CheckCurrent(r) /\ UNCHANGED ledger
        /\ req'[r].op = q.op /\ req'[r].job = q.job /\ req'[r].amount = q.amount
        /\ pc'[r] # "idle"
    BY <1>4 DEF Continues, IndInv, TypeOK, InFlight, db, ChecksCurrent
  <2>2. SumByType(req[r].job, "DEPOSIT_HELD")' = SumByType(q.job, "DEPOSIT_HELD")
    BY <2>1 DEF SumByType
  <2>3. CASE SumDeposits(r)
    <3>1. /\ req'[r] = [q EXCEPT !.deposited = SumByType(q.job, "DEPOSIT_HELD")]
          /\ q.op = "Quote"
      BY <2>3, GotoAt DEF SumDeposits, Check, At, IndInv
    <3>2. req'[r].deposited = SumByType(q.job, "DEPOSIT_HELD")
      BY <2>1, <3>1 DEF Request
    <3> QED
      BY <2>1, <2>2, <3>1, <3>2 DEF CheckCurrent
  <2>4. CASE InsertRecord(r) \/ InsertDispute(r) \/ FindOpenDispute(r)
    <3>1. q.op \in {"Complete", "Raise", "Respond"}
      BY <2>4 DEF InsertRecord, InsertDispute, FindOpenDispute, At
    <3> QED
      BY <2>1, <3>1 DEF CheckCurrent
  <2>5. CASE CheckBusy(r) \/ Collect(r)
    <3>1. req'[r] = q /\ q.op = "Book"
      BY <1>4, <2>5, GotoAt, FinishAt DEF CheckBusy, Check, Collect, At, IndInv, Continues
    <3> QED
      BY <2>1, <3>1 DEF CheckCurrent
  <2>6. CASE SaveSelect(r)
    <3>1. req'[r] = [q EXCEPT !.base = job[q.job]]
      BY <2>6, GotoAt DEF SaveSelect, IndInv
    <3>2. req'[r].worker = q.worker /\ req'[r].deposited = q.deposited
      BY <2>1, <3>1 DEF Request
    <3>3. q.op = "Quote" => pc[r] # "loaded"
      BY <2>6, SelectPhase DEF IndInv
    <3> QED
      BY <2>1, <2>2, <3>2, <3>3 DEF CheckCurrent
  <2>7. CASE SaveFlush(r)
    <3>1. q.op \in {"Complete", "Raise"}
      BY <2>7 DEF SaveFlush
    <3> QED
      BY <2>1, <3>1 DEF CheckCurrent
  <2> QED
    BY <1>4, <2>3, <2>4, <2>5, <2>6, <2>7 DEF Prepares
<1>5. ASSUME NEW r \in Requests, OthersWait(r), UNCHANGED ledger,
             InFlight(r)' => CheckCurrent(r)'
      PROVE  ChecksCurrent'
  <2> SUFFICES ASSUME NEW p \in Requests \ {r}, InFlight(p)'
               PROVE  CheckCurrent(p)'
    BY <1>5 DEF ChecksCurrent
  <2>1. InFlight(p) /\ pc'[p] = pc[p] /\ req'[p] = req[p]
    BY <1>5 DEF OthersWait, InFlight
  <2> QED
    BY <1>5, <2>1 DEF ChecksCurrent, CheckCurrent, SumByType
<1>6. ASSUME NEW r \in Requests, Commits(r)
      PROVE  ChecksCurrent'
  <2> SUFFICES ASSUME NEW p \in Requests, InFlight(p)'
               PROVE  CheckCurrent(p)'
    BY DEF ChecksCurrent
  <2>1. p # r
    BY <1>6, CommitsEnd DEF InFlight, Ends, IndInv
  <2>2. /\ InFlight(p) /\ pc'[p] = pc[p] /\ req'[p] = req[p]
        /\ req[p].job \in Jobs \ {req[r].job}
    BY <1>6, <2>1, OthersKeepTheirRow
  <2>3. ledger'[req[p].job] = ledger[req[p].job]
    BY <1>6, <2>2, LedgerAfter DEF IndInv
  <2> QED
    BY <2>2, <2>3 DEF ChecksCurrent, CheckCurrent, SumByType
<1>7. ASSUME NEW r \in Requests, Aborts(r)
      PROVE  UNCHANGED ledger /\ ~InFlight(r)'
  BY <1>7 DEF Aborts, Ends, InFlight, db
<1>8. ASSUME NEW r \in Requests, Loads(r) \/ Continues(r)
      PROVE  UNCHANGED ledger
  BY <1>8 DEF Loads, Continues, db
<1> QED
  BY <1>1, <1>2, <1>3, <1>4, <1>5, <1>6, <1>7, <1>8, Shape DEF IndInv

\* A commit makes no worker busy but the one it books: only a booking gives a
\* job a worker, and the stages are not left backwards.
LEMMA BusyAfter ==
  ASSUME IndInv, JobInv, NEW r \in Requests, Commits(r),
         NEW w \in Workers, IsWorkerBusy(w)', ~IsWorkerBusy(w)
  PROVE  req[r].op = "Book" /\ req[r].worker = w
<1> DEFINE q == req[r]
<1>1. /\ q.job \in Jobs /\ q.op \in Operations
      /\ job[q.job].status = Source[q.op] /\ job'[q.job].status = Target[q.op]
      /\ job'[q.job].worker = IF q.op = "Book" THEN q.worker ELSE job[q.job].worker
      /\ \A k \in Jobs \ {q.job} : job'[k] = job[k]
  BY CommittedRow DEF JobInv
<1>2. q.op = "Match" => job[q.job].worker = NoWorker
  BY <1>1 DEF JobInv, BooksMatchStage, StageBooks, Source
<1> HIDE DEF q
<1>3. job'[q.job].worker = w /\ job'[q.job].status \in BusyStatuses
  BY <1>1 DEF IsWorkerBusy
<1>4. q.op # "Match"
  BY <1>1, <1>2, <1>3, ConstantsAssumption
<1>5. q.op # "Complete"
  BY <1>1, <1>3 DEF Target, BusyStatuses
<1>6. q.op \notin {"Quote", "Raise", "Respond"}
  BY <1>1, <1>3 DEF IsWorkerBusy, Source, BusyStatuses
<1>7. q.op = "Book" /\ q.worker = w
  BY <1>1, <1>3, <1>4, <1>5, <1>6 DEF Operations
<1> QED
  BY <1>7 DEF q

LEMMA BookedAreFreeStep ==
  ASSUME IndInv, BookingsApart, JobInv, BookedAreFree, [Next]_vars
  PROVE  BookedAreFree'
<1>1. CASE UNCHANGED vars
  BY <1>1 DEF BookedAreFree, Booking, InFlight, IsWorkerBusy, vars, db
<1>2. ASSUME NEW j \in Jobs, CreateJobRequest(j)
      PROVE  BookedAreFree'
  <2> SUFFICES ASSUME NEW r \in Requests, Booking(r)', pc'[r] # "loaded"
               PROVE  ~IsWorkerBusy(req[r].worker)'
    BY DEF BookedAreFree
  <2>1. Booking(r) /\ req'[r] = req[r] /\ pc'[r] = pc[r]
    BY <1>2, CreatedRow DEF Booking, InFlight
  <2>2. req[r].worker \in Workers /\ ~IsWorkerBusy(req[r].worker)
    BY <2>1 DEF BookedAreFree, JobInv, ChecksCurrent, CheckCurrent, Booking
  <2>3. \A w \in Workers : IsWorkerBusy(w)' <=> IsWorkerBusy(w)
    BY <1>2, CreatedCounts DEF JobInv
  <2> QED
    BY <2>1, <2>2, <2>3
<1>3. ASSUME NEW r \in Requests, OthersWait(r), UNCHANGED job,
             Booking(r)' /\ pc'[r] # "loaded" => ~IsWorkerBusy(req[r].worker)'
      PROVE  BookedAreFree'
  <2> SUFFICES ASSUME NEW p \in Requests \ {r}, Booking(p)', pc'[p] # "loaded"
               PROVE  ~IsWorkerBusy(req[p].worker)'
    BY <1>3 DEF BookedAreFree
  <2>1. Booking(p) /\ pc'[p] = pc[p] /\ req'[p] = req[p]
    BY <1>3 DEF OthersWait, Booking, InFlight
  <2> QED
    BY <1>3, <2>1 DEF BookedAreFree, IsWorkerBusy
<1>4. ASSUME NEW r \in Requests, OthersWait(r), Loads(r) \/ Aborts(r)
      PROVE  BookedAreFree'
  <2>1. UNCHANGED job /\ ~(Booking(r)' /\ pc'[r] # "loaded")
    BY <1>4 DEF Loads, Aborts, Ends, Booking, InFlight, db
  <2> QED
    BY <1>3, <1>4, <2>1
<1>5. ASSUME NEW r \in Requests, OthersWait(r), Prepares(r), Continues(r)
      PROVE  BookedAreFree'
  <2> DEFINE q == req[r]
  <2>1. UNCHANGED job /\ pc[r] # "idle" /\ req'[r].op = q.op /\ q \in Request
    BY <1>5 DEF Continues, IndInv, TypeOK, db
  <2>2. ASSUME Booking(r)', pc'[r] # "loaded"
        PROVE  ~IsWorkerBusy(req[r].worker)'
    <3>1. q.op = "Book" /\ Booking(r)
      BY <2>1, <2>2 DEF Booking, InFlight
    <3>2. CASE CheckBusy(r)
      <4>1. req'[r] = q /\ ~IsWorkerBusy(q.worker)
        BY <3>2, GotoAt DEF CheckBusy, Check, IndInv
      <4> QED
        BY <2>1, <4>1 DEF IsWorkerBusy
    <3>3. CASE Collect(r)
      <4>1. req'[r] = q /\ pc[r] = "checked"
        BY <1>5, <3>3, GotoAt, FinishAt DEF Collect, At, IndInv, Continues
      <4> QED
        BY <2>1, <3>1, <4>1 DEF BookedAreFree, IsWorkerBusy
    <3>4. CASE SaveSelect(r)
      <4>1. req'[r] = [q EXCEPT !.base = job[q.job]] /\ pc[r] # "loaded"
        BY <3>1, <3>4, GotoAt, SelectPhase DEF SaveSelect, IndInv
      <4>2. req'[r].worker = q.worker
        BY <2>1, <4>1 DEF Request
      <4> QED
        BY <2>1, <3>1, <4>1, <4>2 DEF BookedAreFree, IsWorkerBusy
    <3> QED
      BY <1>5, <3>1, <3>2, <3>3, <3>4
         DEF Prepares, SumDeposits, InsertRecord, InsertDispute, FindOpenDispute, SaveFlush, At
  <2> QED
    BY <1>3, <1>5, <2>1, <2>2
<1>6. ASSUME NEW r \in Requests, Commits(r)
      PROVE  BookedAreFree'
  <2> SUFFICES ASSUME NEW p \in Requests, Booking(p)', pc'[p] # "loaded",
                      IsWorkerBusy(req[p].worker)'
               PROVE  FALSE
    BY DEF BookedAreFree
  <2>1. p # r /\ Booking(p) /\ pc'[p] = pc[p] /\ req'[p] = req[p]
    BY <1>6, CommitsEnd DEF Booking, InFlight, Ends, OthersWait, IndInv
  <2>2. req[p].worker \in Workers /\ ~IsWorkerBusy(req[p].worker)
    BY <2>1 DEF BookedAreFree, JobInv, ChecksCurrent, CheckCurrent, Booking
  <2>3. IsWorkerBusy(req[p].worker)' <=> \E k \in Jobs :
          job'[k].worker = req[p].worker /\ job'[k].status \in BusyStatuses
    BY <2>1 DEF IsWorkerBusy
  <2>4. PICK w \in Workers : w = req[p].worker
    BY <2>2
  <2>5. IsWorkerBusy(w)' /\ ~IsWorkerBusy(w)
    BY <2>2, <2>3, <2>4 DEF IsWorkerBusy
  <2>6. req[r].op = "Book" /\ req[r].worker = w
    BY <1>6, <2>5, BusyAfter
  <2>7. Booking(r)
    BY <1>6, <2>6, CommitsEnd DEF Booking, InFlight, Ends, IndInv
  <2> QED
    BY <2>1, <2>4, <2>6, <2>7 DEF BookingsApart
<1> QED
  BY <1>1, <1>2, <1>4, <1>5, <1>6, Shape DEF IndInv

\* A booking takes a worker nobody holds, and no other step gives a job a
\* worker or takes an idle one up again.
LEMMA OneActiveJobStep ==
  ASSUME IndInv, JobInv, BookedAreFree, OneActiveJobPerWorker, [Next]_vars
  PROVE  OneActiveJobPerWorker'
<1>1. CASE UNCHANGED job
  BY <1>1 DEF OneActiveJobPerWorker
<1>2. ASSUME NEW j \in Jobs, CreateJobRequest(j)
      PROVE  OneActiveJobPerWorker'
  <2>1. /\ job'[j].worker = NoWorker
        /\ \A k \in Jobs \ {j} : job'[k] = job[k]
    BY <1>2, CreatedRow DEF JobInv, BooksMatchStage, StageBooks
  <2> QED
    BY <2>1 DEF OneActiveJobPerWorker
<1>3. ASSUME NEW r \in Requests, Commits(r)
      PROVE  OneActiveJobPerWorker'
  <2> DEFINE q == req[r]
  <2>1. /\ q.job \in Jobs /\ q.op \in Operations /\ InFlight(r)
        /\ job[q.job].status = Source[q.op] /\ job'[q.job].status = Target[q.op]
        /\ job'[q.job].worker = IF q.op = "Book" THEN q.worker ELSE job[q.job].worker
        /\ \A k \in Jobs \ {q.job} : job'[k] = job[k]
    BY <1>3, CommittedRow DEF JobInv
  <2>2. q.op = "Book" => ~IsWorkerBusy(q.worker)
    BY <1>3, <2>1 DEF BookedAreFree, Booking, Commits, CommitMatch, CommitBook,
         CommitQuote, CommitRespond, CommitComplete, CommitRaise, At
  <2>3. q.op = "Match" => job[q.job].worker = NoWorker
    BY <2>1 DEF JobInv, BooksMatchStage, StageBooks, Source
  <2> HIDE DEF q
  <2>4. ASSUME NEW k \in Jobs \ {q.job},
               job'[q.job].worker # NoWorker, job'[k].worker = job'[q.job].worker,
               job'[q.job].status \in BusyStatuses, job'[k].status \in BusyStatuses
        PROVE  FALSE
    <3>1. CASE q.op = "Book"
      BY <2>1, <2>2, <2>4, <3>1 DEF IsWorkerBusy
    <3>2. CASE q.op \in {"Match", "Complete"}
      BY <2>1, <2>3, <2>4, <3>2 DEF Target, BusyStatuses
    <3>3. CASE q.op \in {"Quote", "Raise", "Respond"}
      <4>1. job[q.job].status \in BusyStatuses
        BY <2>1, <3>3 DEF Source, BusyStatuses
      <4> QED
        BY <2>1, <2>4, <3>3, <4>1 DEF OneActiveJobPerWorker
    <3> QED
      BY <2>1, <3>1, <3>2, <3>3 DEF Operations
  <2> QED
    BY <2>1, <2>4 DEF OneActiveJobPerWorker
<1> QED
  BY <1>1, <1>2, <1>3, Shape DEF IndInv, vars, db, Loads, Continues, Aborts

LEMMA RecordNamesStep ==
  ASSUME IndInv, EntitiesFresh, BooksMatchStage,
         RecordNamesTheWorker, [Next]_vars
  PROVE  RecordNamesTheWorker'
<1>1. CASE UNCHANGED <<job, record>>
  BY <1>1 DEF RecordNamesTheWorker
<1>2. ASSUME NEW j \in Jobs, CreateJobRequest(j)
      PROVE  RecordNamesTheWorker'
  BY <1>2, CreatedRow DEF RecordNamesTheWorker
<1>3. ASSUME NEW r \in Requests, Commits(r)
      PROVE  RecordNamesTheWorker'
  <2> DEFINE q == req[r]
  <2>1. /\ q.job \in Jobs /\ q.ent = job[q.job]
        /\ job[q.job].status = Source[q.op]
        /\ job'[q.job].worker = IF q.op = "Book" THEN q.worker ELSE job[q.job].worker
        /\ \A k \in Jobs \ {q.job} : job'[k] = job[k]
    BY <1>3, CommittedRow
  <2>2. CASE q.op = "Complete"
    <3>1. record' = [record EXCEPT ![q.job] = job[q.job].worker]
      BY <1>3, <2>1, <2>2, RecordAfter DEF IndInv
    <3>2. record'[q.job] = job'[q.job].worker
      BY <2>1, <2>2, <3>1 DEF IndInv, TypeOK
    <3> QED
      BY <2>1, <3>1, <3>2 DEF RecordNamesTheWorker
  <2>3. CASE q.op = "Book"
    <3>1. UNCHANGED record /\ record[q.job] = NoWorker
      BY <1>3, <2>1, <2>3, RecordAfter DEF IndInv, BooksMatchStage, StageBooks, Source
    <3> QED
      BY <2>1, <3>1 DEF RecordNamesTheWorker
  <2>4. CASE q.op \notin {"Complete", "Book"}
    <3>1. UNCHANGED record /\ job'[q.job].worker = job[q.job].worker
      BY <1>3, <2>1, <2>4, RecordAfter DEF IndInv
    <3> QED
      BY <2>1, <3>1 DEF RecordNamesTheWorker
  <2> QED
    BY <2>2, <2>3, <2>4
<1> QED
  BY <1>1, <1>2, <1>3, Shape DEF IndInv, vars, db, Loads, Continues, Aborts

\* A worker's completed jobs, and what StatsOf counts of them.
DoneBy(w, rows) == {j \in Jobs : rows[j].worker = w /\ rows[j].status = "COMPLETED"}

LEMMA StatsOfDone ==
  ASSUME NEW w, NEW rows, NEW raised
  PROVE  /\ StatsOf(w, rows, raised).completed = Cardinality(DoneBy(w, rows))
         /\ StatsOf(w, rows, raised).redone = Cardinality(DoneBy(w, rows) \cap raised)
<1>1. {j \in {i \in Jobs : rows[i].worker = w} : rows[j].status = "COMPLETED"}
        = DoneBy(w, rows)
  BY DEF DoneBy
<1> QED
  BY <1>1 DEF StatsOf

\* The jobs with a dispute: raising one adds its job, answering adds none.
LEMMA DisputedJobsAfter ==
  ASSUME IndInv, NEW r \in Requests, Commits(r)
  PROVE  DisputedJobs' = DisputedJobs \cup
           (IF req[r].op = "Raise" THEN {req[r].job} ELSE {})
<1> DEFINE q == req[r]
<1>1. q.job \in Jobs /\ disputes \in [Jobs -> [DisputeIds -> DisputeStatuses]]
  BY CommitsEnd, RequestFields DEF IndInv, TypeOK
<1>2. CASE q.op = "Raise"
  <2>1. q.dispute \in DisputeIds /\ disputes' = [disputes EXCEPT ![q.job][q.dispute] = "OPEN"]
    <3>1. q.dispute \in 1 .. clock[q.job] /\ clock[q.job] \in 0 .. MaxDisputes
      BY <1>1, <1>2, DisputesAfter DEF IndInv, DisputesNumbered, TypeOK
    <3>2. q.dispute \in DisputeIds
      BY <3>1, ConstantsAssumption DEF DisputeIds
    <3> QED
      BY <1>2, <3>2, DisputesAfter DEF IndInv
  <2>2. disputes'[q.job][q.dispute] = "OPEN"
    BY <1>1, <2>1
  <2>3. \A k \in Jobs \ {q.job} : disputes'[k] = disputes[k]
    BY <1>1, <2>1
  <2> HIDE DEF q
  <2> QED
    BY <1>1, <1>2, <2>1, <2>2, <2>3 DEF DisputedJobs, q
<1>3. CASE q.op = "Respond"
  <2>1. /\ q.dispute \in DisputeIds /\ disputes[q.job][q.dispute] # "NONE"
        /\ disputes' = [disputes EXCEPT ![q.job][q.dispute] = "RESOLVED_RETURN_VISIT"]
    BY <1>3, DisputesAfter DEF IndInv, DisputesNumbered
  <2>2. /\ disputes'[q.job][q.dispute] = "RESOLVED_RETURN_VISIT"
        /\ \A d \in DisputeIds \ {q.dispute} : disputes'[q.job][d] = disputes[q.job][d]
        /\ \A k \in Jobs \ {q.job} : disputes'[k] = disputes[k]
    BY <1>1, <2>1
  <2>3. ASSUME NEW k \in Jobs
        PROVE  (\E d \in DisputeIds : disputes'[k][d] # "NONE")
                 <=> (\E d \in DisputeIds : disputes[k][d] # "NONE")
    <3>1. CASE k = q.job
      BY <2>1, <2>2, <3>1
    <3>2. CASE k # q.job
      BY <2>2, <3>2
    <3> QED
      BY <3>1, <3>2
  <2> QED
    BY <1>3, <2>3 DEF DisputedJobs
<1>4. CASE q.op \notin {"Raise", "Respond"}
  BY <1>4, DisputesAfter DEF DisputedJobs, IndInv
<1> QED
  BY <1>2, <1>3, <1>4

\* A commit leaves the completed and the redone jobs of a worker alone, except
\* the sign-off or dispute of one of that worker's jobs.
LEMMA DoneAfter ==
  ASSUME IndInv, JobInv, NEW r \in Requests, Commits(r), NEW w \in Workers,
         ~(req[r].op \in {"Complete", "Raise"} /\ w = req[r].ent.worker)
  PROVE  /\ DoneBy(w, job') = DoneBy(w, job)
         /\ DoneBy(w, job) \cap DisputedJobs' = DoneBy(w, job) \cap DisputedJobs
<1> DEFINE q == req[r]
<1>1. /\ q.job \in Jobs /\ q.op \in Operations /\ q.ent = job[q.job]
      /\ job[q.job].status = Source[q.op] /\ job'[q.job].status = Target[q.op]
      /\ job'[q.job].worker = IF q.op = "Book" THEN q.worker ELSE job[q.job].worker
      /\ \A k \in Jobs \ {q.job} : job'[k] = job[k]
  BY CommittedRow DEF JobInv
<1>2. DisputedJobs' = DisputedJobs \cup (IF q.op = "Raise" THEN {q.job} ELSE {})
  BY DisputedJobsAfter
<1>3. q.op # "Complete" => job'[q.job].status # "COMPLETED"
  BY <1>1 DEF Target, Operations
<1>4. job[q.job].status # "COMPLETED"
  BY <1>1 DEF Source, Operations
<1>5. q.op = "Complete" => job'[q.job].worker # w
  BY <1>1
<1>6. q.job \notin DoneBy(w, job') /\ q.job \notin DoneBy(w, job)
  BY <1>3, <1>4, <1>5 DEF DoneBy
<1>7. \A k \in Jobs \ {q.job} : k \in DoneBy(w, job') <=> k \in DoneBy(w, job)
  BY <1>1 DEF DoneBy
<1>8. DoneBy(w, job') \subseteq Jobs /\ DoneBy(w, job) \subseteq Jobs
  BY DEF DoneBy
<1> HIDE DEF q
<1>9. DoneBy(w, job') = DoneBy(w, job)
  BY <1>6, <1>7, <1>8
<1> QED
  BY <1>2, <1>6, <1>9

\* What get_stats() counts of the completed jobs once the request has flushed.
LEMMA GetStatsDone ==
  ASSUME NEW q
  PROVE  LET rows == [job EXCEPT ![q.job] = Updated(q)]
             raised == DisputedJobs \cup (IF q.op = "Raise" THEN {q.job} ELSE {})
         IN  /\ GetStats(q).completed = Cardinality(DoneBy(q.ent.worker, rows))
             /\ GetStats(q).redone = Cardinality(DoneBy(q.ent.worker, rows) \cap raised)
<1> DEFINE w == q.ent.worker
           rows == [job EXCEPT ![q.job] = Updated(q)]
           raised == DisputedJobs \cup (IF q.op = "Raise" THEN {q.job} ELSE {})
<1>1. GetStats(q) = StatsOf(w, rows, raised)
  BY DEF GetStats
<1> HIDE DEF w, rows, raised
<1>2. /\ StatsOf(w, rows, raised).completed = Cardinality(DoneBy(w, rows))
      /\ StatsOf(w, rows, raised).redone = Cardinality(DoneBy(w, rows) \cap raised)
  BY StatsOfDone
<1>3. /\ GetStats(q).completed = Cardinality(DoneBy(w, rows))
      /\ GetStats(q).redone = Cardinality(DoneBy(w, rows) \cap raised)
  BY <1>1, <1>2
<1> QED
  BY <1>3 DEF w, rows, raised

\* Between its flush and its commit no other request completes or disputes a
\* job of the worker, so the counts a request is about to save stay true.
LEMMA StatsCurrentStep ==
  ASSUME IndInv, JobsApart, StandingsApart, JobInv, StatsCurrent, [Next]_vars
  PROVE  StatsCurrent'
<1> DEFINE Current(r) ==
             /\ req[r].ent.worker # NoWorker
             /\ req[r].stats.completed = GetStats(req[r]).completed
             /\ req[r].stats.redone = GetStats(req[r]).redone
<1>1. ASSUME NEW p \in Requests, pc'[p] = "flushed", pc[p] = "flushed",
             req'[p] = req[p], GetStats(req[p])' = GetStats(req[p])
      PROVE  Current(p)'
  BY <1>1 DEF StatsCurrent
<1>2. CASE UNCHANGED <<job, disputes, pc, req>>
  <2>1. \A p \in Requests : GetStats(req[p])' = GetStats(req[p])
    BY <1>2 DEF GetStats, Updated, DisputedJobs
  <2> QED
    BY <1>1, <1>2, <2>1 DEF StatsCurrent
<1>3. ASSUME NEW j \in Jobs, CreateJobRequest(j)
      PROVE  StatsCurrent'
  <2> SUFFICES ASSUME NEW p \in Requests, pc'[p] = "flushed"
               PROVE  Current(p)'
    BY DEF StatsCurrent
  <2>1. InFlight(p) /\ req'[p] = req[p] /\ pc[p] = "flushed"
    BY <1>3, CreatedRow DEF InFlight
  <2>2. /\ req[p] \in Request /\ req[p].job \in Jobs /\ req[p].op \in Operations
        /\ req[p].ent.worker # NoWorker
    BY <2>1, RequestFields DEF IndInv, TypeOK, InFlight, StatsCurrent
  <2>3. req[p].job # j
    <3>1. job[req[p].job].status = Source[req[p].op]
      BY <2>1 DEF JobInv, EntitiesFresh, IndInv, EntitiesBacked
    <3> QED
      BY <1>3, <2>2, <3>1, CreatedRow DEF Source, Operations
  <2>4. \A q \in Request :
          q.job # j /\ q.ent.worker # NoWorker => GetStats(q)' = GetStats(q)
    BY <1>3, CreatedCounts DEF JobInv
  <2>5. GetStats(req[p])' = GetStats(req[p])
    BY <2>1, <2>2, <2>3, <2>4
  <2> QED
    BY <1>1, <2>1, <2>5
<1>4. ASSUME NEW r \in Requests, OthersWait(r), UNCHANGED <<job, disputes>>,
             pc'[r] = "flushed" => Current(r)'
      PROVE  StatsCurrent'
  <2> SUFFICES ASSUME NEW p \in Requests \ {r}, pc'[p] = "flushed"
               PROVE  Current(p)'
    BY <1>4 DEF StatsCurrent
  <2>1. pc[p] = "flushed" /\ req'[p] = req[p]
    BY <1>4 DEF OthersWait
  <2>2. GetStats(req[p])' = GetStats(req[p])
    BY <1>4, <2>1 DEF GetStats, Updated, DisputedJobs
  <2> QED
    BY <1>1, <2>1, <2>2
<1>5. ASSUME NEW r \in Requests, OthersWait(r), Loads(r) \/ Aborts(r)
      PROVE  StatsCurrent'
  <2>1. UNCHANGED <<job, disputes>> /\ pc'[r] # "flushed"
    BY <1>5 DEF Loads, Aborts, Ends, db
  <2> QED
    BY <1>4, <1>5, <2>1
<1>6. ASSUME NEW r \in Requests, OthersWait(r), Prepares(r), Continues(r)
      PROVE  StatsCurrent'
  <2> DEFINE q == req[r]
  <2>1. UNCHANGED <<job, disputes>> /\ q \in Request
    BY <1>6 DEF Continues, IndInv, TypeOK, db
  <2>2. ASSUME pc'[r] = "flushed"
        PROVE  Current(r)'
    <3>1. SaveFlush(r)
      <4>1. CheckBusy(r) \/ SumDeposits(r) \/ InsertRecord(r) \/ InsertDispute(r)
              \/ FindOpenDispute(r) => pc'[r] = "checked"
        BY GotoAt DEF CheckBusy, SumDeposits, InsertRecord, InsertDispute,
                      FindOpenDispute, Check, IndInv
      <4>2. Collect(r) => pc'[r] \in {"collected", "idle"}
        BY GotoAt, FinishAt DEF Collect, IndInv
      <4>3. SaveSelect(r) => pc'[r] = "selected"
        BY GotoAt DEF SaveSelect, IndInv
      <4> QED
        BY <1>6, <2>2, <4>1, <4>2, <4>3 DEF Prepares
    <3>2. /\ req'[r] = [q EXCEPT !.stats = GetStats(q)]
          /\ q.ent.worker # NoWorker
      BY <3>1, GotoAt DEF SaveFlush, IndInv
    <3>3. req'[r].stats = GetStats(q) /\ req'[r].ent = q.ent
      BY <2>1, <3>2 DEF Request
    <3>4. GetStats(req'[r]) = GetStats(q)
      BY <2>1, <3>2, GetStatsSame
    <3>5. GetStats(req[r])' = GetStats(req'[r])
      BY <2>1 DEF GetStats, Updated, DisputedJobs
    <3> QED
      BY <3>2, <3>3, <3>4, <3>5
  <2> QED
    BY <1>4, <1>6, <2>1, <2>2
<1>7. ASSUME NEW r \in Requests, Commits(r), NEW p \in Requests, pc'[p] = "flushed"
      PROVE  Current(p)'
  <2> DEFINE q == req[p]
             w == q.ent.worker
             rows == [job EXCEPT ![q.job] = Updated(q)]
             later == [job' EXCEPT ![q.job] = Updated(q)]
             own == IF q.op = "Raise" THEN {q.job} ELSE {}
  <2>1. p # r /\ InFlight(p)'
    BY <1>7, CommitsEnd DEF Ends, IndInv, InFlight
  <2>2. /\ InFlight(p) /\ pc[p] = "flushed" /\ req'[p] = q /\ q \in Request
        /\ q.job \in Jobs \ {req[r].job} /\ job'[q.job] = job[q.job]
    BY <1>7, <2>1, OthersKeepTheirRow DEF JobInv
  <2>3. w \in Workers
    BY <2>2 DEF StatsCurrent, Request, Row
  <2>4. ~(req[r].op \in {"Complete", "Raise"} /\ w = req[r].ent.worker)
    <3>1. req[r].op \in {"Complete", "Raise"} => pc[r] = "flushed"
      BY <1>7 DEF Commits, CommitMatch, CommitBook, CommitQuote, CommitRespond,
                  CommitComplete, CommitRaise, At
    <3> QED
      BY <2>1, <2>2, <3>1 DEF StandingsApart
  <2>5. /\ DoneBy(w, job') = DoneBy(w, job)
        /\ DoneBy(w, job) \cap DisputedJobs' = DoneBy(w, job) \cap DisputedJobs
    <3>1. PICK v \in Workers : v = w
      BY <2>3
    <3>2. ~(req[r].op \in {"Complete", "Raise"} /\ v = req[r].ent.worker)
      BY <2>4, <3>1
    <3>3. /\ DoneBy(v, job') = DoneBy(v, job)
          /\ DoneBy(v, job) \cap DisputedJobs' = DoneBy(v, job) \cap DisputedJobs
      BY <1>7, <3>2, DoneAfter
    <3> QED
      BY <3>1, <3>3
  <2>6. Updated(q)' = Updated(q)
    BY <2>2 DEF Updated
  <2>7. /\ GetStats(q).completed = Cardinality(DoneBy(w, rows))
        /\ GetStats(q).redone = Cardinality(DoneBy(w, rows) \cap (DisputedJobs \cup own))
    BY GetStatsDone
  <2>8. /\ GetStats(req[p])'.completed = Cardinality(DoneBy(w, later))
        /\ GetStats(req[p])'.redone = Cardinality(DoneBy(w, later) \cap (DisputedJobs' \cup own))
    <3>1. GetStats(req[p])' = StatsOf(w, later, DisputedJobs' \cup own)
      BY <2>2, <2>6 DEF GetStats
    <3> DEFINE raised == DisputedJobs' \cup own
    <3> HIDE DEF w, later, raised
    <3>2. /\ StatsOf(w, later, raised).completed = Cardinality(DoneBy(w, later))
          /\ StatsOf(w, later, raised).redone = Cardinality(DoneBy(w, later) \cap raised)
      BY StatsOfDone
    <3>3. GetStats(req[p])' = StatsOf(w, later, raised)
      BY <3>1 DEF raised
    <3>4. GetStats(req[p])'.redone = Cardinality(DoneBy(w, later) \cap raised)
      BY <3>2, <3>3
    <3> QED
      BY <3>2, <3>3, <3>4 DEF raised
  <2>9. job \in [Jobs -> Row] /\ job' \in [Jobs -> Row]
    <3>1. TypeOK'
      BY TypeStep DEF IndInv
    <3> QED
      BY <3>1 DEF IndInv, TypeOK
  <2>10. /\ rows[q.job] = later[q.job]
         /\ \A k \in Jobs \ {q.job} : rows[k] = job[k] /\ later[k] = job'[k]
    <3> DEFINE U == Updated(q)
    <3>1. rows = [job EXCEPT ![q.job] = U] /\ later = [job' EXCEPT ![q.job] = U]
      OBVIOUS
    <3> HIDE DEF U, rows, later
    <3> QED
      BY <2>2, <2>9, <3>1
  <2> HIDE DEF rows, later, own, w, q
  <2>11. DoneBy(w, rows) = DoneBy(w, later)
    <3>1. \A k \in Jobs : k \in DoneBy(w, rows) <=> k \in DoneBy(w, later)
      <4>1. \A k \in Jobs : k \in DoneBy(w, job) <=> k \in DoneBy(w, job')
        BY <2>5
      <4> QED
        BY <2>10, <4>1 DEF DoneBy
    <3>2. DoneBy(w, rows) \subseteq Jobs /\ DoneBy(w, later) \subseteq Jobs
      BY DEF DoneBy
    <3> QED
      BY <3>1, <3>2
  <2>12. DoneBy(w, rows) \cap (DisputedJobs \cup own)
           = DoneBy(w, later) \cap (DisputedJobs' \cup own)
    <3>1. ASSUME NEW k \in DoneBy(w, rows)
          PROVE  k \in DisputedJobs \cup own <=> k \in DisputedJobs' \cup own
      <4>1. CASE k # q.job
        <5>1. k \in DoneBy(w, job)
          BY <2>10, <3>1, <4>1 DEF DoneBy
        <5> QED
          BY <2>5, <5>1
      <4>2. CASE k = q.job
        <5>1. q.job \in DisputedJobs <=> q.job \in DisputedJobs'
          BY <1>7, <2>2, DisputedJobsAfter
        <5> QED
          BY <4>2, <5>1
      <4> QED
        BY <4>1, <4>2
    <3> QED
      BY <2>11, <3>1
  <2>13. /\ GetStats(req[p])'.completed = GetStats(q).completed
         /\ GetStats(req[p])'.redone = GetStats(q).redone
    BY <2>7, <2>8, <2>11, <2>12
  <2> QED
    BY <2>2, <2>13 DEF StatsCurrent, q
<1>8. ASSUME NEW r \in Requests, Commits(r)
      PROVE  StatsCurrent'
  BY <1>7, <1>8 DEF StatsCurrent
<1> QED
  BY <1>2, <1>3, <1>5, <1>6, <1>8, Shape DEF IndInv, vars, db

\* The commits that complete or dispute a job write its worker's true counts,
\* and the others complete nothing.
LEMMA CompletionsCountedStep ==
  ASSUME IndInv, JobInv, StatsCurrent, CompletionsCounted, [Next]_vars
  PROVE  CompletionsCounted'
<1>1. CASE UNCHANGED <<job, disputes, standing>>
  BY <1>1 DEF CompletionsCounted, Truth, DisputedJobs
<1>2. ASSUME NEW j \in Jobs, CreateJobRequest(j)
      PROVE  CompletionsCounted'
  <2>1. UNCHANGED standing /\ \A w \in Workers : Truth(w)' = Truth(w)
    BY <1>2, CreatedRow, CreatedCounts DEF JobInv
  <2> QED
    BY <2>1 DEF CompletionsCounted
<1>3. ASSUME NEW r \in Requests, Commits(r), NEW w \in Workers
      PROVE  /\ standing'[w].completed = Truth(w)'.completed
             /\ standing'[w].redone = Truth(w)'.redone
  <2> DEFINE q == req[r]
             counted == q.op \in {"Complete", "Raise"}
  <2>1. job' = [job EXCEPT ![q.job] = Updated(q)]
    BY <1>3, CommitsEnd DEF IndInv
  <2>2. DisputedJobs' = DisputedJobs \cup (IF q.op = "Raise" THEN {q.job} ELSE {})
    BY <1>3, DisputedJobsAfter
  <2>3. IF counted
          THEN /\ pc[r] = "flushed"
               /\ standing' = [standing EXCEPT ![q.ent.worker] = q.stats]
          ELSE UNCHANGED standing
    BY <1>3 DEF Commits, CommitMatch, CommitBook, CommitQuote, CommitRespond,
         CommitComplete, CommitRaise, UpdateJob, CommitFlushed, At
  <2>4. CASE counted /\ w = q.ent.worker
    <3>1. q.stats.completed = GetStats(q).completed /\ q.stats.redone = GetStats(q).redone
      BY <2>3, <2>4 DEF StatsCurrent
    <3>2. GetStats(q) = Truth(w)'
      BY <2>1, <2>2, <2>4 DEF GetStats, Truth
    <3>3. standing'[w] = q.stats
      BY <2>3, <2>4 DEF IndInv, TypeOK
    <3> QED
      BY <3>1, <3>2, <3>3
  <2>5. CASE ~(counted /\ w = q.ent.worker)
    <3>1. standing'[w] = standing[w]
      BY <2>3, <2>5 DEF IndInv, TypeOK
    <3>2. /\ DoneBy(w, job') = DoneBy(w, job)
          /\ DoneBy(w, job) \cap DisputedJobs' = DoneBy(w, job) \cap DisputedJobs
      BY <1>3, <2>5, DoneAfter
    <3>3. /\ Truth(w).completed = Cardinality(DoneBy(w, job))
          /\ Truth(w).redone = Cardinality(DoneBy(w, job) \cap DisputedJobs)
      BY StatsOfDone DEF Truth
    <3>4. /\ Truth(w)'.completed = Cardinality(DoneBy(w, job'))
          /\ Truth(w)'.redone = Cardinality(DoneBy(w, job') \cap DisputedJobs')
      BY StatsOfDone DEF Truth
    <3> QED
      BY <3>1, <3>2, <3>3, <3>4 DEF CompletionsCounted
  <2> QED
    BY <2>4, <2>5
<1>4. ASSUME NEW r \in Requests, Commits(r)
      PROVE  CompletionsCounted'
  BY <1>3, <1>4 DEF CompletionsCounted
<1> QED
  BY <1>1, <1>2, <1>4, Shape DEF IndInv, vars, db, Loads, Continues, Aborts

\* Two flushed requests of one worker would be at two active jobs, or at one.
LEMMA StandingsKeptApart ==
  ASSUME IndInv, JobsApart, JobInv, BookingInv, StatsCurrent
  PROVE  StandingsApart
<1> SUFFICES ASSUME NEW p \in Requests, NEW r \in Requests,
                    pc[p] = "flushed", pc[r] = "flushed",
                    req[p].ent.worker = req[r].ent.worker
             PROVE  p = r
  BY DEF StandingsApart
<1>1. ASSUME NEW s \in Requests, pc[s] = "flushed"
      PROVE  /\ InFlight(s) /\ req[s].job \in Jobs
             /\ req[s].ent = job[req[s].job]
             /\ job[req[s].job].worker # NoWorker
             /\ job[req[s].job].status \in BusyStatuses
  <2>1. InFlight(s) /\ req[s] \in Request
    BY <1>1 DEF IndInv, TypeOK, InFlight
  <2>2. req[s].op \in Operations /\ req[s].job \in Jobs
    BY <2>1, RequestFields
  <2>3. req[s].ent = job[req[s].job] /\ req[s].ent.status = Source[req[s].op]
    BY <2>1 DEF JobInv, EntitiesFresh, IndInv, EntitiesBacked
  <2>4. job[req[s].job].worker # NoWorker
    BY <1>1, <2>3 DEF StatsCurrent
  <2>5. req[s].op \notin {"Match", "Book"}
    BY <2>2, <2>3, <2>4 DEF JobInv, BooksMatchStage, StageBooks, Source
  <2>6. job[req[s].job].status \in BusyStatuses
    BY <2>2, <2>3, <2>5 DEF Operations, Source, BusyStatuses
  <2> QED
    BY <2>1, <2>2, <2>3, <2>4, <2>6
<1>2. req[p].job = req[r].job
  BY <1>1 DEF BookingInv, OneActiveJobPerWorker
<1> QED
  BY <1>1, <1>2 DEF JobsApart

LEMMA InitApartInv == Init => JobInv /\ BookingInv /\ StandingInv
<1> SUFFICES ASSUME Init PROVE JobInv /\ BookingInv /\ StandingInv
  OBVIOUS
<1>1. \A r \in Requests : ~InFlight(r)
  BY DEF Init, InFlight
<1>2. \A j \in Jobs : job[j] = EmptyRow
  BY DEF Init
<1>3. \A j \in Jobs, t \in EntryTypes :
        ledger[j][t].total = 0 /\ ledger[j][t].currencies = {}
  BY DEF Init, NoEntries
<1>4. EntitiesFresh /\ ChecksCurrent /\ BookedAreFree /\ StatsCurrent
  BY <1>1 DEF EntitiesFresh, ChecksCurrent, BookedAreFree, Booking, StatsCurrent, InFlight
<1>5. BooksMatchStage
  BY <1>2, <1>3 DEF Init, BooksMatchStage, StageBooks, EmptyRow, EntryTypes
<1>6. OneCurrency
  BY <1>3 DEF OneCurrency
<1>7. OneActiveJobPerWorker /\ RecordNamesTheWorker
  BY <1>2 DEF Init, OneActiveJobPerWorker, RecordNamesTheWorker, EmptyRow
<1>8. CompletionsCounted
  <2> SUFFICES ASSUME NEW w \in Workers
               PROVE  /\ standing[w].completed = Truth(w).completed
                      /\ standing[w].redone = Truth(w).redone
    BY DEF CompletionsCounted
  <2>1. standing[w].completed = 0 /\ standing[w].redone = 0
    BY DEF Init, NoStats
  <2>2. DoneBy(w, job) = {} /\ DoneBy(w, job) \cap DisputedJobs = {}
    BY <1>2 DEF DoneBy, EmptyRow
  <2>3. Truth(w).completed = 0 /\ Truth(w).redone = 0
    BY <2>2, StatsOfDone, FS_EmptySet DEF Truth
  <2> QED
    BY <2>1, <2>3
<1> QED
  BY <1>4, <1>5, <1>6, <1>7, <1>8 DEF JobInv, BookingInv, StandingInv

LEMMA NextJobInv ==
  ASSUME IndInv, JobsApart, JobInv, [Next]_vars
  PROVE  JobInv'
BY EntitiesFreshStep, ChecksCurrentStep, BooksMatchStageStep, OneCurrencyStep,
   RecordNamesStep DEF JobInv

LEMMA NextBookingInv ==
  ASSUME IndInv, BookingsApart, JobInv, BookingInv, [Next]_vars
  PROVE  BookingInv'
BY BookedAreFreeStep, OneActiveJobStep DEF BookingInv

LEMMA NextStandingInv ==
  ASSUME IndInv, JobsApart, StandingsApart, JobInv, StandingInv, [Next]_vars
  PROVE  StandingInv'
BY StatsCurrentStep, CompletionsCountedStep DEF StandingInv

\* Where no two requests work on the same job, what a request works on is what
\* the tables hold, and each job's worker, money, currency and record are those
\* of its stage, however the requests of different jobs interleave, race for
\* workers and fail.
THEOREM ApartJobInvariance == Spec /\ []JobsApart => []JobInv
<1>1. Init => JobInv
  BY InitApartInv
<1>2. IndInv /\ JobsApart /\ JobInv /\ [Next]_vars => JobInv'
  BY NextJobInv
<1> QED
  BY <1>1, <1>2, Invariance, PTL DEF Spec

\* Then every entry of a job is in the currency fixed at its booking ...
THEOREM ApartOneCurrency == Spec /\ []JobsApart => []OneCurrency
<1>1. JobInv => OneCurrency
  BY DEF JobInv
<1> QED
  BY <1>1, ApartJobInvariance, PTL

\* ... the record names the worker on the job ...
THEOREM ApartRecordNames == Spec /\ []JobsApart => []RecordNamesTheWorker
<1>1. JobInv => RecordNamesTheWorker
  BY DEF JobInv
<1> QED
  BY <1>1, ApartJobInvariance, PTL

\* ... and nothing is released for a disputed job.  Only two requests of the
\* same job can break what the documents say of the record and of the freeze.
THEOREM ApartMoneyFreezes == Spec /\ []JobsApart => MoneyFreezes
<1>1. IndInv /\ JobInv /\ [Next]_vars =>
        [\A j \in Jobs : job[j].status = "DISPUTED" =>
           ledger'[j]["RELEASED"] = ledger[j]["RELEASED"]]_vars
  <2> SUFFICES ASSUME IndInv, JobInv, [Next]_vars, NEW j \in Jobs,
                      job[j].status = "DISPUTED"
               PROVE  ledger'[j]["RELEASED"] = ledger[j]["RELEASED"]
    OBVIOUS
  <2>1. CASE UNCHANGED ledger
    BY <2>1
  <2>2. ASSUME NEW r \in Requests, Commits(r)
        PROVE  ledger'[j]["RELEASED"] = ledger[j]["RELEASED"]
    <3>1. CASE req[r].op # "Complete"
      BY <2>2, <3>1, RecordAfter DEF IndInv
    <3>2. CASE req[r].op = "Complete"
      <4>1. job[req[r].job].status = "IN_PROGRESS"
        BY <2>2, <3>2, CommittedRow DEF JobInv, Source
      <4>2. req[r].job # j
        BY <4>1
      <4> QED
        BY <2>2, <3>2, <4>2, LedgerAfter DEF IndInv, Entry
    <3> QED
      BY <3>1, <3>2
  <2> QED
    BY <2>1, <2>2, Shape
       DEF IndInv, vars, db, CreateJobRequest, Loads, Continues, Aborts
<1> QED
  BY <1>1, Invariance, ApartJobInvariance, PTL DEF Spec, MoneyFreezes

\* Where, besides, no two requests book the same worker, a worker found free is
\* free until the booking commits, and no worker has two active jobs: only two
\* bookings of the same worker break this promise.
THEOREM ApartBookingInvariance ==
  Spec /\ []JobsApart /\ []BookingsApart => []BookingInv
<1>1. Init => BookingInv
  BY InitApartInv
<1>2. IndInv /\ BookingsApart /\ JobInv /\ BookingInv /\ [Next]_vars => BookingInv'
  BY NextBookingInv
<1> QED
  BY <1>1, <1>2, Invariance, ApartJobInvariance, PTL DEF Spec

THEOREM ApartOneActiveJob ==
  Spec /\ []JobsApart /\ []BookingsApart => []OneActiveJobPerWorker
<1>1. BookingInv => OneActiveJobPerWorker
  BY DEF BookingInv
<1> QED
  BY <1>1, ApartBookingInvariance, PTL

\* Where no two sign-offs or disputes of one worker are between their statistics
\* and their commit, the completed and redone counts on a standing are the true
\* ones, whatever is booked at the same time.
THEOREM ApartCountsSaved ==
  Spec /\ []JobsApart /\ []StandingsApart => []CompletionsCounted
<1>1. Init => StandingInv
  BY InitApartInv
<1>2. IndInv /\ JobsApart /\ StandingsApart /\ JobInv /\ StandingInv /\ [Next]_vars
        => StandingInv'
  BY NextStandingInv
<1>3. StandingInv => CompletionsCounted
  BY DEF StandingInv
<1> QED
  BY <1>1, <1>2, <1>3, Invariance, ApartJobInvariance, PTL DEF Spec

\* Nothing further has to be kept apart for that where bookings of one worker
\* are: two requests that recompute one standing would be at two active jobs.
THEOREM ApartCompletionsCounted ==
  Spec /\ []JobsApart /\ []BookingsApart => [](StandingsApart /\ CompletionsCounted)
<1>1. Init => StandingInv
  BY InitApartInv
<1>2. IndInv /\ JobsApart /\ JobInv /\ BookingInv /\ StandingInv
        => StandingsApart /\ CompletionsCounted
  BY StandingsKeptApart DEF StandingInv
<1>3. IndInv /\ JobsApart /\ JobInv /\ BookingInv /\ StandingInv /\ [Next]_vars
        => StandingInv'
  BY <1>2, NextStandingInv
<1> QED
  BY <1>1, <1>2, <1>3, Invariance, ApartJobInvariance, ApartBookingInvariance, PTL
     DEF Spec

----------------------------------------------------------------------------
(* Requests that keep apart implement JobContract *)

StatusOf == [j \in Jobs |-> job[j].status]
WorkerOf == [j \in Jobs |-> job[j].worker]

\* What a commit does to the documented state of its job.
LEMMA ContractAfter ==
  ASSUME IndInv, JobInv, NEW r \in Requests, Commits(r), NEW i \in Jobs,
         i = req[r].job
  PROVE  LET q == req[r] IN
         /\ StatusOf[i] = Source[q.op]
         /\ StatusOf' = [StatusOf EXCEPT ![i] = Target[q.op]]
         /\ WorkerOf' = IF q.op = "Book" THEN [WorkerOf EXCEPT ![i] = q.worker]
                                         ELSE WorkerOf
         /\ \A t \in EntryTypes :
              Total(t)' = IF q.op \in DOMAIN Entry /\ t = Entry[q.op]
                            THEN [Total(t) EXCEPT ![i] = Total(t)[i] + Amount(q)]
                            ELSE Total(t)
<1> DEFINE q == req[r]
<1>1. /\ job[i].status = Source[q.op] /\ job'[i].status = Target[q.op]
      /\ job'[i].worker = IF q.op = "Book" THEN q.worker ELSE job[i].worker
      /\ \A k \in Jobs \ {i} : job'[k] = job[k]
  BY CommittedRow DEF JobInv
<1>2. /\ StatusOf[i] = Source[q.op]
      /\ StatusOf' = [StatusOf EXCEPT ![i] = Target[q.op]]
  BY <1>1 DEF StatusOf
<1>3. WorkerOf' = IF q.op = "Book" THEN [WorkerOf EXCEPT ![i] = q.worker] ELSE WorkerOf
  BY <1>1 DEF WorkerOf
<1>4. /\ q.op \in DOMAIN Entry =>
           /\ ledger'[i][Entry[q.op]].total = ledger[i][Entry[q.op]].total + Amount(q)
           /\ \A u \in EntryTypes \ {Entry[q.op]} : ledger'[i][u] = ledger[i][u]
           /\ \A k \in Jobs \ {i} : ledger'[k] = ledger[k]
      /\ q.op \notin DOMAIN Entry => UNCHANGED ledger
  BY LedgerAfter DEF IndInv
<1> HIDE DEF q
<1>5. ASSUME NEW t \in EntryTypes
      PROVE  Total(t)' = IF q.op \in DOMAIN Entry /\ t = Entry[q.op]
                           THEN [Total(t) EXCEPT ![i] = Total(t)[i] + Amount(q)]
                           ELSE Total(t)
  <2>1. CASE q.op \in DOMAIN Entry /\ t = Entry[q.op]
    BY <1>4, <2>1 DEF Total
  <2>2. CASE q.op \in DOMAIN Entry /\ t # Entry[q.op]
    <3>1. \A k \in Jobs : ledger'[k][t] = ledger[k][t]
      BY <1>4, <2>2
    <3> QED
      BY <2>2, <3>1 DEF Total
  <2>3. CASE q.op \notin DOMAIN Entry
    BY <1>4, <2>3 DEF Total
  <2> QED
    BY <2>1, <2>2, <2>3
<1> QED
  BY <1>2, <1>3, <1>5 DEF q

\* Every commit is a step of the life of its job.
LEMMA CommitsKeepContract ==
  ASSUME IndInv, JobInv, NEW r \in Requests, Commits(r)
  PROVE  \E i \in Jobs :
           \/ Contract!Match(i) \/ Contract!SignOff(i)
           \/ Contract!Dispute(i) \/ Contract!Answer(i)
           \/ \E quote \in Quotes : Contract!Quote(i, quote)
           \/ /\ req[r].op = "Book"
              /\ \E w \in Workers, deposit \in Deposits :
                   w = req[r].worker /\ Contract!Engage(i, w, deposit)
<1> DEFINE q == req[r]
           Held == Total("DEPOSIT_HELD")
           Balance == Total("BALANCE_COMMITTED")
           Paid == Total("RELEASED")
<1>1. PICK i \in Jobs : i = q.job
  BY CommittedRow DEF JobInv
<1>2. /\ q.op \in Operations /\ InFlight(r) /\ q \in Request
      /\ q.ent = job[i] /\ job[i].status = Source[q.op]
      /\ pc[r] # "loaded"
  <2>1. pc[r] # "loaded"
    BY DEF Commits, CommitMatch, CommitBook, CommitQuote, CommitRespond,
                CommitComplete, CommitRaise, At
  <2> QED
    BY <1>1, <2>1, CommittedRow DEF JobInv
<1>3. /\ StatusOf[i] = Source[q.op]
      /\ StatusOf' = [StatusOf EXCEPT ![i] = Target[q.op]]
      /\ WorkerOf' = IF q.op = "Book" THEN [WorkerOf EXCEPT ![i] = q.worker]
                                      ELSE WorkerOf
      /\ \A t \in EntryTypes :
           Total(t)' = IF q.op \in DOMAIN Entry /\ t = Entry[q.op]
                         THEN [Total(t) EXCEPT ![i] = Total(t)[i] + Amount(q)]
                         ELSE Total(t)
  BY <1>1, ContractAfter
<1>4. CheckCurrent(r) /\ StageBooks(i)
  BY <1>1, <1>2 DEF JobInv, ChecksCurrent, BooksMatchStage
<1>5. /\ Held[i] = ledger[i]["DEPOSIT_HELD"].total /\ Held[i] \in Nat
      /\ Balance[i] = ledger[i]["BALANCE_COMMITTED"].total /\ Balance[i] \in Nat
      /\ Paid[i] = ledger[i]["RELEASED"].total /\ Paid[i] \in Nat
  BY <1>1, TotalsType DEF Total, IndInv, EntryTypes
<1>6. CASE q.op \in {"Match", "Raise", "Respond"}
  <2>1. /\ Held' = Held /\ Balance' = Balance /\ Paid' = Paid
        /\ WorkerOf' = WorkerOf
    BY <1>3, <1>6 DEF Entry, EntryTypes
  <2>2. CASE q.op = "Match"
    <3>1. Contract!Move(i, "REQUESTED", "MATCHED")
      BY <1>3, <2>2 DEF Contract!Move, StatusOf, Source, Target
    <3>2. Contract!Match(i)
      BY <2>1, <3>1 DEF Contract!Match, WorkerOf
    <3> QED
      BY <3>2
  <2>3. CASE q.op = "Raise"
    <3>1. Contract!Move(i, "IN_PROGRESS", "DISPUTED")
      BY <1>3, <2>3 DEF Contract!Move, StatusOf, Source, Target
    <3>2. Contract!Dispute(i)
      BY <2>1, <3>1 DEF Contract!Dispute, WorkerOf
    <3> QED
      BY <3>2
  <2>4. CASE q.op = "Respond"
    <3>1. Contract!Move(i, "DISPUTED", "IN_PROGRESS")
      BY <1>3, <2>4 DEF Contract!Move, StatusOf, Source, Target
    <3>2. Contract!Answer(i)
      BY <2>1, <3>1 DEF Contract!Answer, WorkerOf
    <3> QED
      BY <3>2
  <2> QED
    BY <1>6, <2>2, <2>3, <2>4
<1>7. CASE q.op = "Book"
  <2>1. PICK w \in Workers, a \in Deposits : w = q.worker /\ a = q.amount
    BY <1>4, <1>7 DEF CheckCurrent
  <2>3. Held[i] = 0
    BY <1>2, <1>4, <1>5, <1>7 DEF StageBooks, Source
  <2>4. /\ Held' = [Held EXCEPT ![i] = a]
        /\ Balance' = Balance /\ Paid' = Paid
        /\ WorkerOf' = [WorkerOf EXCEPT ![i] = w]
    <3>1. 0 + Amount(q) = a
      BY <1>7, <2>1, ConstantsAssumption DEF Amount
    <3> QED
      BY <1>3, <1>7, <2>1, <2>3, <3>1 DEF Entry, EntryTypes
  <2>5. Contract!Move(i, "MATCHED", "BOOKED")
    BY <1>3, <1>7 DEF Contract!Move, StatusOf, Source, Target
  <2>6. Contract!Engage(i, w, a)
    BY <2>4, <2>5 DEF Contract!Engage, WorkerOf
  <2> QED
    BY <1>7, <2>1, <2>6
<1>8. CASE q.op = "Quote"
  <2>1. PICK a \in Quotes : a = q.amount
    BY <1>4, <1>8 DEF CheckCurrent
  <2>2. q.deposited = Held[i] /\ q.deposited < q.amount
    BY <1>1, <1>2, <1>4, <1>5, <1>8 DEF CheckCurrent, SumByType, IndInv, ChecksPassed
  <2>3. Balance[i] = 0
    BY <1>2, <1>4, <1>5, <1>8 DEF StageBooks, Source
  <2>4. /\ Balance' = [Balance EXCEPT ![i] = a - Held[i]]
        /\ Held' = Held /\ Paid' = Paid /\ WorkerOf' = WorkerOf
    <3>1. Amount(q) = a - Held[i] /\ a \in Nat
      BY <1>8, <2>1, <2>2, ConstantsAssumption DEF Amount
    <3>2. 0 + Amount(q) = a - Held[i]
      BY <1>5, <3>1
    <3> QED
      BY <1>3, <1>8, <2>3, <3>2 DEF Entry, EntryTypes
  <2>5. a > Held[i]
    BY <1>5, <2>1, <2>2, ConstantsAssumption
  <2>6. Contract!Move(i, "BOOKED", "IN_PROGRESS")
    BY <1>3, <1>8 DEF Contract!Move, StatusOf, Source, Target
  <2>7. Contract!Quote(i, a)
    BY <2>4, <2>5, <2>6 DEF Contract!Quote, WorkerOf
  <2> QED
    BY <2>7
<1>9. CASE q.op = "Complete"
  <2>1. Paid[i] = 0
    <3>1. record[i] = NoWorker
      BY <1>2, <1>4, <1>9 DEF StageBooks, Source
    <3> QED
      BY <1>5, <3>1 DEF IndInv, QuotesPaidIn
  <2>2. job[i].quote = Held[i] + Balance[i]
    BY <1>2, <1>4, <1>5, <1>9 DEF StageBooks, Source, PaidIn
  <2>3. /\ Paid' = [Paid EXCEPT ![i] = Held[i] + Balance[i]]
        /\ Held' = Held /\ Balance' = Balance /\ WorkerOf' = WorkerOf
    <3>1. 0 + Amount(q) = Held[i] + Balance[i]
      BY <1>2, <1>5, <1>9, <2>2 DEF Amount
    <3> QED
      BY <1>3, <1>9, <2>1, <3>1 DEF Entry, EntryTypes
  <2>4. Contract!Move(i, "IN_PROGRESS", "COMPLETED")
    BY <1>3, <1>9 DEF Contract!Move, StatusOf, Source, Target
  <2>5. Contract!SignOff(i)
    BY <2>3, <2>4 DEF Contract!SignOff, WorkerOf
  <2> QED
    BY <2>5
<1> QED
  BY <1>2, <1>6, <1>7, <1>8, <1>9 DEF Operations

LEMMA NextJobContract ==
  ASSUME IndInv, JobInv, [Next]_vars
  PROVE  [Contract!JobNext]_(Contract!vars)
<1>1. CASE UNCHANGED <<job, ledger>>
  BY <1>1 DEF Contract!vars, Total
<1>2. ASSUME NEW j \in Jobs, CreateJobRequest(j)
      PROVE  Contract!JobNext
  <2>1. Contract!Post(j)
    BY <1>2, CreatedRow DEF Contract!Post, Contract!Move, Total
  <2> QED
    BY <2>1 DEF Contract!JobNext
<1>3. ASSUME NEW r \in Requests, Commits(r)
      PROVE  Contract!JobNext
  BY <1>3, CommitsKeepContract DEF Contract!JobNext
<1> QED
  BY <1>1, <1>2, <1>3, Shape DEF IndInv, vars, db, Loads, Continues, Aborts

LEMMA NextContract ==
  ASSUME IndInv, JobInv, BookedAreFree, [Next]_vars
  PROVE  [Contract!Next]_(Contract!vars)
<1>1. CASE UNCHANGED <<job, ledger>>
  BY <1>1 DEF Contract!vars, Total
<1>2. ASSUME NEW j \in Jobs, CreateJobRequest(j)
      PROVE  Contract!Next
  <2>1. Contract!Post(j)
    BY <1>2, CreatedRow DEF Contract!Post, Contract!Move, Total
  <2> QED
    BY <2>1 DEF Contract!Next
<1>3. ASSUME NEW r \in Requests, Commits(r)
      PROVE  Contract!Next
  <2>1. ASSUME req[r].op = "Book"
        PROVE  Contract!Free(req[r].worker)
    <3>1. Booking(r) /\ pc[r] # "loaded"
      BY <1>3, <2>1 DEF Booking, InFlight, Commits, CommitMatch, CommitBook, CommitQuote,
                        CommitRespond, CommitComplete, CommitRaise, At
    <3>2. ~IsWorkerBusy(req[r].worker)
      BY <3>1 DEF BookedAreFree
    <3> QED
      BY <3>2 DEF Contract!Free, Contract!Active, IsWorkerBusy, BusyStatuses
  <2>2. ASSUME NEW i \in Jobs, NEW w \in Workers, NEW deposit \in Deposits,
               req[r].op = "Book", w = req[r].worker, Contract!Engage(i, w, deposit)
        PROVE  Contract!Book(i, w, deposit)
    BY <2>1, <2>2 DEF Contract!Book
  <2> QED
    BY <1>3, <2>2, CommitsKeepContract DEF Contract!Next
<1> QED
  BY <1>1, <1>2, <1>3, Shape DEF IndInv, vars, db, Loads, Continues, Aborts

LEMMA InitContract == Init => Contract!Init
BY DEF Init, Contract!Init, EmptyRow, NoEntries, EntryTypes, Total

\* Where no two requests work on the same job, every step of the API is a step
\* of the life of one job, with its money, or leaves the jobs alone: no cent of
\* what the buyer paid in stays behind at the sign-off.
THEOREM ApartKeepsEachJob == Spec /\ []JobsApart => Contract!JobSpec
<1>1. IndInv /\ JobInv /\ [Next]_vars => [Contract!JobNext]_(Contract!vars)
  BY NextJobContract
<1> QED
  BY <1>1, InitContract, Invariance, ApartJobInvariance, PTL DEF Spec, Contract!JobSpec

\* Where no two requests book the same worker either, it is a step of the
\* contract, which books only workers who are free.
THEOREM ApartImplementsContract ==
  Spec /\ []JobsApart /\ []BookingsApart => ImplementsContract
<1>1. IndInv /\ JobInv /\ BookingInv /\ [Next]_vars => [Contract!Next]_(Contract!vars)
  BY NextContract DEF BookingInv
<1> QED
  BY <1>1, InitContract, Invariance, ApartJobInvariance, ApartBookingInvariance, PTL
     DEF Spec, ImplementsContract, Contract!Spec

\* A single request slot keeps requests apart, and so do the locks that the
\* hypotheses amount to: the specification that run "apart" checks has all of it.
THEOREM ApartSpecIsApart == ApartSpec => Spec /\ []JobsApart /\ []BookingsApart /\ []ApartInv
<1>1. Init => JobsApart /\ BookingsApart
  BY DEF Init, JobsApart, BookingsApart, Booking, InFlight
<1>2. (JobsApart /\ BookingsApart) /\ [Next /\ (JobsApart /\ BookingsApart)']_vars
        => (JobsApart /\ BookingsApart)'
  BY DEF JobsApart, BookingsApart, Booking, InFlight, vars
<1>3. [Next /\ (JobsApart /\ BookingsApart)']_vars => [Next]_vars
  OBVIOUS
<1>4. ApartSpec => Spec /\ []JobsApart /\ []BookingsApart
  BY <1>1, <1>2, <1>3, PTL DEF ApartSpec, Spec
<1>5. Init => StandingInv
  BY InitApartInv
<1>6. IndInv /\ JobsApart /\ JobInv /\ BookingInv /\ StandingInv => StandingsApart
  BY StandingsKeptApart DEF StandingInv
<1>7. IndInv /\ JobsApart /\ JobInv /\ BookingInv /\ StandingInv /\ [Next]_vars
        => StandingInv'
  BY <1>6, NextStandingInv
<1>8. Spec /\ []JobsApart /\ []BookingsApart => []StandingInv
  BY <1>5, <1>7, Invariance, ApartJobInvariance, ApartBookingInvariance, PTL DEF Spec
<1>9. JobInv /\ BookingInv /\ StandingsApart /\ StandingInv => ApartInv
  BY DEF ApartInv
<1> QED
  BY <1>4, <1>6, <1>8, <1>9, Invariance, ApartJobInvariance, ApartBookingInvariance, PTL

============================================================================
