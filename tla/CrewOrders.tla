----------------------------- MODULE CrewOrders -----------------------------
(***************************************************************************)
(* Crew orders: an organization orders a whole crew, as the use cases of   *)
(* app/apps/crews/domain/services.py change the order and its ledger.      *)
(*                                                                         *)
(* The use cases have the shape of the Quick Hire ones (module QuickHire): *)
(* get -> checks -> save -> insert -> commit in one READ COMMITTED         *)
(* transaction, an await at each arrow, no row version.  save() selects    *)
(* the row again (base) and the UPDATE writes the columns in which the     *)
(* entity differs from it.  Unlike a job, a crew order has no dispute and  *)
(* no record entry, so no unique key stands behind its completion.         *)
(*                                                                         *)
(* Abstracted: site, trade and texts; labor + materials are one quote; a   *)
(* caller who is not the buyer or the crew's lead is refused and left out; *)
(* which crews are listed is module Matching's.                            *)
(***************************************************************************)
EXTENDS Integers, FiniteSets

LOCAL INSTANCE FiniteSetsExt

CONSTANTS
  CrewOrderIds, Crews,     \* rows of crew_orders and crews
  CrewDeposits,            \* amounts a buyer may deposit
  CrewQuotes,              \* labor + materials a lead may quote
  NoCrew,                  \* NULL in crew_orders.crew_id
  MaxCrewSlots,            \* bound: requests open at the same time
  MaxCrewRequests          \* bound: requests started in one behaviour

ASSUME CrewAssumption ==
  /\ NoCrew \notin Crews
  /\ CrewDeposits \subseteq Nat \ {0}
  /\ CrewQuotes \subseteq Nat \ {0}
  /\ MaxCrewSlots \in Nat \ {0}
  /\ MaxCrewRequests \in Nat

VARIABLES
  crewOrder,      \* crew_orders: status, crew, currency and quote of each row
  crewLedger,     \* crew_order_ledger_entries: sums, and how many of them
  crewCollected,  \* EcoCash: collections the provider has taken for the order
  crewReq,        \* the request in each slot
  crewStarted,    \* requests started so far
  crewApart       \* whether requests of this behaviour keep apart (KeepsApart)

crewDb == <<crewOrder, crewLedger>>
crewVars == <<crewDb, crewCollected, crewReq, crewStarted, crewApart>>

CrewRequests == 1 .. MaxCrewSlots

----------------------------------------------------------------------------
(* Types *)

\* ABSENT stands for a row that does not exist yet.  CANCELLED is never set.
CrewStatuses ==
  {"ABSENT", "REQUESTED", "MATCHED", "BOOKED", "IN_PROGRESS", "COMPLETED"}

\* The two kinds of currency the code tells apart; NONE is NULL.
CrewCurrencies == {"NONE", "USD", "ECOCASH"}

CrewRow ==
  [status : CrewStatuses, crew : Crews \cup {NoCrew}, currency : CrewCurrencies,
   quote : Nat]                                \* 0 is NULL, amounts are > 0

CrewAccount ==
  [held : Nat, committed : Nat, released : Nat, \* sums by entry type
   payouts : Nat, ecocash : Nat]                \* RELEASED rows, ECOCASH deposits

CrewOps == {"Match", "Book", "Quote", "Complete"}

CrewIdle == [step |-> "idle"]

CrewRequest ==
  [step : {"loaded", "checked", "collected", "selected", "flushed"},
   op : CrewOps, order : CrewOrderIds, crew : Crews \cup {NoCrew},
   currency : CrewCurrencies, amount : Nat,    \* as sent
   ent : CrewRow,                              \* what get() returned
   base : CrewRow,                             \* what save() selected
   deposited : Nat]                            \* Quote: deposit_total

CrewTypeOK ==
  /\ crewOrder \in [CrewOrderIds -> CrewRow]
  /\ crewLedger \in [CrewOrderIds -> CrewAccount]
  /\ crewCollected \in [CrewOrderIds -> Nat]
  /\ crewReq \in [CrewRequests -> CrewRequest \cup {CrewIdle}]
  /\ crewStarted \in 0 .. MaxCrewRequests
  /\ crewApart \in BOOLEAN

NoCrewRow == [status |-> "ABSENT", crew |-> NoCrew, currency |-> "NONE", quote |-> 0]

CrewInit ==
  /\ crewOrder = [o \in CrewOrderIds |-> NoCrewRow]
  /\ crewLedger = [o \in CrewOrderIds |->
       [held |-> 0, committed |-> 0, released |-> 0, payouts |-> 0, ecocash |-> 0]]
  /\ crewCollected = [o \in CrewOrderIds |-> 0]
  /\ crewReq = [r \in CrewRequests |-> CrewIdle]
  /\ crewStarted = 0
  /\ crewApart \in BOOLEAN

----------------------------------------------------------------------------
(* What the repositories compute *)

\* Mutation: a crew whose work has begun is taken for free.
BookedStatus == {"BOOKED"}

\* CREW_BUSY_STATUSES
CrewBusyStatuses == {"BOOKED", "IN_PROGRESS"}

ServedBy(c) ==
  {o \in CrewOrderIds : crewOrder[o].crew = c /\ crewOrder[o].status \in CrewBusyStatuses}

\* The attributes the use case assigns to its entity.
CrewAssigned(q) ==
  CASE q.op = "Match"    -> [q.ent EXCEPT !.status = "MATCHED"]
    [] q.op = "Book"     -> [q.ent EXCEPT !.status = "BOOKED", !.crew = q.crew,
                                          !.currency = q.currency]
    [] q.op = "Quote"    -> [q.ent EXCEPT !.status = "IN_PROGRESS", !.quote = q.amount]
    [] q.op = "Complete" -> [q.ent EXCEPT !.status = "COMPLETED"]

\* UPDATE crew_orders SET the columns in which the entity differs from base.
CrewUpdated(q) ==
  [c \in DOMAIN q.ent |->
     IF CrewAssigned(q)[c] = q.base[c] THEN crewOrder[q.order][c] ELSE CrewAssigned(q)[c]]

\* Another transaction has updated the row and not yet committed.
CrewRowLocked(r) ==
  \E p \in CrewRequests \ {r} :
    /\ crewReq[p].step = "flushed"
    /\ crewReq[p].order = crewReq[r].order
    /\ CrewAssigned(crewReq[p]) # crewReq[p].base

\* Mutation: the deposit is paid out on top of the quote.
EntryReleasingDeposits(q) ==
  LET a == crewLedger[q.order] IN
  CASE q.op = "Match"    -> a
    [] q.op = "Book"     -> [a EXCEPT !.held = @ + q.amount]
    [] q.op = "Quote"    -> [a EXCEPT !.committed = @ + (q.amount - q.deposited)]
    [] q.op = "Complete" -> [a EXCEPT !.released = @ + q.ent.quote + a.held,
                                      !.payouts = @ + 1]

\* The ledger with the entry the use case adds.
Entry(q) ==
  LET a == crewLedger[q.order] IN
  CASE q.op = "Match"    -> a
    [] q.op = "Book"     -> [a EXCEPT !.held = @ + q.amount,
                                      !.ecocash = @ + (IF q.currency = "ECOCASH" THEN 1 ELSE 0)]
    [] q.op = "Quote"    -> [a EXCEPT !.committed = @ + (q.amount - q.deposited)]
    [] q.op = "Complete" -> [a EXCEPT !.released = @ + q.ent.quote, !.payouts = @ + 1]

----------------------------------------------------------------------------
(* Steps *)

CrewAt(r, step) == crewReq[r].step = step

CrewGo(r, q) ==
  /\ crewReq' = [crewReq EXCEPT ![r] = q]
  /\ UNCHANGED <<crewDb, crewStarted, crewApart>>

\* CreateCrewOrderUseCase
CreateCrewOrder(o) ==
  /\ crewOrder[o].status = "ABSENT"
  /\ crewOrder' = [crewOrder EXCEPT ![o].status = "REQUESTED"]
  /\ UNCHANGED <<crewLedger, crewCollected, crewReq, crewStarted, crewApart>>

\* Clients that keep apart have no two requests at a time on one order, nor two
\* bookings of one crew.  Nothing in the code makes them.
KeepsApart(r, op, o, c) ==
  \A p \in CrewRequests \ {r} : ~CrewAt(p, "idle") =>
    /\ crewReq[p].order # o
    /\ {op, crewReq[p].op} = {"Book"} => crewReq[p].crew # c

\* Mutation: sign-off does not check the status.
CrewGetAnyStatus(r, op, o, status, c, currency, amount) ==
  /\ CrewAt(r, "idle")
  /\ crewApart => KeepsApart(r, op, o, c)
  /\ crewStarted < MaxCrewRequests
  /\ op = "Complete" \/ crewOrder[o].status = status
  /\ crewStarted' = crewStarted + 1
  /\ crewReq' = [crewReq EXCEPT ![r] =
       [step |-> "loaded", op |-> op, order |-> o, crew |-> c, currency |-> currency,
        amount |-> amount, ent |-> crewOrder[o], base |-> crewOrder[o], deposited |-> 0]]
  /\ UNCHANGED <<crewDb, crewCollected, crewApart>>

\* The use case's get(), past its ownership and status checks.
CrewGet(r, op, o, status, c, currency, amount) ==
  /\ CrewAt(r, "idle")
  /\ crewApart => KeepsApart(r, op, o, c)
  /\ crewStarted < MaxCrewRequests
  /\ crewOrder[o].status = status
  /\ crewStarted' = crewStarted + 1
  /\ crewReq' = [crewReq EXCEPT ![r] =
       [step |-> "loaded", op |-> op, order |-> o, crew |-> c, currency |-> currency,
        amount |-> amount, ent |-> crewOrder[o], base |-> crewOrder[o], deposited |-> 0]]
  /\ UNCHANGED <<crewDb, crewCollected, crewApart>>

\* On an order that is MATCHED already nothing is written.
GetCrewOrderMatches(r, o) == CrewGet(r, "Match", o, "REQUESTED", NoCrew, "NONE", 0)

BookCrewOrder(r, o, c, currency, deposit) ==
  CrewGet(r, "Book", o, "MATCHED", c, currency, deposit)

SubmitCrewOrderQuote(r, o, quote) ==
  /\ crewOrder[o].crew # NoCrew                 \* whose lead the caller is
  /\ CrewGet(r, "Quote", o, "BOOKED", NoCrew, "NONE", quote)

CompleteCrewOrder(r, o) ==
  /\ crewOrder[o].currency # "NONE"             \* asserts
  /\ crewOrder[o].quote # 0
  /\ CrewGet(r, "Complete", o, "IN_PROGRESS", NoCrew, "NONE", 0)

\* Mutation: a booking waits until the crew is free.
WaitForCrew(r) ==
  LET q == crewReq[r] IN
  /\ CrewAt(r, "loaded")
  /\ q.op = "Book"
  /\ ServedBy(q.crew) = {}
  /\ CrewGo(r, [q EXCEPT !.step = "checked"])
  /\ UNCHANGED crewCollected

\* Book: is_crew_busy over the committed rows, else 409.
CheckCrewBusy(r) ==
  LET q == crewReq[r] IN
  /\ CrewAt(r, "loaded")
  /\ q.op = "Book"
  /\ IF ServedBy(q.crew) = {}
       THEN CrewGo(r, [q EXCEPT !.step = "checked"])
       ELSE CrewGo(r, CrewIdle)
  /\ UNCHANGED crewCollected

\* Book: initiate_collection, for EcoCash.  The provider takes the money; its
\* answer arrives, or the request ends with 502.
CollectDeposit(r) ==
  LET q == crewReq[r] IN
  /\ CrewAt(r, "checked")
  /\ q.op = "Book"
  /\ IF q.currency = "ECOCASH"
       THEN /\ crewCollected' = [crewCollected EXCEPT ![q.order] = @ + 1]
            /\ CrewGo(r, [q EXCEPT !.step = "collected"]) \/ CrewGo(r, CrewIdle)
       ELSE /\ UNCHANGED crewCollected
            /\ CrewGo(r, [q EXCEPT !.step = "collected"])

\* Mutation: the sum is not restricted to the order.
SumAllDeposits(r) ==
  LET q == crewReq[r]
      deposits == MapThenSumSet(LAMBDA o : crewLedger[o].held, CrewOrderIds)
  IN  /\ CrewAt(r, "loaded")
      /\ q.op = "Quote"
      /\ IF q.amount > deposits
           THEN CrewGo(r, [q EXCEPT !.step = "checked", !.deposited = deposits])
           ELSE CrewGo(r, CrewIdle)
      /\ UNCHANGED crewCollected

\* Quote: sum_by_type(DEPOSIT_HELD); a quote must exceed it, else 409.
SumCrewDeposits(r) ==
  LET q == crewReq[r]
      deposits == crewLedger[q.order].held
  IN  /\ CrewAt(r, "loaded")
      /\ q.op = "Quote"
      /\ IF q.amount > deposits
           THEN CrewGo(r, [q EXCEPT !.step = "checked", !.deposited = deposits])
           ELSE CrewGo(r, CrewIdle)
      /\ UNCHANGED crewCollected

\* save(): the row is selected again.
SelectCrewOrder(r) ==
  LET q == crewReq[r] IN
  /\ \/ CrewAt(r, "loaded") /\ q.op \in {"Match", "Complete"}
     \/ CrewAt(r, "checked") /\ q.op = "Quote"
     \/ CrewAt(r, "collected")
  /\ CrewGo(r, [q EXCEPT !.step = "selected", !.base = crewOrder[q.order]])
  /\ UNCHANGED crewCollected

\* save(): the UPDATE, once no other transaction holds the row.
FlushCrewOrder(r) ==
  /\ CrewAt(r, "selected")
  /\ ~CrewRowLocked(r)
  /\ CrewGo(r, [crewReq[r] EXCEPT !.step = "flushed"])
  /\ UNCHANGED crewCollected

\* The entry is inserted and the transaction commits.
CommitCrewOrder(r) ==
  LET q == crewReq[r] IN
  /\ CrewAt(r, "flushed")
  /\ crewOrder' = [crewOrder EXCEPT ![q.order] = CrewUpdated(q)]
  /\ crewLedger' = [crewLedger EXCEPT ![q.order] = Entry(q)]
  /\ crewReq' = [crewReq EXCEPT ![r] = CrewIdle]
  /\ UNCHANGED <<crewCollected, crewStarted, crewApart>>

\* The client goes away or the process dies: the session rolls back.
AbandonCrewRequest(r) ==
  /\ ~CrewAt(r, "idle")
  /\ CrewGo(r, CrewIdle)
  /\ UNCHANGED crewCollected

CrewProgress(r) ==
  \/ CheckCrewBusy(r)
  \/ CollectDeposit(r)
  \/ SumCrewDeposits(r)
  \/ SelectCrewOrder(r)
  \/ FlushCrewOrder(r)
  \/ CommitCrewOrder(r)

CrewNext ==
  \/ \E o \in CrewOrderIds : CreateCrewOrder(o)
  \/ \E r \in CrewRequests :
       \/ \E o \in CrewOrderIds :
            \/ GetCrewOrderMatches(r, o)
            \/ \E c \in Crews, currency \in CrewCurrencies \ {"NONE"}, d \in CrewDeposits :
                 BookCrewOrder(r, o, c, currency, d)
            \/ \E quote \in CrewQuotes : SubmitCrewOrderQuote(r, o, quote)
            \/ CompleteCrewOrder(r, o)
       \/ CrewProgress(r)
       \/ AbandonCrewRequest(r)

CrewSpec == CrewInit /\ [][CrewNext]_crewVars

----------------------------------------------------------------------------
(* Properties *)

\* The status of an order never claims money that is not on its books, however
\* stale saves overwrite each other: a booked order has a deposit, a quote is
\* held or committed in full, a completed order was paid, and every deposit
\* booked as EcoCash was collected.  While requests keep apart an order in work
\* also names its crew, currency and quote.
CrewStatusBackedByLedger ==
  \A o \in CrewOrderIds :
    LET row == crewOrder[o]
        a == crewLedger[o]
    IN  /\ row.status \in {"BOOKED", "IN_PROGRESS", "COMPLETED"} => a.held > 0
        /\ row.quote <= a.held + a.committed
        /\ a.ecocash <= crewCollected[o]
        /\ row.status = "COMPLETED" => a.payouts > 0
        /\ crewApart /\ row.status \in {"BOOKED", "IN_PROGRESS", "COMPLETED"} =>
             /\ row.crew # NoCrew
             /\ row.currency # "NONE"
             /\ row.status # "BOOKED" => row.quote > a.held

\* No single payout exceeds what the order's deposits and balances had put in
\* by then, also when quotes and sign-offs of one order overlap.
EachPayoutCovered ==
  [][\A o \in CrewOrderIds :
       crewLedger'[o].released - crewLedger[o].released
         <= crewLedger[o].held + crewLedger[o].committed]_crewVars

\* While requests keep apart, a crew works for one order.
CrewServesOneOrder ==
  crewApart =>
    \A o, p \in CrewOrderIds :
      /\ {crewOrder[o].status, crewOrder[p].status} \subseteq {"BOOKED", "IN_PROGRESS"}
      /\ crewOrder[o].crew = crewOrder[p].crew
      => o = p

\* What module JobContract sees of the crew orders.
CrewStatusOf  == [o \in CrewOrderIds |-> crewOrder[o].status]
CrewOf        == [o \in CrewOrderIds |-> crewOrder[o].crew]
CrewHeld      == [o \in CrewOrderIds |-> crewLedger[o].held]
CrewCommitted == [o \in CrewOrderIds |-> crewLedger[o].committed]
CrewReleased  == [o \in CrewOrderIds |-> crewLedger[o].released]

CrewContract == INSTANCE JobContract WITH
  Jobs <- CrewOrderIds, Workers <- Crews, NoWorker <- NoCrew,
  Deposits <- CrewDeposits, Quotes <- CrewQuotes, status <- CrewStatusOf, worker <- CrewOf,
  held <- CrewHeld, committed <- CrewCommitted, released <- CrewReleased

\* While requests keep apart, a crew order lives the life of a job (module
\* JobContract) but for disputes, which it does not have: each stage once and in
\* order, no crew with two orders in work, and a sign-off that pays the crew
\* once and all that was put in.
CrewContractKept ==
  CrewContract!Init /\ [][crewApart => CrewContract!Next]_(CrewContract!vars)

----------------------------------------------------------------------------
(* Why: what a request in flight knows of its order *)

CrewSourceStatus ==
  [Match |-> "REQUESTED", Book |-> "MATCHED", Quote |-> "BOOKED", Complete |-> "IN_PROGRESS"]

CrewPaidIn(o) == crewLedger[o].held + crewLedger[o].committed

\* What the checks found is true of the request's own copy, and what the copy
\* says of money stays covered, because entries are never removed.
CrewCopyBacked(q) ==
  /\ q.ent.status = CrewSourceStatus[q.op]
  /\ q.op \in {"Quote", "Complete"} => crewLedger[q.order].held > 0
  /\ q.ent.quote <= CrewPaidIn(q.order)
  /\ q.op = "Book" =>
       q.amount \in CrewDeposits /\ q.crew \in Crews /\ q.currency # "NONE"
  /\ q.op = "Quote" =>
       /\ q.amount \in CrewQuotes
       /\ q.deposited <= crewLedger[q.order].held /\ q.deposited < q.amount

CrewEntitiesBacked ==
  \A r \in CrewRequests : ~CrewAt(r, "idle") => CrewCopyBacked(crewReq[r])

\* Bookings between EcoCash's answer and the commit of the deposit it paid.
CrewCollectedInFlight(o) ==
  {r \in CrewRequests :
     /\ crewReq[r].step \in {"collected", "selected", "flushed"}
     /\ crewReq[r].op = "Book"
     /\ crewReq[r].order = o
     /\ crewReq[r].currency = "ECOCASH"}

CrewDepositsCollected ==
  \A o \in CrewOrderIds :
    crewLedger[o].ecocash + Cardinality(CrewCollectedInFlight(o)) <= crewCollected[o]

\* Served apart, a request's copy is the row, and what it read still holds.
CrewCopyCurrent(q) ==
  /\ q.ent = crewOrder[q.order] /\ q.base = crewOrder[q.order]
  /\ q.op = "Quote" /\ q.step # "loaded" => q.deposited = crewLedger[q.order].held
  /\ q.op = "Book" /\ q.step # "loaded" => ServedBy(q.crew) = {}

\* The crew and the money of an order are those of its stage.
CrewStageBooks(o) ==
  LET row == crewOrder[o]
      a == crewLedger[o]
  IN  /\ row.status \in {"ABSENT", "REQUESTED", "MATCHED"} => row.crew = NoCrew /\ a.held = 0
      /\ IF row.status \in {"IN_PROGRESS", "COMPLETED"}
           THEN row.quote = CrewPaidIn(o)
           ELSE a.committed = 0
      /\ row.status # "COMPLETED" => a.released = 0

CrewServedApart ==
  crewApart =>
    /\ \A o \in CrewOrderIds : CrewStageBooks(o)
    /\ \A r \in CrewRequests : ~CrewAt(r, "idle") =>
         LET q == crewReq[r] IN
         /\ CrewCopyCurrent(q)
         /\ KeepsApart(r, q.op, q.order, q.crew)

\* The inductive invariant behind the properties of the crew orders.
CrewInv ==
  /\ CrewTypeOK
  /\ CrewEntitiesBacked
  /\ CrewDepositsCollected
  /\ CrewServedApart
  /\ CrewStatusBackedByLedger
  /\ CrewServesOneOrder

----------------------------------------------------------------------------

\* Every crew request ends, also behind another one's row lock.
CrewRequestsEnd == \A r \in CrewRequests : []<>CrewAt(r, "idle")

\* CompleteCrewOrderUseCase asserts "IN_PROGRESS implies a currency was set".
CurrencySetOnceBooked ==
  \A o \in CrewOrderIds : crewOrder[o].status = "IN_PROGRESS" => crewOrder[o].currency # "NONE"

=============================================================================
