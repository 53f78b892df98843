-------------------------- MODULE CrewOrdersProofs --------------------------
(***************************************************************************)
(* Proofs about CrewOrders for every number of orders, crews and requests, *)
(* and every amount.                                                       *)
(***************************************************************************)
EXTENDS CrewOrders, FiniteSetTheorems, TLAPS

----------------------------------------------------------------------------
(* Rows and requests *)

LEMMA CrewRowFields ==
  ASSUME NEW row \in CrewRow
  PROVE  /\ row.status \in CrewStatuses
         /\ row.crew \in Crews \cup {NoCrew}
         /\ row.currency \in CrewCurrencies
         /\ row.quote \in Nat
         /\ DOMAIN row = {"status", "crew", "currency", "quote"}
BY DEF CrewRow

LEMMA CrewRequestFields ==
  ASSUME NEW q \in CrewRequest
  PROVE  /\ q.step \in {"loaded", "checked", "collected", "selected", "flushed"}
         /\ q.op \in CrewOps
         /\ q.order \in CrewOrderIds
         /\ q.crew \in Crews \cup {NoCrew}
         /\ q.currency \in CrewCurrencies
         /\ q.amount \in Nat
         /\ q.ent \in CrewRow /\ q.base \in CrewRow
         /\ q.deposited \in Nat
BY DEF CrewRequest

\* A slot that is not idle holds a request.
LEMMA CrewInFlightIsRequest ==
  ASSUME CrewTypeOK, NEW r \in CrewRequests, ~CrewAt(r, "idle")
  PROVE  crewReq[r] \in CrewRequest
BY DEF CrewTypeOK, CrewAt, CrewIdle

LEMMA CrewAccountFields ==
  ASSUME NEW a \in CrewAccount
  PROVE  /\ a.held \in Nat /\ a.committed \in Nat /\ a.released \in Nat
         /\ a.payouts \in Nat /\ a.ecocash \in Nat
BY DEF CrewAccount

\* What a use case assigns to its copy is a row again; it names each column.
LEMMA CrewAssignedIsRow ==
  ASSUME NEW q \in CrewRequest
  PROVE  /\ CrewAssigned(q) \in CrewRow
         /\ CrewAssigned(q).status =
              CASE q.op = "Match"    -> "MATCHED"
                [] q.op = "Book"     -> "BOOKED"
                [] q.op = "Quote"    -> "IN_PROGRESS"
                [] q.op = "Complete" -> "COMPLETED"
         /\ CrewAssigned(q).crew = (IF q.op = "Book" THEN q.crew ELSE q.ent.crew)
         /\ CrewAssigned(q).currency = (IF q.op = "Book" THEN q.currency ELSE q.ent.currency)
         /\ CrewAssigned(q).quote = (IF q.op = "Quote" THEN q.amount ELSE q.ent.quote)
<1>1. /\ q.ent \in CrewRow
      /\ q.op \in {"Match", "Book", "Quote", "Complete"}
      /\ q.crew \in Crews \cup {NoCrew} /\ q.currency \in CrewCurrencies /\ q.amount \in Nat
  BY CrewRequestFields DEF CrewOps
<1>2. CASE q.op = "Match"
  BY <1>1, <1>2 DEF CrewAssigned, CrewRow, CrewStatuses
<1>3. CASE q.op = "Book"
  BY <1>1, <1>3 DEF CrewAssigned, CrewRow, CrewStatuses
<1>4. CASE q.op = "Quote"
  BY <1>1, <1>4 DEF CrewAssigned, CrewRow, CrewStatuses
<1>5. CASE q.op = "Complete"
  BY <1>1, <1>5 DEF CrewAssigned, CrewRow, CrewStatuses
<1> QED
  BY <1>1, <1>2, <1>3, <1>4, <1>5

\* The UPDATE leaves a row; each column is the one there or the one assigned,
\* and it is the one assigned where that differs from the row selected again.
LEMMA CrewUpdatedColumns ==
  ASSUME CrewTypeOK, NEW q \in CrewRequest
  PROVE  LET now == crewOrder[q.order]
             new == CrewAssigned(q)
             upd == CrewUpdated(q)
         IN  /\ upd \in CrewRow
             /\ upd.status = (IF new.status = q.base.status THEN now.status ELSE new.status)
             /\ upd.crew = (IF new.crew = q.base.crew THEN now.crew ELSE new.crew)
             /\ upd.currency =
                  (IF new.currency = q.base.currency THEN now.currency ELSE new.currency)
             /\ upd.quote = (IF new.quote = q.base.quote THEN now.quote ELSE new.quote)
<1>1. crewOrder[q.order] \in CrewRow /\ CrewAssigned(q) \in CrewRow /\ q.ent \in CrewRow
  BY CrewAssignedIsRow, CrewRequestFields DEF CrewTypeOK
<1>2. DOMAIN q.ent = {"status", "crew", "currency", "quote"}
  BY <1>1, CrewRowFields
<1>3. CrewUpdated(q) = [c \in {"status", "crew", "currency", "quote"} |->
         IF CrewAssigned(q)[c] = q.base[c] THEN crewOrder[q.order][c] ELSE CrewAssigned(q)[c]]
  BY <1>2 DEF CrewUpdated
<1> QED
  BY <1>1, <1>3 DEF CrewRow

\* The entry a use case adds never takes anything off the account.
LEMMA CrewEntryGrows ==
  ASSUME CrewTypeOK, NEW q \in CrewRequest,
         q.op = "Quote" => q.deposited <= q.amount
  PROVE  LET a == crewLedger[q.order]
             b == Entry(q)
         IN  /\ b \in CrewAccount
             /\ b.held = (IF q.op = "Book" THEN a.held + q.amount ELSE a.held)
             /\ b.committed =
                  (IF q.op = "Quote" THEN a.committed + (q.amount - q.deposited) ELSE a.committed)
             /\ b.released =
                  (IF q.op = "Complete" THEN a.released + q.ent.quote ELSE a.released)
             /\ b.payouts = (IF q.op = "Complete" THEN a.payouts + 1 ELSE a.payouts)
             /\ b.ecocash =
                  (IF q.op = "Book" /\ q.currency = "ECOCASH" THEN a.ecocash + 1 ELSE a.ecocash)
<1> DEFINE a == crewLedger[q.order]
<1>1. /\ a \in CrewAccount
      /\ q.op \in {"Match", "Book", "Quote", "Complete"}
      /\ q.amount \in Nat /\ q.deposited \in Nat /\ q.ent.quote \in Nat
  BY CrewRequestFields, CrewRowFields DEF CrewTypeOK, CrewOps
<1>2. CASE q.op = "Match"
  BY <1>1, <1>2 DEF Entry, CrewAccount
<1>3. CASE q.op = "Book"
  <2> DEFINE held == a.held + q.amount
             ecocash == a.ecocash + (IF q.currency = "ECOCASH" THEN 1 ELSE 0)
  <2>1. Entry(q) = [a EXCEPT !.held = held, !.ecocash = ecocash]
    BY <1>3 DEF Entry
  <2>2. held \in Nat /\ ecocash \in Nat
    BY <1>1, CrewAccountFields
  <2> HIDE DEF held, ecocash
  <2>3. /\ Entry(q) \in CrewAccount
        /\ Entry(q).held = held /\ Entry(q).ecocash = ecocash
        /\ Entry(q).committed = a.committed /\ Entry(q).released = a.released
        /\ Entry(q).payouts = a.payouts
    BY <1>1, <2>1, <2>2 DEF CrewAccount
  <2> QED
    BY <1>1, <1>3, <2>3, CrewAccountFields DEF held, ecocash
<1>4. CASE q.op = "Quote"
  BY <1>1, <1>4 DEF Entry, CrewAccount
<1>5. CASE q.op = "Complete"
  <2> DEFINE released == a.released + q.ent.quote
             payouts == a.payouts + 1
  <2>1. Entry(q) = [a EXCEPT !.released = released, !.payouts = payouts]
    BY <1>5 DEF Entry
  <2>2. released \in Nat /\ payouts \in Nat
    BY <1>1, CrewAccountFields
  <2> HIDE DEF released, payouts
  <2>3. /\ Entry(q) \in CrewAccount
        /\ Entry(q).released = released /\ Entry(q).payouts = payouts
        /\ Entry(q).held = a.held /\ Entry(q).committed = a.committed
        /\ Entry(q).ecocash = a.ecocash
    BY <1>1, <2>1, <2>2 DEF CrewAccount
  <2> QED
    BY <1>1, <1>5, <2>3, CrewAccountFields DEF released, payouts
<1> QED
  BY <1>1, <1>2, <1>3, <1>4, <1>5

----------------------------------------------------------------------------
(* What a step does *)

\* The request in slot r goes on as q; the tables stay as they are.
CrewTurns(r, q) ==
  /\ crewReq' = [crewReq EXCEPT ![r] = q]
  /\ UNCHANGED <<crewDb, crewApart>>

LEMMA CrewTurnsOthers ==
  ASSUME CrewTypeOK, NEW r \in CrewRequests, NEW q, CrewTurns(r, q)
  PROVE  /\ crewReq'[r] = q
         /\ \A s \in CrewRequests \ {r} : crewReq'[s] = crewReq[s]
BY DEF CrewTypeOK, CrewTurns

\* Where a request of slot r can be after a step that only reads, and what it
\* has learned by it.
CrewLoads(r) ==
  \E op \in CrewOps, o \in CrewOrderIds, c \in Crews \cup {NoCrew},
     currency \in CrewCurrencies, amount \in Nat :
    /\ crewOrder[o].status = CrewSourceStatus[op]
    /\ op = "Book" => amount \in CrewDeposits /\ c \in Crews /\ currency # "NONE"
    /\ op = "Quote" => amount \in CrewQuotes
    /\ crewApart => KeepsApart(r, op, o, c)
    /\ CrewAt(r, "idle")
    /\ CrewTurns(r, [step |-> "loaded", op |-> op, order |-> o, crew |-> c,
                     currency |-> currency, amount |-> amount, ent |-> crewOrder[o],
                     base |-> crewOrder[o], deposited |-> 0])

LEMMA CrewLoadsCases ==
  ASSUME CrewTypeOK, NEW r \in CrewRequests, NEW o \in CrewOrderIds,
         \/ GetCrewOrderMatches(r, o)
         \/ \E c \in Crews, currency \in CrewCurrencies \ {"NONE"}, d \in CrewDeposits :
              BookCrewOrder(r, o, c, currency, d)
         \/ \E quote \in CrewQuotes : SubmitCrewOrderQuote(r, o, quote)
         \/ CompleteCrewOrder(r, o)
  PROVE  /\ CrewLoads(r)
         /\ crewCollected' = crewCollected
         /\ crewStarted < MaxCrewRequests
         /\ crewStarted' = crewStarted + 1
<1>1. CASE GetCrewOrderMatches(r, o)
  <2>1. "Match" \in CrewOps /\ CrewSourceStatus["Match"] = "REQUESTED"
        /\ NoCrew \in Crews \cup {NoCrew} /\ "NONE" \in CrewCurrencies /\ 0 \in Nat
    BY DEF CrewOps, CrewSourceStatus, CrewCurrencies
  <2> QED
    BY <1>1, <2>1 DEF GetCrewOrderMatches, CrewGet, CrewLoads, CrewTurns
<1>2. ASSUME NEW c \in Crews, NEW currency \in CrewCurrencies \ {"NONE"}, NEW d \in CrewDeposits,
             BookCrewOrder(r, o, c, currency, d)
      PROVE  CrewLoads(r) /\ crewCollected' = crewCollected
             /\ crewStarted < MaxCrewRequests /\ crewStarted' = crewStarted + 1
  <2>1. "Book" \in CrewOps /\ CrewSourceStatus["Book"] = "MATCHED"
        /\ c \in Crews \cup {NoCrew} /\ d \in Nat /\ "Book" # "Quote"
    BY CrewAssumption DEF CrewOps, CrewSourceStatus
  <2> QED
    BY <1>2, <2>1 DEF BookCrewOrder, CrewGet, CrewLoads, CrewTurns
<1>3. ASSUME NEW quote \in CrewQuotes, SubmitCrewOrderQuote(r, o, quote)
      PROVE  CrewLoads(r) /\ crewCollected' = crewCollected
             /\ crewStarted < MaxCrewRequests /\ crewStarted' = crewStarted + 1
  <2>1. "Quote" \in CrewOps /\ CrewSourceStatus["Quote"] = "BOOKED" /\ "Quote" # "Book"
        /\ NoCrew \in Crews \cup {NoCrew} /\ "NONE" \in CrewCurrencies
        /\ quote \in Nat
    BY CrewAssumption DEF CrewOps, CrewSourceStatus, CrewCurrencies
  <2> QED
    BY <1>3, <2>1 DEF SubmitCrewOrderQuote, CrewGet, CrewLoads, CrewTurns
<1>4. CASE CompleteCrewOrder(r, o)
  <2>1. "Complete" \in CrewOps /\ CrewSourceStatus["Complete"] = "IN_PROGRESS"
        /\ NoCrew \in Crews \cup {NoCrew} /\ "NONE" \in CrewCurrencies /\ 0 \in Nat
    BY DEF CrewOps, CrewSourceStatus, CrewCurrencies
  <2> QED
    BY <1>4, <2>1 DEF CompleteCrewOrder, CrewGet, CrewLoads, CrewTurns
<1> QED
  BY <1>1, <1>2, <1>3, <1>4

\* The same request, but for how far it is and what it read last.
CrewNow(q, step, base, deposited) ==
  [q EXCEPT !.step = step, !.base = base, !.deposited = deposited]

CrewPaying == {"collected", "selected", "flushed"}

CrewGoesOn(r) ==
  LET q == crewReq[r]
      held == crewLedger[q.order].held
  IN  \E step \in {"checked", "collected", "selected", "flushed"}, base \in CrewRow,
         deposited \in Nat :
        /\ ~CrewAt(r, "idle")
        /\ CrewTurns(r, CrewNow(q, step, base, deposited))
        /\ base \in {q.base, crewOrder[q.order]}
        /\ deposited = q.deposited \/ (deposited = held /\ held < q.amount)
        /\ q.op = "Quote" /\ CrewAt(r, "loaded") => deposited = held
        /\ q.op = "Book" /\ CrewAt(r, "loaded") => ServedBy(q.crew) = {}
        /\ \/ /\ crewCollected' = crewCollected
              /\ q.op = "Book" /\ q.currency = "ECOCASH" /\ step \in CrewPaying
                   => q.step \in CrewPaying
           \/ crewCollected' = [crewCollected EXCEPT ![q.order] = @ + 1]

CrewEnds(r) ==
  /\ ~CrewAt(r, "idle")
  /\ CrewTurns(r, CrewIdle)
  /\ \/ crewCollected' = crewCollected
     \/ crewCollected' = [crewCollected EXCEPT ![crewReq[r].order] = @ + 1]

\* What goes on is the same request but for how far it is.
LEMMA CrewGoesOnFields ==
  ASSUME NEW q \in CrewRequest, NEW base \in CrewRow, NEW deposited \in Nat,
         NEW step \in {"checked", "collected", "selected", "flushed"}
  PROVE  LET t == CrewNow(q, step, base, deposited) IN
         /\ t \in CrewRequest
         /\ t.step = step /\ t.base = base /\ t.deposited = deposited
         /\ t.op = q.op /\ t.order = q.order /\ t.crew = q.crew
         /\ t.currency = q.currency /\ t.amount = q.amount /\ t.ent = q.ent
BY DEF CrewRequest, CrewNow

LEMMA CrewProgressCases ==
  ASSUME CrewTypeOK, NEW r \in CrewRequests,
         CrewProgress(r) \/ AbandonCrewRequest(r)
  PROVE  \/ CrewGoesOn(r) /\ crewStarted' = crewStarted
         \/ CrewEnds(r) /\ crewStarted' = crewStarted
         \/ CommitCrewOrder(r)
<1> DEFINE q == crewReq[r]
           held == crewLedger[q.order].held
<1>1. CASE AbandonCrewRequest(r)
  BY <1>1 DEF AbandonCrewRequest, CrewEnds, CrewTurns, CrewGo
<1>2. CASE CheckCrewBusy(r)
  <2>1. ~CrewAt(r, "idle") /\ q \in CrewRequest
    BY <1>2, CrewInFlightIsRequest DEF CheckCrewBusy, CrewAt
  <2>2. CASE ServedBy(q.crew) = {}
    <3>1. CrewGo(r, [q EXCEPT !.step = "checked"]) /\ crewCollected' = crewCollected
      BY <1>2, <2>2 DEF CheckCrewBusy
    <3>2. [q EXCEPT !.step = "checked"]
            = CrewNow(q, "checked", q.base, q.deposited)
      BY <2>1 DEF CrewRequest, CrewNow
    <3>3. q.base \in CrewRow /\ q.deposited \in Nat /\ "checked" \notin CrewPaying
          /\ q.op = "Book"
      BY <1>2, <2>1, CrewRequestFields DEF CrewPaying, CheckCrewBusy
    <3> QED
      BY <2>1, <2>2, <3>1, <3>2, <3>3 DEF CrewGoesOn, CrewTurns, CrewGo
  <2>3. CASE ServedBy(q.crew) # {}
    BY <1>2, <2>1, <2>3 DEF CheckCrewBusy, CrewEnds, CrewTurns, CrewGo
  <2> QED
    BY <2>2, <2>3
<1>3. CASE CollectDeposit(r)
  <2>1. ~CrewAt(r, "idle") /\ q \in CrewRequest
    BY <1>3, CrewInFlightIsRequest DEF CollectDeposit, CrewAt
  <2>2. CASE CrewGo(r, CrewIdle)
    BY <1>3, <2>1, <2>2 DEF CollectDeposit, CrewEnds, CrewTurns, CrewGo
  <2>3. CASE CrewGo(r, [q EXCEPT !.step = "collected"])
    <3>1. [q EXCEPT !.step = "collected"]
            = CrewNow(q, "collected", q.base, q.deposited)
      BY <2>1 DEF CrewRequest, CrewNow
    <3>2. q.base \in CrewRow /\ q.deposited \in Nat
      BY <2>1, CrewRequestFields
    <3>3. q.step = "checked" /\ q.op = "Book" /\ ~CrewAt(r, "loaded")
      BY <1>3 DEF CollectDeposit, CrewAt
    <3>4. \/ crewCollected' = crewCollected /\ q.currency # "ECOCASH"
          \/ crewCollected' = [crewCollected EXCEPT ![q.order] = @ + 1]
      BY <1>3 DEF CollectDeposit
    <3> QED
      BY <2>1, <2>3, <3>1, <3>2, <3>3, <3>4 DEF CrewGoesOn, CrewTurns, CrewGo
  <2> QED
    BY <1>3, <2>2, <2>3 DEF CollectDeposit
<1>4. CASE SumCrewDeposits(r)
  <2>1. ~CrewAt(r, "idle") /\ q \in CrewRequest
    BY <1>4, CrewInFlightIsRequest DEF SumCrewDeposits, CrewAt
  <2>2. held \in Nat /\ q.amount \in Nat /\ q.base \in CrewRow
    BY <2>1, CrewRequestFields, CrewAccountFields DEF CrewTypeOK
  <2>3. CASE q.amount > held
    <3>1. CrewGo(r, [q EXCEPT !.step = "checked", !.deposited = held])
          /\ crewCollected' = crewCollected
      BY <1>4, <2>3 DEF SumCrewDeposits
    <3>2. [q EXCEPT !.step = "checked", !.deposited = held]
            = CrewNow(q, "checked", q.base, held)
      BY <2>1 DEF CrewRequest, CrewNow
    <3>3. "checked" \notin CrewPaying /\ q.op = "Quote" /\ held < q.amount
      BY <1>4, <2>2, <2>3 DEF CrewPaying, SumCrewDeposits
    <3> QED
      BY <2>1, <2>2, <3>1, <3>2, <3>3 DEF CrewGoesOn, CrewTurns, CrewGo
  <2>4. CASE ~(q.amount > held)
    BY <1>4, <2>1, <2>4 DEF SumCrewDeposits, CrewEnds, CrewTurns, CrewGo
  <2> QED
    BY <2>3, <2>4
<1>5. CASE SelectCrewOrder(r)
  <2>1. ~CrewAt(r, "idle") /\ q \in CrewRequest
    BY <1>5, CrewInFlightIsRequest DEF SelectCrewOrder, CrewAt
  <2>2. CrewGo(r, [q EXCEPT !.step = "selected", !.base = crewOrder[q.order]])
        /\ crewCollected' = crewCollected
    BY <1>5 DEF SelectCrewOrder
  <2>3. [q EXCEPT !.step = "selected", !.base = crewOrder[q.order]]
          = CrewNow(q, "selected", crewOrder[q.order], q.deposited)
    BY <2>1 DEF CrewRequest, CrewNow
  <2>4. crewOrder[q.order] \in CrewRow /\ q.deposited \in Nat
    BY <2>1, CrewRequestFields DEF CrewTypeOK
  <2>5. /\ q.op = "Book" => q.step = "collected" /\ ~CrewAt(r, "loaded")
        /\ q.op = "Quote" => ~CrewAt(r, "loaded")
        /\ "collected" \in CrewPaying
    BY <1>5 DEF SelectCrewOrder, CrewPaying, CrewAt
  <2> QED
    BY <2>1, <2>2, <2>3, <2>4, <2>5 DEF CrewGoesOn, CrewTurns, CrewGo
<1>6. CASE FlushCrewOrder(r)
  <2>1. ~CrewAt(r, "idle") /\ q \in CrewRequest
    BY <1>6, CrewInFlightIsRequest DEF FlushCrewOrder, CrewAt
  <2>2. CrewGo(r, [q EXCEPT !.step = "flushed"]) /\ crewCollected' = crewCollected
    BY <1>6 DEF FlushCrewOrder
  <2>3. [q EXCEPT !.step = "flushed"]
          = CrewNow(q, "flushed", q.base, q.deposited)
    BY <2>1 DEF CrewRequest, CrewNow
  <2>4. q.base \in CrewRow /\ q.deposited \in Nat
    BY <2>1, CrewRequestFields
  <2>5. q.step = "selected" /\ ~CrewAt(r, "loaded") /\ "selected" \in CrewPaying
    BY <1>6 DEF FlushCrewOrder, CrewPaying, CrewAt
  <2> QED
    BY <2>1, <2>2, <2>3, <2>4, <2>5 DEF CrewGoesOn, CrewTurns, CrewGo
<1>7. UNCHANGED crewStarted \/ CommitCrewOrder(r)
  BY DEF CrewProgress, AbandonCrewRequest, CheckCrewBusy, CollectDeposit, SumCrewDeposits,
         SelectCrewOrder, FlushCrewOrder, CrewGo
<1> QED
  BY <1>1, <1>2, <1>3, <1>4, <1>5, <1>6, <1>7 DEF CrewProgress

\* Every step is of one of these shapes.
LEMMA CrewShapes ==
  ASSUME CrewTypeOK, CrewNext
  PROVE  \/ \E o \in CrewOrderIds : CreateCrewOrder(o)
         \/ \E r \in CrewRequests :
              \/ CrewLoads(r) /\ crewCollected' = crewCollected
              \/ CrewGoesOn(r)
              \/ CrewEnds(r)
              \/ CommitCrewOrder(r)
BY CrewLoadsCases, CrewProgressCases DEF CrewNext

\* A request that arrives, goes on or ends before its commit leaves the tables.
LEMMA CrewTablesStay ==
  ASSUME NEW r \in CrewRequests, CrewLoads(r) \/ CrewGoesOn(r) \/ CrewEnds(r)
  PROVE  crewOrder' = crewOrder /\ crewLedger' = crewLedger
<1>1. ASSUME NEW q, CrewTurns(r, q) PROVE crewOrder' = crewOrder /\ crewLedger' = crewLedger
  BY <1>1 DEF CrewTurns, crewDb
<1>2. CASE CrewLoads(r)
  BY <1>1, <1>2 DEF CrewLoads
<1>3. CASE CrewGoesOn(r)
  BY <1>1, <1>3 DEF CrewGoesOn
<1>4. CASE CrewEnds(r)
  BY <1>1, <1>4 DEF CrewEnds
<1> QED
  BY <1>2, <1>3, <1>4

\* The tables change by a creation or by a commit.
LEMMA CrewDbCases ==
  ASSUME CrewTypeOK, CrewNext
  PROVE  \/ crewOrder' = crewOrder /\ crewLedger' = crewLedger
         \/ \E o \in CrewOrderIds : CreateCrewOrder(o)
         \/ \E r \in CrewRequests : CommitCrewOrder(r)
BY CrewShapes, CrewTablesStay

\* A step starts at most one request.
LEMMA CrewStartedType ==
  ASSUME CrewTypeOK, CrewNext
  PROVE  crewStarted' \in 0 .. MaxCrewRequests
<1>1. crewStarted' = crewStarted \/ (crewStarted < MaxCrewRequests /\ crewStarted' = crewStarted + 1)
  BY CrewLoadsCases, CrewProgressCases DEF CrewNext, CreateCrewOrder, CommitCrewOrder
<1> QED
  BY <1>1, CrewAssumption DEF CrewTypeOK

LEMMA CrewTypeStep ==
  ASSUME CrewInv, CrewNext
  PROVE  CrewTypeOK'
<1> USE DEF CrewInv
<1>1. crewStarted' \in 0 .. MaxCrewRequests
  BY CrewStartedType
<1>2. CrewIdle \in CrewRequest \cup {CrewIdle}
  OBVIOUS
<1>3. ASSUME NEW o \in CrewOrderIds, CreateCrewOrder(o) PROVE CrewTypeOK'
  BY <1>1, <1>3 DEF CreateCrewOrder, CrewTypeOK, CrewRow, CrewStatuses
<1>4. ASSUME NEW r \in CrewRequests, CrewLoads(r), crewCollected' = crewCollected
      PROVE  CrewTypeOK'
  <2>1. PICK op \in CrewOps, o \in CrewOrderIds, c \in Crews \cup {NoCrew},
             currency \in CrewCurrencies, amount \in Nat :
          CrewTurns(r, [step |-> "loaded", op |-> op, order |-> o, crew |-> c,
                        currency |-> currency, amount |-> amount, ent |-> crewOrder[o],
                        base |-> crewOrder[o], deposited |-> 0])
    BY <1>4 DEF CrewLoads
  <2>2. [step |-> "loaded", op |-> op, order |-> o, crew |-> c,
         currency |-> currency, amount |-> amount, ent |-> crewOrder[o],
         base |-> crewOrder[o], deposited |-> 0] \in CrewRequest
    BY DEF CrewTypeOK, CrewRequest
  <2> QED
    BY <1>1, <1>4, <2>1, <2>2 DEF CrewTypeOK, CrewTurns, crewDb
<1>5. ASSUME NEW r \in CrewRequests, CrewGoesOn(r) PROVE CrewTypeOK'
  <2>1. crewReq[r] \in CrewRequest
    BY <1>5, CrewInFlightIsRequest DEF CrewGoesOn
  <2>2. PICK step \in {"checked", "collected", "selected", "flushed"}, base \in CrewRow,
             deposited \in Nat :
          CrewTurns(r, CrewNow(crewReq[r], step, base, deposited))
    BY <1>5 DEF CrewGoesOn
  <2>4. CrewNow(crewReq[r], step, base, deposited) \in CrewRequest
    BY <2>1, CrewGoesOnFields
  <2>3. crewCollected' \in [CrewOrderIds -> Nat]
    BY <1>5, <2>1, CrewRequestFields DEF CrewGoesOn, CrewTypeOK
  <2> QED
    BY <1>1, <2>2, <2>3, <2>4 DEF CrewTypeOK, CrewTurns, crewDb
<1>6. ASSUME NEW r \in CrewRequests, CrewEnds(r) PROVE CrewTypeOK'
  <2>1. crewReq[r] \in CrewRequest
    BY <1>6, CrewInFlightIsRequest DEF CrewEnds
  <2>2. crewCollected' \in [CrewOrderIds -> Nat]
    BY <1>6, <2>1, CrewRequestFields DEF CrewEnds, CrewTypeOK
  <2> QED
    BY <1>1, <1>2, <1>6, <2>2 DEF CrewTypeOK, CrewEnds, CrewTurns, crewDb
<1>7. ASSUME NEW r \in CrewRequests, CommitCrewOrder(r) PROVE CrewTypeOK'
  <2> DEFINE q == crewReq[r]
  <2>1. ~CrewAt(r, "idle") /\ q \in CrewRequest
    BY <1>7, CrewInFlightIsRequest DEF CommitCrewOrder, CrewAt
  <2>2. q.op = "Quote" => q.deposited <= q.amount
    BY <2>1, CrewRequestFields DEF CrewEntitiesBacked, CrewCopyBacked
  <2>3. CrewUpdated(q) \in CrewRow /\ Entry(q) \in CrewAccount
    BY <2>1, <2>2, CrewUpdatedColumns, CrewEntryGrows
  <2> QED
    BY <1>1, <1>2, <1>7, <2>1, <2>3 DEF CrewTypeOK, CommitCrewOrder
<1> QED
  BY <1>3, <1>4, <1>5, <1>6, <1>7, CrewShapes

----------------------------------------------------------------------------
(* What a commit leaves behind *)

\* The accounts after a step: nothing is taken off them.
LEMMA CrewAccountsGrow ==
  ASSUME CrewInv, CrewNext, NEW o \in CrewOrderIds
  PROVE  /\ crewLedger[o] \in CrewAccount /\ crewLedger'[o] \in CrewAccount
         /\ crewLedger'[o].held >= crewLedger[o].held
         /\ crewLedger'[o].committed >= crewLedger[o].committed
         /\ crewLedger'[o].payouts >= crewLedger[o].payouts
<1> USE DEF CrewInv
<1>1. crewLedger[o] \in CrewAccount /\ crewLedger'[o] \in CrewAccount
  BY CrewTypeStep DEF CrewTypeOK
<1>2. CASE crewLedger' = crewLedger
  BY <1>1, <1>2, CrewAccountFields
<1>3. ASSUME NEW r \in CrewRequests, CommitCrewOrder(r)
      PROVE  /\ crewLedger'[o].held >= crewLedger[o].held
             /\ crewLedger'[o].committed >= crewLedger[o].committed
             /\ crewLedger'[o].payouts >= crewLedger[o].payouts
  <2> DEFINE q == crewReq[r]
  <2>1. ~CrewAt(r, "idle") /\ q \in CrewRequest
    BY <1>3, CrewInFlightIsRequest DEF CommitCrewOrder, CrewAt
  <2>2. /\ q.op = "Quote" => q.deposited <= q.amount
        /\ q.amount \in Nat /\ q.deposited \in Nat /\ q.order \in CrewOrderIds
    BY <2>1, CrewRequestFields DEF CrewEntitiesBacked, CrewCopyBacked
  <2>3. crewLedger' = [crewLedger EXCEPT ![q.order] = Entry(q)]
    BY <1>3 DEF CommitCrewOrder
  <2>4. CASE o = q.order
    <3>1. crewLedger'[o] = Entry(q) /\ Entry(q).held \in Nat
      BY <1>1, <2>2, <2>3, <2>4, CrewAccountFields DEF CrewTypeOK
    <3> QED
      BY <1>1, <2>1, <2>2, <2>4, <3>1, CrewEntryGrows, CrewAccountFields
  <2>5. CASE o # q.order
    BY <1>1, <2>3, <2>5, CrewAccountFields DEF CrewTypeOK
  <2> QED
    BY <2>4, <2>5
<1>4. crewLedger' = crewLedger \/ \E r \in CrewRequests : CommitCrewOrder(r)
  BY CrewDbCases DEF CreateCrewOrder, CrewInv
<1> QED
  BY <1>1, <1>2, <1>3, <1>4

\* A slot's request is as before, new, further, or gone.
LEMMA CrewSlotCases ==
  ASSUME CrewTypeOK, CrewNext, NEW s \in CrewRequests
  PROVE  \/ crewReq'[s] = crewReq[s]
         \/ CrewLoads(s)
         \/ CrewGoesOn(s)
         \/ crewReq'[s] = CrewIdle
<1>1. ASSUME NEW r \in CrewRequests, NEW q, crewReq' = [crewReq EXCEPT ![r] = q]
      PROVE  (r = s /\ crewReq'[s] = q) \/ crewReq'[s] = crewReq[s]
  BY <1>1 DEF CrewTypeOK
<1>2. ASSUME NEW o \in CrewOrderIds, CreateCrewOrder(o) PROVE crewReq'[s] = crewReq[s]
  BY <1>2 DEF CreateCrewOrder
<1>3. ASSUME NEW r \in CrewRequests, CrewLoads(r)
      PROVE  r = s \/ crewReq'[s] = crewReq[s]
  BY <1>1, <1>3 DEF CrewLoads, CrewTurns
<1>4. ASSUME NEW r \in CrewRequests, CrewGoesOn(r)
      PROVE  r = s \/ crewReq'[s] = crewReq[s]
  BY <1>1, <1>4 DEF CrewGoesOn, CrewTurns
<1>5. ASSUME NEW r \in CrewRequests, CrewEnds(r)
      PROVE  crewReq'[s] = CrewIdle \/ crewReq'[s] = crewReq[s]
  BY <1>1, <1>5 DEF CrewEnds, CrewTurns
<1>6. ASSUME NEW r \in CrewRequests, CommitCrewOrder(r)
      PROVE  crewReq'[s] = CrewIdle \/ crewReq'[s] = crewReq[s]
  BY <1>1, <1>6 DEF CommitCrewOrder
<1> QED
  BY <1>2, <1>3, <1>4, <1>5, <1>6, CrewShapes

LEMMA CrewLoadedFields ==
  ASSUME CrewTypeOK, NEW r \in CrewRequests, CrewLoads(r)
  PROVE  LET q == crewReq'[r] IN
         /\ q \in CrewRequest
         /\ q.step = "loaded"
         /\ q.deposited = 0
         /\ q.ent = crewOrder[q.order] /\ q.base = crewOrder[q.order]
         /\ crewOrder[q.order].status = CrewSourceStatus[q.op]
         /\ q.op = "Book" => q.amount \in CrewDeposits /\ q.crew \in Crews /\ q.currency # "NONE"
         /\ q.op = "Quote" => q.amount \in CrewQuotes
         /\ crewApart => KeepsApart(r, q.op, q.order, q.crew)
         /\ UNCHANGED <<crewDb, crewApart>>
<1>1. PICK op \in CrewOps, o \in CrewOrderIds, c \in Crews \cup {NoCrew},
           currency \in CrewCurrencies, amount \in Nat :
        /\ crewOrder[o].status = CrewSourceStatus[op]
        /\ op = "Book" => amount \in CrewDeposits /\ c \in Crews /\ currency # "NONE"
        /\ op = "Quote" => amount \in CrewQuotes
        /\ crewApart => KeepsApart(r, op, o, c)
        /\ CrewTurns(r, [step |-> "loaded", op |-> op, order |-> o, crew |-> c,
                         currency |-> currency, amount |-> amount, ent |-> crewOrder[o],
                         base |-> crewOrder[o], deposited |-> 0])
  BY DEF CrewLoads
<1> DEFINE q == [step |-> "loaded", op |-> op, order |-> o, crew |-> c,
                 currency |-> currency, amount |-> amount, ent |-> crewOrder[o],
                 base |-> crewOrder[o], deposited |-> 0]
<1>2. /\ q.step = "loaded" /\ q.deposited = 0 /\ q.op = op /\ q.order = o /\ q.crew = c
      /\ q.currency = currency /\ q.amount = amount
      /\ q.ent = crewOrder[o] /\ q.base = crewOrder[o]
  OBVIOUS
<1>3. q \in CrewRequest
  BY DEF CrewTypeOK, CrewRequest
<1>4. CrewTurns(r, q)
  BY <1>1
<1> HIDE DEF q
<1>5. crewReq'[r] = q /\ UNCHANGED <<crewDb, crewApart>>
  BY <1>4 DEF CrewTurns, CrewTypeOK
<1> QED
  BY <1>1, <1>2, <1>3, <1>5

LEMMA CrewWentOnFields ==
  ASSUME CrewTypeOK, NEW r \in CrewRequests, CrewGoesOn(r)
  PROVE  LET q == crewReq[r]
             t == crewReq'[r]
             held == crewLedger[q.order].held
         IN  /\ q \in CrewRequest /\ t \in CrewRequest
             /\ ~CrewAt(r, "idle")
             /\ t.step # "loaded"
             /\ t.base \in {q.base, crewOrder[q.order]}
             /\ t.deposited = q.deposited \/ (t.deposited = held /\ held < q.amount)
             /\ q.op = "Quote" /\ CrewAt(r, "loaded") => t.deposited = held
             /\ q.op = "Book" /\ CrewAt(r, "loaded") => ServedBy(q.crew) = {}
             /\ \/ /\ crewCollected' = crewCollected
                   /\ q.op = "Book" /\ q.currency = "ECOCASH" /\ t.step \in CrewPaying
                        => q.step \in CrewPaying
                \/ crewCollected' = [crewCollected EXCEPT ![q.order] = @ + 1]
             /\ t.op = q.op /\ t.order = q.order /\ t.crew = q.crew
             /\ t.currency = q.currency /\ t.amount = q.amount /\ t.ent = q.ent
             /\ UNCHANGED <<crewDb, crewApart>>
<1> DEFINE q == crewReq[r]
           held == crewLedger[q.order].held
<1>1. PICK step \in {"checked", "collected", "selected", "flushed"}, base \in CrewRow,
           deposited \in Nat :
        /\ ~CrewAt(r, "idle")
        /\ CrewTurns(r, CrewNow(q, step, base, deposited))
        /\ base \in {q.base, crewOrder[q.order]}
        /\ deposited = q.deposited \/ (deposited = held /\ held < q.amount)
        /\ q.op = "Quote" /\ CrewAt(r, "loaded") => deposited = held
        /\ q.op = "Book" /\ CrewAt(r, "loaded") => ServedBy(q.crew) = {}
        /\ \/ /\ crewCollected' = crewCollected
              /\ q.op = "Book" /\ q.currency = "ECOCASH" /\ step \in CrewPaying
                   => q.step \in CrewPaying
           \/ crewCollected' = [crewCollected EXCEPT ![q.order] = @ + 1]
  BY DEF CrewGoesOn
<1>2. q \in CrewRequest
  BY <1>1, CrewInFlightIsRequest
<1> DEFINE t == CrewNow(q, step, base, deposited)
<1>3. /\ t \in CrewRequest
      /\ t.step = step /\ t.base = base /\ t.deposited = deposited
      /\ t.op = q.op /\ t.order = q.order /\ t.crew = q.crew
      /\ t.currency = q.currency /\ t.amount = q.amount /\ t.ent = q.ent
  BY <1>2, CrewGoesOnFields
<1>4. crewReq'[r] = t /\ UNCHANGED <<crewDb, crewApart>>
  BY <1>1 DEF CrewTurns, CrewTypeOK
<1> HIDE DEF t, q
<1> QED
  BY <1>1, <1>2, <1>3, <1>4 DEF q

----------------------------------------------------------------------------
(* The parts of the invariant, one lemma each *)

LEMMA CrewEntitiesBackedStep ==
  ASSUME CrewInv, CrewNext
  PROVE  CrewEntitiesBacked'
<1> USE DEF CrewInv
<1> SUFFICES ASSUME NEW r \in CrewRequests, ~CrewAt(r, "idle")'
             PROVE  CrewCopyBacked(crewReq[r])'
  BY DEF CrewEntitiesBacked
<1> DEFINE q == crewReq[r]
           t == crewReq'[r]
<1>1. CASE t = q
  <2>1. ~CrewAt(r, "idle") /\ q \in CrewRequest
    BY <1>1, CrewInFlightIsRequest DEF CrewAt
  <2>2. /\ q.order \in CrewOrderIds /\ q.deposited \in Nat /\ q.ent.quote \in Nat
    BY <2>1, CrewRequestFields, CrewRowFields
  <2>3. /\ crewLedger[q.order] \in CrewAccount /\ crewLedger'[q.order] \in CrewAccount
        /\ crewLedger'[q.order].held >= crewLedger[q.order].held
        /\ crewLedger'[q.order].committed >= crewLedger[q.order].committed
    BY <2>2, CrewAccountsGrow
  <2>4. /\ q.ent.status = CrewSourceStatus[q.op]
        /\ q.op \in {"Quote", "Complete"} => crewLedger[q.order].held > 0
        /\ q.ent.quote <= CrewPaidIn(q.order)
        /\ q.op = "Book" => q.amount \in CrewDeposits /\ q.crew \in Crews /\ q.currency # "NONE"
        /\ q.op = "Quote" =>
             /\ q.amount \in CrewQuotes
             /\ q.deposited <= crewLedger[q.order].held /\ q.deposited < q.amount
    BY <2>1 DEF CrewEntitiesBacked, CrewCopyBacked
  <2> HIDE DEF q, t
  <2> QED
    BY <1>1, <2>2, <2>3, <2>4, CrewAccountFields DEF CrewPaidIn, CrewCopyBacked, t
<1>2. CASE CrewLoads(r)
  <2>1. /\ t \in CrewRequest
        /\ t.deposited = 0
        /\ t.ent = crewOrder[t.order]
        /\ crewOrder[t.order].status = CrewSourceStatus[t.op]
        /\ t.op = "Book" => t.amount \in CrewDeposits /\ t.crew \in Crews /\ t.currency # "NONE"
        /\ t.op = "Quote" => t.amount \in CrewQuotes
        /\ crewLedger' = crewLedger
    BY <1>2, CrewLoadedFields DEF crewDb
  <2>2. /\ t.order \in CrewOrderIds /\ crewLedger[t.order].held \in Nat
    BY <2>1, CrewRequestFields, CrewAccountFields DEF CrewTypeOK
  <2>3. /\ crewOrder[t.order].status \in {"BOOKED", "IN_PROGRESS", "COMPLETED"}
             => crewLedger[t.order].held > 0
        /\ crewOrder[t.order].quote <= CrewPaidIn(t.order)
    BY <2>2 DEF CrewStatusBackedByLedger, CrewPaidIn
  <2> HIDE DEF t
  <2>4. t.op \in {"Quote", "Complete"} => crewLedger[t.order].held > 0
    BY <2>1, <2>3 DEF CrewSourceStatus
  <2>5. t.op = "Quote" => t.deposited <= crewLedger[t.order].held /\ t.deposited < t.amount
    <3>1. t.op = "Quote" => t.amount \in Nat \ {0}
      BY <2>1, CrewAssumption
    <3>2. t.deposited = 0 /\ crewLedger[t.order].held \in Nat
      BY <2>1, <2>2
    <3> HIDE DEF CrewInv
    <3> QED
      BY <3>1, <3>2
  <2> QED
    BY <2>1, <2>2, <2>3, <2>4, <2>5 DEF CrewPaidIn, CrewCopyBacked, t
<1>3. CASE CrewGoesOn(r)
  <2>1. /\ q \in CrewRequest
        /\ ~CrewAt(r, "idle")
        /\ t.deposited = q.deposited
             \/ (t.deposited = crewLedger[q.order].held /\ crewLedger[q.order].held < q.amount)
        /\ t.op = q.op /\ t.order = q.order /\ t.crew = q.crew
        /\ t.currency = q.currency /\ t.amount = q.amount /\ t.ent = q.ent
        /\ crewLedger' = crewLedger
    BY <1>3, CrewWentOnFields DEF crewDb
  <2>2. crewLedger[q.order].held \in Nat /\ q.order \in CrewOrderIds
    BY <2>1, CrewRequestFields, CrewAccountFields DEF CrewTypeOK
  <2>3. /\ q.ent.status = CrewSourceStatus[q.op]
        /\ q.op \in {"Quote", "Complete"} => crewLedger[q.order].held > 0
        /\ q.ent.quote <= CrewPaidIn(q.order)
        /\ q.op = "Book" => q.amount \in CrewDeposits /\ q.crew \in Crews /\ q.currency # "NONE"
        /\ q.op = "Quote" =>
             /\ q.amount \in CrewQuotes
             /\ q.deposited <= crewLedger[q.order].held /\ q.deposited < q.amount
    BY <2>1 DEF CrewEntitiesBacked, CrewCopyBacked
  <2> HIDE DEF q, t
  <2> QED
    BY <2>1, <2>2, <2>3 DEF CrewPaidIn, CrewCopyBacked, t
<1>4. t # CrewIdle
  BY DEF CrewIdle, CrewAt
<1> QED
  BY <1>1, <1>2, <1>3, <1>4, CrewSlotCases

LEMMA CrewApartStays ==
  ASSUME CrewTypeOK, CrewNext
  PROVE  crewApart' = crewApart
<1>1. ASSUME NEW o \in CrewOrderIds, CreateCrewOrder(o) PROVE crewApart' = crewApart
  BY <1>1 DEF CreateCrewOrder
<1>2. ASSUME NEW r \in CrewRequests, CrewLoads(r) PROVE crewApart' = crewApart
  BY <1>2, CrewLoadedFields
<1>3. ASSUME NEW r \in CrewRequests, CrewGoesOn(r) PROVE crewApart' = crewApart
  BY <1>3, CrewWentOnFields
<1>4. ASSUME NEW r \in CrewRequests, CrewEnds(r) PROVE crewApart' = crewApart
  BY <1>4 DEF CrewEnds, CrewTurns
<1>5. ASSUME NEW r \in CrewRequests, CommitCrewOrder(r) PROVE crewApart' = crewApart
  BY <1>5 DEF CommitCrewOrder
<1> QED
  BY <1>1, <1>2, <1>3, <1>4, <1>5, CrewShapes

\* The row and the account of an order change by its creation or by a commit.
LEMMA CrewRowCases ==
  ASSUME CrewInv, CrewNext, NEW o \in CrewOrderIds
  PROVE  \/ crewOrder'[o] = crewOrder[o] /\ crewLedger'[o] = crewLedger[o]
         \/ CreateCrewOrder(o)
         \/ \E r \in CrewRequests :
              /\ CommitCrewOrder(r)
              /\ crewReq[r] \in CrewRequest
              /\ ~CrewAt(r, "idle") /\ CrewAt(r, "flushed")
              /\ crewReq[r].order = o
              /\ crewOrder'[o] = CrewUpdated(crewReq[r])
              /\ crewLedger'[o] = Entry(crewReq[r])
<1> USE DEF CrewInv
<1>1. ASSUME NEW p \in CrewOrderIds, CreateCrewOrder(p), p # o
      PROVE  crewOrder'[o] = crewOrder[o] /\ crewLedger'[o] = crewLedger[o]
  BY <1>1 DEF CreateCrewOrder, CrewTypeOK
<1>2. ASSUME NEW r \in CrewRequests, CommitCrewOrder(r)
      PROVE  /\ crewReq[r] \in CrewRequest
             /\ ~CrewAt(r, "idle") /\ CrewAt(r, "flushed")
             /\ IF crewReq[r].order = o
                  THEN crewOrder'[o] = CrewUpdated(crewReq[r]) /\ crewLedger'[o] = Entry(crewReq[r])
                  ELSE crewOrder'[o] = crewOrder[o] /\ crewLedger'[o] = crewLedger[o]
  <2>1. ~CrewAt(r, "idle") /\ CrewAt(r, "flushed")
    BY <1>2 DEF CommitCrewOrder, CrewAt
  <2> QED
    BY <1>2, <2>1, CrewInFlightIsRequest DEF CommitCrewOrder, CrewTypeOK
<1>4. CASE crewOrder' = crewOrder /\ crewLedger' = crewLedger
  BY <1>4
<1>5. CASE \E p \in CrewOrderIds : CreateCrewOrder(p)
  BY <1>1, <1>5
<1>6. CASE \E r \in CrewRequests : CommitCrewOrder(r)
  <2>1. PICK r \in CrewRequests : CommitCrewOrder(r)
    BY <1>6
  <2>2. CASE crewReq[r].order = o
    BY <1>2, <2>1, <2>2
  <2>3. CASE crewReq[r].order # o
    BY <1>2, <2>1, <2>3
  <2> QED
    BY <2>2, <2>3
<1> QED
  BY <1>4, <1>5, <1>6, CrewDbCases

LEMMA CrewFlightCounts ==
  ASSUME NEW o, NEW S \in SUBSET CrewCollectedInFlight(o)
  PROVE  /\ IsFiniteSet(CrewCollectedInFlight(o)) /\ IsFiniteSet(S)
         /\ Cardinality(CrewCollectedInFlight(o)) \in Nat
         /\ Cardinality(S) \in Nat
         /\ Cardinality(S) <= Cardinality(CrewCollectedInFlight(o))
<1>1. IsFiniteSet(CrewRequests)
  BY CrewAssumption, FS_Interval DEF CrewRequests
<1>2. CrewCollectedInFlight(o) \in SUBSET CrewRequests
  BY DEF CrewCollectedInFlight
<1> QED
  BY <1>1, <1>2, FS_Subset, FS_CardinalityType

LEMMA CrewDepositsCollectedStep ==
  ASSUME CrewInv, CrewNext
  PROVE  CrewDepositsCollected'
<1> USE DEF CrewInv
<1> SUFFICES ASSUME NEW o \in CrewOrderIds
             PROVE  crewLedger'[o].ecocash + Cardinality(CrewCollectedInFlight(o)')
                      <= crewCollected'[o]
  BY DEF CrewDepositsCollected
<1> DEFINE F == CrewCollectedInFlight(o)
           G == CrewCollectedInFlight(o)'
<1>1. /\ crewLedger[o].ecocash \in Nat /\ crewLedger'[o].ecocash \in Nat
      /\ crewCollected[o] \in Nat
      /\ crewLedger[o].ecocash + Cardinality(F) <= crewCollected[o]
      /\ IsFiniteSet(F) /\ Cardinality(F) \in Nat
  <2>1. F \in SUBSET F
    OBVIOUS
  <2> QED
    BY <2>1, CrewAccountsGrow, CrewAccountFields, CrewFlightCounts
       DEF CrewDepositsCollected, CrewTypeOK
<1>2. ASSUME NEW r \in CrewRequests, \A s \in CrewRequests \ {r} : crewReq'[s] = crewReq[s]
      PROVE  G \subseteq F \cup {r}
  BY <1>2 DEF CrewCollectedInFlight
<1>3. ASSUME G \subseteq F, crewLedger'[o].ecocash = crewLedger[o].ecocash,
             crewCollected'[o] \in Nat, crewCollected'[o] >= crewCollected[o]
      PROVE  crewLedger'[o].ecocash + Cardinality(G) <= crewCollected'[o]
  <2>1. Cardinality(G) \in Nat /\ Cardinality(G) <= Cardinality(F)
    BY <1>3, CrewFlightCounts
  <2> HIDE DEF F, G
  <2> QED
    BY <1>1, <1>3, <2>1
<1>4. ASSUME NEW p \in CrewOrderIds, CreateCrewOrder(p)
      PROVE  crewLedger'[o].ecocash + Cardinality(G) <= crewCollected'[o]
  <2>1. G = F
    BY <1>4 DEF CreateCrewOrder, CrewCollectedInFlight
  <2> QED
    BY <1>1, <1>3, <1>4, <2>1 DEF CreateCrewOrder
<1>5. ASSUME NEW r \in CrewRequests, CrewLoads(r), crewCollected' = crewCollected
      PROVE  crewLedger'[o].ecocash + Cardinality(G) <= crewCollected'[o]
  <2>1. /\ \A s \in CrewRequests \ {r} : crewReq'[s] = crewReq[s]
        /\ crewLedger' = crewLedger
    BY <1>5 DEF CrewLoads, CrewTurns, CrewTypeOK, crewDb
  <2>2. r \notin G
    BY <1>5, CrewLoadedFields DEF CrewCollectedInFlight
  <2> QED
    BY <1>1, <1>2, <1>3, <1>5, <2>1, <2>2
<1>6. ASSUME NEW r \in CrewRequests, CrewGoesOn(r)
      PROVE  crewLedger'[o].ecocash + Cardinality(G) <= crewCollected'[o]
  <2> DEFINE q == crewReq[r]
             t == crewReq'[r]
  <2>1. /\ \A s \in CrewRequests \ {r} : crewReq'[s] = crewReq[s]
        /\ crewLedger' = crewLedger
    BY <1>6 DEF CrewGoesOn, CrewTurns, CrewTypeOK, crewDb
  <2>2. /\ q \in CrewRequest
        /\ t.op = q.op /\ t.order = q.order /\ t.currency = q.currency
        /\ \/ /\ crewCollected' = crewCollected
              /\ q.op = "Book" /\ q.currency = "ECOCASH" /\ t.step \in CrewPaying
                   => q.step \in CrewPaying
           \/ crewCollected' = [crewCollected EXCEPT ![q.order] = @ + 1]
    BY <1>6, CrewWentOnFields
  <2>3. CASE crewCollected'[o] = crewCollected[o] + 1 /\ q.order = o
    <3>1. CASE r \in F
      BY <1>1, <1>2, <1>3, <2>1, <2>3, <3>1
    <3>2. CASE r \notin F
      <4>1. F \cup {r} \in SUBSET (F \cup {r}) /\ IsFiniteSet(F \cup {r})
            /\ Cardinality(F \cup {r}) = Cardinality(F) + 1
        BY <1>1, <3>2, FS_AddElement
      <4>2. Cardinality(G) <= Cardinality(F) + 1 /\ Cardinality(G) \in Nat
        BY <1>1, <1>2, <2>1, <4>1, FS_Subset, FS_CardinalityType
      <4> HIDE DEF F, G
      <4> QED
        BY <1>1, <2>1, <2>3, <4>2
    <3> QED
      BY <3>1, <3>2
  <2>4. CASE crewCollected'[o] = crewCollected[o]
             /\ (q.order = o => crewCollected' = crewCollected)
    <3>1. r \in G => r \in F
      BY <2>2, <2>4 DEF CrewCollectedInFlight, CrewPaying, CrewTypeOK
    <3> QED
      BY <1>1, <1>2, <1>3, <2>1, <2>4, <3>1
  <2>5. q.order \in CrewOrderIds
    BY <2>2, CrewRequestFields
  <2> QED
    BY <2>2, <2>3, <2>4, <2>5 DEF CrewTypeOK
<1>7. ASSUME NEW r \in CrewRequests, CrewEnds(r)
      PROVE  crewLedger'[o].ecocash + Cardinality(G) <= crewCollected'[o]
  <2>1. /\ \A s \in CrewRequests \ {r} : crewReq'[s] = crewReq[s]
        /\ crewReq'[r] = CrewIdle
        /\ crewLedger' = crewLedger
    BY <1>7 DEF CrewEnds, CrewTurns, CrewTypeOK, crewDb
  <2>2. r \notin G
    BY <2>1 DEF CrewCollectedInFlight, CrewIdle
  <2>3. crewCollected'[o] \in Nat /\ crewCollected'[o] >= crewCollected[o]
    BY <1>1, <1>7 DEF CrewEnds, CrewTypeOK
  <2> QED
    BY <1>2, <1>3, <2>1, <2>2, <2>3
<1>8. ASSUME NEW r \in CrewRequests, CommitCrewOrder(r)
      PROVE  crewLedger'[o].ecocash + Cardinality(G) <= crewCollected'[o]
  <2> DEFINE q == crewReq[r]
  <2>1. /\ \A s \in CrewRequests \ {r} : crewReq'[s] = crewReq[s]
        /\ crewReq'[r] = CrewIdle
        /\ crewCollected' = crewCollected
        /\ q.step = "flushed" /\ ~CrewAt(r, "idle")
        /\ crewLedger' = [crewLedger EXCEPT ![q.order] = Entry(q)]
    BY <1>8 DEF CommitCrewOrder, CrewTypeOK, CrewAt
  <2>2. r \notin G
    BY <2>1 DEF CrewCollectedInFlight, CrewIdle
  <2>3. q \in CrewRequest /\ (q.op = "Quote" => q.deposited <= q.amount)
    <3>1. q \in CrewRequest
      BY <2>1, CrewInFlightIsRequest
    <3> QED
      BY <2>1, <3>1, CrewRequestFields DEF CrewEntitiesBacked, CrewCopyBacked
  <2>4. CASE q.order = o /\ q.op = "Book" /\ q.currency = "ECOCASH"
    <3>1. r \in F
      BY <2>1, <2>4 DEF CrewCollectedInFlight
    <3>2. Cardinality(F \ {r}) = Cardinality(F) - 1 /\ IsFiniteSet(F \ {r})
      BY <1>1, <3>1, FS_RemoveElement
    <3>3. Cardinality(G) <= Cardinality(F) - 1 /\ Cardinality(G) \in Nat
      BY <1>2, <2>1, <2>2, <3>2, FS_Subset, FS_CardinalityType
    <3>4. crewLedger'[o].ecocash = crewLedger[o].ecocash + 1
      BY <2>1, <2>3, <2>4, CrewEntryGrows DEF CrewTypeOK
    <3> HIDE DEF F, G
    <3> QED
      BY <1>1, <2>1, <3>3, <3>4
  <2>5. CASE ~(q.order = o /\ q.op = "Book" /\ q.currency = "ECOCASH")
    <3>1. crewLedger'[o].ecocash = crewLedger[o].ecocash
      BY <2>1, <2>3, <2>5, CrewEntryGrows, CrewRequestFields DEF CrewTypeOK
    <3> QED
      BY <1>1, <1>2, <1>3, <2>1, <2>2, <3>1
  <2> QED
    BY <2>4, <2>5
<1> QED
  BY <1>4, <1>5, <1>6, <1>7, <1>8, CrewShapes

\* Served apart, a commit writes what its request assigned to the row.
LEMMA CrewCommitApart ==
  ASSUME CrewInv, NEW r \in CrewRequests, crewApart,
         crewReq[r] \in CrewRequest, ~CrewAt(r, "idle")
  PROVE  LET q == crewReq[r]
             row == crewOrder[q.order]
             upd == CrewUpdated(q)
         IN  /\ row \in CrewRow
             /\ row.status = CrewSourceStatus[q.op]
             /\ upd.status = CrewAssigned(q).status
             /\ upd.crew = (IF q.op = "Book" THEN q.crew ELSE row.crew)
             /\ upd.currency = (IF q.op = "Book" THEN q.currency ELSE row.currency)
             /\ upd.quote = (IF q.op = "Quote" THEN q.amount ELSE row.quote)
<1> USE DEF CrewInv
<1> DEFINE q == crewReq[r]
<1>1. q.ent = crewOrder[q.order] /\ q.base = crewOrder[q.order]
  BY DEF CrewServedApart, CrewCopyCurrent
<1>2. crewOrder[q.order] \in CrewRow /\ q.ent.status = CrewSourceStatus[q.op]
  BY CrewRequestFields DEF CrewTypeOK, CrewEntitiesBacked, CrewCopyBacked
<1> QED
  BY <1>1, <1>2, CrewUpdatedColumns, CrewAssignedIsRow

\* The amounts clients send are positive.
LEMMA CrewAmountsPositive ==
  ASSUME CrewInv, NEW r \in CrewRequests, crewReq[r].op \in {"Book", "Quote"}, ~CrewAt(r, "idle")
  PROVE  crewReq[r].amount > 0
BY CrewAssumption DEF CrewInv, CrewEntitiesBacked, CrewCopyBacked

\* Served apart, the entry a commit adds is computed from the account and the
\* row it finds.
LEMMA CrewEntryApart ==
  ASSUME CrewInv, NEW r \in CrewRequests, crewApart,
         crewReq[r] \in CrewRequest, CrewAt(r, "flushed")
  PROVE  LET q == crewReq[r]
             a == crewLedger[q.order]
             b == Entry(q)
         IN  /\ b.held = (IF q.op = "Book" THEN a.held + q.amount ELSE a.held)
             /\ b.committed =
                  (IF q.op = "Quote" THEN a.committed + (q.amount - a.held) ELSE a.committed)
             /\ b.released =
                  (IF q.op = "Complete" THEN a.released + crewOrder[q.order].quote ELSE a.released)
             /\ q.op = "Quote" => q.amount > a.held
<1> USE DEF CrewInv
<1> DEFINE q == crewReq[r]
<1>1. ~CrewAt(r, "idle")
  BY DEF CrewAt
<1>2. /\ q.ent = crewOrder[q.order]
      /\ q.op = "Quote" => q.deposited = crewLedger[q.order].held /\ q.deposited < q.amount
  BY <1>1 DEF CrewServedApart, CrewCopyCurrent, CrewAt, CrewEntitiesBacked, CrewCopyBacked
<1>3. q.op = "Quote" => q.deposited <= q.amount
  BY <1>2, CrewRequestFields
<1> QED
  BY <1>2, <1>3, CrewEntryGrows

LEMMA CrewStatusBackedStep ==
  ASSUME CrewInv, CrewNext
  PROVE  CrewStatusBackedByLedger'
<1> USE DEF CrewInv
<1> DEFINE Stages == {"BOOKED", "IN_PROGRESS", "COMPLETED"}
<1> SUFFICES ASSUME NEW o \in CrewOrderIds
             PROVE  /\ crewOrder'[o].status \in Stages => crewLedger'[o].held > 0
                    /\ crewOrder'[o].quote <= crewLedger'[o].held + crewLedger'[o].committed
                    /\ crewLedger'[o].ecocash <= crewCollected'[o]
                    /\ crewOrder'[o].status = "COMPLETED" => crewLedger'[o].payouts > 0
                    /\ crewApart' /\ crewOrder'[o].status \in Stages =>
                         /\ crewOrder'[o].crew # NoCrew
                         /\ crewOrder'[o].currency # "NONE"
                         /\ crewOrder'[o].status # "BOOKED"
                              => crewOrder'[o].quote > crewLedger'[o].held
  BY DEF CrewStatusBackedByLedger
<1>1. crewLedger'[o].ecocash <= crewCollected'[o]
  <2>1. CrewCollectedInFlight(o)' \in SUBSET CrewCollectedInFlight(o)' /\ crewLedger'[o] \in CrewAccount
        /\ crewCollected'[o] \in Nat
    BY CrewTypeStep DEF CrewTypeOK
  <2>2. Cardinality(CrewCollectedInFlight(o)') \in Nat
    <3>1. IsFiniteSet(CrewRequests)
      BY CrewAssumption, FS_Interval DEF CrewRequests
    <3>2. CrewCollectedInFlight(o)' \in SUBSET CrewRequests
      BY DEF CrewCollectedInFlight
    <3> QED
      BY <3>1, <3>2, FS_Subset, FS_CardinalityType
  <2>3. crewLedger'[o].ecocash + Cardinality(CrewCollectedInFlight(o)') <= crewCollected'[o]
    BY CrewDepositsCollectedStep DEF CrewDepositsCollected
  <2> QED
    BY <2>1, <2>2, <2>3, CrewAccountFields
<1>2. /\ crewOrder[o].status \in Stages => crewLedger[o].held > 0
      /\ crewOrder[o].quote <= crewLedger[o].held + crewLedger[o].committed
      /\ crewOrder[o].status = "COMPLETED" => crewLedger[o].payouts > 0
      /\ crewApart /\ crewOrder[o].status \in Stages =>
           /\ crewOrder[o].crew # NoCrew
           /\ crewOrder[o].currency # "NONE"
           /\ crewOrder[o].status # "BOOKED" => crewOrder[o].quote > crewLedger[o].held
  BY DEF CrewStatusBackedByLedger
<1>3. /\ crewLedger[o] \in CrewAccount /\ crewLedger'[o] \in CrewAccount
      /\ crewLedger'[o].held >= crewLedger[o].held
      /\ crewLedger'[o].committed >= crewLedger[o].committed
      /\ crewLedger'[o].payouts >= crewLedger[o].payouts
      /\ crewOrder[o] \in CrewRow /\ crewOrder'[o] \in CrewRow
  BY CrewAccountsGrow, CrewTypeStep DEF CrewTypeOK
<1>4. crewApart' = crewApart
  BY CrewApartStays
<1>5. CASE crewOrder'[o] = crewOrder[o] /\ crewLedger'[o] = crewLedger[o]
  BY <1>1, <1>2, <1>4, <1>5
<1>6. CASE CreateCrewOrder(o)
  <2>1. /\ crewOrder'[o].status = "REQUESTED" /\ crewOrder'[o].quote = crewOrder[o].quote
        /\ crewLedger'[o] = crewLedger[o]
    BY <1>6, <1>3 DEF CreateCrewOrder, CrewTypeOK, CrewRow
  <2> QED
    BY <1>1, <1>2, <2>1
<1>7. ASSUME NEW r \in CrewRequests, crewReq[r] \in CrewRequest, ~CrewAt(r, "idle"),
             crewReq[r].order = o,
             CrewAt(r, "flushed"),
             crewOrder'[o] = CrewUpdated(crewReq[r]), crewLedger'[o] = Entry(crewReq[r])
      PROVE  /\ crewOrder'[o].status \in Stages => crewLedger'[o].held > 0
             /\ crewOrder'[o].quote <= crewLedger'[o].held + crewLedger'[o].committed
             /\ crewOrder'[o].status = "COMPLETED" => crewLedger'[o].payouts > 0
             /\ crewApart /\ crewOrder'[o].status \in Stages =>
                  /\ crewOrder'[o].crew # NoCrew
                  /\ crewOrder'[o].currency # "NONE"
                  /\ crewOrder'[o].status # "BOOKED"
                       => crewOrder'[o].quote > crewLedger'[o].held
  <2> DEFINE q == crewReq[r]
             a == crewLedger[o]
             b == crewLedger'[o]
             new == crewOrder'[o]
  <2>1. /\ q.ent.status = CrewSourceStatus[q.op]
        /\ q.op \in {"Quote", "Complete"} => a.held > 0
        /\ q.ent.quote <= a.held + a.committed
        /\ q.op = "Book" => q.amount \in CrewDeposits /\ q.crew \in Crews /\ q.currency # "NONE"
        /\ q.op = "Quote" => q.deposited <= a.held /\ q.deposited < q.amount
    BY <1>7 DEF CrewEntitiesBacked, CrewCopyBacked, CrewPaidIn
  <2>2. /\ q.op \in {"Match", "Book", "Quote", "Complete"}
        /\ q.amount \in Nat /\ q.deposited \in Nat /\ q.ent.quote \in Nat
        /\ a.held \in Nat /\ a.committed \in Nat /\ a.payouts \in Nat
        /\ q.op = "Book" => q.amount > 0
    BY <1>3, <1>7, CrewAmountsPositive, CrewRequestFields, CrewRowFields, CrewAccountFields DEF CrewOps
  <2>3. /\ b.held = (IF q.op = "Book" THEN a.held + q.amount ELSE a.held)
        /\ b.committed =
             (IF q.op = "Quote" THEN a.committed + (q.amount - q.deposited) ELSE a.committed)
        /\ b.payouts = (IF q.op = "Complete" THEN a.payouts + 1 ELSE a.payouts)
    BY <1>7, <2>1, <2>2, CrewEntryGrows
  <2>4. /\ new.status \in {crewOrder[o].status, CrewAssigned(q).status}
        /\ new.quote \in {crewOrder[o].quote, CrewAssigned(q).quote}
    BY <1>7, CrewUpdatedColumns
  <2>5. /\ CrewAssigned(q).status =
             CASE q.op = "Match"    -> "MATCHED"
               [] q.op = "Book"     -> "BOOKED"
               [] q.op = "Quote"    -> "IN_PROGRESS"
               [] q.op = "Complete" -> "COMPLETED"
        /\ CrewAssigned(q).quote = (IF q.op = "Quote" THEN q.amount ELSE q.ent.quote)
    BY <1>7, CrewAssignedIsRow
  <2> HIDE DEF q, a, b, new
  <2>6. new.status \in Stages => b.held > 0
    BY <1>2, <1>3, <2>1, <2>2, <2>3, <2>4, <2>5 DEF a, b, new
  <2>7. new.quote <= b.held + b.committed
    <3>1. crewOrder[o].quote \in Nat /\ crewOrder[o].quote <= a.held + a.committed
      BY <1>2, <1>3, CrewRowFields DEF a
    <3>2. a.held + a.committed <= b.held + b.committed
      BY <2>1, <2>2, <2>3
    <3>3. CrewAssigned(q).quote <= b.held + b.committed
      BY <2>1, <2>2, <2>3, <2>5
    <3> QED
      BY <2>2, <2>3, <2>4, <3>1, <3>2, <3>3
  <2>8. new.status = "COMPLETED" => b.payouts > 0
    BY <1>2, <1>3, <2>2, <2>3, <2>4, <2>5, CrewAccountFields DEF a, b, new
  <2>9. ASSUME crewApart, new.status \in Stages
        PROVE  /\ new.crew # NoCrew
               /\ new.currency # "NONE"
               /\ new.status # "BOOKED" => new.quote > b.held
    <3>1. /\ crewOrder[o].status = CrewSourceStatus[q.op]
          /\ new.status = CrewAssigned(q).status
          /\ new.crew = (IF q.op = "Book" THEN q.crew ELSE crewOrder[o].crew)
          /\ new.currency = (IF q.op = "Book" THEN q.currency ELSE crewOrder[o].currency)
          /\ new.quote = (IF q.op = "Quote" THEN q.amount ELSE crewOrder[o].quote)
      BY <1>7, <2>9, CrewCommitApart DEF q, new
    <3>2. q.op = "Quote" => q.deposited = a.held
      BY <1>7, <2>9 DEF CrewServedApart, CrewCopyCurrent, CrewAt, q, a
    <3>3. q.op # "Match"
      BY <2>5, <2>9, <3>1
    <3>4. q.op \in {"Quote", "Complete"} => crewOrder[o].status \in Stages
      BY <3>1 DEF CrewSourceStatus
    <3>5. new.crew # NoCrew /\ new.currency # "NONE"
      BY <1>2, <2>1, <2>2, <2>9, <3>1, <3>3, <3>4, CrewAssumption
    <3>6. CASE q.op = "Book"
      BY <2>5, <3>1, <3>5, <3>6
    <3>7. CASE q.op = "Quote"
      BY <2>1, <2>2, <2>3, <3>1, <3>2, <3>5, <3>7
    <3>8. CASE q.op = "Complete"
      <4>1. crewOrder[o].status = "IN_PROGRESS"
        BY <3>1, <3>8 DEF CrewSourceStatus
      <4> QED
        BY <1>2, <2>3, <2>9, <3>1, <3>5, <3>8, <4>1 DEF a
    <3> QED
      BY <2>2, <3>3, <3>6, <3>7, <3>8
  <2> QED
    BY <2>6, <2>7, <2>8, <2>9 DEF b, new
<1>8. CASE \E r \in CrewRequests :
             /\ CommitCrewOrder(r)
             /\ crewReq[r] \in CrewRequest
             /\ ~CrewAt(r, "idle") /\ CrewAt(r, "flushed")
             /\ crewReq[r].order = o
             /\ crewOrder'[o] = CrewUpdated(crewReq[r])
             /\ crewLedger'[o] = Entry(crewReq[r])
  <2>1. /\ crewOrder'[o].status \in Stages => crewLedger'[o].held > 0
        /\ crewOrder'[o].quote <= crewLedger'[o].held + crewLedger'[o].committed
        /\ crewOrder'[o].status = "COMPLETED" => crewLedger'[o].payouts > 0
        /\ crewApart /\ crewOrder'[o].status \in Stages =>
             /\ crewOrder'[o].crew # NoCrew
             /\ crewOrder'[o].currency # "NONE"
             /\ crewOrder'[o].status # "BOOKED" => crewOrder'[o].quote > crewLedger'[o].held
    BY <1>7, <1>8
  <2> QED
    BY <1>1, <1>4, <2>1
<1> QED
  BY <1>5, <1>6, <1>8, CrewRowCases

\* Served apart, two requests in flight are on different orders, and two
\* bookings are of different crews.
LEMMA CrewPairsApart ==
  ASSUME CrewInv, crewApart,
         NEW r \in CrewRequests, ~CrewAt(r, "idle"),
         NEW s \in CrewRequests \ {r}, ~CrewAt(s, "idle")
  PROVE  /\ crewReq[r].order # crewReq[s].order
         /\ crewReq[r].op = "Book" /\ crewReq[s].op = "Book"
              => crewReq[r].crew # crewReq[s].crew
<1>1. KeepsApart(r, crewReq[r].op, crewReq[r].order, crewReq[r].crew)
  BY DEF CrewInv, CrewServedApart
<1> QED
  BY <1>1 DEF KeepsApart

\* Where a request in flight comes from: it was, or it was admitted apart from
\* the requests in the other slots, which stay where they are.
LEMMA CrewFlightCases ==
  ASSUME CrewInv, CrewNext, crewApart, NEW r \in CrewRequests, ~CrewAt(r, "idle")'
  PROVE  LET q == crewReq[r]
             t == crewReq'[r]
         IN  \/ ~CrewAt(r, "idle") /\ t.op = q.op /\ t.order = q.order /\ t.crew = q.crew
             \/ /\ KeepsApart(r, t.op, t.order, t.crew)
                /\ \A s \in CrewRequests \ {r} : crewReq'[s] = crewReq[s]
<1> USE DEF CrewInv
<1>1. CASE crewReq'[r] = crewReq[r]
  BY <1>1 DEF CrewAt
<1>2. CASE CrewLoads(r)
  <2>1. \A s \in CrewRequests \ {r} : crewReq'[s] = crewReq[s]
    BY <1>2 DEF CrewLoads, CrewTurns, CrewTypeOK
  <2> QED
    BY <1>2, <2>1, CrewLoadedFields
<1>3. CASE CrewGoesOn(r)
  BY <1>3, CrewWentOnFields
<1>4. crewReq'[r] # CrewIdle
  BY DEF CrewAt, CrewIdle
<1> QED
  BY <1>1, <1>2, <1>3, <1>4, CrewSlotCases

LEMMA CrewKeepsApartStep ==
  ASSUME CrewInv, CrewNext, crewApart, NEW r \in CrewRequests, ~CrewAt(r, "idle")'
  PROVE  KeepsApart(r, crewReq[r].op, crewReq[r].order, crewReq[r].crew)'
<1> DEFINE q == crewReq'[r]
<1> SUFFICES ASSUME NEW s \in CrewRequests \ {r}, ~CrewAt(s, "idle")'
             PROVE  /\ crewReq'[s].order # q.order
                    /\ {q.op, crewReq'[s].op} = {"Book"} => crewReq'[s].crew # q.crew
  BY DEF KeepsApart
<1> DEFINE t == crewReq'[s]
<1>1. CASE KeepsApart(r, q.op, q.order, q.crew) /\ t = crewReq[s]
  BY <1>1 DEF KeepsApart, CrewAt
<1>2. CASE KeepsApart(s, t.op, t.order, t.crew) /\ q = crewReq[r]
  <2>1. /\ crewReq[r].order # t.order
        /\ {t.op, crewReq[r].op} = {"Book"} => crewReq[r].crew # t.crew
    BY <1>2 DEF KeepsApart, CrewAt
  <2>2. {t.op, crewReq[r].op} = {crewReq[r].op, t.op}
    OBVIOUS
  <2> QED
    BY <1>2, <2>1, <2>2
<1>3. CASE /\ ~CrewAt(r, "idle")
           /\ q.op = crewReq[r].op /\ q.order = crewReq[r].order /\ q.crew = crewReq[r].crew
           /\ ~CrewAt(s, "idle")
           /\ t.op = crewReq[s].op /\ t.order = crewReq[s].order /\ t.crew = crewReq[s].crew
  <2>1. /\ crewReq[r].order # crewReq[s].order
        /\ crewReq[r].op = "Book" /\ crewReq[s].op = "Book"
             => crewReq[r].crew # crewReq[s].crew
    BY <1>3, CrewPairsApart
  <2> QED
    BY <1>3, <2>1
<1> QED
  BY <1>1, <1>2, <1>3, CrewFlightCases

\* The orders a crew serves change by commits only.
LEMMA CrewServedAfterCreate ==
  ASSUME CrewInv, NEW o \in CrewOrderIds, CreateCrewOrder(o), NEW c
  PROVE  ServedBy(c)' = ServedBy(c)
<1>1. \A p \in CrewOrderIds :
        crewOrder'[p].crew = crewOrder[p].crew
        /\ (crewOrder'[p].status \in CrewBusyStatuses <=> crewOrder[p].status \in CrewBusyStatuses)
  BY DEF CreateCrewOrder, CrewInv, CrewTypeOK, CrewRow, CrewBusyStatuses
<1> QED
  BY <1>1 DEF ServedBy

\* A commit gives a free crew no order but the one it books for that crew.
LEMMA CrewServedAfterCommit ==
  ASSUME CrewInv, crewApart, NEW s \in CrewRequests, CommitCrewOrder(s),
         ~CrewAt(s, "idle"), crewReq[s] \in CrewRequest,
         NEW c, crewReq[s].op = "Book" => crewReq[s].crew # c, ServedBy(c) = {}
  PROVE  ServedBy(c)' = {}
<1> USE DEF CrewInv
<1> DEFINE q == crewReq[s]
           new == crewOrder'[q.order]
<1> SUFFICES ASSUME NEW o \in CrewOrderIds, crewOrder'[o].crew = c,
                    crewOrder'[o].status \in CrewBusyStatuses
             PROVE  FALSE
  BY DEF ServedBy
<1>1. ~(crewOrder[o].crew = c /\ crewOrder[o].status \in CrewBusyStatuses)
  BY DEF ServedBy
<1>2. crewOrder' = [crewOrder EXCEPT ![q.order] = CrewUpdated(q)] /\ q.order \in CrewOrderIds
  BY CrewRequestFields DEF CommitCrewOrder
<1>3. CASE o # q.order
  BY <1>1, <1>2, <1>3 DEF CrewTypeOK
<1>4. CASE o = q.order
  <2>1. /\ crewOrder[o].status = CrewSourceStatus[q.op]
        /\ crewOrder'[o].status = CrewAssigned(q).status
        /\ crewOrder'[o].crew = (IF q.op = "Book" THEN q.crew ELSE crewOrder[o].crew)
    BY <1>2, <1>4, CrewCommitApart DEF CrewTypeOK
  <2>2. q.op = "Quote"
    BY <2>1, CrewAssignedIsRow, CrewRequestFields DEF CrewOps, CrewBusyStatuses
  <2> QED
    BY <1>1, <2>1, <2>2 DEF CrewSourceStatus, CrewBusyStatuses
<1> QED
  BY <1>3, <1>4

LEMMA CrewServedApartStep ==
  ASSUME CrewInv, CrewNext
  PROVE  CrewServedApart'
<1> USE DEF CrewInv
<1>1. crewApart' = crewApart /\ CrewTypeOK'
  BY CrewApartStays, CrewTypeStep
<1>3. ASSUME crewApart, NEW o \in CrewOrderIds
      PROVE  CrewStageBooks(o)'
  <2>1. CrewStageBooks(o)
    BY <1>3 DEF CrewServedApart
  <2>2. CASE crewOrder'[o] = crewOrder[o] /\ crewLedger'[o] = crewLedger[o]
    BY <2>1, <2>2 DEF CrewStageBooks, CrewPaidIn
  <2>3. CASE CreateCrewOrder(o)
    <3>1. /\ crewOrder[o].status = "ABSENT" /\ crewOrder'[o].status = "REQUESTED"
          /\ crewOrder'[o].crew = crewOrder[o].crew
          /\ crewLedger'[o] = crewLedger[o]
      BY <2>3 DEF CreateCrewOrder, CrewTypeOK, CrewRow
    <3> QED
      BY <2>1, <3>1 DEF CrewStageBooks, CrewPaidIn
  <2>4. CASE \E r \in CrewRequests :
               /\ crewReq[r] \in CrewRequest
               /\ ~CrewAt(r, "idle") /\ CrewAt(r, "flushed")
               /\ crewReq[r].order = o
               /\ crewOrder'[o] = CrewUpdated(crewReq[r])
               /\ crewLedger'[o] = Entry(crewReq[r])
    <3>1. PICK r \in CrewRequests :
            /\ crewReq[r] \in CrewRequest
            /\ ~CrewAt(r, "idle") /\ CrewAt(r, "flushed")
            /\ crewReq[r].order = o
            /\ crewOrder'[o] = CrewUpdated(crewReq[r])
            /\ crewLedger'[o] = Entry(crewReq[r])
      BY <2>4
    <3> DEFINE q == crewReq[r]
               row == crewOrder[o]
               new == crewOrder'[o]
               a == crewLedger[o]
               b == crewLedger'[o]
    <3>2. /\ row.status = CrewSourceStatus[q.op]
          /\ new.status = CrewAssigned(q).status
          /\ new.crew = (IF q.op = "Book" THEN q.crew ELSE row.crew)
          /\ new.quote = (IF q.op = "Quote" THEN q.amount ELSE row.quote)
      BY <1>3, <3>1, CrewCommitApart
    <3>3. /\ b.held = (IF q.op = "Book" THEN a.held + q.amount ELSE a.held)
          /\ b.committed =
               (IF q.op = "Quote" THEN a.committed + (q.amount - a.held) ELSE a.committed)
          /\ b.released = (IF q.op = "Complete" THEN a.released + row.quote ELSE a.released)
      BY <1>3, <3>1, CrewEntryApart
    <3>4. /\ a.held \in Nat /\ a.committed \in Nat /\ a.released \in Nat
          /\ q.amount \in Nat
          /\ q.op \in {"Match", "Book", "Quote", "Complete"}
      BY <3>1, CrewRequestFields, CrewAccountFields DEF CrewTypeOK, CrewOps
    <3>5. /\ CrewSourceStatus[q.op] =
               CASE q.op = "Match"    -> "REQUESTED"
                 [] q.op = "Book"     -> "MATCHED"
                 [] q.op = "Quote"    -> "BOOKED"
                 [] q.op = "Complete" -> "IN_PROGRESS"
          /\ CrewAssigned(q).status =
               CASE q.op = "Match"    -> "MATCHED"
                 [] q.op = "Book"     -> "BOOKED"
                 [] q.op = "Quote"    -> "IN_PROGRESS"
                 [] q.op = "Complete" -> "COMPLETED"
      BY <3>1, <3>4, CrewAssignedIsRow DEF CrewSourceStatus
    <3>6. /\ row.status \in {"ABSENT", "REQUESTED", "MATCHED"} => row.crew = NoCrew /\ a.held = 0
          /\ IF row.status \in {"IN_PROGRESS", "COMPLETED"}
               THEN row.quote = a.held + a.committed
               ELSE a.committed = 0
          /\ row.status # "COMPLETED" => a.released = 0
      BY <2>1 DEF CrewStageBooks, CrewPaidIn
    <3> HIDE DEF q, row, new, a, b
    <3>7. /\ new.status \in {"ABSENT", "REQUESTED", "MATCHED"} => new.crew = NoCrew /\ b.held = 0
          /\ IF new.status \in {"IN_PROGRESS", "COMPLETED"}
               THEN new.quote = b.held + b.committed
               ELSE b.committed = 0
          /\ new.status # "COMPLETED" => b.released = 0
      BY <3>2, <3>3, <3>4, <3>5, <3>6
    <3> QED
      BY <3>7 DEF CrewStageBooks, CrewPaidIn, new, b
  <2> QED
    BY <2>2, <2>3, <2>4, CrewRowCases
<1>4. ASSUME crewApart, NEW r \in CrewRequests, ~CrewAt(r, "idle")'
      PROVE  CrewCopyCurrent(crewReq[r])'
  <2> DEFINE q == crewReq[r]
             t == crewReq'[r]
  <2>1. CASE t = q
    <3>1. ~CrewAt(r, "idle") /\ q \in CrewRequest
      BY <2>1, <1>4, CrewInFlightIsRequest DEF CrewAt
    <3>2. /\ q.ent = crewOrder[q.order] /\ q.base = crewOrder[q.order]
          /\ q.op = "Quote" /\ q.step # "loaded" => q.deposited = crewLedger[q.order].held
          /\ q.op = "Book" /\ q.step # "loaded" => ServedBy(q.crew) = {}
      BY <1>4, <3>1 DEF CrewServedApart, CrewCopyCurrent
    <3>3. CASE crewOrder' = crewOrder /\ crewLedger' = crewLedger
      <4>1. ServedBy(q.crew)' = ServedBy(q.crew)
        BY <2>1, <3>3 DEF ServedBy
      <4> QED
        BY <2>1, <3>2, <3>3, <4>1 DEF CrewCopyCurrent
    <3>4. ASSUME NEW o \in CrewOrderIds, CreateCrewOrder(o)
          PROVE  /\ crewOrder'[q.order] = crewOrder[q.order]
                 /\ crewLedger' = crewLedger
                 /\ ServedBy(q.crew)' = ServedBy(q.crew)
      <4>1. crewOrder[q.order].status = CrewSourceStatus[q.op] /\ q.op \in CrewOps
            /\ q.order \in CrewOrderIds
        BY <3>1, <3>2, CrewRequestFields DEF CrewEntitiesBacked, CrewCopyBacked
      <4>2. o # q.order
        BY <3>4, <4>1 DEF CreateCrewOrder, CrewSourceStatus, CrewOps
      <4> QED
        BY <3>4, <4>1, <4>2, CrewServedAfterCreate DEF CreateCrewOrder, CrewTypeOK
    <3>5. ASSUME NEW s \in CrewRequests, CommitCrewOrder(s)
          PROVE  /\ crewOrder'[q.order] = crewOrder[q.order]
                 /\ crewLedger'[q.order] = crewLedger[q.order]
                 /\ q.op = "Book" /\ ServedBy(q.crew) = {} => ServedBy(q.crew)' = {}
      <4>1. ~CrewAt(s, "idle") /\ crewReq[s] \in CrewRequest
        BY <3>5, CrewInFlightIsRequest DEF CommitCrewOrder, CrewAt
      <4>2. s # r
        <5>1. crewReq'[s] = CrewIdle
          BY <3>5 DEF CommitCrewOrder, CrewTypeOK
        <5> QED
          BY <1>4, <5>1 DEF CrewAt, CrewIdle
      <4>3. /\ crewReq[s].order # q.order
            /\ crewReq[s].op = "Book" /\ q.op = "Book" => crewReq[s].crew # q.crew
        BY <1>4, <3>1, <4>1, <4>2, CrewPairsApart
      <4>4. /\ crewOrder'[q.order] = crewOrder[q.order]
            /\ crewLedger'[q.order] = crewLedger[q.order]
        BY <3>5, <4>3 DEF CommitCrewOrder, CrewTypeOK
      <4>5. PICK c : c = q.crew /\ c = t.crew
        BY <2>1
      <4>6. q.op = "Book" /\ ServedBy(c) = {} => ServedBy(c)' = {}
        BY <1>4, <3>5, <4>1, <4>3, <4>5, CrewServedAfterCommit
      <4> QED
        BY <2>1, <4>4, <4>5, <4>6 DEF ServedBy
    <3>6. CASE \E o \in CrewOrderIds : CreateCrewOrder(o)
      BY <2>1, <3>2, <3>4, <3>6 DEF CrewCopyCurrent
    <3>7. CASE \E s \in CrewRequests : CommitCrewOrder(s)
      BY <2>1, <3>2, <3>5, <3>7 DEF CrewCopyCurrent
    <3> QED
      BY <3>3, <3>6, <3>7, CrewDbCases
  <2>2. CASE CrewLoads(r)
    <3>1. t.ent = crewOrder[t.order] /\ t.base = crewOrder[t.order] /\ t.step = "loaded"
          /\ crewOrder' = crewOrder
      BY <2>2, CrewLoadedFields DEF crewDb
    <3> QED
      BY <3>1 DEF CrewCopyCurrent
  <2>3. CASE CrewGoesOn(r)
    <3>1. /\ q \in CrewRequest /\ ~CrewAt(r, "idle")
          /\ t.base \in {q.base, crewOrder[q.order]}
          /\ t.deposited = q.deposited \/ t.deposited = crewLedger[q.order].held
          /\ q.op = "Quote" /\ q.step = "loaded" => t.deposited = crewLedger[q.order].held
          /\ q.op = "Book" /\ q.step = "loaded" => ServedBy(q.crew) = {}
          /\ t.op = q.op /\ t.order = q.order /\ t.crew = q.crew /\ t.ent = q.ent
          /\ UNCHANGED <<crewOrder, crewLedger>>
      BY <2>3, CrewWentOnFields DEF crewDb, CrewAt
    <3>2. /\ q.ent = crewOrder[q.order] /\ q.base = crewOrder[q.order]
          /\ q.op = "Quote" /\ q.step # "loaded" => q.deposited = crewLedger[q.order].held
          /\ q.op = "Book" /\ q.step # "loaded" => ServedBy(q.crew) = {}
      BY <1>4, <3>1 DEF CrewServedApart, CrewCopyCurrent
    <3>3. ServedBy(q.crew)' = ServedBy(q.crew)
      BY <3>1 DEF ServedBy
    <3> QED
      BY <3>1, <3>2, <3>3 DEF CrewCopyCurrent
  <2>4. t # CrewIdle
    BY <1>4 DEF CrewAt, CrewIdle
  <2> QED
    BY <2>1, <2>2, <2>3, <2>4, CrewSlotCases
<1> QED
  BY <1>1, <1>3, <1>4, CrewKeepsApartStep DEF CrewServedApart

LEMMA CrewServesOneStep ==
  ASSUME CrewInv, CrewNext
  PROVE  CrewServesOneOrder'
<1> USE DEF CrewInv
<1> DEFINE Works(p) == crewOrder[p].status \in {"BOOKED", "IN_PROGRESS"}
           WorksNow(p) == crewOrder'[p].status \in {"BOOKED", "IN_PROGRESS"}
<1>1. crewApart' = crewApart
  BY CrewApartStays
<1> SUFFICES ASSUME crewApart, NEW o \in CrewOrderIds, NEW p \in CrewOrderIds,
                    WorksNow(o), WorksNow(p), crewOrder'[o].crew = crewOrder'[p].crew,
                    o # p
             PROVE  FALSE
  BY <1>1 DEF CrewServesOneOrder
<1>2. ~(Works(o) /\ Works(p) /\ crewOrder[o].crew = crewOrder[p].crew)
  BY DEF CrewServesOneOrder
<1>3. ASSUME NEW x \in CrewOrderIds, NEW y \in CrewOrderIds, x # y,
             WorksNow(x), WorksNow(y), crewOrder'[x].crew = crewOrder'[y].crew,
             ~(Works(x) /\ Works(y) /\ crewOrder[x].crew = crewOrder[y].crew),
             crewOrder'[y] = crewOrder[y], crewOrder'[x] # crewOrder[x]
      PROVE  FALSE
  <2>1. ~CreateCrewOrder(x)
    BY <1>3 DEF CreateCrewOrder, CrewTypeOK, CrewRow
  <2>2. PICK r \in CrewRequests :
          /\ crewReq[r] \in CrewRequest
          /\ ~CrewAt(r, "idle") /\ CrewAt(r, "flushed")
          /\ crewReq[r].order = x
          /\ crewOrder'[x] = CrewUpdated(crewReq[r])
    BY <1>3, <2>1, CrewRowCases
  <2> DEFINE q == crewReq[r]
  <2>3. /\ crewOrder[x].status = CrewSourceStatus[q.op]
        /\ crewOrder'[x].status = CrewAssigned(q).status
        /\ crewOrder'[x].crew = (IF q.op = "Book" THEN q.crew ELSE crewOrder[x].crew)
    BY <2>2, CrewCommitApart
  <2>4. CASE q.op = "Book"
    <3>1. ServedBy(q.crew) = {}
      BY <2>2, <2>4 DEF CrewServedApart, CrewCopyCurrent, CrewAt
    <3>2. y \in ServedBy(q.crew)
      BY <1>3, <2>3, <2>4 DEF ServedBy, CrewBusyStatuses
    <3> QED
      BY <3>1, <3>2
  <2>5. CASE q.op # "Book"
    <3>1. q.op = "Quote"
      BY <1>3, <2>2, <2>3, <2>5, CrewAssignedIsRow, CrewRequestFields DEF CrewOps
    <3> QED
      BY <1>3, <2>3, <2>5, <3>1 DEF CrewSourceStatus
  <2> QED
    BY <2>4, <2>5
<1>4. ASSUME NEW x \in CrewOrderIds, NEW y \in CrewOrderIds, x # y,
             crewOrder'[x] # crewOrder[x]
      PROVE  crewOrder'[y] = crewOrder[y]
  <2>1. CASE \E z \in CrewOrderIds : CreateCrewOrder(z)
    BY <1>4, <2>1 DEF CreateCrewOrder, CrewTypeOK
  <2>2. CASE \E r \in CrewRequests : CommitCrewOrder(r)
    <3>1. PICK r \in CrewRequests : CommitCrewOrder(r)
      BY <2>2
    <3>2. crewOrder' = [crewOrder EXCEPT ![crewReq[r].order] = CrewUpdated(crewReq[r])]
      BY <3>1 DEF CommitCrewOrder
    <3> QED
      BY <1>4, <3>2 DEF CrewTypeOK
  <2> QED
    BY <1>4, <2>1, <2>2, CrewDbCases
<1> QED
  BY <1>2, <1>3, <1>4

----------------------------------------------------------------------------
(* The theorems *)

LEMMA InitCrewInv == CrewInit => CrewInv
<1> SUFFICES ASSUME CrewInit PROVE CrewInv
  OBVIOUS
<1>1. CrewTypeOK
  <2>1. NoCrewRow \in CrewRow
    BY DEF NoCrewRow, CrewRow, CrewStatuses, CrewCurrencies
  <2>2. [held |-> 0, committed |-> 0, released |-> 0, payouts |-> 0, ecocash |-> 0] \in CrewAccount
    BY DEF CrewAccount
  <2> QED
    BY <2>1, <2>2, CrewAssumption DEF CrewInit, CrewTypeOK
<1>2. \A r \in CrewRequests : crewReq[r].step = "idle"
  BY DEF CrewInit, CrewIdle
<1>3. \A o \in CrewOrderIds :
        /\ crewOrder[o].status = "ABSENT" /\ crewOrder[o].quote = 0 /\ crewOrder[o].crew = NoCrew
        /\ crewLedger[o].held = 0 /\ crewLedger[o].committed = 0
        /\ crewLedger[o].released = 0 /\ crewLedger[o].ecocash = 0 /\ crewCollected[o] = 0
  BY DEF CrewInit, NoCrewRow
<1>4. CrewEntitiesBacked /\ CrewServedApart
  <2>1. \A o \in CrewOrderIds : CrewStageBooks(o)
    BY <1>3 DEF CrewStageBooks
  <2> QED
    BY <1>2, <2>1 DEF CrewEntitiesBacked, CrewServedApart, CrewAt
<1>5. CrewDepositsCollected
  <2>1. \A o \in CrewOrderIds : CrewCollectedInFlight(o) = {}
    BY <1>2 DEF CrewCollectedInFlight
  <2>2. Cardinality({}) = 0
    BY FS_EmptySet
  <2>3. \A o \in CrewOrderIds : Cardinality(CrewCollectedInFlight(o)) = 0
    BY <2>1, <2>2
  <2>4. \A o \in CrewOrderIds : crewLedger[o].ecocash = 0 /\ crewCollected[o] = 0
    BY <1>3
  <2> QED
    BY <2>3, <2>4 DEF CrewDepositsCollected
<1>6. CrewStatusBackedByLedger /\ CrewServesOneOrder
  BY <1>3 DEF CrewStatusBackedByLedger, CrewServesOneOrder
<1> QED
  BY <1>1, <1>4, <1>5, <1>6 DEF CrewInv

LEMMA NextCrewInv == CrewInv /\ [CrewNext]_crewVars => CrewInv'
<1>1. ASSUME CrewInv, CrewNext PROVE CrewInv'
  BY <1>1, CrewTypeStep, CrewEntitiesBackedStep, CrewDepositsCollectedStep,
     CrewServedApartStep, CrewStatusBackedStep, CrewServesOneStep DEF CrewInv
<1>2. ASSUME CrewInv, UNCHANGED crewVars PROVE CrewInv'
  <2>1. UNCHANGED <<crewOrder, crewLedger, crewCollected, crewReq, crewStarted, crewApart>>
    BY <1>2 DEF crewVars, crewDb
  <2> QED
    BY <1>2, <2>1
       DEF CrewInv, CrewTypeOK, CrewEntitiesBacked, CrewCopyBacked, CrewPaidIn, CrewAt,
           CrewDepositsCollected, CrewCollectedInFlight, CrewServedApart, CrewCopyCurrent,
           KeepsApart, CrewStageBooks, ServedBy, CrewStatusBackedByLedger, CrewServesOneOrder
<1> QED
  BY <1>1, <1>2

\* For any number of orders, crews, requests and amounts, every state of the
\* crew orders satisfies the inductive invariant.
THEOREM CrewInvariance == CrewSpec => []CrewInv
BY InitCrewInv, NextCrewInv, PTL DEF CrewSpec

\* Orders, accounts and requests keep their types.
THEOREM CrewTypeCorrect == CrewSpec => []CrewTypeOK
<1>1. CrewInv => CrewTypeOK
  BY DEF CrewInv
<1> QED
  BY <1>1, CrewInvariance, PTL

\* However stale the copies that are written back, the status of an order is
\* backed by its ledger, and every EcoCash deposit was collected.
THEOREM CrewStatusIsBacked == CrewSpec => []CrewStatusBackedByLedger
<1>1. CrewInv => CrewStatusBackedByLedger
  BY DEF CrewInv
<1> QED
  BY <1>1, CrewInvariance, PTL

\* Served apart, no crew is booked twice.
THEOREM CrewIsNotDoubleBooked == CrewSpec => []CrewServesOneOrder
<1>1. CrewInv => CrewServesOneOrder
  BY DEF CrewInv
<1> QED
  BY <1>1, CrewInvariance, PTL

\* What a step does to one account.
LEMMA CrewReleaseCases ==
  ASSUME CrewInv, CrewNext, NEW o \in CrewOrderIds
  PROVE  \/ crewLedger'[o] = crewLedger[o]
         \/ \E r \in CrewRequests :
              /\ crewReq[r] \in CrewRequest /\ ~CrewAt(r, "idle")
              /\ crewReq[r].order = o
              /\ crewOrder'[o] = CrewUpdated(crewReq[r])
              /\ crewLedger'[o] = Entry(crewReq[r])
              /\ CommitCrewOrder(r)
BY CrewRowCases DEF CreateCrewOrder

LEMMA CrewPayoutStep ==
  ASSUME CrewInv, CrewNext, NEW o \in CrewOrderIds
  PROVE  crewLedger'[o].released - crewLedger[o].released
           <= crewLedger[o].held + crewLedger[o].committed
<1> USE DEF CrewInv
<1> DEFINE a == crewLedger[o]
<1>1. a.held \in Nat /\ a.committed \in Nat /\ a.released \in Nat
  BY CrewAccountFields DEF CrewTypeOK
<1>2. CASE crewLedger'[o] = a
  BY <1>1, <1>2
<1>3. ASSUME NEW r \in CrewRequests,
             crewReq[r] \in CrewRequest, ~CrewAt(r, "idle"),
             crewReq[r].order = o, crewLedger'[o] = Entry(crewReq[r])
      PROVE  crewLedger'[o].released - a.released <= a.held + a.committed
  <2> DEFINE q == crewReq[r]
  <2>1. /\ q.op = "Quote" => q.deposited <= q.amount
        /\ q.ent.quote <= a.held + a.committed
        /\ q.ent.quote \in Nat
    BY <1>3, CrewRequestFields, CrewRowFields
       DEF CrewEntitiesBacked, CrewCopyBacked, CrewPaidIn
  <2>2. crewLedger'[o].released = (IF q.op = "Complete" THEN a.released + q.ent.quote ELSE a.released)
    BY <1>3, <2>1, CrewEntryGrows
  <2> QED
    BY <1>1, <2>1, <2>2
<1> QED
  BY <1>2, <1>3, CrewReleaseCases

\* No single payout exceeds what was paid in by then, whichever quotes and
\* sign-offs overlap.
THEOREM CrewPayoutIsCovered == CrewSpec => EachPayoutCovered
<1>1. CrewInv /\ [CrewNext]_crewVars =>
        [\A o \in CrewOrderIds :
           crewLedger'[o].released - crewLedger[o].released
             <= crewLedger[o].held + crewLedger[o].committed]_crewVars
  BY CrewPayoutStep
<1> QED
  BY <1>1, CrewInvariance, PTL DEF CrewSpec, EachPayoutCovered

----------------------------------------------------------------------------
(* Served apart, a crew order keeps the contract of a job *)

LEMMA CrewContractInit == CrewInit => CrewContract!Init
BY DEF CrewInit, NoCrewRow, CrewContract!Init, CrewStatusOf, CrewOf, CrewHeld, CrewCommitted,
       CrewReleased

\* The variables of the contract after a step that touches one order.
LEMMA CrewContractAfter ==
  ASSUME NEW o \in CrewOrderIds,
         \A p \in CrewOrderIds \ {o} :
           crewOrder'[p] = crewOrder[p] /\ crewLedger'[p] = crewLedger[p]
  PROVE  /\ CrewStatusOf' = [CrewStatusOf EXCEPT ![o] = crewOrder'[o].status]
         /\ CrewOf' = [CrewOf EXCEPT ![o] = crewOrder'[o].crew]
         /\ CrewHeld' = [CrewHeld EXCEPT ![o] = crewLedger'[o].held]
         /\ CrewCommitted' = [CrewCommitted EXCEPT ![o] = crewLedger'[o].committed]
         /\ CrewReleased' = [CrewReleased EXCEPT ![o] = crewLedger'[o].released]
<1>1. CrewStatusOf' = [CrewStatusOf EXCEPT ![o] = crewOrder'[o].status]
  BY DEF CrewStatusOf
<1>2. CrewOf' = [CrewOf EXCEPT ![o] = crewOrder'[o].crew]
  BY DEF CrewOf
<1>3. CrewHeld' = [CrewHeld EXCEPT ![o] = crewLedger'[o].held]
  BY DEF CrewHeld
<1>4. CrewCommitted' = [CrewCommitted EXCEPT ![o] = crewLedger'[o].committed]
  BY DEF CrewCommitted
<1>5. CrewReleased' = [CrewReleased EXCEPT ![o] = crewLedger'[o].released]
  BY DEF CrewReleased
<1> QED
  BY <1>1, <1>2, <1>3, <1>4, <1>5

LEMMA CrewContractCommit ==
  ASSUME CrewInv, crewApart, NEW r \in CrewRequests, CommitCrewOrder(r)
  PROVE  CrewContract!Next
<1> USE DEF CrewInv
<1> DEFINE q == crewReq[r]
           o == q.order
           row == crewOrder[o]
           new == CrewUpdated(q)
           a == crewLedger[o]
           b == Entry(q)
<1>1. ~CrewAt(r, "idle") /\ CrewAt(r, "flushed") /\ q \in CrewRequest
  BY CrewInFlightIsRequest DEF CommitCrewOrder, CrewAt
<1>2. /\ o \in CrewOrderIds /\ q.amount \in Nat
      /\ q.op \in {"Match", "Book", "Quote", "Complete"}
      /\ row \in CrewRow /\ a \in CrewAccount /\ new \in CrewRow
  BY <1>1, CrewRequestFields, CrewUpdatedColumns DEF CrewTypeOK, CrewOps
<1>3. /\ row.status = CrewSourceStatus[q.op]
      /\ new.status = CrewAssigned(q).status
      /\ new.crew = (IF q.op = "Book" THEN q.crew ELSE row.crew)
      /\ new.quote = (IF q.op = "Quote" THEN q.amount ELSE row.quote)
  BY <1>1, CrewCommitApart
<1>4. /\ b.held = (IF q.op = "Book" THEN a.held + q.amount ELSE a.held)
      /\ b.committed =
           (IF q.op = "Quote" THEN a.committed + (q.amount - a.held) ELSE a.committed)
      /\ b.released = (IF q.op = "Complete" THEN a.released + row.quote ELSE a.released)
      /\ q.op = "Quote" => q.amount > a.held
  BY <1>1, CrewEntryApart
<1>5. b \in CrewAccount
  <2>1. q.op = "Quote" => q.deposited <= q.amount
    BY <1>1, CrewRequestFields DEF CrewEntitiesBacked, CrewCopyBacked
  <2> QED
    BY <1>1, <2>1, CrewEntryGrows
<1>6. /\ a.held \in Nat /\ a.committed \in Nat /\ a.released \in Nat
      /\ row.status \in {"REQUESTED", "MATCHED"} => row.crew = NoCrew /\ a.held = 0
      /\ IF row.status \in {"IN_PROGRESS", "COMPLETED"}
           THEN row.quote = a.held + a.committed
           ELSE a.committed = 0
      /\ row.status # "COMPLETED" => a.released = 0
  BY <1>2, CrewAccountFields DEF CrewServedApart, CrewStageBooks, CrewPaidIn
<1>7. /\ CrewSourceStatus[q.op] =
           CASE q.op = "Match"    -> "REQUESTED"
             [] q.op = "Book"     -> "MATCHED"
             [] q.op = "Quote"    -> "BOOKED"
             [] q.op = "Complete" -> "IN_PROGRESS"
      /\ CrewAssigned(q).status =
           CASE q.op = "Match"    -> "MATCHED"
             [] q.op = "Book"     -> "BOOKED"
             [] q.op = "Quote"    -> "IN_PROGRESS"
             [] q.op = "Complete" -> "COMPLETED"
  BY <1>1, <1>2, CrewAssignedIsRow DEF CrewSourceStatus
<1>8. /\ CrewStatusOf' = [CrewStatusOf EXCEPT ![o] = new.status]
      /\ CrewOf' = [CrewOf EXCEPT ![o] = new.crew]
      /\ CrewHeld' = [CrewHeld EXCEPT ![o] = b.held]
      /\ CrewCommitted' = [CrewCommitted EXCEPT ![o] = b.committed]
      /\ CrewReleased' = [CrewReleased EXCEPT ![o] = b.released]
  <2>1. /\ crewOrder'[o] = new /\ crewLedger'[o] = b
        /\ \A p \in CrewOrderIds \ {o} :
             crewOrder'[p] = crewOrder[p] /\ crewLedger'[p] = crewLedger[p]
    BY <1>2 DEF CommitCrewOrder, CrewTypeOK
  <2> HIDE DEF q, o, row, new, a, b
  <2> QED
    BY <1>2, <2>1, CrewContractAfter
<1>9. /\ CrewStatusOf[o] = row.status /\ CrewOf[o] = row.crew /\ CrewHeld[o] = a.held
      /\ CrewCommitted[o] = a.committed /\ CrewReleased[o] = a.released
      /\ [CrewOf EXCEPT ![o] = row.crew] = CrewOf
      /\ [CrewHeld EXCEPT ![o] = a.held] = CrewHeld
      /\ [CrewCommitted EXCEPT ![o] = a.committed] = CrewCommitted
      /\ [CrewReleased EXCEPT ![o] = a.released] = CrewReleased
  BY <1>2 DEF CrewStatusOf, CrewOf, CrewHeld, CrewCommitted, CrewReleased
<1>10. CASE q.op = "Match"
  <2>0. PICK i \in CrewOrderIds : i = o
    BY <1>2
  <2>1. CrewContract!Match(i)
    <3> HIDE DEF q, row, new, a, b, o
    <3>1. /\ CrewStatusOf[i] = "REQUESTED" /\ CrewStatusOf' = [CrewStatusOf EXCEPT ![i] = "MATCHED"]
          /\ UNCHANGED <<CrewOf, CrewHeld, CrewCommitted, CrewReleased>>
      BY <2>0, <1>3, <1>4, <1>7, <1>8, <1>9, <1>10
    <3> QED
      BY <3>1 DEF CrewContract!Match, CrewContract!Move
  <2> QED
    BY <2>1 DEF CrewContract!Next
<1>11. CASE q.op = "Book"
  <2>1. /\ q.crew \in Crews /\ q.amount \in CrewDeposits
        /\ ServedBy(q.crew) = {}
    BY <1>1, <1>11 DEF CrewServedApart, CrewCopyCurrent, CrewAt, CrewEntitiesBacked,
                       CrewCopyBacked
  <2>0. PICK i \in CrewOrderIds, w \in Crews, d \in CrewDeposits :
          i = o /\ w = q.crew /\ d = q.amount
    BY <1>2, <2>1
  <2>2. CrewContract!Free(w)
    <3>1. \A p \in CrewOrderIds : crewOrder[p].status # "DISPUTED"
      BY DEF CrewTypeOK, CrewRow, CrewStatuses
    <3>2. \A p \in CrewOrderIds :
            crewOrder[p].crew = w => crewOrder[p].status \notin {"BOOKED", "IN_PROGRESS"}
      BY <2>0, <2>1 DEF ServedBy, CrewBusyStatuses
    <3>3. \A p \in CrewOrderIds :
            CrewOf[p] = w => CrewStatusOf[p] \notin {"BOOKED", "IN_PROGRESS", "DISPUTED"}
      BY <3>1, <3>2 DEF CrewOf, CrewStatusOf
    <3> QED
      BY <3>3 DEF CrewContract!Free, CrewContract!Active
  <2>3. CrewContract!Engage(i, w, d)
    <3> HIDE DEF q, row, new, a, b, o
    <3>1. /\ CrewStatusOf[i] = "MATCHED" /\ CrewStatusOf' = [CrewStatusOf EXCEPT ![i] = "BOOKED"]
          /\ CrewOf' = [CrewOf EXCEPT ![i] = w] /\ CrewHeld' = [CrewHeld EXCEPT ![i] = d]
          /\ UNCHANGED <<CrewCommitted, CrewReleased>>
      <4>1. row.status = "MATCHED" /\ new.status = "BOOKED" /\ a.held = 0
            /\ new.crew = w /\ b.held = d
            /\ b.committed = a.committed /\ b.released = a.released
        BY <2>0, <1>2, <1>3, <1>4, <1>6, <1>7, <1>11
      <4> QED
        BY <2>0, <1>8, <1>9, <4>1
    <3> QED
      BY <3>1 DEF CrewContract!Engage, CrewContract!Move
  <2>4. CrewContract!Book(i, w, d)
    BY <2>2, <2>3 DEF CrewContract!Book
  <2> QED
    BY <2>4 DEF CrewContract!Next
<1>12. CASE q.op = "Quote"
  <2>1. q.amount \in CrewQuotes
    BY <1>1, <1>12 DEF CrewEntitiesBacked, CrewCopyBacked
  <2>0. PICK i \in CrewOrderIds, d \in CrewQuotes : i = o /\ d = q.amount
    BY <1>2, <2>1
  <2>2. CrewContract!Quote(i, d)
    <3> HIDE DEF q, row, new, a, b, o
    <3>1. /\ d > CrewHeld[i]
          /\ CrewStatusOf[i] = "BOOKED" /\ CrewStatusOf' = [CrewStatusOf EXCEPT ![i] = "IN_PROGRESS"]
          /\ CrewCommitted' = [CrewCommitted EXCEPT ![i] = d - CrewHeld[i]]
          /\ UNCHANGED <<CrewOf, CrewHeld, CrewReleased>>
      <4>1. row.status = "BOOKED" /\ new.status = "IN_PROGRESS"
            /\ new.crew = row.crew /\ b.held = a.held /\ b.released = a.released
            /\ d > a.held /\ b.committed = d - a.held
        BY <2>0, <1>2, <1>3, <1>4, <1>6, <1>7, <1>12
      <4> QED
        BY <2>0, <1>8, <1>9, <4>1
    <3> QED
      BY <3>1 DEF CrewContract!Quote, CrewContract!Move
  <2> QED
    BY <2>2 DEF CrewContract!Next
<1>13. CASE q.op = "Complete"
  <2>0. PICK i \in CrewOrderIds : i = o
    BY <1>2
  <2>1. CrewContract!SignOff(i)
    <3> HIDE DEF q, row, new, a, b, o
    <3>1. /\ CrewStatusOf[i] = "IN_PROGRESS" /\ CrewStatusOf' = [CrewStatusOf EXCEPT ![i] = "COMPLETED"]
          /\ CrewReleased' = [CrewReleased EXCEPT ![i] = CrewHeld[i] + CrewCommitted[i]]
          /\ UNCHANGED <<CrewOf, CrewHeld, CrewCommitted>>
      <4>1. row.status = "IN_PROGRESS" /\ new.status = "COMPLETED"
            /\ new.crew = row.crew /\ b.held = a.held /\ b.committed = a.committed
            /\ b.released = a.held + a.committed
        BY <2>0, <1>2, <1>3, <1>4, <1>6, <1>7, <1>13
      <4> QED
        BY <2>0, <1>8, <1>9, <4>1
    <3> QED
      BY <3>1 DEF CrewContract!SignOff, CrewContract!Move
  <2> QED
    BY <2>1 DEF CrewContract!Next
<1> QED
  BY <1>2, <1>10, <1>11, <1>12, <1>13

LEMMA CrewContractStep ==
  ASSUME CrewInv, [CrewNext]_crewVars, crewApart
  PROVE  [CrewContract!Next]_(CrewContract!vars)
<1>1. CASE crewOrder' = crewOrder /\ crewLedger' = crewLedger
  BY <1>1 DEF CrewContract!vars, CrewStatusOf, CrewOf, CrewHeld, CrewCommitted, CrewReleased
<1>2. ASSUME NEW o \in CrewOrderIds, CreateCrewOrder(o)
      PROVE  CrewContract!Next
  <2>1. /\ CrewStatusOf[o] = "ABSENT"
        /\ CrewStatusOf' = [CrewStatusOf EXCEPT ![o] = "REQUESTED"]
        /\ UNCHANGED <<CrewOf, CrewHeld, CrewCommitted, CrewReleased>>
    <3>1. /\ crewOrder[o].status = "ABSENT" /\ crewOrder'[o].status = "REQUESTED"
          /\ crewOrder'[o].crew = crewOrder[o].crew
          /\ \A p \in CrewOrderIds \ {o} : crewOrder'[p] = crewOrder[p]
          /\ crewLedger' = crewLedger
      BY <1>2 DEF CreateCrewOrder, CrewInv, CrewTypeOK, CrewRow
    <3> QED
      BY <3>1 DEF CrewStatusOf, CrewOf, CrewHeld, CrewCommitted, CrewReleased
  <2>2. CrewContract!Post(o)
    BY <2>1 DEF CrewContract!Post, CrewContract!Move
  <2> QED
    BY <2>2 DEF CrewContract!Next
<1>3. CASE UNCHANGED crewVars
  BY <1>1, <1>3 DEF crewVars, crewDb
<1>4. CASE CrewNext
  BY <1>1, <1>2, <1>4, CrewContractCommit, CrewDbCases DEF CrewInv
<1> QED
  BY <1>3, <1>4

\* Served apart, the crew orders take the steps of module JobContract only: no
\* crew has two orders in work, and the sign-off pays once and all.
THEOREM CrewOrdersKeepContract == CrewSpec => CrewContractKept
<1>1. CrewInv /\ [CrewNext]_crewVars
        => [crewApart => CrewContract!Next]_(CrewContract!vars)
  BY CrewContractStep
<1> QED
  BY <1>1, CrewContractInit, CrewInvariance, PTL DEF CrewSpec, CrewContractKept

=============================================================================
