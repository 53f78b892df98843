------------------------------- MODULE Outbox -------------------------------
(* The mobile app's offline queue: work a hired worker does on site is saved *)
(* in the offline_queue table first and sent by SyncService when there is    *)
(* signal (mobile/lib/core/sync), through the interceptors of the shared     *)
(* HTTP client (mobile/lib/core/network/api_client.dart): a circuit breaker  *)
(* and a retry with backoff.                                                 *)
(*                                                                           *)
(* One worker's phone and one job. A pass of SyncService is sequential; it   *)
(* interleaves with the worker's taps, with time, with the network and with  *)
(* the backend, which may handle a request whose sender stopped waiting. The *)
(* rows and photo files survive the death of the app; the pass and the       *)
(* breaker do not. Backoff lengths, error texts and attempt counts are left  *)
(* out: a row is due or it is not.                                           *)
EXTENDS Naturals, FiniteSets

CONSTANTS MaxItems,    \* bound: rows the queue ever holds
          Threshold,   \* failures that open the breaker (5 in the code)
          MaxResends,  \* resends of one request (3 in the code)
          MaxEvents,   \* bound: deaths, database failures, lost photos, requests
                       \* of other screens and "Try again" taps, together
          MaxLate,     \* bound: requests given up on and not yet handled
          NoPrice,     \* jobs.quote_amount NULL: the job is still BOOKED
          OtherPrice   \* a price the worker entered on another device

Items == 1 .. MaxItems

ASSUME OutboxAssumption ==
  /\ MaxItems \in Nat
  /\ Threshold \in Nat \ {0}
  /\ MaxResends \in Nat
  /\ MaxEvents \in Nat
  /\ MaxLate \in Nat
  /\ NoPrice # OtherPrice
  /\ {NoPrice, OtherPrice} \cap Items = {}

VARIABLES
  queue,     \* the offline_queue rows
  photos,    \* the kept photo file of each row, on the phone's storage
  sync,      \* the pass of SyncService and the attempt it is making
  breaker,   \* ClientCircuitBreaker
  price,     \* backend: the price of the job, by the item that brought it
  uploads,   \* backend: items whose photo file is stored
  shared,    \* backend: items whose photo is a message of the job's chat
  late,      \* requests given up on by the phone that may still be handled
  events     \* how many of MaxEvents have happened

backend == <<price, uploads, shared>>
phone   == <<queue, photos>>
vars    == <<queue, photos, sync, breaker, price, uploads, shared, late, events>>

-----------------------------------------------------------------------------
(* Rows, attempts, requests *)

Kinds    == {"QUOTE", "PHOTO"}
Statuses == {"NONE", "PENDING", "COMPLETED", "FAILED"}
Row      == [kind : Kinds, status : Statuses, due : BOOLEAN, url : BOOLEAN]

Calls    == {"quote", "upload", "message"}
Verdicts == {"delivered", "later", "refused"}
Steps    == {"idle", "next", "tidy"} \cup Calls \cup Verdicts

\* "later" is a 401 or 429, or a 404/405 of the upload; "error" a 5xx;
\* "refused" every other 4xx; "conflict" a 409.
Answers  == {"ok", "conflict", "later", "error", "refused"}

\* rest: the due rows read at the start of the pass and not yet tried.
\* url: a media_url is at hand. wire: the request is out. resends: the
\* retry_attempt of the current request.
Attempt  == [step : Steps, rest : SUBSET Items, item : Items \cup {0},
             url : BOOLEAN, wire : BOOLEAN, resends : 0 .. MaxResends]

Idle == [step |-> "idle", rest |-> {}, item |-> 0, url |-> FALSE,
         wire |-> FALSE, resends |-> 0]

Closed == [failures |-> 0, state |-> "closed"]

Requests == [call : Calls, item : Items]
ThisRequest == [call |-> sync.step, item |-> sync.item]

Init ==
  /\ queue = [i \in Items |-> [kind |-> "QUOTE", status |-> "NONE",
                               due |-> FALSE, url |-> FALSE]]
  /\ photos = [i \in Items |-> "none"]
  /\ sync = Idle
  /\ breaker = Closed
  /\ price = NoPrice
  /\ uploads = {}
  /\ shared = {}
  /\ late = {}
  /\ events = 0

-----------------------------------------------------------------------------
(* The worker's screen *)

\* enqueue: rows are numbered in the order they are inserted.
Enqueue(i, kind) ==
  /\ queue[i].status = "NONE"
  /\ \A j \in Items : j < i => queue[j].status # "NONE"
  /\ queue' = [queue EXCEPT ![i] = [kind |-> kind, status |-> "PENDING",
                                    due |-> TRUE, url |-> FALSE]]

\* "I've arrived". The button is off while the phone holds a price to send.
\* The screen's copy of the job may be any age, so it may still say BOOKED.
QueueQuote(i) ==
  /\ ~ \E j \in Items : queue[j].kind = "QUOTE" /\ queue[j].status = "PENDING"
  /\ Enqueue(i, "QUOTE")
  /\ UNCHANGED <<photos, sync, breaker, backend, late, events>>

\* The picture is copied into the app's storage, then the row is inserted.
QueuePhoto(i) ==
  /\ Enqueue(i, "PHOTO")
  /\ photos' = [photos EXCEPT ![i] = "kept"]
  /\ UNCHANGED <<sync, breaker, backend, late, events>>

Event ==
  /\ events < MaxEvents
  /\ events' = events + 1

\* "Try again" stands only beside a refused item.
Retry(i) ==
  /\ queue[i].status = "FAILED"
  /\ Event
  /\ queue' = [queue EXCEPT ![i].status = "PENDING", ![i].due = TRUE]
  /\ UNCHANGED <<photos, sync, breaker, backend, late>>

-----------------------------------------------------------------------------
(* The circuit breaker. "expired" is an open breaker whose cooldown is over; *)
(* the counter is cleared only when a request next asks whether it is open.  *)

Least(m, n) == IF m < n THEN m ELSE n

\* At Threshold the breaker opens; above it, only the cooldown moves on.
RecordFailure ==
  LET f == Least(breaker.failures + 1, Threshold)
  IN  breaker' = [failures |-> f,
                  state |-> IF f >= Threshold THEN "open" ELSE breaker.state]

RecordSuccess == breaker' = Closed

CooldownEnds ==
  /\ breaker.state = "open"
  /\ breaker' = [breaker EXCEPT !.state = "expired"]
  /\ UNCHANGED <<phone, sync, backend, late, events>>

\* Every other screen sends through the same client.
OtherTraffic ==
  /\ Event
  /\ RecordSuccess \/ RecordFailure
  /\ UNCHANGED <<phone, sync, backend, late>>

-----------------------------------------------------------------------------
(* A pass: the rows due at its start, one at a time, in their order *)

Due == {i \in Items : queue[i].status = "PENDING" /\ queue[i].due}

StartPass ==
  /\ sync.step = "idle"
  /\ Due # {}
  /\ sync' = [Idle EXCEPT !.step = "next", !.rest = Due]
  /\ UNCHANGED <<phone, breaker, backend, late, events>>

\* Mutation of FirstCall: the message does not wait for the upload.
FirstCallMessage(row) == IF row.kind = "QUOTE" THEN "quote" ELSE "message"

\* A photo whose upload is done goes on with its message.
FirstCall(row) ==
  CASE row.kind = "QUOTE"              -> "quote"
    [] row.kind = "PHOTO" /\ row.url   -> "message"
    [] row.kind = "PHOTO" /\ ~ row.url -> "upload"

\* Mutation of PickItem: the item stays in the list of the pass.
PickItemAgain ==
  /\ sync.step = "next"
  /\ \E i \in sync.rest :
       /\ \A j \in sync.rest : i <= j
       /\ sync' = [Idle EXCEPT !.step = FirstCall(queue[i]),
                               !.rest = sync.rest,
                               !.item = i,
                               !.url = queue[i].url]
  /\ UNCHANGED <<phone, breaker, backend, late, events>>

PickItem ==
  /\ sync.step = "next"
  /\ \E i \in sync.rest :
       /\ \A j \in sync.rest : i <= j
       /\ sync' = [Idle EXCEPT !.step = FirstCall(queue[i]),
                               !.rest = sync.rest \ {i},
                               !.item = i,
                               !.url = queue[i].url]
  /\ UNCHANGED <<phone, breaker, backend, late, events>>

EndPass ==
  /\ sync.step = "next"
  /\ sync.rest = {}
  /\ sync' = Idle
  /\ UNCHANGED <<phone, breaker, backend, late, events>>

\* The attempt has come to verdict v; only RetryLater carries the address of
\* a finished upload.
Decide(v) == sync' = [sync EXCEPT !.step = v, !.wire = FALSE, !.resends = 0,
                                  !.url = @ /\ v = "later"]

FileGone ==
  /\ sync.step = "upload"
  /\ sync.resends = 0
  /\ photos[sync.item] # "kept"

\* MultipartFile.fromFile throws before anything is sent.
PhotoMissing ==
  /\ ~ sync.wire
  /\ FileGone
  /\ Decide("refused")
  /\ UNCHANGED <<phone, breaker, backend, late, events>>

\* Mutation of Send: isOpen forgets that the cooldown can be over.
SendNeverExpires ==
  /\ sync.step \in Calls
  /\ ~ sync.wire
  /\ ~ FileGone
  /\ breaker.state = "closed"
  /\ sync' = [sync EXCEPT !.wire = TRUE]
  /\ UNCHANGED <<phone, breaker, backend, late, events>>

Send ==
  /\ sync.step \in Calls
  /\ ~ sync.wire
  /\ ~ FileGone
  /\ breaker.state # "open"
  /\ breaker' = IF breaker.state = "expired" THEN Closed ELSE breaker
  /\ sync' = [sync EXCEPT !.wire = TRUE]
  /\ UNCHANGED <<phone, backend, late, events>>

\* The open breaker rejects the request; no status, so it is put off.
TurnAway ==
  /\ sync.step \in Calls
  /\ ~ sync.wire
  /\ ~ FileGone
  /\ breaker.state = "open"
  /\ Decide("later")
  /\ UNCHANGED <<phone, breaker, backend, late, events>>

-----------------------------------------------------------------------------
(* The backend *)

\* r is handled with answer a. A price is taken only while the job is BOOKED;
\* an upload is stored once per Idempotency-Key; a message is committed before
\* it is published, so a failed publish answers 500 for a stored message.
Handle(r, a) ==
  \/ /\ r.call = "quote"
     /\ \/ a = "ok" /\ price = NoPrice /\ price' = r.item
        \/ a = "conflict" /\ price # NoPrice /\ UNCHANGED price
     /\ UNCHANGED <<uploads, shared>>
  \/ /\ r.call = "upload"
     /\ a = "ok"
     /\ uploads' = uploads \cup {r.item}
     /\ UNCHANGED <<price, shared>>
  \/ /\ r.call = "message"
     /\ a \in {"ok", "error"}
     /\ shared' = shared \cup {r.item}
     /\ UNCHANGED <<price, uploads>>
  \/ /\ a \in {"later", "error", "refused"}
     /\ UNCHANGED backend

\* A request the phone gave up on is handled after all.
LateRequest ==
  /\ \E r \in late :
       /\ \E a \in Answers : Handle(r, a)
       /\ late' = late \ {r}
  /\ UNCHANGED <<phone, sync, breaker, events>>

\* The same worker prices the job on another device.
PricedElsewhere ==
  /\ price = NoPrice
  /\ price' = OtherPrice
  /\ UNCHANGED <<phone, sync, breaker, uploads, shared, late, events>>

-----------------------------------------------------------------------------
(* What the phone makes of the outcome of a request *)

Outcomes == Answers \cup {"none"}

\* Mutation of Classify: a 5xx is taken for a delivery.
ClassifyErrors(outcome) ==
  CASE outcome \in {"conflict", "error"} -> "delivered"
    [] outcome = "refused" -> "refused"
    [] OTHER -> "later"

\* classify. A price is answered 409 when the job is no longer BOOKED.
Classify(outcome) ==
  CASE outcome = "conflict" -> "delivered"
    [] outcome = "refused"  -> "refused"
    [] OTHER                -> "later"

Resend == sync' = [sync EXCEPT !.wire = FALSE, !.resends = @ + 1]

\* A success ends the attempt, or leads from the upload to the message. An
\* upload whose answer carries no address is put off.
Succeed ==
  /\ RecordSuccess
  /\ \/ sync.step # "upload" /\ Decide("delivered")
     \/ /\ sync.step = "upload"
        /\ sync' = [sync EXCEPT !.step = "message", !.url = TRUE,
                                !.wire = FALSE, !.resends = 0]
     \/ sync.step = "upload" /\ Decide("later")

\* Timeouts, connection errors and 5xx are sent again at most MaxResends times;
\* a connection that breaks in other ways is not.
Fail(outcome) ==
  /\ RecordFailure
  /\ \/ /\ outcome \in {"error", "none"}
        /\ sync.resends < MaxResends
        /\ Resend
     \/ /\ outcome = "error" => sync.resends = MaxResends
        /\ Decide(Classify(outcome))

\* The backend handles the request and its answer arrives.
Answer(a) ==
  /\ sync.wire
  /\ Handle(ThisRequest, a)
  /\ IF a = "ok" THEN Succeed ELSE Fail(a)
  /\ UNCHANGED <<phone, late, events>>

\* The requests that may still be handled once this one is given up on.
GivenUp ==
  {late} \cup {l \in {late \cup {ThisRequest}} : Cardinality(l) <= MaxLate}

\* The connection breaks, or the server in between answers 503 for a backend
\* that is too slow: the request is lost, or may be handled later.
\* An upload whose form was read by the first try, so that the HTTP library
\* will not send it again, ends the same way: a failure, and nothing arrives.
NoAnswer ==
  /\ sync.wire
  /\ late' \in GivenUp
  /\ \E outcome \in {"error", "none"} : Fail(outcome)
  /\ UNCHANGED <<phone, backend, events>>

-----------------------------------------------------------------------------
(* The verdict is written to the row *)

\* Nothing of the attempt is kept but the rest of the pass.
NextItem(step) ==
  sync' = [Idle EXCEPT !.step = step, !.rest = sync.rest,
                       !.item = IF step = "tidy" THEN sync.item ELSE 0]

MarkSent ==
  /\ sync.step = "delivered"
  /\ queue' = [queue EXCEPT ![sync.item].status = "COMPLETED"]
  /\ NextItem(IF queue[sync.item].kind = "PHOTO" THEN "tidy" ELSE "next")
  /\ UNCHANGED <<photos, breaker, backend, late, events>>

\* The kept file goes once its row says it was sent.
RemoveFile ==
  /\ sync.step = "tidy"
  /\ photos' = [photos EXCEPT ![sync.item] = IF @ = "kept" THEN "removed" ELSE @]
  /\ NextItem("next")
  /\ UNCHANGED <<queue, breaker, backend, late, events>>

\* Mutation of Reschedule: the file goes as soon as its upload is done.
RescheduleTidies ==
  /\ sync.step = "later"
  /\ queue' = [queue EXCEPT ![sync.item].due = FALSE, ![sync.item].url = sync.url]
  /\ photos' = IF sync.url THEN [photos EXCEPT ![sync.item] = "removed"] ELSE photos
  /\ NextItem("next")
  /\ UNCHANGED <<breaker, backend, late, events>>

\* The payload is rewritten with the address of a finished upload.
Reschedule ==
  /\ sync.step = "later"
  /\ queue' = [queue EXCEPT ![sync.item].due = FALSE, ![sync.item].url = sync.url]
  /\ NextItem("next")
  /\ UNCHANGED <<photos, breaker, backend, late, events>>

MarkFailed ==
  /\ sync.step = "refused"
  /\ queue' = [queue EXCEPT ![sync.item].status = "FAILED"]
  /\ NextItem("next")
  /\ UNCHANGED <<photos, breaker, backend, late, events>>

\* next_attempt_at has come.
TimePasses(i) ==
  /\ queue[i].status = "PENDING"
  /\ ~ queue[i].due
  /\ queue' = [queue EXCEPT ![i].due = TRUE]
  /\ UNCHANGED <<photos, sync, breaker, backend, late, events>>

-----------------------------------------------------------------------------
(* What goes wrong on the phone *)

\* The pass and the breaker are lost; a request that was out may still be
\* handled.
AppDies ==
  /\ Event
  /\ sync' = Idle
  /\ breaker' = Closed
  /\ late' \in IF sync.wire THEN GivenUp ELSE {late}
  /\ UNCHANGED <<phone, backend>>

\* Writing the verdict fails: the pass stops where it is.
DatabaseFails ==
  /\ sync.step \in Verdicts
  /\ Event
  /\ sync' = Idle
  /\ UNCHANGED <<phone, breaker, backend, late>>

PhotoLost(i) ==
  /\ photos[i] = "kept"
  /\ Event
  /\ photos' = [photos EXCEPT ![i] = "lost"]
  /\ UNCHANGED <<queue, sync, breaker, backend, late>>

-----------------------------------------------------------------------------
Pass == \/ StartPass \/ PickItem \/ EndPass
        \/ PhotoMissing \/ Send \/ TurnAway
        \/ MarkSent \/ RemoveFile \/ Reschedule \/ MarkFailed

Screen(i) == QueueQuote(i) \/ QueuePhoto(i) \/ Retry(i)

Next ==
  \/ Pass
  \/ \E a \in Answers : Answer(a)
  \/ NoAnswer \/ LateRequest \/ PricedElsewhere
  \/ CooldownEnds \/ OtherTraffic
  \/ AppDies \/ DatabaseFails
  \/ \E i \in Items : Screen(i) \/ TimePasses(i) \/ PhotoLost(i)

Spec == Init /\ [][Next]_vars

\* An answer that settles item i or brings it from the upload to the message.
Settles(i) ==
  /\ sync.item = i
  /\ \E a \in {"ok", "conflict", "refused"} : Answer(a)
  /\ sync'.step \in {"delivered", "refused", "message"}

\* The app is opened again and its timer runs; time passes; no item is kept
\* from a settling answer for ever.
Fairness ==
  /\ WF_vars(Pass)
  /\ WF_vars(CooldownEnds)
  /\ \A i \in Items : WF_vars(TimePasses(i)) /\ SF_vars(Settles(i))

FairSpec == Spec /\ Fairness

-----------------------------------------------------------------------------
(* Properties *)

TypeOK ==
  /\ queue \in [Items -> Row]
  /\ photos \in [Items -> {"none", "kept", "removed", "lost"}]
  /\ sync \in Attempt
  /\ breaker \in [failures : 0 .. Threshold, state : {"closed", "open", "expired"}]
  /\ price \in Items \cup {NoPrice, OtherPrice}
  /\ uploads \in SUBSET Items
  /\ shared \in SUBSET Items
  /\ late \in SUBSET Requests
  /\ events \in 0 .. MaxEvents

\* The backend has what item i is for: a price for the job, or the message.
Applied(i) == IF queue[i].kind = "QUOTE" THEN price # NoPrice ELSE i \in shared

\* The pass never holds an item twice, and works only on items still to send.
PassIsSound ==
  /\ sync.step \in {"idle", "next"} => sync.item = 0
  /\ sync.step = "idle" => sync.rest = {}
  /\ sync.wire => sync.step \in Calls
  /\ sync.step = "quote" => queue[sync.item].kind = "QUOTE"
  /\ sync.step \in {"upload", "message"} => queue[sync.item].kind = "PHOTO"
  /\ sync.step \in Calls \cup Verdicts =>
       sync.item \in Items /\ queue[sync.item].status = "PENDING"
  /\ sync.step = "tidy" =>
       sync.item \in Items /\ queue[sync.item].status = "COMPLETED"
  /\ sync.item \notin sync.rest
  /\ \A i \in sync.rest : queue[i].status = "PENDING"

\* Wherever the phone or the network holds an address, the file is stored.
UploadsBehindAddresses ==
  /\ \A i \in Items : queue[i].url => i \in uploads
  /\ sync.url /\ sync.item \in Items => sync.item \in uploads
  /\ sync.step = "message" => sync.item \in uploads /\ sync.url
  /\ \A r \in late : r.call = "message" => r.item \in uploads

\* A message in the job's chat never names a photo the backend does not have,
\* however uploads, messages, resends and late requests overtake each other.
SharedPhotosExist == shared \subseteq uploads

\* "Sent" is never said of work the backend has no trace of.
DeliveredIsApplied ==
  /\ sync.step = "delivered" => Applied(sync.item)
  /\ \A i \in Items : queue[i].status = "COMPLETED" => Applied(i)

\* The photo file is removed from the phone only after its row says for good
\* that it was sent: whatever dies in between, a photo still to send has its
\* file (job_work_repository.dart:54, "so it survives until it has been sent").
RemovedOnlyWhenSent ==
  \A i \in Items : photos[i] = "removed" => queue[i].status = "COMPLETED"

\* The inductive invariant of the proofs: every reachable state satisfies it.
OutboxInv ==
  /\ TypeOK
  /\ PassIsSound
  /\ UploadsBehindAddresses
  /\ SharedPhotosExist
  /\ DeliveredIsApplied
  /\ RemovedOnlyWhenSent

Stored == {i \in Items : queue[i].status # "NONE" /\ Applied(i)}

Phone == INSTANCE Delivery WITH
  status <- [i \in Items |-> queue[i].status],
  stored <- Stored

\* The queue keeps the phone's promise: saved work stays until the backend has
\* it (a price for the job; this photo's message) or has refused it, across
\* lost answers, resends, deaths of the app and failures of its database.
ImplementsDelivery == Phone!Spec

\* Work saved on the phone is sent or refused in the end, provided the backend
\* does not put it off for ever; the breaker, other items and resends may
\* delay it but not starve it.
EveryItemSettles ==
  \A i \in Items :
    queue[i].status = "PENDING" ~> queue[i].status \in {"COMPLETED", "FAILED"}

\* A price shown as sent is the price the backend has: "409 ... Already applied
\* on the backend" (sync_service.dart:212). Violated: the backend answers 409
\* to any price for a job that is no longer BOOKED.
SentQuoteIsStored ==
  \A i \in Items :
    queue[i].kind = "QUOTE" /\ queue[i].status = "COMPLETED" => price = i

\* "Each item is tried once per pass. A failure never holds up the rest of the
\* queue" (sync_service.dart:14-15): no attempt is put off before its first
\* request went out. Violated: failures of one item open the breaker, which
\* turns the others away.
EachItemIsTried ==
  [][sync.step \in Calls /\ sync.step = FirstCall(queue[sync.item])
       /\ sync.resends = 0 /\ ~ sync.wire
     => sync'.step # "later"]_sync
=============================================================================
