---------------------------- MODULE OutboxProofs ----------------------------
(* Proofs about Outbox, for any number of rows and any bounds: its inductive *)
(* invariant, and that it implements Delivery.                               *)
EXTENDS Outbox, TLAPS

\* What the proofs use of the constants.
LEMMA Bounds ==
  /\ 0 \in 0 .. MaxResends
  /\ 0 \notin Items
  /\ NoPrice # OtherPrice
  /\ NoPrice \notin Items
  /\ Threshold \in Nat
  /\ MaxEvents \in Nat
  /\ MaxResends \in Nat
BY OutboxAssumption DEF Items

\* What the empty pass and the closed breaker look like.
LEMMA IdleFacts ==
  /\ Idle \in Attempt
  /\ Idle.step = "idle" /\ Idle.rest = {} /\ Idle.item = 0
  /\ Idle.url = FALSE /\ Idle.wire = FALSE /\ Idle.resends = 0
  /\ Closed \in [failures : 0 .. Threshold, state : {"closed", "open", "expired"}]
BY Bounds DEF Idle, Attempt, Steps, Closed

-----------------------------------------------------------------------------
(* The shape of one update of the attempt or of a row *)

LEMMA DecideShape ==
  ASSUME sync \in Attempt, NEW v \in Verdicts, Decide(v)
  PROVE  /\ sync' \in Attempt
         /\ sync'.step = v
         /\ sync'.rest = sync.rest
         /\ sync'.item = sync.item
         /\ sync'.url = (sync.url /\ v = "later")
         /\ sync'.wire = FALSE
BY Bounds DEF Decide, Attempt, Steps

LEMMA NextItemShape ==
  ASSUME sync \in Attempt, NEW v \in {"next", "tidy"}, NextItem(v)
  PROVE  /\ sync' \in Attempt
         /\ sync'.step = v
         /\ sync'.rest = sync.rest
         /\ sync'.item = IF v = "tidy" THEN sync.item ELSE 0
         /\ sync'.url = FALSE
         /\ sync'.wire = FALSE
<1>1. v \in Steps
  BY DEF Steps
<1>2. QED
  BY <1>1, IdleFacts DEF NextItem, Attempt

LEMMA ResendShape ==
  ASSUME sync \in Attempt, sync.resends < MaxResends, Resend
  PROVE  /\ sync' \in Attempt
         /\ sync'.step = sync.step
         /\ sync'.rest = sync.rest
         /\ sync'.item = sync.item
         /\ sync'.url = sync.url
         /\ sync'.wire = FALSE
<1>1. sync.resends + 1 \in 0 .. MaxResends
  BY Bounds DEF Attempt
<1>2. QED
  BY <1>1 DEF Resend, Attempt

LEMMA SendShape ==
  ASSUME sync \in Attempt, Send
  PROVE  /\ sync' \in Attempt
         /\ sync'.step = sync.step
         /\ sync'.rest = sync.rest
         /\ sync'.item = sync.item
         /\ sync'.url = sync.url
BY DEF Send, Attempt

LEMMA StartPassShape ==
  ASSUME StartPass
  PROVE  /\ sync' \in Attempt
         /\ sync'.step = "next"
         /\ sync'.rest = Due
         /\ sync'.item = 0
         /\ sync'.url = FALSE
         /\ sync'.wire = FALSE
<1>1. "next" \in Steps /\ Due \in SUBSET Items
  BY DEF Steps, Due
<1>2. QED
  BY <1>1, IdleFacts DEF StartPass, Attempt

LEMMA PickItemShape ==
  ASSUME queue \in [Items -> Row], sync \in Attempt, PickItem
  PROVE  \E i \in sync.rest :
           /\ sync' \in Attempt
           /\ sync'.step = FirstCall(queue[i])
           /\ sync'.rest = sync.rest \ {i}
           /\ sync'.item = i
           /\ sync'.url = queue[i].url
           /\ sync'.wire = FALSE
<1>1. PICK i \in sync.rest : sync' = [Idle EXCEPT !.step = FirstCall(queue[i]),
                                                  !.rest = sync.rest \ {i},
                                                  !.item = i,
                                                  !.url = queue[i].url]
  BY DEF PickItem
<1>2. i \in Items /\ sync.rest \ {i} \in SUBSET Items
  BY DEF Attempt
<1>3. FirstCall(queue[i]) \in Steps /\ queue[i].url \in BOOLEAN
  BY <1>2 DEF FirstCall, Row, Kinds, Steps, Calls
<1>4. QED
  BY <1>1, <1>2, <1>3, IdleFacts DEF Attempt

LEMMA RowShape ==
  ASSUME queue \in [Items -> Row], NEW i \in Items, NEW d \in BOOLEAN
  PROVE  [queue EXCEPT ![i].due = d] \in [Items -> Row]
BY DEF Row

LEMMA PendingShape ==
  ASSUME queue \in [Items -> Row], NEW i \in Items, NEW s \in Statuses, NEW d \in BOOLEAN,
         queue' = [queue EXCEPT ![i].status = s, ![i].due = d]
  PROVE  /\ queue' \in [Items -> Row]
         /\ \A j \in Items : j # i => queue'[j] = queue[j]
         /\ queue'[i].status = s
         /\ queue'[i].kind = queue[i].kind
         /\ queue'[i].url = queue[i].url
BY DEF Row

LEMMA StatusShape ==
  ASSUME queue \in [Items -> Row], NEW i \in Items, NEW s \in Statuses
  PROVE  /\ [queue EXCEPT ![i].status = s] \in [Items -> Row]
         /\ \A j \in Items : j # i => [queue EXCEPT ![i].status = s][j] = queue[j]
         /\ LET r == [queue EXCEPT ![i].status = s][i]
            IN  r.status = s /\ r.kind = queue[i].kind /\ r.url = queue[i].url
BY DEF Row

LEMMA UrlShape ==
  ASSUME queue \in [Items -> Row], NEW i \in Items, NEW d \in BOOLEAN, NEW u \in BOOLEAN,
         queue' = [queue EXCEPT ![i].due = d, ![i].url = u]
  PROVE  /\ queue' \in [Items -> Row]
         /\ \A j \in Items : j # i => queue'[j] = queue[j]
         /\ queue'[i].url = u
         /\ queue'[i].kind = queue[i].kind
         /\ queue'[i].status = queue[i].status
BY DEF Row

LEMMA BreakerShape ==
  ASSUME breaker \in [failures : 0 .. Threshold, state : {"closed", "open", "expired"}],
         RecordFailure \/ RecordSuccess
  PROVE  breaker' \in [failures : 0 .. Threshold, state : {"closed", "open", "expired"}]
BY Bounds, IdleFacts DEF RecordFailure, RecordSuccess, Least

LEMMA GivenUpShape ==
  ASSUME NEW l \in GivenUp PROVE l = late \/ l = late \cup {ThisRequest}
BY DEF GivenUp

\* After a failed request the attempt is sent again or has a verdict.
LEMMA FailShape ==
  ASSUME sync \in Attempt, NEW o \in Outcomes, Fail(o)
  PROVE  /\ sync' \in Attempt
         /\ sync'.rest = sync.rest
         /\ sync'.item = sync.item
         /\ sync'.wire = FALSE
         /\ sync'.url => sync.url
         /\ \/ sync'.step = sync.step /\ sync'.url = sync.url
            \/ sync'.step \in {"later", "refused"}
            \/ sync'.step = "delivered" /\ o = "conflict"
<1>1. CASE sync.resends < MaxResends /\ Resend
  BY <1>1, ResendShape
<1>2. CASE Decide(Classify(o))
  <2>1. Classify(o) \in Verdicts /\ (Classify(o) = "delivered" => o = "conflict")
    BY DEF Classify, Verdicts
  <2>2. QED
    BY <1>2, <2>1, DecideShape DEF Verdicts
<1>3. QED
  BY <1>1, <1>2 DEF Fail

LEMMA SucceedShape ==
  ASSUME sync \in Attempt, Succeed
  PROVE  /\ sync' \in Attempt
         /\ sync'.rest = sync.rest
         /\ sync'.item = sync.item
         /\ sync'.wire = FALSE
         /\ \/ sync.step # "upload" /\ sync'.step = "delivered" /\ ~ sync'.url
            \/ sync.step = "upload" /\ sync'.step = "message" /\ sync'.url
            \/ sync.step = "upload" /\ sync'.step = "later" /\ sync'.url = sync.url
<1>1. CASE sync.step # "upload" /\ Decide("delivered")
  BY <1>1, DecideShape DEF Verdicts
<1>2. CASE sync.step = "upload" /\ Decide("later")
  <2>1. /\ sync' \in Attempt /\ sync'.rest = sync.rest /\ sync'.item = sync.item
        /\ sync'.step = "later" /\ sync'.wire = FALSE
        /\ sync'.url = (sync.url /\ "later" = "later")
    BY <1>2, DecideShape DEF Verdicts
  <2>2. sync.url \in BOOLEAN /\ ("later" = "later")
    BY DEF Attempt
  <2>3. (sync.url /\ "later" = "later") = sync.url
    BY <2>2
  <2>4. QED
    BY <1>2, <2>1, <2>3
<1>3. CASE /\ sync.step = "upload"
           /\ sync' = [sync EXCEPT !.step = "message", !.url = TRUE,
                                   !.wire = FALSE, !.resends = 0]
  <2>1. "message" \in Steps
    BY DEF Steps, Calls
  <2>2. QED
    BY <1>3, <2>1, Bounds DEF Attempt
<1>4. QED
  BY <1>1, <1>2, <1>3 DEF Succeed

\* What the backend may do with a request.
LEMMA HandleShape ==
  ASSUME TypeOK, NEW r \in Requests, NEW a \in Answers, Handle(r, a)
  PROVE  /\ price' \in Items \cup {NoPrice, OtherPrice}
         /\ uploads' \in SUBSET Items
         /\ shared' \in SUBSET Items
         /\ uploads \subseteq uploads'
         /\ shared \subseteq shared'
         /\ \A i \in shared' : i \in shared \/ (r.call = "message" /\ i = r.item)
         /\ price # NoPrice => price' # NoPrice
         /\ a = "conflict" => r.call = "quote" /\ price' # NoPrice
         /\ a = "ok" /\ r.call = "quote" => price' # NoPrice
         /\ a = "ok" /\ r.call = "upload" => r.item \in uploads'
         /\ a = "ok" /\ r.call = "message" => r.item \in shared'
<1>1. r.item \in Items /\ r.call \in Calls
  BY DEF Requests
<1>2. r.item # NoPrice
  BY <1>1, Bounds
<1>3. QED
  BY <1>1, <1>2 DEF Handle, backend, TypeOK, Calls

-----------------------------------------------------------------------------
(* The invariant *)

\* The empty queue satisfies it.
LEMMA InitInv == Init => OutboxInv
BY IdleFacts, Bounds
   DEF Init, OutboxInv, TypeOK, PassIsSound, UploadsBehindAddresses,
       SharedPhotosExist, DeliveredIsApplied, RemovedOnlyWhenSent,
       Row, Kinds, Statuses, Calls, Verdicts, Applied

\* One lemma per action: it keeps each of the six parts of OutboxInv.
LEMMA QueueQuoteKeeps ==
  ASSUME OutboxInv, NEW i \in Items, QueueQuote(i)
  PROVE  OutboxInv'
<1>1. queue \in [Items -> Row] /\ sync \in Attempt
  BY DEF OutboxInv, TypeOK
<1>2. queue' \in [Items -> Row]
  BY <1>1, OutboxInv DEF QueueQuote, Enqueue, Row, Kinds, Statuses
<1>3. sync' \in Attempt
  BY <1>1 DEF QueueQuote
<1>4. TypeOK'
  BY <1>2, <1>3 DEF QueueQuote, Enqueue, OutboxInv, TypeOK, backend
<1>5. PassIsSound'
  BY <1>1, <1>2
     DEF QueueQuote, Enqueue, PassIsSound, OutboxInv, TypeOK, Calls, Verdicts, backend
<1>6. UploadsBehindAddresses'
  BY <1>1, <1>2
     DEF QueueQuote, Enqueue, UploadsBehindAddresses, OutboxInv, Calls, Verdicts,
         PassIsSound, backend
<1>7. SharedPhotosExist'
  BY <1>1, <1>2 DEF QueueQuote, Enqueue, SharedPhotosExist, OutboxInv, backend
<1>8. DeliveredIsApplied'
  BY <1>1, <1>2
     DEF QueueQuote, Enqueue, DeliveredIsApplied, OutboxInv, TypeOK, Applied, PassIsSound,
         Calls, Verdicts, backend
<1>9. RemovedOnlyWhenSent'
  BY <1>1, <1>2 DEF QueueQuote, Enqueue, RemovedOnlyWhenSent, OutboxInv, backend
<1>10. QED
  BY <1>4, <1>5, <1>6, <1>7, <1>8, <1>9 DEF OutboxInv
LEMMA QueuePhotoKeeps ==
  ASSUME OutboxInv, NEW i \in Items, QueuePhoto(i)
  PROVE  OutboxInv'
<1>1. queue \in [Items -> Row] /\ sync \in Attempt
  BY DEF OutboxInv, TypeOK
<1>2. queue' \in [Items -> Row]
  BY <1>1, OutboxInv DEF QueuePhoto, Enqueue, Row, Kinds, Statuses
<1>3. sync' \in Attempt
  BY <1>1 DEF QueuePhoto
<1>4. TypeOK'
  BY <1>2, <1>3 DEF QueuePhoto, Enqueue, OutboxInv, TypeOK, backend
<1>5. PassIsSound'
  BY <1>1, <1>2
     DEF QueuePhoto, Enqueue, PassIsSound, OutboxInv, TypeOK, Calls, Verdicts, backend
<1>6. UploadsBehindAddresses'
  BY <1>1, <1>2
     DEF QueuePhoto, Enqueue, UploadsBehindAddresses, OutboxInv, Calls, Verdicts,
         PassIsSound, backend
<1>7. SharedPhotosExist'
  BY <1>1, <1>2 DEF QueuePhoto, Enqueue, SharedPhotosExist, OutboxInv, backend
<1>8. DeliveredIsApplied'
  BY <1>1, <1>2
     DEF QueuePhoto, Enqueue, DeliveredIsApplied, OutboxInv, TypeOK, Applied, PassIsSound,
         Calls, Verdicts, backend
<1>9. RemovedOnlyWhenSent'
  BY <1>1, <1>2 DEF QueuePhoto, Enqueue, RemovedOnlyWhenSent, OutboxInv, backend
<1>10. QED
  BY <1>4, <1>5, <1>6, <1>7, <1>8, <1>9 DEF OutboxInv
LEMMA RetryKeeps ==
  ASSUME OutboxInv, NEW i \in Items, Retry(i)
  PROVE  OutboxInv'
<1>1. queue \in [Items -> Row] /\ sync \in Attempt /\ PassIsSound
  BY DEF OutboxInv, TypeOK
<1>2. /\ queue' \in [Items -> Row]
      /\ queue[i].status = "FAILED"
      /\ \A j \in Items : /\ queue'[j].kind = queue[j].kind
                          /\ queue'[j].url = queue[j].url
                          /\ j # i => queue'[j].status = queue[j].status
      /\ queue'[i].status = "PENDING"
  <2>1. "PENDING" \in Statuses /\ TRUE \in BOOLEAN
    BY DEF Statuses
  <2>2. queue' = [queue EXCEPT ![i].status = "PENDING", ![i].due = TRUE]
    BY DEF Retry
  <2>3. queue[i].status = "FAILED"
    BY DEF Retry
  <2>4. QED
    BY <1>1, <2>1, <2>2, <2>3, PendingShape
<1>3. UNCHANGED sync
  BY DEF Retry
<1>4. UNCHANGED <<photos, breaker, price, uploads, shared, late>>
  BY DEF Retry, phone, backend
<1>5. TypeOK'
  BY <1>1, <1>2, <1>3, <1>4, Bounds DEF OutboxInv, TypeOK, Retry, Event
<1>6. PassIsSound'
  BY <1>1, <1>2, <1>3, <1>4, Bounds DEF OutboxInv, PassIsSound, Calls, Verdicts, Attempt
<1>7. UploadsBehindAddresses'
  BY <1>1, <1>2, <1>3, <1>4
     DEF OutboxInv, UploadsBehindAddresses, PassIsSound, Calls, Verdicts, Requests, TypeOK
<1>8. SharedPhotosExist'
  BY <1>1, <1>2, <1>3, <1>4 DEF OutboxInv, SharedPhotosExist
<1>9. DeliveredIsApplied'
  BY <1>1, <1>2, <1>3, <1>4
     DEF OutboxInv, DeliveredIsApplied, Applied, PassIsSound, Calls, Verdicts
<1>10. RemovedOnlyWhenSent'
  BY <1>1, <1>2, <1>3, <1>4 DEF OutboxInv, RemovedOnlyWhenSent
<1>11. QED
  BY <1>5, <1>6, <1>7, <1>8, <1>9, <1>10 DEF OutboxInv

LEMMA TimePassesKeeps ==
  ASSUME OutboxInv, NEW i \in Items, TimePasses(i)
  PROVE  OutboxInv'
<1>1. queue \in [Items -> Row] /\ sync \in Attempt
  BY DEF OutboxInv, TypeOK
<1>2. queue' \in [Items -> Row]
  BY <1>1, RowShape, OutboxInv
     DEF TimePasses, Statuses, OutboxInv, PassIsSound, Calls, Verdicts, Attempt
<1>3. sync' \in Attempt
  BY <1>1 DEF TimePasses
<1>4. TypeOK'
  BY <1>2, <1>3 DEF TimePasses, OutboxInv, TypeOK, backend
<1>5. PassIsSound'
  BY <1>1, <1>2 DEF TimePasses, PassIsSound, OutboxInv, TypeOK, Calls, Verdicts, backend
<1>6. UploadsBehindAddresses'
  BY <1>1, <1>2
     DEF TimePasses, UploadsBehindAddresses, OutboxInv, Calls, Verdicts, PassIsSound,
         backend
<1>7. SharedPhotosExist'
  BY <1>1, <1>2 DEF TimePasses, SharedPhotosExist, OutboxInv, backend
<1>8. DeliveredIsApplied'
  BY <1>1, <1>2 DEF TimePasses, DeliveredIsApplied, OutboxInv, Applied, backend
<1>9. RemovedOnlyWhenSent'
  BY <1>1, <1>2 DEF TimePasses, RemovedOnlyWhenSent, OutboxInv, backend
<1>10. QED
  BY <1>4, <1>5, <1>6, <1>7, <1>8, <1>9 DEF OutboxInv
LEMMA StartPassKeeps ==
  ASSUME OutboxInv, StartPass
  PROVE  OutboxInv'
<1>1. queue \in [Items -> Row] /\ sync \in Attempt /\ PassIsSound
  BY DEF OutboxInv, TypeOK
<1>2. UNCHANGED queue
  BY DEF StartPass, phone
<1>3. /\ sync' \in Attempt
      /\ sync'.step = "next" /\ sync'.item = 0
      /\ sync'.url = FALSE /\ sync'.wire = FALSE
      /\ \A i \in sync'.rest : i \in Items /\ queue[i].status = "PENDING"
  BY StartPassShape DEF Due
<1>4. UNCHANGED <<photos, breaker, price, uploads, shared, late, events>>
  BY DEF StartPass, phone, backend
<1>5. TypeOK'
  BY <1>1, <1>2, <1>3, <1>4 DEF OutboxInv, TypeOK
<1>6. PassIsSound'
  BY <1>1, <1>2, <1>3, <1>4, Bounds DEF OutboxInv, PassIsSound, Calls, Verdicts, Attempt
<1>7. UploadsBehindAddresses'
  BY <1>1, <1>2, <1>3, <1>4
     DEF OutboxInv, UploadsBehindAddresses, PassIsSound, Calls, Verdicts, Requests, TypeOK
<1>8. SharedPhotosExist'
  BY <1>1, <1>2, <1>3, <1>4 DEF OutboxInv, SharedPhotosExist
<1>9. DeliveredIsApplied'
  BY <1>1, <1>2, <1>3, <1>4
     DEF OutboxInv, DeliveredIsApplied, Applied, PassIsSound, Calls, Verdicts
<1>10. RemovedOnlyWhenSent'
  BY <1>1, <1>2, <1>3, <1>4 DEF OutboxInv, RemovedOnlyWhenSent
<1>11. QED
  BY <1>5, <1>6, <1>7, <1>8, <1>9, <1>10 DEF OutboxInv

LEMMA PickItemKeeps ==
  ASSUME OutboxInv, PickItem
  PROVE  OutboxInv'
<1>1. queue \in [Items -> Row] /\ sync \in Attempt /\ PassIsSound
  BY DEF OutboxInv, TypeOK
<1>2. UNCHANGED queue
  BY DEF PickItem, phone
<1>3. /\ sync' \in Attempt
      /\ sync.step = "next"
      /\ sync'.step \in Calls /\ sync'.wire = FALSE
      /\ sync'.item \in sync.rest /\ sync'.item \in Items
      /\ sync'.rest = sync.rest \ {sync'.item}
      /\ sync'.url = queue[sync'.item].url
      /\ sync'.step = "quote" => queue[sync'.item].kind = "QUOTE"
      /\ sync'.step # "quote" => queue[sync'.item].kind = "PHOTO"
      /\ sync'.step = "message" => sync'.url
  <2>1. PICK i \in sync.rest :
          /\ sync' \in Attempt
          /\ sync'.step = FirstCall(queue[i])
          /\ sync'.rest = sync.rest \ {i}
          /\ sync'.item = i
          /\ sync'.url = queue[i].url
          /\ sync'.wire = FALSE
    BY <1>1, PickItemShape
  <2>2. i \in Items /\ queue[i] \in Row
    BY <1>1 DEF Attempt
  <2>3. sync.step = "next"
    BY DEF PickItem
  <2>4. QED
    BY <2>1, <2>2, <2>3 DEF FirstCall, Row, Kinds, Calls
<1>4. UNCHANGED <<photos, breaker, price, uploads, shared, late, events>>
  BY DEF PickItem, phone, backend
<1>5. TypeOK'
  BY <1>1, <1>2, <1>3, <1>4 DEF OutboxInv, TypeOK
<1>6. PassIsSound'
  BY <1>1, <1>2, <1>3, <1>4, Bounds DEF OutboxInv, PassIsSound, Calls, Verdicts, Attempt
<1>7. UploadsBehindAddresses'
  BY <1>1, <1>2, <1>3, <1>4
     DEF OutboxInv, UploadsBehindAddresses, PassIsSound, Calls, Verdicts, Requests, TypeOK
<1>8. SharedPhotosExist'
  BY <1>1, <1>2, <1>3, <1>4 DEF OutboxInv, SharedPhotosExist
<1>9. DeliveredIsApplied'
  BY <1>1, <1>2, <1>3, <1>4
     DEF OutboxInv, DeliveredIsApplied, Applied, PassIsSound, Calls, Verdicts
<1>10. RemovedOnlyWhenSent'
  BY <1>1, <1>2, <1>3, <1>4 DEF OutboxInv, RemovedOnlyWhenSent
<1>11. QED
  BY <1>5, <1>6, <1>7, <1>8, <1>9, <1>10 DEF OutboxInv

LEMMA EndPassKeeps ==
  ASSUME OutboxInv, EndPass
  PROVE  OutboxInv'
<1>1. queue \in [Items -> Row] /\ sync \in Attempt
  BY DEF OutboxInv, TypeOK
<1>2. queue' \in [Items -> Row]
  BY <1>1, OutboxInv DEF EndPass, phone
<1>3. sync' \in Attempt
  BY <1>1, IdleFacts DEF EndPass
<1>4. TypeOK'
  BY <1>2, <1>3, IdleFacts DEF EndPass, OutboxInv, TypeOK, phone, backend
<1>5. PassIsSound'
  BY <1>1, <1>2, IdleFacts
     DEF EndPass, PassIsSound, OutboxInv, TypeOK, Calls, Verdicts, phone, backend
<1>6. UploadsBehindAddresses'
  BY <1>1, <1>2, IdleFacts
     DEF EndPass, UploadsBehindAddresses, OutboxInv, Calls, Verdicts, PassIsSound, phone,
         backend
<1>7. SharedPhotosExist'
  BY <1>1, <1>2, IdleFacts DEF EndPass, SharedPhotosExist, OutboxInv, phone, backend
<1>8. DeliveredIsApplied'
  BY <1>1, <1>2, IdleFacts
     DEF EndPass, DeliveredIsApplied, OutboxInv, Applied, phone, backend
<1>9. RemovedOnlyWhenSent'
  BY <1>1, <1>2, IdleFacts DEF EndPass, RemovedOnlyWhenSent, OutboxInv, phone, backend
<1>10. QED
  BY <1>4, <1>5, <1>6, <1>7, <1>8, <1>9 DEF OutboxInv
LEMMA PhotoMissingKeeps ==
  ASSUME OutboxInv, PhotoMissing
  PROVE  OutboxInv'
<1>1. queue \in [Items -> Row] /\ sync \in Attempt
  BY DEF OutboxInv, TypeOK
<1>2. queue' \in [Items -> Row]
  BY <1>1, OutboxInv DEF PhotoMissing, phone
<1>3. sync' \in Attempt
  BY <1>1, DecideShape DEF PhotoMissing, Verdicts
<1>4. TypeOK'
  BY <1>2, <1>3 DEF PhotoMissing, FileGone, OutboxInv, TypeOK, phone, backend
<1>5. PassIsSound'
  BY <1>1, <1>2, DecideShape
     DEF PhotoMissing, FileGone, PassIsSound, OutboxInv, TypeOK, Calls, Verdicts, phone,
         backend
<1>6. UploadsBehindAddresses'
  BY <1>1, <1>2, DecideShape
     DEF PhotoMissing, FileGone, UploadsBehindAddresses, OutboxInv, Calls, Verdicts,
         PassIsSound, phone, backend
<1>7. SharedPhotosExist'
  BY <1>1, <1>2, DecideShape
     DEF PhotoMissing, FileGone, SharedPhotosExist, OutboxInv, phone, backend
<1>8. DeliveredIsApplied'
  BY <1>1, <1>2, DecideShape
     DEF PhotoMissing, FileGone, DeliveredIsApplied, OutboxInv, TypeOK, Applied,
         PassIsSound, Calls, Verdicts, phone, backend, ThisRequest
<1>9. RemovedOnlyWhenSent'
  BY <1>1, <1>2, DecideShape
     DEF PhotoMissing, FileGone, RemovedOnlyWhenSent, OutboxInv, phone, backend
<1>10. QED
  BY <1>4, <1>5, <1>6, <1>7, <1>8, <1>9 DEF OutboxInv
LEMMA SendKeeps ==
  ASSUME OutboxInv, Send
  PROVE  OutboxInv'
<1>1. queue \in [Items -> Row] /\ sync \in Attempt
  BY DEF OutboxInv, TypeOK
<1>2. queue' \in [Items -> Row]
  BY <1>1, OutboxInv DEF Send, phone
<1>3. sync' \in Attempt
  BY <1>1, SendShape DEF Send
<1>4. TypeOK'
  BY <1>2, <1>3, Bounds, IdleFacts DEF Send, FileGone, OutboxInv, TypeOK, phone, backend
<1>5. PassIsSound'
  BY <1>1, <1>2, SendShape
     DEF Send, FileGone, PassIsSound, OutboxInv, TypeOK, Calls, Verdicts, phone, backend
<1>6. UploadsBehindAddresses'
  BY <1>1, <1>2, SendShape
     DEF Send, FileGone, UploadsBehindAddresses, OutboxInv, Calls, Verdicts, PassIsSound,
         phone, backend
<1>7. SharedPhotosExist'
  BY <1>1, <1>2, SendShape
     DEF Send, FileGone, SharedPhotosExist, OutboxInv, phone, backend
<1>8. DeliveredIsApplied'
  BY <1>1, <1>2, SendShape
     DEF Send, FileGone, DeliveredIsApplied, OutboxInv, Applied, phone, backend
<1>9. RemovedOnlyWhenSent'
  BY <1>1, <1>2, SendShape
     DEF Send, FileGone, RemovedOnlyWhenSent, OutboxInv, phone, backend
<1>10. QED
  BY <1>4, <1>5, <1>6, <1>7, <1>8, <1>9 DEF OutboxInv
LEMMA TurnAwayKeeps ==
  ASSUME OutboxInv, TurnAway
  PROVE  OutboxInv'
<1>1. queue \in [Items -> Row] /\ sync \in Attempt
  BY DEF OutboxInv, TypeOK
<1>2. queue' \in [Items -> Row]
  BY <1>1, OutboxInv DEF TurnAway, phone
<1>3. sync' \in Attempt
  BY <1>1, DecideShape DEF TurnAway, Verdicts
<1>4. TypeOK'
  BY <1>2, <1>3 DEF TurnAway, FileGone, OutboxInv, TypeOK, phone, backend
<1>5. PassIsSound'
  BY <1>1, <1>2, DecideShape
     DEF TurnAway, FileGone, PassIsSound, OutboxInv, TypeOK, Calls, Verdicts, phone,
         backend
<1>6. UploadsBehindAddresses'
  BY <1>1, <1>2, DecideShape
     DEF TurnAway, FileGone, UploadsBehindAddresses, OutboxInv, Calls, Verdicts,
         PassIsSound, phone, backend
<1>7. SharedPhotosExist'
  BY <1>1, <1>2, DecideShape
     DEF TurnAway, FileGone, SharedPhotosExist, OutboxInv, phone, backend
<1>8. DeliveredIsApplied'
  BY <1>1, <1>2, DecideShape
     DEF TurnAway, FileGone, DeliveredIsApplied, OutboxInv, TypeOK, Applied, PassIsSound,
         Calls, Verdicts, phone, backend, ThisRequest
<1>9. RemovedOnlyWhenSent'
  BY <1>1, <1>2, DecideShape
     DEF TurnAway, FileGone, RemovedOnlyWhenSent, OutboxInv, phone, backend
<1>10. QED
  BY <1>4, <1>5, <1>6, <1>7, <1>8, <1>9 DEF OutboxInv
LEMMA MarkSentKeeps ==
  ASSUME OutboxInv, MarkSent
  PROVE  OutboxInv'
<1>1. queue \in [Items -> Row] /\ sync \in Attempt /\ PassIsSound
  BY DEF OutboxInv, TypeOK
<1>2. /\ queue' \in [Items -> Row]
      /\ sync.item \in Items /\ queue[sync.item].status = "PENDING"
      /\ sync.item \notin sync.rest
      /\ sync.step = "delivered"
      /\ \A j \in Items : /\ queue'[j].kind = queue[j].kind
                          /\ queue'[j].url = queue[j].url
                          /\ j # sync.item => queue'[j].status = queue[j].status
      /\ queue'[sync.item].status = "COMPLETED"
  <2>1. queue' = [queue EXCEPT ![sync.item].status = "COMPLETED"]
    BY DEF MarkSent
  <2>2. "COMPLETED" \in Statuses
    BY DEF Statuses
  <2>3. /\ sync.step = "delivered" /\ sync.item \in Items
        /\ queue[sync.item].status = "PENDING" /\ sync.item \notin sync.rest
    BY <1>1 DEF MarkSent, PassIsSound, Verdicts
  <2>4. QED
    BY <1>1, <2>1, <2>2, <2>3, StatusShape
<1>3. /\ sync' \in Attempt
      /\ sync'.rest = sync.rest
      /\ sync'.url = FALSE /\ sync'.wire = FALSE
      /\ \/ sync'.step = "next" /\ sync'.item = 0
         \/ sync'.step = "tidy" /\ sync'.item = sync.item
  BY <1>1, <1>2, NextItemShape DEF MarkSent
<1>4. UNCHANGED <<photos, breaker, price, uploads, shared, late, events>>
  BY DEF MarkSent, phone, backend
<1>5. TypeOK'
  BY <1>1, <1>2, <1>3, <1>4 DEF OutboxInv, TypeOK
<1>6. PassIsSound'
  BY <1>1, <1>2, <1>3, <1>4, Bounds DEF OutboxInv, PassIsSound, Calls, Verdicts, Attempt
<1>7. UploadsBehindAddresses'
  BY <1>1, <1>2, <1>3, <1>4
     DEF OutboxInv, UploadsBehindAddresses, PassIsSound, Calls, Verdicts, Requests, TypeOK
<1>8. SharedPhotosExist'
  BY <1>1, <1>2, <1>3, <1>4 DEF OutboxInv, SharedPhotosExist
<1>9. DeliveredIsApplied'
  BY <1>1, <1>2, <1>3, <1>4
     DEF OutboxInv, DeliveredIsApplied, Applied, PassIsSound, Calls, Verdicts
<1>10. RemovedOnlyWhenSent'
  BY <1>1, <1>2, <1>3, <1>4 DEF OutboxInv, RemovedOnlyWhenSent
<1>11. QED
  BY <1>5, <1>6, <1>7, <1>8, <1>9, <1>10 DEF OutboxInv

LEMMA RemoveFileKeeps ==
  ASSUME OutboxInv, RemoveFile
  PROVE  OutboxInv'
<1>1. queue \in [Items -> Row] /\ sync \in Attempt /\ PassIsSound
  BY DEF OutboxInv, TypeOK
<1>2. /\ UNCHANGED queue
      /\ sync.item \in Items /\ queue[sync.item].status = "COMPLETED"
      /\ \A j \in Items : photos'[j] = "removed" =>
                            photos[j] = "removed" \/ j = sync.item
      /\ photos' \in [Items -> {"none", "kept", "removed", "lost"}]
  BY <1>1 DEF RemoveFile, PassIsSound, OutboxInv, TypeOK
<1>3. /\ sync' \in Attempt
      /\ sync'.rest = sync.rest
      /\ sync'.url = FALSE /\ sync'.wire = FALSE
      /\ sync'.step = "next" /\ sync'.item = 0
  BY <1>1, NextItemShape DEF RemoveFile
<1>4. UNCHANGED <<queue, breaker, price, uploads, shared, late, events>>
  BY DEF RemoveFile, phone, backend
<1>5. TypeOK'
  BY <1>1, <1>2, <1>3, <1>4 DEF OutboxInv, TypeOK
<1>6. PassIsSound'
  BY <1>1, <1>2, <1>3, <1>4, Bounds DEF OutboxInv, PassIsSound, Calls, Verdicts, Attempt
<1>7. UploadsBehindAddresses'
  BY <1>1, <1>2, <1>3, <1>4
     DEF OutboxInv, UploadsBehindAddresses, PassIsSound, Calls, Verdicts, Requests, TypeOK
<1>8. SharedPhotosExist'
  BY <1>1, <1>2, <1>3, <1>4 DEF OutboxInv, SharedPhotosExist
<1>9. DeliveredIsApplied'
  BY <1>1, <1>2, <1>3, <1>4
     DEF OutboxInv, DeliveredIsApplied, Applied, PassIsSound, Calls, Verdicts
<1>10. RemovedOnlyWhenSent'
  BY <1>1, <1>2, <1>3, <1>4 DEF OutboxInv, RemovedOnlyWhenSent
<1>11. QED
  BY <1>5, <1>6, <1>7, <1>8, <1>9, <1>10 DEF OutboxInv

LEMMA RescheduleKeeps ==
  ASSUME OutboxInv, Reschedule
  PROVE  OutboxInv'
<1>1. queue \in [Items -> Row] /\ sync \in Attempt /\ PassIsSound
  BY DEF OutboxInv, TypeOK
<1>2. /\ queue' \in [Items -> Row]
      /\ sync.item \in Items /\ queue[sync.item].status = "PENDING"
      /\ sync.item \notin sync.rest
      /\ sync.step = "later"
      /\ \A j \in Items : /\ queue'[j].kind = queue[j].kind
                          /\ queue'[j].status = queue[j].status
                          /\ j # sync.item => queue'[j].url = queue[j].url
      /\ queue'[sync.item].url = sync.url
  <2>1. queue' = [queue EXCEPT ![sync.item].due = FALSE, ![sync.item].url = sync.url]
    BY DEF Reschedule
  <2>2. FALSE \in BOOLEAN /\ sync.url \in BOOLEAN
    BY <1>1 DEF Attempt
  <2>3. /\ sync.step = "later" /\ sync.item \in Items
        /\ queue[sync.item].status = "PENDING" /\ sync.item \notin sync.rest
    BY <1>1 DEF Reschedule, PassIsSound, Verdicts
  <2>4. QED
    BY <1>1, <2>1, <2>2, <2>3, UrlShape
<1>3. /\ sync' \in Attempt
      /\ sync'.rest = sync.rest
      /\ sync'.url = FALSE /\ sync'.wire = FALSE
      /\ sync'.step = "next" /\ sync'.item = 0
  BY <1>1, <1>2, NextItemShape DEF Reschedule
<1>4. UNCHANGED <<photos, breaker, price, uploads, shared, late, events>>
  BY DEF Reschedule, phone, backend
<1>5. TypeOK'
  BY <1>1, <1>2, <1>3, <1>4 DEF OutboxInv, TypeOK
<1>6. PassIsSound'
  BY <1>1, <1>2, <1>3, <1>4, Bounds DEF OutboxInv, PassIsSound, Calls, Verdicts, Attempt
<1>7. UploadsBehindAddresses'
  BY <1>1, <1>2, <1>3, <1>4
     DEF OutboxInv, UploadsBehindAddresses, PassIsSound, Calls, Verdicts, Requests, TypeOK
<1>8. SharedPhotosExist'
  BY <1>1, <1>2, <1>3, <1>4 DEF OutboxInv, SharedPhotosExist
<1>9. DeliveredIsApplied'
  BY <1>1, <1>2, <1>3, <1>4
     DEF OutboxInv, DeliveredIsApplied, Applied, PassIsSound, Calls, Verdicts
<1>10. RemovedOnlyWhenSent'
  BY <1>1, <1>2, <1>3, <1>4 DEF OutboxInv, RemovedOnlyWhenSent
<1>11. QED
  BY <1>5, <1>6, <1>7, <1>8, <1>9, <1>10 DEF OutboxInv

LEMMA MarkFailedKeeps ==
  ASSUME OutboxInv, MarkFailed
  PROVE  OutboxInv'
<1>1. queue \in [Items -> Row] /\ sync \in Attempt /\ PassIsSound
  BY DEF OutboxInv, TypeOK
<1>2. /\ queue' \in [Items -> Row]
      /\ sync.item \in Items /\ queue[sync.item].status = "PENDING"
      /\ sync.item \notin sync.rest
      /\ \A j \in Items : /\ queue'[j].kind = queue[j].kind
                          /\ queue'[j].url = queue[j].url
                          /\ j # sync.item => queue'[j].status = queue[j].status
      /\ queue'[sync.item].status = "FAILED"
  <2>1. queue' = [queue EXCEPT ![sync.item].status = "FAILED"]
    BY DEF MarkFailed
  <2>2. "FAILED" \in Statuses
    BY DEF Statuses
  <2>3. /\ sync.step = "refused" /\ sync.item \in Items
        /\ queue[sync.item].status = "PENDING" /\ sync.item \notin sync.rest
    BY <1>1 DEF MarkFailed, PassIsSound, Verdicts
  <2>4. QED
    BY <1>1, <2>1, <2>2, <2>3, StatusShape
<1>3. /\ sync' \in Attempt
      /\ sync'.rest = sync.rest
      /\ sync'.url = FALSE /\ sync'.wire = FALSE
      /\ sync'.step = "next" /\ sync'.item = 0
  BY <1>1, <1>2, NextItemShape DEF MarkFailed
<1>4. UNCHANGED <<photos, breaker, price, uploads, shared, late, events>>
  BY DEF MarkFailed, phone, backend
<1>5. TypeOK'
  BY <1>1, <1>2, <1>3, <1>4 DEF OutboxInv, TypeOK
<1>6. PassIsSound'
  BY <1>1, <1>2, <1>3, <1>4, Bounds DEF OutboxInv, PassIsSound, Calls, Verdicts, Attempt
<1>7. UploadsBehindAddresses'
  BY <1>1, <1>2, <1>3, <1>4
     DEF OutboxInv, UploadsBehindAddresses, PassIsSound, Calls, Verdicts, Requests, TypeOK
<1>8. SharedPhotosExist'
  BY <1>1, <1>2, <1>3, <1>4 DEF OutboxInv, SharedPhotosExist
<1>9. DeliveredIsApplied'
  BY <1>1, <1>2, <1>3, <1>4
     DEF OutboxInv, DeliveredIsApplied, Applied, PassIsSound, Calls, Verdicts
<1>10. RemovedOnlyWhenSent'
  BY <1>1, <1>2, <1>3, <1>4 DEF OutboxInv, RemovedOnlyWhenSent
<1>11. QED
  BY <1>5, <1>6, <1>7, <1>8, <1>9, <1>10 DEF OutboxInv

LEMMA PhotoLostKeeps ==
  ASSUME OutboxInv, NEW i \in Items, PhotoLost(i)
  PROVE  OutboxInv'
<1>1. queue \in [Items -> Row] /\ sync \in Attempt
  BY DEF OutboxInv, TypeOK
<1>2. queue' \in [Items -> Row]
  BY <1>1, OutboxInv DEF PhotoLost
<1>3. sync' \in Attempt
  BY <1>1 DEF PhotoLost
<1>4. TypeOK'
  BY <1>2, <1>3, Bounds DEF PhotoLost, Event, OutboxInv, TypeOK, backend
<1>5. PassIsSound'
  BY <1>1, <1>2
     DEF PhotoLost, Event, PassIsSound, OutboxInv, TypeOK, Calls, Verdicts, backend
<1>6. UploadsBehindAddresses'
  BY <1>1, <1>2
     DEF PhotoLost, Event, UploadsBehindAddresses, OutboxInv, Calls, Verdicts,
         PassIsSound, backend
<1>7. SharedPhotosExist'
  BY <1>1, <1>2 DEF PhotoLost, Event, SharedPhotosExist, OutboxInv, backend
<1>8. DeliveredIsApplied'
  BY <1>1, <1>2 DEF PhotoLost, Event, DeliveredIsApplied, OutboxInv, Applied, backend
<1>9. RemovedOnlyWhenSent'
  BY <1>1, <1>2 DEF PhotoLost, Event, RemovedOnlyWhenSent, OutboxInv, backend
<1>10. QED
  BY <1>4, <1>5, <1>6, <1>7, <1>8, <1>9 DEF OutboxInv
LEMMA AppDiesKeeps ==
  ASSUME OutboxInv, AppDies
  PROVE  OutboxInv'
<1>1. queue \in [Items -> Row] /\ sync \in Attempt
  BY DEF OutboxInv, TypeOK
<1>2. queue' \in [Items -> Row]
  BY <1>1, OutboxInv DEF AppDies, phone
<1>3. sync' \in Attempt
  BY <1>1, IdleFacts DEF AppDies
<1>4. TypeOK'
  BY <1>2, <1>3, Bounds, IdleFacts, GivenUpShape
     DEF AppDies, Event, OutboxInv, TypeOK, PassIsSound, ThisRequest, Requests, Calls,
         Verdicts, phone, backend
<1>5. PassIsSound'
  BY <1>1, <1>2, IdleFacts
     DEF AppDies, Event, PassIsSound, OutboxInv, TypeOK, Calls, Verdicts, phone, backend,
         ThisRequest
<1>6. UploadsBehindAddresses'
  BY <1>1, <1>2, IdleFacts, GivenUpShape
     DEF AppDies, Event, UploadsBehindAddresses, OutboxInv, TypeOK, Requests, Calls,
         Verdicts, PassIsSound, phone, backend, ThisRequest
<1>7. SharedPhotosExist'
  BY <1>1, <1>2, IdleFacts
     DEF AppDies, Event, SharedPhotosExist, OutboxInv, phone, backend
<1>8. DeliveredIsApplied'
  BY <1>1, <1>2, IdleFacts
     DEF AppDies, Event, DeliveredIsApplied, OutboxInv, Applied, phone, backend,
         ThisRequest
<1>9. RemovedOnlyWhenSent'
  BY <1>1, <1>2, IdleFacts
     DEF AppDies, Event, RemovedOnlyWhenSent, OutboxInv, phone, backend, ThisRequest
<1>10. QED
  BY <1>4, <1>5, <1>6, <1>7, <1>8, <1>9 DEF OutboxInv
LEMMA DatabaseFailsKeeps ==
  ASSUME OutboxInv, DatabaseFails
  PROVE  OutboxInv'
<1>1. queue \in [Items -> Row] /\ sync \in Attempt
  BY DEF OutboxInv, TypeOK
<1>2. queue' \in [Items -> Row]
  BY <1>1, OutboxInv DEF DatabaseFails, phone
<1>3. sync' \in Attempt
  BY <1>1, IdleFacts DEF DatabaseFails
<1>4. TypeOK'
  BY <1>2, <1>3, Bounds, IdleFacts
     DEF DatabaseFails, Event, OutboxInv, TypeOK, phone, backend
<1>5. PassIsSound'
  BY <1>1, <1>2, IdleFacts
     DEF DatabaseFails, Event, PassIsSound, OutboxInv, TypeOK, Calls, Verdicts, phone,
         backend
<1>6. UploadsBehindAddresses'
  BY <1>1, <1>2, IdleFacts
     DEF DatabaseFails, Event, UploadsBehindAddresses, OutboxInv, Calls, Verdicts,
         PassIsSound, phone, backend
<1>7. SharedPhotosExist'
  BY <1>1, <1>2, IdleFacts
     DEF DatabaseFails, Event, SharedPhotosExist, OutboxInv, phone, backend
<1>8. DeliveredIsApplied'
  BY <1>1, <1>2, IdleFacts
     DEF DatabaseFails, Event, DeliveredIsApplied, OutboxInv, Applied, phone, backend
<1>9. RemovedOnlyWhenSent'
  BY <1>1, <1>2, IdleFacts
     DEF DatabaseFails, Event, RemovedOnlyWhenSent, OutboxInv, phone, backend
<1>10. QED
  BY <1>4, <1>5, <1>6, <1>7, <1>8, <1>9 DEF OutboxInv
LEMMA PricedElsewhereKeeps ==
  ASSUME OutboxInv, PricedElsewhere
  PROVE  OutboxInv'
<1>1. queue \in [Items -> Row] /\ sync \in Attempt
  BY DEF OutboxInv, TypeOK
<1>2. queue' \in [Items -> Row]
  BY <1>1, OutboxInv DEF PricedElsewhere, phone
<1>3. sync' \in Attempt
  BY <1>1 DEF PricedElsewhere
<1>4. TypeOK'
  BY <1>2, <1>3 DEF PricedElsewhere, OutboxInv, TypeOK, phone
<1>5. PassIsSound'
  BY <1>1, <1>2
     DEF PricedElsewhere, PassIsSound, OutboxInv, TypeOK, Calls, Verdicts, phone
<1>6. UploadsBehindAddresses'
  BY <1>1, <1>2
     DEF PricedElsewhere, UploadsBehindAddresses, OutboxInv, Calls, Verdicts, PassIsSound,
         phone
<1>7. SharedPhotosExist'
  BY <1>1, <1>2 DEF PricedElsewhere, SharedPhotosExist, OutboxInv, phone
<1>8. DeliveredIsApplied'
  BY <1>1, <1>2 DEF PricedElsewhere, DeliveredIsApplied, OutboxInv, Applied, phone
<1>9. RemovedOnlyWhenSent'
  BY <1>1, <1>2 DEF PricedElsewhere, RemovedOnlyWhenSent, OutboxInv, phone
<1>10. QED
  BY <1>4, <1>5, <1>6, <1>7, <1>8, <1>9 DEF OutboxInv
LEMMA CooldownEndsKeeps ==
  ASSUME OutboxInv, CooldownEnds
  PROVE  OutboxInv'
<1>1. queue \in [Items -> Row] /\ sync \in Attempt
  BY DEF OutboxInv, TypeOK
<1>2. queue' \in [Items -> Row]
  BY <1>1, OutboxInv DEF CooldownEnds, phone
<1>3. sync' \in Attempt
  BY <1>1 DEF CooldownEnds
<1>4. TypeOK'
  BY <1>2, <1>3 DEF CooldownEnds, OutboxInv, TypeOK, phone, backend
<1>5. PassIsSound'
  BY <1>1, <1>2
     DEF CooldownEnds, PassIsSound, OutboxInv, TypeOK, Calls, Verdicts, phone, backend
<1>6. UploadsBehindAddresses'
  BY <1>1, <1>2
     DEF CooldownEnds, UploadsBehindAddresses, OutboxInv, Calls, Verdicts, PassIsSound,
         phone, backend
<1>7. SharedPhotosExist'
  BY <1>1, <1>2 DEF CooldownEnds, SharedPhotosExist, OutboxInv, phone, backend
<1>8. DeliveredIsApplied'
  BY <1>1, <1>2 DEF CooldownEnds, DeliveredIsApplied, OutboxInv, Applied, phone, backend
<1>9. RemovedOnlyWhenSent'
  BY <1>1, <1>2 DEF CooldownEnds, RemovedOnlyWhenSent, OutboxInv, phone, backend
<1>10. QED
  BY <1>4, <1>5, <1>6, <1>7, <1>8, <1>9 DEF OutboxInv
LEMMA OtherTrafficKeeps ==
  ASSUME OutboxInv, OtherTraffic
  PROVE  OutboxInv'
<1>1. queue \in [Items -> Row] /\ sync \in Attempt
  BY DEF OutboxInv, TypeOK
<1>2. queue' \in [Items -> Row]
  BY <1>1, OutboxInv DEF OtherTraffic, phone
<1>3. sync' \in Attempt
  BY <1>1 DEF OtherTraffic
<1>4. TypeOK'
  BY <1>2, <1>3, Bounds, BreakerShape
     DEF OtherTraffic, Event, OutboxInv, TypeOK, phone, backend
<1>5. PassIsSound'
  BY <1>1, <1>2
     DEF OtherTraffic, Event, PassIsSound, OutboxInv, TypeOK, Calls, Verdicts, phone,
         backend
<1>6. UploadsBehindAddresses'
  BY <1>1, <1>2
     DEF OtherTraffic, Event, UploadsBehindAddresses, OutboxInv, Calls, Verdicts,
         PassIsSound, phone, backend
<1>7. SharedPhotosExist'
  BY <1>1, <1>2 DEF OtherTraffic, Event, SharedPhotosExist, OutboxInv, phone, backend
<1>8. DeliveredIsApplied'
  BY <1>1, <1>2
     DEF OtherTraffic, Event, DeliveredIsApplied, OutboxInv, Applied, phone, backend
<1>9. RemovedOnlyWhenSent'
  BY <1>1, <1>2 DEF OtherTraffic, Event, RemovedOnlyWhenSent, OutboxInv, phone, backend
<1>10. QED
  BY <1>4, <1>5, <1>6, <1>7, <1>8, <1>9
     DEF OutboxInv\*Arequestthatisoutbelongstoanitemstilltosend.
LEMMA ThisRequestFacts ==
  ASSUME OutboxInv, sync.wire
  PROVE  /\ ThisRequest \in Requests
         /\ ThisRequest.call = sync.step
         /\ ThisRequest.item = sync.item
         /\ sync.step \in Calls
         /\ sync.item \in Items
         /\ queue[sync.item].status = "PENDING"
BY DEF OutboxInv, PassIsSound, ThisRequest, Requests

LEMMA NoAnswerKeeps ==
  ASSUME OutboxInv, NoAnswer
  PROVE  OutboxInv'
<1>1. queue \in [Items -> Row] /\ sync \in Attempt /\ sync.wire
  BY DEF OutboxInv, TypeOK, NoAnswer
<1>2. late' = late \/ late' = late \cup {ThisRequest}
  BY GivenUpShape DEF NoAnswer
<1>3. /\ sync' \in Attempt
      /\ sync'.rest = sync.rest
      /\ sync'.item = sync.item
      /\ sync'.wire = FALSE
      /\ sync'.url => sync.url
      /\ \/ sync'.step = sync.step /\ sync'.url = sync.url
         \/ sync'.step \in {"later", "refused"}
  <2>1. PICK o \in {"error", "none"} : Fail(o)
    BY DEF NoAnswer
  <2>2. QED
    BY <1>1, <2>1, FailShape DEF Outcomes, Answers
<1>4. UNCHANGED <<queue, photos, price, uploads, shared, events>> /\ RecordFailure
  BY DEF NoAnswer, phone, backend, Fail
<1>5. TypeOK'
  BY <1>1, <1>2, <1>3, <1>4, ThisRequestFacts, BreakerShape DEF OutboxInv, TypeOK
<1>6. PassIsSound'
  BY <1>1, <1>3, <1>4, ThisRequestFacts DEF OutboxInv, PassIsSound, Calls, Verdicts
<1>7. UploadsBehindAddresses'
  BY <1>1, <1>2, <1>3, <1>4, ThisRequestFacts
     DEF OutboxInv, UploadsBehindAddresses, Calls
<1>8. SharedPhotosExist'
  BY <1>4 DEF OutboxInv, SharedPhotosExist
<1>9. DeliveredIsApplied'
  BY <1>1, <1>3, <1>4, ThisRequestFacts DEF OutboxInv, DeliveredIsApplied, Applied, Calls
<1>10. RemovedOnlyWhenSent'
  BY <1>4 DEF OutboxInv, RemovedOnlyWhenSent
<1>11. QED
  BY <1>5, <1>6, <1>7, <1>8, <1>9, <1>10 DEF OutboxInv

LEMMA LateRequestKeeps ==
  ASSUME OutboxInv, LateRequest
  PROVE  OutboxInv'
<1>1. PICK r \in late : (\E a \in Answers : Handle(r, a)) /\ late' = late \ {r}
  BY DEF LateRequest
<1>2. PICK a \in Answers : Handle(r, a)
  BY <1>1
<1>3. TypeOK /\ r \in Requests /\ r.item \in Items
  BY <1>1 DEF OutboxInv, TypeOK, Requests
<1>4. /\ price' \in Items \cup {NoPrice, OtherPrice}
      /\ uploads' \in SUBSET Items
      /\ shared' \in SUBSET Items
      /\ uploads \subseteq uploads'
      /\ shared \subseteq shared'
      /\ \A i \in shared' : i \in shared \/ (r.call = "message" /\ i = r.item)
      /\ price # NoPrice => price' # NoPrice
  BY <1>2, <1>3, HandleShape
<1>5. UNCHANGED <<queue, photos, sync, breaker, events>>
  BY DEF LateRequest, phone
<1>6. TypeOK'
  BY <1>1, <1>3, <1>4, <1>5 DEF TypeOK
<1>7. PassIsSound'
  BY <1>5 DEF OutboxInv, PassIsSound
<1>8. UploadsBehindAddresses'
  BY <1>1, <1>4, <1>5 DEF OutboxInv, UploadsBehindAddresses
<1>9. SharedPhotosExist'
  BY <1>1, <1>4 DEF OutboxInv, UploadsBehindAddresses, SharedPhotosExist
<1>10. DeliveredIsApplied'
  BY <1>4, <1>5 DEF OutboxInv, DeliveredIsApplied, Applied
<1>11. RemovedOnlyWhenSent'
  BY <1>5 DEF OutboxInv, RemovedOnlyWhenSent
<1>12. QED
  BY <1>6, <1>7, <1>8, <1>9, <1>10, <1>11 DEF OutboxInv

LEMMA AnswerKeeps ==
  ASSUME OutboxInv, NEW a \in Answers, Answer(a)
  PROVE  OutboxInv'
<1>1. TypeOK /\ queue \in [Items -> Row] /\ sync \in Attempt /\ sync.wire
  BY DEF OutboxInv, TypeOK, Answer
<1>2. /\ price' \in Items \cup {NoPrice, OtherPrice}
      /\ uploads' \in SUBSET Items
      /\ shared' \in SUBSET Items
      /\ uploads \subseteq uploads'
      /\ shared \subseteq shared'
      /\ \A i \in shared' : i \in shared \/ (sync.step = "message" /\ i = sync.item)
      /\ price # NoPrice => price' # NoPrice
      /\ a = "conflict" => sync.step = "quote" /\ price' # NoPrice
      /\ a = "ok" /\ sync.step = "quote" => price' # NoPrice
      /\ a = "ok" /\ sync.step = "upload" => sync.item \in uploads'
      /\ a = "ok" /\ sync.step = "message" => sync.item \in shared'
  <2>1. Handle(ThisRequest, a)
    BY DEF Answer
  <2>2. QED
    BY <1>1, <2>1, ThisRequestFacts, HandleShape
<1>3. /\ sync' \in Attempt
      /\ sync'.rest = sync.rest
      /\ sync'.item = sync.item
      /\ sync'.wire = FALSE
      /\ \/ sync'.step = sync.step /\ sync'.url = sync.url
         \/ sync'.step \in {"later", "refused"} /\ (sync'.url => sync.url)
         \/ sync'.step = "delivered" /\ a = "conflict" /\ (sync'.url => sync.url)
         \/ sync'.step = "delivered" /\ a = "ok" /\ sync.step # "upload" /\ ~ sync'.url
         \/ sync'.step = "message" /\ a = "ok" /\ sync.step = "upload" /\ sync'.url
  <2>1. CASE a = "ok"
    <3>1. Succeed
      BY <2>1 DEF Answer
    <3>2. QED
      BY <1>1, <2>1, <3>1, SucceedShape
  <2>2. CASE a # "ok"
    <3>1. Fail(a) /\ a \in Outcomes
      BY <2>2 DEF Answer, Outcomes
    <3>2. QED
      BY <1>1, <3>1, FailShape
  <2>3. QED
    BY <2>1, <2>2
<1>4. UNCHANGED <<queue, photos, late, events>> /\ (RecordFailure \/ RecordSuccess)
  BY DEF Answer, phone, Fail, Succeed
<1>5. TypeOK'
  BY <1>1, <1>2, <1>3, <1>4, BreakerShape DEF TypeOK
<1>6. PassIsSound'
  BY <1>1, <1>3, <1>4, ThisRequestFacts DEF OutboxInv, PassIsSound, Calls, Verdicts
<1>7. UploadsBehindAddresses'
  BY <1>1, <1>2, <1>3, <1>4, ThisRequestFacts
     DEF OutboxInv, UploadsBehindAddresses, Calls
<1>8. SharedPhotosExist'
  BY <1>1, <1>2, ThisRequestFacts DEF OutboxInv, UploadsBehindAddresses, SharedPhotosExist
<1>9. DeliveredIsApplied'
  <2>1. \A i \in Items : queue'[i].status = "COMPLETED" => Applied(i)'
    BY <1>2, <1>4 DEF OutboxInv, DeliveredIsApplied, Applied
  <2>2. sync'.step = "delivered" => Applied(sync.item)'
    <3>1. CASE a = "conflict" \/ a = "ok"
      <4>1. /\ sync.step = "quote" => queue[sync.item].kind = "QUOTE"
            /\ sync.step \in {"upload", "message"} => queue[sync.item].kind = "PHOTO"
        BY DEF OutboxInv, PassIsSound
      <4>2. QED
        BY <1>1, <1>2, <1>3, <1>4, <4>1, ThisRequestFacts DEF Applied, Calls
    <3>2. CASE ~ (a = "conflict" \/ a = "ok")
      BY <1>1, <1>3, <3>2, ThisRequestFacts DEF Calls
    <3>3. QED
      BY <3>1, <3>2
  <2>3. QED
    BY <1>3, <2>1, <2>2 DEF DeliveredIsApplied
<1>10. RemovedOnlyWhenSent'
  BY <1>4 DEF OutboxInv, RemovedOnlyWhenSent
<1>11. QED
  BY <1>5, <1>6, <1>7, <1>8, <1>9, <1>10 DEF OutboxInv

LEMMA StutterKeeps ==
  ASSUME OutboxInv, UNCHANGED vars
  PROVE  OutboxInv'
BY DEF vars, OutboxInv, TypeOK, PassIsSound, UploadsBehindAddresses,
       SharedPhotosExist, DeliveredIsApplied, RemovedOnlyWhenSent, Applied

LEMMA StepInv == OutboxInv /\ [Next]_vars => OutboxInv'
<1> SUFFICES ASSUME OutboxInv, [Next]_vars
             PROVE  OutboxInv'
  OBVIOUS
<1>1. ASSUME Pass PROVE OutboxInv'
  BY <1>1, StartPassKeeps, PickItemKeeps, EndPassKeeps, PhotoMissingKeeps, SendKeeps,
     TurnAwayKeeps, MarkSentKeeps, RemoveFileKeeps, RescheduleKeeps, MarkFailedKeeps
     DEF Pass
<1>2. ASSUME NEW a \in Answers, Answer(a) PROVE OutboxInv'
  BY <1>2, AnswerKeeps
<1>3. ASSUME NEW i \in Items, Screen(i) PROVE OutboxInv'
  BY <1>3, QueueQuoteKeeps, QueuePhotoKeeps, RetryKeeps DEF Screen
<1>4. QED
  BY <1>1, <1>2, <1>3, NoAnswerKeeps, LateRequestKeeps, PricedElsewhereKeeps,
     CooldownEndsKeeps, OtherTrafficKeeps, AppDiesKeeps, DatabaseFailsKeeps,
     TimePassesKeeps, PhotoLostKeeps, StutterKeeps DEF Next

\* In every reachable state, for any number of rows, resends and failures: the
\* pass is sound, no message names a photo the backend lacks, "sent" is never
\* said of work the backend has no trace of, and no photo still to send has
\* lost its file to the clean-up.
THEOREM OutboxInvariance == Spec => []OutboxInv
<1>1. QED
  BY InitInv, StepInv, PTL DEF Spec

\* A photo file is removed only once its row is COMPLETED.
THEOREM PhotoIsKept == Spec => []RemovedOnlyWhenSent
<1>1. OutboxInv => RemovedOnlyWhenSent
  BY DEF OutboxInv
<1>2. QED
  BY <1>1, OutboxInvariance, PTL

\* A message never names a photo the backend does not have.
THEOREM MessageHasItsPhoto == Spec => []SharedPhotosExist
<1>1. OutboxInv => SharedPhotosExist
  BY DEF OutboxInv
<1>2. QED
  BY <1>1, OutboxInvariance, PTL

-----------------------------------------------------------------------------
(* The refinement: what each step is to Delivery *)

Shown == [i \in Items |-> queue[i].status]

\* The backend gains things and the rows stay.
LEMMA GainIsStore ==
  ASSUME queue' = queue, price # NoPrice => price' # NoPrice, shared \subseteq shared'
  PROVE  Phone!Store
<1>1. Stored \subseteq Stored' /\ Stored' \subseteq {i \in Items : Shown[i] # "NONE"}
  BY DEF Stored, Applied, Shown
<1>2. Stored' = Stored \cup Stored'
  BY <1>1
<1>3. Shown' = Shown
  BY DEF Shown
<1>4. QED
  BY <1>1, <1>2, <1>3 DEF Phone!Store, Shown

\* One row gets status s, and the backend stays.
LEMMA RowIsShown ==
  ASSUME NEW i \in Items, NEW s,
         \A j \in Items : j # i => queue'[j].status = queue[j].status,
         queue'[i].status = s
  PROVE  Shown' = [Shown EXCEPT ![i] = s]
BY DEF Shown

LEMMA StoredStays ==
  ASSUME \A j \in Items : /\ queue'[j].kind = queue[j].kind
                          /\ queue'[j].status = "NONE" <=> queue[j].status = "NONE",
         UNCHANGED <<price, shared>>
  PROVE  Stored' = Stored
BY DEF Stored, Applied

LEMMA EnqueueIsSave ==
  ASSUME queue \in [Items -> Row], NEW i \in Items, NEW k \in Kinds, Enqueue(i, k),
         UNCHANGED <<price, shared>>
  PROVE  Phone!Save(i)
<1>1. /\ queue[i].status = "NONE"
      /\ queue'[i].status = "PENDING"
      /\ \A j \in Items : j # i => queue'[j] = queue[j]
  BY DEF Enqueue
<1>2. Shown' = [Shown EXCEPT ![i] = "PENDING"]
  BY <1>1, RowIsShown
<1>3. i \notin Stored
  BY <1>1 DEF Stored
<1>4. \A j \in Items : j # i => (j \in Stored' <=> j \in Stored)
  BY <1>1 DEF Stored, Applied
<1>5. Stored \subseteq Items /\ Stored' \subseteq Items
  BY DEF Stored
<1>6. Stored' \in {Stored, Stored \cup {i}}
  <2>1. CASE i \in Stored'
    BY <1>3, <1>4, <1>5, <2>1
  <2>2. CASE i \notin Stored'
    BY <1>3, <1>4, <1>5, <2>2
  <2>3. QED
    BY <2>1, <2>2
<1>7. Shown[i] = "NONE"
  BY <1>1 DEF Shown
<1>8. QED
  BY <1>2, <1>6, <1>7 DEF Phone!Save, Shown

LEMMA RetryIsTryAgain ==
  ASSUME TypeOK, NEW i \in Items, Retry(i)
  PROVE  Phone!TryAgain(i)
<1>1. queue' = [queue EXCEPT ![i].status = "PENDING", ![i].due = TRUE]
  BY DEF Retry
<1>2. /\ queue[i].status = "FAILED"
      /\ queue'[i].status = "PENDING"
      /\ queue'[i].kind = queue[i].kind
      /\ \A j \in Items : j # i => queue'[j] = queue[j]
  <2>1. "PENDING" \in Statuses /\ TRUE \in BOOLEAN /\ queue \in [Items -> Row]
    BY DEF Statuses, TypeOK
  <2>2. queue[i].status = "FAILED"
    BY DEF Retry
  <2>3. QED
    BY <1>1, <2>1, <2>2, PendingShape
<1>3. Shown' = [Shown EXCEPT ![i] = "PENDING"]
  BY <1>2, RowIsShown
<1>4. Stored' = Stored
  BY <1>2, StoredStays DEF Retry, backend
<1>5. QED
  BY <1>2, <1>3, <1>4 DEF Phone!TryAgain, Shown

LEMMA MarkSentIsDeliver ==
  ASSUME OutboxInv, MarkSent, NEW i, i = sync.item
  PROVE  i \in Items /\ Phone!Deliver(i)
<1>1. /\ i \in Items
      /\ queue[i].status = "PENDING"
      /\ Applied(i)
  BY DEF OutboxInv, MarkSent, PassIsSound, DeliveredIsApplied, Verdicts
<1>2. /\ queue'[i].status = "COMPLETED"
      /\ queue'[i].kind = queue[i].kind
      /\ \A j \in Items : j # i => queue'[j] = queue[j]
  <2>1. "COMPLETED" \in Statuses /\ queue \in [Items -> Row]
    BY DEF Statuses, OutboxInv, TypeOK
  <2>2. queue' = [queue EXCEPT ![i].status = "COMPLETED"]
    BY DEF MarkSent
  <2>3. QED
    BY <1>1, <2>1, <2>2, StatusShape
<1>3. Shown' = [Shown EXCEPT ![i] = "COMPLETED"]
  BY <1>1, <1>2, RowIsShown
<1>4. Stored' = Stored
  BY <1>1, <1>2, StoredStays DEF MarkSent, backend
<1>5. i \in Stored /\ Shown[i] = "PENDING"
  BY <1>1 DEF Stored, Shown
<1>6. QED
  BY <1>1, <1>3, <1>4, <1>5 DEF Phone!Deliver, Shown

LEMMA MarkFailedIsRefuse ==
  ASSUME OutboxInv, MarkFailed, NEW i, i = sync.item
  PROVE  i \in Items /\ Phone!Refuse(i)
<1>1. i \in Items /\ queue[i].status = "PENDING"
  BY DEF OutboxInv, MarkFailed, PassIsSound, Verdicts
<1>2. /\ queue'[i].status = "FAILED"
      /\ queue'[i].kind = queue[i].kind
      /\ \A j \in Items : j # i => queue'[j] = queue[j]
  <2>1. "FAILED" \in Statuses /\ queue \in [Items -> Row]
    BY DEF Statuses, OutboxInv, TypeOK
  <2>2. queue' = [queue EXCEPT ![i].status = "FAILED"]
    BY DEF MarkFailed
  <2>3. QED
    BY <1>1, <2>1, <2>2, StatusShape
<1>3. Shown' = [Shown EXCEPT ![i] = "FAILED"]
  BY <1>1, <1>2, RowIsShown
<1>4. Stored' = Stored
  BY <1>1, <1>2, StoredStays DEF MarkFailed, backend
<1>5. Shown[i] = "PENDING"
  BY <1>1 DEF Shown
<1>6. QED
  BY <1>1, <1>3, <1>4, <1>5 DEF Phone!Refuse, Shown

\* A new due time and a remembered upload do not show.
LEMMA DueIsStutter ==
  ASSUME OutboxInv, Reschedule \/ \E i \in Items : TimePasses(i)
  PROVE  UNCHANGED Phone!vars
<1>1. \A j \in Items : /\ queue'[j].kind = queue[j].kind
                       /\ queue'[j].status = queue[j].status
  <2>1. queue \in [Items -> Row] /\ sync \in Attempt
    BY DEF OutboxInv, TypeOK
  <2>2. ASSUME NEW i \in Items, TimePasses(i)
        PROVE  \A j \in Items : /\ queue'[j].kind = queue[j].kind
                                /\ queue'[j].status = queue[j].status
    BY <2>1, <2>2 DEF TimePasses, Row
  <2>3. CASE Reschedule
    <3>1. sync.item \in Items /\ FALSE \in BOOLEAN /\ sync.url \in BOOLEAN
      BY <2>1, <2>3 DEF OutboxInv, Reschedule, PassIsSound, Verdicts, Attempt
    <3>2. queue' = [queue EXCEPT ![sync.item].due = FALSE, ![sync.item].url = sync.url]
      BY <2>3 DEF Reschedule
    <3>3. QED
      BY <2>1, <3>1, <3>2, UrlShape
  <2>4. QED
    BY <2>2, <2>3
<1>2. UNCHANGED <<price, shared>>
  BY DEF Reschedule, TimePasses, backend
<1>3. Stored' = Stored
  BY <1>1, <1>2, StoredStays
<1>4. Shown' = Shown
  BY <1>1 DEF Shown
<1>5. QED
  BY <1>3, <1>4 DEF Phone!vars, Shown

\* Every other step leaves the rows alone and takes nothing from the backend.
LEMMA RestIsStore ==
  ASSUME OutboxInv,
         \/ StartPass \/ PickItem \/ EndPass \/ PhotoMissing \/ Send \/ TurnAway
         \/ RemoveFile \/ (\E a \in Answers : Answer(a)) \/ NoAnswer \/ LateRequest
         \/ PricedElsewhere \/ CooldownEnds \/ OtherTraffic \/ AppDies \/ DatabaseFails
         \/ \E i \in Items : PhotoLost(i)
  PROVE  Phone!Store
<1>1. queue' = queue
  BY DEF StartPass, PickItem, EndPass, PhotoMissing, Send, TurnAway, RemoveFile, Answer,
         NoAnswer, LateRequest, PricedElsewhere, CooldownEnds, OtherTraffic, AppDies,
         DatabaseFails, PhotoLost, phone
<1>2. (price # NoPrice => price' # NoPrice) /\ shared \subseteq shared'
  <2>1. ASSUME NEW a \in Answers, Answer(a)
        PROVE  (price # NoPrice => price' # NoPrice) /\ shared \subseteq shared'
    <3>1. ThisRequest \in Requests /\ TypeOK /\ Handle(ThisRequest, a)
      BY <2>1, ThisRequestFacts DEF Answer, OutboxInv
    <3>2. QED
      BY <3>1, HandleShape
  <2>2. CASE LateRequest
    <3>1. PICK r \in late : \E a \in Answers : Handle(r, a)
      BY <2>2 DEF LateRequest
    <3>2. TypeOK /\ r \in Requests
      BY <3>1 DEF OutboxInv, TypeOK
    <3>3. QED
      BY <3>1, <3>2, HandleShape
  <2>3. CASE PricedElsewhere
    BY <2>3 DEF PricedElsewhere
  <2>4. QED
    BY <2>1, <2>2, <2>3
       DEF StartPass, PickItem, EndPass, PhotoMissing, Send, TurnAway, RemoveFile,
           NoAnswer, CooldownEnds, OtherTraffic, AppDies, DatabaseFails, PhotoLost, backend
<1>3. QED
  BY <1>1, <1>2, GainIsStore

LEMMA StepRefines == OutboxInv /\ [Next]_vars => [Phone!Next]_(Phone!vars)
<1> SUFFICES ASSUME OutboxInv, [Next]_vars
             PROVE  [Phone!Next]_(Phone!vars)
  OBVIOUS
<1>1. ASSUME NEW i \in Items, Screen(i) PROVE Phone!Next
  <2>1. queue \in [Items -> Row] /\ TypeOK /\ "QUOTE" \in Kinds /\ "PHOTO" \in Kinds
    BY DEF OutboxInv, TypeOK, Kinds
  <2>2. CASE QueueQuote(i) \/ QueuePhoto(i)
    <3>1. \E k \in Kinds : Enqueue(i, k) /\ UNCHANGED <<price, shared>>
      BY <2>1, <2>2 DEF QueueQuote, QueuePhoto, backend
    <3>2. Phone!Save(i)
      BY <2>1, <3>1, EnqueueIsSave
    <3>3. QED
      BY <3>2 DEF Phone!Next
  <2>3. CASE Retry(i)
    BY <2>1, <2>3, RetryIsTryAgain DEF Phone!Next
  <2>4. QED
    BY <1>1, <2>2, <2>3 DEF Screen
<1>2. CASE MarkSent
  <2>1. \E i \in Items : Phone!Deliver(i)
    <3>1. PICK i : i = sync.item
      OBVIOUS
    <3>2. i \in Items /\ Phone!Deliver(i)
      BY <1>2, <3>1, MarkSentIsDeliver
    <3>3. QED
      BY <3>2
  <2>2. QED
    BY <2>1 DEF Phone!Next
<1>3. CASE MarkFailed
  <2>1. \E i \in Items : Phone!Refuse(i)
    <3>1. PICK i : i = sync.item
      OBVIOUS
    <3>2. i \in Items /\ Phone!Refuse(i)
      BY <1>3, <3>1, MarkFailedIsRefuse
    <3>3. QED
      BY <3>2
  <2>2. QED
    BY <2>1 DEF Phone!Next
<1>4. CASE Reschedule \/ \E i \in Items : TimePasses(i)
  BY <1>4, DueIsStutter
<1>5. CASE \/ StartPass \/ PickItem \/ EndPass \/ PhotoMissing \/ Send \/ TurnAway
           \/ RemoveFile \/ (\E a \in Answers : Answer(a)) \/ NoAnswer \/ LateRequest
           \/ PricedElsewhere \/ CooldownEnds \/ OtherTraffic \/ AppDies \/ DatabaseFails
           \/ \E i \in Items : PhotoLost(i)
  BY <1>5, RestIsStore DEF Phone!Next
<1>6. CASE UNCHANGED vars
  <2>1. Shown' = Shown /\ Stored' = Stored
    BY <1>6 DEF vars, Shown, Stored, Applied
  <2>2. QED
    BY <2>1 DEF Phone!vars, Shown
<1>7. QED
  BY <1>1, <1>2, <1>3, <1>4, <1>5, <1>6 DEF Next, Pass

\* The queue implements the phone's promise: every step of the code is a step
\* of Delivery, or does not show.
THEOREM QueueDelivers == Spec => ImplementsDelivery
<1>1. Init => Phone!Init
  BY DEF Init, Phone!Init, Stored
<1>2. QED
  BY <1>1, OutboxInvariance, StepRefines, PTL DEF Spec, ImplementsDelivery, Phone!Spec
=============================================================================
