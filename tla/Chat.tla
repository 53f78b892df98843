-------------------------------- MODULE Chat --------------------------------
(***************************************************************************)
(* The chat of one job: the messages app stores and broadcasts a message,  *)
(* and the web client of one party (the reader) shows what it fetches, is  *)
(* pushed, and is answered.                                                *)
(*                                                                         *)
(* SendMessageUseCase inserts and commits, then publishes to Redis; a      *)
(* failure in between leaves the message stored and never pushed.  The     *)
(* socket endpoint accepts the socket before it subscribes to the channel, *)
(* and pub/sub keeps nothing for a late subscriber.  The client polls only *)
(* while its socket is down, and what a fetch returns replaces the cache,  *)
(* also when a push arrived after the server read the page.                *)
(*                                                                         *)
(* Messages are numbered by created_at, which the insert sets; commits may *)
(* come in another order.  Abstracted: bodies, media, the party check, the *)
(* reader's other query refetches are one "at any time".                   *)
(***************************************************************************)
EXTENDS Integers, Sequences, FiniteSets

CONSTANTS
  MaxMessages,   \* bound: messages sent in one behaviour
  OwnMessages,   \* those of them that the reader sends; the peer sends the rest
  PageLimit      \* Pagination's default limit, 50 in the code

Messages == 1 .. MaxMessages

ASSUME ChatAssumption ==
  MaxMessages \in Nat /\ PageLimit \in Nat \ {0} /\ OwnMessages \subseteq Messages

VARIABLES
  sending,   \* how far the POST of each message is
  read,      \* messages with a read_at
  socket,    \* of the reader: down, accepted, subscribed
  wire,      \* pushed and not yet received
  page,      \* the answer to a fetch on its way, or NoPage
  cache      \* the query cache: what the screen shows

chatVars == <<sending, read, socket, wire, page, cache>>

NoPage == <<0>>

SendSteps == {"none", "inserted", "committed", "published", "ended"}

ChatTypeOK ==
  /\ sending \in [Messages -> SendSteps]
  /\ read \subseteq Messages
  /\ socket \in {"down", "accepted", "subscribed"}
  /\ wire \in Seq(Messages)
  /\ page \in Seq(Messages) \cup {NoPage}
  /\ cache \in Seq(Messages)

ChatInit ==
  /\ sending = [m \in Messages |-> "none"]
  /\ read = {}
  /\ socket = "down"
  /\ wire = <<>>
  /\ page = NoPage
  /\ cache = <<>>

\* Rows other transactions see: committed, whatever became of the answer.
StoredMessages == {m \in Messages : sending[m] \in {"committed", "published", "ended"}}

Shown == {cache[i] : i \in DOMAIN cache}

\* These messages, oldest first: the i-th is the one that i of them precede or are.
Chronological(S) ==
  [i \in 1 .. Cardinality(S) |-> CHOOSE m \in S : Cardinality({k \in S : k <= m}) = i]

\* list_by_job: oldest first, one page.
FirstPage ==
  LET all == Chronological(StoredMessages) IN
  SubSeq(all, 1, IF Len(all) < PageLimit THEN Len(all) ELSE PageLimit)

\* Mutation: a message is appended as it comes.
AppendMessage(existing, m) == Append(existing, m)

\* mergeMessage: replaced by id, sorted by created_at.
MergeMessage(existing, m) ==
  Chronological({m} \cup {existing[i] : i \in DOMAIN existing})

----------------------------------------------------------------------------
(* SendMessageUseCase *)

SendStep(m, from, to) ==
  /\ sending[m] = from
  /\ sending' = [sending EXCEPT ![m] = to]

\* Messages are inserted in the order of their numbers.
InsertMessage(m) ==
  /\ SendStep(m, "none", "inserted")
  /\ \A k \in Messages : k < m => sending[k] # "none"
  /\ UNCHANGED <<read, socket, wire, page, cache>>

CommitMessage(m) ==
  /\ SendStep(m, "inserted", "committed")
  /\ UNCHANGED <<read, socket, wire, page, cache>>

\* Mutation: published before the commit.
PublishFlushed(m) ==
  /\ SendStep(m, "inserted", "inserted")
  /\ m \notin Shown \cup {wire[i] : i \in DOMAIN wire}
  /\ wire' = IF socket = "subscribed" THEN Append(wire, m) ELSE wire
  /\ UNCHANGED <<read, socket, page, cache>>

\* broadcaster.publish: only who is subscribed by now gets it.
PublishMessage(m) ==
  /\ SendStep(m, "committed", "published")
  /\ wire' = IF socket = "subscribed" THEN Append(wire, m) ELSE wire
  /\ UNCHANGED <<read, socket, page, cache>>

\* The POST is answered; the reader's own client merges the answer.
AnswerSend(m) ==
  /\ SendStep(m, "published", "ended")
  /\ cache' = IF m \in OwnMessages THEN MergeMessage(cache, m) ELSE cache
  /\ UNCHANGED <<read, socket, wire, page>>

\* The process dies, Redis refuses, or the answer is lost.
SendFails(m) ==
  /\ \/ SendStep(m, "committed", "ended")
     \/ SendStep(m, "published", "ended")
  /\ UNCHANGED <<read, socket, wire, page, cache>>

\* MarkMessagesReadUseCase, called when the screen shows a newer message of
\* the peer: everything unread that the caller did not send is read now.
MarkMessagesRead ==
  /\ Shown \ OwnMessages # {}
  /\ read' = read \cup (StoredMessages \ OwnMessages)
  /\ UNCHANGED <<sending, socket, wire, page, cache>>

----------------------------------------------------------------------------
(* chat_socket and useChatSocket *)

AcceptSocket ==
  /\ socket = "down"
  /\ socket' = "accepted"
  /\ UNCHANGED <<sending, read, wire, page, cache>>

Subscribe ==
  /\ socket = "accepted"
  /\ socket' = "subscribed"
  /\ UNCHANGED <<sending, read, wire, page, cache>>

Disconnect ==
  /\ socket # "down"
  /\ socket' = "down"
  /\ wire' = <<>>
  /\ UNCHANGED <<sending, read, page, cache>>

ReceivePush ==
  /\ wire # <<>>
  /\ cache' = MergeMessage(cache, Head(wire))
  /\ wire' = Tail(wire)
  /\ UNCHANGED <<sending, read, socket, page>>

----------------------------------------------------------------------------
(* useMessages *)

FetchPage ==
  /\ page = NoPage
  /\ page' = FirstPage
  /\ UNCHANGED <<sending, read, socket, wire, cache>>

\* Mutation: the interval runs while the socket is up.
PollWhileLive == socket = "subscribed" /\ FetchPage

\* refetchInterval: FALLBACK_POLL_MS unless the socket is connected.
Poll == socket = "down" /\ FetchPage

\* Mount, focus or reconnect.
Refetch == socket # "down" /\ FetchPage

\* The result replaces the cached list.
PageArrives ==
  /\ page # NoPage
  /\ cache' = page
  /\ page' = NoPage
  /\ UNCHANGED <<sending, read, socket, wire>>

----------------------------------------------------------------------------

ChatNext ==
  \/ \E m \in Messages :
       \/ InsertMessage(m)
       \/ CommitMessage(m)
       \/ PublishMessage(m)
       \/ AnswerSend(m)
       \/ SendFails(m)
  \/ MarkMessagesRead
  \/ AcceptSocket
  \/ Subscribe
  \/ Disconnect
  \/ ReceivePush
  \/ Poll
  \/ Refetch
  \/ PageArrives

ChatSpec == ChatInit /\ [][ChatNext]_chatVars

----------------------------------------------------------------------------
(* Properties *)

\* Subscribers only ever see durably stored messages: what is shown, or on
\* its way to the screen by push, fetch or answer, is committed.
OnlyStoredShown ==
  Shown \cup {wire[i] : i \in DOMAIN wire}
        \cup (IF page = NoPage THEN {} ELSE {page[i] : i \in DOMAIN page}) \subseteq StoredMessages

\* A message that arrives by push, by fetch and by answer is shown once, and
\* always in the order the messages were written, whatever order they commit
\* and arrive in.
ShownOnceInOrder == \A i, k \in DOMAIN cache : i < k => cache[i] < cache[k]

\* The inductive invariant behind both: a page on its way is in order too.
ChatInv ==
  /\ ChatTypeOK
  /\ OnlyStoredShown
  /\ ShownOnceInOrder
  /\ page # NoPage => \A i, k \in DOMAIN page : i < k => page[i] < page[k]

\* Once the socket stays down, polling brings every stored message of the
\* first page to the screen and keeps it there, also one whose push failed or
\* fell between two sockets, and whatever older page was still on its way.
FallbackCatchesUp ==
  \A m \in Messages : m <= PageLimit =>
    (<>[](m \in StoredMessages /\ socket = "down") => <>[](m \in Shown))

=============================================================================
