------------------------------ MODULE ChatProofs ------------------------------
(***************************************************************************)
(* Proofs about Chat for every number of messages, every page size and     *)
(* every split of the messages between the two parties: the screen shows   *)
(* stored messages only, each once and in the order they were written.     *)
(***************************************************************************)
EXTENDS Chat, FiniteSetTheorems, FunctionTheorems, SequenceTheorems, TLAPS

----------------------------------------------------------------------------
(* Chronological order *)

\* How many messages of S are no younger than m.
Rank(S, m) == Cardinality({k \in S : k <= m})

LEMMA MessagesFinite ==
  ASSUME NEW S \in SUBSET Messages
  PROVE  IsFiniteSet(S) /\ Cardinality(S) \in Nat
<1>1. IsFiniteSet(Messages)
  BY ChatAssumption, FS_Interval DEF Messages
<1> QED
  BY <1>1, FS_Subset, FS_CardinalityType

\* A younger message has a higher rank.
LEMMA RankGrows ==
  ASSUME NEW S \in SUBSET Messages, NEW m \in S
  PROVE  /\ Rank(S, m) \in 1 .. Cardinality(S)
         /\ \A n \in S : m < n => Rank(S, m) < Rank(S, n)
<1> DEFINE Upto(x) == {k \in S : k <= x}
<1>1. \A x \in S : x \in Int
  BY ChatAssumption DEF Messages
<1>2. \A x : Upto(x) \in SUBSET S /\ IsFiniteSet(Upto(x)) /\ Cardinality(Upto(x)) \in Nat
             /\ Cardinality(Upto(x)) <= Cardinality(S)
  BY MessagesFinite, FS_Subset, FS_CardinalityType
<1>3. Cardinality(Upto(m)) # 0
  <2>1. m \in Upto(m)
    BY <1>1
  <2> QED
    BY <1>2, <2>1, FS_EmptySet
<1>4. ASSUME NEW n \in S, m < n
      PROVE  Cardinality(Upto(m)) < Cardinality(Upto(n))
  <2>1. /\ Upto(m) \in SUBSET Upto(n)
        /\ n \in Upto(n) /\ n \notin Upto(m)
    BY <1>1, <1>4
  <2>2. Upto(m) # Upto(n)
    BY <2>1
  <2> HIDE DEF Upto
  <2>3. /\ Cardinality(Upto(m)) <= Cardinality(Upto(n))
        /\ Cardinality(Upto(n)) # Cardinality(Upto(m))
    BY <1>2, <2>1, <2>2, FS_Subset
  <2> QED
    BY <1>2, <2>3
<1>5. /\ Cardinality(Upto(m)) \in Nat /\ Cardinality(S) \in Nat
      /\ Cardinality(Upto(m)) <= Cardinality(S)
  BY <1>2, MessagesFinite
<1> QED
  BY <1>3, <1>4, <1>5 DEF Rank

\* Every rank is taken: as many ranks as messages, no two of them alike.
LEMMA RanksTaken ==
  ASSUME NEW S \in SUBSET Messages, NEW i \in 1 .. Cardinality(S)
  PROVE  \E m \in S : Rank(S, m) = i
<1> DEFINE n == Cardinality(S)
           rank == [m \in S |-> Rank(S, m)]
<1>1. n \in Nat /\ IsFiniteSet(S)
  BY MessagesFinite
<1>2. rank \in [S -> 1 .. n]
  BY RankGrows
<1>3. \A a, b \in S : rank[a] = rank[b] => a = b
  <2>1. ASSUME NEW a \in S, NEW b \in S, a < b PROVE rank[a] # rank[b]
    <3>1. Rank(S, a) < Rank(S, b) /\ Rank(S, a) \in 1 .. n /\ Rank(S, b) \in 1 .. n
      BY <2>1, RankGrows
    <3> QED
      BY <1>1, <3>1
  <2>2. \A a, b \in S : a < b \/ b < a \/ a = b
    BY ChatAssumption DEF Messages
  <2> QED
    BY <2>1, <2>2
<1>4. rank \in Injection(S, 1 .. n)
  BY <1>2, <1>3 DEF Injection, IsInjective
<1>5. IsFiniteSet(1 .. n) /\ Cardinality(1 .. n) = n
  BY <1>1, FS_Interval
<1>6. rank \in Surjection(S, 1 .. n)
  BY <1>4, <1>5, FS_Injection
<1>7. \E m \in S : rank[m] = i
  BY <1>6 DEF Surjection
<1> QED
  BY <1>7

\* The chronological list holds exactly the messages of S, each once, oldest
\* first.
LEMMA ChronologicalSorts ==
  ASSUME NEW S \in SUBSET Messages
  PROVE  /\ Chronological(S) \in Seq(S)
         /\ DOMAIN Chronological(S) = 1 .. Cardinality(S)
         /\ Len(Chronological(S)) = Cardinality(S)
         /\ \A i, k \in 1 .. Cardinality(S) : i < k => Chronological(S)[i] < Chronological(S)[k]
         /\ \A m \in S : \E i \in 1 .. Cardinality(S) : Chronological(S)[i] = m
<1> DEFINE n == Cardinality(S)
           c == Chronological(S)
<1>1. n \in Nat
  BY MessagesFinite
<1>2. c = [i \in 1 .. n |-> CHOOSE m \in S : Rank(S, m) = i]
  BY DEF Chronological, Rank
<1>3. \A i \in 1 .. n : c[i] \in S /\ Rank(S, c[i]) = i
  BY <1>2, RanksTaken
<1>4. DOMAIN c = 1 .. n /\ c \in [1 .. n -> S]
  BY <1>2, <1>3
<1> HIDE DEF c, n
<1>5. c \in Seq(S) /\ Len(c) = n
  BY <1>1, <1>4
<1>6. \A a, b \in S : a < b \/ b < a \/ a = b
  BY ChatAssumption DEF Messages
<1>7. \A a, b \in S : a < b => Rank(S, a) < Rank(S, b)
  BY RankGrows
<1>8. \A i, k \in 1 .. n : i < k => c[i] < c[k]
  <2>1. ASSUME NEW i \in 1 .. n, NEW k \in 1 .. n, i < k PROVE c[i] < c[k]
    <3>1. c[i] \in S /\ c[k] \in S /\ Rank(S, c[i]) = i /\ Rank(S, c[k]) = k
      BY <1>3
    <3>2. ~(c[k] < c[i]) /\ c[i] # c[k]
      BY <1>1, <1>7, <2>1, <3>1
    <3> QED
      BY <1>6, <3>1, <3>2
  <2> QED
    BY <2>1
<1>9. \A m \in S : \E i \in 1 .. n : c[i] = m
  <2>1. ASSUME NEW m \in S PROVE c[Rank(S, m)] = m /\ Rank(S, m) \in 1 .. n
    <3>1. Rank(S, m) \in 1 .. n
      BY RankGrows DEF n
    <3>2. c[Rank(S, m)] \in S /\ Rank(S, c[Rank(S, m)]) = Rank(S, m)
      BY <1>3, <3>1
    <3>3. ~(c[Rank(S, m)] < m) /\ ~(m < c[Rank(S, m)])
      BY <1>1, <1>7, <3>1, <3>2
    <3> QED
      BY <1>6, <3>1, <3>2, <3>3
  <2> QED
    BY <2>1
<1> QED
  BY <1>4, <1>5, <1>8, <1>9 DEF c, n

----------------------------------------------------------------------------
(* Lists of messages *)

Increasing(s) == \A i, k \in DOMAIN s : i < k => s[i] < s[k]
Among(s, S) == \A i \in DOMAIN s : s[i] \in S

\* What is shown, on the wire and on its way are stored.
LEMMA StoredShownAre ==
  OnlyStoredShown <=>
    /\ Among(cache, StoredMessages)
    /\ Among(wire, StoredMessages)
    /\ page # NoPage => Among(page, StoredMessages)
BY DEF OnlyStoredShown, Shown, Among

LEMMA StoredShownAreThen ==
  OnlyStoredShown' <=>
    /\ Among(cache', StoredMessages')
    /\ Among(wire', StoredMessages')
    /\ page' # NoPage => Among(page', StoredMessages')
BY DEF OnlyStoredShown, Shown, Among

LEMMA SeqOfMore ==
  ASSUME NEW T, NEW S, T \subseteq S, NEW s \in Seq(T)
  PROVE  s \in Seq(S) /\ Among(s, T)
BY DEF Among

LEMMA MergeSorts ==
  ASSUME NEW s \in Seq(Messages), NEW m \in Messages
  PROVE  /\ MergeMessage(s, m) \in Seq(Messages)
         /\ Increasing(MergeMessage(s, m))
         /\ \A S : m \in S /\ Among(s, S) => Among(MergeMessage(s, m), S)
<1> DEFINE T == {m} \cup {s[i] : i \in DOMAIN s}
           c == Chronological(T)
<1>1. T \in SUBSET Messages
  OBVIOUS
<1>2. /\ c \in Seq(T) /\ DOMAIN c = 1 .. Cardinality(T)
      /\ \A i, k \in 1 .. Cardinality(T) : i < k => c[i] < c[k]
  BY <1>1, ChronologicalSorts
<1>3. \A S : m \in S /\ Among(s, S) => T \subseteq S
  BY DEF Among
<1>4. MergeMessage(s, m) = c
  BY DEF MergeMessage
<1> HIDE DEF T, c
<1>5. c \in Seq(Messages) /\ (\A i \in DOMAIN c : c[i] \in T)
  BY <1>1, <1>2, SeqOfMore DEF Among
<1>6. Increasing(c)
  BY <1>2 DEF Increasing
<1>7. \A S : m \in S /\ Among(s, S) => Among(c, S)
  BY <1>3, <1>5 DEF Among
<1> QED
  BY <1>4, <1>5, <1>6, <1>7

LEMMA FirstPageSorted ==
  /\ FirstPage \in Seq(Messages)
  /\ Increasing(FirstPage)
  /\ Among(FirstPage, StoredMessages)
<1> DEFINE all == Chronological(StoredMessages)
           n == IF Len(all) < PageLimit THEN Len(all) ELSE PageLimit
<1>1. StoredMessages \in SUBSET Messages
  BY DEF StoredMessages
<1>2. /\ all \in Seq(StoredMessages) /\ DOMAIN all = 1 .. Len(all)
      /\ \A i, k \in 1 .. Len(all) : i < k => all[i] < all[k]
  BY <1>1, ChronologicalSorts
<1>3. FirstPage = SubSeq(all, 1, n)
  BY DEF FirstPage
<1> HIDE DEF all
<1>4. n \in Nat /\ n <= Len(all)
  BY <1>2, ChatAssumption
<1> HIDE DEF n
<1>5. \A i \in 1 .. n : all[i] \in StoredMessages
  BY <1>2, <1>4
<1>6. /\ SubSeq(all, 1, n) \in Seq(StoredMessages)
      /\ Len(SubSeq(all, 1, n)) = n
      /\ \A i \in 1 .. n : SubSeq(all, 1, n)[i] = all[i]
  <2>1. /\ SubSeq(all, 1, n) \in Seq(StoredMessages)
        /\ Len(SubSeq(all, 1, n)) = IF 1 <= n THEN n - 1 + 1 ELSE 0
        /\ \A i \in 1 .. n - 1 + 1 : SubSeq(all, 1, n)[i] = all[1 + i - 1]
    BY <1>4, <1>5, SubSeqProperties
  <2>2. n - 1 + 1 = n /\ (\A i \in 1 .. n : 1 + i - 1 = i)
    BY <1>4
  <2> QED
    BY <1>4, <2>1, <2>2
<1>7. DOMAIN SubSeq(all, 1, n) = 1 .. n
  BY <1>6
<1>8. SubSeq(all, 1, n) \in Seq(Messages) /\ Among(SubSeq(all, 1, n), StoredMessages)
  BY <1>1, <1>6 DEF Among
<1>9. Increasing(SubSeq(all, 1, n))
  BY <1>2, <1>4, <1>6, <1>7 DEF Increasing
<1> QED
  BY <1>3, <1>8, <1>9

----------------------------------------------------------------------------
(* The steps *)

\* A stored message stays stored.
SendingGoesOn ==
  /\ sending' \in [Messages -> SendSteps]
  /\ StoredMessages \subseteq StoredMessages'

LEMMA SendStepGoesOn ==
  ASSUME ChatTypeOK, NEW m \in Messages, NEW from, NEW to \in SendSteps,
         SendStep(m, from, to),
         from \in {"committed", "published", "ended"} => to \in {"committed", "published", "ended"}
  PROVE  SendingGoesOn
BY DEF ChatTypeOK, SendStep, SendingGoesOn, StoredMessages

LEMMA SendingUntouched ==
  ASSUME ChatTypeOK, UNCHANGED sending
  PROVE  SendingGoesOn /\ StoredMessages' = StoredMessages
BY DEF ChatTypeOK, SendingGoesOn, StoredMessages

LEMMA AmongMore ==
  ASSUME NEW s, NEW S, NEW T, S \subseteq T, Among(s, S)
  PROVE  Among(s, T)
BY DEF Among

LEMMA AppendAmong ==
  ASSUME NEW s \in Seq(Messages), NEW m \in Messages, NEW S, m \in S, Among(s, S)
  PROVE  Append(s, m) \in Seq(Messages) /\ Among(Append(s, m), S)
BY DEF Among

LEMMA TailAmong ==
  ASSUME NEW s \in Seq(Messages), s # <<>>, NEW S, Among(s, S)
  PROVE  /\ Tail(s) \in Seq(Messages) /\ Among(Tail(s), S)
         /\ Head(s) \in Messages /\ Head(s) \in S
<1>1. /\ Head(s) \in Messages /\ Tail(s) \in Seq(Messages) /\ Len(Tail(s)) = Len(s) - 1
      /\ \A i \in 1 .. Len(Tail(s)) : Tail(s)[i] = s[i + 1]
  BY HeadTailProperties
<1>2. Len(s) \in Nat /\ Len(s) # 0 /\ DOMAIN s = 1 .. Len(s) /\ Head(s) = s[1]
  OBVIOUS
<1>3. Head(s) \in S
  BY <1>2 DEF Among
<1>4. Among(Tail(s), S)
  BY <1>1, <1>2 DEF Among
<1> QED
  BY <1>1, <1>3, <1>4

\* What each step may do to the lists: the cache merges a stored message, or is
\* replaced by the page on its way.
ChatStep ==
  /\ SendingGoesOn
  /\ read' \subseteq Messages
  /\ socket' \in {"down", "accepted", "subscribed"}
  /\ wire' \in Seq(Messages) /\ Among(wire', StoredMessages')
  /\ \/ page' = NoPage
     \/ page' \in Seq(Messages) /\ Increasing(page') /\ Among(page', StoredMessages')
  /\ cache' \in Seq(Messages) /\ Increasing(cache') /\ Among(cache', StoredMessages')

LEMMA ChatStepKeepsInv ==
  ASSUME ChatStep
  PROVE  ChatInv'
<1>1. ChatTypeOK'
  BY DEF ChatStep, ChatTypeOK, SendingGoesOn
<1>2. OnlyStoredShown'
  BY StoredShownAreThen DEF ChatStep
<1>3. ShownOnceInOrder' /\ (page' # NoPage => \A i, k \in DOMAIN page' : i < k => page'[i] < page'[k])
  BY DEF ChatStep, Increasing, ShownOnceInOrder
<1> QED
  BY <1>1, <1>2, <1>3 DEF ChatInv

\* The lists as they are, when the stored messages are the same or more.
LEMMA ListsNow ==
  ASSUME ChatInv, SendingGoesOn
  PROVE  /\ wire \in Seq(Messages) /\ Among(wire, StoredMessages) /\ Among(wire, StoredMessages')
         /\ \/ page = NoPage
            \/ page \in Seq(Messages) /\ Increasing(page) /\ Among(page, StoredMessages')
         /\ cache \in Seq(Messages) /\ Increasing(cache) /\ Among(cache, StoredMessages')
<1>1. /\ Among(cache, StoredMessages) /\ Among(wire, StoredMessages)
      /\ page # NoPage => Among(page, StoredMessages)
  BY StoredShownAre DEF ChatInv
<1>2. StoredMessages \subseteq StoredMessages'
  BY DEF SendingGoesOn
<1> QED
  BY <1>1, <1>2, AmongMore DEF ChatInv, ChatTypeOK, ShownOnceInOrder, Increasing

\* A message being sent: the lists stay, but for a push of a committed message
\* and the answer to a published one.
LEMMA SendKeepsInv ==
  ASSUME ChatInv, NEW m \in Messages,
         \/ InsertMessage(m) \/ CommitMessage(m) \/ PublishMessage(m)
         \/ AnswerSend(m) \/ SendFails(m)
  PROVE  ChatStep
<1>1. ChatTypeOK
  BY DEF ChatInv
<1>2. /\ "inserted" \in SendSteps /\ "committed" \in SendSteps
      /\ "published" \in SendSteps /\ "ended" \in SendSteps
  BY DEF SendSteps
<1>3. SendingGoesOn
  BY <1>1, <1>2, SendStepGoesOn
     DEF InsertMessage, CommitMessage, PublishMessage, AnswerSend, SendFails
<1>4. CASE InsertMessage(m) \/ CommitMessage(m) \/ SendFails(m)
  <2>1. UNCHANGED <<read, socket, wire, page, cache>>
    BY <1>4 DEF InsertMessage, CommitMessage, SendFails
  <2> QED
    BY <1>1, <1>3, <2>1, ListsNow DEF ChatStep, ChatTypeOK
<1>5. CASE PublishMessage(m)
  <2>1. m \in StoredMessages'
    BY <1>1, <1>3, <1>5 DEF PublishMessage, SendStep, StoredMessages, SendingGoesOn
  <2>2. wire' \in Seq(Messages) /\ Among(wire', StoredMessages')
    <3>1. wire' = wire \/ wire' = Append(wire, m)
      BY <1>5 DEF PublishMessage
    <3>2. wire \in Seq(Messages) /\ Among(wire, StoredMessages')
      BY <1>3, ListsNow
    <3> QED
      BY <2>1, <3>1, <3>2, AppendAmong
  <2>3. UNCHANGED <<read, socket, page, cache>>
    BY <1>5 DEF PublishMessage
  <2> QED
    BY <1>1, <1>3, <2>2, <2>3, ListsNow DEF ChatStep, ChatTypeOK
<1>6. CASE AnswerSend(m)
  <2>1. m \in StoredMessages'
    BY <1>1, <1>3, <1>6 DEF AnswerSend, SendStep, StoredMessages, SendingGoesOn
  <2>2. cache' \in Seq(Messages) /\ Increasing(cache') /\ Among(cache', StoredMessages')
    <3>1. cache' = cache \/ cache' = MergeMessage(cache, m)
      BY <1>6 DEF AnswerSend
    <3>2. cache \in Seq(Messages) /\ Increasing(cache) /\ Among(cache, StoredMessages')
      BY <1>3, ListsNow
    <3> QED
      BY <2>1, <3>1, <3>2, MergeSorts
  <2>3. UNCHANGED <<read, socket, wire, page>>
    BY <1>6 DEF AnswerSend
  <2> QED
    BY <1>1, <1>3, <2>2, <2>3, ListsNow DEF ChatStep, ChatTypeOK
<1> QED
  BY <1>4, <1>5, <1>6

LEMMA SocketKeepsInv ==
  ASSUME ChatInv,
         MarkMessagesRead \/ AcceptSocket \/ Subscribe \/ Disconnect \/ UNCHANGED chatVars
  PROVE  ChatStep
<1>1. UNCHANGED <<sending, page, cache>>
  BY DEF MarkMessagesRead, AcceptSocket, Subscribe, Disconnect, chatVars
<1>2. SendingGoesOn
  BY <1>1, SendingUntouched DEF ChatInv
<1>3. read' \subseteq Messages
  BY DEF ChatInv, ChatTypeOK, MarkMessagesRead, AcceptSocket, Subscribe, Disconnect, chatVars,
         StoredMessages
<1>4. socket' \in {"down", "accepted", "subscribed"}
  BY DEF ChatInv, ChatTypeOK, MarkMessagesRead, AcceptSocket, Subscribe, Disconnect, chatVars
<1>5. wire' = wire \/ wire' = <<>>
  BY DEF MarkMessagesRead, AcceptSocket, Subscribe, Disconnect, chatVars
<1>6. <<>> \in Seq(Messages) /\ Among(<<>>, StoredMessages')
  BY DEF Among
<1> QED
  BY <1>1, <1>2, <1>3, <1>4, <1>5, <1>6, ListsNow DEF ChatStep

LEMMA ScreenKeepsInv ==
  ASSUME ChatInv, ReceivePush \/ FetchPage \/ PageArrives
  PROVE  ChatStep
<1>1. UNCHANGED <<sending, read, socket>>
  BY DEF ReceivePush, FetchPage, PageArrives
<1>2. SendingGoesOn /\ StoredMessages' = StoredMessages
  BY <1>1, SendingUntouched DEF ChatInv
<1>3. read' \subseteq Messages /\ socket' \in {"down", "accepted", "subscribed"}
  BY <1>1 DEF ChatInv, ChatTypeOK
<1>4. CASE ReceivePush
  <2>1. /\ Tail(wire) \in Seq(Messages) /\ Among(Tail(wire), StoredMessages')
        /\ Head(wire) \in Messages /\ Head(wire) \in StoredMessages'
    BY <1>2, <1>4, ListsNow, TailAmong DEF ReceivePush
  <2>2. /\ cache' \in Seq(Messages) /\ Increasing(cache') /\ Among(cache', StoredMessages')
    BY <1>2, <1>4, <2>1, ListsNow, MergeSorts DEF ReceivePush
  <2> QED
    BY <1>2, <1>3, <1>4, <2>1, <2>2, ListsNow DEF ChatStep, ReceivePush
<1>5. CASE FetchPage
  <2>1. page' \in Seq(Messages) /\ Increasing(page') /\ Among(page', StoredMessages')
    BY <1>2, <1>5, FirstPageSorted DEF FetchPage
  <2> QED
    BY <1>2, <1>3, <1>5, <2>1, ListsNow DEF ChatStep, FetchPage
<1>6. CASE PageArrives
  BY <1>2, <1>3, <1>6, ListsNow DEF ChatStep, PageArrives
<1> QED
  BY <1>4, <1>5, <1>6

----------------------------------------------------------------------------
(* The invariant *)

LEMMA InitChatInv == ChatInit => ChatInv
<1> SUFFICES ASSUME ChatInit PROVE ChatInv
  OBVIOUS
<1>1. ChatTypeOK
  BY DEF ChatInit, ChatTypeOK, SendSteps
<1>2. OnlyStoredShown
  BY StoredShownAre DEF ChatInit, Among
<1> QED
  BY <1>1, <1>2 DEF ChatInit, ChatInv, ShownOnceInOrder

LEMMA NextChatInv == ChatInv /\ [ChatNext]_chatVars => ChatInv'
<1> SUFFICES ASSUME ChatInv, [ChatNext]_chatVars PROVE ChatStep
  BY ChatStepKeepsInv
<1> QED
  BY SendKeepsInv, SocketKeepsInv, ScreenKeepsInv DEF ChatNext, Poll, Refetch

\* What is on the screen, on the wire and on its way is stored and in order: the
\* inductive invariant of the chat.
THEOREM ChatInvariance == ChatSpec => []ChatInv
<1>1. ChatInit => ChatInv
  BY InitChatInv
<1>2. ChatInv /\ [ChatNext]_chatVars => ChatInv'
  BY NextChatInv
<1> QED
  BY <1>1, <1>2, PTL DEF ChatSpec

\* Nobody is shown, pushed or fetched a message that is not durably stored.
THEOREM ChatShowsOnlyStored == ChatSpec => []OnlyStoredShown
<1>1. ChatInv => OnlyStoredShown
  BY DEF ChatInv
<1> QED
  BY <1>1, ChatInvariance, PTL

\* Push, fetch and answer together show a message once, in the order written.
THEOREM ChatShowsOnceInOrder == ChatSpec => []ShownOnceInOrder
<1>1. ChatInv => ShownOnceInOrder
  BY DEF ChatInv
<1> QED
  BY <1>1, ChatInvariance, PTL

=============================================================================
