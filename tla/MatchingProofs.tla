--------------------------- MODULE MatchingProofs ---------------------------
(***************************************************************************)
(* What a buyer, a worker and a crew buyer are shown, proved for every     *)
(* number of workers, crews, jobs and suburbs, every table of distances    *)
(* and every cut-off.                                                      *)
(*                                                                         *)
(* A step assigns one of the query's answers over rows that never change,  *)
(* so MatchingInv is only a stepping stone and MatchingInvariance a lemma. *)
(* The theorems are about the operators: the loop over a worker's areas    *)
(* finds a nearest one in band and in kilometres at once, so its verdict   *)
(* is that of all areas together; a sorted answer enumerates the           *)
(* candidates without repetition; and the cut-off leaves out the last.     *)
(***************************************************************************)
EXTENDS Matching, FiniteSetTheorems, FunctionTheorems, SequenceTheorems, TLAPS

----------------------------------------------------------------------------
(* Distances *)

LEMMA LeastNatural ==
  ASSUME NEW T \in SUBSET Nat, T # {}
  PROVE  \E m \in T : \A n \in T : m <= n
<1> DEFINE R == OpToRel(<, Nat)
<1>1. \E m \in T : \A n \in T : ~(<<n, m>> \in R)
  <2>1. IsWellFoundedOn(R, Nat)
    BY NatLessThanWellFounded
  <2> HIDE DEF R
  <2> QED
    BY <2>1, WFMin
<1>2. \A m, n \in Nat : n < m => <<n, m>> \in R
  BY Zenon DEF OpToRel
<1> HIDE DEF R
<1>3. PICK m \in T : \A n \in T : ~(<<n, m>> \in R)
  BY <1>1
<1>4. \A n \in T : ~(n < m)
  BY <1>2, <1>3
<1>5. \A n \in T : m <= n
  BY <1>4
<1> QED
  BY <1>5

\* Band and distance are symmetric, and FAR says it is too far.
LEMMA BandsAndDistances ==
  ASSUME NEW a \in Suburbs, NEW b \in Suburbs
  PROVE  /\ BandRank(a, b) \in 0 .. FAR
         /\ Distance(a, b) \in Nat
         /\ BandRank(a, b) = BandRank(b, a)
         /\ Distance(a, b) = Distance(b, a)
         /\ BandRank(a, b) # FAR <=> Distance(a, b) < MODERATE_KM
<1>1. Km(a, b) \in Nat /\ Km(a, b) = Km(b, a)
  BY MatchingAssumption
<1> QED
  BY <1>1 DEF BandRank, Distance, FAR, NEARBY_KM, MODERATE_KM

\* The bands are intervals of the distance.
LEMMA NearerBand ==
  ASSUME NEW s \in Suburbs, NEW a \in Suburbs, NEW b \in Suburbs,
         BandRank(s, a) < BandRank(s, b)
  PROVE  Distance(s, a) <= Distance(s, b)
<1>1. Km(s, a) \in Nat /\ Km(s, b) \in Nat
  BY MatchingAssumption
<1> QED
  BY <1>1 DEF BandRank, Distance, FAR, NEARBY_KM, MODERATE_KM

LEMMA AreasAreSuburbs ==
  ASSUME NEW p \in Profiles
  PROVE  ServiceAreas(p) \subseteq Suburbs
BY MatchingAssumption DEF ServiceAreas

\* The loop's best area exists, and none is nearer, in band or in kilometres.
LEMMA BestAreaIsNearest ==
  ASSUME NEW p \in Profiles, NEW s \in Suburbs, ServiceAreas(p) # {}
  PROVE  /\ BestArea(p, s) \in ServiceAreas(p)
         /\ \A b \in ServiceAreas(p) :
              /\ BandRank(s, BestArea(p, s)) <= BandRank(s, b)
              /\ Distance(s, BestArea(p, s)) <= Distance(s, b)
<1> DEFINE A == ServiceAreas(p)
           Best(a) == \A b \in A :
             \/ BandRank(s, a) < BandRank(s, b)
             \/ /\ BandRank(s, a) = BandRank(s, b)
                /\ Distance(s, a) <= Distance(s, b)
<1>1. A \subseteq Suburbs
  BY AreasAreSuburbs
<1>2. \A a \in A : BandRank(s, a) \in Nat /\ Distance(s, a) \in Nat
  BY <1>1, BandsAndDistances DEF FAR
<1>3. PICK a \in A : \A b \in A : BandRank(s, a) <= BandRank(s, b)
  <2> DEFINE T == {BandRank(s, b) : b \in A}
  <2>1. T \in SUBSET Nat /\ T # {}
    BY <1>2
  <2> HIDE DEF T
  <2>2. PICK m \in T : \A n \in T : m <= n
    BY <2>1, LeastNatural
  <2> QED
    BY <2>2 DEF T
<1>4. PICK c \in A : /\ BandRank(s, c) = BandRank(s, a)
                     /\ \A b \in A : BandRank(s, b) = BandRank(s, a) =>
                          Distance(s, c) <= Distance(s, b)
  <2> DEFINE T == {Distance(s, b) : b \in {d \in A : BandRank(s, d) = BandRank(s, a)}}
  <2>1. T \in SUBSET Nat /\ T # {}
    BY <1>2
  <2> HIDE DEF T
  <2>2. PICK m \in T : \A n \in T : m <= n
    BY <2>1, LeastNatural
  <2> QED
    BY <2>2 DEF T
<1>5. Best(c)
  BY <1>2, <1>3, <1>4
<1>6. BestArea(p, s) = CHOOSE x \in A : Best(x)
  BY DEF BestArea
<1>7. BestArea(p, s) \in A /\ Best(BestArea(p, s))
  <2> HIDE DEF A, Best
  <2> QED
    BY <1>5, <1>6
<1> QED
  BY <1>1, <1>2, <1>7, NearerBand

\* The verdict on the best area is the verdict on all of them.
LEMMA BestAreaDecides ==
  ASSUME NEW p \in Profiles, NEW s \in Suburbs, NEW travel \in Int
  PROVE  (\E a \in ServiceAreas(p) : Distance(a, s) < MODERATE_KM /\ Distance(a, s) <= travel)
         <=> (ServiceAreas(p) # {} /\ BestRank(p, s) # FAR /\ BestKm(p, s) <= travel)
<1>1. CASE ServiceAreas(p) = {}
  BY <1>1
<1>2. CASE ServiceAreas(p) # {}
  <2> DEFINE best == BestArea(p, s)
  <2>1. /\ best \in ServiceAreas(p)
        /\ \A b \in ServiceAreas(p) : Distance(s, best) <= Distance(s, b)
    BY <1>2, BestAreaIsNearest
  <2>2. \A a \in ServiceAreas(p) : /\ Distance(a, s) = Distance(s, a)
                                   /\ Distance(s, a) \in Nat
                                   /\ BandRank(s, a) # FAR <=> Distance(s, a) < MODERATE_KM
    BY AreasAreSuburbs, BandsAndDistances
  <2>3. BestRank(p, s) = BandRank(s, best) /\ BestKm(p, s) = Distance(s, best)
    BY DEF BestRank, BestKm
  <2> HIDE DEF best
  <2> QED
    BY <1>2, <2>1, <2>2, <2>3 DEF MODERATE_KM
<1> QED
  BY <1>1, <1>2

LEMMA ProfilesAreRead ==
  ASSUME MatchingTypeOK, NEW w \in MatchWorkers, NEW suburb
  PROVE  /\ profile[w] \in Profiles
         /\ \A travel : InReach(w, suburb, travel) <=>
              \E a \in ServiceAreas(profile[w]) :
                Distance(a, suburb) < MODERATE_KM /\ Distance(a, suburb) <= travel
<1>1. profile[w] \in Profiles
  BY DEF MatchingTypeOK
<1>2. ServiceAreas(profile[w]) =
        IF profile[w].areas = {} THEN profile[w].home ELSE profile[w].areas
  BY DEF ServiceAreas
<1> QED
  BY <1>1, <1>2 DEF InReach

\* The filters of the loop admit exactly the workers who can take the job.
LEMMA CandidatesCanTake ==
  ASSUME MatchingTypeOK, NEW job \in OpenJobs
  PROVE  Candidates(job) = {w \in MatchWorkers : CanTake(w, job)}
<1>1. ASSUME NEW w \in MatchWorkers
      PROVE  w \in Candidates(job) <=> CanTake(w, job)
  <2>1. profile[w] \in Profiles /\ profile[w].travel_km \in Int /\ job.suburb \in Suburbs
    BY ProfilesAreRead, MatchingAssumption
  <2>2. InReach(w, job.suburb, profile[w].travel_km) <=>
          /\ ServiceAreas(profile[w]) # {}
          /\ BestRank(profile[w], job.suburb) # FAR
          /\ BestKm(profile[w], job.suburb) <= profile[w].travel_km
    BY <2>1, ProfilesAreRead, BestAreaDecides
  <2> QED
    BY <2>2 DEF Candidates, CanTake
<1> QED
  BY <1>1 DEF Candidates
----------------------------------------------------------------------------
(* Sorted answers and the cut-off *)

\* A sorted answer names each element of a finite set once.
LEMMA Enumerates ==
  ASSUME NEW S, IsFiniteSet(S), NEW q \in Injection(1 .. Cardinality(S), S)
  PROVE  /\ Cardinality(S) \in Nat
         /\ q \in Seq(S) /\ Len(q) = Cardinality(S)
         /\ DOMAIN q = 1 .. Len(q)
         /\ \A i, k \in 1 .. Len(q) : q[i] = q[k] => i = k
         /\ \A x \in S : \E i \in 1 .. Len(q) : q[i] = x
<1> DEFINE n == Cardinality(S)
<1>1. n \in Nat
  BY FS_CardinalityType
<1>2. q \in [1 .. n -> S] /\ \A i, k \in 1 .. n : q[i] = q[k] => i = k
  BY Fun_InjectionProperties
<1>3. Cardinality(1 .. n) = n
  BY <1>1, FS_Interval
<1>4. q \in Surjection(1 .. n, S)
  <2>1. Cardinality(1 .. n) = Cardinality(S) <=> q \in Surjection(1 .. n, S)
    BY FS_Injection, Zenon
  <2> QED
    BY <1>3, <2>1
<1>5. \A x \in S : \E i \in 1 .. n : q[i] = x
  BY <1>4 DEF Surjection
<1> HIDE DEF n
<1>6. q \in Seq(S) /\ Len(q) = n /\ DOMAIN q = 1 .. Len(q)
  BY <1>1, <1>2
<1> QED
  BY <1>1, <1>2, <1>5, <1>6 DEF n

LEMMA TopKeepsTheFirst ==
  ASSUME NEW S, NEW q \in Seq(S), NEW n \in Nat
  PROVE  /\ Top(q, n) \in Seq(S)
         /\ Len(Top(q, n)) = IF Len(q) < n THEN Len(q) ELSE n
         /\ \A i \in 1 .. Len(Top(q, n)) : Top(q, n)[i] = q[i]
<1> DEFINE m == IF Len(q) < n THEN Len(q) ELSE n
<1>1. Len(q) \in Nat /\ m \in Nat /\ m <= Len(q)
  BY LenProperties
<1>2. \A i \in 1 .. m : q[i] \in S
  BY <1>1, ElementOfSeq
<1>3. Top(q, n) = SubSeq(q, 1, m)
  BY DEF Top
<1> HIDE DEF m
<1>4. /\ SubSeq(q, 1, m) \in Seq(S)
      /\ Len(SubSeq(q, 1, m)) = IF 1 <= m THEN m - 1 + 1 ELSE 0
      /\ \A i \in 1 .. m - 1 + 1 : SubSeq(q, 1, m)[i] = q[1 + i - 1]
  BY <1>1, <1>2, SubSeqProperties
<1> QED
  BY <1>1, <1>3, <1>4 DEF m

\* A sequence without repetition names as many as it is long.
LEMMA NoneTwice ==
  ASSUME NEW n \in Nat, NEW q, \A i, k \in 1 .. n : q[i] = q[k] => i = k
  PROVE  Cardinality({q[i] : i \in 1 .. n}) = n
<1> DEFINE f == [i \in 1 .. n |-> q[i]]
           T == {q[i] : i \in 1 .. n}
<1>1. f \in [1 .. n -> T]
  OBVIOUS
<1>2. \A i, k \in 1 .. n : f[i] = f[k] => i = k
  OBVIOUS
<1>3. \A x \in T : \E i \in 1 .. n : f[i] = x
  OBVIOUS
<1> HIDE DEF f, T
<1>4. f \in Bijection(1 .. n, T)
  BY <1>1, <1>2, <1>3, Fun_IsBij
<1>5. ExistsBijection(1 .. n, T)
  BY <1>4 DEF ExistsBijection
<1>6. Cardinality(T) = n
  BY <1>5, FS_CountingElements
<1> QED
  BY <1>6 DEF T

----------------------------------------------------------------------------
(* What a buyer is shown *)

\* q lists the elements of S, each once.
Lists(q, S) ==
  /\ q \in Seq(S)
  /\ Len(q) \in Nat /\ DOMAIN q = 1 .. Len(q)
  /\ \A i \in 1 .. Len(q) : q[i] \in S
  /\ \A i, k \in 1 .. Len(q) : q[i] = q[k] => i = k
  /\ \A x \in S : \E i \in 1 .. Len(q) : q[i] = x

\* The answer shows all of offered, then the first m of suggested.
Shows(offered, suggested, m) ==
  /\ Lists(offered, Bidding(query.job))
  /\ Lists(suggested, Others(query.job))
  /\ m = (IF Len(suggested) < MAX_SUGGESTIONS THEN Len(suggested) ELSE MAX_SUGGESTIONS)
  /\ Len(answer) = Len(offered) + m /\ DOMAIN answer = 1 .. Len(answer)
  /\ \A i \in 1 .. Len(offered) : answer[i] = offered[i]
  /\ \A i \in 1 .. m : answer[Len(offered) + i] = suggested[i]
  /\ \A i, k \in 1 .. Len(suggested) :
       i < k => ~RanksBefore(query.job, suggested[k], suggested[i])

LEMMA ListsASet ==
  ASSUME NEW S, IsFiniteSet(S), NEW q \in Injection(1 .. Cardinality(S), S)
  PROVE  Lists(q, S)
<1>1. /\ q \in Seq(S) /\ Len(q) = Cardinality(S) /\ Cardinality(S) \in Nat
      /\ DOMAIN q = 1 .. Len(q)
      /\ \A i, k \in 1 .. Len(q) : q[i] = q[k] => i = k
      /\ \A x \in S : \E i \in 1 .. Len(q) : q[i] = x
  BY Enumerates
<1>2. \A i \in 1 .. Len(q) : q[i] \in S
  BY <1>1, ElementOfSeq
<1> QED
  BY <1>1, <1>2 DEF Lists

\* An answer is all bidders among the candidates, then the first of the others.
LEMMA JobAnswers ==
  ASSUME NEW job, NEW a \in JobCandidates(job)
  PROVE  /\ a \in Seq(MatchWorkers)
         /\ \E offered, suggested :
              /\ Lists(offered, Bidding(job)) /\ Lists(suggested, Others(job))
              /\ \A i, k \in DOMAIN suggested :
                   i < k => ~RanksBefore(job, suggested[k], suggested[i])
              /\ a = offered \o Top(suggested, MAX_SUGGESTIONS)
<1> DEFINE mine == Bidding(job)
           others == Others(job)
<1>1. mine \subseteq MatchWorkers /\ others \subseteq MatchWorkers
  BY DEF Candidates, Bidding, Others
<1>2. PICK offered \in Ranked(job, mine), suggested \in Ranked(job, others) :
        a = offered \o Top(suggested, MAX_SUGGESTIONS)
  BY DEF JobCandidates
<1> HIDE DEF mine, others
<1>3. IsFiniteSet(mine) /\ IsFiniteSet(others)
  BY <1>1, FS_Subset, MatchingAssumption
<1>4. /\ offered \in Injection(1 .. Cardinality(mine), mine)
      /\ suggested \in Injection(1 .. Cardinality(others), others)
      /\ \A i, k \in DOMAIN suggested : i < k => ~RanksBefore(job, suggested[k], suggested[i])
  BY DEF Ranked, Sorted
<1>5. Lists(offered, mine) /\ Lists(suggested, others)
  BY <1>3, <1>4, ListsASet
<1>6. offered \in Seq(MatchWorkers) /\ suggested \in Seq(MatchWorkers)
  BY <1>1, <1>5, SeqMonotonic DEF Lists
<1>7. Top(suggested, MAX_SUGGESTIONS) \in Seq(MatchWorkers)
  BY <1>6, TopKeepsTheFirst, MatchingAssumption
<1>8. a \in Seq(MatchWorkers)
  BY <1>2, <1>6, <1>7, ConcatProperties
<1> QED
  BY <1>2, <1>4, <1>5, <1>8 DEF mine, others

LEMMA BuyersAnswer ==
  ASSUME MatchingInv, query.kind = "job"
  PROVE  /\ query.job \in OpenJobs
         /\ \E offered, suggested, m : Shows(offered, suggested, m)
<1> DEFINE job == query.job
<1>1. PICK j \in OpenJobs : query = [kind |-> "job", job |-> j] /\ answer \in JobCandidates(j)
  BY DEF MatchingInv, AnswersTheQuery, NoQuery
<1>2. job \in OpenJobs /\ answer \in JobCandidates(job)
  BY <1>1
<1> HIDE DEF job
<1>3. PICK offered, suggested :
        /\ Lists(offered, Bidding(job)) /\ Lists(suggested, Others(job))
        /\ \A i, k \in DOMAIN suggested :
             i < k => ~RanksBefore(job, suggested[k], suggested[i])
        /\ answer = offered \o Top(suggested, MAX_SUGGESTIONS)
  BY <1>2, JobAnswers
<1> DEFINE top == Top(suggested, MAX_SUGGESTIONS)
           mine == Bidding(job)
           others == Others(job)
<1> HIDE DEF mine, others
<1>4. offered \in Seq(mine) /\ suggested \in Seq(others) /\ MAX_SUGGESTIONS \in Nat
  BY <1>3, MatchingAssumption DEF Lists, mine, others
<1>6. /\ top \in Seq(others)
      /\ Len(top) = IF Len(suggested) < MAX_SUGGESTIONS THEN Len(suggested) ELSE MAX_SUGGESTIONS
      /\ \A i \in 1 .. Len(top) : top[i] = suggested[i]
  BY <1>4, TopKeepsTheFirst
<1> HIDE DEF top
<1>7. offered \in Seq(mine \cup others) /\ top \in Seq(mine \cup others)
  BY <1>4, <1>6, SeqMonotonic
<1>8. /\ answer \in Seq(mine \cup others)
      /\ Len(answer) = Len(offered) + Len(top)
      /\ \A i \in 1 .. Len(offered) + Len(top) :
           answer[i] = IF i <= Len(offered) THEN offered[i] ELSE top[i - Len(offered)]
  BY <1>3, <1>7, ConcatProperties DEF top
<1>9. DOMAIN answer = 1 .. Len(answer) /\ Len(top) \in Nat /\ Len(offered) \in Nat
  BY <1>6, <1>7, <1>8, LenProperties
<1>10. \A i \in 1 .. Len(offered) : answer[i] = offered[i]
  BY <1>8, <1>9
<1>11. \A i \in 1 .. Len(top) : answer[Len(offered) + i] = suggested[i]
  BY <1>6, <1>8, <1>9
<1>12. \A i, k \in 1 .. Len(suggested) :
         i < k => ~RanksBefore(job, suggested[k], suggested[i])
  BY <1>3 DEF Lists
<1>13. Shows(offered, suggested, Len(top))
  BY <1>3, <1>6, <1>8, <1>9, <1>10, <1>11, <1>12 DEF Shows, job
<1> QED
  BY <1>2, <1>13 DEF job

\* The places of the bidders and of the suggestions.
LEMMA ShownToBuyer ==
  ASSUME MatchingInv, query.kind = "job",
         NEW offered, NEW suggested, NEW m, Shows(offered, suggested, m)
  PROVE  /\ m \in Nat /\ m <= Len(suggested)
         /\ Listed = {offered[i] : i \in 1 .. Len(offered)} \cup {suggested[i] : i \in 1 .. m}
         /\ Listed \cap bidders = Bidding(query.job)
         /\ Listed \ bidders = {suggested[i] : i \in 1 .. m}
         /\ \A i, k \in 1 .. Len(answer) : answer[i] = answer[k] => i = k
<1> DEFINE n == Len(offered)
<1>1. m \in Nat /\ Len(suggested) \in Nat /\ m <= Len(suggested) /\ n \in Nat
  BY MatchingAssumption DEF Shows, Lists
<1>2. /\ \A i \in 1 .. n : offered[i] \in Bidding(query.job)
      /\ \A i \in 1 .. m : suggested[i] \in Others(query.job)
      /\ Bidding(query.job) \subseteq bidders
      /\ Others(query.job) \cap bidders = {}
  BY <1>1 DEF Shows, Lists, Bidding, Others
<1>3. \A i \in 1 .. Len(answer) :
        \/ i \in 1 .. n /\ answer[i] = offered[i]
        \/ i - n \in 1 .. m /\ answer[i] = suggested[i - n]
  <2> SUFFICES ASSUME NEW i \in 1 .. Len(answer), i \notin 1 .. n
               PROVE  i - n \in 1 .. m /\ answer[i] = suggested[i - n]
    BY DEF Shows
  <2>1. i - n \in 1 .. m /\ n + (i - n) = i
    BY <1>1 DEF Shows
  <2> QED
    BY <2>1 DEF Shows
<1>4. \A i \in 1 .. n : i \in 1 .. Len(answer) /\ answer[i] = offered[i]
  BY <1>1 DEF Shows
<1>5. \A i \in 1 .. m : n + i \in 1 .. Len(answer) /\ answer[n + i] = suggested[i]
  BY <1>1 DEF Shows
<1>6. Listed = {offered[i] : i \in 1 .. n} \cup {suggested[i] : i \in 1 .. m}
  <2>1. Listed = {answer[i] : i \in 1 .. Len(answer)}
    BY DEF Listed, Shows
  <2>2. ASSUME NEW i \in 1 .. Len(answer)
        PROVE  \/ answer[i] \in {offered[a] : a \in 1 .. n}
               \/ answer[i] \in {suggested[a] : a \in 1 .. m}
    BY <1>3
  <2>3. \A i \in 1 .. n : offered[i] \in {answer[k] : k \in 1 .. Len(answer)}
    BY <1>4
  <2>4. \A i \in 1 .. m : suggested[i] \in {answer[k] : k \in 1 .. Len(answer)}
    BY <1>5
  <2> QED
    BY <2>1, <2>2, <2>3, <2>4
<1>7. \A i, k \in 1 .. Len(answer) : answer[i] = answer[k] => i = k
  <2> TAKE i, k \in 1 .. Len(answer)
  <2> HAVE answer[i] = answer[k]
  <2>1. \A a, b \in 1 .. n : offered[a] = offered[b] => a = b
    BY DEF Shows, Lists
  <2>2. \A a, b \in 1 .. m : suggested[a] = suggested[b] => a = b
    <3>1. \A a, b \in 1 .. Len(suggested) : suggested[a] = suggested[b] => a = b
      BY DEF Shows, Lists
    <3> QED
      BY <1>1, <3>1
  <2>3. CASE i \in 1 .. n /\ k \in 1 .. n
    BY <1>4, <2>1, <2>3
  <2>4. CASE i \notin 1 .. n /\ k \notin 1 .. n
    BY <1>1, <1>3, <2>2, <2>4
  <2>5. CASE i \in 1 .. n /\ k \notin 1 .. n
    BY <1>2, <1>3, <2>5
  <2>6. CASE i \notin 1 .. n /\ k \in 1 .. n
    BY <1>2, <1>3, <2>6
  <2> QED
    BY <2>3, <2>4, <2>5, <2>6
<1>8. {offered[i] : i \in 1 .. n} = Bidding(query.job)
  <2>1. \A x \in Bidding(query.job) : \E i \in 1 .. n : offered[i] = x
    BY DEF Shows, Lists
  <2> QED
    BY <1>2, <2>1
<1>9. Listed \cap bidders = Bidding(query.job) /\ Listed \ bidders = {suggested[i] : i \in 1 .. m}
  <2> DEFINE O == {offered[i] : i \in 1 .. n}
             U == {suggested[i] : i \in 1 .. m}
  <2>1. O \subseteq bidders /\ U \cap bidders = {}
    BY <1>2
  <2>2. Listed = O \cup U /\ O = Bidding(query.job)
    BY <1>6, <1>8
  <2> HIDE DEF O, U
  <2>3. Listed \cap bidders = Bidding(query.job) /\ Listed \ bidders = U
    BY <2>1, <2>2
  <2> QED
    BY <2>3 DEF U
<1> QED
  BY <1>1, <1>6, <1>7, <1>9

----------------------------------------------------------------------------
(* What buyers and workers may rely on *)

LEMMA BuyersSeeThem == MatchingInv => BuyersSeeWhoCanTakeTheJob
<1> SUFFICES ASSUME MatchingInv, query.kind = "job"
             PROVE  BuyersSeeWhoCanTakeTheJob
  BY DEF BuyersSeeWhoCanTakeTheJob
<1> DEFINE job == query.job
<1>1. job \in OpenJobs /\ MatchingTypeOK
  BY BuyersAnswer DEF MatchingInv
<1>2. PICK offered, suggested, m : Shows(offered, suggested, m)
  BY BuyersAnswer
<1>3. /\ m \in Nat /\ m <= Len(suggested)
      /\ Listed = {offered[i] : i \in 1 .. Len(offered)} \cup {suggested[i] : i \in 1 .. m}
      /\ Listed \cap bidders = Bidding(job)
      /\ Listed \ bidders = {suggested[i] : i \in 1 .. m}
      /\ \A i, k \in 1 .. Len(answer) : answer[i] = answer[k] => i = k
  BY <1>2, ShownToBuyer
<1>4. Candidates(job) = {w \in MatchWorkers : CanTake(w, job)}
  BY <1>1, CandidatesCanTake
<1>5. /\ Lists(suggested, Others(job))
      /\ m = IF Len(suggested) < MAX_SUGGESTIONS THEN Len(suggested) ELSE MAX_SUGGESTIONS
      /\ DOMAIN answer = 1 .. Len(answer)
  BY <1>2 DEF Shows
<1>6. Cardinality(Listed) = Len(answer)
  <2>1. Listed = {answer[i] : i \in 1 .. Len(answer)}
    BY <1>5 DEF Listed
  <2>2. Len(offered) \in Nat /\ Len(answer) = Len(offered) + m
    BY <1>2 DEF Shows, Lists
  <2>3. Len(answer) \in Nat
    BY <1>3, <2>2
  <2>4. Cardinality({answer[i] : i \in 1 .. Len(answer)}) = Len(answer)
    BY <1>3, <2>3, NoneTwice
  <2> QED
    BY <2>1, <2>4
<1>a. Len(suggested) \in Nat /\ 1 .. m \subseteq 1 .. Len(suggested)
  <2>1. Len(suggested) \in Nat
    BY <1>5 DEF Lists
  <2> QED
    BY <1>3, <2>1
<1>7. ASSUME NEW w \in Listed PROVE CanTake(w, job)
  <2>1. CASE w \in bidders
    BY <1>3, <1>4, <1>7, <2>1 DEF Bidding
  <2>2. CASE w \notin bidders
    <3>1. PICK i \in 1 .. m : w = suggested[i]
      BY <1>3, <1>7, <2>2
    <3>2. i \in 1 .. Len(suggested)
      BY <1>a, <3>1
    <3>3. w \in Others(job)
      BY <1>5, <3>1, <3>2 DEF Lists
    <3> QED
      BY <1>4, <3>3 DEF Others
  <2> QED
    BY <2>1, <2>2
<1>8. ASSUME NEW w \in bidders, CanTake(w, job) PROVE w \in Listed
  <2>1. w \in MatchWorkers
    BY <1>1, <1>8 DEF MatchingTypeOK
  <2> QED
    BY <1>3, <1>4, <1>8, <2>1 DEF Bidding
<1>9. ASSUME NEW w \in MatchWorkers \ Listed, CanTake(w, job)
      PROVE  Cardinality(Listed \ bidders) = MAX_SUGGESTIONS
  <2>1. w \in Others(job)
    BY <1>4, <1>8, <1>9 DEF Others
  <2>2. PICK i \in 1 .. Len(suggested) : suggested[i] = w
    BY <1>5, <2>1 DEF Lists
  <2>3. i \notin 1 .. m
    BY <1>3, <1>9, <2>2
  <2>4. m = MAX_SUGGESTIONS
    BY <1>3, <1>5, <2>2, <2>3, MatchingAssumption DEF Lists
  <2>5. \A a, b \in 1 .. m : suggested[a] = suggested[b] => a = b
    <3>1. \A a, b \in 1 .. Len(suggested) : suggested[a] = suggested[b] => a = b
      BY <1>5 DEF Lists
    <3> QED
      BY <1>a, <3>1
  <2>6. Cardinality({suggested[a] : a \in 1 .. m}) = m
    BY <1>3, <2>5, NoneTwice
  <2> QED
    BY <1>3, <2>4, <2>6
<1> QED
  BY <1>6, <1>7, <1>8, <1>9 DEF BuyersSeeWhoCanTakeTheJob

\* The property's nearest band of a worker is the one the loop found.
LEMMA NearestIsBest ==
  ASSUME MatchingTypeOK, NEW w \in MatchWorkers, NEW s \in Suburbs,
         ServiceAreas(profile[w]) # {}
  PROVE  BestRank(profile[w], s) = CHOOSE r \in 0 .. FAR :
           /\ \E a \in ServiceAreas(profile[w]) : BandRank(a, s) = r
           /\ \A a \in ServiceAreas(profile[w]) : BandRank(a, s) >= r
<1> DEFINE A == ServiceAreas(profile[w])
           best == BestRank(profile[w], s)
           Nearest(r) == /\ \E a \in A : BandRank(a, s) = r
                         /\ \A a \in A : BandRank(a, s) >= r
<1>1. profile[w] \in Profiles
  BY DEF MatchingTypeOK
<1>2. /\ BestArea(profile[w], s) \in A
      /\ \A b \in A : BandRank(s, BestArea(profile[w], s)) <= BandRank(s, b)
  BY <1>1, BestAreaIsNearest
<1>3. \A a \in A : BandRank(a, s) = BandRank(s, a) /\ BandRank(s, a) \in 0 .. FAR
  BY <1>1, AreasAreSuburbs, BandsAndDistances
<1>4. best = BandRank(s, BestArea(profile[w], s))
  BY DEF BestRank
<1> HIDE DEF A, best
<1>5. best \in 0 .. FAR /\ Nearest(best)
  BY <1>2, <1>3, <1>4 DEF FAR
<1>6. \A r \in 0 .. FAR : Nearest(r) => r = best
  BY <1>3, <1>5 DEF FAR
<1> HIDE DEF Nearest
<1>7. best = CHOOSE r \in 0 .. FAR : Nearest(r)
  BY <1>5, <1>6
<1> QED
  BY <1>7 DEF A, best, Nearest

LEMMA ScoresAreNumbers ==
  ASSUME MatchingTypeOK, NEW w \in MatchWorkers
  PROVE  StandingScore(profile[w].standing) \in Int
<1>1. profile[w] \in Profiles
  BY DEF MatchingTypeOK
<1> QED
  BY <1>1, MatchingAssumption DEF StandingScore

LEMMA NearestComeFirst == MatchingInv => NearestSuggestedFirst
<1> SUFFICES ASSUME MatchingInv, query.kind = "job"
             PROVE  NearestSuggestedFirst
  BY DEF NearestSuggestedFirst
<1> DEFINE job == query.job
           others == {w \in MatchWorkers : CanTake(w, job)} \ bidders
           nearest(w) == CHOOSE r \in 0 .. FAR :
                           /\ \E a \in ServiceAreas(profile[w]) : BandRank(a, job.suburb) = r
                           /\ \A a \in ServiceAreas(profile[w]) : BandRank(a, job.suburb) >= r
           rank(w) == BestRank(profile[w], job.suburb)
           score(w) == StandingScore(profile[w].standing)
<1>1. job \in OpenJobs /\ job.suburb \in Suburbs /\ MatchingTypeOK
  BY BuyersAnswer, MatchingAssumption DEF MatchingInv
<1>2. PICK offered, suggested, m : Shows(offered, suggested, m)
  BY BuyersAnswer
<1> DEFINE n == Len(offered)
<1>3. others = Others(job)
  BY <1>1, CandidatesCanTake DEF Others
<1>4. /\ n \in Nat /\ m \in Nat /\ Len(suggested) \in Nat
      /\ m = IF Len(suggested) < MAX_SUGGESTIONS THEN Len(suggested) ELSE MAX_SUGGESTIONS
      /\ Len(answer) = n + m /\ DOMAIN answer = 1 .. Len(answer)
      /\ \A i \in 1 .. n : answer[i] = offered[i] /\ offered[i] \in bidders
      /\ \A i \in 1 .. m : answer[n + i] = suggested[i]
      /\ \A w \in Others(job) : \E i \in 1 .. Len(suggested) : suggested[i] = w
  BY <1>2, MatchingAssumption DEF Shows, Lists, Bidding
<1>5. \A i, k \in 1 .. Len(suggested) : i < k => ~RanksBefore(job, suggested[k], suggested[i])
  BY <1>2 DEF Shows
<1>6. ASSUME NEW w \in others
      PROVE  nearest(w) = rank(w) /\ rank(w) \in Int /\ score(w) \in Int
  <2>1. w \in MatchWorkers /\ ServiceAreas(profile[w]) # {} /\ profile[w] \in Profiles
    BY <1>1, <1>3, <1>6 DEF Others, Candidates, MatchingTypeOK
  <2>2. nearest(w) = rank(w)
    BY <1>1, <2>1, NearestIsBest
  <2>3. rank(w) \in Int
    BY <1>1, <2>1, BestAreaIsNearest, AreasAreSuburbs, BandsAndDistances DEF BestRank
  <2> QED
    BY <1>1, <2>1, <2>2, <2>3, ScoresAreNumbers
<1>7. ASSUME NEW i \in DOMAIN answer, NEW w \in others,
             answer[i] \in others, \A k \in 1 .. i : answer[k] # w
      PROVE  ~RanksBefore(job, w, answer[i])
  <2>1. i \in 1 .. n + m /\ i \notin 1 .. n
    BY <1>4, <1>7
  <2>2. i - n \in 1 .. m /\ i - n \in 1 .. Len(suggested) /\ answer[i] = suggested[i - n]
    <3>1. i - n \in 1 .. m /\ n + (i - n) = i
      BY <1>4, <2>1
    <3> QED
      BY <1>4, <3>1, MatchingAssumption
  <2>3. PICK k \in 1 .. Len(suggested) : suggested[k] = w
    BY <1>3, <1>4, <1>7
  <2>4. ~(k <= i - n)
    <3>1. SUFFICES ASSUME k <= i - n PROVE FALSE
      OBVIOUS
    <3>2. k \in 1 .. m /\ n + k \in 1 .. i
      BY <1>4, <2>1, <2>2, <2>3, <3>1
    <3> QED
      BY <1>4, <1>7, <2>3, <3>2
  <2>5. i - n < k
    BY <1>4, <2>1, <2>3, <2>4
  <2> QED
    BY <1>5, <2>2, <2>3, <2>5
<1>8. ASSUME NEW v \in others, NEW w \in others, ~RanksBefore(job, w, v)
      PROVE  /\ nearest(v) <= nearest(w)
             /\ nearest(v) = nearest(w) => score(v) >= score(w)
  <2>1. ~(rank(w) < rank(v)) /\ ~(rank(w) = rank(v) /\ score(w) > score(v))
    BY <1>8 DEF RanksBefore
  <2>2. /\ nearest(v) = rank(v) /\ rank(v) \in Int /\ score(v) \in Int
        /\ nearest(w) = rank(w) /\ rank(w) \in Int /\ score(w) \in Int
    BY <1>6, <1>8
  <2> HIDE DEF nearest, rank, score
  <2> QED
    BY <2>1, <2>2
<1>9. \A i \in DOMAIN answer, w \in others :
        answer[i] \in others /\ (\A k \in 1 .. i : answer[k] # w) =>
          /\ nearest(answer[i]) <= nearest(w)
          /\ nearest(answer[i]) = nearest(w) => score(answer[i]) >= score(w)
  <2> HIDE DEF others, nearest, score, job
  <2> QED
    BY <1>7, <1>8
<1> QED
  BY <1>9 DEF NearestSuggestedFirst

LEMMA ListsMirror == MatchingInv => ListsMirrorEachOther
<1> SUFFICES ASSUME MatchingInv, query.kind = "worker", NEW j \in OpenJobs,
                    CanTake(query.worker, j)
             PROVE  j \in Listed
  BY DEF ListsMirrorEachOther
<1>1. PICK w \in MatchWorkers : query = [kind |-> "worker", worker |-> w] /\ answer \in OpenJobsFor(w)
  BY DEF MatchingInv, AnswersTheQuery, NoQuery
<1>2. IsFiniteSet(Reachable(w))
  BY FS_Subset, MatchingAssumption DEF Reachable
<1>3. answer \in Injection(1 .. Cardinality(Reachable(w)), Reachable(w))
  BY <1>1 DEF OpenJobsFor, Sorted
<1>4. Lists(answer, Reachable(w))
  BY <1>2, <1>3, ListsASet
<1>5. j \in Reachable(w)
  <2>1. /\ profile[w] \in Profiles /\ profile[w].travel_km \in Int /\ j.suburb \in Suburbs
        /\ j.trade \in profile[w].trades /\ InReach(w, j.suburb, profile[w].travel_km)
    BY <1>1, ProfilesAreRead, MatchingAssumption DEF CanTake, MatchingInv
  <2>2. ServiceAreas(profile[w]) # {} /\ BestRank(profile[w], j.suburb) # FAR
    BY <2>1, BestAreaDecides, ProfilesAreRead DEF MatchingInv
  <2> QED
    BY <2>1, <2>2 DEF Reachable
<1> QED
  BY <1>4, <1>5 DEF Lists, Listed

\* Only crews that pass the filters are shown.
LEMMA CrewsShown ==
  ASSUME NEW order, NEW a \in CrewAnswers(order)
  PROVE  /\ a \in Seq(MatchCrews)
         /\ \A i \in DOMAIN a : a[i] \in CrewCandidates(order)
<1> DEFINE C == CrewCandidates(order)
<1>1. PICK q \in Sorted(C, LAMBDA c, d : CrewRanksBefore(order, c, d)) :
        a = Top(q, MAX_CREW_CANDIDATES)
  BY DEF CrewAnswers
<1>2. q \in Injection(1 .. Cardinality(C), C)
  BY <1>1 DEF Sorted
<1>3. C \in SUBSET MatchCrews
  BY DEF CrewCandidates
<1> HIDE DEF C
<1>4. IsFiniteSet(C)
  BY <1>3, FS_Subset, MatchingAssumption
<1>5. q \in Seq(C)
  BY <1>2, <1>4, Enumerates
<1>6. a \in Seq(C)
  BY <1>1, <1>5, TopKeepsTheFirst, MatchingAssumption
<1>7. a \in Seq(MatchCrews)
  BY <1>3, <1>6, SeqMonotonic
<1>8. \A i \in DOMAIN a : a[i] \in C
  BY <1>6, LenProperties, ElementOfSeq
<1> QED
  BY <1>7, <1>8 DEF C

\* Who counts for a crew is who can work there.
LEMMA QualifyingCanWork ==
  ASSUME MatchingTypeOK, NEW order, order.suburb \in Suburbs, NEW c \in MatchCrews
  PROVE  Qualifying(c, order) =
           {w \in roster[c].members : /\ order.trade \in profile[w].trades
                                      /\ ~profile[w].busy
                                      /\ InReach(w, order.suburb, MODERATE_KM)}
<1>1. roster[c].members \subseteq MatchWorkers
  <2>1. roster[c] \in [members : SUBSET MatchWorkers, busy : BOOLEAN]
    BY MatchingAssumption DEF MatchingTypeOK
  <2> QED
    BY <2>1
<1>2. ASSUME NEW w \in roster[c].members
      PROVE  InReach(w, order.suburb, MODERATE_KM) <=>
               ServiceAreas(profile[w]) # {} /\ BestRank(profile[w], order.suburb) < FAR
  <2> DEFINE p == profile[w]
             s == order.suburb
  <2>1. p \in Profiles /\ s \in Suburbs /\ w \in MatchWorkers
    BY <1>1, <1>2, ProfilesAreRead
  <2>2. InReach(w, s, MODERATE_KM) <=>
          /\ ServiceAreas(p) # {}
          /\ BestRank(p, s) # FAR
          /\ BestKm(p, s) <= MODERATE_KM
    BY <2>1, ProfilesAreRead, BestAreaDecides DEF MODERATE_KM
  <2>3. ASSUME ServiceAreas(p) # {}
        PROVE  /\ BestRank(p, s) \in 0 .. FAR /\ BestKm(p, s) \in Nat
               /\ BestRank(p, s) # FAR => BestKm(p, s) <= MODERATE_KM
    <3>1. BestArea(p, s) \in Suburbs
      BY <2>1, <2>3, BestAreaIsNearest, AreasAreSuburbs
    <3> QED
      BY <2>1, <3>1, BandsAndDistances DEF BestRank, BestKm, MODERATE_KM
  <2> HIDE DEF p, s
  <2>4. CASE ServiceAreas(p) # {}
    BY <2>2, <2>3, <2>4 DEF FAR, p, s
  <2>5. CASE ServiceAreas(p) = {}
    BY <2>2, <2>5 DEF p, s
  <2> QED
    BY <2>4, <2>5
<1> QED
  BY <1>2 DEF Qualifying

LEMMA CrewsCanStaff == MatchingInv => ListedCrewsCanStaff
<1> SUFFICES ASSUME MatchingInv, query.kind = "crew", NEW c \in Listed
             PROVE  /\ ~roster[c].busy
                    /\ Cardinality({w \in roster[c].members :
                                      /\ query.order.trade \in profile[w].trades
                                      /\ ~profile[w].busy
                                      /\ InReach(w, query.order.suburb, MODERATE_KM)})
                         >= query.order.workers_needed
  BY DEF ListedCrewsCanStaff
<1>1. PICK j \in OpenJobs, n \in WorkersNeeded :
        /\ query = [kind |-> "crew", order |-> CrewOrder(j, n)]
        /\ answer \in CrewAnswers(CrewOrder(j, n))
  BY DEF MatchingInv, AnswersTheQuery, NoQuery
<1> DEFINE order == CrewOrder(j, n)
<1>2. query.order = order /\ order.suburb \in Suburbs
  BY <1>1, MatchingAssumption DEF CrewOrder
<1>3. c \in CrewCandidates(order)
  BY <1>1, CrewsShown DEF Listed
<1> HIDE DEF order
<1>4. /\ c \in MatchCrews /\ ~roster[c].busy
      /\ Cardinality(Qualifying(c, order)) >= order.workers_needed
  BY <1>3 DEF CrewCandidates
<1> QED
  BY <1>2, <1>4, QualifyingCanWork DEF MatchingInv

----------------------------------------------------------------------------
(* The machine *)

LEMMA InitMatchingInv == MatchingInit => MatchingInv
<1> SUFFICES ASSUME MatchingInit PROVE MatchingInv
  OBVIOUS
<1>1. bidders \subseteq MatchWorkers
  BY DEF MatchingInit
<1> QED
  BY <1>1 DEF MatchingInit, MatchingInv, MatchingTypeOK, AnswersTheQuery

\* An answer is computed from rows the query leaves as they are.
LEMMA AnswersArePrimed ==
  ASSUME UNCHANGED <<profile, bidders, roster>>
  PROVE  /\ \A job : JobCandidates(job)' = JobCandidates(job)
         /\ \A w : OpenJobsFor(w)' = OpenJobsFor(w)
         /\ \A order : CrewAnswers(order)' = CrewAnswers(order)
<1>1. ASSUME NEW job PROVE JobCandidates(job)' = JobCandidates(job)
  BY DEF JobCandidates, Ranked, Sorted, Bidding, Others, Candidates, RanksBefore
<1>2. ASSUME NEW w PROVE OpenJobsFor(w)' = OpenJobsFor(w)
  BY DEF OpenJobsFor, Sorted, Reachable, OpenJobKey
<1>3. ASSUME NEW order PROVE CrewAnswers(order)' = CrewAnswers(order)
  BY DEF CrewAnswers, Sorted, CrewCandidates, CrewRanksBefore, CrewBand, Qualifying
<1> QED
  BY <1>1, <1>2, <1>3

LEMMA AskKeepsInv ==
  ASSUME MatchingInv, NEW q, NEW answers, Ask(q, answers),
         \A a \in answers : a \in Seq(MatchWorkers \cup MatchCrews \cup OpenJobs)
  PROVE  MatchingTypeOK' /\ query' = q /\ answer' \in answers
                         /\ UNCHANGED <<profile, bidders, roster>>
BY DEF MatchingInv, MatchingTypeOK, Ask

LEMMA MatchingStep ==
  ASSUME MatchingInv, [MatchingNext]_matchVars
  PROVE  MatchingInv'
<1> DEFINE All == MatchWorkers \cup MatchCrews \cup OpenJobs
<1>1. CASE UNCHANGED matchVars
  <2>1. UNCHANGED <<profile, bidders, roster, query, answer>>
    BY <1>1 DEF matchVars
  <2>2. MatchingTypeOK'
    BY <2>1 DEF MatchingInv, MatchingTypeOK
  <2>3. AnswersTheQuery'
    BY <2>1, AnswersArePrimed DEF MatchingInv, AnswersTheQuery
  <2> QED
    BY <2>2, <2>3 DEF MatchingInv
<1>2. ASSUME NEW j \in OpenJobs, MatchJob(j) PROVE MatchingInv'
  <2>1. \A a \in JobCandidates(j) : a \in Seq(All)
    BY JobAnswers, SeqMonotonic
  <2>2. /\ MatchingTypeOK' /\ query' = [kind |-> "job", job |-> j]
        /\ answer' \in JobCandidates(j) /\ UNCHANGED <<profile, bidders, roster>>
    BY <1>2, <2>1, AskKeepsInv DEF MatchJob
  <2>3. answer' \in JobCandidates(j)'
    BY <2>2, AnswersArePrimed
  <2> QED
    BY <2>2, <2>3 DEF MatchingInv, AnswersTheQuery
<1>3. ASSUME NEW w \in MatchWorkers, ListOpenJobs(w) PROVE MatchingInv'
  <2>1. \A a \in OpenJobsFor(w) : a \in Seq(All)
    <3> SUFFICES ASSUME NEW a \in OpenJobsFor(w) PROVE a \in Seq(All)
      OBVIOUS
    <3>1. a \in Injection(1 .. Cardinality(Reachable(w)), Reachable(w))
      BY DEF OpenJobsFor, Sorted
    <3>2. Reachable(w) \in SUBSET OpenJobs
      BY DEF Reachable
    <3>3. IsFiniteSet(Reachable(w))
      BY <3>2, FS_Subset, MatchingAssumption
    <3>4. a \in Seq(Reachable(w))
      BY <3>1, <3>3, Enumerates
    <3> QED
      BY <3>2, <3>4, SeqMonotonic
  <2>2. /\ MatchingTypeOK' /\ query' = [kind |-> "worker", worker |-> w]
        /\ answer' \in OpenJobsFor(w) /\ UNCHANGED <<profile, bidders, roster>>
    BY <1>3, <2>1, AskKeepsInv DEF ListOpenJobs
  <2>3. answer' \in OpenJobsFor(w)'
    BY <2>2, AnswersArePrimed
  <2> QED
    BY <2>2, <2>3 DEF MatchingInv, AnswersTheQuery
<1>4. ASSUME NEW j \in OpenJobs, NEW n \in WorkersNeeded, MatchCrew(j, n) PROVE MatchingInv'
  <2> DEFINE order == CrewOrder(j, n)
  <2>1. \A a \in CrewAnswers(order) : a \in Seq(All)
    BY CrewsShown, SeqMonotonic
  <2>2. /\ MatchingTypeOK' /\ query' = [kind |-> "crew", order |-> order]
        /\ answer' \in CrewAnswers(order) /\ UNCHANGED <<profile, bidders, roster>>
    BY <1>4, <2>1, AskKeepsInv DEF MatchCrew
  <2>3. answer' \in CrewAnswers(order)'
    BY <2>2, AnswersArePrimed
  <2> QED
    BY <2>2, <2>3 DEF MatchingInv, AnswersTheQuery
<1> QED
  BY <1>1, <1>2, <1>3, <1>4 DEF MatchingNext

\* Stepping stone: types, and that an answer is still the one Ask assigned.  It
\* says nothing of what a query answers; the four theorems below do.
LEMMA MatchingInvariance == MatchingSpec => []MatchingInv
BY InitMatchingInv, MatchingStep, PTL DEF MatchingSpec

\* A buyer is shown only workers who can take the job, every bidder who can, and
\* others up to the cut-off: find_top_candidates.
THEOREM MatchingShowsWhoCan == MatchingSpec => []BuyersSeeWhoCanTakeTheJob
BY MatchingInvariance, BuyersSeeThem, PTL

\* Of the suggestions, no one left out or listed later is nearer, or as near and
\* of better standing: the sort key and the cut-off of find_top_candidates.
THEOREM MatchingNearestFirst == MatchingSpec => []NearestSuggestedFirst
BY MatchingInvariance, NearestComeFirst, PTL

\* Every job whose buyer may be shown a worker is in that worker's own list,
\* although the two lists are computed by different loops.
THEOREM MatchingMirrors == MatchingSpec => []ListsMirrorEachOther
BY MatchingInvariance, ListsMirror, PTL

\* A crew is shown for an order only while it is free and has enough qualifying
\* members: CrewMatchingService.
THEOREM MatchingCrewsCanStaff == MatchingSpec => []ListedCrewsCanStaff
BY MatchingInvariance, CrewsCanStaff, PTL

=============================================================================
