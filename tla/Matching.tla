------------------------------ MODULE Matching ------------------------------
(***************************************************************************)
(* Matching: which workers a Quick Hire job is shown, which crews a crew   *)
(* order is shown, and which open jobs a worker is shown, as               *)
(* JobMatchingService, CrewMatchingService and ListOpenJobsForWorker       *)
(* compute them over the rows they read.                                   *)
(*                                                                         *)
(* The three are loops over the rows; each is one operator here and one    *)
(* step of the machine, which starts in any world (profiles, offers,       *)
(* rosters) the constants allow and answers one query.  Python's sort is   *)
(* stable over sets that iterate in any order, so ties fall either way:    *)
(* an answer is any sequence sorted by the key.                            *)
(*                                                                         *)
(* Abstracted: coordinates are whole kilometres between suburbs; wording   *)
(* of the reason, and the fields copied into a candidate for display.      *)
(***************************************************************************)
EXTENDS Integers, Sequences, FiniteSets, Functions

CONSTANTS
  MatchWorkers, MatchCrews,  \* persons with role WORKER; rows of crews
  Suburbs,                   \* names in the suburbs table
  Km(_, _),                  \* haversine_km between two suburbs
  Profiles,                  \* what the tables may say of a worker
  OpenJobs,                  \* jobs in REQUESTED or MATCHED
  Rosters,                   \* crew_members and busy crews: [members, busy]
  WorkersNeeded,             \* workers_needed of the crew order
  MAX_SUGGESTIONS,           \* 3 in the code
  MAX_CREW_CANDIDATES        \* 3 in the code

NoStanding == [row |-> "none"]

ASSUME MatchingAssumption ==
  /\ \A a, b \in Suburbs : Km(a, b) \in Nat /\ Km(a, b) = Km(b, a)
  /\ \A p \in Profiles :
       /\ p.areas \subseteq Suburbs /\ p.home \subseteq Suburbs
       /\ p.travel_km \in Nat
       /\ p.standing # NoStanding =>
            {p.standing.on_time, p.standing.dispute, p.standing.fill, p.standing.rank} \subseteq Int
  /\ \A j \in OpenJobs : j.suburb \in Suburbs
  /\ Rosters \subseteq [MatchCrews -> [members : SUBSET MatchWorkers, busy : BOOLEAN]]
  /\ IsFiniteSet(MatchWorkers) /\ IsFiniteSet(MatchCrews) /\ IsFiniteSet(OpenJobs)
  /\ MAX_SUGGESTIONS \in Nat
  /\ MAX_CREW_CANDIDATES \in Nat

VARIABLES
  profile,   \* each worker: trades, areas, home suburb, standing, busy, ...
  bidders,   \* workers with an offer on the job asked about
  roster,    \* each crew: its members and whether an order holds it
  query,     \* what was asked, or NoQuery
  answer     \* the candidates listed for it

matchVars == <<profile, bidders, roster, query, answer>>

NoQuery == [kind |-> "none"]

----------------------------------------------------------------------------
(* shared_kernel/geo.py *)

NEARBY_KM == 3
MODERATE_KM == 8

\* BAND_RANK: SAME_SUBURB, NEARBY, MODERATE, FAR.
FAR == 3

\* classify_distance: the band's rank.
BandRank(a, b) ==
  IF a = b THEN 0
  ELSE IF Km(a, b) < NEARBY_KM THEN 1
  ELSE IF Km(a, b) < MODERATE_KM THEN 2
  ELSE FAR

Distance(a, b) == IF a = b THEN 0 ELSE Km(a, b)

----------------------------------------------------------------------------
(* WorkerMatchingProfileAdapter *)

\* Mutation: a worker without declared areas has none.
DeclaredAreas(p) == p.areas

\* get_service_areas: the declared areas, else the home suburb.
ServiceAreas(p) == IF p.areas # {} THEN p.areas ELSE p.home

\* _standing_score; without a standings row 100% on time and grade REGISTERED.
StandingScore(s) ==
  IF s = NoStanding THEN 100 ELSE s.on_time - s.dispute + s.fill + 10 * s.rank

\* The loop over the areas: the least (rank, km).
BestArea(p, suburb) ==
  CHOOSE a \in ServiceAreas(p) : \A b \in ServiceAreas(p) :
    \/ BandRank(suburb, a) < BandRank(suburb, b)
    \/ /\ BandRank(suburb, a) = BandRank(suburb, b)
       /\ Distance(suburb, a) <= Distance(suburb, b)

BestRank(p, suburb) == BandRank(suburb, BestArea(p, suburb))

BestKm(p, suburb) == Distance(suburb, BestArea(p, suburb))

\* Sequences of S in which no later element belongs before an earlier one.
Sorted(S, Before(_, _)) ==
  {q \in Injection(1 .. Cardinality(S), S) :
     \A i, k \in DOMAIN q : i < k => ~Before(q[k], q[i])}

Top(q, n) == SubSeq(q, 1, IF Len(q) < n THEN Len(q) ELSE n)

----------------------------------------------------------------------------
(* The three queries *)

\* find_top_candidates: who passes the filters of the loop.
Candidates(job) ==
  {w \in MatchWorkers :
     LET p == profile[w] IN
     /\ job.trade \in p.trades
     /\ ~p.busy
     /\ ServiceAreas(p) # {}
     /\ BestRank(p, job.suburb) # FAR
     /\ p.available
     /\ BestKm(p, job.suburb) <= p.travel_km}

\* Mutation: the standing decides before the distance band.
BestStandingFirst(job, v, w) ==
  StandingScore(profile[v].standing) > StandingScore(profile[w].standing)

\* The sort key behind the bidders: (band_rank, -score).
RanksBefore(job, v, w) ==
  LET rank(x) == BestRank(profile[x], job.suburb) IN
  \/ rank(v) < rank(w)
  \/ /\ rank(v) = rank(w)
     /\ StandingScore(profile[v].standing) > StandingScore(profile[w].standing)

Ranked(job, S) == Sorted(S, LAMBDA v, w : RanksBefore(job, v, w))

\* Mutation: bidders take the places of suggestions.
CutBeforeBidders(job) == {Top(q, MAX_SUGGESTIONS) : q \in Ranked(job, Candidates(job))}

Bidding(job) == Candidates(job) \cap bidders

Others(job) == Candidates(job) \ bidders

JobCandidates(job) ==
  {offered \o Top(suggested, MAX_SUGGESTIONS) :
     offered \in Ranked(job, Bidding(job)), suggested \in Ranked(job, Others(job))}

\* list_open_for_trade and the distance loop of ListOpenJobsForWorker.
Reachable(w) ==
  {j \in OpenJobs : /\ j.trade \in profile[w].trades
                    /\ ServiceAreas(profile[w]) # {}
                    /\ BestRank(profile[w], j.suburb) # FAR}

OpenJobKey(w, j) == j.urgent_rank * 10 + BestRank(profile[w], j.suburb)

\* Newest first within a key.
OpenJobsFor(w) ==
  Sorted(Reachable(w),
         LAMBDA i, j : \/ OpenJobKey(w, i) < OpenJobKey(w, j)
                       \/ OpenJobKey(w, i) = OpenJobKey(w, j) /\ i.created > j.created)

\* Mutation: busy members are counted.
QualifyingWithBusy(c, order) ==
  {w \in roster[c].members :
     LET p == profile[w] IN
     /\ order.trade \in p.trades
     /\ ServiceAreas(p) # {}
     /\ BestRank(p, order.suburb) < FAR}

\* The members in worker_band.
Qualifying(c, order) ==
  {w \in roster[c].members :
     LET p == profile[w] IN
     /\ order.trade \in p.trades
     /\ ServiceAreas(p) # {}
     /\ ~p.busy
     /\ BestRank(p, order.suburb) < FAR}

\* Crews that pass; a crew without a qualifying member cannot, workers_needed > 0.
CrewCandidates(order) ==
  {c \in MatchCrews : /\ ~roster[c].busy
                      /\ Cardinality(Qualifying(c, order)) >= order.workers_needed}

CrewBand(c, order) ==
  CHOOSE r \in 0 .. FAR :
    /\ \E w \in Qualifying(c, order) : BestRank(profile[w], order.suburb) = r
    /\ \A w \in Qualifying(c, order) : r <= BestRank(profile[w], order.suburb)

CrewRanksBefore(order, c, d) ==
  \/ CrewBand(c, order) < CrewBand(d, order)
  \/ /\ CrewBand(c, order) = CrewBand(d, order)
     /\ Cardinality(Qualifying(c, order)) > Cardinality(Qualifying(d, order))

CrewAnswers(order) ==
  {Top(q, MAX_CREW_CANDIDATES) :
     q \in Sorted(CrewCandidates(order), LAMBDA c, d : CrewRanksBefore(order, c, d))}

----------------------------------------------------------------------------
(* The machine *)

MatchingInit ==
  /\ profile \in [MatchWorkers -> Profiles]
  /\ roster \in Rosters
  /\ bidders \in {{}} \cup {{w} : w \in MatchWorkers}
  /\ query = NoQuery
  /\ answer = <<>>

Ask(q, answers) ==
  /\ query = NoQuery
  /\ query' = q
  /\ answer' \in answers
  /\ UNCHANGED <<profile, bidders, roster>>

MatchJob(j) == Ask([kind |-> "job", job |-> j], JobCandidates(j))

ListOpenJobs(w) == Ask([kind |-> "worker", worker |-> w], OpenJobsFor(w))

CrewOrder(j, n) == [trade |-> j.trade, suburb |-> j.suburb, workers_needed |-> n]

MatchCrew(j, n) ==
  Ask([kind |-> "crew", order |-> CrewOrder(j, n)], CrewAnswers(CrewOrder(j, n)))

MatchingNext ==
  \/ \E j \in OpenJobs : MatchJob(j)
  \/ \E w \in MatchWorkers : bidders = {} /\ ListOpenJobs(w)
  \/ \E j \in OpenJobs, n \in WorkersNeeded : bidders = {} /\ MatchCrew(j, n)

MatchingSpec == MatchingInit /\ [][MatchingNext]_matchVars

----------------------------------------------------------------------------
(* Properties *)

MatchingTypeOK ==
  /\ profile \in [MatchWorkers -> Profiles]
  /\ bidders \subseteq MatchWorkers
  /\ roster \in Rosters
  /\ answer \in Seq(MatchWorkers \cup MatchCrews \cup OpenJobs)

\* The rows do not change under a query, so the answer stays the query's: a
\* stepping stone of the proofs, which by itself says nothing of the answer.
AnswersTheQuery ==
  \/ query = NoQuery
  \/ \E j \in OpenJobs : /\ query = [kind |-> "job", job |-> j]
                         /\ answer \in JobCandidates(j)
  \/ \E w \in MatchWorkers : /\ query = [kind |-> "worker", worker |-> w]
                             /\ answer \in OpenJobsFor(w)
  \/ \E j \in OpenJobs, n \in WorkersNeeded :
       LET order == CrewOrder(j, n)
       IN  query = [kind |-> "crew", order |-> order] /\ answer \in CrewAnswers(order)

\* The inductive invariant.
MatchingInv == MatchingTypeOK /\ AnswersTheQuery

Listed == {answer[i] : i \in DOMAIN answer}

\* Some declared area (or the home suburb without one) is in reach: within
\* MODERATE distance of the site, and as far as the worker travels.
InReach(w, suburb, travel) ==
  \E a \in (IF profile[w].areas = {} THEN profile[w].home ELSE profile[w].areas) :
    Distance(a, suburb) < MODERATE_KM /\ Distance(a, suburb) <= travel

CanTake(w, job) ==
  /\ job.trade \in profile[w].trades
  /\ profile[w].available
  /\ ~profile[w].busy
  /\ InReach(w, job.suburb, profile[w].travel_km)

\* A buyer is shown exactly workers who can take the job: every bidder who
\* can, and of the others as many as fit.
BuyersSeeWhoCanTakeTheJob ==
  query.kind = "job" =>
    /\ Cardinality(Listed) = Len(answer)
    /\ \A w \in Listed : CanTake(w, query.job)
    /\ \A w \in bidders : CanTake(w, query.job) => w \in Listed
    /\ \A w \in MatchWorkers \ Listed :
         CanTake(w, query.job) => Cardinality(Listed \ bidders) = MAX_SUGGESTIONS

\* Nobody who was left out, or listed later, is strictly closer than a listed
\* suggestion, or as close and of better standing.
NearestSuggestedFirst ==
  query.kind = "job" =>
    LET others == {w \in MatchWorkers : CanTake(w, query.job)} \ bidders
        nearest(w) == CHOOSE r \in 0 .. FAR :
                        /\ \E a \in ServiceAreas(profile[w]) : BandRank(a, query.job.suburb) = r
                        /\ \A a \in ServiceAreas(profile[w]) : BandRank(a, query.job.suburb) >= r
    IN  \A i \in DOMAIN answer, w \in others :
          answer[i] \in others /\ (\A k \in 1 .. i : answer[k] # w) =>
            /\ nearest(answer[i]) <= nearest(w)
            /\ nearest(answer[i]) = nearest(w) =>
                 StandingScore(profile[answer[i]].standing) >= StandingScore(profile[w].standing)

\* The worker's list mirrors the buyer's: a job whose matches could name the
\* worker is in the worker's own list, whatever else is open.
ListsMirrorEachOther ==
  query.kind = "worker" =>
    \A j \in OpenJobs : CanTake(query.worker, j) => j \in Listed

\* A listed crew is free and can staff the order with members who know the
\* trade, are in distance and are on no job of their own.
ListedCrewsCanStaff ==
  query.kind = "crew" =>
    \A c \in Listed :
      /\ ~roster[c].busy
      /\ Cardinality({w \in roster[c].members :
                        /\ query.order.trade \in profile[w].trades
                        /\ ~profile[w].busy
                        /\ InReach(w, query.order.suburb, MODERATE_KM)})
           >= query.order.workers_needed

=============================================================================
