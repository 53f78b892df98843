------------------------------ MODULE Vetting ------------------------------
(***************************************************************************)
(* Progressive vetting (ADR-005): the evidence a worker collects (an ID    *)
(* photo, references, vouches of senior workers) and the grade derived     *)
(* from it, as app/apps/workers/domain/services.py computes them.          *)
(*                                                                         *)
(* A request inserts its evidence, makes sure the standings row exists,    *)
(* recomputes the grade and commits, all in one READ COMMITTED             *)
(* transaction with an await between any two statements.  The recompute    *)
(* reads the row into an entity, reads the evidence, and save() selects    *)
(* the row again and writes the columns in which the entity differs.  A    *)
(* sign-off or dispute saves the same row (RecomputeStanding) and is the   *)
(* operation Stats here: of its columns only the grade matters.            *)
(*                                                                         *)
(* A request is one record: the entity's grade, what its reads returned,   *)
(* and how far it is.  Own inserts are visible to their transaction only,  *)
(* until the commit publishes evidence and grade together.                 *)
(***************************************************************************)
EXTENDS Integers, FiniteSets

CONSTANTS
  VetWorkers,                  \* persons with role WORKER
  VetSeeds,                    \* whose grade an operator set to JOURNEYMAN
  VetNewcomers,                \* who have no standings row yet
  MaxVetSlots,                 \* bound: requests open at the same time
  VetPlan,                     \* the requests clients send: [op, worker, by]
  MaxVetRequests,              \* bound: requests started in one behaviour
  MIN_VOUCHES_FOR_JOURNEYMAN,  \* 1 in the code
  MIN_VOUCHES_FOR_EXPERT       \* 3 in the code

VetOps == {"Register", "Photo", "Reference", "Vouch", "Stats"}

VetRequests == 1 .. MaxVetSlots

ASSUME VettingAssumption ==
  /\ IsFiniteSet(VetWorkers)
  /\ VetSeeds \subseteq VetWorkers
  /\ VetNewcomers \subseteq VetWorkers \ VetSeeds
  /\ VetPlan \subseteq [op : VetOps, worker : VetWorkers, by : VetWorkers]
  /\ MaxVetRequests \in Nat
  /\ MaxVetSlots \in Nat \ {0}
  /\ MIN_VOUCHES_FOR_JOURNEYMAN \in Nat \ {0}
  /\ MIN_VOUCHES_FOR_EXPERT \in Nat
  /\ MIN_VOUCHES_FOR_JOURNEYMAN <= MIN_VOUCHES_FOR_EXPERT

VARIABLES
  standings,   \* grade column of each worker's row, or "NONE" without a row
  photos,      \* workers with an id_photo_url in worker_vetting
  references,  \* workers with at least one row in worker_references
  vouches,     \* worker_vouches: pairs <<worker_id, voucher_id>>
  vet,         \* the request in each slot
  vetStarted,  \* requests started so far
  vetApart     \* whether requests of this behaviour keep apart (VetKeepsApart)

vetDb == <<standings, photos, references, vouches>>
vetVars == <<vetDb, vet, vetStarted, vetApart>>

----------------------------------------------------------------------------
(* Grades *)

\* GRADE_RANK
GRADE_RANK ==
  [REGISTERED |-> 0, IDENTIFIED |-> 1, APPRENTICE |-> 2, JOURNEYMAN |-> 3,
   EXPERT |-> 4]

Grades == DOMAIN GRADE_RANK

meets_minimum_grade(grade, minimum) == GRADE_RANK[grade] >= GRADE_RANK[minimum]

\* Mutation: the floor is one grade too low.
LowVoucherFloor == "APPRENTICE"

VOUCHER_MINIMUM_GRADE == "JOURNEYMAN"

Senior(grade) == grade # "NONE" /\ meets_minimum_grade(grade, VOUCHER_MINIMUM_GRADE)

\* The grade shown for a worker, with or without a row.
ShownGrade(w) == IF standings[w] = "NONE" THEN "REGISTERED" ELSE standings[w]

\* RecomputeGrade, from what the papers alone give and the vouches counted.
GradeFor(papers, vouched) ==
  IF vouched >= MIN_VOUCHES_FOR_EXPERT THEN "EXPERT"
  ELSE IF vouched >= MIN_VOUCHES_FOR_JOURNEYMAN THEN "JOURNEYMAN"
  ELSE papers

\* What a photo and a reference give.
PapersGrade(w, withPhoto, withReference) ==
  IF w \notin withPhoto THEN "REGISTERED"
  ELSE IF w \in withReference THEN "APPRENTICE" ELSE "IDENTIFIED"

\* Mutation: the join is dropped, any giver's vouch counts.
AnyVouchers(w, given) == {v \in VetWorkers : <<w, v>> \in given}

\* count_valid_vouches: the givers whose committed grade qualifies now.
ValidVouchers(w, given) ==
  {v \in VetWorkers : <<w, v>> \in given /\ Senior(standings[v])}

----------------------------------------------------------------------------
(* Requests *)

Idle == [step |-> "idle"]

VetSteps == {"begun", "inserted", "ensured", "loaded", "read", "counted", "selected"}

VetRequest ==
  [op : VetOps, worker : VetWorkers, by : VetWorkers,
   step   : VetSteps,
   fresh  : BOOLEAN,              \* the row it selected was not there
   grade  : Grades \cup {"NONE"}, \* of the entity
   papers : Grades,
   base   : Grades \cup {"NONE"}] \* what save() selected

VettingTypeOK ==
  /\ standings \in [VetWorkers -> Grades \cup {"NONE"}]
  /\ photos \subseteq VetWorkers
  /\ references \subseteq VetWorkers
  /\ vouches \subseteq VetWorkers \X VetWorkers
  /\ vet \in [VetRequests -> VetRequest \cup {Idle}]
  /\ vetStarted \in 0 .. MaxVetRequests
  /\ vetApart \in BOOLEAN

VettingInit ==
  /\ standings = [w \in VetWorkers |->
                    IF w \in VetSeeds THEN "JOURNEYMAN"
                    ELSE IF w \in VetNewcomers THEN "NONE" ELSE "REGISTERED"]
  /\ photos = {}
  /\ references = {}
  /\ vouches = {}
  /\ vet = [r \in VetRequests |-> Idle]
  /\ vetStarted = 0
  /\ vetApart \in BOOLEAN

VetAt(r, step) == vet[r].step = step

VetGo(r, q) ==
  /\ vet' = [vet EXCEPT ![r] = q]
  /\ UNCHANGED <<vetDb, vetStarted, vetApart>>

\* The evidence a transaction sees: what is committed and its own insert.
OwnPhotos(q)     == photos \cup (IF q.op = "Photo" THEN {q.worker} ELSE {})
OwnReferences(q) == references \cup (IF q.op = "Reference" THEN {q.worker} ELSE {})
OwnVouches(q)    == vouches \cup (IF q.op = "Vouch" THEN {<<q.worker, q.by>>} ELSE {})

\* Others whose insert of the same key is flushed and not yet committed.
EvidenceHeld(r) ==
  \E p \in VetRequests \ {r} :
    /\ vet[p].step \notin {"idle", "begun"}
    /\ vet[p].op = vet[r].op
    /\ vet[p].worker = vet[r].worker
    /\ \/ vet[r].op = "Photo"
       \/ vet[r].op = "Vouch" /\ vet[p].by = vet[r].by

RowHeld(r) ==
  \E p \in VetRequests \ {r} :
    /\ vet[p].step \in {"loaded", "read", "counted", "selected"}
    /\ vet[p].worker = vet[r].worker
    /\ vet[p].fresh

\* The unique key was taken after the request found it free.
EvidenceTaken(q) ==
  \/ q.op = "Vouch" /\ <<q.worker, q.by>> \in vouches
  \/ q.op = "Photo" /\ q.fresh /\ q.worker \in photos

RowTaken(q) == q.fresh /\ standings[q.worker] # "NONE"

----------------------------------------------------------------------------
(* Steps *)

\* q writes the grade neither of p's worker nor of a giver whose vouch p counts.
NotDisturbedBy(p, q) ==
  /\ q.worker # p.worker
  /\ q.worker # p.by
  /\ <<p.worker, q.worker>> \notin vouches

\* Clients that keep apart have no two requests at a time of which one could
\* change what the other reads.  Nothing in the code makes them.
VetKeepsApart(r, q) ==
  \A p \in VetRequests \ {r} : ~VetAt(p, "idle") =>
    NotDisturbedBy(vet[p], q) /\ NotDisturbedBy(q, vet[p])

\* The endpoint is called.  A vouch needs a senior giver and another person;
\* upsert_id_photo looks for the vetting row; a sign-off has nothing to insert.
VetBegin(r, call) ==
  /\ VetAt(r, "idle")
  /\ vetApart => VetKeepsApart(r, call)
  /\ vetStarted < MaxVetRequests
  /\ call.op = "Vouch" =>
       /\ call.worker # call.by
       /\ meets_minimum_grade(ShownGrade(call.by), VOUCHER_MINIMUM_GRADE)
  /\ vet' = [vet EXCEPT ![r] =
       [op |-> call.op, worker |-> call.worker, by |-> call.by,
        step |-> IF call.op = "Stats" THEN "ensured" ELSE "begun",
        fresh |-> call.op = "Photo" /\ call.worker \notin photos,
        grade |-> "NONE", papers |-> "REGISTERED", base |-> "NONE"]]
  /\ vetStarted' = vetStarted + 1
  /\ UNCHANGED <<vetDb, vetApart>>

\* add() or upsert_id_photo: the evidence row is flushed.
VetInsert(r) ==
  /\ VetAt(r, "begun")
  /\ ~EvidenceHeld(r)
  /\ ~EvidenceTaken(vet[r])
  /\ VetGo(r, [vet[r] EXCEPT !.step = IF vet[r].op = "Vouch" THEN "ensured" ELSE "inserted",
                             !.fresh = FALSE])

\* StandingRepository.ensure: the new row is flushed by the next statement.
VetEnsure(r) ==
  /\ VetAt(r, "inserted")
  /\ VetGo(r, [vet[r] EXCEPT !.step = "ensured",
                             !.fresh = standings[vet[r].worker] = "NONE"])

\* Recompute: get() copies the row.  Without one there is nothing to save.
VetLoad(r) ==
  LET q == vet[r]
      grade == IF q.fresh THEN "REGISTERED" ELSE standings[q.worker]
  IN  /\ VetAt(r, "ensured")
      /\ q.op # "Register"
      /\ q.fresh => ~RowHeld(r) /\ ~RowTaken(q)
      /\ VetGo(r, [q EXCEPT !.step = IF grade = "NONE" THEN "selected" ELSE "loaded",
                            !.grade = grade])

\* Mutation: the evidence of other open transactions is read as well.
DirtyReadPapers(r) ==
  LET q == vet[r]
      open(op) == {vet[p].worker : p \in {p \in VetRequests : vet[p] # Idle /\ vet[p].op = op}}
  IN  /\ VetAt(r, "loaded")
      /\ q.op # "Stats"
      /\ VetGo(r, [q EXCEPT !.step = "read",
                            !.papers = PapersGrade(q.worker, photos \cup open("Photo"),
                                                   references \cup open("Reference"))])

\* The vetting row, then the number of references.  Rows are only added and
\* references matter only behind a photo, so one step loses no outcome.
VetReadPapers(r) ==
  LET q == vet[r] IN
  /\ VetAt(r, "loaded")
  /\ q.op # "Stats"
  /\ VetGo(r, [q EXCEPT !.step = "read",
                        !.papers = PapersGrade(q.worker, OwnPhotos(q), OwnReferences(q))])

\* Mutation: the vouch is added after the recompute.
CountCommittedVouches(r) ==
  LET q == vet[r] IN
  /\ VetAt(r, "read")
  /\ VetGo(r, [q EXCEPT !.step = "counted",
                        !.grade = GradeFor(q.papers,
                                           Cardinality(ValidVouchers(q.worker, vouches)))])

VetCountVouches(r) ==
  LET q == vet[r] IN
  /\ VetAt(r, "read")
  /\ VetGo(r, [q EXCEPT !.step = "counted",
                        !.grade = GradeFor(q.papers,
                                           Cardinality(ValidVouchers(q.worker, OwnVouches(q))))])

\* StandingRepository.save selects the row again.
VetSelect(r) ==
  LET q == vet[r] IN
  /\ \/ VetAt(r, "counted")
     \/ VetAt(r, "loaded") /\ q.op = "Stats"
  /\ VetGo(r, [q EXCEPT !.step = "selected",
                        !.base = IF q.fresh THEN "REGISTERED" ELSE standings[q.worker]])

\* The grade in the row after the UPDATE (or INSERT) of a request.
SavedGrade(q) ==
  IF q.fresh THEN (IF q.op = "Register" THEN "REGISTERED" ELSE q.grade)
  ELSE IF q.grade = "NONE" \/ q.grade = q.base THEN standings[q.worker]
  ELSE q.grade

VetDone(r) == vet' = [vet EXCEPT ![r] = Idle] /\ UNCHANGED <<vetStarted, vetApart>>

\* UnitOfWork.commit publishes the evidence and the row.
VetCommit(r) ==
  LET q == vet[r] IN
  /\ \/ VetAt(r, "selected")
     \/ /\ VetAt(r, "ensured")
        /\ q.op = "Register"
        /\ q.fresh => ~RowHeld(r) /\ ~RowTaken(q)
  /\ standings' = [standings EXCEPT ![q.worker] = SavedGrade(q)]
  /\ photos' = OwnPhotos(q)
  /\ references' = OwnReferences(q)
  /\ vouches' = OwnVouches(q)
  /\ VetDone(r)

\* Mutation: the loser of a unique key goes on waiting.
NoIntegrityError(r) == FALSE /\ VetDone(r) /\ UNCHANGED vetDb

\* A unique key lost to another request: 409, or 500 where nothing catches
\* the IntegrityError.
VetRefuse(r) ==
  /\ \/ VetAt(r, "begun") /\ ~EvidenceHeld(r) /\ EvidenceTaken(vet[r])
     \/ VetAt(r, "ensured") /\ ~RowHeld(r) /\ RowTaken(vet[r])
  /\ VetDone(r)
  /\ UNCHANGED vetDb

\* The client goes away or the process dies: the session rolls back.
VetCrash(r) ==
  /\ ~VetAt(r, "idle")
  /\ VetDone(r)
  /\ UNCHANGED vetDb

VetProgress(r) ==
  \/ VetInsert(r)
  \/ VetEnsure(r)
  \/ VetLoad(r)
  \/ VetReadPapers(r)
  \/ VetCountVouches(r)
  \/ VetSelect(r)
  \/ VetCommit(r)
  \/ VetRefuse(r)

VettingNext ==
  \E r \in VetRequests :
    \/ \E call \in VetPlan : VetBegin(r, call)
    \/ VetProgress(r)
    \/ VetCrash(r)

VettingSpec == VettingInit /\ [][VettingNext]_vetVars

----------------------------------------------------------------------------
(* Properties *)

\* The evidence that a grade requires.
Earned(w, grade, withPhoto, withReference, given) ==
  /\ grade = "IDENTIFIED" => w \in withPhoto
  /\ grade = "APPRENTICE" => w \in withPhoto /\ w \in withReference
  /\ grade = "JOURNEYMAN" =>
       \/ w \in VetSeeds
       \/ Cardinality(AnyVouchers(w, given)) >= MIN_VOUCHES_FOR_JOURNEYMAN
  /\ grade = "EXPERT" =>
       Cardinality(AnyVouchers(w, given)) >= MIN_VOUCHES_FOR_EXPERT

\* However recomputes, stale saves and rollbacks interleave, no worker shows a
\* grade whose evidence is not in the tables: a grade never outlives a vouch,
\* photo or reference that was rolled back.
GradeWasEarned ==
  \A w \in VetWorkers : Earned(w, standings[w], photos, references, vouches)

\* C holds everybody its members vouched for.
ClosedUnderVouches(C, given) == \A t, v \in VetWorkers : <<t, v>> \in given /\ v \in C => t \in C

\* Seniority is handed on and never made: every worker who is JOURNEYMAN or
\* EXPERT is reached from the operator's first seniors by a chain of vouches,
\* also while givers are being demoted and requests overlap.
SeniorityTracesToSeeds ==
  \A C \in SUBSET VetWorkers :
    VetSeeds \subseteq C /\ ClosedUnderVouches(C, vouches)
      => \A w \in VetWorkers : Senior(standings[w]) => w \in C

DerivedGrade(w) ==
  GradeFor(PapersGrade(w, photos, references), Cardinality(ValidVouchers(w, vouches)))

\* While requests keep apart, however many are in flight, the grade a vetting
\* request leaves is the one the evidence in the tables yields right after its
\* commit, its own evidence included: never a stale one.
GradeFollowsEvidence ==
  [][\A r \in VetRequests, w \in VetWorkers :
       /\ vetApart
       /\ vet[r] # Idle
       /\ vet[r].op \in {"Photo", "Reference", "Vouch"}
       /\ vet[r].worker = w
       /\ VetCommit(r)
       /\ standings'[w] # "NONE"
       => standings'[w] = DerivedGrade(w)']_vetVars

----------------------------------------------------------------------------
(* Why: what a request in flight knows *)

\* The entity's grade and the papers' grade rest on evidence that is committed
\* or will be with the grade.
EntityEarned(q) ==
  /\ Earned(q.worker, q.grade, OwnPhotos(q), OwnReferences(q), OwnVouches(q))
  /\ Earned(q.worker, q.papers, OwnPhotos(q), OwnReferences(q), OwnVouches(q))
  /\ q.papers \in {"REGISTERED", "IDENTIFIED", "APPRENTICE"}

\* A senior grade about to be written traces to a seed over the vouches that
\* are committed or will be with it.
EntityTraces(q) ==
  \A C \in SUBSET VetWorkers :
    VetSeeds \subseteq C /\ ClosedUnderVouches(C, OwnVouches(q)) /\ Senior(q.grade)
      => q.worker \in C

\* Nobody vouches for himself, so a grade never counts towards itself; only
\* vetting requests recompute; a loaded entity has a grade.
EntityWellFormed(q) ==
  /\ q.op = "Vouch" => q.worker # q.by
  /\ q.step \in {"read", "counted"} => q.op \in {"Photo", "Reference", "Vouch"}
  /\ q.step = "loaded" => q.op # "Register"
  /\ q.step \in {"loaded", "read", "counted"} => q.grade # "NONE"

\* Served apart, what a request read is what its commit will publish.
EntityCurrent(q) ==
  LET papers == PapersGrade(q.worker, OwnPhotos(q), OwnReferences(q))
      valid  == ValidVouchers(q.worker, OwnVouches(q))
  IN  /\ q.step # "begun" /\ q.fresh => standings[q.worker] = "NONE"
      /\ q.step = "read" => q.papers = papers
      /\ q.step \in {"counted", "selected"} /\ q.op # "Stats" /\ q.grade # "NONE"
           => q.grade = GradeFor(papers, Cardinality(valid))
      /\ q.step = "selected" /\ ~q.fresh =>
           q.base = standings[q.worker] \/ q.grade = standings[q.worker]
      /\ q.step = "selected" /\ q.grade = "NONE" => standings[q.worker] = "NONE"

EntitiesSound ==
  \A r \in VetRequests : ~VetAt(r, "idle") =>
    /\ EntityEarned(vet[r])
    /\ EntityTraces(vet[r])
    /\ EntityWellFormed(vet[r])
    /\ vetApart => EntityCurrent(vet[r]) /\ VetKeepsApart(r, vet[r])

NoSelfVouch == \A w \in VetWorkers : <<w, w>> \notin vouches

\* The inductive invariant behind the properties of vetting.
VettingInv ==
  /\ VettingTypeOK
  /\ GradeWasEarned
  /\ SeniorityTracesToSeeds
  /\ EntitiesSound
  /\ NoSelfVouch

----------------------------------------------------------------------------

\* Every vetting request ends: no two of them wait for each other's vouch,
\* vetting row or standings row forever.
VettingRequestsEnd == \A r \in VetRequests : []<>VetAt(r, "idle")

=============================================================================
