---------------------------- MODULE VettingProofs ----------------------------
(***************************************************************************)
(* Proofs about Vetting for every set of workers, seeds and requests, and  *)
(* every number of vouches a grade may ask for.                            *)
(***************************************************************************)
EXTENDS Vetting, FiniteSetTheorems, TLAPS

----------------------------------------------------------------------------
(* Grades and evidence *)

LEMMA GradesAre ==
  Grades = {"REGISTERED", "IDENTIFIED", "APPRENTICE", "JOURNEYMAN", "EXPERT"}
BY DEF Grades, GRADE_RANK

\* Senior means one of the two grades vouches give.
LEMMA SeniorGrades ==
  ASSUME NEW grade \in Grades \cup {"NONE"}
  PROVE  Senior(grade) <=> grade \in {"JOURNEYMAN", "EXPERT"}
BY GradesAre DEF Senior, meets_minimum_grade, VOUCHER_MINIMUM_GRADE, GRADE_RANK

\* Givers are workers, so they can be counted; more vouches, more givers.
LEMMA VouchersCounted ==
  ASSUME NEW w, NEW given, NEW more, given \subseteq more
  PROVE  /\ Cardinality(AnyVouchers(w, given)) \in Nat
         /\ Cardinality(AnyVouchers(w, more)) \in Nat
         /\ Cardinality(AnyVouchers(w, given)) <= Cardinality(AnyVouchers(w, more))
         /\ Cardinality(ValidVouchers(w, given)) \in Nat
         /\ Cardinality(ValidVouchers(w, given)) <= Cardinality(AnyVouchers(w, given))
<1>1. /\ AnyVouchers(w, more) \in SUBSET VetWorkers
      /\ AnyVouchers(w, given) \in SUBSET AnyVouchers(w, more)
      /\ ValidVouchers(w, given) \in SUBSET AnyVouchers(w, given)
  BY DEF AnyVouchers, ValidVouchers
<1>2. IsFiniteSet(AnyVouchers(w, more))
  BY <1>1, VettingAssumption, FS_Subset
<1>3. IsFiniteSet(AnyVouchers(w, given))
  BY <1>1, <1>2, FS_Subset
<1>4. IsFiniteSet(ValidVouchers(w, given))
  BY <1>1, <1>3, FS_Subset
<1> QED
  BY <1>1, <1>2, <1>3, <1>4, FS_Subset, FS_CardinalityType

\* What was earned stays earned when evidence is added.
LEMMA EarnedStays ==
  ASSUME NEW w, NEW grade, NEW P, NEW R, NEW V, NEW P2, NEW R2, NEW V2,
         P \subseteq P2, R \subseteq R2, V \subseteq V2,
         Earned(w, grade, P, R, V)
  PROVE  Earned(w, grade, P2, R2, V2)
<1>1. /\ Cardinality(AnyVouchers(w, V)) \in Nat
      /\ Cardinality(AnyVouchers(w, V2)) \in Nat
      /\ Cardinality(AnyVouchers(w, V)) <= Cardinality(AnyVouchers(w, V2))
  BY VouchersCounted
<1> QED
  BY <1>1, VettingAssumption DEF Earned

\* The grade of a recompute is earned by the evidence it is computed from.
LEMMA PapersEarned ==
  ASSUME NEW w, NEW P, NEW R, NEW V
  PROVE  /\ Earned(w, PapersGrade(w, P, R), P, R, V)
         /\ PapersGrade(w, P, R) \in {"REGISTERED", "IDENTIFIED", "APPRENTICE"}
         /\ Earned(w, "REGISTERED", P, R, V)
         /\ Earned(w, "NONE", P, R, V)
BY DEF PapersGrade, Earned

LEMMA GradeForEarned ==
  ASSUME NEW w, NEW P, NEW R, NEW V, NEW papers \in {"REGISTERED", "IDENTIFIED", "APPRENTICE"},
         Earned(w, papers, P, R, V)
  PROVE  Earned(w, GradeFor(papers, Cardinality(ValidVouchers(w, V))), P, R, V)
<1> DEFINE n == Cardinality(ValidVouchers(w, V))
<1>1. /\ Cardinality(AnyVouchers(w, V)) \in Nat /\ n \in Nat
      /\ n <= Cardinality(AnyVouchers(w, V))
  BY VouchersCounted
<1> SUFFICES Earned(w, GradeFor(papers, n), P, R, V)
  OBVIOUS
<1> HIDE DEF n
<1>2. CASE n >= MIN_VOUCHES_FOR_EXPERT
  BY <1>1, <1>2, VettingAssumption DEF GradeFor, Earned
<1>3. CASE ~(n >= MIN_VOUCHES_FOR_EXPERT) /\ n >= MIN_VOUCHES_FOR_JOURNEYMAN
  BY <1>1, <1>3, VettingAssumption DEF GradeFor, Earned
<1>4. CASE ~(n >= MIN_VOUCHES_FOR_EXPERT) /\ ~(n >= MIN_VOUCHES_FOR_JOURNEYMAN)
  BY <1>4 DEF GradeFor
<1> QED
  BY <1>2, <1>3, <1>4

LEMMA GradeForType ==
  ASSUME NEW papers \in Grades, NEW n
  PROVE  GradeFor(papers, n) \in Grades
BY GradesAre DEF GradeFor

\* A recompute makes a worker senior only by the vouch of a senior worker.
LEMMA GradeForSenior ==
  ASSUME NEW w \in VetWorkers, NEW V,
         NEW papers \in {"REGISTERED", "IDENTIFIED", "APPRENTICE"},
         Senior(GradeFor(papers, Cardinality(ValidVouchers(w, V))))
  PROVE  \E v \in VetWorkers : <<w, v>> \in V /\ Senior(standings[v])
<1> DEFINE n == Cardinality(ValidVouchers(w, V))
<1>1. n \in Nat
  BY VouchersCounted
<1>2. n # 0
  <2> SUFFICES ASSUME n = 0 PROVE FALSE
    OBVIOUS
  <2>1. GradeFor(papers, n) = papers
    BY VettingAssumption DEF GradeFor
  <2> QED
    BY <2>1, SeniorGrades, GradesAre
<1>3. ValidVouchers(w, V) # {}
  BY <1>2, FS_EmptySet
<1> QED
  BY <1>3 DEF ValidVouchers

----------------------------------------------------------------------------
(* What a step does to a request *)

LEMMA VetRequestFields ==
  ASSUME NEW q \in VetRequest
  PROVE  /\ q.op \in VetOps /\ q.worker \in VetWorkers /\ q.by \in VetWorkers
         /\ q.step \in VetSteps
         /\ q.fresh \in BOOLEAN
         /\ q.grade \in Grades \cup {"NONE"}
         /\ q.papers \in Grades
         /\ q.base \in Grades \cup {"NONE"}
BY DEF VetRequest

LEMMA VetInFlight ==
  ASSUME VettingTypeOK, NEW r \in VetRequests, ~VetAt(r, "idle")
  PROVE  vet[r] \in VetRequest
BY DEF VettingTypeOK, VetAt, Idle

\* The same request, but for how far it is and what it read and computed.
VetNow(q, step, fresh, grade, papers, base) ==
  [q EXCEPT !.step = step, !.fresh = fresh, !.grade = grade, !.papers = papers, !.base = base]

\* Request r goes on as such and nothing else changes.
VetWentTo(r, step, fresh, grade, papers, base) ==
  LET q == vet[r]
      t == vet'[r]
  IN  /\ q \in VetRequest /\ t \in VetRequest
      /\ t.op = q.op /\ t.worker = q.worker /\ t.by = q.by
      /\ t.step = step /\ t.fresh = fresh
      /\ t.grade = grade /\ t.papers = papers /\ t.base = base
      /\ \A s \in VetRequests \ {r} : vet'[s] = vet[s]
      /\ UNCHANGED <<standings, photos, references, vouches, vetStarted, vetApart>>

LEMMA VetNowFields ==
  ASSUME NEW q \in VetRequest, NEW step \in VetSteps, NEW fresh \in BOOLEAN,
         NEW grade \in Grades \cup {"NONE"}, NEW papers \in Grades,
         NEW base \in Grades \cup {"NONE"}
  PROVE  LET t == VetNow(q, step, fresh, grade, papers, base) IN
         /\ t \in VetRequest
         /\ t.op = q.op /\ t.worker = q.worker /\ t.by = q.by
         /\ t.step = step /\ t.fresh = fresh
         /\ t.grade = grade /\ t.papers = papers /\ t.base = base
BY DEF VetRequest, VetNow

LEMMA VetGoes ==
  ASSUME VettingTypeOK, NEW r \in VetRequests, vet[r] \in VetRequest,
         NEW step \in VetSteps, NEW fresh \in BOOLEAN,
         NEW grade \in Grades \cup {"NONE"}, NEW papers \in Grades,
         NEW base \in Grades \cup {"NONE"},
         VetGo(r, VetNow(vet[r], step, fresh, grade, papers, base))
  PROVE  VetWentTo(r, step, fresh, grade, papers, base)
<1>1. vet'[r] = VetNow(vet[r], step, fresh, grade, papers, base)
      /\ (\A s \in VetRequests \ {r} : vet'[s] = vet[s])
  BY DEF VetGo, VettingTypeOK
<1> DEFINE t == VetNow(vet[r], step, fresh, grade, papers, base)
<1>2. /\ t \in VetRequest
      /\ t.op = vet[r].op /\ t.worker = vet[r].worker /\ t.by = vet[r].by
      /\ t.step = step /\ t.fresh = fresh
      /\ t.grade = grade /\ t.papers = papers /\ t.base = base
  BY VetNowFields
<1>3. UNCHANGED <<standings, photos, references, vouches, vetStarted, vetApart>>
  BY DEF VetGo, vetDb
<1> HIDE DEF t
<1>4. vet'[r] = t
  BY <1>1 DEF t
<1> QED
  BY <1>1, <1>2, <1>3, <1>4 DEF VetWentTo

----------------------------------------------------------------------------
(* What each step makes of a request *)

LEMMA VetInsertGoes ==
  ASSUME VettingTypeOK, NEW r \in VetRequests, VetInsert(r)
  PROVE  /\ vet[r].step = "begun"
         /\ VetWentTo(r, IF vet[r].op = "Vouch" THEN "ensured" ELSE "inserted", FALSE,
                      vet[r].grade, vet[r].papers, vet[r].base)
<1> DEFINE q == vet[r]
           step == IF q.op = "Vouch" THEN "ensured" ELSE "inserted"
<1>1. q.step = "begun" /\ q \in VetRequest
  BY VetInFlight DEF VetInsert, VetAt
<1>2. VetGo(r, [q EXCEPT !.step = step, !.fresh = FALSE])
  BY DEF VetInsert
<1>3. step \in VetSteps /\ FALSE \in BOOLEAN
  BY DEF VetSteps
<1> HIDE DEF step
<1>4. [q EXCEPT !.step = step, !.fresh = FALSE]
        = VetNow(q, step, FALSE, q.grade, q.papers, q.base)
  BY <1>1 DEF VetRequest, VetNow
<1>5. VetWentTo(r, step, FALSE, q.grade, q.papers, q.base)
  BY <1>1, <1>2, <1>3, <1>4, VetGoes, VetRequestFields
<1> QED
  BY <1>1, <1>5 DEF step

LEMMA VetEnsureGoes ==
  ASSUME VettingTypeOK, NEW r \in VetRequests, VetEnsure(r)
  PROVE  /\ vet[r].step = "inserted"
         /\ VetWentTo(r, "ensured", standings[vet[r].worker] = "NONE",
                      vet[r].grade, vet[r].papers, vet[r].base)
<1> DEFINE q == vet[r]
           fresh == standings[q.worker] = "NONE"
<1>1. q.step = "inserted" /\ q \in VetRequest
  BY VetInFlight DEF VetEnsure, VetAt
<1>2. VetGo(r, [q EXCEPT !.step = "ensured", !.fresh = fresh])
  BY DEF VetEnsure
<1>3. "ensured" \in VetSteps /\ fresh \in BOOLEAN
  BY DEF VetSteps
<1> HIDE DEF fresh
<1>4. [q EXCEPT !.step = "ensured", !.fresh = fresh]
        = VetNow(q, "ensured", fresh, q.grade, q.papers, q.base)
  BY <1>1 DEF VetRequest, VetNow
<1>5. VetWentTo(r, "ensured", fresh, q.grade, q.papers, q.base)
  BY <1>1, <1>2, <1>3, <1>4, VetGoes, VetRequestFields
<1> QED
  BY <1>1, <1>5 DEF fresh

LEMMA VetLoadGoes ==
  ASSUME VettingTypeOK, NEW r \in VetRequests, VetLoad(r)
  PROVE  LET q == vet[r]
             grade == IF q.fresh THEN "REGISTERED" ELSE standings[q.worker]
         IN  /\ q.step = "ensured" /\ q.op # "Register"
             /\ VetWentTo(r, IF grade = "NONE" THEN "selected" ELSE "loaded", q.fresh,
                          grade, q.papers, q.base)
<1> DEFINE q == vet[r]
           grade == IF q.fresh THEN "REGISTERED" ELSE standings[q.worker]
           step == IF grade = "NONE" THEN "selected" ELSE "loaded"
<1>1. q.step = "ensured" /\ q \in VetRequest /\ q.op # "Register"
  BY VetInFlight DEF VetLoad, VetAt
<1>2. VetGo(r, [q EXCEPT !.step = step, !.grade = grade])
  BY DEF VetLoad
<1>3. step \in VetSteps /\ grade \in Grades \cup {"NONE"}
  BY <1>1, VetRequestFields, GradesAre DEF VetSteps, VettingTypeOK
<1> HIDE DEF step, grade
<1>4. [q EXCEPT !.step = step, !.grade = grade]
        = VetNow(q, step, q.fresh, grade, q.papers, q.base)
  BY <1>1 DEF VetRequest, VetNow
<1>5. VetWentTo(r, step, q.fresh, grade, q.papers, q.base)
  BY <1>1, <1>2, <1>3, <1>4, VetGoes, VetRequestFields
<1> QED
  BY <1>1, <1>5 DEF step, grade

LEMMA VetReadGoes ==
  ASSUME VettingTypeOK, NEW r \in VetRequests, VetReadPapers(r)
  PROVE  LET q == vet[r] IN
         /\ q.step = "loaded" /\ q.op # "Stats"
         /\ VetWentTo(r, "read", q.fresh, q.grade,
                      PapersGrade(q.worker, OwnPhotos(q), OwnReferences(q)), q.base)
<1> DEFINE q == vet[r]
           papers == PapersGrade(q.worker, OwnPhotos(q), OwnReferences(q))
<1>1. q.step = "loaded" /\ q \in VetRequest /\ q.op # "Stats"
  BY VetInFlight DEF VetReadPapers, VetAt
<1>2. VetGo(r, [q EXCEPT !.step = "read", !.papers = papers])
  BY DEF VetReadPapers
<1>3. "read" \in VetSteps /\ papers \in Grades
  BY GradesAre DEF VetSteps, PapersGrade
<1> HIDE DEF papers
<1>4. [q EXCEPT !.step = "read", !.papers = papers]
        = VetNow(q, "read", q.fresh, q.grade, papers, q.base)
  BY <1>1 DEF VetRequest, VetNow
<1>5. VetGo(r, VetNow(q, "read", q.fresh, q.grade, papers, q.base))
  BY <1>2, <1>4
<1>6. q.fresh \in BOOLEAN /\ q.grade \in Grades \cup {"NONE"} /\ q.base \in Grades \cup {"NONE"}
  BY <1>1, VetRequestFields
<1>7. VetWentTo(r, "read", q.fresh, q.grade, papers, q.base)
  BY <1>1, <1>3, <1>5, <1>6, VetGoes
<1> QED
  BY <1>1, <1>7 DEF papers

LEMMA VetCountGoes ==
  ASSUME VettingTypeOK, NEW r \in VetRequests, VetCountVouches(r)
  PROVE  LET q == vet[r] IN
         /\ q.step = "read"
         /\ VetWentTo(r, "counted", q.fresh,
                      GradeFor(q.papers, Cardinality(ValidVouchers(q.worker, OwnVouches(q)))),
                      q.papers, q.base)
<1> DEFINE q == vet[r]
           grade == GradeFor(q.papers, Cardinality(ValidVouchers(q.worker, OwnVouches(q))))
<1>1. q.step = "read" /\ q \in VetRequest
  BY VetInFlight DEF VetCountVouches, VetAt
<1>2. VetGo(r, [q EXCEPT !.step = "counted", !.grade = grade])
  BY DEF VetCountVouches
<1>3. "counted" \in VetSteps /\ grade \in Grades \cup {"NONE"}
  BY <1>1, VetRequestFields, GradeForType DEF VetSteps
<1> HIDE DEF grade
<1>4. [q EXCEPT !.step = "counted", !.grade = grade]
        = VetNow(q, "counted", q.fresh, grade, q.papers, q.base)
  BY <1>1 DEF VetRequest, VetNow
<1>5. VetWentTo(r, "counted", q.fresh, grade, q.papers, q.base)
  BY <1>1, <1>2, <1>3, <1>4, VetGoes, VetRequestFields
<1> QED
  BY <1>1, <1>5 DEF grade

LEMMA VetSelectGoes ==
  ASSUME VettingTypeOK, NEW r \in VetRequests, VetSelect(r)
  PROVE  LET q == vet[r] IN
         /\ q.step = "counted" \/ (q.step = "loaded" /\ q.op = "Stats")
         /\ VetWentTo(r, "selected", q.fresh, q.grade, q.papers,
                      IF q.fresh THEN "REGISTERED" ELSE standings[q.worker])
<1> DEFINE q == vet[r]
           base == IF q.fresh THEN "REGISTERED" ELSE standings[q.worker]
<1>1. q \in VetRequest /\ (q.step = "counted" \/ (q.step = "loaded" /\ q.op = "Stats"))
  BY VetInFlight DEF VetSelect, VetAt
<1>2. VetGo(r, [q EXCEPT !.step = "selected", !.base = base])
  BY DEF VetSelect
<1>3. "selected" \in VetSteps /\ base \in Grades \cup {"NONE"}
  BY <1>1, VetRequestFields, GradesAre DEF VetSteps, VettingTypeOK
<1> HIDE DEF base
<1>4. [q EXCEPT !.step = "selected", !.base = base]
        = VetNow(q, "selected", q.fresh, q.grade, q.papers, base)
  BY <1>1 DEF VetRequest, VetNow
<1>5. VetWentTo(r, "selected", q.fresh, q.grade, q.papers, base)
  BY <1>1, <1>2, <1>3, <1>4, VetGoes, VetRequestFields
<1> QED
  BY <1>1, <1>5 DEF base

\* A new request has computed nothing yet.
LEMMA VetBeginGoes ==
  ASSUME VettingTypeOK, NEW r \in VetRequests, NEW call \in VetPlan, VetBegin(r, call)
  PROVE  LET t == vet'[r] IN
         /\ t \in VetRequest
         /\ t.step = (IF t.op = "Stats" THEN "ensured" ELSE "begun")
         /\ t.fresh = (t.op = "Photo" /\ t.worker \notin photos)
         /\ t.grade = "NONE" /\ t.papers = "REGISTERED"
         /\ t.op = "Vouch" => t.worker # t.by
         /\ vetApart => VetKeepsApart(r, t)
         /\ vetStarted < MaxVetRequests /\ vetStarted' = vetStarted + 1
         /\ \A s \in VetRequests \ {r} : vet'[s] = vet[s]
         /\ UNCHANGED <<standings, photos, references, vouches, vetApart>>
<1> DEFINE step == IF call.op = "Stats" THEN "ensured" ELSE "begun"
           fresh == call.op = "Photo" /\ call.worker \notin photos
           t == [op |-> call.op, worker |-> call.worker, by |-> call.by, step |-> step,
                 fresh |-> fresh, grade |-> "NONE", papers |-> "REGISTERED", base |-> "NONE"]
<1>1. call.op \in VetOps /\ call.worker \in VetWorkers /\ call.by \in VetWorkers
  BY VettingAssumption
<1>2. step \in VetSteps /\ fresh \in BOOLEAN /\ "REGISTERED" \in Grades
  BY GradesAre DEF VetSteps
<1>3. /\ t.op = call.op /\ t.worker = call.worker /\ t.by = call.by
      /\ t.step = step /\ t.fresh = fresh /\ t.grade = "NONE" /\ t.papers = "REGISTERED"
  OBVIOUS
<1>4. vet' = [vet EXCEPT ![r] = t]
  BY DEF VetBegin
<1> HIDE DEF step, fresh
<1>5. t \in VetRequest
  BY <1>1, <1>2 DEF VetRequest
<1> HIDE DEF t
<1>6. vet'[r] = t /\ (\A s \in VetRequests \ {r} : vet'[s] = vet[s])
  BY <1>4 DEF VettingTypeOK
<1>7. vetApart => VetKeepsApart(r, t)
  BY <1>3 DEF VetBegin, VetKeepsApart, NotDisturbedBy
<1> QED
  BY <1>3, <1>5, <1>6, <1>7 DEF VetBegin, vetDb, step, fresh

\* A request that is refused or dies leaves nothing.
LEMMA VetEndGoes ==
  ASSUME VettingTypeOK, NEW r \in VetRequests, VetRefuse(r) \/ VetCrash(r)
  PROVE  /\ vet'[r] = Idle
         /\ \A s \in VetRequests \ {r} : vet'[s] = vet[s]
         /\ UNCHANGED <<standings, photos, references, vouches, vetStarted, vetApart>>
BY DEF VetRefuse, VetCrash, VetDone, vetDb, VettingTypeOK

\* A commit writes one row and publishes what its request inserted.
LEMMA VetCommitGoes ==
  ASSUME VettingTypeOK, NEW r \in VetRequests, VetCommit(r)
  PROVE  LET q == vet[r] IN
         /\ q \in VetRequest
         /\ q.step = "selected" \/ (q.step = "ensured" /\ q.op = "Register")
         /\ standings'[q.worker] = SavedGrade(q)
         /\ \A w \in VetWorkers \ {q.worker} : standings'[w] = standings[w]
         /\ SavedGrade(q) \in {"REGISTERED", q.grade, standings[q.worker]}
         /\ photos' = OwnPhotos(q) /\ references' = OwnReferences(q) /\ vouches' = OwnVouches(q)
         /\ vet'[r] = Idle
         /\ \A s \in VetRequests \ {r} : vet'[s] = vet[s]
         /\ UNCHANGED <<vetStarted, vetApart>>
<1>1. vet[r] \in VetRequest
  BY VetInFlight DEF VetCommit, VetAt
<1>2. vet[r].worker \in VetWorkers
  BY <1>1, VetRequestFields
<1> QED
  BY <1>1, <1>2 DEF VetCommit, VetAt, VetDone, SavedGrade, VettingTypeOK

----------------------------------------------------------------------------
(* Evidence with a request's own insert *)

PhotosWith(q, P)     == P \cup (IF q.op = "Photo" THEN {q.worker} ELSE {})
ReferencesWith(q, R) == R \cup (IF q.op = "Reference" THEN {q.worker} ELSE {})
VouchesWith(q, V)    == V \cup (IF q.op = "Vouch" THEN {<<q.worker, q.by>>} ELSE {})

EarnedWith(q, P, R, V) ==
  /\ Earned(q.worker, q.grade, PhotosWith(q, P), ReferencesWith(q, R), VouchesWith(q, V))
  /\ Earned(q.worker, q.papers, PhotosWith(q, P), ReferencesWith(q, R), VouchesWith(q, V))
  /\ q.papers \in {"REGISTERED", "IDENTIFIED", "APPRENTICE"}

TracesWith(q, V) ==
  \A C \in SUBSET VetWorkers :
    VetSeeds \subseteq C /\ ClosedUnderVouches(C, VouchesWith(q, V)) /\ Senior(q.grade)
      => q.worker \in C

LEMMA EntityIsWith ==
  ASSUME NEW r \in VetRequests
  PROVE  /\ EntityEarned(vet[r]) <=> EarnedWith(vet[r], photos, references, vouches)
         /\ EntityTraces(vet[r]) <=> TracesWith(vet[r], vouches)
         /\ OwnPhotos(vet[r]) = PhotosWith(vet[r], photos)
         /\ OwnReferences(vet[r]) = ReferencesWith(vet[r], references)
         /\ OwnVouches(vet[r]) = VouchesWith(vet[r], vouches)
BY DEF EntityEarned, EarnedWith, EntityTraces, TracesWith, OwnPhotos, OwnReferences,
       OwnVouches, PhotosWith, ReferencesWith, VouchesWith

LEMMA EntityIsWithAfter ==
  ASSUME NEW r \in VetRequests
  PROVE  /\ EntityEarned(vet[r])' <=> EarnedWith(vet'[r], photos', references', vouches')
         /\ EntityTraces(vet[r])' <=> TracesWith(vet'[r], vouches')
BY DEF EntityEarned, EarnedWith, EntityTraces, TracesWith, OwnPhotos, OwnReferences,
       OwnVouches, PhotosWith, ReferencesWith, VouchesWith

\* Who is in a set that fewer vouches keep closed was in it before.
LEMMA ClosedUnderFewer ==
  ASSUME NEW C, NEW V, NEW V2, V \subseteq V2, ClosedUnderVouches(C, V2)
  PROVE  ClosedUnderVouches(C, V)
BY DEF ClosedUnderVouches

LEMMA WithStays ==
  ASSUME NEW q, NEW P, NEW R, NEW V, NEW P2, NEW R2, NEW V2,
         P \subseteq P2, R \subseteq R2, V \subseteq V2
  PROVE  /\ EarnedWith(q, P, R, V) => EarnedWith(q, P2, R2, V2)
         /\ TracesWith(q, V) => TracesWith(q, V2)
<1>1. /\ PhotosWith(q, P) \subseteq PhotosWith(q, P2)
      /\ ReferencesWith(q, R) \subseteq ReferencesWith(q, R2)
      /\ VouchesWith(q, V) \subseteq VouchesWith(q, V2)
  BY DEF PhotosWith, ReferencesWith, VouchesWith
<1>2. ASSUME EarnedWith(q, P, R, V) PROVE EarnedWith(q, P2, R2, V2)
  BY <1>1, <1>2, EarnedStays DEF EarnedWith
<1>3. ASSUME TracesWith(q, V) PROVE TracesWith(q, V2)
  BY <1>1, <1>3, ClosedUnderFewer DEF TracesWith
<1> QED
  BY <1>2, <1>3

----------------------------------------------------------------------------
(* The shapes of a step *)

\* Request r read or computed something; the database is as it was.
VetWorked(r) ==
  LET q == vet[r]
      t == vet'[r]
      counted == Cardinality(ValidVouchers(q.worker, OwnVouches(q)))
  IN  /\ q \in VetRequest /\ t \in VetRequest
      /\ t.op = q.op /\ t.worker = q.worker /\ t.by = q.by
      /\ \/ t.grade = q.grade
         \/ t.grade \in {"REGISTERED", standings[q.worker]}
         \/ t.grade = GradeFor(q.papers, counted)
      /\ \/ t.papers = q.papers
         \/ t.papers = PapersGrade(q.worker, OwnPhotos(q), OwnReferences(q))
      /\ t.step = "loaded" => q.op # "Register" /\ t.grade # "NONE"
      /\ t.step = "read" => q.step = "loaded" /\ q.op # "Stats" /\ t.grade = q.grade
      /\ t.step = "counted" => q.step = "read" /\ t.grade # "NONE"
      /\ \A s \in VetRequests \ {r} : vet'[s] = vet[s]
      /\ UNCHANGED <<standings, photos, references, vouches, vetStarted, vetApart>>

\* Request r ended: by a commit, or without one.
VetEnded(r) ==
  /\ vet'[r] = Idle
  /\ \A s \in VetRequests \ {r} : vet'[s] = vet[s]
  /\ UNCHANGED <<vetStarted, vetApart>>

LEMMA VetWorkedCases ==
  ASSUME VettingTypeOK, NEW r \in VetRequests,
         \/ VetInsert(r) \/ VetEnsure(r) \/ VetLoad(r)
         \/ VetReadPapers(r) \/ VetCountVouches(r) \/ VetSelect(r)
  PROVE  VetWorked(r)
<1>1. CASE VetInsert(r)
  BY <1>1, VetInsertGoes DEF VetWentTo, VetWorked
<1>2. CASE VetEnsure(r)
  BY <1>2, VetEnsureGoes DEF VetWentTo, VetWorked
<1>3. CASE VetLoad(r)
  BY <1>3, VetLoadGoes DEF VetWentTo, VetWorked
<1>4. CASE VetReadPapers(r)
  BY <1>4, VetReadGoes DEF VetWentTo, VetWorked
<1>5. CASE VetCountVouches(r)
  <2>1. GradeFor(vet[r].papers, Cardinality(ValidVouchers(vet[r].worker, OwnVouches(vet[r])))) # "NONE"
    BY <1>5, VetCountGoes, GradeForType, VetRequestFields, GradesAre DEF VetWentTo
  <2> QED
    BY <1>5, <2>1, VetCountGoes DEF VetWentTo, VetWorked
<1>6. CASE VetSelect(r)
  BY <1>6, VetSelectGoes DEF VetWentTo, VetWorked
<1> QED
  BY <1>1, <1>2, <1>3, <1>4, <1>5, <1>6

\* The request that takes a step is in flight before it or starts with it.
LEMMA VetShapes ==
  ASSUME VettingTypeOK, VettingNext
  PROVE  \E r \in VetRequests :
           \/ \E call \in VetPlan : VetBegin(r, call)
           \/ VetWorked(r) /\ ~VetAt(r, "idle")
           \/ VetCommit(r) /\ ~VetAt(r, "idle")
           \/ (VetRefuse(r) \/ VetCrash(r)) /\ ~VetAt(r, "idle")
<1>1. PICK r \in VetRequests : (\E call \in VetPlan : VetBegin(r, call)) \/ VetProgress(r) \/ VetCrash(r)
  BY DEF VettingNext
<1>2. ASSUME VetProgress(r) \/ VetCrash(r) PROVE ~VetAt(r, "idle")
  BY <1>2 DEF VetProgress, VetInsert, VetEnsure, VetLoad, VetReadPapers, VetCountVouches,
              VetSelect, VetCommit, VetRefuse, VetCrash, VetAt
<1>3. VetProgress(r) => VetWorked(r) \/ VetCommit(r) \/ VetRefuse(r)
  BY VetWorkedCases DEF VetProgress
<1> QED
  BY <1>1, <1>2, <1>3

\* Evidence is only ever added, and the requests keep apart or do not.
LEMMA EvidenceGrows ==
  ASSUME VettingTypeOK, [VettingNext]_vetVars
  PROVE  /\ photos \subseteq photos' /\ references \subseteq references'
         /\ vouches \subseteq vouches'
         /\ vetApart' = vetApart
<1>1. CASE UNCHANGED vetVars
  BY <1>1 DEF vetVars, vetDb
<1>2. CASE VettingNext
  <2>1. PICK r \in VetRequests :
           \/ \E call \in VetPlan : VetBegin(r, call)
           \/ VetWorked(r) \/ VetCommit(r) \/ VetRefuse(r) \/ VetCrash(r)
    BY <1>2, VetShapes
  <2>2. CASE \E call \in VetPlan : VetBegin(r, call)
    BY <2>2 DEF VetBegin, vetDb
  <2>3. CASE VetWorked(r)
    BY <2>3 DEF VetWorked
  <2>4. CASE VetCommit(r)
    BY <2>4 DEF VetCommit, VetDone, OwnPhotos, OwnReferences, OwnVouches
  <2>5. CASE VetRefuse(r) \/ VetCrash(r)
    BY <2>5, VetEndGoes
  <2> QED
    BY <2>1, <2>2, <2>3, <2>4, <2>5
<1> QED
  BY <1>1, <1>2

----------------------------------------------------------------------------
(* Type correctness *)

LEMMA VetTypeStep ==
  ASSUME VettingTypeOK, [VettingNext]_vetVars
  PROVE  VettingTypeOK'
<1>1. CASE UNCHANGED vetVars
  BY <1>1 DEF vetVars, vetDb, VettingTypeOK
<1>2. CASE VettingNext
  <2> DEFINE Slots == [VetRequests -> VetRequest \cup {Idle}]
  <2>1. PICK r \in VetRequests :
           \/ \E call \in VetPlan : VetBegin(r, call)
           \/ VetWorked(r) \/ VetCommit(r) \/ VetRefuse(r) \/ VetCrash(r)
    BY <1>2, VetShapes
  <2>2. ASSUME NEW t \in VetRequest \cup {Idle}, vet' = [vet EXCEPT ![r] = t]
        PROVE  vet' \in Slots
    BY <2>2 DEF VettingTypeOK
  <2>3. DOMAIN vet' = VetRequests /\ vet' = [s \in VetRequests |-> vet'[s]]
    BY <1>2 DEF VettingNext, VetBegin, VetProgress, VetInsert, VetEnsure, VetLoad,
            VetReadPapers, VetCountVouches, VetSelect, VetCommit, VetRefuse, VetCrash,
            VetGo, VetDone, VettingTypeOK
  <2>4. CASE \E call \in VetPlan : VetBegin(r, call)
    <3>1. PICK call \in VetPlan : VetBegin(r, call)
      BY <2>4
    <3>2. vet'[r] \in VetRequest /\ (\A s \in VetRequests \ {r} : vet'[s] = vet[s])
          /\ vetStarted < MaxVetRequests /\ vetStarted' = vetStarted + 1
          /\ UNCHANGED <<standings, photos, references, vouches, vetApart>>
      BY <3>1, VetBeginGoes
    <3>3. vet' \in Slots
      BY <2>3, <3>2 DEF VettingTypeOK
    <3> QED
      BY <3>2, <3>3, VettingAssumption DEF VettingTypeOK
  <2>5. CASE VetWorked(r)
    <3>1. vet' \in Slots
      BY <2>3, <2>5 DEF VetWorked, VettingTypeOK
    <3> QED
      BY <2>5, <3>1 DEF VetWorked, VettingTypeOK
  <2>6. CASE VetCommit(r)
    <3>1. vet' \in Slots
      BY <2>3, <2>6, VetCommitGoes DEF VettingTypeOK
    <3>2. /\ vet[r] \in VetRequest /\ SavedGrade(vet[r]) \in Grades \cup {"NONE"}
          /\ vet[r].worker \in VetWorkers /\ vet[r].by \in VetWorkers
      BY <2>6, VetCommitGoes, VetRequestFields, GradesAre DEF VettingTypeOK
    <3>3. standings' \in [VetWorkers -> Grades \cup {"NONE"}]
      BY <2>6, <3>2 DEF VetCommit, VettingTypeOK
    <3>4. /\ photos' \subseteq VetWorkers /\ references' \subseteq VetWorkers
          /\ vouches' \subseteq VetWorkers \X VetWorkers
      BY <2>6, <3>2 DEF VetCommit, VettingTypeOK, OwnPhotos, OwnReferences, OwnVouches
    <3> QED
      BY <2>6, <3>1, <3>3, <3>4 DEF VetCommit, VetDone, VettingTypeOK
  <2>7. CASE VetRefuse(r) \/ VetCrash(r)
    <3>1. vet' \in Slots
      BY <2>3, <2>7, VetEndGoes DEF VettingTypeOK
    <3> QED
      BY <2>7, <3>1, VetEndGoes DEF VettingTypeOK
  <2> QED
    BY <2>1, <2>4, <2>5, <2>6, <2>7
<1> QED
  BY <1>1, <1>2

----------------------------------------------------------------------------
(* Grades rest on evidence *)

LEMMA GradeWasEarnedStep ==
  ASSUME VettingInv, [VettingNext]_vetVars
  PROVE  GradeWasEarned'
<1> USE DEF VettingInv
<1>1. /\ photos \subseteq photos' /\ references \subseteq references'
      /\ vouches \subseteq vouches'
  BY EvidenceGrows
<1>2. ASSUME NEW w \in VetWorkers
      PROVE  Earned(w, standings[w], photos', references', vouches')
  BY <1>1, EarnedStays DEF GradeWasEarned
<1>3. CASE standings' = standings
  BY <1>2, <1>3 DEF GradeWasEarned
<1>4. CASE standings' # standings
  <2>1. VettingNext
    BY <1>4 DEF vetVars, vetDb
  <2>2. PICK r \in VetRequests : VetCommit(r) /\ ~VetAt(r, "idle")
    BY <1>4, <2>1, VetShapes, VetEndGoes DEF VetBegin, VetWorked, vetDb
  <2> DEFINE q == vet[r]
  <2>3. /\ standings'[q.worker] \in {"REGISTERED", q.grade, standings[q.worker]}
        /\ \A w \in VetWorkers \ {q.worker} : standings'[w] = standings[w]
        /\ photos' = PhotosWith(q, photos) /\ references' = ReferencesWith(q, references)
        /\ vouches' = VouchesWith(q, vouches)
    BY <2>2, VetCommitGoes, EntityIsWith
  <2>4. EarnedWith(q, photos, references, vouches)
    BY <2>2, EntityIsWith DEF EntitiesSound
  <2>5. Earned(q.worker, q.grade, photos', references', vouches')
    BY <2>3, <2>4 DEF EarnedWith
  <2>6. Earned(q.worker, "REGISTERED", photos', references', vouches')
    BY PapersEarned
  <2> HIDE DEF q
  <2>7. ASSUME NEW w \in VetWorkers
        PROVE  Earned(w, standings'[w], photos', references', vouches')
    BY <1>2, <2>3, <2>5, <2>6
  <2> QED
    BY <2>7 DEF GradeWasEarned
<1> QED
  BY <1>3, <1>4

----------------------------------------------------------------------------
(* Seniority is handed on *)

LEMMA RegisteredIsNotSenior ==
  ~Senior("REGISTERED") /\ ~Senior("NONE")
BY SeniorGrades, GradesAre

LEMMA SeniorityTracesStep ==
  ASSUME VettingInv, [VettingNext]_vetVars
  PROVE  SeniorityTracesToSeeds'
<1> USE DEF VettingInv
<1>1. vouches \subseteq vouches'
  BY EvidenceGrows
<1>2. ASSUME NEW C \in SUBSET VetWorkers, VetSeeds \subseteq C, ClosedUnderVouches(C, vouches'),
             NEW w \in VetWorkers, Senior(standings[w])
      PROVE  w \in C
  BY <1>1, <1>2, ClosedUnderFewer DEF SeniorityTracesToSeeds
<1>3. CASE standings' = standings
  BY <1>2, <1>3 DEF SeniorityTracesToSeeds
<1>4. CASE standings' # standings
  <2>1. VettingNext
    BY <1>4 DEF vetVars, vetDb
  <2>2. PICK r \in VetRequests : VetCommit(r) /\ ~VetAt(r, "idle")
    BY <1>4, <2>1, VetShapes, VetEndGoes DEF VetBegin, VetWorked, vetDb
  <2> DEFINE q == vet[r]
  <2>3. /\ standings'[q.worker] \in {"REGISTERED", q.grade, standings[q.worker]}
        /\ \A w \in VetWorkers \ {q.worker} : standings'[w] = standings[w]
        /\ vouches' = VouchesWith(q, vouches)
    BY <2>2, VetCommitGoes, EntityIsWith
  <2>4. TracesWith(q, vouches)
    BY <2>2, EntityIsWith DEF EntitiesSound
  <2> HIDE DEF q
  <2>5. ASSUME NEW C \in SUBSET VetWorkers, VetSeeds \subseteq C, ClosedUnderVouches(C, vouches'),
               NEW w \in VetWorkers, Senior(standings'[w])
        PROVE  w \in C
    <3>1. CASE standings'[w] = standings[w]
      BY <1>2, <2>5, <3>1
    <3>2. CASE standings'[w] # standings[w]
      <4>1. w = q.worker /\ standings'[w] = q.grade
        BY <2>3, <2>5, <3>2, RegisteredIsNotSenior
      <4> QED
        BY <2>3, <2>4, <2>5, <4>1 DEF TracesWith
    <3> QED
      BY <3>1, <3>2
  <2> QED
    BY <2>5 DEF SeniorityTracesToSeeds
<1> QED
  BY <1>3, <1>4

----------------------------------------------------------------------------
(* What a request in flight knows *)

\* What a request reads and computes keeps its grades earned and traced.
LEMMA VetWorkedSound ==
  ASSUME VettingInv, NEW r \in VetRequests, VetWorked(r), ~VetAt(r, "idle")
  PROVE  /\ EarnedWith(vet'[r], photos, references, vouches)
         /\ TracesWith(vet'[r], vouches)
<1> USE DEF VettingInv
<1> DEFINE q == vet[r]
           t == vet'[r]
           P == PhotosWith(q, photos)
           R == ReferencesWith(q, references)
           V == VouchesWith(q, vouches)
           counted == Cardinality(ValidVouchers(q.worker, V))
<1>1. EarnedWith(q, photos, references, vouches) /\ TracesWith(q, vouches)
  BY EntityIsWith DEF EntitiesSound
<1>2. /\ P = PhotosWith(t, photos) /\ R = ReferencesWith(t, references)
      /\ V = VouchesWith(t, vouches) /\ t.worker = q.worker
  BY DEF VetWorked, PhotosWith, ReferencesWith, VouchesWith
<1>3. q.worker \in VetWorkers
  BY VetRequestFields DEF VetWorked
<1>4. /\ t.grade = q.grade \/ t.grade \in {"REGISTERED", standings[q.worker]}
           \/ t.grade = GradeFor(q.papers, counted)
      /\ t.papers = q.papers \/ t.papers = PapersGrade(q.worker, P, R)
  BY EntityIsWith DEF VetWorked
<1>5. /\ Earned(q.worker, q.grade, P, R, V) /\ Earned(q.worker, q.papers, P, R, V)
      /\ q.papers \in {"REGISTERED", "IDENTIFIED", "APPRENTICE"}
  BY <1>1 DEF EarnedWith
<1>6. photos \subseteq P /\ references \subseteq R /\ vouches \subseteq V
  BY DEF PhotosWith, ReferencesWith, VouchesWith
<1>7. TracesWith(q, vouches) => \A C \in SUBSET VetWorkers :
        VetSeeds \subseteq C /\ ClosedUnderVouches(C, V) /\ Senior(q.grade) => q.worker \in C
  BY DEF TracesWith
<1> HIDE DEF q, t, P, R, V
<1>8. Earned(q.worker, standings[q.worker], P, R, V)
  BY <1>3, <1>6, EarnedStays DEF GradeWasEarned
<1>9. Earned(q.worker, GradeFor(q.papers, counted), P, R, V)
  BY <1>5, GradeForEarned
<1>10. /\ Earned(q.worker, PapersGrade(q.worker, P, R), P, R, V)
       /\ PapersGrade(q.worker, P, R) \in {"REGISTERED", "IDENTIFIED", "APPRENTICE"}
       /\ Earned(q.worker, "REGISTERED", P, R, V)
  BY PapersEarned
<1>11. EarnedWith(t, photos, references, vouches)
  <2>1. Earned(t.worker, t.grade, P, R, V)
    BY <1>2, <1>4, <1>5, <1>8, <1>9, <1>10
  <2>2. Earned(t.worker, t.papers, P, R, V) /\ t.papers \in {"REGISTERED", "IDENTIFIED", "APPRENTICE"}
    BY <1>2, <1>4, <1>5, <1>10
  <2> QED
    BY <1>2, <2>1, <2>2 DEF EarnedWith
<1>12. TracesWith(t, vouches)
  <2>1. ASSUME NEW C \in SUBSET VetWorkers, VetSeeds \subseteq C, ClosedUnderVouches(C, V),
               Senior(t.grade)
        PROVE  q.worker \in C
    <3>1. ClosedUnderVouches(C, vouches)
      BY <1>6, <2>1, ClosedUnderFewer
    <3>2. \A v \in VetWorkers : Senior(standings[v]) => v \in C
      BY <2>1, <3>1 DEF SeniorityTracesToSeeds
    <3>3. CASE t.grade = q.grade
      BY <1>1, <1>7, <2>1, <3>3
    <3>4. CASE t.grade \in {"REGISTERED", standings[q.worker]}
      BY <1>3, <2>1, <3>2, <3>4, RegisteredIsNotSenior
    <3>5. CASE t.grade = GradeFor(q.papers, counted)
      <4>1. \E v \in VetWorkers : <<q.worker, v>> \in V /\ Senior(standings[v])
        BY <1>3, <1>5, <2>1, <3>5, GradeForSenior
      <4> QED
        BY <1>3, <2>1, <3>2, <4>1 DEF ClosedUnderVouches
    <3> QED
      BY <1>4, <3>3, <3>4, <3>5
  <2> QED
    BY <1>2, <2>1 DEF TracesWith
<1> QED
  BY <1>11, <1>12 DEF t

\* A request that has just started claims nothing.
LEMMA VetBegunSound ==
  ASSUME NEW t, t.grade = "NONE", t.papers = "REGISTERED"
  PROVE  /\ EarnedWith(t, photos, references, vouches)
         /\ TracesWith(t, vouches)
BY PapersEarned, RegisteredIsNotSenior DEF EarnedWith, TracesWith

LEMMA VetEntitiesEarnedStep ==
  ASSUME VettingInv, [VettingNext]_vetVars, NEW s \in VetRequests, ~VetAt(s, "idle")'
  PROVE  EntityEarned(vet[s])' /\ EntityTraces(vet[s])'
<1> USE DEF VettingInv
<1>1. ASSUME EarnedWith(vet'[s], photos, references, vouches), TracesWith(vet'[s], vouches)
      PROVE  EntityEarned(vet[s])' /\ EntityTraces(vet[s])'
  BY <1>1, EvidenceGrows, WithStays, EntityIsWithAfter
<1>2. CASE vet'[s] = vet[s]
  BY <1>1, <1>2, EntityIsWith DEF EntitiesSound, VetAt
<1>3. CASE vet'[s] # vet[s]
  <2>1. VettingNext
    BY <1>3 DEF vetVars
  <2>2. PICK r \in VetRequests :
           \/ \E call \in VetPlan : VetBegin(r, call)
           \/ VetWorked(r) /\ ~VetAt(r, "idle")
           \/ VetCommit(r) \/ VetRefuse(r) \/ VetCrash(r)
    BY <2>1, VetShapes
  <2>3. CASE \E call \in VetPlan : VetBegin(r, call)
    <3>1. vet'[r].grade = "NONE" /\ vet'[r].papers = "REGISTERED" /\ s = r
      BY <1>3, <2>3, VetBeginGoes
    <3> QED
      BY <1>1, <3>1, VetBegunSound
  <2>4. CASE VetWorked(r) /\ ~VetAt(r, "idle")
    <3>1. s = r
      BY <1>3, <2>4 DEF VetWorked
    <3> QED
      BY <1>1, <2>4, <3>1, VetWorkedSound
  <2>5. CASE VetCommit(r) \/ VetRefuse(r) \/ VetCrash(r)
    BY <1>3, <2>5, VetCommitGoes, VetEndGoes DEF VetAt, Idle
  <2> QED
    BY <2>2, <2>3, <2>4, <2>5
<1> QED
  BY <1>2, <1>3

LEMMA VetWellFormedStep ==
  ASSUME VettingInv, [VettingNext]_vetVars, NEW s \in VetRequests, ~VetAt(s, "idle")'
  PROVE  EntityWellFormed(vet[s])'
<1> USE DEF VettingInv
<1>1. CASE vet'[s] = vet[s]
  BY <1>1 DEF EntitiesSound, VetAt, EntityWellFormed
<1>2. CASE vet'[s] # vet[s]
  <2>1. VettingNext
    BY <1>2 DEF vetVars
  <2>2. PICK r \in VetRequests :
           \/ \E call \in VetPlan : VetBegin(r, call)
           \/ VetWorked(r) /\ ~VetAt(r, "idle")
           \/ VetCommit(r) \/ VetRefuse(r) \/ VetCrash(r)
    BY <2>1, VetShapes
  <2>3. CASE \E call \in VetPlan : VetBegin(r, call)
    BY <1>2, <2>3, VetBeginGoes DEF EntityWellFormed
  <2>4. CASE VetWorked(r) /\ ~VetAt(r, "idle")
    <3>1. s = r /\ EntityWellFormed(vet[r]) /\ vet[r].op \in VetOps
      BY <1>2, <2>4, VetRequestFields DEF VetWorked, EntitiesSound
    <3> QED
      BY <2>4, <3>1 DEF VetWorked, EntityWellFormed, VetOps
  <2>5. CASE VetCommit(r) \/ VetRefuse(r) \/ VetCrash(r)
    BY <1>2, <2>5, VetCommitGoes, VetEndGoes DEF VetAt, Idle
  <2> QED
    BY <2>2, <2>3, <2>4, <2>5
<1> QED
  BY <1>1, <1>2

LEMMA VetNoSelfVouchStep ==
  ASSUME VettingInv, [VettingNext]_vetVars
  PROVE  NoSelfVouch'
<1> USE DEF VettingInv
<1>1. CASE UNCHANGED vetVars
  BY <1>1 DEF vetVars, vetDb, NoSelfVouch
<1>2. CASE VettingNext
  <2>1. PICK r \in VetRequests :
           \/ \E call \in VetPlan : VetBegin(r, call)
           \/ VetWorked(r) /\ ~VetAt(r, "idle")
           \/ VetCommit(r) /\ ~VetAt(r, "idle")
           \/ (VetRefuse(r) \/ VetCrash(r)) /\ ~VetAt(r, "idle")
    BY <1>2, VetShapes
  <2>2. CASE \E call \in VetPlan : VetBegin(r, call)
    BY <2>2, VetBeginGoes DEF NoSelfVouch
  <2>3. CASE VetWorked(r) /\ ~VetAt(r, "idle")
    BY <2>3 DEF VetWorked, NoSelfVouch
  <2>4. CASE VetCommit(r) /\ ~VetAt(r, "idle")
    <3>1. vouches' = OwnVouches(vet[r])
      BY <2>4, VetCommitGoes
    <3>2. EntityWellFormed(vet[r])
      BY <2>4 DEF EntitiesSound
    <3> QED
      BY <3>1, <3>2 DEF NoSelfVouch, OwnVouches, EntityWellFormed
  <2>5. CASE VetRefuse(r) \/ VetCrash(r)
    BY <2>5, VetEndGoes DEF NoSelfVouch
  <2> QED
    BY <2>1, <2>2, <2>3, <2>4, <2>5
<1> QED
  BY <1>1, <1>2

----------------------------------------------------------------------------
(* Requests that keep apart *)

\* Of two requests in flight neither disturbs the other.
LEMMA VetPairsApart ==
  ASSUME VettingInv, vetApart, NEW r \in VetRequests, NEW s \in VetRequests, r # s,
         ~VetAt(r, "idle"), ~VetAt(s, "idle")
  PROVE  NotDisturbedBy(vet[s], vet[r])
BY DEF VettingInv, EntitiesSound, VetKeepsApart

\* A commit publishes a vouch for its own worker, on whom nobody else works.
LEMMA VetApartStep ==
  ASSUME VettingInv, [VettingNext]_vetVars, vetApart,
         NEW s \in VetRequests, NEW p \in VetRequests, p # s,
         ~VetAt(s, "idle")', ~VetAt(p, "idle")'
  PROVE  NotDisturbedBy(vet[p], vet[s])'
<1> USE DEF VettingInv
<1>1. CASE UNCHANGED vetVars
  BY <1>1, VetPairsApart DEF vetVars, vetDb, VetAt, NotDisturbedBy
<1>2. CASE VettingNext
  <2>1. PICK r \in VetRequests :
           \/ \E call \in VetPlan : VetBegin(r, call)
           \/ VetWorked(r) /\ ~VetAt(r, "idle")
           \/ VetCommit(r) /\ ~VetAt(r, "idle")
           \/ (VetRefuse(r) \/ VetCrash(r)) /\ ~VetAt(r, "idle")
    BY <1>2, VetShapes
  <2>2. CASE \E call \in VetPlan : VetBegin(r, call)
    <3>1. /\ VetKeepsApart(r, vet'[r])
          /\ \A q \in VetRequests \ {r} : vet'[q] = vet[q]
          /\ vouches' = vouches
      BY <2>2, VetBeginGoes
    <3>2. CASE s = r
      BY <3>1, <3>2 DEF VetKeepsApart, NotDisturbedBy, VetAt
    <3>3. CASE p = r
      BY <3>1, <3>3 DEF VetKeepsApart, NotDisturbedBy, VetAt
    <3>4. CASE s # r /\ p # r
      BY <3>1, <3>4, VetPairsApart DEF NotDisturbedBy, VetAt
    <3> QED
      BY <3>2, <3>3, <3>4
  <2>3. CASE VetWorked(r) /\ ~VetAt(r, "idle")
    <3>1. /\ ~VetAt(s, "idle") /\ ~VetAt(p, "idle")
          /\ vet'[s].worker = vet[s].worker /\ vet'[s].by = vet[s].by
          /\ vet'[p].worker = vet[p].worker /\ vet'[p].by = vet[p].by
          /\ vouches' = vouches
      BY <2>3 DEF VetWorked, VetAt
    <3> QED
      BY <3>1, VetPairsApart DEF NotDisturbedBy
  <2>4. CASE VetCommit(r) /\ ~VetAt(r, "idle")
    <3>1. /\ vouches' = OwnVouches(vet[r]) /\ vet'[r] = Idle
          /\ \A q \in VetRequests \ {r} : vet'[q] = vet[q]
      BY <2>4, VetCommitGoes
    <3>2. /\ s # r /\ p # r /\ vet'[s] = vet[s] /\ vet'[p] = vet[p]
          /\ ~VetAt(s, "idle") /\ ~VetAt(p, "idle")
      BY <3>1 DEF VetAt, Idle
    <3>3. NotDisturbedBy(vet[p], vet[s]) /\ NotDisturbedBy(vet[p], vet[r])
      BY <2>4, <3>2, VetPairsApart
    <3>4. <<vet[p].worker, vet[s].worker>> \notin vouches'
      BY <3>1, <3>3 DEF NotDisturbedBy, OwnVouches
    <3> QED
      BY <3>2, <3>3, <3>4 DEF NotDisturbedBy
  <2>5. CASE (VetRefuse(r) \/ VetCrash(r)) /\ ~VetAt(r, "idle")
    <3>1. /\ vouches' = vouches /\ vet'[r] = Idle
          /\ \A q \in VetRequests \ {r} : vet'[q] = vet[q]
      BY <2>5, VetEndGoes
    <3>2. vet'[s] = vet[s] /\ vet'[p] = vet[p] /\ ~VetAt(s, "idle") /\ ~VetAt(p, "idle")
      BY <3>1 DEF VetAt, Idle
    <3> QED
      BY <3>1, <3>2, VetPairsApart DEF NotDisturbedBy
  <2> QED
    BY <2>1, <2>2, <2>3, <2>4, <2>5
<1> QED
  BY <1>1, <1>2

\* The commit of a request leaves alone what one that it does not disturb read:
\* the row of its worker, the worker's papers and the givers' grades.
LEMMA VetCurrentBesideCommit ==
  ASSUME VettingInv, vetApart, NEW r \in VetRequests, NEW s \in VetRequests, r # s,
         ~VetAt(r, "idle"), ~VetAt(s, "idle"), VetCommit(r)
  PROVE  EntityCurrent(vet[s])'
<1> USE DEF VettingInv
<1> DEFINE q == vet[r]
           t == vet[s]
           papers == PapersGrade(t.worker, OwnPhotos(t), OwnReferences(t))
           valid  == ValidVouchers(t.worker, OwnVouches(t))
<1>1. /\ vet'[s] = t
      /\ \A w \in VetWorkers \ {q.worker} : standings'[w] = standings[w]
      /\ photos' = OwnPhotos(q) /\ references' = OwnReferences(q) /\ vouches' = OwnVouches(q)
  BY VetCommitGoes
<1>2. /\ q.worker # t.worker /\ q.worker # t.by
      /\ <<t.worker, q.worker>> \notin vouches
  BY VetPairsApart DEF NotDisturbedBy
<1>3. t \in VetRequest /\ t.worker \in VetWorkers
  BY VetInFlight, VetRequestFields DEF VetAt
<1>4. EntityCurrent(t)
  BY DEF EntitiesSound
<1>5. standings'[t.worker] = standings[t.worker]
  BY <1>1, <1>2, <1>3
<1>6. PapersGrade(t.worker, OwnPhotos(t)', OwnReferences(t)') = papers
  BY <1>1, <1>2 DEF PapersGrade, OwnPhotos, OwnReferences
<1>7. ValidVouchers(t.worker, OwnVouches(t))' = valid
  <2>1. \A v \in VetWorkers :
          <<t.worker, v>> \in OwnVouches(t)' <=> <<t.worker, v>> \in OwnVouches(t)
    BY <1>1, <1>2 DEF OwnVouches
  <2>2. \A v \in VetWorkers : <<t.worker, v>> \in OwnVouches(t) => v # q.worker
    BY <1>2 DEF OwnVouches
  <2>3. \A v \in VetWorkers :
          <<t.worker, v>> \in OwnVouches(t) => standings'[v] = standings[v]
    BY <1>1, <2>2
  <2> QED
    BY <1>1, <2>1, <2>3 DEF ValidVouchers, OwnVouches
<1> HIDE DEF papers, valid
<1> QED
  BY <1>1, <1>4, <1>5, <1>6, <1>7 DEF EntityCurrent, papers, valid

\* What a request read is unchanged when its own step alone can change it.
LEMMA VetCurrentWorked ==
  ASSUME VettingInv, NEW r \in VetRequests, vetApart,
         \/ VetInsert(r) \/ VetEnsure(r) \/ VetLoad(r)
         \/ VetReadPapers(r) \/ VetCountVouches(r) \/ VetSelect(r)
  PROVE  EntityCurrent(vet[r])'
<1> USE DEF VettingInv
<1> DEFINE q == vet[r]
           t == vet'[r]
           papers == PapersGrade(q.worker, OwnPhotos(q), OwnReferences(q))
           valid  == ValidVouchers(q.worker, OwnVouches(q))
           row    == standings[q.worker]
<1>1. VetWorked(r)
  BY VetWorkedCases
<1>2. ~VetAt(r, "idle")
  BY DEF VetInsert, VetEnsure, VetLoad, VetReadPapers, VetCountVouches, VetSelect, VetAt
<1>3. EntityCurrent(q) /\ EntityWellFormed(q)
  BY <1>2 DEF EntitiesSound
<1>4. /\ t.op = q.op /\ t.worker = q.worker /\ t.by = q.by
      /\ UNCHANGED <<standings, photos, references, vouches>>
  BY <1>1 DEF VetWorked
<1>5. /\ q.step # "begun" /\ q.fresh => row = "NONE"
      /\ q.step = "read" => q.papers = papers
      /\ q.step \in {"counted", "selected"} /\ q.op # "Stats" /\ q.grade # "NONE"
           => q.grade = GradeFor(papers, Cardinality(valid))
  BY <1>3 DEF EntityCurrent
<1>6. SUFFICES /\ t.step # "begun" /\ t.fresh => row = "NONE"
               /\ t.step = "read" => t.papers = papers
               /\ t.step \in {"counted", "selected"} /\ t.op # "Stats" /\ t.grade # "NONE"
                    => t.grade = GradeFor(papers, Cardinality(valid))
               /\ t.step = "selected" /\ ~t.fresh => t.base = row \/ t.grade = row
               /\ t.step = "selected" /\ t.grade = "NONE" => row = "NONE"
  <2>1. /\ OwnPhotos(q)' = OwnPhotos(q) /\ OwnReferences(q)' = OwnReferences(q)
        /\ OwnVouches(q)' = OwnVouches(q)
    BY <1>4 DEF OwnPhotos, OwnReferences, OwnVouches
  <2>2. PapersGrade(vet[r].worker, OwnPhotos(vet[r]), OwnReferences(vet[r]))' = papers
    BY <1>4, <2>1 DEF PapersGrade
  <2>3. ValidVouchers(vet[r].worker, OwnVouches(vet[r]))' = valid
    BY <1>4, <2>1 DEF ValidVouchers
  <2> QED
    BY <1>4, <1>6, <2>2, <2>3 DEF EntityCurrent
<1> HIDE DEF papers, valid
<1>7. CASE VetInsert(r)
  BY <1>7, VetInsertGoes DEF VetWentTo
<1>8. CASE VetEnsure(r)
  BY <1>8, VetEnsureGoes DEF VetWentTo
<1>9. CASE VetLoad(r)
  BY <1>5, <1>9, VetLoadGoes DEF VetWentTo
<1>10. CASE VetReadPapers(r)
  BY <1>5, <1>10, VetReadGoes DEF VetWentTo, papers
<1>11. CASE VetCountVouches(r)
  BY <1>5, <1>11, VetCountGoes DEF VetWentTo, valid
<1>12. CASE VetSelect(r)
  BY <1>3, <1>5, <1>12, VetSelectGoes DEF VetWentTo, EntityWellFormed
<1> QED
  BY <1>7, <1>8, <1>9, <1>10, <1>11, <1>12

LEMMA VetCurrentStep ==
  ASSUME VettingInv, [VettingNext]_vetVars, NEW s \in VetRequests, ~VetAt(s, "idle")',
         vetApart
  PROVE  EntityCurrent(vet[s])'
<1> USE DEF VettingInv
<1>1. ASSUME UNCHANGED <<standings, photos, references, vouches>>, vet'[s] = vet[s]
      PROVE  EntityCurrent(vet[s])'
  <2>1. EntityCurrent(vet[s])
    BY <1>1 DEF EntitiesSound, VetAt
  <2> QED
    BY <1>1, <2>1 DEF EntityCurrent, PapersGrade, ValidVouchers, OwnPhotos, OwnReferences,
                      OwnVouches
<1>2. CASE UNCHANGED vetVars
  BY <1>1, <1>2 DEF vetVars, vetDb
<1>3. CASE VettingNext
  <2>1. PICK r \in VetRequests :
          \/ \E call \in VetPlan : VetBegin(r, call)
          \/ VetProgress(r) \/ VetCrash(r)
    BY <1>3 DEF VettingNext
  <2>2. CASE \E call \in VetPlan : VetBegin(r, call)
    <3>1. PICK call \in VetPlan : VetBegin(r, call)
      BY <2>2
    <3> DEFINE t == vet'[r]
    <3>2. /\ t.step = (IF t.op = "Stats" THEN "ensured" ELSE "begun")
          /\ t.fresh = (t.op = "Photo" /\ t.worker \notin photos)
          /\ \A p \in VetRequests \ {r} : vet'[p] = vet[p]
          /\ UNCHANGED <<standings, photos, references, vouches>>
      BY <3>1, VetBeginGoes
    <3>3. /\ t.step \in {"ensured", "begun"}
          /\ t.step = "ensured" => ~t.fresh
      BY <3>2
    <3>4. CASE s = r
      BY <3>3, <3>4 DEF EntityCurrent
    <3> QED
      BY <1>1, <3>2, <3>4
  <2>3. CASE VetProgress(r) \/ VetCrash(r)
    <3>1. ~VetAt(r, "idle")
      BY <2>3 DEF VetProgress, VetInsert, VetEnsure, VetLoad, VetReadPapers, VetCountVouches,
                  VetSelect, VetCommit, VetRefuse, VetCrash, VetAt
    <3>2. \A p \in VetRequests \ {r} : vet'[p] = vet[p]
      BY <2>3, VetWorkedCases, VetCommitGoes, VetEndGoes DEF VetProgress, VetWorked
    <3>3. CASE s = r
      <4>1. vet'[r].step # "idle"
        BY <3>3 DEF VetAt
      <4>2. VetCommit(r) \/ VetRefuse(r) \/ VetCrash(r) => vet'[r] = Idle
        BY VetCommitGoes, VetEndGoes
      <4>3. ~(VetCommit(r) \/ VetRefuse(r) \/ VetCrash(r))
        BY <4>1, <4>2 DEF Idle
      <4> QED
        BY <2>3, <3>3, <4>3, VetCurrentWorked DEF VetProgress
    <3>4. CASE s # r /\ VetCommit(r)
      <4>1. ~VetAt(s, "idle")
        BY <3>2, <3>4 DEF VetAt
      <4> QED
        BY <3>1, <3>4, <4>1, VetCurrentBesideCommit
    <3>5. CASE s # r /\ ~VetCommit(r)
      <4>1. UNCHANGED <<standings, photos, references, vouches>>
        BY <2>3, <3>5, VetWorkedCases, VetEndGoes DEF VetProgress, VetWorked
      <4> QED
        BY <1>1, <3>2, <3>5, <4>1
    <3> QED
      BY <3>3, <3>4, <3>5
  <2> QED
    BY <2>1, <2>2, <2>3
<1> QED
  BY <1>2, <1>3

----------------------------------------------------------------------------
(* The invariant *)

LEMMA InitVettingInv == VettingInit => VettingInv
<1> SUFFICES ASSUME VettingInit PROVE VettingInv
  OBVIOUS
<1>1. VettingTypeOK
  BY VettingAssumption, GradesAre DEF VettingInit, VettingTypeOK
<1>2. GradeWasEarned
  BY VettingAssumption DEF VettingInit, GradeWasEarned, Earned
<1>3. SeniorityTracesToSeeds
  BY RegisteredIsNotSenior DEF VettingInit, SeniorityTracesToSeeds
<1> QED
  BY <1>1, <1>2, <1>3
     DEF VettingInit, VettingInv, EntitiesSound, NoSelfVouch, VetAt, Idle

LEMMA NextVettingInv == VettingInv /\ [VettingNext]_vetVars => VettingInv'
<1> SUFFICES ASSUME VettingInv, [VettingNext]_vetVars PROVE VettingInv'
  OBVIOUS
<1>1. VettingTypeOK'
  BY VetTypeStep DEF VettingInv
<1>2. GradeWasEarned' /\ SeniorityTracesToSeeds' /\ NoSelfVouch'
  BY GradeWasEarnedStep, SeniorityTracesStep, VetNoSelfVouchStep
<1>3. ASSUME NEW s \in VetRequests, ~VetAt(s, "idle")'
      PROVE  /\ EntityEarned(vet[s])' /\ EntityTraces(vet[s])' /\ EntityWellFormed(vet[s])'
             /\ vetApart' => EntityCurrent(vet[s])' /\ VetKeepsApart(s, vet[s])'
  <2>1. vetApart' = vetApart
    BY EvidenceGrows DEF VettingInv
  <2>2. vetApart => VetKeepsApart(s, vet[s])'
    BY <1>3, VetApartStep DEF VetKeepsApart
  <2> QED
    BY <1>3, <2>1, <2>2, VetEntitiesEarnedStep, VetWellFormedStep, VetCurrentStep
<1>4. EntitiesSound'
  BY <1>3 DEF EntitiesSound
<1> QED
  BY <1>1, <1>2, <1>4 DEF VettingInv

\* What a request in flight read and computed rests on evidence that is
\* committed or will be with its grade: the inductive invariant of the vetting
\* use cases, whatever their requests interleave or lose.
THEOREM VettingInvariance == VettingSpec => []VettingInv
<1>1. VettingInit => VettingInv
  BY InitVettingInv
<1>2. VettingInv /\ [VettingNext]_vetVars => VettingInv'
  BY NextVettingInv
<1> QED
  BY <1>1, <1>2, PTL DEF VettingSpec

\* No worker shows a grade whose photo, reference or vouches are not in the
\* tables, however recomputes, stale saves and rollbacks interleave.
THEOREM VettingGradesAreEarned == VettingSpec => []GradeWasEarned
<1>1. VettingInv => GradeWasEarned
  BY DEF VettingInv
<1> QED
  BY <1>1, VettingInvariance, PTL

\* A senior grade is reached from the operator's first seniors by a chain of
\* vouches, although givers are demoted and requests overlap meanwhile.
THEOREM VettingSeniorityIsHandedOn == VettingSpec => []SeniorityTracesToSeeds
<1>1. VettingInv => SeniorityTracesToSeeds
  BY DEF VettingInv
<1> QED
  BY <1>1, VettingInvariance, PTL

----------------------------------------------------------------------------
(* The grade after a commit *)

LEMMA GradeFollowsStep ==
  ASSUME VettingInv, VettingInv', NEW r \in VetRequests,
         NEW w \in VetWorkers, vet[r].worker = w, vetApart,
         vet[r].op \in {"Photo", "Reference", "Vouch"},
         VetCommit(r),
         standings'[w] # "NONE"
  PROVE  standings'[w] = DerivedGrade(w)'
<1> USE DEF VettingInv
<1> DEFINE q == vet[r]
           papers == PapersGrade(w, OwnPhotos(q), OwnReferences(q))
           valid  == ValidVouchers(w, OwnVouches(q))
<1>1. ~VetAt(r, "idle")
  BY DEF VetCommit, VetAt
<1>2. /\ q \in VetRequest
      /\ q.step = "selected"
      /\ standings'[w] = SavedGrade(q)
      /\ \A v \in VetWorkers \ {w} : standings'[v] = standings[v]
      /\ photos' = OwnPhotos(q) /\ references' = OwnReferences(q) /\ vouches' = OwnVouches(q)
  BY VetCommitGoes, VetRequestFields
<1>3. EntityCurrent(q)
  BY <1>1 DEF EntitiesSound
<1>4. q.grade # "NONE"
  BY <1>2, <1>3 DEF EntityCurrent, SavedGrade
<1>5. /\ q.grade = GradeFor(papers, Cardinality(valid))
      /\ standings'[w] = q.grade
  BY <1>2, <1>3, <1>4 DEF EntityCurrent, SavedGrade
<1>6. PapersGrade(w, photos', references') = papers
  BY <1>2
<1>7. <<w, w>> \notin vouches'
  BY <1>2 DEF NoSelfVouch
<1>8. {v \in VetWorkers : <<w, v>> \in vouches' /\ Senior(standings'[v])} = valid
  <2>1. ASSUME NEW v \in VetWorkers, <<w, v>> \in vouches'
        PROVE  standings'[v] = standings[v]
    BY <1>2, <1>7, <2>1
  <2> QED
    BY <1>2, <2>1 DEF ValidVouchers
<1>9. DerivedGrade(w)'
        = GradeFor(PapersGrade(w, photos', references'),
                   Cardinality({v \in VetWorkers : <<w, v>> \in vouches' /\ Senior(standings'[v])}))
  BY DEF DerivedGrade, ValidVouchers, PapersGrade
<1> QED
  BY <1>5, <1>6, <1>8, <1>9

\* While requests keep apart, however many are in flight, every vetting request
\* leaves the grade that the evidence in the tables yields after its commit.
THEOREM VettingGradeFollowsEvidence == VettingSpec => GradeFollowsEvidence
<1>1. ASSUME VettingInv, VettingInv', [VettingNext]_vetVars
      PROVE  [\A r \in VetRequests, w \in VetWorkers :
                /\ vetApart
                /\ vet[r] # Idle
                /\ vet[r].op \in {"Photo", "Reference", "Vouch"}
                /\ vet[r].worker = w
                /\ VetCommit(r)
                /\ standings'[w] # "NONE"
                => standings'[w] = DerivedGrade(w)']_vetVars
  BY <1>1, GradeFollowsStep
<1> QED
  BY <1>1, VettingInvariance, PTL DEF VettingSpec, GradeFollowsEvidence

=============================================================================
