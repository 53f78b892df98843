------------------------------ MODULE RowsProofs ------------------------------
(***************************************************************************)
(* Proofs about the two modules on rows that callers race for.             *)
(*                                                                         *)
(* SignIn, for every set of phones, codes, addresses and overlapping       *)
(* requests: an account comes from a verified code, and its role is never  *)
(* changed.  UniqueRows, for every set of calls and number of losses: what *)
(* callers were told about a row stays true, and a registered worker has a *)
(* standing.                                                               *)
(***************************************************************************)
EXTENDS SignIn, UniqueRows, TLAPS


----------------------------------------------------------------------------
(* Fields *)

Tries == {"tried", "verified", "unknown"}
Edits == {"edited", "selected"}

TryRecord ==
  [step : Tries, phone : Phones, code : Codes, role : Roles, right : BOOLEAN, attempts : Nat]

EditRecord ==
  [step : Edits, phone : Phones, field : {"display_name", "is_available"},
   ent : Person, base : Person]

\* What a request is follows from its step.
LEMMA CallKinds ==
  ASSUME NEW q \in CallRecord \cup {NoCall}
  PROVE  /\ q.step = "requested" => q.phone \in Phones /\ q.code \in Codes
         /\ q.step \in Tries => q \in TryRecord
         /\ q.step \in Edits => q \in EditRecord
<1>1. CASE q \in [step : {"requested"}, phone : Phones, code : Codes]
  BY <1>1 DEF Tries, Edits
<1>2. CASE q \in TryRecord
  BY <1>2 DEF TryRecord, Tries, Edits
<1>3. CASE q \in EditRecord
  BY <1>3 DEF EditRecord, Tries, Edits
<1>4. CASE q = NoCall
  BY <1>4 DEF NoCall, Tries, Edits
<1> QED
  BY <1>1, <1>2, <1>3, <1>4 DEF CallRecord, TryRecord, EditRecord, Tries, Edits

LEMMA RecordsAreCalls ==
  /\ TryRecord \subseteq CallRecord
  /\ EditRecord \subseteq CallRecord
  /\ \A p \in Phones, c \in Codes : [step |-> "requested", phone |-> p, code |-> c] \in CallRecord
BY DEF CallRecord, TryRecord, EditRecord, Tries, Edits

LEMMA CodeFields ==
  ASSUME NEW k \in CodeRow
  PROVE  /\ k # NoCode
         /\ k.phone \in Phones /\ k.age \in 0 .. 2 /\ k.attempts \in 0 .. MaxAttempts
         /\ k.verified \in BOOLEAN
         /\ k.state \in {"reserved", "stored"}
BY DEF CodeRow, NoCode

LEMMA PersonFields ==
  ASSUME NEW a \in Person
  PROVE  /\ a # NoPerson
         /\ DOMAIN a = {"role", "display_name", "is_available"}
         /\ a.role \in Roles /\ a.display_name \in {"", "a"} /\ a.is_available \in BOOLEAN
<1>1. a.role \in Roles /\ a.display_name \in {"", "a"} /\ a.is_available \in BOOLEAN
  BY DEF Person
<1>2. DOMAIN a = {"role", "display_name", "is_available"}
  BY DEF Person
<1>3. a # NoPerson
  <2>1. NoPerson.role = "none"
    BY DEF NoPerson
  <2>2. a.role # "none"
    BY <1>1 DEF Roles
  <2> QED
    BY <2>1, <2>2
<1> QED
  BY <1>1, <1>2, <1>3

----------------------------------------------------------------------------
(* What a request knows, for given tables *)

CodeKnown(q, codes) ==
  /\ q.step = "requested" => codes[q.code] # NoCode
  /\ q.step \in Tries =>
       q.code \in Codes /\ codes[q.code].state = "stored" /\ codes[q.code].phone = q.phone
  /\ q.step = "tried" => q.attempts < MaxAttempts
  /\ q.step \in {"verified", "unknown"} => codes[q.code].verified

RoleKnown(q, persons) ==
  q.step \in Edits =>
    /\ persons[q.phone] # NoPerson
    /\ q.ent.role = persons[q.phone].role
    /\ q.base.role = persons[q.phone].role

LEMMA KnownNow ==
  /\ CallsHaveCodes <=> \A s \in Slots : CodeKnown(call[s], code)
  /\ EditsKeepRole <=> \A s \in Slots : RoleKnown(call[s], person)
<1>1. CallsHaveCodes <=> \A s \in Slots : CodeKnown(call[s], code)
  BY DEF CallsHaveCodes, CodeKnown, IsStoredFor, StoredCodes, Tries
<1>2. EditsKeepRole <=> \A s \in Slots : RoleKnown(call[s], person)
  BY DEF EditsKeepRole, RoleKnown, Edits
<1> QED
  BY <1>1, <1>2

LEMMA KnownThen ==
  /\ CallsHaveCodes' <=> \A s \in Slots : CodeKnown(call'[s], code')
  /\ EditsKeepRole' <=> \A s \in Slots : RoleKnown(call'[s], person')
<1>1. CallsHaveCodes' <=> \A s \in Slots : CodeKnown(call'[s], code')
  BY DEF CallsHaveCodes, CodeKnown, IsStoredFor, StoredCodes, Tries
<1>2. EditsKeepRole' <=> \A s \in Slots : RoleKnown(call'[s], person')
  BY DEF EditsKeepRole, RoleKnown, Edits
<1> QED
  BY <1>1, <1>2

\* No code loses its phone, its being stored or its being verified.
CodesKept ==
  /\ code' \in [Codes -> CodeRow \cup {NoCode}]
  /\ \A c \in Codes : code[c] # NoCode =>
       /\ code'[c] # NoCode
       /\ code'[c].phone = code[c].phone
       /\ code[c].state = "stored" => code'[c].state = "stored"
       /\ code[c].verified => code'[c].verified

\* No account is deleted or given another role, and a new one has a verified
\* code.
PersonsKept ==
  /\ person' \in [Phones -> Person \cup {NoPerson}]
  /\ \A p \in Phones : person[p] # NoPerson =>
       person'[p] # NoPerson /\ person'[p].role = person[p].role
  /\ \A p \in Phones : person[p] = NoPerson /\ person'[p] # NoPerson =>
       \E c \in StoredCodes : code[c].phone = p /\ code[c].verified

\* What was known stays known.
LEMMA KnownStays ==
  ASSUME SignInTypeOK, CodesKept, PersonsKept, NEW q \in CallRecord \cup {NoCall}
  PROVE  /\ CodeKnown(q, code) => CodeKnown(q, code')
         /\ RoleKnown(q, person) => RoleKnown(q, person')
<1>1. /\ q.step = "requested" => q.code \in Codes
      /\ q.step \in Tries => q.code \in Codes
      /\ q.step \in Edits => q.phone \in Phones
  BY CallKinds DEF TryRecord, EditRecord
<1>2. "tried" \in Tries /\ "verified" \in Tries /\ "unknown" \in Tries
  BY DEF Tries
<1>3. \A c \in Codes : code[c].state = "stored" => code[c] # NoCode
  BY DEF NoCode
<1>4. CodeKnown(q, code) => CodeKnown(q, code')
  BY <1>1, <1>2, <1>3 DEF CodeKnown, CodesKept
<1>5. RoleKnown(q, person) => RoleKnown(q, person')
  BY <1>1 DEF RoleKnown, PersonsKept
<1> QED
  BY <1>4, <1>5

\* A step of the request in slot s.
CallStep(s) ==
  /\ call' \in [Slots -> CallRecord \cup {NoCall}]
  /\ \A r \in Slots \ {s} : call'[r] = call[r]
  /\ CodesKept
  /\ PersonsKept
  /\ CodeKnown(call'[s], code')
  /\ RoleKnown(call'[s], person')
  /\ calls' \in 0 .. MaxCalls
  /\ signInSlots' = signInSlots

LEMMA SlotNow ==
  ASSUME SignInTypeOK, NEW s \in Slots, NEW q \in CallRecord \cup {NoCall}, Step(s, q)
  PROVE  /\ call' \in [Slots -> CallRecord \cup {NoCall}]
         /\ \A r \in Slots \ {s} : call'[r] = call[r]
         /\ call'[s] = q
         /\ signInSlots' = signInSlots
BY DEF SignInTypeOK, Step

LEMMA NothingKnown ==
  ASSUME NEW codes, NEW persons
  PROVE  /\ CodeKnown(NoCall, codes) /\ RoleKnown(NoCall, persons)
         /\ NoCall \in CallRecord \cup {NoCall}
BY DEF CodeKnown, RoleKnown, NoCall, Tries, Edits

LEMMA TablesUntouched ==
  ASSUME SignInTypeOK
  PROVE  /\ UNCHANGED code => CodesKept
         /\ UNCHANGED person => PersonsKept
BY DEF SignInTypeOK, CodesKept, PersonsKept

\* A request that ends, or goes on with what it knows, changes nothing else.
LEMMA CallGoesOn ==
  ASSUME SignInTypeOK, NEW s \in Slots, NEW q \in CallRecord \cup {NoCall}, Step(s, q),
         UNCHANGED <<code, person>>, calls' \in 0 .. MaxCalls,
         CodeKnown(q, code), RoleKnown(q, person)
  PROVE  CallStep(s)
BY SlotNow, TablesUntouched DEF CallStep

----------------------------------------------------------------------------
(* The steps of a request *)

LEMMA RequestOtpStep ==
  ASSUME SignInInv, NEW s \in Slots, NEW p \in Phones, NEW c \in Codes, RequestOtp(s, p, c)
  PROVE  CallStep(s)
<1> USE DEF SignInInv
<1> DEFINE k == [state |-> "reserved", phone |-> p, age |-> 0, attempts |-> 0, verified |-> FALSE]
           q == [step |-> "requested", phone |-> p, code |-> c]
<1>1. k \in CodeRow
  BY SignInAssumption DEF CodeRow
<1>2. code[c] = NoCode /\ code' = [code EXCEPT ![c] = k]
  BY DEF RequestOtp
<1>3. q.step = "requested" /\ q.code = c
  OBVIOUS
<1>4. Step(s, q) /\ q \in CallRecord
  BY RecordsAreCalls DEF RequestOtp
<1> HIDE DEF k, q
<1>5. code'[c] # NoCode
  BY <1>1, <1>2, CodeFields DEF SignInTypeOK
<1>6. CodesKept
  BY <1>1, <1>2 DEF SignInTypeOK, CodesKept
<1>7. CodeKnown(q, code') /\ RoleKnown(q, person')
  BY <1>3, <1>5 DEF CodeKnown, RoleKnown, Tries, Edits
<1> QED
  BY <1>4, <1>6, <1>7, SlotNow, TablesUntouched DEF CallStep, RequestOtp, SignInTypeOK

LEMMA StoreCodeStep ==
  ASSUME SignInInv, NEW s \in Slots, StoreCode(s)
  PROVE  CallStep(s)
<1> USE DEF SignInInv
<1> DEFINE c == call[s].code
           k == [code[c] EXCEPT !.state = "stored"]
<1>1. call[s].step = "requested" /\ call[s] \in CallRecord \cup {NoCall}
  BY DEF StoreCode, SignInTypeOK
<1>2. c \in Codes
  BY <1>1, CallKinds
<1>3. code[c] \in CodeRow
  BY <1>1, <1>2, KnownNow DEF CodeKnown, SignInTypeOK
<1>4. /\ k \in CodeRow /\ k.phone = code[c].phone /\ k.state = "stored"
      /\ k.verified = code[c].verified
  BY <1>3 DEF CodeRow
<1>5. code' = [code EXCEPT ![c] = k] /\ Step(s, NoCall) /\ UNCHANGED <<person, calls>>
  BY DEF StoreCode
<1> HIDE DEF c, k
<1>6. k # NoCode
  BY <1>4, CodeFields
<1>7. CodesKept
  BY <1>2, <1>4, <1>5, <1>6 DEF CodesKept, SignInTypeOK
<1> QED
  BY <1>5, <1>7, SlotNow, TablesUntouched, NothingKnown DEF CallStep, SignInTypeOK

LEMMA VerifyOtpStep ==
  ASSUME SignInInv, NEW s \in Slots, NEW p \in Phones, NEW c \in Codes,
         NEW right \in BOOLEAN, NEW role \in Roles, VerifyOtp(s, p, c, right, role)
  PROVE  CallStep(s)
<1> USE DEF SignInInv
<1> DEFINE q == [step |-> "tried", phone |-> p, code |-> c, role |-> role,
                 right |-> right, attempts |-> code[c].attempts]
<1>1. code[c].state = "stored" /\ code[c].phone = p /\ code[c].attempts < MaxAttempts
  BY DEF VerifyOtp, Unverified, StoredCodes
<1>2. code[c] \in CodeRow
  BY <1>1 DEF SignInTypeOK, NoCode
<1>3. code[c].attempts \in Nat
  BY <1>2, CodeFields
<1>4. q \in TryRecord
  BY <1>3 DEF TryRecord, Tries
<1>5. q.step = "tried" /\ q.code = c /\ q.phone = p /\ q.attempts = code[c].attempts
  OBVIOUS
<1>6. Step(s, q) /\ UNCHANGED <<code, person>> /\ calls' \in 0 .. MaxCalls
  BY SignInAssumption DEF VerifyOtp, SignInTypeOK
<1> HIDE DEF q
<1>7. CodeKnown(q, code) /\ RoleKnown(q, person)
  BY <1>1, <1>5 DEF CodeKnown, RoleKnown, Tries, Edits
<1> QED
  BY <1>4, <1>6, <1>7, RecordsAreCalls, CallGoesOn

LEMMA CommitAttemptStep ==
  ASSUME SignInInv, NEW s \in Slots, CommitAttempt(s)
  PROVE  CallStep(s)
<1> USE DEF SignInInv
<1> DEFINE q == call[s]
           c == q.code
           k == [code[c] EXCEPT !.attempts = q.attempts + 1, !.verified = @ \/ q.right]
           t == IF q.right THEN [q EXCEPT !.step = "verified"] ELSE NoCall
<1>1. q.step = "tried" /\ q \in CallRecord \cup {NoCall} /\ CodeKnown(q, code)
  BY KnownNow DEF CommitAttempt, SignInTypeOK
<1>2. q \in TryRecord
  BY <1>1, CallKinds DEF Tries
<1>3. /\ c \in Codes /\ code[c].state = "stored" /\ code[c].phone = q.phone
      /\ q.attempts < MaxAttempts
  BY <1>1 DEF CodeKnown, Tries
<1>4. code[c] \in CodeRow
  BY <1>3 DEF SignInTypeOK, NoCode
<1>5. q.attempts \in Nat /\ q.right \in BOOLEAN
  BY <1>2 DEF TryRecord
<1>6. q.attempts + 1 \in 0 .. MaxAttempts
  BY <1>3, <1>5, SignInAssumption
<1>7. /\ k \in CodeRow /\ k.phone = code[c].phone /\ k.state = "stored"
      /\ k.verified = (code[c].verified \/ q.right)
  <2> DEFINE n == q.attempts + 1
             v == code[c].verified \/ q.right
  <2>1. n \in 0 .. MaxAttempts /\ v \in BOOLEAN
    BY <1>6
  <2> HIDE DEF n, v
  <2>2. [code[c] EXCEPT !.attempts = n, !.verified = v] \in CodeRow
        /\ [code[c] EXCEPT !.attempts = n, !.verified = v].phone = code[c].phone
        /\ [code[c] EXCEPT !.attempts = n, !.verified = v].state = "stored"
        /\ [code[c] EXCEPT !.attempts = n, !.verified = v].verified = v
    BY <1>3, <1>4, <2>1 DEF CodeRow
  <2>3. k = [code[c] EXCEPT !.attempts = n, !.verified = v]
    BY DEF n, v
  <2> QED
    BY <2>2, <2>3 DEF v
<1>8. /\ t \in CallRecord \cup {NoCall}
      /\ t # NoCall => q.right /\ t.step = "verified" /\ t.code = c /\ t.phone = q.phone
  BY <1>2, RecordsAreCalls DEF TryRecord, Tries
<1>9. code' = [code EXCEPT ![c] = k] /\ Step(s, t) /\ UNCHANGED <<person, calls>>
  BY DEF CommitAttempt
<1> HIDE DEF q, c, k, t
<1>10. k # NoCode
  BY <1>7, CodeFields
<1>11. CodesKept
  BY <1>3, <1>7, <1>9, <1>10 DEF CodesKept, SignInTypeOK
<1>12. code'[c] = k
  BY <1>3, <1>9 DEF SignInTypeOK
<1>13. CodeKnown(t, code') /\ RoleKnown(t, person')
  <2>1. CASE t = NoCall
    BY <2>1, NothingKnown
  <2>2. CASE t # NoCall
    BY <1>3, <1>7, <1>8, <1>12, <2>2 DEF CodeKnown, RoleKnown, Tries, Edits
  <2> QED
    BY <2>1, <2>2
<1> QED
  BY <1>8, <1>9, <1>11, <1>13, SlotNow, TablesUntouched DEF CallStep, SignInTypeOK

LEMMA FindPersonStep ==
  ASSUME SignInInv, NEW s \in Slots, FindPerson(s)
  PROVE  CallStep(s)
<1> USE DEF SignInInv
<1> DEFINE q == call[s]
           t == IF person[q.phone] = NoPerson THEN [q EXCEPT !.step = "unknown"] ELSE NoCall
<1>1. q.step = "verified" /\ q \in CallRecord \cup {NoCall} /\ CodeKnown(q, code)
  BY KnownNow DEF FindPerson, SignInTypeOK
<1>2. q \in TryRecord
  BY <1>1, CallKinds DEF Tries
<1>3. /\ t \in CallRecord \cup {NoCall}
      /\ t # NoCall => t.step = "unknown" /\ t.code = q.code /\ t.phone = q.phone
  BY <1>2, RecordsAreCalls DEF TryRecord, Tries
<1>4. Step(s, t) /\ UNCHANGED <<code, person, calls>>
  BY DEF FindPerson
<1> HIDE DEF q, t
<1>5. CodeKnown(t, code) /\ RoleKnown(t, person)
  <2>1. CASE t = NoCall
    BY <2>1, NothingKnown
  <2>2. CASE t # NoCall
    BY <1>1, <1>3, <2>2 DEF CodeKnown, RoleKnown, Tries, Edits
  <2> QED
    BY <2>1, <2>2
<1> QED
  BY <1>3, <1>4, <1>5, CallGoesOn DEF SignInTypeOK

LEMMA CreatePersonStep ==
  ASSUME SignInInv, NEW s \in Slots, CreatePerson(s)
  PROVE  CallStep(s)
<1> USE DEF SignInInv
<1> DEFINE q == call[s]
           p == q.phone
           a == [role |-> q.role, display_name |-> "", is_available |-> TRUE]
<1>1. q.step = "unknown" /\ q \in CallRecord \cup {NoCall} /\ CodeKnown(q, code)
  BY KnownNow DEF CreatePerson, SignInTypeOK
<1>2. q \in TryRecord
  BY <1>1, CallKinds DEF Tries
<1>3. p \in Phones /\ q.role \in Roles
  BY <1>2 DEF TryRecord
<1>4. a \in Person
  BY <1>3 DEF Person
<1>5. \E c \in StoredCodes : code[c].phone = p /\ code[c].verified
  BY <1>1 DEF CodeKnown, Tries, StoredCodes
<1>6. /\ Step(s, NoCall) /\ UNCHANGED <<code, calls>>
      /\ person' = IF person[p] = NoPerson THEN [person EXCEPT ![p] = a] ELSE person
  BY DEF CreatePerson
<1> HIDE DEF q, p, a
<1>7. person' \in [Phones -> Person \cup {NoPerson}]
  BY <1>3, <1>4, <1>6 DEF SignInTypeOK
<1>8. \A r \in Phones : person'[r] = person[r] \/ (r = p /\ person[r] = NoPerson)
  BY <1>3, <1>6 DEF SignInTypeOK
<1>9. PersonsKept
  BY <1>5, <1>7, <1>8 DEF PersonsKept
<1> QED
  BY <1>6, <1>9, SlotNow, TablesUntouched, NothingKnown DEF CallStep, SignInTypeOK

LEMMA UpdateMeStep ==
  ASSUME SignInInv, NEW s \in Slots, NEW p \in Phones,
         NEW f \in {"display_name", "is_available"}, UpdateMe(s, p, f)
  PROVE  CallStep(s)
<1> USE DEF SignInInv
<1> DEFINE a == person[p]
           e == IF f = "display_name" THEN [a EXCEPT !.display_name = "a"]
                ELSE [a EXCEPT !.is_available = ~@]
           q == [step |-> "edited", phone |-> p, field |-> f, base |-> a, ent |-> e]
<1>1. a \in Person /\ a # NoPerson
  BY DEF UpdateMe, SignInTypeOK
<1>2. e \in Person /\ e.role = a.role
  <2>1. [a EXCEPT !.display_name = "a"] \in Person /\ [a EXCEPT !.display_name = "a"].role = a.role
    BY <1>1 DEF Person
  <2> DEFINE b == ~a.is_available
  <2>2. b \in BOOLEAN
    OBVIOUS
  <2> HIDE DEF b
  <2>3. [a EXCEPT !.is_available = b] \in Person /\ [a EXCEPT !.is_available = b].role = a.role
    BY <1>1, <2>2 DEF Person
  <2>4. [a EXCEPT !.is_available = ~@] = [a EXCEPT !.is_available = b]
    BY DEF b
  <2> QED
    BY <2>1, <2>3, <2>4
<1>3. Step(s, q) /\ UNCHANGED <<code, person>> /\ calls' \in 0 .. MaxCalls
  BY SignInAssumption DEF UpdateMe, SignInTypeOK
<1> HIDE DEF e
<1>4. /\ q \in EditRecord /\ q.step = "edited" /\ q.phone = p /\ q.base = a /\ q.ent = e
  BY <1>1, <1>2 DEF EditRecord, Edits
<1> HIDE DEF q
<1>5. CodeKnown(q, code) /\ RoleKnown(q, person)
  BY <1>1, <1>2, <1>4 DEF CodeKnown, RoleKnown, Tries, Edits
<1> QED
  BY <1>3, <1>4, <1>5, RecordsAreCalls, CallGoesOn

LEMMA SelectMeStep ==
  ASSUME SignInInv, NEW s \in Slots, SelectMe(s)
  PROVE  CallStep(s)
<1> USE DEF SignInInv
<1> DEFINE q == call[s]
           b == person[q.phone]
           t == [q EXCEPT !.step = "selected", !.base = b]
<1>1. q.step = "edited" /\ q \in CallRecord \cup {NoCall} /\ RoleKnown(q, person)
  BY KnownNow DEF SelectMe, SignInTypeOK
<1>2. q \in EditRecord
  BY <1>1, CallKinds DEF Edits
<1>3. q.phone \in Phones /\ b # NoPerson /\ q.ent.role = b.role
  BY <1>1, <1>2 DEF RoleKnown, EditRecord, Edits
<1>4. b \in Person
  BY <1>3 DEF SignInTypeOK
<1>5. Step(s, t) /\ UNCHANGED <<code, person, calls>>
  BY DEF SelectMe
<1> HIDE DEF b
<1>6. t \in EditRecord /\ t.step = "selected" /\ t.phone = q.phone /\ t.base = b /\ t.ent = q.ent
  BY <1>2, <1>4 DEF EditRecord, Edits
<1> HIDE DEF t
<1>7. CodeKnown(t, code) /\ RoleKnown(t, person)
  BY <1>3, <1>6 DEF CodeKnown, RoleKnown, Tries, Edits, b
<1> QED
  BY <1>5, <1>6, <1>7, RecordsAreCalls, CallGoesOn DEF SignInTypeOK

\* A save writes no role: the copy and the row selected have the same.
LEMMA SaveMeStep ==
  ASSUME SignInInv, NEW s \in Slots, SaveMe(s)
  PROVE  CallStep(s)
<1> USE DEF SignInInv
<1> DEFINE q == call[s]
           p == q.phone
           a == [f \in DOMAIN q.ent |-> IF q.ent[f] = q.base[f] THEN person[p][f] ELSE q.ent[f]]
<1>1. q.step = "selected" /\ q \in CallRecord \cup {NoCall} /\ RoleKnown(q, person)
  BY KnownNow DEF SaveMe, SignInTypeOK
<1>2. q \in EditRecord
  BY <1>1, CallKinds DEF Edits
<1>3. /\ p \in Phones /\ q.ent \in Person
      /\ person[p] # NoPerson
      /\ q.ent.role = q.base.role
  BY <1>1, <1>2 DEF RoleKnown, EditRecord, Edits
<1>4. person[p] \in Person
  BY <1>3 DEF SignInTypeOK
<1>5. DOMAIN q.ent = {"role", "display_name", "is_available"}
  BY <1>3, PersonFields
<1>6. /\ DOMAIN a = {"role", "display_name", "is_available"}
      /\ a = [f \in {"role", "display_name", "is_available"} |-> a[f]]
      /\ a.role = person[p].role
      /\ a.display_name \in {"", "a"}
      /\ a.is_available \in BOOLEAN
  BY <1>3, <1>4, <1>5, PersonFields
<1>7. person' = [person EXCEPT ![p] = a] /\ Step(s, NoCall) /\ UNCHANGED <<code, calls>>
  BY DEF SaveMe
<1> HIDE DEF q, p, a
<1>8. a \in Person
  BY <1>4, <1>6, PersonFields DEF Person
<1>9. a # NoPerson
  BY <1>8, PersonFields
<1>10. PersonsKept
  BY <1>3, <1>6, <1>7, <1>8, <1>9 DEF PersonsKept, SignInTypeOK
<1> QED
  BY <1>7, <1>10, SlotNow, TablesUntouched, NothingKnown DEF CallStep, SignInTypeOK

LEMMA DropCallStep ==
  ASSUME SignInInv, NEW s \in Slots, DropCall(s)
  PROVE  CallStep(s)
BY NothingKnown, CallGoesOn DEF SignInInv, DropCall, SignInTypeOK

----------------------------------------------------------------------------
(* The invariant *)

LEMMA TickKeepsCodes ==
  ASSUME SignInTypeOK, Tick
  PROVE  CodesKept
<1>1. code' = [c \in Codes |->
         IF code[c] = NoCode \/ code[c].age = 2 THEN code[c] ELSE [code[c] EXCEPT !.age = @ + 1]]
  BY DEF Tick
<1>2. ASSUME NEW c \in Codes
      PROVE  /\ code'[c] \in CodeRow \cup {NoCode}
             /\ code[c] # NoCode =>
                  /\ code'[c] # NoCode
                  /\ code'[c].phone = code[c].phone
                  /\ code'[c].state = code[c].state
                  /\ code'[c].verified = code[c].verified
  <2>1. code[c] \in CodeRow \cup {NoCode}
    BY DEF SignInTypeOK
  <2>2. CASE code[c] = NoCode \/ code[c].age = 2
    BY <1>1, <2>1, <2>2
  <2>3. CASE code[c] # NoCode /\ code[c].age # 2
    <3> DEFINE n == code[c].age + 1
    <3>1. code[c] \in CodeRow /\ n \in 0 .. 2
      BY <2>1, <2>3, CodeFields
    <3>2. code'[c] = [code[c] EXCEPT !.age = n]
      BY <1>1, <2>3
    <3> HIDE DEF n
    <3>3. code'[c] \in CodeRow /\ code'[c].phone = code[c].phone
          /\ code'[c].state = code[c].state /\ code'[c].verified = code[c].verified
      BY <3>1, <3>2 DEF CodeRow
    <3> QED
      BY <3>3, CodeFields
  <2> QED
    BY <2>2, <2>3
<1> QED
  BY <1>1, <1>2 DEF CodesKept

LEMMA SignInSteps ==
  ASSUME SignInInv, [SignInNext]_signInVars
  PROVE  (\E s \in Slots : CallStep(s))
           \/ (CodesKept /\ UNCHANGED <<person, call, calls, signInSlots>>)
<1>1. CASE UNCHANGED signInVars
  BY <1>1, TablesUntouched DEF signInVars, SignInInv
<1>2. CASE Tick
  BY <1>2, TickKeepsCodes DEF Tick, SignInInv
<1>3. CASE SignInNext /\ ~Tick
  BY <1>3, RequestOtpStep, StoreCodeStep, VerifyOtpStep, CommitAttemptStep, FindPersonStep,
     CreatePersonStep, UpdateMeStep, SelectMeStep, SaveMeStep, DropCallStep DEF SignInNext
<1> QED
  BY <1>1, <1>2, <1>3

LEMMA AccountsStep ==
  ASSUME SignInInv, CodesKept, PersonsKept
  PROVE  AccountsComeFromCodes'
<1>1. ASSUME NEW c \in StoredCodes, code[c].verified
      PROVE  c \in StoredCodes' /\ code'[c].phone = code[c].phone /\ code'[c].verified
  BY <1>1 DEF StoredCodes, CodesKept, NoCode
<1>2. ASSUME NEW p \in Phones, person'[p] # NoPerson
      PROVE  \E c \in StoredCodes : code[c].phone = p /\ code[c].verified
  BY <1>2 DEF SignInInv, AccountsComeFromCodes, PersonsKept
<1>3. ASSUME NEW p \in Phones, person'[p] # NoPerson
      PROVE  \E c \in StoredCodes' : code'[c].phone = p /\ code'[c].verified
  BY <1>1, <1>2, <1>3
<1> QED
  BY <1>3 DEF AccountsComeFromCodes

LEMMA InitSignInInv == SignInInit => SignInInv
<1> SUFFICES ASSUME SignInInit PROVE SignInInv
  OBVIOUS
<1>1. SignInTypeOK
  BY SignInAssumption DEF SignInInit, SignInTypeOK
<1>2. \A s \in Slots : call[s] = NoCall
  BY DEF SignInInit
<1>3. CallsHaveCodes /\ EditsKeepRole
  BY <1>2, NothingKnown, KnownNow
<1> QED
  BY <1>1, <1>3 DEF SignInInv, SignInInit, AccountsComeFromCodes

LEMMA NextSignInInv == SignInInv /\ [SignInNext]_signInVars => SignInInv' /\ PersonsKept
<1> SUFFICES ASSUME SignInInv, [SignInNext]_signInVars PROVE SignInInv' /\ PersonsKept
  OBVIOUS
<1>1. /\ \A s \in Slots : call[s] \in CallRecord \cup {NoCall}
      /\ \A s \in Slots : CodeKnown(call[s], code) /\ RoleKnown(call[s], person)
      /\ SignInTypeOK
  BY KnownNow DEF SignInInv, SignInTypeOK
<1>2. CASE \E s \in Slots : CallStep(s)
  <2>1. PICK s \in Slots : CallStep(s)
    BY <1>2
  <2>2. CodesKept /\ PersonsKept
    BY <2>1 DEF CallStep
  <2>3. ASSUME NEW r \in Slots
        PROVE  CodeKnown(call'[r], code') /\ RoleKnown(call'[r], person')
    <3>1. CASE r = s
      BY <2>1, <3>1 DEF CallStep
    <3>2. CASE r # s
      <4>1. call'[r] = call[r]
        BY <2>1, <3>2 DEF CallStep
      <4> QED
        BY <1>1, <2>2, <4>1, KnownStays
    <3> QED
      BY <3>1, <3>2
  <2>4. CallsHaveCodes' /\ EditsKeepRole'
    BY <2>3, KnownThen
  <2>5. SignInTypeOK'
    BY <1>1, <2>1, <2>2 DEF CallStep, CodesKept, PersonsKept, SignInTypeOK
  <2> QED
    BY <2>2, <2>4, <2>5, AccountsStep DEF SignInInv
<1>3. CASE CodesKept /\ UNCHANGED <<person, call, calls, signInSlots>>
  <2>1. PersonsKept
    BY <1>1, <1>3, TablesUntouched
  <2>2. \A r \in Slots : CodeKnown(call'[r], code') /\ RoleKnown(call'[r], person')
    BY <1>1, <1>3, <2>1, KnownStays
  <2>3. CallsHaveCodes' /\ EditsKeepRole'
    BY <2>2, KnownThen
  <2>4. SignInTypeOK'
    BY <1>1, <1>3 DEF CodesKept, SignInTypeOK
  <2> QED
    BY <1>3, <2>1, <2>3, <2>4, AccountsStep DEF SignInInv
<1> QED
  BY <1>2, <1>3, SignInSteps

\* A verification in flight works on a stored code of its phone and creates an
\* account only once that code is verified; a profile update works on the role
\* its account has: the inductive invariant of signing in.
THEOREM SignInInvariance == SignInSpec => []SignInInv
<1>1. SignInInit => SignInInv
  BY InitSignInInv
<1>2. SignInInv /\ [SignInNext]_signInVars => SignInInv'
  BY NextSignInInv
<1> QED
  BY <1>1, <1>2, PTL DEF SignInSpec

\* An account exists only for a phone that a code was verified for, also when
\* first sign-ins overlap or die between their two transactions.
THEOREM SignInAccountsComeFromCodes == SignInSpec => []AccountsComeFromCodes
<1>1. SignInInv => AccountsComeFromCodes
  BY DEF SignInInv
<1> QED
  BY <1>1, SignInInvariance, PTL

\* No sign-in and no profile update changes the role of an existing account.
THEOREM SignInRoleIsKept == SignInSpec => RoleIsKept
<1>1. SignInInv /\ [SignInNext]_signInVars =>
        [\A p \in Phones : person[p] # NoPerson => person'[p].role = person[p].role]_signInVars
  BY NextSignInInv DEF PersonsKept
<1> QED
  BY <1>1, SignInInvariance, PTL DEF SignInSpec, RoleIsKept

----------------------------------------------------------------------------
(* Calls and rows under a unique key *)


CallStates ==
  [at : {"idle", "failed"} \cup Waiting \cup Answers,
   id : {Absent.by, Earlier.by} \cup UniqueCalls]

RowValues == {Absent, Earlier} \cup [by : UniqueCalls, stored : BOOLEAN]

\* The tables whose stored row is never changed.
Lasting == {"media_files", "skills", "service_areas", "crews", "standings"}

Registered == {"skills", "service_areas"}

AllTables ==
  {"media_files", "reviews", "job_offers", "skills", "service_areas", "crews",
   "crew_members", "payment_gateway_configs", "standings"}

----------------------------------------------------------------------------
(* Tables and calls *)

LEMMA OpsAre ==
  Ops = {"upload", "review", "offer", "skill", "area", "crew", "member", "remove", "config"}
BY DEF Ops, Tables

LEMMA TablesAre == {Tables[o] : o \in DOMAIN Tables} = AllTables
BY DEF Tables, AllTables

\* The table each operation writes; only registrations share one with nobody
\* who overwrites it.
LEMMA KeyOfCall ==
  ASSUME NEW c \in UniqueCalls
  PROVE  /\ c[1] \in Ops
         /\ KeyOf(c) \in AllTables \ {"standings"}
         /\ KeyOf(c) = "media_files" <=> c[1] = "upload"
         /\ KeyOf(c) = "skills" <=> c[1] = "skill"
         /\ KeyOf(c) = "service_areas" <=> c[1] = "area"
         /\ KeyOf(c) = "crews" <=> c[1] = "crew"
<1>1. c[1] \in Ops
  BY DEF UniqueCalls
<1> QED
  BY <1>1, OpsAre DEF KeyOf, Tables, AllTables

LEMMA CallsAreNobody ==
  ASSUME NEW c \in UniqueCalls
  PROVE  c # Absent.by /\ c # Earlier.by
<1>1. c[1] \in Ops
  BY DEF UniqueCalls
<1> QED
  BY <1>1, OpsAre DEF Absent, Earlier

LEMMA UniqueTypes ==
  ASSUME UniqueTypeOK
  PROVE  /\ DOMAIN row = AllTables
         /\ \A t \in AllTables : row[t] \in RowValues
         /\ DOMAIN uniq \subseteq UniqueCalls
         /\ \A c \in DOMAIN uniq : uniq[c] \in CallStates
BY TablesAre, UniqueAssumption DEF UniqueTypeOK, RowValues, CallStates

LEMMA RowFields ==
  ASSUME NEW v \in RowValues
  PROVE  /\ v.stored \in BOOLEAN
         /\ v = [by |-> v.by, stored |-> v.stored]
         /\ v.by \in {Absent.by, Earlier.by} \cup UniqueCalls
<1>1. CASE v = Absent
  BY <1>1 DEF Absent
<1>2. CASE v = Earlier
  BY <1>2 DEF Earlier
<1>3. CASE v \in [by : UniqueCalls, stored : BOOLEAN]
  BY <1>3
<1> QED
  BY <1>1, <1>2, <1>3 DEF RowValues

LEMMA RowOfCall ==
  ASSUME NEW c \in UniqueCalls, NEW b \in BOOLEAN
  PROVE  /\ [by |-> c, stored |-> b] \in RowValues
         /\ Absent \in RowValues
         /\ [by |-> c, stored |-> b].by = c
         /\ [by |-> c, stored |-> b].stored = b
         /\ [by |-> c, stored |-> b] # Absent
         /\ Absent.stored = FALSE
BY CallsAreNobody DEF RowValues, Absent

----------------------------------------------------------------------------
(* What a step does to the calls *)

\* Call c is now at this step with this answer, the other calls are as they were.
CallNow(c, at, id) ==
  /\ DOMAIN uniq' = DOMAIN uniq
  /\ \A d \in DOMAIN uniq \ {c} : uniq'[d] = uniq[d]
  /\ uniq'[c] \in CallStates
  /\ uniq'[c].at = at
  /\ uniq'[c].id = id
  /\ losses' \in 0 .. MaxLosses

LEMMA CallAt ==
  ASSUME UniqueTypeOK, NEW c \in DOMAIN uniq,
         NEW at \in {"idle", "failed"} \cup Waiting \cup Answers,
         uniq' = [uniq EXCEPT ![c].at = at], losses' \in 0 .. MaxLosses
  PROVE  CallNow(c, at, uniq[c].id)
<1>1. uniq[c] \in CallStates
  BY UniqueTypes
<1> DEFINE u == [uniq[c] EXCEPT !.at = at]
<1>2. u \in CallStates /\ u.at = at /\ u.id = uniq[c].id
  BY <1>1 DEF CallStates
<1>3. uniq' = [uniq EXCEPT ![c] = u]
  OBVIOUS
<1> HIDE DEF u
<1>4. uniq'[c] = u /\ DOMAIN uniq' = DOMAIN uniq /\ (\A d \in DOMAIN uniq \ {c} : uniq'[d] = uniq[d])
  BY <1>3
<1> QED
  BY <1>2, <1>4 DEF CallNow

LEMMA GoNow ==
  ASSUME UniqueTypeOK, NEW c \in DOMAIN uniq,
         NEW at \in {"idle", "failed"} \cup Waiting \cup Answers, Go(c, at)
  PROVE  CallNow(c, at, uniq[c].id)
<1>1. losses' \in 0 .. MaxLosses
  BY DEF Go, UniqueTypeOK
<1> QED
  BY <1>1, CallAt DEF Go

LEMMA AnswerNow ==
  ASSUME UniqueTypeOK, NEW c \in DOMAIN uniq, NEW at \in Answers,
         NEW id \in {Absent.by, Earlier.by} \cup UniqueCalls, Answer(c, at, id)
  PROVE  CallNow(c, at, id) \/ CallNow(c, "failed", uniq[c].id)
<1>1. CASE uniq' = [uniq EXCEPT ![c] = [at |-> at, id |-> id]] /\ UNCHANGED losses
  <2>1. [at |-> at, id |-> id] \in CallStates
    BY DEF CallStates
  <2> QED
    BY <1>1, <2>1 DEF CallNow, UniqueTypeOK
<1>2. CASE losses < MaxLosses /\ losses' = losses + 1 /\ uniq' = [uniq EXCEPT ![c].at = "failed"]
  <2>1. losses' \in 0 .. MaxLosses
    BY <1>2, UniqueAssumption DEF UniqueTypeOK
  <2> QED
    BY <1>2, <2>1, CallAt
<1> QED
  BY <1>1, <1>2 DEF Answer

----------------------------------------------------------------------------
(* What a step of call c may do *)

\* The stored rows last, a registration's row is its own, a new upload has its
\* file, a new registration its standing; a file goes only when no row names it.
RowsKept(c) ==
  /\ DOMAIN row' = AllTables
  /\ \A t \in AllTables : row'[t] \in RowValues
  /\ \A t \in Lasting : row[t].stored => row'[t] = row[t]
  /\ \A t \in Registered, d \in UniqueCalls \ {c} :
       row[t] = [by |-> d, stored |-> FALSE] => row'[t] = row[t]
  /\ ~row["media_files"].stored /\ row'["media_files"].stored =>
       row'["media_files"].by = c /\ c \in file
  /\ \A t \in Registered : row'[t].stored => row[t].stored \/ row'["standings"].stored
  /\ row' = row \/ file' = file
  /\ file' \subseteq file \cup {c}
  /\ \A d \in file : d \in file' \/ (d = c /\ \A t \in AllTables : row[t].by # c)

\* What the call has in hand and was told is so.
CallTrue(c) ==
  /\ StepsOfOps'
  /\ uniq'[c].at \in {"flushed", "standing", "no standing"} =>
       row'[KeyOf(c)] = [by |-> c, stored |-> FALSE]
  /\ uniq'[c].at = "standing" => row'["standings"].stored
  /\ c[1] = "upload" /\ uniq'[c].at = "ok" =>
       row'["media_files"] = [by |-> uniq'[c].id, stored |-> TRUE] /\ uniq'[c].id \in file'
  /\ c[1] \in {"skill", "area", "crew"} /\ uniq'[c].at = "refused" => row'[KeyOf(c)].stored

UniqueStep(c) ==
  /\ \E at \in {"idle", "failed"} \cup Waiting \cup Answers,
        id \in {Absent.by, Earlier.by} \cup UniqueCalls : CallNow(c, at, id)
  /\ RowsKept(c)
  /\ CallTrue(c)
  /\ UNCHANGED job

\* The steps of the others are as they were.
LEMMA StepsOfOpsStep ==
  ASSUME StepsOfOps, NEW c \in DOMAIN uniq, NEW at, NEW id, CallNow(c, at, id),
         /\ at = "checked" => c[1] \in {"review", "offer"}
         /\ at = "missed" => c[1] \in {"upload", "review", "offer", "config"}
         /\ at = "found" => c[1] \in {"offer", "config", "remove"}
         /\ at \in {"flushed", "standing", "no standing"} => c[1] \in {"skill", "area"}
  PROVE  StepsOfOps'
BY DEF StepsOfOps, CallNow

\* Steps that write no row.
LEMMA RowsUntouched ==
  ASSUME UniqueTypeOK, NEW c, UNCHANGED row, file' = file \/ file' = file \cup {c}
  PROVE  RowsKept(c)
BY UniqueTypes, RowFields DEF RowsKept

\* One row is put, over none that lasts and over none of another registration.
LEMMA RowPut ==
  ASSUME UniqueInv, NEW c \in UniqueCalls, NEW v \in RowValues, Put(KeyOf(c), v), UNCHANGED file,
         \/ KeyOf(c) \notin Lasting
         \/ CanInsert(KeyOf(c)) /\ ~Stored(KeyOf(c)),
         KeyOf(c) \in Registered => v = [by |-> c, stored |-> FALSE],
         KeyOf(c) = "media_files" => v.by = c /\ c \in file
  PROVE  RowsKept(c) /\ row'[KeyOf(c)] = v
<1>1. /\ DOMAIN row = AllTables
      /\ \A t \in AllTables : row[t] \in RowValues
  BY UniqueTypes DEF UniqueInv
<1>2. KeyOf(c) \in AllTables \ {"standings"}
  BY KeyOfCall
<1>3. /\ DOMAIN row' = AllTables
      /\ row'[KeyOf(c)] = v
      /\ \A t \in AllTables \ {KeyOf(c)} : row'[t] = row[t]
  BY <1>1, <1>2 DEF Put
<1>4. \A t \in Lasting : row[t].stored => row'[t] = row[t]
  BY <1>3 DEF Stored, Lasting, AllTables
<1>5. ASSUME NEW t \in Registered, NEW d \in UniqueCalls, row[t] = [by |-> d, stored |-> FALSE]
      PROVE  row'[t] = row[t]
  <2>1. row[t] # Absent /\ ~Stored(t)
    BY <1>5, RowOfCall DEF Stored
  <2>2. t # KeyOf(c)
    BY <2>1 DEF CanInsert, Lasting, Registered
  <2> QED
    BY <1>3, <2>2 DEF Registered, AllTables
<1>6. ASSUME NEW t \in Registered, row'[t].stored
      PROVE  row[t].stored
  BY <1>3, <1>6 DEF Registered, AllTables
<1>7. ~row["media_files"].stored /\ row'["media_files"].stored =>
        row'["media_files"].by = c /\ c \in file
  BY <1>3 DEF AllTables
<1>8. \A t \in AllTables : row'[t] \in RowValues
  BY <1>1, <1>3
<1> QED
  BY <1>3, <1>4, <1>5, <1>6, <1>7, <1>8 DEF RowsKept

\* A step of call c, from where the call is then and what it was told.
LEMMA StepFrom ==
  ASSUME UniqueInv, NEW c \in DOMAIN uniq, RowsKept(c), UNCHANGED job,
         NEW at \in {"idle", "failed"} \cup Waiting \cup Answers,
         NEW id \in {Absent.by, Earlier.by} \cup UniqueCalls,
         CallNow(c, at, id),
         /\ at = "checked" => c[1] \in {"review", "offer"}
         /\ at = "missed" => c[1] \in {"upload", "review", "offer", "config"}
         /\ at = "found" => c[1] \in {"offer", "config", "remove"}
         /\ at \in {"flushed", "standing", "no standing"} =>
              c[1] \in {"skill", "area"} /\ row'[KeyOf(c)] = [by |-> c, stored |-> FALSE]
         /\ at = "standing" => row'["standings"].stored
         /\ c[1] = "upload" /\ at = "ok" =>
              row'["media_files"] = [by |-> id, stored |-> TRUE] /\ id \in file'
         /\ c[1] \in {"skill", "area", "crew"} /\ at = "refused" => row'[KeyOf(c)].stored
  PROVE  UniqueStep(c)
<1>1. StepsOfOps'
  BY StepsOfOpsStep DEF UniqueInv
<1>2. uniq'[c].at = at /\ uniq'[c].id = id
  BY DEF CallNow
<1>3. CallTrue(c)
  BY <1>1, <1>2 DEF CallTrue
<1> QED
  BY <1>3 DEF UniqueStep

\* A call that fails or is idle again claims nothing.
LEMMA StepToNothing ==
  ASSUME UniqueInv, NEW c \in DOMAIN uniq, RowsKept(c), UNCHANGED job,
         NEW at \in {"idle", "failed"},
         NEW id \in {Absent.by, Earlier.by} \cup UniqueCalls,
         CallNow(c, at, id)
  PROVE  UniqueStep(c)
BY StepFrom

\* The id a call holds.
LEMMA IdOfCall ==
  ASSUME UniqueTypeOK, NEW c \in DOMAIN uniq
  PROVE  uniq[c].id \in {Absent.by, Earlier.by} \cup UniqueCalls
BY UniqueTypes DEF CallStates

\* An answer reaches the caller, or is lost and the call has failed.
LEMMA StepToAnswer ==
  ASSUME UniqueInv, NEW c \in DOMAIN uniq, RowsKept(c), UNCHANGED job,
         NEW at \in Answers,
         NEW id \in {Absent.by, Earlier.by} \cup UniqueCalls,
         Answer(c, at, id),
         /\ c[1] = "upload" /\ at = "ok" =>
              row'["media_files"] = [by |-> id, stored |-> TRUE] /\ id \in file'
         /\ c[1] \in {"skill", "area", "crew"} /\ at = "refused" => row'[KeyOf(c)].stored
  PROVE  UniqueStep(c)
<1>1. CallNow(c, at, id) \/ CallNow(c, "failed", uniq[c].id)
  BY AnswerNow DEF UniqueInv
<1>2. CASE CallNow(c, at, id)
  <2>1. at \in {"ok", "refused"}
    BY DEF Answers
  <2> QED
    BY <1>2, <2>1, StepFrom
<1>3. CASE CallNow(c, "failed", uniq[c].id)
  BY <1>3, StepToNothing, IdOfCall DEF UniqueInv
<1> QED
  BY <1>1, <1>2, <1>3

\* A call goes on without writing.
LEMMA StepOnward ==
  ASSUME UniqueInv, NEW c \in DOMAIN uniq, UNCHANGED <<row, file, job>>,
         NEW at \in Waiting, Go(c, at),
         /\ at = "checked" => c[1] \in {"review", "offer"}
         /\ at = "missed" => c[1] \in {"upload", "review", "offer", "config"}
         /\ at = "found" => c[1] \in {"offer", "config", "remove"}
         /\ at \in {"flushed", "standing", "no standing"} =>
              c[1] \in {"skill", "area"} /\ row[KeyOf(c)] = [by |-> c, stored |-> FALSE]
         /\ at = "standing" => row["standings"].stored
  PROVE  UniqueStep(c)
<1>1. CallNow(c, at, uniq[c].id)
  BY GoNow DEF UniqueInv
<1>2. RowsKept(c)
  BY RowsUntouched DEF UniqueInv
<1>3. at \notin Answers
  BY DEF Waiting, Answers
<1> QED
  BY <1>1, <1>2, <1>3, IdOfCall, StepFrom DEF UniqueInv, Answers

----------------------------------------------------------------------------
(* The steps of a call *)

LEMMA LookUpUploadStep ==
  ASSUME UniqueInv, NEW c \in DOMAIN uniq, LookUpUpload(c)
  PROVE  UniqueStep(c)
<1>1. /\ c \in UniqueCalls /\ row["media_files"] \in RowValues
      /\ KeyOf(c) = "media_files"
  BY UniqueTypes, KeyOfCall DEF UniqueInv, LookUpUpload, AllTables
<1>2. RowsKept(c)
  BY RowsUntouched DEF UniqueInv, LookUpUpload
<1>3. CASE Stored("media_files")
  <2>1. Answer(c, "ok", row["media_files"].by)
    BY <1>1, <1>3 DEF LookUpUpload
  <2>2. row["media_files"] = [by |-> row["media_files"].by, stored |-> TRUE]
    BY <1>1, <1>3, RowFields DEF Stored
  <2>3. row["media_files"].by \in file
    BY <1>3 DEF UniqueInv, StoredUploadHasFile
  <2>4. row["media_files"].by \in {Absent.by, Earlier.by} \cup UniqueCalls
    BY <1>1, RowFields
  <2>5. row' = row /\ file' = file /\ job' = job /\ "ok" \in Answers
    BY DEF LookUpUpload, Answers
  <2> QED
    BY <1>2, <2>1, <2>2, <2>3, <2>4, <2>5, StepToAnswer
<1>4. CASE ~Stored("media_files")
  BY <1>1, <1>4, StepOnward DEF LookUpUpload, Waiting
<1> QED
  BY <1>3, <1>4

LEMMA CheckJobStep ==
  ASSUME UniqueInv, NEW c \in DOMAIN uniq, CheckJob(c)
  PROVE  UniqueStep(c)
<1>1. c[1] \in {"review", "offer"} /\ UNCHANGED <<row, file, job>>
  BY DEF CheckJob
<1>2. CASE Go(c, "checked")
  BY <1>1, <1>2, StepOnward DEF Waiting
<1>3. CASE Answer(c, "refused", uniq[c].id)
  <2>1. RowsKept(c)
    BY <1>1, RowsUntouched DEF UniqueInv
  <2> QED
    BY <1>1, <1>3, <2>1, IdOfCall, StepToAnswer DEF UniqueInv, Answers
<1> QED
  BY <1>2, <1>3 DEF CheckJob

LEMMA LookUpKeyStep ==
  ASSUME UniqueInv, NEW c \in DOMAIN uniq, LookUpKey(c)
  PROVE  UniqueStep(c)
<1>1. c[1] \in {"review", "offer", "config"} /\ UNCHANGED <<row, file, job>>
  BY DEF LookUpKey, UniqueInv, StepsOfOps
<1>2. CASE Go(c, "missed")
  BY <1>1, <1>2, StepOnward DEF Waiting
<1>3. CASE Go(c, "found") /\ c[1] # "review"
  BY <1>1, <1>3, StepOnward DEF Waiting
<1>4. CASE Answer(c, "refused", uniq[c].id)
  <2>1. RowsKept(c)
    BY <1>1, RowsUntouched DEF UniqueInv
  <2> QED
    BY <1>1, <1>4, <2>1, IdOfCall, StepToAnswer DEF UniqueInv, Answers
<1> QED
  BY <1>2, <1>3, <1>4 DEF LookUpKey

LEMMA LookUpMemberStep ==
  ASSUME UniqueInv, NEW c \in DOMAIN uniq, LookUpMember(c)
  PROVE  UniqueStep(c)
<1>1. c[1] = "remove" /\ UNCHANGED <<row, file, job>>
  BY DEF LookUpMember
<1>2. CASE Go(c, "found")
  BY <1>1, <1>2, StepOnward DEF Waiting
<1>3. CASE Answer(c, "refused", uniq[c].id)
  <2>1. RowsKept(c)
    BY <1>1, RowsUntouched DEF UniqueInv
  <2> QED
    BY <1>1, <1>3, <2>1, IdOfCall, StepToAnswer DEF UniqueInv, Answers
<1> QED
  BY <1>2, <1>3 DEF LookUpMember

LEMMA WriteFileStep ==
  ASSUME UniqueInv, NEW c \in DOMAIN uniq, WriteFile(c)
  PROVE  UniqueStep(c)
<1>1. /\ c[1] = "upload" /\ file' = file \cup {c} /\ Go(c, "missed") /\ UNCHANGED <<row, job>>
      /\ "missed" \in Waiting
  BY DEF WriteFile, Waiting
<1>2. RowsKept(c)
  BY <1>1, RowsUntouched DEF UniqueInv
<1>3. CallNow(c, "missed", uniq[c].id)
  BY <1>1, GoNow DEF UniqueInv
<1> QED
  BY <1>1, <1>2, <1>3, IdOfCall, StepFrom DEF UniqueInv

LEMMA InsertMissingStep ==
  ASSUME UniqueInv, NEW c \in DOMAIN uniq, InsertMissing(c)
  PROVE  UniqueStep(c)
<1> DEFINE v == [by |-> c, stored |-> TRUE]
<1>1. /\ c \in UniqueCalls /\ c[1] \in {"upload", "review", "offer", "config"}
      /\ c[1] = "upload" => c \in file
      /\ UNCHANGED <<file, job>>
  BY UniqueTypes DEF InsertMissing, UniqueInv, StepsOfOps
<1>2. CASE Go(c, "failed") /\ UNCHANGED row
  <2>1. CallNow(c, "failed", uniq[c].id) /\ RowsKept(c)
    BY <1>1, <1>2, GoNow, RowsUntouched DEF UniqueInv
  <2> QED
    BY <1>1, <2>1, StepToNothing, IdOfCall DEF UniqueInv
<1>3. CASE /\ ~Stored(KeyOf(c)) /\ CanInsert(KeyOf(c))
           /\ Put(KeyOf(c), v) /\ Answer(c, "ok", c)
  <2>1. /\ v \in RowValues /\ v.by = c
        /\ KeyOf(c) \notin Registered
        /\ KeyOf(c) = "media_files" <=> c[1] = "upload"
    BY <1>1, RowOfCall, KeyOfCall DEF Registered
  <2> HIDE DEF v
  <2>2. RowsKept(c) /\ row'[KeyOf(c)] = v
    BY <1>1, <1>3, <2>1, RowPut
  <2>3. c[1] = "upload" => row'["media_files"] = v /\ c \in file'
    BY <1>1, <2>1, <2>2
  <2>4. UniqueStep(c)
    BY <1>1, <1>3, <2>2, <2>3, StepToAnswer DEF Answers, v
  <2> QED
    BY <2>4
<1> QED
  BY <1>2, <1>3 DEF InsertMissing

LEMMA WriteFoundStep ==
  ASSUME UniqueInv, NEW c \in DOMAIN uniq, WriteFound(c)
  PROVE  UniqueStep(c)
<1> DEFINE v == IF c[1] = "remove" THEN Absent ELSE [by |-> c, stored |-> TRUE]
<1>1. /\ c \in UniqueCalls /\ c[1] \in {"offer", "config", "remove"}
      /\ Put(KeyOf(c), v) /\ Answer(c, "ok", c) /\ UNCHANGED <<file, job>>
  BY UniqueTypes DEF WriteFound, UniqueInv
<1>2. v \in RowValues
  BY <1>1, RowOfCall
<1>3. KeyOf(c) \notin Lasting /\ KeyOf(c) \notin Registered /\ KeyOf(c) # "media_files"
  BY <1>1, KeyOfCall DEF Lasting, Registered
<1> HIDE DEF v
<1>4. RowsKept(c)
  BY <1>1, <1>2, <1>3, RowPut
<1> QED
  BY <1>1, <1>4, StepToAnswer DEF Answers

LEMMA InsertOrRefuseStep ==
  ASSUME UniqueInv, NEW c \in DOMAIN uniq, InsertOrRefuse(c)
  PROVE  UniqueStep(c)
<1> DEFINE v == [by |-> c, stored |-> TRUE]
<1>1. /\ c \in UniqueCalls /\ c[1] \in {"crew", "member"} /\ CanInsert(KeyOf(c))
      /\ UNCHANGED <<file, job>>
  BY UniqueTypes DEF InsertOrRefuse, UniqueInv
<1>2. /\ KeyOf(c) \notin Registered /\ KeyOf(c) # "media_files"
      /\ KeyOf(c) = "crews" <=> c[1] = "crew"
  BY <1>1, KeyOfCall DEF Registered
<1>3. CASE /\ Stored(KeyOf(c)) \/ c[1] = "member"
           /\ Answer(c, "refused", uniq[c].id) /\ UNCHANGED row
  <2>1. RowsKept(c)
    BY <1>1, <1>3, RowsUntouched DEF UniqueInv
  <2> QED
    BY <1>1, <1>3, <2>1, IdOfCall, StepToAnswer DEF UniqueInv, Answers, Stored
<1>4. CASE ~Stored(KeyOf(c)) /\ Put(KeyOf(c), v) /\ Answer(c, "ok", c)
  <2>1. v \in RowValues
    BY <1>1, RowOfCall
  <2> HIDE DEF v
  <2>2. RowsKept(c)
    BY <1>1, <1>2, <1>4, <2>1, RowPut
  <2> QED
    BY <1>1, <1>4, <2>2, StepToAnswer DEF Answers
<1> QED
  BY <1>3, <1>4 DEF InsertOrRefuse

LEMMA FlushRegistrationStep ==
  ASSUME UniqueInv, NEW c \in DOMAIN uniq, FlushRegistration(c)
  PROVE  UniqueStep(c)
<1> DEFINE v == [by |-> c, stored |-> FALSE]
<1>1. /\ c \in UniqueCalls /\ c[1] \in {"skill", "area"} /\ CanInsert(KeyOf(c))
      /\ UNCHANGED <<file, job>>
  BY UniqueTypes DEF FlushRegistration, UniqueInv
<1>2. CASE Stored(KeyOf(c)) /\ Answer(c, "refused", uniq[c].id) /\ UNCHANGED row
  <2>1. RowsKept(c)
    BY <1>1, <1>2, RowsUntouched DEF UniqueInv
  <2> QED
    BY <1>1, <1>2, <2>1, IdOfCall, StepToAnswer DEF UniqueInv, Answers, Stored
<1>3. CASE ~Stored(KeyOf(c)) /\ Put(KeyOf(c), v) /\ Go(c, "flushed")
  <2>1. v \in RowValues /\ KeyOf(c) # "media_files" /\ "flushed" \in Waiting
    BY <1>1, RowOfCall, KeyOfCall DEF Waiting
  <2>2. CallNow(c, "flushed", uniq[c].id)
    BY <1>3, <2>1, GoNow DEF UniqueInv
  <2>3. RowsKept(c) /\ row'[KeyOf(c)] = v
    <3> HIDE DEF v
    <3>1. KeyOf(c) \in Registered => v = [by |-> c, stored |-> FALSE]
      BY DEF v
    <3> QED
      BY <1>1, <1>3, <2>1, <3>1, RowPut
  <2> QED
    BY <1>1, <2>1, <2>2, <2>3, IdOfCall, StepFrom DEF UniqueInv
<1> QED
  BY <1>2, <1>3 DEF FlushRegistration

LEMMA EnsureStandingStep ==
  ASSUME UniqueInv, NEW c \in DOMAIN uniq, EnsureStanding(c)
  PROVE  UniqueStep(c)
<1>1. /\ c[1] \in {"skill", "area"} /\ row[KeyOf(c)] = [by |-> c, stored |-> FALSE]
      /\ UNCHANGED <<row, file, job>>
  BY DEF EnsureStanding, UniqueInv, StepsOfOps, RegistrationsHoldTheirRow
<1>2. CASE Stored("standings") /\ Go(c, "standing")
  BY <1>1, <1>2, StepOnward DEF Waiting, Stored
<1>3. CASE Go(c, "no standing")
  BY <1>1, <1>3, StepOnward DEF Waiting
<1> QED
  BY <1>2, <1>3 DEF EnsureStanding

\* Rows that a registration in flight holds are its own and not stored.
LEMMA FlushedRowsGo ==
  ASSUME UniqueInv, NEW c \in UniqueCalls, UNCHANGED file,
         DOMAIN row' = AllTables,
         \A t \in AllTables :
           row'[t] = row[t] \/ (row[t].by = c /\ ~row[t].stored /\ row'[t] = Absent)
  PROVE  RowsKept(c)
<1>1. /\ DOMAIN row = AllTables
      /\ \A t \in AllTables : row[t] \in RowValues
  BY UniqueTypes DEF UniqueInv
<1>2. \A t \in AllTables : row'[t] \in RowValues
  BY <1>1, RowOfCall
<1>3. \A t \in AllTables : row[t].stored => row'[t] = row[t]
  OBVIOUS
<1>4. \A t \in AllTables : row'[t].stored => row'[t] = row[t]
  BY RowOfCall
<1>5. ASSUME NEW t \in AllTables, NEW d \in UniqueCalls \ {c}, row[t] = [by |-> d, stored |-> FALSE]
      PROVE  row'[t] = row[t]
  BY <1>5
<1>6. Lasting \subseteq AllTables /\ Registered \subseteq AllTables /\ "media_files" \in AllTables
  BY DEF Lasting, Registered, AllTables
<1> QED
  BY <1>2, <1>3, <1>4, <1>5, <1>6 DEF RowsKept

LEMMA LoseRequestStep ==
  ASSUME UniqueInv, NEW c \in DOMAIN uniq, LoseRequest(c)
  PROVE  UniqueStep(c)
<1>1. /\ c \in UniqueCalls /\ DOMAIN row = AllTables
      /\ UNCHANGED <<file, job>>
      /\ uniq' = [uniq EXCEPT ![c].at = "failed"]
  BY UniqueTypes DEF LoseRequest, UniqueInv
<1>2. losses' \in 0 .. MaxLosses
  BY UniqueAssumption DEF LoseRequest, UniqueInv, UniqueTypeOK
<1>3. CallNow(c, "failed", uniq[c].id)
  BY <1>1, <1>2, CallAt DEF UniqueInv
<1>4. /\ DOMAIN row' = AllTables
      /\ \A t \in AllTables :
           row'[t] = row[t] \/ (row[t].by = c /\ ~row[t].stored /\ row'[t] = Absent)
  BY <1>1 DEF LoseRequest, Stored
<1>5. RowsKept(c)
  BY <1>1, <1>4, FlushedRowsGo
<1> QED
  BY <1>1, <1>3, <1>5, IdOfCall, StepToNothing DEF UniqueInv

LEMMA RetryStep ==
  ASSUME UniqueInv, NEW c \in DOMAIN uniq, Retry(c)
  PROVE  UniqueStep(c)
<1>1. /\ DOMAIN row = AllTables /\ UNCHANGED <<row, job>>
      /\ file' = IF \E t \in AllTables : row[t].by = c THEN file ELSE file \ {c}
  BY UniqueTypes DEF Retry, UniqueInv
<1>2. CallNow(c, "idle", uniq[c].id)
  BY GoNow DEF UniqueInv, Retry
<1>3. RowsKept(c)
  BY <1>1, UniqueTypes DEF UniqueInv, RowsKept
<1> QED
  BY <1>1, <1>2, <1>3, IdOfCall, StepToNothing DEF UniqueInv

LEMMA CommitRegistrationStep ==
  ASSUME UniqueInv, NEW c \in DOMAIN uniq, CommitRegistration(c)
  PROVE  UniqueStep(c)
<1> DEFINE v == [by |-> c, stored |-> TRUE]
           k == KeyOf(c)
           s == IF Stored("standings") THEN row["standings"] ELSE v
<1>1. /\ c \in UniqueCalls /\ c[1] \in {"skill", "area"}
      /\ row[k] = [by |-> c, stored |-> FALSE]
      /\ DOMAIN row = AllTables
      /\ \A t \in AllTables : row[t] \in RowValues
      /\ UNCHANGED <<file, job>>
  BY UniqueTypes DEF CommitRegistration, UniqueInv, StepsOfOps, RegistrationsHoldTheirRow
<1>2. /\ k \in Registered /\ k \in AllTables /\ k # "standings" /\ k # "media_files"
      /\ k # "crews" /\ "standings" \in AllTables
  BY <1>1, KeyOfCall DEF Registered, AllTables
<1>3. row[k].by = c /\ ~row[k].stored
  BY <1>1
<1>4. CASE Put(k, Absent) /\ Go(c, "failed")
  <2>1. /\ DOMAIN row' = AllTables
        /\ \A t \in AllTables :
             row'[t] = row[t] \/ (row[t].by = c /\ ~row[t].stored /\ row'[t] = Absent)
    BY <1>1, <1>2, <1>3, <1>4 DEF Put
  <2>2. RowsKept(c)
    BY <1>1, <2>1, FlushedRowsGo
  <2>3. CallNow(c, "failed", uniq[c].id)
    BY <1>4, GoNow DEF UniqueInv
  <2> QED
    BY <1>1, <2>2, <2>3, IdOfCall, StepToNothing DEF UniqueInv
<1>5. CASE row' = [row EXCEPT ![k] = v, !["standings"] = s] /\ Answer(c, "ok", c)
  <2>1. v \in RowValues /\ v.by = c /\ v.stored /\ v # Absent
    BY <1>1, RowOfCall
  <2>2. s \in RowValues /\ s.stored
    BY <1>1, <1>2, <2>1 DEF Stored
  <2>3. row["standings"].stored => s = row["standings"]
    BY DEF Stored
  <2> HIDE DEF v, s, k
  <2>4. /\ DOMAIN row' = AllTables
        /\ row'[k] = v /\ row'["standings"] = s
        /\ \A t \in AllTables \ {k, "standings"} : row'[t] = row[t]
    BY <1>1, <1>2, <1>5
  <2>5. \A t \in AllTables : row'[t] \in RowValues
    BY <1>1, <2>1, <2>2, <2>4
  <2>6. ASSUME NEW t \in Lasting, row[t].stored PROVE row'[t] = row[t]
    BY <1>3, <2>3, <2>4, <2>6 DEF Lasting, AllTables
  <2>7. ASSUME NEW t \in Registered, NEW d \in UniqueCalls \ {c}, row[t] = [by |-> d, stored |-> FALSE]
        PROVE  row'[t] = row[t]
    <3>1. t # k
      BY <1>3, <2>7
    <3> QED
      BY <2>4, <3>1 DEF Registered, AllTables
  <2>8. row'["media_files"] = row["media_files"]
    BY <1>2, <2>4 DEF AllTables
  <2>9. RowsKept(c)
    BY <1>1, <2>2, <2>4, <2>5, <2>6, <2>7, <2>8 DEF RowsKept
  <2> QED
    BY <1>1, <1>5, <2>9, StepToAnswer DEF Answers
<1> QED
  BY <1>4, <1>5 DEF CommitRegistration

LEMMA UniqueStepCases ==
  ASSUME UniqueInv, NEW c \in DOMAIN uniq, UniqueProgress(c) \/ LoseRequest(c)
  PROVE  UniqueStep(c)
BY LookUpUploadStep, CheckJobStep, LookUpKeyStep, LookUpMemberStep, WriteFileStep,
   InsertMissingStep, WriteFoundStep, InsertOrRefuseStep, FlushRegistrationStep,
   EnsureStandingStep, CommitRegistrationStep, RetryStep, LoseRequestStep
   DEF UniqueProgress

----------------------------------------------------------------------------
(* The invariant *)

LEMMA InitUniqueInv == UniqueInit => UniqueInv
<1> SUFFICES ASSUME UniqueInit PROVE UniqueInv
  OBVIOUS
<1>1. PICK seen \in {{}, {"skills", "standings", "crews"}} :
        row = [t \in AllTables |-> IF t \in seen THEN Earlier ELSE Absent]
  BY TablesAre DEF UniqueInit
<1>2. PICK mix \in UniqueMixes : uniq = [c \in mix |-> [at |-> "idle", id |-> Absent.by]]
  BY DEF UniqueInit
<1>3. /\ DOMAIN row = AllTables
      /\ \A t \in AllTables : row[t] \in {Absent, Earlier}
  BY <1>1
<1>4. DOMAIN uniq \in UniqueMixes /\ (\A c \in DOMAIN uniq : uniq[c] = [at |-> "idle", id |-> Absent.by])
  BY <1>2
<1>5. UniqueTypeOK
  BY <1>3, <1>4, TablesAre, UniqueAssumption DEF UniqueInit, UniqueTypeOK
<1>6. /\ ~Stored("media_files")
      /\ Stored("skills") \/ Stored("service_areas") => Stored("standings")
  BY <1>1 DEF Stored, Absent, Earlier, AllTables
<1>7. \A c \in DOMAIN uniq : uniq[c].at = "idle"
  BY <1>4
<1> QED
  BY <1>5, <1>6, <1>7
     DEF UniqueInv, StepsOfOps, RegistrationsHoldTheirRow, StandingsSeenAreStored,
         StoredUploadHasFile, AnswersMatchRows, RegisteredWorkersHaveStanding

LEMMA UniqueStepKeepsInv ==
  ASSUME UniqueInv, NEW c \in DOMAIN uniq, UniqueStep(c)
  PROVE  UniqueInv'
<1> USE DEF UniqueInv
<1>1. /\ DOMAIN row = AllTables /\ \A t \in AllTables : row[t] \in RowValues
      /\ DOMAIN uniq \subseteq UniqueCalls
      /\ \A d \in DOMAIN uniq : uniq[d] \in CallStates
  BY UniqueTypes
<1>2. /\ DOMAIN uniq' = DOMAIN uniq
      /\ \A d \in DOMAIN uniq \ {c} : uniq'[d] = uniq[d]
      /\ uniq'[c] \in CallStates
      /\ losses' \in 0 .. MaxLosses
  BY DEF UniqueStep, CallNow
<1>3. RowsKept(c) /\ CallTrue(c)
  BY DEF UniqueStep
<1>4. \A d \in DOMAIN uniq : d \in UniqueCalls /\ d[1] \in Ops
  BY <1>1, KeyOfCall
<1>5. /\ \A d \in DOMAIN uniq : d[1] \in {"skill", "area"} => KeyOf(d) \in Registered
      /\ \A d \in DOMAIN uniq : d[1] \in {"skill", "area", "crew"} => KeyOf(d) \in Lasting
      /\ "media_files" \in Lasting /\ "standings" \in Lasting
  BY <1>1, KeyOfCall DEF Registered, Lasting
<1>6. UniqueTypeOK'
  <2>1. DOMAIN row' = AllTables /\ (\A t \in AllTables : row'[t] \in RowValues)
    BY <1>3 DEF RowsKept
  <2>2. \A d \in DOMAIN uniq : uniq'[d] \in CallStates
    BY <1>1, <1>2
  <2>3. file' \subseteq UniqueCalls
    BY <1>3, <1>4 DEF RowsKept, UniqueTypeOK
  <2>4. job' = job
    BY DEF UniqueStep
  <2> QED
    BY <1>2, <2>1, <2>2, <2>3, <2>4, TablesAre DEF UniqueTypeOK, RowValues, CallStates
<1>7. StepsOfOps'
  BY <1>3 DEF CallTrue
<1>8. RegistrationsHoldTheirRow'
  <2>1. ASSUME NEW d \in DOMAIN uniq, uniq'[d].at \in {"flushed", "standing", "no standing"}
        PROVE  row'[KeyOf(d)] = [by |-> d, stored |-> FALSE]
    <3>1. CASE d = c
      BY <1>3, <2>1, <3>1 DEF CallTrue
    <3>2. CASE d # c
      <4>1. row[KeyOf(d)] = [by |-> d, stored |-> FALSE] /\ KeyOf(d) \in Registered
        BY <1>2, <1>5, <2>1, <3>2 DEF RegistrationsHoldTheirRow, StepsOfOps
      <4> QED
        BY <1>3, <1>4, <3>2, <4>1 DEF RowsKept
    <3> QED
      BY <3>1, <3>2
  <2> QED
    BY <1>2, <2>1 DEF RegistrationsHoldTheirRow, KeyOf
<1>9. StandingsSeenAreStored'
  <2>1. ASSUME NEW d \in DOMAIN uniq, uniq'[d].at = "standing"
        PROVE  row'["standings"].stored
    <3>1. CASE d = c
      BY <1>3, <2>1, <3>1 DEF CallTrue
    <3>2. CASE d # c
      BY <1>2, <1>3, <1>5, <2>1, <3>2 DEF StandingsSeenAreStored, RowsKept, Stored
    <3> QED
      BY <3>1, <3>2
  <2> QED
    BY <1>2, <2>1 DEF StandingsSeenAreStored, Stored
<1>10. StoredUploadHasFile'
  <2>1. ASSUME row'["media_files"].stored PROVE row'["media_files"].by \in file'
    <3>1. CASE row["media_files"].stored
      <4>1. row'["media_files"] = row["media_files"] /\ row["media_files"].by \in file
        BY <1>3, <1>5, <3>1 DEF RowsKept, StoredUploadHasFile, Stored
      <4> QED
        BY <1>3, <4>1 DEF RowsKept, AllTables
    <3>2. CASE ~row["media_files"].stored
      <4>1. row' # row
        BY <2>1, <3>2
      <4> QED
        BY <1>3, <2>1, <3>2, <4>1 DEF RowsKept
    <3> QED
      BY <3>1, <3>2
  <2> QED
    BY <2>1 DEF StoredUploadHasFile, Stored
<1>11. AnswersMatchRows'
  <2>1. ASSUME NEW d \in DOMAIN uniq, d[1] = "upload", uniq'[d].at = "ok"
        PROVE  row'["media_files"] = [by |-> uniq'[d].id, stored |-> TRUE] /\ uniq'[d].id \in file'
    <3>1. CASE d = c
      BY <1>3, <2>1, <3>1 DEF CallTrue
    <3>2. CASE d # c
      <4>1. uniq'[d].id = uniq[d].id /\ row["media_files"] = [by |-> uniq[d].id, stored |-> TRUE]
            /\ uniq[d].id \in file
        BY <1>2, <2>1, <3>2 DEF AnswersMatchRows
      <4>2. row["media_files"].by = uniq[d].id /\ row["media_files"].stored
        BY <4>1
      <4>3. row'["media_files"] = row["media_files"]
        BY <1>3, <1>5, <4>2 DEF RowsKept
      <4>4. uniq[d].id \in file'
        BY <1>3, <4>1, <4>2 DEF RowsKept, AllTables
      <4> QED
        BY <4>1, <4>3, <4>4
    <3> QED
      BY <3>1, <3>2
  <2>2. ASSUME NEW d \in DOMAIN uniq, d[1] \in {"skill", "area", "crew"}, uniq'[d].at = "refused"
        PROVE  row'[KeyOf(d)].stored
    <3>1. CASE d = c
      BY <1>3, <2>2, <3>1 DEF CallTrue
    <3>2. CASE d # c
      BY <1>2, <1>3, <1>5, <2>2, <3>2 DEF AnswersMatchRows, Stored, RowsKept
    <3> QED
      BY <3>1, <3>2
  <2> QED
    BY <1>2, <2>1, <2>2 DEF AnswersMatchRows, Stored, KeyOf
<1>12. RegisteredWorkersHaveStanding'
  <2>1. ASSUME NEW t \in Registered, row'[t].stored PROVE row'["standings"].stored
    BY <1>3, <1>5, <2>1 DEF RowsKept, RegisteredWorkersHaveStanding, Stored, Registered
  <2> QED
    BY <2>1 DEF RegisteredWorkersHaveStanding, Stored, Registered
<1> QED
  BY <1>6, <1>7, <1>8, <1>9, <1>10, <1>11, <1>12

LEMMA NextUniqueInv == UniqueInv /\ [UniqueNext]_uniqVars => UniqueInv'
<1> SUFFICES ASSUME UniqueInv, [UniqueNext]_uniqVars PROVE UniqueInv'
  OBVIOUS
<1>1. CASE \E c \in DOMAIN uniq : UniqueProgress(c) \/ LoseRequest(c)
  BY <1>1, UniqueStepCases, UniqueStepKeepsInv
<1>2. CASE MoveJob \/ UNCHANGED uniqVars
  <2>1. UNCHANGED <<row, file, uniq, losses>> /\ job' \in {"open", "booked", "completed"}
    BY <1>2 DEF MoveJob, uniqVars, UniqueInv, UniqueTypeOK
  <2> QED
    BY <2>1 DEF UniqueInv, UniqueTypeOK, StepsOfOps, RegistrationsHoldTheirRow,
                StandingsSeenAreStored, StoredUploadHasFile, AnswersMatchRows,
                RegisteredWorkersHaveStanding, Stored, KeyOf
<1> QED
  BY <1>1, <1>2 DEF UniqueNext

\* A registration holds its flushed row until it commits or fails, a standing
\* that was seen stays and the stored upload keeps its file: the inductive
\* invariant of the handlers that race for a unique key.
THEOREM UniqueInvariance == UniqueSpec => []UniqueInv
<1>1. UniqueInit => UniqueInv
  BY InitUniqueInv
<1>2. UniqueInv /\ [UniqueNext]_uniqVars => UniqueInv'
  BY NextUniqueInv
<1> QED
  BY <1>1, <1>2, PTL DEF UniqueSpec

\* What callers were told stays true: every answered upload names the one stored
\* row, whose file exists, and a skill, area or crew reported as there is there.
THEOREM UniqueAnswersMatchRows == UniqueSpec => []AnswersMatchRows
<1>1. UniqueInv => AnswersMatchRows
  BY DEF UniqueInv
<1> QED
  BY <1>1, UniqueInvariance, PTL

\* A worker with a stored skill or service area has a standing, however first
\* registrations overlap or die.
THEOREM UniqueRegisteredHaveStanding == UniqueSpec => []RegisteredWorkersHaveStanding
<1>1. UniqueInv => RegisteredWorkersHaveStanding
  BY DEF UniqueInv
<1> QED
  BY <1>1, UniqueInvariance, PTL

=============================================================================
