------------------------------- MODULE SignIn -------------------------------
(***************************************************************************)
(* Signing in with a one-time code and the account behind it, as the       *)
(* accounts app's router and GetOrCreatePersonByPhoneUseCase do it with    *)
(* APP_ENV=production (the development login /token answers 404 there).    *)
(*                                                                         *)
(* request_otp looks for a recent code and then inserts one; verify_otp    *)
(* loads the newest unverified code, writes attempts + 1 and perhaps       *)
(* verified_at, commits, and only then finds or creates the person, in a   *)
(* second transaction of the same request; update_users_me writes back the *)
(* entity get_current_user copied.  Requests overlap at every await.       *)
(*                                                                         *)
(* Time is counted in periods of five minutes: a code is valid in its      *)
(* first, expired in its second, and out of the ten-minute window after.   *)
(* Abstracted: the code itself (a guess is right or wrong), tokens, and    *)
(* the other profile fields, which behave as display_name.                 *)
(***************************************************************************)
EXTENDS Integers, FiniteSets

CONSTANTS
  Phones,
  AddressOf(_),      \* the client address a phone's requests come from
  MaxCodes,          \* bound: codes requested in one behaviour
  MaxAttempts,       \* 5 in the code
  MaxPerAddress,     \* 5 in the code
  MaxSignInSlots,    \* bound: requests open at the same time
  MaxCalls           \* bound: verifications and profile updates

ASSUME SignInAssumption ==
  /\ MaxCodes \in Nat /\ MaxCalls \in Nat
  /\ MaxAttempts \in Nat \ {0} /\ MaxPerAddress \in Nat \ {0}
  /\ MaxSignInSlots \in Nat \ {0}

VARIABLES
  code,         \* otp_requests, numbered by created_at
  person,       \* persons by their unique phone, or NoPerson
  call,         \* the request in each slot
  calls,        \* verifications and profile updates started so far
  signInSlots   \* slots in use: with one, requests are served one by one

signInVars == <<code, person, call, calls, signInSlots>>

Codes == 1 .. MaxCodes
Slots == 1 .. MaxSignInSlots

Roles == {"BUYER", "WORKER"}
NoCode == [state |-> "none"]
NoPerson == [role |-> "none"]
NoCall == [step |-> "idle"]

CodeRow ==
  [state : {"reserved", "stored"}, phone : Phones, age : 0 .. 2,
   attempts : 0 .. MaxAttempts, verified : BOOLEAN]

Person == [role : Roles, display_name : {"", "a"}, is_available : BOOLEAN]

CallRecord ==
  [step : {"requested"}, phone : Phones, code : Codes]
    \cup
  [step : {"tried", "verified", "unknown"}, phone : Phones, code : Codes, role : Roles,
   right : BOOLEAN, attempts : Nat]
    \cup
  [step : {"edited", "selected"}, phone : Phones, field : {"display_name", "is_available"},
   ent : Person, base : Person]

SignInTypeOK ==
  /\ code \in [Codes -> CodeRow \cup {NoCode}]
  /\ person \in [Phones -> Person \cup {NoPerson}]
  /\ call \in [Slots -> CallRecord \cup {NoCall}]
  /\ calls \in 0 .. MaxCalls
  /\ signInSlots \in Slots

SignInInit ==
  /\ code = [c \in Codes |-> NoCode]
  /\ person = [p \in Phones |-> NoPerson]
  /\ call = [s \in Slots |-> NoCall]
  /\ calls = 0
  /\ signInSlots \in Slots

----------------------------------------------------------------------------
(* What the queries see *)

StoredCodes == {c \in Codes : code[c].state = "stored"}

Unverified(phone) == {c \in StoredCodes : code[c].phone = phone /\ ~code[c].verified}

\* Mutation: the window is not looked at.
RecentWithoutWindow(phone) == Unverified(phone)

\* Unverified codes of the phone in the last ten minutes.
Recent(phone) == {c \in Unverified(phone) : code[c].age < 2}

OfAddress(phone) ==
  {c \in StoredCodes : code[c].age < 2 /\ AddressOf(code[c].phone) = AddressOf(phone)}

----------------------------------------------------------------------------
(* request_otp *)

Step(s, q) ==
  /\ call' = [call EXCEPT ![s] = q]
  /\ UNCHANGED signInSlots

Free(s) == s <= signInSlots /\ call[s] = NoCall

\* now, the recent code and the count (counted later it could only refuse
\* more); refused with 429 nothing changes.
RequestOtp(s, phone, c) ==
  /\ Free(s)
  /\ code[c] = NoCode
  /\ \A d \in Codes : d < c => code[d] # NoCode
  /\ Recent(phone) = {}
  /\ Cardinality(OfAddress(phone)) < MaxPerAddress
  /\ code' = [code EXCEPT ![c] = [state |-> "reserved", phone |-> phone, age |-> 0,
                                  attempts |-> 0, verified |-> FALSE]]
  /\ Step(s, [step |-> "requested", phone |-> phone, code |-> c])
  /\ UNCHANGED <<person, calls>>

StoreCode(s) ==
  /\ call[s].step = "requested"
  /\ code' = [code EXCEPT ![call[s].code].state = "stored"]
  /\ Step(s, NoCall)
  /\ UNCHANGED <<person, calls>>

----------------------------------------------------------------------------
(* verify_otp *)

\* Mutation: one attempt too many is allowed.
OneMoreTry(s, phone, c, right, role) ==
  /\ Free(s)
  /\ calls < MaxCalls
  /\ c \in Unverified(phone)
  /\ \A d \in Unverified(phone) : d <= c
  /\ code[c].age = 0
  /\ code[c].attempts <= MaxAttempts
  /\ calls' = calls + 1
  /\ Step(s, [step |-> "tried", phone |-> phone, code |-> c, role |-> role,
              right |-> right, attempts |-> code[c].attempts])
  /\ UNCHANGED <<code, person>>

\* The newest unverified code is loaded; expired or used up, 401 follows.
VerifyOtp(s, phone, c, right, role) ==
  /\ Free(s)
  /\ calls < MaxCalls
  /\ c \in Unverified(phone)
  /\ \A d \in Unverified(phone) : d <= c
  /\ code[c].age = 0
  /\ code[c].attempts < MaxAttempts
  /\ calls' = calls + 1
  /\ Step(s, [step |-> "tried", phone |-> phone, code |-> c, role |-> role,
              right |-> right, attempts |-> code[c].attempts])
  /\ UNCHANGED <<code, person>>

\* Mutation: the person is looked up whether or not the code matched.
CommitAnyAttempt(s) ==
  LET q == call[s] IN
  /\ q.step = "tried"
  /\ code' = [code EXCEPT ![q.code].attempts = q.attempts + 1,
                          ![q.code].verified = @ \/ q.right]
  /\ Step(s, [q EXCEPT !.step = "verified"])
  /\ UNCHANGED <<person, calls>>

\* attempts is written as loaded + 1; a wrong code ends with 401.
CommitAttempt(s) ==
  LET q == call[s] IN
  /\ q.step = "tried"
  /\ code' = [code EXCEPT ![q.code].attempts = q.attempts + 1,
                          ![q.code].verified = @ \/ q.right]
  /\ Step(s, IF q.right THEN [q EXCEPT !.step = "verified"] ELSE NoCall)
  /\ UNCHANGED <<person, calls>>

\* get_by_phone: an existing account is taken as it is.
FindPerson(s) ==
  LET q == call[s] IN
  /\ q.step = "verified"
  /\ Step(s, IF person[q.phone] = NoPerson THEN [q EXCEPT !.step = "unknown"] ELSE NoCall)
  /\ UNCHANGED <<code, person, calls>>

\* Mutation: create became an upsert.
UpsertPerson(s) ==
  LET q == call[s] IN
  /\ q.step = "unknown"
  /\ person' = [person EXCEPT ![q.phone] =
                  [role |-> q.role, display_name |-> "", is_available |-> TRUE]]
  /\ Step(s, NoCall)
  /\ UNCHANGED <<code, calls>>

\* persons.phone is unique: whoever comes second gets an IntegrityError, 500.
CreatePerson(s) ==
  LET q == call[s] IN
  /\ q.step = "unknown"
  /\ person' = IF person[q.phone] = NoPerson
                 THEN [person EXCEPT ![q.phone] =
                         [role |-> q.role, display_name |-> "", is_available |-> TRUE]]
                 ELSE person
  /\ Step(s, NoCall)
  /\ UNCHANGED <<code, calls>>

----------------------------------------------------------------------------
(* update_users_me *)

\* get_current_user copies the row; the named field is set on the copy, the
\* worker-only ones only for a worker.
UpdateMe(s, phone, field) ==
  /\ Free(s)
  /\ calls < MaxCalls
  /\ person[phone] # NoPerson
  /\ field = "is_available" => person[phone].role = "WORKER"
  /\ calls' = calls + 1
  /\ Step(s, [step |-> "edited", phone |-> phone, field |-> field, base |-> person[phone],
              ent |-> IF field = "display_name"
                        THEN [person[phone] EXCEPT !.display_name = "a"]
                        ELSE [person[phone] EXCEPT !.is_available = ~@]])
  /\ UNCHANGED <<code, person>>

\* update() selects the row again.
SelectMe(s) ==
  LET q == call[s] IN
  /\ q.step = "edited"
  /\ Step(s, [q EXCEPT !.step = "selected", !.base = person[q.phone]])
  /\ UNCHANGED <<code, person, calls>>

\* The columns in which the copy differs from the selected row are written.
SaveMe(s) ==
  LET q == call[s] IN
  /\ q.step = "selected"
  /\ person' = [person EXCEPT ![q.phone] =
       [f \in DOMAIN q.ent |-> IF q.ent[f] = q.base[f] THEN @[f] ELSE q.ent[f]]]
  /\ Step(s, NoCall)
  /\ UNCHANGED <<code, calls>>

----------------------------------------------------------------------------

\* Five minutes pass.
Tick ==
  /\ \E c \in Codes : code[c] # NoCode /\ code[c].age < 2
  /\ code' = [c \in Codes |->
       IF code[c] = NoCode \/ code[c].age = 2 THEN code[c] ELSE [code[c] EXCEPT !.age = @ + 1]]
  /\ UNCHANGED <<person, call, calls, signInSlots>>

\* The client goes away or the process dies; what is committed stays.
DropCall(s) ==
  /\ call[s] # NoCall
  /\ Step(s, NoCall)
  /\ UNCHANGED <<code, person, calls>>

SignInNext ==
  \/ \E s \in Slots :
       \/ \E p \in Phones, c \in Codes :
            \/ RequestOtp(s, p, c)
            \/ \E right \in BOOLEAN, role \in Roles : VerifyOtp(s, p, c, right, role)
       \/ \E p \in Phones, f \in {"display_name", "is_available"} : UpdateMe(s, p, f)
       \/ StoreCode(s)
       \/ CommitAttempt(s)
       \/ FindPerson(s)
       \/ CreatePerson(s)
       \/ SelectMe(s)
       \/ SaveMe(s)
       \/ DropCall(s)
  \/ Tick

SignInSpec == SignInInit /\ [][SignInNext]_signInVars

----------------------------------------------------------------------------
(* Properties *)

\* An account exists only for a phone that a code was verified for, also when
\* the first sign-ins of a phone overlap or die between the two transactions.
AccountsComeFromCodes ==
  \A p \in Phones : person[p] # NoPerson =>
    \E c \in StoredCodes : code[c].phone = p /\ code[c].verified

\* An existing account's role is authoritative: no later sign-in, however it
\* overlaps with the one that creates the account, and no profile update
\* changes it.
RoleIsKept ==
  [][\A p \in Phones : person[p] # NoPerson => person'[p].role = person[p].role]_signInVars

----------------------------------------------------------------------------
(* Why: what a request in flight knows *)

IsStoredFor(c, phone) == c \in StoredCodes /\ code[c].phone = phone

\* A request for a code has its row; a verification works on a stored code of
\* its phone, one within its attempts, and goes on only once it is verified.
CallsHaveCodes ==
  \A s \in Slots :
    LET q == call[s] IN
    /\ q.step = "requested" => code[q.code] # NoCode
    /\ q.step = "tried" => IsStoredFor(q.code, q.phone) /\ q.attempts < MaxAttempts
    /\ q.step \in {"verified", "unknown"} =>
         IsStoredFor(q.code, q.phone) /\ code[q.code].verified

\* A profile update works on an account that exists, and on its role.
EditsKeepRole ==
  \A s \in Slots :
    LET q == call[s] IN
    q.step \in {"edited", "selected"} =>
      /\ person[q.phone] # NoPerson
      /\ q.ent.role = person[q.phone].role
      /\ q.base.role = person[q.phone].role

\* The inductive invariant behind the properties of signing in.
SignInInv ==
  /\ SignInTypeOK
  /\ CallsHaveCodes
  /\ EditsKeepRole
  /\ AccountsComeFromCodes

----------------------------------------------------------------------------

\* A phone that is refused a code is not refused forever.
LockoutEnds == \A p \in Phones : []<>(Recent(p) = {})

=============================================================================
