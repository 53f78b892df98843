----------------------------- MODULE UniqueRows -----------------------------
(***************************************************************************)
(* The handlers that store a row under a unique key and rely on the        *)
(* database to decide between two of them: media uploads (idempotency      *)
(* key), reviews (job), offers (job and worker), skills and service areas  *)
(* (worker and trade or suburb) with the worker's standing, crews (lead),  *)
(* crew members, and the payment gateway's configuration (provider).       *)
(*                                                                         *)
(* One key of each table is followed, and one job with its worker.  A      *)
(* handler that flushes and commits one row is one step from its INSERT    *)
(* on: a second INSERT of the key waits for that commit.  A registration   *)
(* keeps its flushed row for itself until it commits, with or without the  *)
(* standing it looked for in between.                                      *)
(*                                                                         *)
(* A caller whose request fails or whose answer is lost calls again, with  *)
(* the same key (the mobile outbox does so with an upload).  Abstracted:   *)
(* the checks of type and size of an upload, and the columns of the rows,  *)
(* which are the call that wrote them.                                     *)
(***************************************************************************)
EXTENDS Naturals, FiniteSets

CONSTANTS
  UniqueMixes,       \* sets of calls made in one behaviour
  MaxLosses          \* bound: requests that die and answers that are lost

Tables ==
  [upload |-> "media_files", review |-> "reviews", offer |-> "job_offers",
   skill |-> "skills", area |-> "service_areas", crew |-> "crews",
   member |-> "crew_members", remove |-> "crew_members",
   config |-> "payment_gateway_configs", standing |-> "standings"]

Ops == DOMAIN Tables \ {"standing"}
UniqueCalls == Ops \X (1 .. 2)

ASSUME UniqueAssumption ==
  /\ UniqueMixes \subseteq SUBSET UniqueCalls
  /\ MaxLosses \in Nat

VARIABLES
  row,      \* the row under each table's key: Absent, flushed, or stored
  file,     \* the media ids whose file is written
  job,      \* the job's way from open to completed, with this worker
  uniq,     \* where each call is and what it was answered
  losses    \* requests that died and answers that were lost

uniqVars == <<row, file, job, uniq, losses>>

Absent == [by |-> <<"nobody", 0>>, stored |-> FALSE]
Earlier == [by |-> <<"earlier", 0>>, stored |-> TRUE]

Waiting == {"checked", "missed", "found", "flushed", "no standing", "standing"}
Answers == {"ok", "refused"}

UniqueTypeOK ==
  /\ DOMAIN row = {Tables[o] : o \in DOMAIN Tables}
  /\ \A t \in DOMAIN row :
       row[t] \in {Absent, Earlier} \cup [by : UniqueCalls, stored : BOOLEAN]
  /\ file \subseteq UniqueCalls
  /\ job \in {"open", "booked", "completed"}
  /\ DOMAIN uniq \in UniqueMixes
  /\ \A c \in DOMAIN uniq :
       uniq[c] \in [at : {"idle", "failed"} \cup Waiting \cup Answers,
                   id : {Absent.by, Earlier.by} \cup UniqueCalls]
  /\ losses \in 0 .. MaxLosses

\* Either nothing is stored yet or the worker is known and leads a crew.
UniqueInit ==
  /\ row \in {[t \in {Tables[o] : o \in DOMAIN Tables} |-> IF t \in seen THEN Earlier ELSE Absent] :
                seen \in {{}, {"skills", "standings", "crews"}}}
  /\ file = {}
  /\ job = "open"
  /\ \E mix \in UniqueMixes :
       uniq = [c \in mix |-> [at |-> "idle", id |-> Absent.by]]
  /\ losses = 0

----------------------------------------------------------------------------

Stored(t) == row[t].stored
KeyOf(c) == Tables[c[1]]

Go(c, at) ==
  /\ uniq' = [uniq EXCEPT ![c].at = at]
  /\ UNCHANGED losses

\* The answer may be lost on its way; the caller then knows of a failure.
Answer(c, at, id) ==
  \/ /\ uniq' = [uniq EXCEPT ![c] = [at |-> at, id |-> id]]
     /\ UNCHANGED losses
  \/ /\ losses < MaxLosses
     /\ losses' = losses + 1
     /\ uniq' = [uniq EXCEPT ![c].at = "failed"]

Put(t, r) == row' = [row EXCEPT ![t] = r]

\* An INSERT under the key waits while another transaction holds the row.
CanInsert(t) == row[t] = Absent \/ Stored(t)

----------------------------------------------------------------------------
(* The first reads of a request *)

\* Mutation: the upload does not look for its key.
UploadAnew(c) ==
  /\ c[1] = "upload"
  /\ uniq[c].at = "idle"
  /\ Go(c, "missed")
  /\ UNCHANGED <<row, file, job>>

\* upload_media answers with the row that is there already.
LookUpUpload(c) ==
  /\ c[1] = "upload"
  /\ uniq[c].at = "idle"
  /\ IF Stored(KeyOf(c)) THEN Answer(c, "ok", row[KeyOf(c)].by) ELSE Go(c, "missed")
  /\ UNCHANGED <<row, file, job>>

\* A review wants a completed job; an offer an open one, the skill, and a
\* worker who is not busy.
CheckJob(c) ==
  /\ uniq[c].at = "idle"
  /\ \/ /\ c[1] = "review"
        /\ IF job = "completed" THEN Go(c, "checked") ELSE Answer(c, "refused", uniq[c].id)
     \/ /\ c[1] = "offer"
        /\ IF job = "open" /\ Stored("skills")
             THEN Go(c, "checked")
             ELSE Answer(c, "refused", uniq[c].id)
  /\ UNCHANGED <<row, file, job>>

\* A second review is refused; an offer or a configuration is revised.
LookUpKey(c) ==
  /\ \/ uniq[c].at = "checked"
     \/ c[1] = "config" /\ uniq[c].at = "idle"
  /\ IF ~Stored(KeyOf(c))
       THEN Go(c, "missed")
       ELSE IF c[1] = "review" THEN Answer(c, "refused", uniq[c].id) ELSE Go(c, "found")
  /\ UNCHANGED <<row, file, job>>

\* remove_member: the crew and the membership, or 404.
LookUpMember(c) ==
  /\ c[1] = "remove"
  /\ uniq[c].at = "idle"
  /\ IF Stored("crews") /\ Stored("crew_members")
       THEN Go(c, "found")
       ELSE Answer(c, "refused", uniq[c].id)
  /\ UNCHANGED <<row, file, job>>

----------------------------------------------------------------------------
(* The write *)

\* upload_media writes the file under a new id first.
WriteFile(c) ==
  /\ c[1] = "upload"
  /\ uniq[c].at = "missed"
  /\ c \notin file
  /\ file' = file \cup {c}
  /\ Go(c, "missed")
  /\ UNCHANGED <<row, job>>

\* Mutation: the index on the key is missing, so the later row is the one found.
InsertTwice(c) ==
  /\ uniq[c].at = "missed"
  /\ c[1] = "upload" => c \in file
  /\ CanInsert(KeyOf(c))
  /\ Put(KeyOf(c), [by |-> c, stored |-> TRUE])
  /\ Answer(c, "ok", c)
  /\ UNCHANGED <<file, job>>

\* The IntegrityError of an upload, a review, an offer or a configuration is
\* caught by nobody: 500.
InsertMissing(c) ==
  /\ uniq[c].at = "missed"
  /\ c[1] = "upload" => c \in file
  /\ CanInsert(KeyOf(c))
  /\ IF Stored(KeyOf(c))
       THEN Go(c, "failed") /\ UNCHANGED row
       ELSE Put(KeyOf(c), [by |-> c, stored |-> TRUE]) /\ Answer(c, "ok", c)
  /\ UNCHANGED <<file, job>>

\* An offer or a configuration that was found is overwritten, a membership
\* deleted (a DELETE that finds no row any more is no error).
WriteFound(c) ==
  /\ uniq[c].at = "found"
  /\ c[1] \in {"offer", "config", "remove"}
  /\ Put(KeyOf(c), IF c[1] = "remove" THEN Absent ELSE [by |-> c, stored |-> TRUE])
  /\ Answer(c, "ok", c)
  /\ UNCHANGED <<file, job>>

\* create_crew and add_member insert at once; a row that is there is a 409, and
\* so is (as 404) a lead without a crew.
InsertOrRefuse(c) ==
  /\ c[1] \in {"crew", "member"}
  /\ uniq[c].at = "idle"
  /\ CanInsert(KeyOf(c))
  /\ IF Stored(KeyOf(c)) \/ (c[1] = "member" /\ ~Stored("crews"))
       THEN Answer(c, "refused", uniq[c].id) /\ UNCHANGED row
       ELSE Put(KeyOf(c), [by |-> c, stored |-> TRUE]) /\ Answer(c, "ok", c)
  /\ UNCHANGED <<file, job>>

\* register_skill and register_service_area flush their row.
FlushRegistration(c) ==
  /\ c[1] \in {"skill", "area"}
  /\ uniq[c].at = "idle"
  /\ CanInsert(KeyOf(c))
  /\ IF Stored(KeyOf(c))
       THEN Answer(c, "refused", uniq[c].id) /\ UNCHANGED row
       ELSE Put(KeyOf(c), [by |-> c, stored |-> FALSE]) /\ Go(c, "flushed")
  /\ UNCHANGED <<file, job>>

\* standings.ensure selects the worker's standing.
EnsureStanding(c) ==
  /\ uniq[c].at = "flushed"
  /\ Go(c, IF Stored("standings") THEN "standing" ELSE "no standing")
  /\ UNCHANGED <<row, file, job>>

\* Mutation: the registration is committed before its standing is added.
CommitWithoutStanding(c) ==
  /\ uniq[c].at \in {"standing", "no standing"}
  /\ Put(KeyOf(c), [by |-> c, stored |-> TRUE])
  /\ Answer(c, "ok", c)
  /\ UNCHANGED <<file, job>>

\* The commit inserts the standing if none was seen.  Another registration of
\* the worker may have been faster: nothing of this one is then stored, and the
\* 409 with the database's text tells the caller to try again.
CommitRegistration(c) ==
  /\ uniq[c].at \in {"standing", "no standing"}
  /\ IF uniq[c].at = "no standing" /\ Stored("standings")
       THEN Put(KeyOf(c), Absent) /\ Go(c, "failed")
       ELSE /\ row' = [row EXCEPT ![KeyOf(c)] = [by |-> c, stored |-> TRUE],
                                  !["standings"] = IF Stored("standings") THEN @
                                                   ELSE [by |-> c, stored |-> TRUE]]
            /\ Answer(c, "ok", c)
  /\ UNCHANGED <<file, job>>

----------------------------------------------------------------------------

\* A request dies: its transaction is rolled back, its file stays.
LoseRequest(c) ==
  /\ uniq[c].at \in Waiting
  /\ losses < MaxLosses
  /\ losses' = losses + 1
  /\ row' = [t \in DOMAIN row |->
               IF row[t].by = c /\ ~Stored(t) THEN Absent ELSE row[t]]
  /\ uniq' = [uniq EXCEPT ![c].at = "failed"]
  /\ UNCHANGED <<file, job>>

\* The caller tries again.  The next attempt has an id of its own; a file that
\* no row names is nobody's and forgotten here.
Retry(c) ==
  /\ uniq[c].at = "failed"
  /\ file' = IF \E t \in DOMAIN row : row[t].by = c THEN file ELSE file \ {c}
  /\ Go(c, "idle")
  /\ UNCHANGED <<row, job>>

\* The job is booked with this worker and completed (module QuickHire).
MoveJob ==
  /\ job # "completed"
  /\ job' = IF job = "open" THEN "booked" ELSE "completed"
  /\ UNCHANGED <<row, file, uniq, losses>>

UniqueProgress(c) ==
  \/ LookUpUpload(c)
  \/ CheckJob(c)
  \/ LookUpKey(c)
  \/ LookUpMember(c)
  \/ WriteFile(c)
  \/ InsertMissing(c)
  \/ WriteFound(c)
  \/ InsertOrRefuse(c)
  \/ FlushRegistration(c)
  \/ EnsureStanding(c)
  \/ CommitRegistration(c)
  \/ Retry(c)

UniqueNext ==
  \/ \E c \in DOMAIN uniq : UniqueProgress(c) \/ LoseRequest(c)
  \/ MoveJob

UniqueSpec == UniqueInit /\ [][UniqueNext]_uniqVars

----------------------------------------------------------------------------
(* Properties *)

\* What callers were told is true, whoever raced with them: all uploads under
\* one key that were answered name the one stored row and its file exists, and
\* whoever was told that a skill or a crew is there already finds it there.
AnswersMatchRows ==
  \A c \in DOMAIN uniq :
    /\ c[1] = "upload" /\ uniq[c].at = "ok" =>
         row["media_files"] = [by |-> uniq[c].id, stored |-> TRUE] /\ uniq[c].id \in file
    /\ c[1] \in {"skill", "area", "crew"} /\ uniq[c].at = "refused" => Stored(KeyOf(c))

\* A worker with a committed skill or service area has a standing, however two
\* first registrations overlap or die on the way.
RegisteredWorkersHaveStanding ==
  Stored("skills") \/ Stored("service_areas") => Stored("standings")

----------------------------------------------------------------------------
(* Why: what a request has in hand *)

\* Only these handlers get to these steps.
StepsOfOps ==
  \A c \in DOMAIN uniq :
    /\ uniq[c].at = "checked" => c[1] \in {"review", "offer"}
    /\ uniq[c].at = "missed" => c[1] \in {"upload", "review", "offer", "config"}
    /\ uniq[c].at = "found" => c[1] \in {"offer", "config", "remove"}
    /\ uniq[c].at \in {"flushed", "standing", "no standing"} => c[1] \in {"skill", "area"}

\* A registration holds its flushed row until it commits or fails.
RegistrationsHoldTheirRow ==
  \A c \in DOMAIN uniq :
    uniq[c].at \in {"flushed", "standing", "no standing"} =>
      row[KeyOf(c)] = [by |-> c, stored |-> FALSE]

\* A standing that was seen is stored: nothing removes it.
StandingsSeenAreStored ==
  \A c \in DOMAIN uniq : uniq[c].at = "standing" => Stored("standings")

\* The file of the stored upload is there and stays.
StoredUploadHasFile == Stored("media_files") => row["media_files"].by \in file

\* The inductive invariant behind the properties of the unique rows.
UniqueInv ==
  /\ UniqueTypeOK
  /\ StepsOfOps
  /\ RegistrationsHoldTheirRow
  /\ StandingsSeenAreStored
  /\ StoredUploadHasFile
  /\ AnswersMatchRows
  /\ RegisteredWorkersHaveStanding

----------------------------------------------------------------------------

\* A caller who keeps trying with the same key is answered in the end: no
\* request that lost a race leaves the key in a state in which every later
\* attempt fails again.
UniqueCallsSettle == []<>(\A c \in DOMAIN uniq : uniq[c].at \in Answers)

=============================================================================
