----------------------------- MODULE JobContract -----------------------------
(***************************************************************************)
(* The life of a job as buyer and worker are told it goes: one step per    *)
(* row of the lifecycle and dispute tables, each with the money that moves *)
(* in it.                                                                  *)
(***************************************************************************)
EXTENDS Integers

CONSTANTS Jobs, Workers, NoWorker, Deposits, Quotes

VARIABLES
  status,     \* the stage each job is in
  worker,     \* who does it
  held,       \* deposit taken from the buyer
  committed,  \* balance committed on top of it
  released    \* what the worker was paid

vars == <<status, worker, held, committed, released>>

Active == {"BOOKED", "IN_PROGRESS", "DISPUTED"}

Free(w) == \A j \in Jobs : worker[j] = w => status[j] \notin Active

Init ==
  /\ status = [j \in Jobs |-> "ABSENT"]
  /\ worker = [j \in Jobs |-> NoWorker]
  /\ held = [j \in Jobs |-> 0]
  /\ committed = [j \in Jobs |-> 0]
  /\ released = [j \in Jobs |-> 0]

Move(j, from, to) ==
  /\ status[j] = from
  /\ status' = [status EXCEPT ![j] = to]

Post(j) ==
  /\ Move(j, "ABSENT", "REQUESTED")
  /\ UNCHANGED <<worker, held, committed, released>>

Match(j) ==
  /\ Move(j, "REQUESTED", "MATCHED")
  /\ UNCHANGED <<worker, held, committed, released>>

\* Engage takes the worker whether free or not.
Engage(j, w, deposit) ==
  /\ Move(j, "MATCHED", "BOOKED")
  /\ worker' = [worker EXCEPT ![j] = w]
  /\ held' = [held EXCEPT ![j] = deposit]
  /\ UNCHANGED <<committed, released>>

Book(j, w, deposit) == Free(w) /\ Engage(j, w, deposit)

Quote(j, quote) ==
  /\ quote > held[j]
  /\ Move(j, "BOOKED", "IN_PROGRESS")
  /\ committed' = [committed EXCEPT ![j] = quote - held[j]]
  /\ UNCHANGED <<worker, held, released>>

\* The worker gets everything the buyer put in: no cent stays behind.
SignOff(j) ==
  /\ Move(j, "IN_PROGRESS", "COMPLETED")
  /\ released' = [released EXCEPT ![j] = held[j] + committed[j]]
  /\ UNCHANGED <<worker, held, committed>>

\* Money freezes: a dispute moves none.
Dispute(j) ==
  /\ Move(j, "IN_PROGRESS", "DISPUTED")
  /\ UNCHANGED <<worker, held, committed, released>>

Answer(j) ==
  /\ Move(j, "DISPUTED", "IN_PROGRESS")
  /\ UNCHANGED <<worker, held, committed, released>>

Next ==
  \E j \in Jobs :
    \/ Post(j) \/ Match(j) \/ SignOff(j) \/ Dispute(j) \/ Answer(j)
    \/ \E w \in Workers, deposit \in Deposits : Book(j, w, deposit)
    \/ \E quote \in Quotes : Quote(j, quote)

Spec == Init /\ [][Next]_vars

\* The same life of each job, without the promise about its worker's others.
JobNext ==
  \E j \in Jobs :
    \/ Post(j) \/ Match(j) \/ SignOff(j) \/ Dispute(j) \/ Answer(j)
    \/ \E w \in Workers, deposit \in Deposits : Engage(j, w, deposit)
    \/ \E quote \in Quotes : Quote(j, quote)

JobSpec == Init /\ [][JobNext]_vars

=============================================================================
