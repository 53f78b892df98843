----------------------------- MODULE MCServices -----------------------------
(***************************************************************************)
(* The services around the job for TLC.  They share no state, so a         *)
(* behaviour exercises one of them (part) and leaves the others at rest    *)
(* in one of their initial states.                                         *)
(***************************************************************************)
EXTENDS Vetting, CrewOrders, Matching, Chat, SignIn, UniqueRows, TLC

CONSTANTS
  vs, vt, vw,        \* vetting: a senior, a registered worker, a newcomer
  mv, mw, mx,        \* matching: workers
  ca, cb             \* matching: crews

VARIABLE part

vars == <<part, vetVars, crewVars, matchVars, chatVars, signInVars, uniqVars>>

----------------------------------------------------------------------------
(* Values of the constants *)

Vet(op, worker, by) == [op |-> op, worker |-> worker, by |-> by]

\* vw becomes senior by vs's vouch and vouches for vt; statistics and a photo
\* are saved at the same time.
Plan ==
  {Vet("Register", vw, vw), Vet("Photo", vw, vw), Vet("Reference", vw, vw),
   Vet("Vouch", vw, vs), Vet("Vouch", vt, vw), Vet("Vouch", vt, vs),
   Vet("Stats", vw, vw), Vet("Photo", vs, vs)}

\* Between the suburbs every distance band occurs.
KmTable ==
  [near |-> [near |-> 0, mid |-> 2, edge |-> 8, out |-> 5],
   mid  |-> [near |-> 2, mid |-> 0, edge |-> 9, out |-> 4],
   edge |-> [near |-> 8, mid |-> 9, edge |-> 0, out |-> 3],
   out  |-> [near |-> 5, mid |-> 4, edge |-> 3, out |-> 0]]

KmOf(a, b) == KmTable[a][b]

Worker(trade, areas, home, standing, busy, available, travel_km) ==
  [trades |-> {trade}, areas |-> areas, home |-> home, standing |-> standing,
   busy |-> busy, available |-> available, travel_km |-> travel_km]

Standing(on_time, dispute, fill, rank) ==
  [row |-> "row", on_time |-> on_time, dispute |-> dispute, fill |-> fill, rank |-> rank]

NewWorker == Worker("PLUMBING", {"near"}, {}, NoStanding, FALSE, TRUE, 50)

ProfileSet ==
  {NewWorker,
   Worker("PLUMBING", {"edge", "mid"}, {"near"}, Standing(100, 0, 0, 3), FALSE, TRUE, 50),
   Worker("PLUMBING", {}, {"out"}, Standing(50, 50, 50, 0), FALSE, TRUE, 4),
   Worker("PLUMBING", {"edge"}, {"near"}, NoStanding, FALSE, TRUE, 50),
   Worker("PLUMBING", {"near"}, {}, NoStanding, TRUE, TRUE, 50),
   Worker("PLUMBING", {"mid"}, {}, NoStanding, FALSE, FALSE, 50),
   Worker("TILING", {"near"}, {}, NoStanding, FALSE, TRUE, 50)}

OpenJobSet ==
  {[trade |-> "PLUMBING", suburb |-> "near", urgent_rank |-> 2, created |-> 3],
   [trade |-> "PLUMBING", suburb |-> "mid", urgent_rank |-> 0, created |-> 2],
   [trade |-> "PLUMBING", suburb |-> "out", urgent_rank |-> 0, created |-> 1]}

RosterSet ==
  {(ca :> [members |-> {mv, mw}, busy |-> FALSE] @@ cb :> [members |-> {mx}, busy |-> b]) :
     b \in BOOLEAN}

\* All phones call from one address.
OneAddress(p) == "address"

Mixes ==
  {{},
   {<<"upload", 1>>, <<"upload", 2>>},
   {<<"review", 1>>, <<"review", 2>>},
   {<<"skill", 1>>, <<"skill", 2>>, <<"area", 1>>},
   {<<"offer", 1>>, <<"offer", 2>>, <<"skill", 1>>},
   {<<"crew", 1>>, <<"crew", 2>>, <<"member", 1>>},
   {<<"member", 1>>, <<"member", 2>>, <<"remove", 1>>, <<"remove", 2>>},
   {<<"config", 1>>, <<"config", 2>>}}

----------------------------------------------------------------------------

Parts == {"vetting", "crew orders", "matching", "chat", "sign-in", "unique rows"}

Init ==
  /\ part \in Parts
  /\ VettingInit /\ (part = "vetting" \/ vetApart)
  /\ CrewInit /\ (part = "crew orders" \/ crewApart)
  /\ MatchingInit
  /\ \/ part = "matching"
     \/ /\ \A w \in MatchWorkers : profile[w] = NewWorker
        /\ \A c \in MatchCrews : ~roster[c].busy
        /\ bidders = {}
  /\ ChatInit
  /\ SignInInit /\ (part = "sign-in" \/ signInSlots = 1)
  /\ UniqueInit
  /\ \/ part = "unique rows"
     \/ DOMAIN uniq = {} /\ ~Stored("skills")

Rest(others) == UNCHANGED <<part, others>>

Next ==
  \/ /\ part = "vetting"
     /\ VettingNext
     /\ Rest(<<crewVars, matchVars, chatVars, signInVars, uniqVars>>)
  \/ /\ part = "crew orders"
     /\ CrewNext
     /\ Rest(<<vetVars, matchVars, chatVars, signInVars, uniqVars>>)
  \/ /\ part = "matching"
     /\ MatchingNext
     /\ Rest(<<vetVars, crewVars, chatVars, signInVars, uniqVars>>)
  \/ /\ part = "chat"
     /\ ChatNext
     /\ Rest(<<vetVars, crewVars, matchVars, signInVars, uniqVars>>)
  \/ /\ part = "sign-in"
     /\ SignInNext
     /\ Rest(<<vetVars, crewVars, matchVars, chatVars, uniqVars>>)
  \/ /\ part = "unique rows"
     /\ UniqueNext
     /\ Rest(<<vetVars, crewVars, matchVars, chatVars, signInVars>>)

\* The server goes on with some request that can go on, clients try again, and
\* time passes.
Progress ==
  \/ /\ part = "vetting"
     /\ \E r \in VetRequests : VetProgress(r)
     /\ Rest(<<crewVars, matchVars, chatVars, signInVars, uniqVars>>)
  \/ /\ part = "crew orders"
     /\ \E r \in CrewRequests : CrewProgress(r)
     /\ Rest(<<vetVars, matchVars, chatVars, signInVars, uniqVars>>)
  \/ /\ part = "sign-in"
     /\ Tick
     /\ Rest(<<vetVars, crewVars, matchVars, chatVars, uniqVars>>)
  \/ /\ part = "unique rows"
     /\ \E c \in DOMAIN uniq : UniqueProgress(c)
     /\ Rest(<<vetVars, crewVars, matchVars, chatVars, signInVars>>)

\* The poll's interval timer, and the network's answer to a fetch.
PollFires ==
  /\ part = "chat"
  /\ Poll
  /\ Rest(<<vetVars, crewVars, matchVars, signInVars, uniqVars>>)

PageComes ==
  /\ part = "chat"
  /\ PageArrives
  /\ Rest(<<vetVars, crewVars, matchVars, signInVars, uniqVars>>)

Spec ==
  /\ Init
  /\ [][Next]_vars
  /\ WF_vars(Progress)
  /\ WF_vars(PollFires)
  /\ WF_vars(PageComes)

\* The inductive invariant of every service, its types included: what the
\* proofs about the services start from.
ServicesInv ==
  /\ VettingInv
  /\ CrewInv
  /\ MatchingInv
  /\ ChatInv
  /\ SignInInv
  /\ UniqueInv

=============================================================================
