------------------------------- MODULE Escrow -------------------------------
(***************************************************************************)
(* What the ledger promises of a job's money, whatever the requests do:    *)
(* deposits are held and balances committed at any time, money leaves once *)
(* and never more than was put in, and nothing is ever taken back off the  *)
(* books.                                                                  *)
(***************************************************************************)
EXTENDS Integers

CONSTANT Jobs

VARIABLES
  held,       \* sum of a job's DEPOSIT_HELD entries
  committed,  \* sum of its BALANCE_COMMITTED entries
  released    \* sum of its RELEASED entries

Zero == [j \in Jobs |-> 0]

Init == held = Zero /\ committed = Zero /\ released = Zero

\* Only account[j] moves, and it grows.
Grows(account, after, j) ==
  /\ after[j] > account[j]
  /\ after = [account EXCEPT ![j] = after[j]]

Hold(j) == Grows(held, held', j) /\ UNCHANGED <<committed, released>>

Commit(j) == Grows(committed, committed', j) /\ UNCHANGED <<held, released>>

Release(j) ==
  /\ released[j] = 0
  /\ Grows(released, released', j)
  /\ released'[j] <= held[j] + committed[j]
  /\ UNCHANGED <<held, committed>>

Next == \E j \in Jobs : Hold(j) \/ Commit(j) \/ Release(j)

Spec == Init /\ [][Next]_<<held, committed, released>>

=============================================================================
