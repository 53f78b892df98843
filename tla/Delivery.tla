------------------------------ MODULE Delivery ------------------------------
(* What the worker's phone promises about work done without signal: a thing  *)
(* saved on the phone stays there until the backend has it or has refused it *)
(* (mobile/README.md, "Working offline"). An item is called sent only when   *)
(* the backend stores it, and a refused one can be tried again.              *)
CONSTANT Items                  \* things the worker may save

VARIABLES status,               \* "NONE" until saved, then as the phone shows it
          stored                \* the saved items the backend has

vars == <<status, stored>>

Init ==
  /\ status = [i \in Items |-> "NONE"]
  /\ stored = {}

\* Saved on the phone. The backend may have it already from somewhere else.
Save(i) ==
  /\ status[i] = "NONE"
  /\ status' = [status EXCEPT ![i] = "PENDING"]
  /\ stored' \in {stored, stored \cup {i}}

\* The backend stores saved items; nothing takes them away again.
Store ==
  /\ \E S \in SUBSET {i \in Items : status[i] # "NONE"} : stored' = stored \cup S
  /\ UNCHANGED status

Deliver(i) ==
  /\ status[i] = "PENDING"
  /\ i \in stored
  /\ status' = [status EXCEPT ![i] = "COMPLETED"]
  /\ UNCHANGED stored

Refuse(i) ==
  /\ status[i] = "PENDING"
  /\ status' = [status EXCEPT ![i] = "FAILED"]
  /\ UNCHANGED stored

TryAgain(i) ==
  /\ status[i] = "FAILED"
  /\ status' = [status EXCEPT ![i] = "PENDING"]
  /\ UNCHANGED stored

Next ==
  \/ Store
  \/ \E i \in Items : Save(i) \/ Deliver(i) \/ Refuse(i) \/ TryAgain(i)

Spec == Init /\ [][Next]_vars
=============================================================================
