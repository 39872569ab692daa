------------------------------ MODULE Captures ------------------------------
(***************************************************************************)
(* What the capture list promises to whoever looks at it, whichever part   *)
(* of the proxy writes it: a request is listed when it begins and never    *)
(* again, and its first outcome, reported while it is listed, is the only  *)
(* one.  ProxyEngine and Tunnel implement it.                              *)
(***************************************************************************)
CONSTANT Keys    \* whatever can be captured

VARIABLES
  listed,        \* the captures in the list
  outcome        \* "absent" before a request begins, then "pending", then its outcome

Init ==
  /\ listed = {}
  /\ outcome = [k \in Keys |-> "absent"]

\* A full list makes room.
Begin(k) ==
  /\ outcome[k] = "absent"
  /\ outcome' = [outcome EXCEPT ![k] = "pending"]
  /\ \E kept \in SUBSET listed : listed' = kept \cup {k}

Finish(k) ==
  /\ k \in listed
  /\ outcome[k] = "pending"
  /\ \E result \in {"complete", "error"} : outcome' = [outcome EXCEPT ![k] = result]
  /\ UNCHANGED listed

\* Clear, and a new run that keeps less.
Forget ==
  /\ listed' \in SUBSET listed
  /\ UNCHANGED outcome

Next == Forget \/ \E k \in Keys : Begin(k) \/ Finish(k)

Spec == Init /\ [][Next]_<<listed, outcome>>
=============================================================================
