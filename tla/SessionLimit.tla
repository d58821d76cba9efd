---------------------------- MODULE SessionLimit ----------------------------
(***************************************************************************)
(* What the session registry promises, with no goroutine, registry or      *)
(* handshake in sight: sessions open one at a time under the limit of      *)
(* their user, close at any time, and all close at once when the           *)
(* configuration, and with it the limits, is replaced.                     *)
(***************************************************************************)
EXTENDS Naturals, FiniteSets

CONSTANTS Conns, Logins, Gone   \* Gone: the limit of a login that is not configured

VARIABLES live,    \* the open sessions of each login
          limit    \* how many it may have; 0 means any number

Init ==
  /\ live = [l \in Logins |-> {}]
  /\ limit \in [Logins -> Nat \cup {Gone}]

Open(l, c) ==
  /\ limit[l] # Gone
  /\ limit[l] = 0 \/ Cardinality(live[l]) < limit[l]
  /\ \A m \in Logins : c \notin live[m]
  /\ live' = [live EXCEPT ![l] = @ \cup {c}]
  /\ UNCHANGED limit

Close(l, c) ==
  /\ c \in live[l]
  /\ live' = [live EXCEPT ![l] = @ \ {c}]
  /\ UNCHANGED limit

Reconfigure ==
  /\ live' = [l \in Logins |-> {}]
  /\ limit' \in [Logins -> Nat \cup {Gone}]

Next ==
  \/ \E l \in Logins, c \in Conns : Open(l, c) \/ Close(l, c)
  \/ Reconfigure

Spec == Init /\ [][Next]_<<live, limit>>
=============================================================================
