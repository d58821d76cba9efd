-------------------------- MODULE AdminTokenProofs --------------------------
(***************************************************************************)
(* Proofs about AdminToken, for any number of requests and logins.         *)
(***************************************************************************)
EXTENDS AdminToken, TLAPS

-----------------------------------------------------------------------------
(* A writer of the token and the reads that overlap it.                    *)
LEMMA SetTokenEffect ==
  ASSUME TypeOK, NEW t, NEW w \in Reqs, SetToken(t, [pc EXCEPT ![w] = "idle"]),
         pc[w] # "authorized"
  PROVE  /\ token' = t
         /\ pc'[w] = "idle" /\ saved'[w] = Unset
         /\ \A r \in Reqs \ {w} :
              \/ pc'[r] = pc[r] /\ saved'[r] = saved[r]
              \/ pc[r] = "authorized" /\ pc'[r] = "posting" /\ saved'[r] = Torn
         /\ saved' \in [Reqs -> issued \cup {NoToken, Torn, Unset}]
         /\ pc' \in [Reqs -> {"idle", "login", "granted", "authorized", "posting", "restoring"}]
<1> DEFINE step == [pc EXCEPT ![w] = "idle"]
<1>1. PICK T \in TornReaders(t) :
        /\ saved' = [r \in Reqs |-> IF r \in T THEN Torn
                                    ELSE IF step[r] = "idle" THEN Unset ELSE saved[r]]
        /\ pc'    = [r \in Reqs |-> IF r \in T THEN "posting" ELSE step[r]]
  BY DEF SetToken
<1>2. T \subseteq {r \in Reqs : pc[r] = "authorized"}
  BY DEF TornReaders
<1>3. /\ step[w] = "idle" /\ w \notin T
      /\ \A r \in Reqs \ {w} : step[r] = pc[r]
      /\ step \in [Reqs -> {"idle", "login", "granted", "authorized", "posting", "restoring"}]
  BY <1>2 DEF TypeOK
<1>4. \A r \in Reqs : pc[r] = "idle" => saved[r] = Unset
  BY DEF TypeOK, Pending
<1>5. saved \in [Reqs -> issued \cup {NoToken, Torn, Unset}]
  BY DEF TypeOK
<1>6. token' = t
  BY DEF SetToken
<1> HIDE DEF step
<1>7. QED
  BY <1>1, <1>2, <1>3, <1>4, <1>5, <1>6

(* The same for handleLogout, whose writer is none of the requests.        *)
LEMMA ClearTokenEffect ==
  ASSUME TypeOK, NEW t, SetToken(t, pc)
  PROVE  /\ token' = t
         /\ \A r \in Reqs :
              \/ pc'[r] = pc[r] /\ saved'[r] = saved[r]
              \/ pc[r] = "authorized" /\ pc'[r] = "posting" /\ saved'[r] = Torn
         /\ saved' \in [Reqs -> issued \cup {NoToken, Torn, Unset}]
         /\ pc' \in [Reqs -> {"idle", "login", "granted", "authorized", "posting", "restoring"}]
<1>1. PICK T \in TornReaders(t) :
        /\ saved' = [r \in Reqs |-> IF r \in T THEN Torn
                                    ELSE IF pc[r] = "idle" THEN Unset ELSE saved[r]]
        /\ pc'    = [r \in Reqs |-> IF r \in T THEN "posting" ELSE pc[r]]
  BY DEF SetToken
<1>2. T \subseteq {r \in Reqs : pc[r] = "authorized"}
  BY DEF TornReaders
<1>3. \A r \in Reqs : pc[r] = "idle" => saved[r] = Unset
  BY DEF TypeOK, Pending
<1>4. /\ saved \in [Reqs -> issued \cup {NoToken, Torn, Unset}]
      /\ pc \in [Reqs -> {"idle", "login", "granted", "authorized", "posting", "restoring"}]
      /\ token' = t
  BY DEF TypeOK, SetToken
<1>5. QED
  BY <1>1, <1>2, <1>3, <1>4

-----------------------------------------------------------------------------
(* Type correctness.                                                       *)

LEMMA LoginTypeOK ==
  ASSUME TypeOK, NEW r \in Reqs, Login(r)
  PROVE  TypeOK'
<1>1. CASE ReadUsername(r)
  BY <1>1, UnsetAssumption DEF ReadUsername, TypeOK, Pending
<1>2. CASE ReadPassword(r)
  BY <1>2 DEF ReadPassword, TypeOK, Pending
<1>3. CASE handleLogin(r)
  <2>1. PICK t \in Tokens \ issued : /\ SetToken(t, [pc EXCEPT ![r] = "idle"])
                                     /\ issued' = issued \cup {t}
                                     /\ expected' = t
    BY <1>3 DEF handleLogin
  <2>2. pc[r] = "granted" /\ offered' = [offered EXCEPT ![r] = Unset]
    BY <1>3 DEF handleLogin
  <2>3. /\ token' = t
        /\ pc'[r] = "idle" /\ saved'[r] = Unset
        /\ \A q \in Reqs \ {r} :
             \/ pc'[q] = pc[q] /\ saved'[q] = saved[q]
             \/ pc[q] = "authorized" /\ pc'[q] = "posting" /\ saved'[q] = Torn
        /\ saved' \in [Reqs -> issued' \cup {NoToken, Torn, Unset}]
        /\ pc' \in [Reqs -> {"idle", "login", "granted", "authorized", "posting", "restoring"}]
    BY <2>1, <2>2, SetTokenEffect
  <2>4. \A q \in Reqs : /\ pc'[q] \in {"login", "granted"} <=> offered'[q] # Unset
                        /\ q \in Pending' <=> saved'[q] # Unset
    BY <2>2, <2>3, MarksAssumption DEF TypeOK, Pending
  <2>5. QED
    BY <1>3, <2>1, <2>2, <2>3, <2>4 DEF handleLogin, TypeOK
<1>4. QED
  BY <1>1, <1>2, <1>3 DEF Login

LEMMA UpdateTypeOK ==
  ASSUME TypeOK, NEW r \in Reqs, Update(r)
  PROVE  TypeOK'
<1>1. CASE authWrapper(r)
  BY <1>1 DEF authWrapper, TypeOK, Pending
<1>2. CASE PreserveToken(r)
  <2>1. token # Unset
    BY TokensAssumption, MarksAssumption DEF TypeOK
  <2>2. QED
    BY <1>2, <2>1 DEF PreserveToken, TypeOK, Pending
<1>3. CASE UpdateFails(r)
  BY <1>3 DEF UpdateFails, TypeOK, Pending
<1>4. CASE LoadConfig(r)
  BY <1>4, SectionsAssumption DEF LoadConfig, TypeOK, Pending
<1>5. CASE RestoreToken(r)
  <2>1. pc[r] = "restoring" /\ saved[r] # Unset
    BY <1>5 DEF RestoreToken, TypeOK, Pending
  <2>2. /\ token' = saved[r]
        /\ pc'[r] = "idle" /\ saved'[r] = Unset
        /\ \A q \in Reqs \ {r} :
             \/ pc'[q] = pc[q] /\ saved'[q] = saved[q]
             \/ pc[q] = "authorized" /\ pc'[q] = "posting" /\ saved'[q] = Torn
        /\ saved' \in [Reqs -> issued \cup {NoToken, Torn, Unset}]
        /\ pc' \in [Reqs -> {"idle", "login", "granted", "authorized", "posting", "restoring"}]
    BY <1>5, <2>1, SetTokenEffect DEF RestoreToken
  <2>3. \A q \in Reqs : /\ pc'[q] \in {"login", "granted"} <=> offered[q] # Unset
                        /\ q \in Pending' <=> saved'[q] # Unset
    BY <2>1, <2>2, MarksAssumption DEF TypeOK, Pending
  <2>4. token' \in issued \cup {NoToken, Torn}
    BY <2>1, <2>2 DEF TypeOK
  <2>5. QED
    BY <1>5, <2>2, <2>3, <2>4 DEF RestoreToken, TypeOK
<1>6. QED
  BY <1>1, <1>2, <1>3, <1>4, <1>5 DEF Update

LEMMA OutsideTypeOK ==
  ASSUME TypeOK, handleLogout \/ Hangup
  PROVE  TypeOK'
<1>1. CASE handleLogout
  <2>1. /\ token' = NoToken
        /\ \A q \in Reqs :
             \/ pc'[q] = pc[q] /\ saved'[q] = saved[q]
             \/ pc[q] = "authorized" /\ pc'[q] = "posting" /\ saved'[q] = Torn
        /\ saved' \in [Reqs -> issued \cup {NoToken, Torn, Unset}]
        /\ pc' \in [Reqs -> {"idle", "login", "granted", "authorized", "posting", "restoring"}]
    BY <1>1, ClearTokenEffect DEF handleLogout
  <2>2. \A q \in Reqs : /\ pc'[q] \in {"login", "granted"} <=> offered[q] # Unset
                        /\ q \in Pending' <=> saved'[q] # Unset
    BY <2>1, MarksAssumption DEF TypeOK, Pending
  <2>3. QED
    BY <1>1, <2>1, <2>2 DEF handleLogout, TypeOK
<1>2. CASE Hangup
  BY <1>2, SectionsAssumption DEF Hangup, TypeOK, Pending
<1>3. QED
  BY <1>1, <1>2

LEMMA InitTypeOK == Init => TypeOK
BY SectionsAssumption DEF Init, TypeOK, Pending

LEMMA NextTypeOK == TypeOK /\ [Next]_vars => TypeOK'
<1>1. ASSUME TypeOK, UNCHANGED vars PROVE TypeOK'
  BY <1>1 DEF vars, TypeOK, Pending
<1>2. QED
  BY <1>1, LoginTypeOK, UpdateTypeOK, OutsideTypeOK DEF Next

(* The token in force was issued, and updates have something to put back.  *)
THEOREM TypeCorrect == Spec => []TypeOK
BY InitTypeOK, NextTypeOK, PTL DEF Spec

-----------------------------------------------------------------------------
(* Quiet updates.  QuietUpdateKeepsToken is not inductive: it says nothing *)
(* of what a pending update is going to put back.  Without an overlap that *)
(* is the expected token, or else another update is between its load and   *)
(* its restoration - and whichever of the two moves next is an overlap.    *)

SavedIsExpected ==
  \A r \in Pending : \/ saved[r] = expected
                     \/ \E q \in Reqs \ {r} : pc[q] = "restoring"

IInv == TypeOK /\ QuietUpdateKeepsToken /\ (~overlapped => SavedIsExpected)

(* Steps that leave the token and what is pending alone.                   *)
LEMMA QuietStep ==
  ASSUME IInv, UNCHANGED <<token, expected, overlapped, saved>>,
         \A r \in Reqs : /\ r \in Pending <=> r \in Pending'
                         /\ pc[r] = "restoring" <=> pc'[r] = "restoring"
  PROVE  QuietUpdateKeepsToken' /\ (~overlapped' => SavedIsExpected')
<1>1. Pending' = Pending
  BY DEF Pending
<1>2. QED
  BY <1>1 DEF IInv, QuietUpdateKeepsToken, SavedIsExpected, Pending

(* A write of the expected token that leaves nothing pending.              *)
LEMMA SettledStep ==
  ASSUME ~overlapped' => Pending' = {} /\ token' = expected'
  PROVE  QuietUpdateKeepsToken' /\ (~overlapped' => SavedIsExpected')
BY DEF QuietUpdateKeepsToken, SavedIsExpected, Pending

LEMMA UpdateQuiet ==
  ASSUME IInv, NEW r \in Reqs, Update(r)
  PROVE  QuietUpdateKeepsToken' /\ (~overlapped' => SavedIsExpected')
<1>1. CASE authWrapper(r)
  BY <1>1, QuietStep DEF authWrapper, IInv, TypeOK, Pending
<1>2. CASE PreserveToken(r)
  <2>1. /\ \A q \in Reqs : pc[q] = "restoring" <=> pc'[q] = "restoring"
        /\ Pending' = Pending \cup {r}
        /\ saved' = [saved EXCEPT ![r] = token]
        /\ UNCHANGED <<token, expected, overlapped>>
        /\ pc[r] = "authorized" /\ r \notin Pending
    BY <1>2 DEF PreserveToken, IInv, TypeOK, Pending
  <2>2. QuietUpdateKeepsToken'
    BY <2>1 DEF IInv, QuietUpdateKeepsToken
  <2>3. ASSUME ~overlapped PROVE SavedIsExpected'
    <3>1. ASSUME NEW q \in Pending
          PROVE  saved'[q] = expected \/ \E p \in Reqs \ {q} : pc'[p] = "restoring"
      BY <2>1, <2>3 DEF IInv, SavedIsExpected
    <3>2. saved'[r] = token
      BY <2>1 DEF IInv, TypeOK
    <3>3. saved'[r] = expected \/ \E p \in Reqs \ {r} : pc'[p] = "restoring"
      BY <2>1, <2>3, <3>2 DEF IInv, QuietUpdateKeepsToken
    <3>4. QED
      BY <2>1, <3>1, <3>3 DEF SavedIsExpected
  <2>4. QED
    BY <2>1, <2>2, <2>3
<1>3. CASE UpdateFails(r)
  <2>1. /\ \A q \in Reqs : pc[q] = "restoring" <=> pc'[q] = "restoring"
        /\ Pending' = Pending \ {r}
        /\ \A q \in Reqs \ {r} : saved'[q] = saved[q]
        /\ UNCHANGED <<token, expected, overlapped>>
    BY <1>3 DEF UpdateFails, IInv, TypeOK, Pending
  <2>2. QED
    BY <2>1 DEF IInv, QuietUpdateKeepsToken, SavedIsExpected, Pending
<1>4. CASE LoadConfig(r)
  <2> SUFFICES ASSUME ~overlapped'
               PROVE  QuietUpdateKeepsToken' /\ SavedIsExpected'
    BY DEF QuietUpdateKeepsToken
  <2>1. /\ ~overlapped /\ Pending = {r} /\ pc[r] = "posting"
        /\ pc' = [pc EXCEPT ![r] = "restoring"]
        /\ token' = NoToken /\ UNCHANGED <<saved, expected>>
    BY <1>4 DEF LoadConfig
  <2>2. pc'[r] = "restoring" /\ Pending' = {r}
    BY <2>1 DEF IInv, TypeOK, Pending
  <2>3. saved[r] = expected
    BY <2>1 DEF IInv, SavedIsExpected, Pending
  <2>4. QED
    BY <2>1, <2>2, <2>3 DEF QuietUpdateKeepsToken, SavedIsExpected
<1>5. CASE RestoreToken(r)
  <2>1. ASSUME ~overlapped' PROVE Pending' = {} /\ token' = expected'
    <3>1. /\ ~overlapped /\ Pending' \subseteq {r} /\ pc[r] = "restoring"
          /\ SetToken(saved[r], [pc EXCEPT ![r] = "idle"])
          /\ expected' = expected
      BY <1>5, <2>1 DEF RestoreToken
    <3>2. /\ token' = saved[r] /\ pc'[r] = "idle"
          /\ \A q \in Reqs \ {r} : pc'[q] = pc[q] \/ pc'[q] = "posting"
      BY <3>1, SetTokenEffect DEF IInv
    <3>3. Pending' = {}
      BY <3>1, <3>2 DEF Pending
    <3>4. \A q \in Reqs \ {r} : pc[q] # "restoring"
      BY <3>2, <3>3 DEF Pending
    <3>5. saved[r] = expected
      BY <3>1, <3>4 DEF IInv, SavedIsExpected, Pending
    <3>6. QED
      BY <3>1, <3>2, <3>3, <3>5
  <2>2. QED
    BY <2>1, SettledStep
<1>6. QED
  BY <1>1, <1>2, <1>3, <1>4, <1>5 DEF Update

LEMMA LoginQuiet ==
  ASSUME IInv, NEW r \in Reqs, Login(r)
  PROVE  QuietUpdateKeepsToken' /\ (~overlapped' => SavedIsExpected')
<1>1. CASE ReadUsername(r)
  BY <1>1, QuietStep DEF ReadUsername, IInv, TypeOK, Pending
<1>2. CASE ReadPassword(r)
  BY <1>2, QuietStep DEF ReadPassword, IInv, TypeOK, Pending
<1>3. CASE handleLogin(r)
  BY <1>3, SettledStep DEF handleLogin, SetToken
<1>4. QED
  BY <1>1, <1>2, <1>3 DEF Login

LEMMA InductiveInvariant == Spec => []IInv
<1>1. Init => IInv
  BY InitTypeOK DEF Init, IInv, QuietUpdateKeepsToken, SavedIsExpected, Pending
<1>2. IInv /\ [Next]_vars => IInv'
  <2> SUFFICES ASSUME IInv, [Next]_vars PROVE IInv'
    OBVIOUS
  <2>1. TypeOK'
    BY NextTypeOK DEF IInv
  <2>2. ASSUME NEW r \in Reqs, Login(r) \/ Update(r) PROVE IInv'
    BY <2>1, <2>2, LoginQuiet, UpdateQuiet DEF IInv
  <2>3. CASE handleLogout
    BY <2>1, <2>3, SettledStep DEF handleLogout, SetToken, IInv
  <2>4. CASE Hangup
    <3>1. ~overlapped' => Pending' = {} /\ token' = expected'
      BY <2>4 DEF Hangup, Pending
    <3>2. QED
      BY <2>1, <3>1, SettledStep DEF IInv
  <2>5. CASE UNCHANGED vars
    BY <2>1, <2>5, QuietStep DEF vars, IInv, Pending
  <2>6. QED
    BY <2>2, <2>3, <2>4, <2>5 DEF Next
<1>3. QED
  BY <1>1, <1>2, PTL DEF Spec

(* The token survives every update that nothing else overlaps.             *)
THEOREM QuietUpdates == Spec => []QuietUpdateKeepsToken
<1>1. IInv => QuietUpdateKeepsToken
  BY DEF IInv
<1>2. QED
  BY <1>1, InductiveInvariant, PTL

-----------------------------------------------------------------------------
(* Logouts.  What http.go:332 promises, LogoutIsFinal, fails only through  *)
(* an update that was in flight; without one the token that is expected is *)
(* never one that was logged out, because each login draws a new one.      *)

LogoutHolds == token \in loggedOut => overlapped

ExpectedIsLive == expected \notin loggedOut

LEMMA ExpectedStep == TypeOK /\ ExpectedIsLive /\ [Next]_vars => ExpectedIsLive'
<1> SUFFICES ASSUME TypeOK, ExpectedIsLive, [Next]_vars PROVE ExpectedIsLive'
  OBVIOUS
<1>1. NoToken \notin issued /\ loggedOut \subseteq issued
  BY TokensAssumption DEF TypeOK
<1>2. ASSUME NEW r \in Reqs, handleLogin(r) PROVE ExpectedIsLive'
  BY <1>1, <1>2 DEF handleLogin, ExpectedIsLive
<1>3. CASE handleLogout
  BY <1>1, <1>3 DEF handleLogout, ExpectedIsLive
<1>4. CASE Hangup
  BY <1>1, <1>4 DEF Hangup, ExpectedIsLive
<1>5. ASSUME NEW r \in Reqs, ReadUsername(r) \/ ReadPassword(r) \/ Update(r)
      PROVE  UNCHANGED <<expected, loggedOut>>
  BY <1>5 DEF ReadUsername, ReadPassword, Update, authWrapper, PreserveToken,
              UpdateFails, LoadConfig, RestoreToken
<1>6. CASE UNCHANGED vars
  BY <1>6 DEF vars, ExpectedIsLive
<1>7. QED
  BY <1>2, <1>3, <1>4, <1>5, <1>6 DEF Next, Login, ExpectedIsLive

(* A token that was logged out is in force again only if an update ran     *)
(* together with another change of the token (http.go:173, http.go:332).   *)
THEOREM LogoutsHold == Spec => []LogoutHolds
<1>1. Init => ExpectedIsLive
  BY DEF Init, ExpectedIsLive
<1>2. IInv /\ ExpectedIsLive => LogoutHolds
  BY TokensAssumption DEF IInv, TypeOK, QuietUpdateKeepsToken, ExpectedIsLive, LogoutHolds
<1>3. QED
  BY <1>1, <1>2, ExpectedStep, TypeCorrect, InductiveInvariant, PTL DEF Spec
=============================================================================
