----------------------------- MODULE AdminToken -----------------------------
(***************************************************************************)
(* The administrator's session on the web side: the one token that         *)
(* handleLogin sets, handleLogout clears, authWrapper compares and every   *)
(* reload of the configuration wipes, because it lives in Config.HTTP.     *)
(* handleConfig reads it before it loads a posted configuration and puts   *)
(* it back afterwards; net/http runs each request in its own goroutine.    *)
(*                                                                         *)
(* Reads that the code makes without SFTPD.mutex are steps of their own.   *)
(* A token is two words, a pointer and a length: a read that overlaps the  *)
(* write between no token and a token may pair the nil pointer with the    *)
(* length of the token.  Torn stands for that value.                       *)
(***************************************************************************)
CONSTANTS
  Reqs,      \* request goroutines
  Names,     \* user names of the HTTP section
  Secrets,   \* passwords of the HTTP section
  Sections,  \* the <<username, password>> pairs an operator configures
  Tokens,    \* what unique.Token can return; bounds the number of logins
  NoToken,   \* the empty token
  Torn,      \* the nil pointer with the length of a token
  Unset      \* a local variable of a request before its assignment

ASSUME SectionsAssumption == Sections \subseteq Names \X Secrets
ASSUME TokensAssumption   == {NoToken, Torn, Unset} \cap Tokens = {}
ASSUME MarksAssumption    == NoToken # Torn /\ NoToken # Unset /\ Torn # Unset
ASSUME UnsetAssumption    == Unset \notin Names \X Secrets

VARIABLES
  token,      \* s.config.HTTP.token
  section,    \* s.config.HTTP.username and .password
  pc,         \* where each request is
  offered,    \* the credentials a login request carries
  saved,      \* currentToken of handleConfig
  issued,     \* the tokens that were set as a cookie
  expected,   \* history: the token that the last login, logout or SIGHUP
              \* left, which updates are meant to preserve
  overlapped, \* history: an update in flight, or the last one, ran together
              \* with another change of the token
  loggedOut   \* history: the tokens that a logout invalidated

vars == <<token, section, pc, offered, saved, issued, expected, overlapped, loggedOut>>

-----------------------------------------------------------------------------
(* Updates that have read the token and not yet put it back.               *)
Pending == {r \in Reqs : pc[r] \in {"posting", "restoring"}}

(* Requests whose read of the token overlaps a write of t.                 *)
TornReaders(t) ==
  IF (token = NoToken /\ t \in Tokens) \/ (token \in Tokens /\ t = NoToken)
  THEN SUBSET {r \in Reqs : pc[r] = "authorized"}
  ELSE {{}}

(* The token field is assigned in place; step says where the writer goes.  *)
SetToken(t, step) ==
  /\ token' = t
  /\ \E T \in TornReaders(t) :
       /\ saved' = [r \in Reqs |-> IF r \in T THEN Torn
                                   ELSE IF step[r] = "idle" THEN Unset ELSE saved[r]]
       /\ pc'    = [r \in Reqs |-> IF r \in T THEN "posting" ELSE step[r]]

(* handleLogin: the name is compared with the section read first ...       *)
ReadUsername(r) ==
  /\ pc[r] = "idle"
  /\ \E u \in Names, p \in Secrets :
       /\ u = section[1]
       /\ offered' = [offered EXCEPT ![r] = <<u, p>>]
  /\ pc' = [pc EXCEPT ![r] = "login"]
  /\ UNCHANGED <<token, section, saved, issued, expected, overlapped, loggedOut>>

(* ... and the password with the one read second.                          *)
ReadPassword(r) ==
  /\ pc[r] = "login"
  /\ IF offered[r][2] = section[2]
     THEN pc' = [pc EXCEPT ![r] = "granted"] /\ UNCHANGED offered
     ELSE /\ pc' = [pc EXCEPT ![r] = "idle"]
          /\ offered' = [offered EXCEPT ![r] = Unset]
  /\ UNCHANGED <<token, section, saved, issued, expected, overlapped, loggedOut>>

(* Defect: the answer to a login carries no cookie.                        *)
handleLoginSilent(r) ==
  /\ pc[r] = "granted"
  /\ \E t \in Tokens \ issued :
       /\ SetToken(t, [pc EXCEPT ![r] = "idle"])
       /\ expected' = t
  /\ offered' = [offered EXCEPT ![r] = Unset]
  /\ overlapped' = (Pending' # {})
  /\ UNCHANGED <<section, issued, loggedOut>>

handleLogin(r) ==
  /\ pc[r] = "granted"
  /\ \E t \in Tokens \ issued :
       /\ SetToken(t, [pc EXCEPT ![r] = "idle"])
       /\ issued' = issued \cup {t}
       /\ expected' = t
  /\ offered' = [offered EXCEPT ![r] = Unset]
  /\ overlapped' = (Pending' # {})
  /\ UNCHANGED <<section, loggedOut>>

(* No request needs a token to log out.                                    *)
handleLogout ==
  /\ SetToken(NoToken, pc)
  /\ expected' = NoToken
  /\ overlapped' = (Pending' # {})
  /\ loggedOut' = loggedOut \cup (issued \cap {token})
  /\ UNCHANGED <<section, offered, issued>>

(* The cookie of a POST to /config is compared under the mutex.            *)
authWrapper(r) ==
  /\ pc[r] = "idle"
  /\ \E cookie \in issued : token = cookie
  /\ pc' = [pc EXCEPT ![r] = "authorized"]
  /\ UNCHANGED <<token, section, offered, saved, issued, expected, overlapped, loggedOut>>

PreserveToken(r) ==
  /\ pc[r] = "authorized"
  /\ saved' = [saved EXCEPT ![r] = token]
  /\ pc' = [pc EXCEPT ![r] = "posting"]
  /\ UNCHANGED <<token, section, offered, issued, expected, overlapped, loggedOut>>

(* The body is not JSON, or LoadConfig panicked and net/http recovered.    *)
UpdateFails(r) ==
  /\ pc[r] = "posting"
  /\ pc' = [pc EXCEPT ![r] = "idle"]
  /\ saved' = [saved EXCEPT ![r] = Unset]
  /\ UNCHANGED <<token, section, offered, issued, expected, overlapped, loggedOut>>

(* The body took as long as the client pleased; the new Config comes with  *)
(* an empty token.                                                         *)
LoadConfig(r) ==
  /\ pc[r] = "posting"
  /\ section' \in Sections
  /\ token' = NoToken
  /\ pc' = [pc EXCEPT ![r] = "restoring"]
  /\ overlapped' = (overlapped \/ Pending # {r})
  /\ UNCHANGED <<offered, saved, issued, expected, loggedOut>>

(* Defect: the token is not put back.                                      *)
RestoreTokenMissing(r) ==
  /\ pc[r] = "restoring"
  /\ pc' = [pc EXCEPT ![r] = "idle"]
  /\ saved' = [saved EXCEPT ![r] = Unset]
  /\ overlapped' = (overlapped \/ Pending # {r})
  /\ UNCHANGED <<token, section, offered, issued, expected, loggedOut>>

RestoreToken(r) ==
  /\ pc[r] = "restoring"
  /\ SetToken(saved[r], [pc EXCEPT ![r] = "idle"])
  /\ overlapped' = (overlapped \/ Pending' \cup {r} # {r})
  /\ UNCHANGED <<section, offered, issued, expected, loggedOut>>

(* LoadConfig from the file: nobody puts a token back.                     *)
Hangup ==
  /\ section' \in Sections
  /\ token' = NoToken
  /\ expected' = NoToken
  /\ overlapped' = (Pending # {})
  /\ UNCHANGED <<pc, offered, saved, issued, loggedOut>>

-----------------------------------------------------------------------------
Init ==
  /\ token = NoToken
  /\ section \in Sections
  /\ pc      = [r \in Reqs |-> "idle"]
  /\ offered = [r \in Reqs |-> Unset]
  /\ saved   = [r \in Reqs |-> Unset]
  /\ issued = {}
  /\ expected = NoToken
  /\ overlapped = FALSE
  /\ loggedOut = {}

Login(r)  == ReadUsername(r) \/ ReadPassword(r) \/ handleLogin(r)
Update(r) == \/ authWrapper(r) \/ PreserveToken(r) \/ UpdateFails(r)
             \/ LoadConfig(r) \/ RestoreToken(r)

Next == (\E r \in Reqs : Login(r) \/ Update(r)) \/ handleLogout \/ Hangup

Spec == Init /\ [][Next]_vars

-----------------------------------------------------------------------------
(* Correctness.                                                            *)

(* Every variable holds a value of its type; a token in force was issued,  *)
(* and an update has something to put back.                                *)
TypeOK ==
  /\ token \in issued \cup {NoToken, Torn}
  /\ section \in Names \X Secrets
  /\ pc \in [Reqs -> {"idle", "login", "granted", "authorized", "posting", "restoring"}]
  /\ offered \in [Reqs -> (Names \X Secrets) \cup {Unset}]
  /\ saved \in [Reqs -> issued \cup {NoToken, Torn, Unset}]
  /\ issued \subseteq Tokens
  /\ expected \in issued \cup {NoToken}
  /\ overlapped \in BOOLEAN
  /\ loggedOut \subseteq issued
  /\ \A r \in Reqs : /\ pc[r] \in {"login", "granted"} <=> offered[r] # Unset
                     /\ r \in Pending <=> saved[r] # Unset

(* An update that no other change of the token overlapped is invisible to  *)
(* the session: the token is what the last login, logout or SIGHUP left,   *)
(* but for the moment between LoadConfig and the restoration.              *)
QuietUpdateKeepsToken ==
  ~overlapped => token = IF \E r \in Reqs : pc[r] = "restoring" THEN NoToken
                                                                ELSE expected

-----------------------------------------------------------------------------
(* What the comments of http.go say and the code does not keep.            *)

(* http.go:332 "Invalidate the token in the server state": a token that    *)
(* was logged out is not accepted again.                                   *)
LogoutIsFinal == token \notin loggedOut
=============================================================================
