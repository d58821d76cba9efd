------------------------------ MODULE Sessions ------------------------------
(***************************************************************************)
(* The SSH side of the server: the goroutine that handleConn runs for each *)
(* connection, the session registry of AddSession and DeleteSession, and   *)
(* the reloads of the configuration that race with them.                   *)
(*                                                                         *)
(* Every section of the code that holds SFTPD.mutex is one action, because *)
(* the sections only exclude each other: what runs between two of them in  *)
(* one goroutine interleaves with every other goroutine.  A configuration  *)
(* is taken here as LoadConfig has completed it (credentials left blank    *)
(* are already filled in); the module ConfigStore shows how it does that.  *)
(***************************************************************************)
EXTENDS Naturals, FiniteSets

CONSTANTS
  Conns,      \* goroutines of handleConn, one per accepted TCP connection
  Logins,     \* the keys of Config.Users
  Passwords,  \* plaintext passwords
  Keys,       \* public key fingerprints
  Addrs,      \* client addresses
  Configs,    \* the configurations an operator may load
  NoUser,     \* a login that a configuration does not have
  None        \* no password, no key, no login, no address

(* What the session code reads of a User.  "from" is the set of addresses  *)
(* that the filters admit; "badRoot" says that one of the user's groups    *)
(* has a directory mapping whose root cannot be opened.                    *)
User == [pw : Passwords \cup {None}, key : Keys \cup {None},
         from : SUBSET Addrs, max : Nat, badRoot : BOOLEAN]

ASSUME ConfigsAssumption == Configs \subseteq [Logins -> User \cup {NoUser}]
ASSUME ConnsAssumption   == IsFiniteSet(Conns)
ASSUME NoneAssumption    == None \notin Passwords \cup Keys \cup Logins \cup Addrs \cup Nat
ASSUME NoUserAssumption  == NoUser \notin User

VARIABLES
  config,     \* s.config.Users
  keymap,     \* s.userPubKeyMap
  sessions,   \* s.sessions; a login without a map is one with an empty map
  pc,         \* where each handleConn is
  addr,       \* RemoteAddr of the connection
  login,      \* the login that the credential check put in Permissions
  user,       \* the *User that handleConn obtained from getUserByLogin
  closed,     \* the connection is closed, by either side
  panic,      \* the function whose panic took the process down, or "none"
  unwound     \* history: net/http recovered a panic of LoadConfig and no
              \* load has succeeded since

connVars == <<pc, addr, login, user, closed>>
vars     == <<config, keymap, sessions, connVars, panic, unwound>>

-----------------------------------------------------------------------------
(* LoadConfig, seen from the sessions.                                     *)

Empty(u) == u # NoUser /\ u.pw = None /\ u.key = None

(* A user without credentials is skipped before its filters are parsed:    *)
(* the record stays in Config.Users and admits every address.              *)
Loaded(cfg) ==
  [l \in Logins |-> IF Empty(cfg[l]) THEN [cfg[l] EXCEPT !.from = Addrs]
                                     ELSE cfg[l]]

Owners(cfg, S, k) == {l \in S : cfg[l] # NoUser /\ cfg[l].key = k}

(* The fingerprint map after the users in S were processed.  The loop runs *)
(* over a Go map: of two users with one key, either may come last.         *)
KeyMaps(cfg, S) ==
  {km \in [Keys -> Logins \cup {None}] :
     \A k \in Keys : IF Owners(cfg, S, k) = {}
                     THEN km[k] = None
                     ELSE km[k] \in Owners(cfg, S, k)}

(* The group's mapping was set to nil and the user loop dereferences it.   *)
Faulty(cfg) == {l \in Logins : cfg[l] # NoUser /\ ~Empty(cfg[l]) /\ cfg[l].badRoot}

Registered == UNION {sessions[l] : l \in Logins}

(* Defects: sessions kept open by a load; the old fingerprints kept too.   *)
LoadConfigKeepsSessions(cfg) ==
  /\ Faulty(cfg) = {}
  /\ config' = Loaded(cfg)
  /\ keymap' \in KeyMaps(cfg, Logins)
  /\ unwound' = FALSE
  /\ UNCHANGED <<sessions, connVars, panic>>

LoadConfigKeepsKeys(cfg) ==
  /\ Faulty(cfg) = {}
  /\ config' = Loaded(cfg)
  /\ \E km \in KeyMaps(cfg, Logins) :
       keymap' = [k \in Keys |-> IF km[k] = None THEN keymap[k] ELSE km[k]]
  /\ closed' = [c \in Conns |-> closed[c] \/ c \in Registered]
  /\ unwound' = FALSE
  /\ UNCHANGED <<sessions, pc, addr, login, user, panic>>

(* A load that succeeds, from SIGHUP or from the web: the configuration    *)
(* and the map are replaced and every registered connection is closed.     *)
LoadConfig(cfg) ==
  /\ Faulty(cfg) = {}
  /\ config' = Loaded(cfg)
  /\ keymap' \in KeyMaps(cfg, Logins)
  /\ closed' = [c \in Conns |-> closed[c] \/ c \in Registered]
  /\ unwound' = FALSE
  /\ UNCHANGED <<sessions, pc, addr, login, user, panic>>

(* The process is gone, and with it every connection.                      *)
Crash(f) ==
  /\ panic' = f
  /\ sessions' = [l \in Logins |-> {}]
  /\ pc'     = [c \in Conns |-> "idle"]
  /\ addr'   = [c \in Conns |-> None]
  /\ login'  = [c \in Conns |-> None]
  /\ user'   = [c \in Conns |-> NoUser]
  /\ closed' = [c \in Conns |-> FALSE]
  /\ UNCHANGED <<config, keymap, unwound>>

(* The same panic on the signal path: nothing recovers it.                 *)
HangupPanics(cfg) == Faulty(cfg) # {} /\ Crash("LoadConfig")

(* The same panic on the web path: net/http recovers it and the deferred   *)
(* Unlock runs.  The map was already reset and holds the users that were   *)
(* processed first; the configuration is still the old one.                *)
UpdatePanics(cfg) ==
  /\ Faulty(cfg) # {}
  /\ \E S \in SUBSET (Logins \ Faulty(cfg)) : keymap' \in KeyMaps(cfg, S)
  /\ unwound' = TRUE
  /\ UNCHANGED <<config, sessions, connVars, panic>>

-----------------------------------------------------------------------------
(* handleConn.                                                             *)

(* The goroutine returns, its connection closed.                           *)
Return(c) ==
  /\ pc'     = [pc EXCEPT ![c] = "idle"]
  /\ addr'   = [addr EXCEPT ![c] = None]
  /\ login'  = [login EXCEPT ![c] = None]
  /\ user'   = [user EXCEPT ![c] = NoUser]
  /\ closed' = [closed EXCEPT ![c] = FALSE]

Accept(c, a) ==
  /\ pc[c] = "idle"
  /\ pc' = [pc EXCEPT ![c] = "handshake"]
  /\ addr' = [addr EXCEPT ![c] = a]
  /\ UNCHANGED <<config, keymap, sessions, login, user, closed, panic, unwound>>

(* NewServerConn fails: no credential was accepted, the ten-second         *)
(* deadline passed, or the peer went away.                                 *)
HandshakeFails(c) ==
  /\ pc[c] \in {"handshake", "authed"}
  /\ Return(c)
  /\ UNCHANGED <<config, keymap, sessions, panic, unwound>>

(* Defect: the login is not handed over in Permissions.                    *)
AuthenticatedNameless(c, l) ==
  /\ pc[c] = "handshake"
  /\ ~closed[c]
  /\ pc' = [pc EXCEPT ![c] = "authed"]
  /\ UNCHANGED <<config, keymap, sessions, addr, login, user, closed, panic, unwound>>

Authenticated(c, l) ==
  /\ pc[c] = "handshake"
  /\ ~closed[c]
  /\ pc' = [pc EXCEPT ![c] = "authed"]
  /\ login' = [login EXCEPT ![c] = l]
  /\ UNCHANGED <<config, keymap, sessions, addr, user, closed, panic, unwound>>

getUserByPassword(c, l, p) ==
  /\ config[l] # NoUser
  /\ config[l].pw = p
  /\ Authenticated(c, l)

getUserByPublicKey(c, k) ==
  /\ keymap[k] # None
  /\ Authenticated(c, keymap[k])

(* getUserByLogin, and the filter of the record it returned.               *)
getUserByLogin(c) ==
  /\ pc[c] = "authed"
  /\ IF config[login[c]] # NoUser /\ addr[c] \in config[login[c]].from
     THEN /\ pc' = [pc EXCEPT ![c] = "admitted"]
          /\ user' = [user EXCEPT ![c] = config[login[c]]]
          /\ UNCHANGED <<addr, login, closed>>
     ELSE Return(c)
  /\ UNCHANGED <<config, keymap, sessions, panic, unwound>>

(* Defect: one session too many.                                           *)
FullLate(l) == config[l].max > 0 /\ Cardinality(sessions[l]) > config[l].max

Full(l) == config[l].max > 0 /\ Cardinality(sessions[l]) >= config[l].max

(* AddSession looks the login up again, in the configuration of the day.   *)
AddSession(c) ==
  /\ pc[c] = "admitted"
  /\ config[login[c]] # NoUser
  /\ ~Full(login[c])
  /\ sessions' = [sessions EXCEPT ![login[c]] = @ \cup {c}]
  /\ pc' = [pc EXCEPT ![c] = "serving"]
  /\ UNCHANGED <<config, keymap, addr, login, user, closed, panic, unwound>>

AddSessionRefused(c) ==
  /\ pc[c] = "admitted"
  /\ config[login[c]] # NoUser
  /\ Full(login[c])
  /\ Return(c)
  /\ UNCHANGED <<config, keymap, sessions, panic, unwound>>

(* A load removed the login meanwhile: the nil *User is dereferenced.      *)
AddSessionPanics(c) ==
  /\ pc[c] = "admitted"
  /\ config[login[c]] = NoUser
  /\ Crash("AddSession")

(* The peer closes the connection or it breaks.  handleConn only notices   *)
(* when the handshake reads or when its loop over the channels ends.       *)
Disconnect(c) ==
  /\ pc[c] # "idle"
  /\ ~closed[c]
  /\ closed' = [closed EXCEPT ![c] = TRUE]
  /\ UNCHANGED <<config, keymap, sessions, pc, addr, login, user, panic, unwound>>

(* Defect: the deferred DeleteSession is missing.                          *)
DeleteSessionMissing(c) ==
  /\ pc[c] = "serving"
  /\ closed[c]
  /\ Return(c)
  /\ UNCHANGED <<config, keymap, sessions, panic, unwound>>

DeleteSession(c) ==
  /\ pc[c] = "serving"
  /\ closed[c]
  /\ sessions' = [sessions EXCEPT ![login[c]] = @ \ {c}]
  /\ Return(c)
  /\ UNCHANGED <<config, keymap, panic, unwound>>

handleConn(c) ==
  \/ HandshakeFails(c)
  \/ getUserByLogin(c)
  \/ AddSession(c)
  \/ AddSessionRefused(c)
  \/ AddSessionPanics(c)
  \/ DeleteSession(c)

(* What a client does.                                                     *)
Client(c) ==
  \/ \E a \in Addrs : Accept(c, a)
  \/ \E l \in Logins, p \in Passwords : getUserByPassword(c, l, p)
  \/ \E k \in Keys : getUserByPublicKey(c, k)
  \/ Disconnect(c)

-----------------------------------------------------------------------------
(* A new process loads its configuration: New and Start.                   *)
Start(cfg) ==
  /\ panic # "none"
  /\ Faulty(cfg) = {}
  /\ config' = Loaded(cfg)
  /\ keymap' \in KeyMaps(cfg, Logins)
  /\ panic' = "none"
  /\ unwound' = FALSE
  /\ UNCHANGED <<sessions, connVars>>

Init ==
  /\ \E cfg \in Configs : /\ Faulty(cfg) = {}
                          /\ config = Loaded(cfg)
                          /\ keymap \in KeyMaps(cfg, Logins)
  /\ sessions = [l \in Logins |-> {}]
  /\ pc      = [c \in Conns |-> "idle"]
  /\ addr    = [c \in Conns |-> None]
  /\ login   = [c \in Conns |-> None]
  /\ user    = [c \in Conns |-> NoUser]
  /\ closed  = [c \in Conns |-> FALSE]
  /\ panic = "none"
  /\ unwound = FALSE

Next ==
  \/ panic = "none" /\ \E c \in Conns : handleConn(c) \/ Client(c)
  \/ panic = "none" /\ \E cfg \in Configs : \/ LoadConfig(cfg)
                                      \/ HangupPanics(cfg)
                                      \/ UpdatePanics(cfg)
  \/ \E cfg \in Configs : Start(cfg)

(* Nothing has to happen here: a handler may wait for the mutex for as long*)
(* as an export holds it, and one whose client jams the connection never   *)
(* returns.  Server says when it does.                                     *)
Spec == Init /\ [][Next]_vars

-----------------------------------------------------------------------------
(* Correctness.                                                            *)

(* Every variable holds a value of its type, and a handler past its        *)
(* credential check knows its login and address.                           *)
TypeOK ==
  /\ config \in [Logins -> User \cup {NoUser}]
  /\ keymap \in [Keys -> Logins \cup {None}]
  /\ sessions \in [Logins -> SUBSET Conns]
  /\ pc \in [Conns -> {"idle", "handshake", "authed", "admitted", "serving"}]
  /\ addr \in [Conns -> Addrs \cup {None}]
  /\ login \in [Conns -> Logins \cup {None}]
  /\ user \in [Conns -> User \cup {NoUser}]
  /\ closed \in [Conns -> BOOLEAN]
  /\ panic \in {"none", "LoadConfig", "AddSession"}
  /\ unwound \in BOOLEAN
  /\ \A c \in Conns : pc[c] \in {"authed", "admitted", "serving"} => login[c] \in Logins

(* The sessions a user really has: open connections that are being served. *)
Live(l) == {c \in Conns : pc[c] = "serving" /\ login[c] = l /\ ~closed[c]}

(* The registry holds exactly the connections that a handler is serving,   *)
(* each under its own login: no early return, refusal or reload leaks a    *)
(* slot or frees one that is in use (the deferred DeleteSession).          *)
RegistryMatchesHandlers ==
  \A l \in Logins : sessions[l] = {c \in Conns : pc[c] = "serving" /\ login[c] = l}

(* No user ever has more live sessions than max_sessions of the            *)
(* configuration in force, whatever reloads lowered the limit meanwhile:   *)
(* LoadConfig closes what the old limit let in.                            *)
LiveWithinLimit ==
  \A l \in Logins : config[l] # NoUser /\ config[l].max > 0
                      => Cardinality(Live(l)) <= config[l].max

(* A user that the configuration in force does not have has no live        *)
(* session: removing a user and reloading cuts it off.                     *)
RemovedUserHasNoSession ==
  \A l \in Logins : config[l] = NoUser => Live(l) = {}

(* The fingerprint map and the configuration agree - each key of a user    *)
(* opens a login that has it - unless a web update panicked half-way.      *)
KeysOpenTheirLogin ==
  ~unwound => keymap \in KeyMaps(config, Logins)

(* A session runs on a record that is not in force only if a load came      *)
(* between the lookup of its record and AddSession; nothing makes a        *)
(* session that is being served stale, because a load closes it            *)
(* (config.go:222 "Drop all current sessions").                            *)
Stale(c) == pc[c] = "serving" /\ ~closed[c] /\ user[c] # config[login[c]]

StaleOnlyByAdmission ==
  [][\A c \in Conns : ~Stale(c) /\ Stale(c)' => pc[c] = "admitted"]_vars

(* The sessions implement the abstract limit: only AddSession opens one,   *)
(* and a load that succeeds leaves none of the old ones open.              *)
Limit(u) == IF u = NoUser THEN None ELSE u.max

liveMap  == [l \in Logins |-> Live(l)]
limitMap == [l \in Logins |-> Limit(config[l])]

Abstract == INSTANCE SessionLimit
              WITH live <- liveMap, limit <- limitMap, Gone <- None

ImplementsSessionLimit == Abstract!Spec

-----------------------------------------------------------------------------
(* What the documentation says and the code does not keep.                 *)

(* README.md:236 "Send a SIGHUP signal to reload the configuration without *)
(* restarting": no reload can make the admission of a connection stop the  *)
(* server.                                                                 *)
AdmissionSurvivesReload == panic # "AddSession"
=============================================================================
