--------------------------- MODULE SessionsProofs ---------------------------
(***************************************************************************)
(* Proofs about Sessions, for any number of connections, users and         *)
(* configurations.                                                         *)
(***************************************************************************)
EXTENDS Sessions, FiniteSetTheorems, TLAPS

-----------------------------------------------------------------------------
(* Loading.                                                                *)

LEMMA LoadedType ==
  ASSUME NEW cfg \in Configs
  PROVE  Loaded(cfg) \in [Logins -> User \cup {NoUser}]
<1>1. cfg \in [Logins -> User \cup {NoUser}]
  BY ConfigsAssumption
<1>2. ASSUME NEW l \in Logins, Empty(cfg[l])
      PROVE  [cfg[l] EXCEPT !.from = Addrs] \in User
  <2>1. cfg[l] \in User
    BY <1>1, <1>2 DEF Empty
  <2>2. QED
    BY <2>1 DEF User
<1>3. QED
  BY <1>1, <1>2 DEF Loaded

LEMMA KeyMapsType ==
  ASSUME NEW cfg, NEW S, NEW km \in KeyMaps(cfg, S)
  PROVE  km \in [Keys -> Logins \cup {None}]
BY DEF KeyMaps

-----------------------------------------------------------------------------
(* Type correctness.                                                       *)

LEMMA InitTypeOK == Init => TypeOK
<1> SUFFICES ASSUME Init PROVE TypeOK
  OBVIOUS
<1>1. PICK cfg \in Configs : /\ config = Loaded(cfg)
                             /\ keymap \in KeyMaps(cfg, Logins)
  BY DEF Init
<1>2. /\ config \in [Logins -> User \cup {NoUser}]
      /\ keymap \in [Keys -> Logins \cup {None}]
  BY <1>1, LoadedType, KeyMapsType
<1>3. QED
  BY <1>2 DEF Init, TypeOK

LEMMA ReturnType ==
  ASSUME TypeOK, NEW c \in Conns, Return(c)
  PROVE  /\ pc' \in [Conns -> {"idle", "handshake", "authed", "admitted", "serving"}]
         /\ addr' \in [Conns -> Addrs \cup {None}]
         /\ login' \in [Conns -> Logins \cup {None}]
         /\ user' \in [Conns -> User \cup {NoUser}]
         /\ closed' \in [Conns -> BOOLEAN]
         /\ pc'[c] = "idle"
         /\ \A d \in Conns \ {c} : /\ pc'[d] = pc[d]
                                   /\ login'[d] = login[d]
                                   /\ closed'[d] = closed[d]
BY DEF TypeOK, Return

LEMMA HandlerTypeOK ==
  ASSUME TypeOK, NEW c \in Conns, handleConn(c)
  PROVE  TypeOK'
<1>1. CASE HandshakeFails(c)
  BY <1>1, ReturnType DEF TypeOK, HandshakeFails
<1>2. CASE getUserByLogin(c)
  <2>1. CASE config[login[c]] # NoUser /\ addr[c] \in config[login[c]].from
    <3>1. /\ pc[c] = "authed" /\ login[c] \in Logins
          /\ config[login[c]] \in User
      BY <1>2, <2>1 DEF getUserByLogin, TypeOK
    <3>2. /\ pc' = [pc EXCEPT ![c] = "admitted"]
          /\ user' = [user EXCEPT ![c] = config[login[c]]]
          /\ UNCHANGED <<config, keymap, sessions, addr, login, closed, panic, unwound>>
      BY <1>2, <2>1 DEF getUserByLogin
    <3>3. QED
      BY <3>1, <3>2 DEF TypeOK
  <2>2. CASE ~(config[login[c]] # NoUser /\ addr[c] \in config[login[c]].from)
    BY <1>2, <2>2, ReturnType DEF TypeOK, getUserByLogin
  <2>3. QED
    BY <2>1, <2>2
<1>3. CASE AddSession(c)
  BY <1>3 DEF TypeOK, AddSession
<1>4. CASE AddSessionRefused(c)
  BY <1>4, ReturnType DEF TypeOK, AddSessionRefused
<1>5. CASE AddSessionPanics(c)
  BY <1>5 DEF TypeOK, AddSessionPanics, Crash
<1>6. CASE DeleteSession(c)
  BY <1>6, ReturnType DEF TypeOK, DeleteSession
<1>7. QED
  BY <1>1, <1>2, <1>3, <1>4, <1>5, <1>6 DEF handleConn

LEMMA ClientTypeOK ==
  ASSUME TypeOK, NEW c \in Conns, Client(c)
  PROVE  TypeOK'
<1>1. ASSUME NEW a \in Addrs, Accept(c, a) PROVE TypeOK'
  BY <1>1 DEF TypeOK, Accept
<1>2. ASSUME NEW l \in Logins, Authenticated(c, l) PROVE TypeOK'
  BY <1>2 DEF TypeOK, Authenticated
<1>3. ASSUME NEW k \in Keys, getUserByPublicKey(c, k) PROVE TypeOK'
  <2>1. keymap[k] \in Logins
    BY <1>3 DEF TypeOK, getUserByPublicKey
  <2>2. QED
    BY <1>2, <1>3, <2>1 DEF getUserByPublicKey
<1>4. CASE Disconnect(c)
  BY <1>4 DEF TypeOK, Disconnect
<1>5. QED
  BY <1>1, <1>2, <1>3, <1>4 DEF Client, getUserByPassword

LEMMA LoadTypeOK ==
  ASSUME TypeOK, NEW cfg \in Configs,
         LoadConfig(cfg) \/ HangupPanics(cfg) \/ UpdatePanics(cfg) \/ Start(cfg)
  PROVE  TypeOK'
<1>1. CASE LoadConfig(cfg)
  BY <1>1, LoadedType, KeyMapsType DEF TypeOK, LoadConfig
<1>2. CASE HangupPanics(cfg)
  BY <1>2 DEF TypeOK, HangupPanics, Crash
<1>3. CASE UpdatePanics(cfg)
  BY <1>3, KeyMapsType DEF TypeOK, UpdatePanics, connVars
<1>4. CASE Start(cfg)
  BY <1>4, LoadedType, KeyMapsType DEF TypeOK, Start, connVars
<1>5. QED
  BY <1>1, <1>2, <1>3, <1>4

(* Every step keeps the types and the names that handlers carry.           *)
THEOREM TypeCorrect == Spec => []TypeOK
<1>1. TypeOK /\ [Next]_vars => TypeOK'
  <2>1. ASSUME TypeOK, UNCHANGED vars PROVE TypeOK'
    BY <2>1 DEF TypeOK, vars, connVars
  <2>2. QED
    BY <2>1, HandlerTypeOK, ClientTypeOK, LoadTypeOK DEF Next
<1>2. QED
  BY InitTypeOK, <1>1, PTL DEF Spec
-----------------------------------------------------------------------------
(* The registry, the limit and the reloads.  Neither LiveWithinLimit nor   *)
(* RemovedUserHasNoSession is inductive alone: AddSession counts what is   *)
(* registered and LoadConfig closes what is registered, so both rest on    *)
(* the registry being exactly what the handlers serve; and a new process   *)
(* may bring any limit because the old one left no handler behind.         *)

Stopped == panic # "none" => \A c \in Conns : pc[c] = "idle"

Registry == /\ RegistryMatchesHandlers
            /\ LiveWithinLimit
            /\ RemovedUserHasNoSession

IInv == TypeOK /\ Stopped /\ Registry

LEMMA LiveFinite ==
  ASSUME NEW l \in Logins
  PROVE  IsFiniteSet(Live(l)) /\ Cardinality(Live(l)) \in Nat
<1>1. Live(l) \in SUBSET Conns
  BY DEF Live
<1>2. QED
  BY <1>1, ConnsAssumption, FS_Subset, FS_CardinalityType

(* A step that admits nobody and ends no handler leaves the registry as    *)
(* good as it was.                                                         *)
LEMMA QuietStep ==
  ASSUME TypeOK, Registry,
         UNCHANGED <<config, sessions>>,
         \A d \in Conns : /\ pc'[d] = "serving" <=> pc[d] = "serving"
                          /\ pc[d] = "serving" => /\ login'[d] = login[d]
                                                  /\ closed[d] => closed'[d],
         closed' \in [Conns -> BOOLEAN]
  PROVE  Registry'
<1>1. \A l \in Logins : {c \in Conns : pc[c] = "serving" /\ login[c] = l}
                          = {c \in Conns : pc'[c] = "serving" /\ login'[c] = l}
  OBVIOUS
<1>2. RegistryMatchesHandlers'
  BY <1>1 DEF Registry, RegistryMatchesHandlers
<1>3. \A l \in Logins : Live(l)' \in SUBSET Live(l)
  BY DEF Live
<1>4. RemovedUserHasNoSession'
  BY <1>3 DEF Registry, RemovedUserHasNoSession
<1>5. LiveWithinLimit'
  <2> SUFFICES ASSUME NEW l \in Logins, config'[l] # NoUser, config'[l].max > 0
               PROVE  Cardinality(Live(l)') <= config'[l].max
    BY DEF LiveWithinLimit
  <2>1. config[l].max \in Nat
    BY DEF TypeOK, User
  <2>2. Cardinality(Live(l)) <= config[l].max
    BY DEF Registry, LiveWithinLimit
  <2>3. /\ Cardinality(Live(l)') <= Cardinality(Live(l))
        /\ Cardinality(Live(l)') \in Nat
    BY <1>3, LiveFinite, FS_Subset, FS_CardinalityType
  <2>4. QED
    BY <2>1, <2>2, <2>3, LiveFinite
<1>6. QED
  BY <1>2, <1>4, <1>5 DEF Registry

(* A step that leaves nothing live may bring any configuration.            *)
LEMMA EmptyStep ==
  ASSUME TypeOK', RegistryMatchesHandlers',
         \A l \in Logins : Live(l)' = {}
  PROVE  Registry'
<1>1. LiveWithinLimit'
  <2> SUFFICES ASSUME NEW l \in Logins, config'[l] # NoUser
               PROVE  Cardinality(Live(l)') <= config'[l].max
    BY DEF LiveWithinLimit
  <2>1. config'[l].max \in Nat
    BY DEF TypeOK, User
  <2>2. Cardinality(Live(l)') = 0
    BY FS_EmptySet
  <2>3. QED
    BY <2>1, <2>2
<1>2. QED
  BY <1>1 DEF Registry, RemovedUserHasNoSession

LEMMA CrashEmpties ==
  ASSUME NEW f, Crash(f), TypeOK'
  PROVE  Registry' /\ Stopped'
<1>1. RegistryMatchesHandlers' /\ \A l \in Logins : Live(l)' = {}
  BY DEF Crash, RegistryMatchesHandlers, Live
<1>2. Stopped'
  BY DEF Crash, Stopped
<1>3. QED
  BY <1>1, <1>2, EmptyStep

(* The one step that opens a session.                                      *)
LEMMA AddSessionKeepsRegistry ==
  ASSUME IInv, NEW c \in Conns, AddSession(c)
  PROVE  Registry'
<1> DEFINE m == login[c]
<1>1. /\ m \in Logins
      /\ config[m] \in User
      /\ pc[c] = "admitted"
      /\ c \notin sessions[m]
  BY DEF IInv, TypeOK, AddSession, Registry, RegistryMatchesHandlers
<1>2. RegistryMatchesHandlers'
  <2> SUFFICES ASSUME NEW l \in Logins
               PROVE  sessions'[l] = {d \in Conns : pc'[d] = "serving" /\ login'[d] = l}
    BY DEF RegistryMatchesHandlers
  <2>1. sessions[l] = {d \in Conns : pc[d] = "serving" /\ login[d] = l}
    BY DEF IInv, Registry, RegistryMatchesHandlers
  <2>2. \A d \in Conns : pc'[d] = IF d = c THEN "serving" ELSE pc[d]
    BY DEF AddSession, IInv, TypeOK
  <2>3. sessions'[l] = IF l = m THEN sessions[l] \cup {c} ELSE sessions[l]
    BY DEF AddSession, IInv, TypeOK
  <2>4. login' = login
    BY DEF AddSession
  <2>5. QED
    BY <1>1, <2>1, <2>2, <2>3, <2>4
<1>3. \A l \in Logins \ {m} : Live(l)' = Live(l)
  BY DEF Live, AddSession, IInv, TypeOK
<1>4. Live(m)' \subseteq sessions[m] \cup {c}
  BY DEF Live, AddSession, IInv, TypeOK, Registry, RegistryMatchesHandlers
<1>5. RemovedUserHasNoSession'
  BY <1>1, <1>3 DEF RemovedUserHasNoSession, IInv, Registry, AddSession
<1>6. ASSUME config[m].max > 0
      PROVE  Cardinality(Live(m)') <= config[m].max
  <2>1. IsFiniteSet(sessions[m])
    BY <1>1, ConnsAssumption, FS_Subset DEF IInv, TypeOK
  <2>2. /\ IsFiniteSet(sessions[m] \cup {c})
        /\ Cardinality(sessions[m] \cup {c}) = Cardinality(sessions[m]) + 1
    BY <1>1, <2>1, FS_AddElement
  <2>3. /\ Cardinality(Live(m)') <= Cardinality(sessions[m] \cup {c})
        /\ Cardinality(Live(m)') \in Nat
    BY <1>4, <2>2, FS_Subset, FS_CardinalityType
  <2>4. Cardinality(sessions[m]) \in Nat /\ config[m].max \in Nat
    BY <1>1, <2>1, FS_CardinalityType DEF User
  <2>5. Cardinality(sessions[m]) < config[m].max
    BY <1>6, <2>4 DEF AddSession, Full
  <2>6. QED
    BY <2>2, <2>3, <2>4, <2>5
<1>7. LiveWithinLimit'
  BY <1>3, <1>6 DEF LiveWithinLimit, IInv, Registry, AddSession
<1>8. QED
  BY <1>2, <1>5, <1>7 DEF Registry

(* The one step that takes a session out of the registry.                  *)
LEMMA DeleteSessionKeepsRegistry ==
  ASSUME IInv, NEW c \in Conns, DeleteSession(c)
  PROVE  Registry'
<1> DEFINE m == login[c]
<1>1. m \in Logins /\ pc[c] = "serving" /\ closed[c]
  BY DEF IInv, TypeOK, DeleteSession
<1>2. /\ pc'[c] = "idle"
      /\ \A d \in Conns \ {c} : /\ pc'[d] = pc[d]
                                /\ login'[d] = login[d]
                                /\ closed'[d] = closed[d]
  BY ReturnType DEF IInv, DeleteSession
<1>3. RegistryMatchesHandlers'
  <2> SUFFICES ASSUME NEW l \in Logins
               PROVE  sessions'[l] = {d \in Conns : pc'[d] = "serving" /\ login'[d] = l}
    BY DEF RegistryMatchesHandlers
  <2>1. sessions[l] = {d \in Conns : pc[d] = "serving" /\ login[d] = l}
    BY DEF IInv, Registry, RegistryMatchesHandlers
  <2>2. sessions'[l] = IF l = m THEN sessions[l] \ {c} ELSE sessions[l]
    BY DEF DeleteSession, IInv, TypeOK
  <2>3. QED
    BY <1>1, <1>2, <2>1, <2>2
<1>4. \A l \in Logins : Live(l)' = Live(l)
  BY <1>1, <1>2 DEF Live
<1>5. QED
  BY <1>3, <1>4 DEF Registry, LiveWithinLimit, RemovedUserHasNoSession, IInv, DeleteSession

LEMMA HandlerKeepsRegistry ==
  ASSUME IInv, panic = "none", NEW c \in Conns, handleConn(c), TypeOK'
  PROVE  Registry' /\ Stopped'
<1>1. ASSUME panic' = panic PROVE Stopped'
  BY <1>1 DEF Stopped
<1>2. ASSUME Return(c), pc[c] # "serving", UNCHANGED <<config, sessions>>
      PROVE  Registry'
  BY <1>2, ReturnType, QuietStep DEF IInv
<1>3. CASE HandshakeFails(c)
  BY <1>1, <1>2, <1>3 DEF HandshakeFails
<1>4. CASE getUserByLogin(c)
  <2>1. CASE config[login[c]] # NoUser /\ addr[c] \in config[login[c]].from
    <3>1. \A d \in Conns : pc'[d] = "serving" <=> pc[d] = "serving"
      BY <1>4, <2>1 DEF getUserByLogin, IInv, TypeOK
    <3>2. UNCHANGED <<config, sessions, login, closed, panic>>
      BY <1>4, <2>1 DEF getUserByLogin
    <3>3. QED
      BY <1>1, <3>1, <3>2, QuietStep DEF IInv, TypeOK
  <2>2. CASE ~(config[login[c]] # NoUser /\ addr[c] \in config[login[c]].from)
    BY <1>1, <1>2, <1>4, <2>2 DEF getUserByLogin
  <2>3. QED
    BY <2>1, <2>2
<1>5. CASE AddSession(c)
  BY <1>1, <1>5, AddSessionKeepsRegistry DEF AddSession
<1>6. CASE AddSessionRefused(c)
  BY <1>1, <1>2, <1>6 DEF AddSessionRefused
<1>7. CASE AddSessionPanics(c)
  BY <1>7, CrashEmpties DEF AddSessionPanics
<1>8. CASE DeleteSession(c)
  BY <1>1, <1>8, DeleteSessionKeepsRegistry DEF DeleteSession
<1>9. QED
  BY <1>3, <1>4, <1>5, <1>6, <1>7, <1>8 DEF handleConn

LEMMA ClientKeepsRegistry ==
  ASSUME IInv, panic = "none", NEW c \in Conns, Client(c)
  PROVE  Registry' /\ Stopped'
<1>1. /\ UNCHANGED <<config, sessions, panic>>
      /\ \A d \in Conns : /\ pc'[d] = "serving" <=> pc[d] = "serving"
                          /\ pc[d] = "serving" => /\ login'[d] = login[d]
                                                  /\ closed[d] => closed'[d]
      /\ closed' \in [Conns -> BOOLEAN]
  <2>1. ASSUME NEW a \in Addrs, Accept(c, a) PROVE <1>1!:
    BY <2>1 DEF Accept, IInv, TypeOK
  <2>2. ASSUME NEW l \in Logins, NEW p \in Passwords, getUserByPassword(c, l, p)
        PROVE  <1>1!:
    BY <2>2 DEF getUserByPassword, Authenticated, IInv, TypeOK
  <2>3. ASSUME NEW k \in Keys, getUserByPublicKey(c, k) PROVE <1>1!:
    BY <2>3 DEF getUserByPublicKey, Authenticated, IInv, TypeOK
  <2>4. CASE Disconnect(c)
    BY <2>4 DEF Disconnect, IInv, TypeOK
  <2>5. QED
    BY <2>1, <2>2, <2>3, <2>4 DEF Client
<1>2. Registry'
  BY <1>1, QuietStep DEF IInv
<1>3. Stopped'
  BY <1>1 DEF Stopped
<1>4. QED
  BY <1>2, <1>3

LEMMA LoadKeepsRegistry ==
  ASSUME IInv, NEW cfg \in Configs, TypeOK',
         \/ panic = "none" /\ (LoadConfig(cfg) \/ HangupPanics(cfg) \/ UpdatePanics(cfg))
         \/ Start(cfg)
  PROVE  Registry' /\ Stopped'
<1>1. CASE panic = "none" /\ LoadConfig(cfg)
  <2>1. \A l \in Logins : Live(l)' = {}
    <3> SUFFICES ASSUME NEW l \in Logins, NEW c \in Conns,
                        pc[c] = "serving", login[c] = l
                 PROVE  closed'[c]
      BY <1>1 DEF LoadConfig, Live
    <3>1. c \in Registered
      BY DEF IInv, Registry, RegistryMatchesHandlers, Registered
    <3>2. QED
      BY <1>1, <3>1 DEF LoadConfig
  <2>2. RegistryMatchesHandlers'
    BY <1>1 DEF LoadConfig, IInv, Registry, RegistryMatchesHandlers
  <2>3. QED
    BY <1>1, <2>1, <2>2, EmptyStep DEF LoadConfig, Stopped
<1>2. CASE HangupPanics(cfg)
  BY <1>2, CrashEmpties DEF HangupPanics
<1>3. CASE panic = "none" /\ UpdatePanics(cfg)
  BY <1>3, QuietStep DEF UpdatePanics, connVars, IInv, TypeOK, Stopped
<1>4. CASE Start(cfg)
  <2>1. \A c \in Conns : pc[c] = "idle"
    BY <1>4 DEF Start, IInv, Stopped
  <2>2. \A l \in Logins : Live(l)' = {}
    BY <1>4, <2>1 DEF Start, connVars, Live
  <2>3. RegistryMatchesHandlers'
    BY <1>4 DEF Start, connVars, IInv, Registry, RegistryMatchesHandlers
  <2>4. QED
    BY <1>4, <2>2, <2>3, EmptyStep DEF Start, Stopped
<1>5. QED
  BY <1>1, <1>2, <1>3, <1>4

LEMMA InitIInv == Init => IInv
<1> SUFFICES ASSUME Init PROVE IInv
  OBVIOUS
<1>1. TypeOK /\ Stopped
  BY InitTypeOK DEF Init, Stopped
<1>2. RegistryMatchesHandlers /\ \A l \in Logins : Live(l) = {}
  BY DEF Init, RegistryMatchesHandlers, Live
<1>3. LiveWithinLimit
  <2> SUFFICES ASSUME NEW l \in Logins, config[l] # NoUser
               PROVE  Cardinality(Live(l)) <= config[l].max
    BY DEF LiveWithinLimit
  <2>1. config[l].max \in Nat
    BY <1>1 DEF TypeOK, User
  <2>2. Cardinality(Live(l)) = 0
    BY <1>2, FS_EmptySet
  <2>3. QED
    BY <2>1, <2>2
<1>4. QED
  BY <1>1, <1>2, <1>3 DEF IInv, Registry, RemovedUserHasNoSession

LEMMA NextIInv == IInv /\ [Next]_vars => IInv'
<1> SUFFICES ASSUME IInv, [Next]_vars PROVE IInv'
  OBVIOUS
<1>1. ASSUME panic = "none", NEW c \in Conns, handleConn(c) PROVE IInv'
  BY <1>1, HandlerTypeOK, HandlerKeepsRegistry DEF IInv
<1>2. ASSUME panic = "none", NEW c \in Conns, Client(c) PROVE IInv'
  BY <1>2, ClientTypeOK, ClientKeepsRegistry DEF IInv
<1>3. ASSUME NEW cfg \in Configs,
             \/ panic = "none" /\ (LoadConfig(cfg) \/ HangupPanics(cfg) \/ UpdatePanics(cfg))
             \/ Start(cfg)
      PROVE  IInv'
  BY <1>3, LoadTypeOK, LoadKeepsRegistry DEF IInv
<1>4. CASE UNCHANGED vars
  BY <1>4, QuietStep DEF vars, connVars, IInv, TypeOK, Stopped
<1>5. QED
  BY <1>1, <1>2, <1>3, <1>4 DEF Next

LEMMA InductiveInvariant == Spec => []IInv
BY InitIInv, NextIInv, PTL DEF Spec

(* The registry never leaks a slot or frees one in use.                    *)
THEOREM RegistryExact == Spec => []RegistryMatchesHandlers
<1>1. IInv => RegistryMatchesHandlers
  BY DEF IInv, Registry
<1>2. QED
  BY <1>1, InductiveInvariant, PTL

(* max_sessions of the configuration in force bounds the live sessions,    *)
(* however loads, disconnects and admissions interleave.                   *)
THEOREM LimitHolds == Spec => []LiveWithinLimit
<1>1. IInv => LiveWithinLimit
  BY DEF IInv, Registry
<1>2. QED
  BY <1>1, InductiveInvariant, PTL

(* Removing a user and reloading ends its sessions.                        *)
THEOREM RemovalHolds == Spec => []RemovedUserHasNoSession
<1>1. IInv => RemovedUserHasNoSession
  BY DEF IInv, Registry
<1>2. QED
  BY <1>1, InductiveInvariant, PTL

-----------------------------------------------------------------------------
(* The fingerprint map.                                                    *)

LEMMA LoadedUser ==
  ASSUME NEW cfg \in Configs, NEW l \in Logins
  PROVE  /\ Loaded(cfg)[l] # NoUser <=> cfg[l] # NoUser
         /\ cfg[l] # NoUser => Loaded(cfg)[l].key = cfg[l].key
<1>1. CASE Empty(cfg[l])
  <2>1. cfg[l] \in User
    BY <1>1, ConfigsAssumption DEF Empty
  <2>2. /\ [cfg[l] EXCEPT !.from = Addrs] \in User
        /\ [cfg[l] EXCEPT !.from = Addrs].key = cfg[l].key
    BY <2>1 DEF User
  <2>3. Loaded(cfg)[l] = [cfg[l] EXCEPT !.from = Addrs]
    BY <1>1 DEF Loaded
  <2>4. QED
    BY <2>1, <2>2, <2>3, NoUserAssumption
<1>2. CASE ~Empty(cfg[l])
  BY <1>2 DEF Loaded
<1>3. QED
  BY <1>1, <1>2

LEMMA LoadedKeepsKeys ==
  ASSUME NEW cfg \in Configs
  PROVE  KeyMaps(Loaded(cfg), Logins) = KeyMaps(cfg, Logins)
<1>1. \A k \in Keys : Owners(Loaded(cfg), Logins, k) = Owners(cfg, Logins, k)
  BY LoadedUser DEF Owners
<1>2. QED
  BY <1>1 DEF KeyMaps

(* Fingerprints and users agree, but after a web update that panicked.     *)
THEOREM KeysAgree == Spec => []KeysOpenTheirLogin
<1>1. Init => KeysOpenTheirLogin
  BY LoadedKeepsKeys DEF Init, KeysOpenTheirLogin
<1>2. KeysOpenTheirLogin /\ [Next]_vars => KeysOpenTheirLogin'
  <2> SUFFICES ASSUME KeysOpenTheirLogin, [Next]_vars PROVE KeysOpenTheirLogin'
    OBVIOUS
  <2>1. ASSUME NEW cfg \in Configs, LoadConfig(cfg) \/ Start(cfg)
        PROVE  KeysOpenTheirLogin'
    BY <2>1, LoadedKeepsKeys DEF LoadConfig, Start, KeysOpenTheirLogin
  <2>2. ASSUME NEW cfg \in Configs, UpdatePanics(cfg) PROVE KeysOpenTheirLogin'
    BY <2>2 DEF UpdatePanics, KeysOpenTheirLogin
  <2>3. ASSUME UNCHANGED <<config, keymap, unwound>> PROVE KeysOpenTheirLogin'
    BY <2>3 DEF KeysOpenTheirLogin, KeyMaps, Owners
  <2>4. ASSUME NEW cfg \in Configs, HangupPanics(cfg)
        PROVE  UNCHANGED <<config, keymap, unwound>>
    BY <2>4 DEF HangupPanics, Crash
  <2>5. ASSUME NEW c \in Conns, handleConn(c)
        PROVE  UNCHANGED <<config, keymap, unwound>>
    BY <2>5 DEF handleConn, HandshakeFails, getUserByLogin, AddSession,
                AddSessionRefused, AddSessionPanics, Crash, DeleteSession
  <2>6. ASSUME NEW c \in Conns, Client(c)
        PROVE  UNCHANGED <<config, keymap, unwound>>
    BY <2>6 DEF Client, Accept, getUserByPassword, getUserByPublicKey,
                Authenticated, Disconnect
  <2>7. CASE UNCHANGED vars
    BY <2>3, <2>7 DEF vars
  <2>8. QED
    BY <2>1, <2>2, <2>3, <2>4, <2>5, <2>6, <2>7 DEF Next
<1>3. QED
  BY <1>1, <1>2, PTL DEF Spec

-----------------------------------------------------------------------------
(* Admission.  README.md:236 fails (AdmissionSurvivesReload) because a     *)
(* load can remove a login that is being admitted.  That is the only way:  *)
(* if all the configurations of an operator have the same logins, whatever *)
(* else they change, then no reload stops the server in AddSession.        *)

SameLogins == \A a, b \in Configs, l \in Logins : a[l] = NoUser <=> b[l] = NoUser

Configured(l) == \A cfg \in Configs : cfg[l] # NoUser

AdmittedIsConfigured ==
  /\ \A l \in Logins : config[l] # NoUser <=> Configured(l)
  /\ \A c \in Conns : pc[c] = "admitted" => Configured(login[c])
  /\ panic # "AddSession"

LEMMA LoadedKeepsLogins ==
  ASSUME SameLogins, NEW cfg \in Configs, NEW l \in Logins
  PROVE  Loaded(cfg)[l] # NoUser <=> Configured(l)
BY LoadedUser DEF SameLogins, Configured

LEMMA HandlerIsConfigured ==
  ASSUME TypeOK, AdmittedIsConfigured, NEW c \in Conns, handleConn(c) \/ Client(c)
  PROVE  AdmittedIsConfigured'
<1>1. CASE getUserByLogin(c)
  <2>1. config' = config /\ panic' = panic
    BY <1>1 DEF getUserByLogin
  <2>2. \A d \in Conns \ {c} : pc'[d] = pc[d] /\ login'[d] = login[d]
    BY <1>1 DEF getUserByLogin, Return, TypeOK
  <2>3. pc'[c] = "admitted" => Configured(login'[c])
    BY <1>1 DEF getUserByLogin, Return, TypeOK, AdmittedIsConfigured
  <2>4. QED
    BY <2>1, <2>2, <2>3 DEF AdmittedIsConfigured
<1>2. CASE AddSessionPanics(c)
  BY <1>2 DEF AddSessionPanics, AdmittedIsConfigured, TypeOK
<1>3. CASE \/ HandshakeFails(c) \/ AddSession(c) \/ AddSessionRefused(c)
           \/ DeleteSession(c) \/ Client(c)
  <2>1. /\ config' = config /\ panic' = panic
        /\ \A d \in Conns : pc'[d] = "admitted" => pc[d] = "admitted" /\ login'[d] = login[d]
    BY <1>3 DEF HandshakeFails, AddSession, AddSessionRefused, DeleteSession, Return, Client,
                Accept, getUserByPassword, getUserByPublicKey, Authenticated, Disconnect, TypeOK
  <2>2. QED
    BY <2>1 DEF AdmittedIsConfigured
<1>4. QED
  BY <1>1, <1>2, <1>3 DEF handleConn

LEMMA LoadKeepsConfigured ==
  ASSUME SameLogins, AdmittedIsConfigured, NEW cfg \in Configs,
         LoadConfig(cfg) \/ HangupPanics(cfg) \/ UpdatePanics(cfg) \/ Start(cfg)
  PROVE  AdmittedIsConfigured'
<1>1. CASE LoadConfig(cfg) \/ Start(cfg)
  BY <1>1, LoadedKeepsLogins DEF LoadConfig, Start, connVars, AdmittedIsConfigured
<1>2. CASE HangupPanics(cfg)
  BY <1>2 DEF HangupPanics, Crash, AdmittedIsConfigured
<1>3. CASE UpdatePanics(cfg)
  BY <1>3 DEF UpdatePanics, connVars, AdmittedIsConfigured
<1>4. QED
  BY <1>1, <1>2, <1>3

(* Reloads that remove and add no login never stop an admission.           *)
THEOREM AdmissionsSurvive ==
  ASSUME SameLogins
  PROVE  Spec => []AdmissionSurvivesReload
<1>1. Init => AdmittedIsConfigured
  BY LoadedKeepsLogins DEF Init, AdmittedIsConfigured
<1>2. TypeOK /\ AdmittedIsConfigured /\ [Next]_vars => AdmittedIsConfigured'
  <2>1. ASSUME UNCHANGED vars, AdmittedIsConfigured PROVE AdmittedIsConfigured'
    BY <2>1 DEF vars, connVars, AdmittedIsConfigured
  <2>2. QED
    BY <2>1, HandlerIsConfigured, LoadKeepsConfigured DEF Next
<1>3. AdmittedIsConfigured => AdmissionSurvivesReload
  BY DEF AdmittedIsConfigured, AdmissionSurvivesReload
<1>4. QED
  BY <1>1, <1>2, <1>3, TypeCorrect, PTL DEF Spec

-----------------------------------------------------------------------------
(* Stale records.  Handlers and clients leave the configuration and the    *)
(* records of open sessions alone; a load or a crash leaves no session     *)
(* open that it could make stale.                                          *)

LEMMA SteadyRecord ==
  ASSUME IInv, NEW c \in Conns, handleConn(c) \/ Client(c),
         NEW d \in Conns, Stale(d)'
  PROVE  Stale(d) \/ pc[d] = "admitted"
<1>1. CASE HandshakeFails(c)
  BY <1>1 DEF HandshakeFails, Return, IInv, TypeOK, Stale
<1>2. CASE getUserByLogin(c)
  BY <1>2 DEF getUserByLogin, Return, IInv, TypeOK, Stale
<1>3. CASE AddSession(c) \/ AddSessionRefused(c)
  BY <1>3 DEF AddSession, AddSessionRefused, Return, IInv, TypeOK, Stale
<1>4. CASE AddSessionPanics(c)
  BY <1>4 DEF AddSessionPanics, Crash, Stale
<1>5. CASE DeleteSession(c)
  BY <1>5 DEF DeleteSession, Return, IInv, TypeOK, Stale
<1>6. CASE Client(c)
  <2>1. ASSUME NEW a \in Addrs, Accept(c, a) PROVE Stale(d)
    BY <2>1 DEF Accept, IInv, TypeOK, Stale
  <2>2. ASSUME NEW l \in Logins, NEW p \in Passwords, getUserByPassword(c, l, p)
        PROVE  Stale(d)
    BY <2>2 DEF getUserByPassword, Authenticated, IInv, TypeOK, Stale
  <2>3. ASSUME NEW k \in Keys, getUserByPublicKey(c, k) PROVE Stale(d)
    BY <2>3 DEF getUserByPublicKey, Authenticated, IInv, TypeOK, Stale
  <2>4. CASE Disconnect(c)
    BY <2>4 DEF Disconnect, IInv, TypeOK, Stale
  <2>5. QED
    BY <1>6, <2>1, <2>2, <2>3, <2>4 DEF Client
<1>7. QED
  BY <1>1, <1>2, <1>3, <1>4, <1>5, <1>6 DEF handleConn

LEMMA LoadLeavesNoneStale ==
  ASSUME IInv, NEW cfg \in Configs, NEW d \in Conns, Stale(d)',
         \/ panic = "none" /\ (LoadConfig(cfg) \/ HangupPanics(cfg) \/ UpdatePanics(cfg))
         \/ Start(cfg)
  PROVE  Stale(d)
<1>1. CASE LoadConfig(cfg)
  <2>1. pc[d] = "serving" /\ d \notin Registered
    BY <1>1 DEF LoadConfig, Stale
  <2>2. login[d] \in Logins
    BY <2>1 DEF IInv, TypeOK
  <2>3. QED
    BY <2>1, <2>2 DEF IInv, Registry, RegistryMatchesHandlers, Registered
<1>2. CASE HangupPanics(cfg)
  BY <1>2 DEF HangupPanics, Crash, Stale
<1>3. CASE UpdatePanics(cfg)
  BY <1>3 DEF UpdatePanics, connVars, Stale
<1>4. CASE Start(cfg)
  BY <1>4 DEF Start, connVars, IInv, Stopped, Stale
<1>5. QED
  BY <1>1, <1>2, <1>3, <1>4

(* Only a load during the admission of a connection makes a stale session. *)
THEOREM StaleByAdmission == Spec => StaleOnlyByAdmission
<1>1. IInv /\ [Next]_vars =>
        [\A c \in Conns : ~Stale(c) /\ Stale(c)' => pc[c] = "admitted"]_vars
  <2> SUFFICES ASSUME IInv, Next, NEW d \in Conns, Stale(d)'
               PROVE  Stale(d) \/ pc[d] = "admitted"
    OBVIOUS
  <2>1. QED
    BY SteadyRecord, LoadLeavesNoneStale DEF Next
<1>2. QED
  BY <1>1, InductiveInvariant, PTL DEF Spec, StaleOnlyByAdmission

-----------------------------------------------------------------------------
(* The safety half of what HandlersGoOn (Server) says of closed sessions:  *)
(* one whose connection is closed holds its slot until its own handler     *)
(* returns, which a jammed one may never do (sftp.go:84), or the process   *)
(* ends, and is out of the registry from then on.  No load, panic or other *)
(* handler opens it again, or frees its slot in between (sftp.go:65).      *)

Closing(c) == pc[c] = "serving" /\ closed[c]

Leaves(c) == pc'[c] = "idle" /\ c \notin Registered'

ClosingOnlyLeaves == [][\A c \in Conns : Closing(c) => Closing(c)' \/ Leaves(c)]_vars

LEMMA ClosingStays ==
  ASSUME IInv, NEW c \in Conns, handleConn(c) \/ Client(c), NEW d \in Conns, Closing(d)
  PROVE  Closing(d)' \/ pc'[d] = "idle"
<1>1. CASE HandshakeFails(c)
  BY <1>1 DEF HandshakeFails, Return, IInv, TypeOK, Closing
<1>2. CASE getUserByLogin(c)
  BY <1>2 DEF getUserByLogin, Return, IInv, TypeOK, Closing
<1>3. CASE AddSession(c) \/ AddSessionRefused(c)
  BY <1>3 DEF AddSession, AddSessionRefused, Return, IInv, TypeOK, Closing
<1>4. CASE AddSessionPanics(c)
  BY <1>4 DEF AddSessionPanics, Crash
<1>5. CASE DeleteSession(c)
  BY <1>5 DEF DeleteSession, Return, IInv, TypeOK, Closing
<1>6. CASE Client(c)
  <2>1. ASSUME NEW a \in Addrs, Accept(c, a) PROVE Closing(d)'
    BY <2>1 DEF Accept, IInv, TypeOK, Closing
  <2>2. ASSUME NEW l \in Logins, Authenticated(c, l) PROVE Closing(d)'
    BY <2>2 DEF Authenticated, IInv, TypeOK, Closing
  <2>3. CASE Disconnect(c)
    BY <2>3 DEF Disconnect, IInv, TypeOK, Closing
  <2>4. \A k \in Keys : keymap[k] # None => keymap[k] \in Logins
    BY DEF IInv, TypeOK
  <2>5. QED
    BY <1>6, <2>1, <2>2, <2>3, <2>4 DEF Client, getUserByPassword, getUserByPublicKey
<1>7. QED
  BY <1>1, <1>2, <1>3, <1>4, <1>5, <1>6 DEF handleConn

LEMMA LoadKeepsClosing ==
  ASSUME IInv, NEW cfg \in Configs, NEW d \in Conns, Closing(d),
         LoadConfig(cfg) \/ HangupPanics(cfg) \/ UpdatePanics(cfg) \/ Start(cfg)
  PROVE  Closing(d)' \/ pc'[d] = "idle"
<1>1. CASE LoadConfig(cfg)
  BY <1>1 DEF LoadConfig, Closing
<1>2. CASE HangupPanics(cfg)
  BY <1>2 DEF HangupPanics, Crash
<1>3. CASE UpdatePanics(cfg) \/ Start(cfg)
  BY <1>3 DEF UpdatePanics, Start, connVars, Closing
<1>4. QED
  BY <1>1, <1>2, <1>3

(* A closed session stays closed and keeps its slot until it leaves.       *)
THEOREM ClosedOnlyLeave == Spec => ClosingOnlyLeaves
<1>1. IInv /\ IInv' /\ [Next]_vars
        => [\A c \in Conns : Closing(c) => Closing(c)' \/ Leaves(c)]_vars
  <2> SUFFICES ASSUME IInv, IInv', Next, NEW d \in Conns, Closing(d)
               PROVE  Closing(d)' \/ Leaves(d)
    OBVIOUS
  <2>1. Closing(d)' \/ pc'[d] = "idle"
    BY ClosingStays, LoadKeepsClosing DEF Next
  <2>2. pc'[d] = "idle" => d \notin Registered'
    BY DEF IInv, Registry, RegistryMatchesHandlers, Registered
  <2>3. QED
    BY <2>1, <2>2 DEF Leaves
<1>2. QED
  BY <1>1, InductiveInvariant, PTL DEF Spec, ClosingOnlyLeaves

-----------------------------------------------------------------------------
(* The sessions implement SessionLimit.                                    *)

(* A step that changes neither the live sessions nor the limits.           *)
LEMMA StutterStep ==
  ASSUME config' = config, \A l \in Logins : Live(l)' = Live(l)
  PROVE  UNCHANGED <<liveMap, limitMap>>
BY DEF liveMap, limitMap

(* A step that leaves nothing live is a Reconfigure, whatever the limits.  *)
LEMMA EmptyingStep ==
  ASSUME TypeOK', \A l \in Logins : Live(l)' = {}
  PROVE  Abstract!Reconfigure
<1>1. liveMap' = [l \in Logins |-> {}]
  BY DEF liveMap
<1>2. limitMap' \in [Logins -> Nat \cup {None}]
  BY DEF TypeOK, User, Limit, limitMap
<1>3. QED
  BY <1>1, <1>2 DEF Abstract!Reconfigure

(* Only a connection that is still open when it is registered opens a      *)
(* session; the limit that AddSession reads is the abstract one.           *)
LEMMA AddSessionOpens ==
  ASSUME IInv, NEW c \in Conns, AddSession(c)
  PROVE  Abstract!Open(login[c], c) \/ UNCHANGED <<liveMap, limitMap>>
<1> DEFINE m == login[c]
<1>1. /\ m \in Logins
      /\ config[m] \in User
      /\ pc[c] = "admitted"
  BY DEF IInv, TypeOK, AddSession
<1>2. /\ \A d \in Conns : pc'[d] = IF d = c THEN "serving" ELSE pc[d]
      /\ UNCHANGED <<config, login, closed>>
  BY DEF AddSession, IInv, TypeOK
<1>3. CASE closed[c]
  <2>1. \A l \in Logins : Live(l)' = Live(l)
    BY <1>1, <1>2, <1>3 DEF Live
  <2>2. QED
    BY <1>2, <2>1, StutterStep
<1>4. CASE ~closed[c]
  <2>1. /\ Live(m)' = Live(m) \cup {c}
        /\ \A l \in Logins \ {m} : Live(l)' = Live(l)
    BY <1>1, <1>2, <1>4 DEF Live
  <2>2. liveMap' = [liveMap EXCEPT ![m] = @ \cup {c}] /\ limitMap' = limitMap
    BY <1>1, <1>2, <2>1 DEF liveMap, limitMap
  <2>3. \A l \in Logins : c \notin liveMap[l]
    BY <1>1 DEF liveMap, Live
  <2>4. limitMap[m] = config[m].max /\ config[m].max \in Nat
    BY <1>1, NoUserAssumption DEF limitMap, Limit, User
  <2>5. limitMap[m] # None
    BY <2>4, NoneAssumption
  <2>6. limitMap[m] = 0 \/ Cardinality(liveMap[m]) < limitMap[m]
    <3>1. Cardinality(Live(m)) <= Cardinality(sessions[m])
      <4>1. sessions[m] \in SUBSET Conns /\ Live(m) \in SUBSET sessions[m]
        BY <1>1 DEF IInv, TypeOK, Registry, RegistryMatchesHandlers, Live
      <4>2. QED
        BY <4>1, ConnsAssumption, FS_Subset
    <3>2. Cardinality(sessions[m]) \in Nat
      BY <1>1, ConnsAssumption, FS_Subset, FS_CardinalityType DEF IInv, TypeOK
    <3>3. config[m].max > 0 => Cardinality(sessions[m]) < config[m].max
      BY <2>4, <3>2 DEF AddSession, Full
    <3>4. liveMap[m] = Live(m)
      BY <1>1 DEF liveMap
    <3>5. QED
      BY <1>1, <2>4, <3>1, <3>2, <3>3, <3>4, LiveFinite
  <2>7. Abstract!Cardinality(liveMap[m]) = Cardinality(liveMap[m])
    BY DEF Abstract!Cardinality, Cardinality
  <2>8. QED
    BY <2>2, <2>3, <2>5, <2>6, <2>7 DEF Abstract!Open
<1>5. QED
  BY <1>3, <1>4

(* A disconnect closes a session if the connection had one.                *)
LEMMA DisconnectCloses ==
  ASSUME IInv, NEW c \in Conns, Disconnect(c)
  PROVE  Abstract!Close(login[c], c) \/ UNCHANGED <<liveMap, limitMap>>
<1>1. /\ \A d \in Conns : closed'[d] = IF d = c THEN TRUE ELSE closed[d]
      /\ UNCHANGED <<config, pc, login>>
      /\ ~closed[c]
  BY DEF Disconnect, IInv, TypeOK
<1>2. CASE pc[c] = "serving"
  <2>1. login[c] \in Logins /\ c \in Live(login[c])
    BY <1>1, <1>2 DEF IInv, TypeOK, Live
  <2>2. /\ Live(login[c])' = Live(login[c]) \ {c}
        /\ \A l \in Logins \ {login[c]} : Live(l)' = Live(l)
    BY <1>1, <1>2 DEF Live
  <2>3. /\ liveMap' = [liveMap EXCEPT ![login[c]] = @ \ {c}]
        /\ limitMap' = limitMap
        /\ c \in liveMap[login[c]]
    BY <1>1, <2>1, <2>2 DEF liveMap, limitMap
  <2>4. QED
    BY <2>3 DEF Abstract!Close
<1>3. CASE pc[c] # "serving"
  <2>1. \A l \in Logins : Live(l)' = Live(l)
    BY <1>1, <1>3 DEF Live
  <2>2. QED
    BY <1>1, <2>1, StutterStep
<1>4. QED
  BY <1>2, <1>3

(* The handlers' other steps show nothing of themselves: what they end     *)
(* was not a live session.                                                 *)
LEMMA HandlerImplements ==
  ASSUME IInv, NEW c \in Conns, handleConn(c), TypeOK'
  PROVE  [Abstract!Next]_<<liveMap, limitMap>>
<1>1. ASSUME Return(c), pc[c] # "serving" \/ closed[c], config' = config
      PROVE  UNCHANGED <<liveMap, limitMap>>
  <2>1. \A l \in Logins : Live(l)' = Live(l)
    BY <1>1, ReturnType DEF IInv, Live
  <2>2. QED
    BY <1>1, <2>1, StutterStep
<1>2. CASE HandshakeFails(c) \/ AddSessionRefused(c) \/ DeleteSession(c)
  BY <1>1, <1>2 DEF HandshakeFails, AddSessionRefused, DeleteSession
<1>3. CASE getUserByLogin(c)
  <2>1. CASE config[login[c]] # NoUser /\ addr[c] \in config[login[c]].from
    <3>1. \A l \in Logins : Live(l)' = Live(l)
      BY <1>3, <2>1 DEF getUserByLogin, IInv, TypeOK, Live
    <3>2. config' = config
      BY <1>3 DEF getUserByLogin
    <3>3. QED
      BY <3>1, <3>2, StutterStep
  <2>2. CASE ~(config[login[c]] # NoUser /\ addr[c] \in config[login[c]].from)
    BY <1>1, <1>3, <2>2 DEF getUserByLogin
  <2>3. QED
    BY <2>1, <2>2
<1>4. CASE AddSession(c)
  <2>1. login[c] \in Logins
    BY <1>4 DEF AddSession, IInv, TypeOK
  <2>2. QED
    BY <1>4, <2>1, AddSessionOpens DEF Abstract!Next
<1>5. CASE AddSessionPanics(c)
  <2>1. \A l \in Logins : Live(l)' = {}
    BY <1>5 DEF AddSessionPanics, Crash, Live
  <2>2. QED
    BY <2>1, EmptyingStep DEF Abstract!Next
<1>6. QED
  BY <1>2, <1>3, <1>4, <1>5 DEF handleConn

LEMMA ClientImplements ==
  ASSUME IInv, NEW c \in Conns, Client(c)
  PROVE  [Abstract!Next]_<<liveMap, limitMap>>
<1>1. ASSUME config' = config, \A l \in Logins : Live(l)' = Live(l)
      PROVE  UNCHANGED <<liveMap, limitMap>>
  BY <1>1, StutterStep
<1>2. ASSUME NEW a \in Addrs, Accept(c, a) PROVE UNCHANGED <<liveMap, limitMap>>
  BY <1>1, <1>2 DEF Accept, IInv, TypeOK, Live
<1>3. ASSUME NEW l \in Logins, NEW p \in Passwords, getUserByPassword(c, l, p)
      PROVE  UNCHANGED <<liveMap, limitMap>>
  BY <1>1, <1>3 DEF getUserByPassword, Authenticated, IInv, TypeOK, Live
<1>4. ASSUME NEW k \in Keys, getUserByPublicKey(c, k)
      PROVE  UNCHANGED <<liveMap, limitMap>>
  BY <1>1, <1>4 DEF getUserByPublicKey, Authenticated, IInv, TypeOK, Live
<1>5. CASE Disconnect(c)
  <2>1. CASE login[c] \in Logins
    BY <1>5, <2>1, DisconnectCloses DEF Abstract!Next
  <2>2. CASE login[c] \notin Logins
    <3>1. c \notin Live(login[c]) /\ pc[c] # "serving"
      BY <2>2 DEF IInv, TypeOK, Live
    <3>2. \A l \in Logins : Live(l)' = Live(l)
      BY <1>5, <3>1 DEF Disconnect, IInv, TypeOK, Live
    <3>3. QED
      BY <1>1, <1>5, <3>2 DEF Disconnect
  <2>3. QED
    BY <2>1, <2>2
<1>6. QED
  BY <1>2, <1>3, <1>4, <1>5 DEF Client

LEMMA LoadImplements ==
  ASSUME IInv, NEW cfg \in Configs, TypeOK',
         \/ panic = "none" /\ (LoadConfig(cfg) \/ HangupPanics(cfg) \/ UpdatePanics(cfg))
         \/ Start(cfg)
  PROVE  [Abstract!Next]_<<liveMap, limitMap>>
<1>1. CASE LoadConfig(cfg)
  <2>1. \A l \in Logins : Live(l)' = {}
    <3> SUFFICES ASSUME NEW l \in Logins, NEW c \in Conns,
                        pc[c] = "serving", login[c] = l
                 PROVE  closed'[c]
      BY <1>1 DEF LoadConfig, Live
    <3>1. c \in Registered
      BY DEF IInv, Registry, RegistryMatchesHandlers, Registered
    <3>2. QED
      BY <1>1, <3>1 DEF LoadConfig
  <2>2. QED
    BY <2>1, EmptyingStep DEF Abstract!Next
<1>2. CASE HangupPanics(cfg)
  <2>1. \A l \in Logins : Live(l)' = {}
    BY <1>2 DEF HangupPanics, Crash, Live
  <2>2. QED
    BY <2>1, EmptyingStep DEF Abstract!Next
<1>3. CASE UpdatePanics(cfg)
  BY <1>3, StutterStep DEF UpdatePanics, connVars, Live
<1>4. CASE Start(cfg)
  <2>1. \A l \in Logins : Live(l)' = {}
    BY <1>4 DEF Start, connVars, IInv, Stopped, Live
  <2>2. QED
    BY <2>1, EmptyingStep DEF Abstract!Next
<1>5. QED
  BY <1>1, <1>2, <1>3, <1>4

(* Whatever goroutines and loads interleave, the server behaves like the   *)
(* abstract limit on sessions.                                             *)
THEOREM ImplementsLimit == Spec => ImplementsSessionLimit
<1>1. Init => Abstract!Init
  <2> SUFFICES ASSUME Init PROVE Abstract!Init
    OBVIOUS
  <2>1. liveMap = [l \in Logins |-> {}]
    BY DEF Init, liveMap, Live
  <2>2. limitMap \in [Logins -> Nat \cup {None}]
    BY InitTypeOK DEF TypeOK, User, Limit, limitMap
  <2>3. QED
    BY <2>1, <2>2 DEF Abstract!Init
<1>2. IInv /\ IInv' /\ [Next]_vars => [Abstract!Next]_<<liveMap, limitMap>>
  <2> SUFFICES ASSUME IInv, IInv', [Next]_vars
               PROVE  [Abstract!Next]_<<liveMap, limitMap>>
    OBVIOUS
  <2>1. TypeOK'
    BY DEF IInv
  <2>2. ASSUME NEW c \in Conns, handleConn(c) \/ Client(c)
        PROVE  [Abstract!Next]_<<liveMap, limitMap>>
    BY <2>1, <2>2, HandlerImplements, ClientImplements
  <2>3. ASSUME NEW cfg \in Configs,
               \/ panic = "none" /\ (LoadConfig(cfg) \/ HangupPanics(cfg) \/ UpdatePanics(cfg))
               \/ Start(cfg)
        PROVE  [Abstract!Next]_<<liveMap, limitMap>>
    BY <2>1, <2>3, LoadImplements
  <2>4. CASE UNCHANGED vars
    BY <2>4, StutterStep DEF vars, connVars, Live
  <2>5. QED
    BY <2>2, <2>3, <2>4 DEF Next
<1>3. QED
  BY <1>1, <1>2, InductiveInvariant, PTL DEF Spec, ImplementsSessionLimit, Abstract!Spec
=============================================================================
