---------------------------- MODULE DaemonProofs ----------------------------
(***************************************************************************)
(* Proofs about Daemon, for any processes, documents and users.            *)
(***************************************************************************)
EXTENDS Daemon, TLAPS

-----------------------------------------------------------------------------
(* Type correctness.                                                       *)

LEMMA GoneTypeOK ==
  ASSUME TypeOK, NEW p \in Procs, Gone(p)
  PROVE  TypeOK'
<1>1. /\ pc'[p] = "dead" /\ \A q \in Procs \ {p} : pc'[q] = pc[q]
      /\ \A q \in Procs \ {p} : conf'[q] = conf[q]
      /\ pc' \in [Procs -> Stages]
  BY DEF Gone, TypeOK, Stages
<1>2. \A q \in Procs : pc'[q] \in Loaded => conf'[q] \in Docs
  BY <1>1 DEF TypeOK, Loaded
<1>3. \A q \in Procs : pc'[q] \in Bound <=> port' = q
  BY <1>1, ProcsAssumption DEF Gone, TypeOK, Bound
<1>4. /\ parent' \in [Procs -> Procs \cup {Init1, Shell}]
      /\ launch' \in [Procs -> Procs \cup {NoProc}]
      /\ uid' \in [Procs -> Uids \cup {Root}]
      /\ named' \in [Procs -> Uids \cup {Root}]
      /\ conf' \in [Procs -> Docs \cup {NoDoc}]
      /\ port' \in Procs \cup {NoProc}
  BY DEF Gone, TypeOK
<1>5. QED
  BY <1>1, <1>2, <1>3, <1>4 DEF Gone, TypeOK, fileVars, pidVars

LEMMA ForkTypeOK ==
  ASSUME TypeOK, NEW p \in Procs,
         Launch(p, Shell) \/ Launch(p, Init1) \/ Getppid(p) \/ Spawn(p) \/ SpawnFails(p)
  PROVE  TypeOK'
<1>1. CASE Launch(p, Shell) \/ Launch(p, Init1)
  BY <1>1 DEF Launch, At, TypeOK, Stages, Loaded, Bound, fileVars, pidVars
<1>2. CASE Getppid(p) \/ SpawnFails(p)
  BY <1>2 DEF Getppid, SpawnFails, At, TypeOK, Stages, Loaded, Bound, fileVars, pidVars
<1>3. CASE Spawn(p)
  <2>1. PICK q \in Procs : /\ pc[q] = "none"
                           /\ pc' = [pc EXCEPT ![p] = "exiting", ![q] = "main"]
                           /\ parent' = [parent EXCEPT ![q] = p]
                           /\ launch' = [launch EXCEPT ![q] = launch[p]]
    BY <1>3 DEF Spawn
  <2>2. \A r \in Procs \ {p, q} : pc'[r] = pc[r]
    BY <2>1 DEF TypeOK
  <2>3. pc[p] = "forking" /\ pc'[q] = "main" /\ (p # q => pc'[p] = "exiting")
    BY <1>3, <2>1 DEF Spawn, TypeOK
  <2>4. pc' \in [Procs -> Stages]
    BY <2>1 DEF TypeOK, Stages
  <2>5. \A r \in Procs : /\ pc'[r] \in Loaded => pc[r] \in Loaded
                         /\ pc'[r] \in Bound <=> pc[r] \in Bound
    BY <2>1, <2>2, <2>3 DEF Loaded, Bound
  <2>6. QED
    BY <1>3, <2>1, <2>4, <2>5 DEF Spawn, TypeOK, fileVars, pidVars
<1>4. QED
  BY <1>1, <1>2, <1>3

LEMMA StartTypeOK ==
  ASSUME TypeOK, NEW p \in Procs, Start(p)
  PROVE  TypeOK'
<1>1. CASE LoadConfig(p)
  <2>1. file \in Docs /\ uidOf[file] \in Uids
    BY <1>1, DocsAssumption DEF LoadConfig, TypeOK
  <2>2. QED
    BY <1>1, <2>1 DEF LoadConfig, At, TypeOK, Stages, Loaded, Bound, fileVars, pidVars
<1>2. CASE LoadConfigFails(p) \/ StartFails(p)
  BY <1>2, GoneTypeOK DEF LoadConfigFails, StartFails
<1>3. CASE saveConfig(p)
  <2>1. conf[p] \in Docs /\ uidOf[conf[p]] \in Uids
    BY <1>3, DocsAssumption DEF saveConfig, At, TypeOK, Loaded
  <2>2. file' \in Docs \cup {Broken} /\ owner' \in Uids \cup {Root} /\ strange' \in BOOLEAN
    BY <1>3, <2>1 DEF saveConfig, Overwrite, GiveAway, TypeOK
  <2>3. QED
    BY <1>3, <2>1, <2>2 DEF saveConfig, At, TypeOK, Stages, Loaded, Bound, pidVars
<1>4. CASE WritePid(p)
  BY <1>4, ProcsAssumption DEF WritePid, At, TypeOK, Stages, Loaded, Bound, fileVars, pidVars
<1>5. CASE setupHostKey(p) \/ StartServing(p) \/ Notify(p)
  BY <1>5 DEF setupHostKey, StartServing, Notify, At, TypeOK, Stages, Loaded, Bound, fileVars, pidVars
<1>6. CASE startListener(p)
  BY <1>6, ProcsAssumption DEF startListener, At, TypeOK, Stages, Loaded, Bound, fileVars, pidVars
<1>7. CASE dropPrivileges(p)
  <2>1. conf[p] \in Docs /\ uidOf[conf[p]] \in Uids
    BY <1>7, DocsAssumption DEF dropPrivileges, At, TypeOK, Loaded
  <2>2. QED
    BY <1>7, <2>1 DEF dropPrivileges, At, TypeOK, Stages, Loaded, Bound, fileVars, pidVars
<1>8. QED
  BY <1>1, <1>2, <1>3, <1>4, <1>5, <1>6, <1>7 DEF Start

LEMMA ServeTypeOK ==
  ASSUME TypeOK, NEW p \in Procs, Serve(p)
  PROVE  TypeOK'
<1>1. ASSUME NEW d \in Docs, Load(p, d) PROVE TypeOK'
  BY <1>1 DEF Load, At, TypeOK, Stages, Loaded, Bound, fileVars, pidVars
<1>2. CASE Hangup(p)
  BY <1>1, <1>2 DEF Hangup, TypeOK
<1>3. CASE HangupPanics(p)
  BY <1>3, GoneTypeOK DEF HangupPanics
<1>4. CASE Save(p)
  <2>1. conf[p] \in Docs /\ uidOf[conf[p]] \in Uids
    BY <1>4, DocsAssumption DEF Save, At, TypeOK, Loaded
  <2>2. file' \in Docs \cup {Broken} /\ owner' \in Uids \cup {Root} /\ strange' \in BOOLEAN
    BY <1>4, <2>1 DEF Save, Overwrite, GiveAway, TypeOK
  <2>3. QED
    BY <1>4, <2>1, <2>2 DEF Save, At, TypeOK, Stages, Loaded, Bound, pidVars
<1>5. QED
  BY <1>1, <1>2, <1>3, <1>4 DEF Serve, Update

LEMMA TypeStep == TypeOK /\ [Next]_vars => TypeOK'
<1>1. SUFFICES ASSUME TypeOK, [Next]_vars PROVE TypeOK'
  OBVIOUS
<1>2. CASE UNCHANGED vars
  BY <1>1, <1>2 DEF vars, procVars, fileVars, pidVars, TypeOK
<1>3. ASSUME NEW p \in Procs, Exit(p) \/ Kill(p) PROVE TypeOK'
  BY <1>1, <1>3, GoneTypeOK DEF Exit, Kill
<1>4. ASSUME NEW d \in Docs \cup {Broken}, Edit(d) \/ Replace(d) PROVE TypeOK'
  BY <1>1, <1>4 DEF Edit, Replace, TypeOK, procVars, pidVars
<1>5. QED
  BY <1>1, <1>2, <1>3, <1>4, ForkTypeOK, StartTypeOK, ServeTypeOK DEF Next

(* Types hold, a process that is past its load has a configuration, and    *)
(* the process that has the address is exactly the one past its listen.    *)
THEOREM TypeCorrect == Spec => []TypeOK
<1>1. Init => TypeOK
  BY ProcsAssumption DEF Init, TypeOK, Stages, Loaded, Bound
<1>2. QED
  BY <1>1, TypeStep, PTL DEF Spec

-----------------------------------------------------------------------------
(* One daemon for each launch.                                             *)

Active == {"main", "forking", "read"} \cup Loaded

(* Of the processes of a launch at most one is neither about to exit nor   *)
(* dead; and a launch is named after a process that has been used.         *)
Alone ==
  /\ \A p, q \in Procs : pc[p] \in Active /\ pc[q] \in Active /\ launch[p] = launch[q] => p = q
  /\ \A p \in Procs : launch[p] \in Procs => pc[launch[p]] # "none"
  /\ \A p \in Procs : pc[p] \in Active => launch[p] \in Procs
  /\ \A p \in Procs : pc[p] = "forking" => launch[p] \in Procs

(* A process moves within its launch.                                      *)
LEMMA MoveAlone ==
  ASSUME TypeOK, Alone, NEW p \in Procs, NEW from, NEW to, At(p, from, to), UNCHANGED launch,
         to \in Active => from \in Active, to # "none"
  PROVE  Alone'
<1>1. pc'[p] = to /\ pc[p] = from /\ \A q \in Procs \ {p} : pc'[q] = pc[q]
  BY DEF At, TypeOK
<1>2. \A q \in Procs : pc'[q] \in Active => pc[q] \in Active
  BY <1>1
<1>3. \A q \in Procs : pc[q] # "none" => pc'[q] # "none"
  BY <1>1
<1>4. \A q \in Procs : pc'[q] = "forking" => launch[q] \in Procs
  BY <1>2 DEF Alone, Active
<1>5. QED
  BY <1>2, <1>3, <1>4 DEF Alone

LEMMA GoneAlone ==
  ASSUME TypeOK, Alone, NEW p \in Procs, Gone(p)
  PROVE  Alone'
<1>1. /\ pc'[p] = "dead" /\ launch'[p] = NoProc
      /\ \A q \in Procs \ {p} : pc'[q] = pc[q] /\ launch'[q] = launch[q]
  BY DEF Gone, TypeOK
<1>2. QED
  BY <1>1, ProcsAssumption DEF Alone, Active, Loaded

LEMMA SpawnAlone ==
  ASSUME TypeOK, Alone, NEW p \in Procs, Spawn(p)
  PROVE  Alone'
<1>1. PICK q \in Procs : /\ pc[q] = "none"
                         /\ pc' = [pc EXCEPT ![p] = "exiting", ![q] = "main"]
                         /\ launch' = [launch EXCEPT ![q] = launch[p]]
  BY DEF Spawn
<1>2. pc[p] = "forking" /\ p # q
  BY <1>1 DEF Spawn
<1>3. /\ pc'[p] = "exiting" /\ launch'[p] = launch[p]
      /\ pc'[q] = "main" /\ launch'[q] = launch[p]
      /\ \A r \in Procs \ {p, q} : pc'[r] = pc[r] /\ launch'[r] = launch[r]
  BY <1>1, <1>2 DEF TypeOK
<1>4. \A r \in Procs \ {p} : pc[r] \in Active => launch[r] # launch[p]
  BY <1>2 DEF Alone, Active
<1>5. launch[p] \in Procs
  BY <1>2 DEF Alone
<1>6. QED
  BY <1>2, <1>3, <1>4, <1>5 DEF Alone, Active, Loaded

LEMMA LaunchAlone ==
  ASSUME TypeOK, Alone, NEW p \in Procs, NEW by, Launch(p, by)
  PROVE  Alone'
<1>1. /\ pc[p] = "none" /\ pc'[p] = "main" /\ launch'[p] = p
      /\ \A q \in Procs \ {p} : pc'[q] = pc[q] /\ launch'[q] = launch[q]
  BY DEF Launch, At, TypeOK
<1>2. \A q \in Procs : launch[q] # p
  BY <1>1 DEF Alone
<1>3. QED
  BY <1>1, <1>2 DEF Alone

LEMMA AloneStep == TypeOK /\ Alone /\ [Next]_vars => Alone'
<1>1. SUFFICES ASSUME TypeOK, Alone, [Next]_vars PROVE Alone'
  OBVIOUS
<1>2. CASE UNCHANGED <<pc, launch>>
  BY <1>1, <1>2 DEF Alone
<1>3. ASSUME NEW p \in Procs, Gone(p) PROVE Alone'
  BY <1>1, <1>3, GoneAlone
<1>4. ASSUME NEW p \in Procs, Getppid(p) \/ SpawnFails(p) PROVE Alone'
  <2>1. PICK from \in Active, to \in {"read", "forking", "exiting"} :
          At(p, from, to) /\ UNCHANGED launch
    BY <1>4 DEF Getppid, SpawnFails, Active
  <2>2. QED
    BY <1>1, <2>1, MoveAlone
<1>5. ASSUME NEW p \in Procs, Start(p) PROVE Alone'
  <2>1. CASE LoadConfigFails(p) \/ StartFails(p)
    BY <1>3, <2>1 DEF LoadConfigFails, StartFails
  <2>2. CASE ~(LoadConfigFails(p) \/ StartFails(p))
    <3>1. PICK from \in Active, to \in Loaded : At(p, from, to) /\ UNCHANGED launch
      BY <1>5, <2>2 DEF Start, LoadConfig, saveConfig, WritePid, setupHostKey, startListener,
                        dropPrivileges, StartServing, Notify, Active, Loaded
    <3>2. QED
      BY <1>1, <3>1, MoveAlone DEF Loaded
  <2>3. QED
    BY <2>1, <2>2
<1>6. ASSUME NEW p \in Procs, Serve(p) PROVE Alone'
  <2>1. CASE HangupPanics(p)
    BY <1>3, <2>1 DEF HangupPanics
  <2>2. CASE ~HangupPanics(p)
    <3>1. PICK from \in Active, to \in Loaded : At(p, from, to) /\ UNCHANGED launch
      BY <1>6, <2>2 DEF Serve, Hangup, Update, Load, Save, Active, Loaded
    <3>2. QED
      BY <1>1, <3>1, MoveAlone DEF Loaded
  <2>3. QED
    BY <2>1, <2>2
<1>7. ASSUME NEW d, Edit(d) \/ Replace(d) PROVE Alone'
  BY <1>2, <1>7 DEF Edit, Replace, procVars
<1>8. CASE UNCHANGED vars
  BY <1>2, <1>8 DEF vars, procVars
<1>9. QED
  BY <1>1, <1>3, <1>4, <1>5, <1>6, <1>7, <1>8, SpawnAlone, LaunchAlone DEF Next, Exit, Kill

(* Whatever forks run before init becomes the parent, and whichever of     *)
(* them fail, a launch has at most one daemon.                             *)
THEOREM OneDaemon == Spec => []OneDaemonPerLaunch
<1>1. Init => Alone
  BY ProcsAssumption DEF Init, Alone, Active, Loaded
<1>2. Alone => OneDaemonPerLaunch
  BY DEF Alone, OneDaemonPerLaunch, Daemons, Active
<1>3. QED
  BY <1>1, <1>2, AloneStep, TypeCorrect, PTL DEF Spec

-----------------------------------------------------------------------------
(* Privileges and files.                                                   *)

Dropped == {"accept", "notify", "ready", "saving"}

(* A process has root's rights until dropPrivileges, and from then on      *)
(* those of the user that the document of its start named.                 *)
Privileges ==
  \A p \in Procs :
    /\ uid[p] = IF pc[p] \in Dropped THEN named[p] ELSE Root
    /\ pc[p] \in Loaded \ Dropped => named[p] = uidOf[conf[p]]

(* The file belongs to the user of every process that has saved.           *)
Owned == ~strange => \A p \in Saved : named[p] \in {owner, Root}

(* One process has saved, and the pid file names it once it is written.    *)
Named == ~crowded => /\ \A p, q \in Saved : p = q
                     /\ ~unwritten => \A p \in Saved : pc[p] # "pid" => pidFile = p

Files == Privileges /\ Owned /\ Named

LEMMA GoneFiles ==
  ASSUME TypeOK, Files, NEW p \in Procs, Gone(p)
  PROVE  Files'
<1>1. /\ pc'[p] = "dead" /\ uid'[p] = Root
      /\ \A q \in Procs \ {p} : /\ pc'[q] = pc[q] /\ uid'[q] = uid[q]
                                /\ named'[q] = named[q] /\ conf'[q] = conf[q]
      /\ UNCHANGED <<owner, crowded, strange, pidFile, unwritten>>
  BY DEF Gone, TypeOK, fileVars, pidVars
<1>2. Saved' = Saved \ {p} /\ \A q \in Saved' : named'[q] = named[q] /\ pc'[q] = pc[q]
  BY <1>1 DEF Saved
<1>3. Privileges'
  BY <1>1 DEF Files, Privileges, Dropped, Loaded
<1>4. QED
  BY <1>1, <1>2, <1>3 DEF Files, Owned, Named

(* A move that neither saves nor drops privileges.                         *)
LEMMA MoveFiles ==
  ASSUME TypeOK, Files, NEW p \in Procs, NEW from, NEW to, At(p, from, to),
         UNCHANGED <<uid, named, owner, crowded, strange, pidFile, unwritten>>,
         \A q \in Procs \ {p} : conf'[q] = conf[q],
         from \in Dropped <=> to \in Dropped,
         from \in Loaded <=> to \in Loaded,
         p \in Saved <=> p \in Saved',
         p \in Saved => from # "pid" /\ to # "pid",
         from \in Loaded \ Dropped => conf'[p] = conf[p]
  PROVE  Files'
<1>1. pc'[p] = to /\ pc[p] = from /\ \A q \in Procs \ {p} : pc'[q] = pc[q]
  BY DEF At, TypeOK
<1>2. Saved' = Saved
  BY <1>1 DEF Saved
<1>3. Privileges'
  BY <1>1 DEF Files, Privileges
<1>4. \A q \in Saved : pc'[q] # "pid" => pc[q] # "pid"
  BY <1>1 DEF Saved
<1>5. Owned'
  BY <1>2 DEF Files, Owned
<1>6. Named'
  BY <1>2, <1>4 DEF Files, Named
<1>7. QED
  BY <1>3, <1>5, <1>6 DEF Files

LEMMA LoadConfigFiles ==
  ASSUME TypeOK, Files, NEW p \in Procs, LoadConfig(p)
  PROVE  Files'
<1>1. /\ pc[p] = "read" /\ pc'[p] = "save" /\ named'[p] = uidOf[conf'[p]]
      /\ \A q \in Procs \ {p} : pc'[q] = pc[q] /\ named'[q] = named[q] /\ conf'[q] = conf[q]
      /\ UNCHANGED <<uid, owner, crowded, strange, pidFile, unwritten>>
  BY DEF LoadConfig, At, TypeOK, fileVars, pidVars
<1>2. Saved' = Saved /\ \A q \in Saved : q # p
  BY <1>1 DEF Saved
<1>3. \A q \in Saved : named'[q] = named[q] /\ pc'[q] = pc[q]
  BY <1>1, <1>2 DEF Saved
<1>4. Privileges'
  BY <1>1 DEF Files, Privileges, Dropped, Loaded
<1>5. QED
  BY <1>1, <1>2, <1>3, <1>4 DEF Files, Owned, Named

LEMMA SaveConfigFiles ==
  ASSUME TypeOK, Files, NEW p \in Procs, saveConfig(p)
  PROVE  Files'
<1>1. /\ pc[p] = "save" /\ pc'[p] = "pid"
      /\ UNCHANGED <<uid, named, conf, pidFile, unwritten>>
      /\ \A q \in Procs \ {p} : pc'[q] = pc[q]
  BY DEF saveConfig, At, TypeOK, pidVars
<1>2. Saved' = Saved \cup {p} /\ p \notin Saved
  BY <1>1 DEF Saved
<1>3. Privileges'
  BY <1>1 DEF Files, Privileges, Dropped, Loaded
<1>4. named[p] = uidOf[conf[p]]
  BY <1>1 DEF Files, Privileges, Dropped, Loaded
<1>5. \/ owner' = uidOf[conf[p]] /\ strange' = (Saved # {} /\ (strange \/ owner' # owner))
      \/ owner' = owner /\ strange' = (owner # uidOf[conf[p]] \/ (Saved # {} /\ strange))
  BY DEF saveConfig, GiveAway
<1>6. ~strange' => owner' = named[p] /\ (Saved # {} => ~strange /\ owner' = owner)
  BY <1>4, <1>5
<1>7. Owned'
  <2> SUFFICES ASSUME ~strange', NEW q \in Saved' PROVE named[q] \in {owner', Root}
    BY <1>1 DEF Owned
  <2>1. CASE q = p
    BY <1>6, <2>1
  <2>2. CASE q # p
    BY <1>2, <1>6, <2>2 DEF Files, Owned
  <2>3. QED
    BY <2>1, <2>2
<1>8. Named'
  BY <1>1, <1>2 DEF saveConfig, Named
<1>9. QED
  BY <1>3, <1>7, <1>8 DEF Files

LEMMA WritePidFiles ==
  ASSUME TypeOK, Files, NEW p \in Procs, WritePid(p)
  PROVE  Files'
<1>1. /\ pc[p] = "pid" /\ pc'[p] = "key" /\ (~unwritten' => pidFile' = p)
      /\ UNCHANGED <<uid, named, conf, owner, crowded, strange>>
      /\ \A q \in Procs \ {p} : pc'[q] = pc[q]
  BY DEF WritePid, At, TypeOK, fileVars
<1>2. Saved' = Saved /\ p \in Saved
  BY <1>1 DEF Saved
<1>3. Privileges'
  BY <1>1 DEF Files, Privileges, Dropped, Loaded
<1>4. QED
  BY <1>1, <1>2, <1>3 DEF Files, Owned, Named

LEMMA DropFiles ==
  ASSUME TypeOK, Files, NEW p \in Procs, dropPrivileges(p)
  PROVE  Files'
<1>1. /\ pc[p] = "drop" /\ pc'[p] = "accept" /\ uid'[p] = uidOf[conf[p]]
      /\ \A q \in Procs \ {p} : pc'[q] = pc[q] /\ uid'[q] = uid[q]
      /\ UNCHANGED <<named, conf, owner, crowded, strange, pidFile, unwritten>>
  BY DEF dropPrivileges, At, TypeOK, fileVars, pidVars
<1>2. Saved' = Saved
  BY <1>1 DEF Saved
<1>3. Privileges'
  BY <1>1 DEF Files, Privileges, Dropped, Loaded
<1>4. \A q \in Saved : pc'[q] # "pid" => pc[q] # "pid"
  BY <1>1 DEF Saved
<1>5. Owned'
  BY <1>1, <1>2 DEF Files, Owned
<1>6. Named'
  BY <1>1, <1>2, <1>4 DEF Files, Named
<1>7. QED
  BY <1>3, <1>5, <1>6 DEF Files

LEMMA StartFiles ==
  ASSUME TypeOK, Files, NEW p \in Procs, Start(p)
  PROVE  Files'
<1>1. CASE LoadConfigFails(p) \/ StartFails(p)
  BY <1>1, GoneFiles DEF LoadConfigFails, StartFails
<1>2. CASE setupHostKey(p) \/ StartServing(p) \/ Notify(p)
  BY <1>2, MoveFiles
     DEF setupHostKey, StartServing, Notify, At, TypeOK, Saved, Dropped, Loaded, fileVars, pidVars
<1>3. CASE startListener(p)
  BY <1>3, MoveFiles DEF startListener, At, TypeOK, Saved, Dropped, Loaded, fileVars, pidVars
<1>4. QED
  BY <1>1, <1>2, <1>3, LoadConfigFiles, SaveConfigFiles, WritePidFiles, DropFiles DEF Start

(* Only a daemon that serves as root gives the file away.                  *)
LEMMA SaveFiles ==
  ASSUME TypeOK, Files, NEW p \in Procs, Save(p)
  PROVE  Files'
<1>1. /\ pc[p] = "saving" /\ pc'[p] = "ready"
      /\ UNCHANGED <<uid, named, conf, crowded, pidFile, unwritten>>
      /\ \A q \in Procs \ {p} : pc'[q] = pc[q]
  BY DEF Save, At, TypeOK, pidVars
<1>2. Saved' = Saved
  BY <1>1 DEF Saved
<1>3. Privileges'
  BY <1>1 DEF Files, Privileges, Dropped, Loaded
<1>4. \A q \in Saved : pc'[q] # "pid" => pc[q] # "pid"
  BY <1>1 DEF Saved
<1>5. Named'
  BY <1>1, <1>2, <1>4 DEF Files, Named
<1>6. CASE UNCHANGED <<owner, strange>>
  BY <1>1, <1>2, <1>3, <1>5, <1>6 DEF Files, Owned
<1>7. CASE uid[p] = Root /\ strange' = (strange \/ (Saved # {p} /\ owner' # owner))
  <2>1. named[p] = Root
    BY <1>1, <1>7 DEF Files, Privileges, Dropped
  <2>2. Owned'
    BY <1>1, <1>2, <1>7, <2>1 DEF Files, Owned
  <2>3. QED
    BY <1>3, <1>5, <2>2 DEF Files
<1>8. QED
  BY <1>6, <1>7 DEF Save, GiveAway

LEMMA ServeFiles ==
  ASSUME TypeOK, Files, NEW p \in Procs, Serve(p)
  PROVE  Files'
<1>1. ASSUME NEW d, Load(p, d) PROVE Files'
  BY <1>1, MoveFiles DEF Load, At, TypeOK, Saved, Dropped, Loaded, fileVars, pidVars
<1>2. CASE HangupPanics(p)
  BY <1>2, GoneFiles DEF HangupPanics
<1>3. QED
  BY <1>1, <1>2, SaveFiles DEF Serve, Hangup, Update

LEMMA ForkFiles ==
  ASSUME TypeOK, Files, NEW p \in Procs,
         Launch(p, Shell) \/ Launch(p, Init1) \/ Getppid(p) \/ Spawn(p) \/ SpawnFails(p)
  PROVE  Files'
<1>1. UNCHANGED <<uid, named, conf, owner, crowded, strange, pidFile, unwritten>>
  BY DEF Launch, Getppid, Spawn, SpawnFails, fileVars, pidVars
<1>2. \A q \in Procs : pc'[q] # pc[q] =>
        pc[q] \in {"none", "main", "forking"} /\ pc'[q] \in {"main", "read", "forking", "exiting"}
  BY DEF Launch, Getppid, Spawn, SpawnFails, At, TypeOK
<1>3. Saved' = Saved /\ \A q \in Saved : pc'[q] = pc[q]
  BY <1>2 DEF Saved
<1>4. Privileges'
  BY <1>1, <1>2 DEF Files, Privileges, Dropped, Loaded
<1>5. QED
  BY <1>1, <1>3, <1>4 DEF Files, Owned, Named

LEMMA FilesStep == TypeOK /\ Files /\ [Next]_vars => Files'
<1>1. SUFFICES ASSUME TypeOK, Files, [Next]_vars PROVE Files'
  OBVIOUS
<1>2. CASE UNCHANGED vars
  BY <1>1, <1>2 DEF vars, procVars, fileVars, pidVars, Files, Privileges, Owned, Named, Saved
<1>3. ASSUME NEW p \in Procs, Exit(p) \/ Kill(p) PROVE Files'
  BY <1>1, <1>3, GoneFiles DEF Exit, Kill
<1>4. ASSUME NEW d, Edit(d) \/ Replace(d) PROVE Files'
  BY <1>1, <1>4 DEF Edit, Replace, procVars, pidVars, Files, Privileges, Owned, Named, Saved
<1>5. QED
  BY <1>1, <1>2, <1>3, <1>4, ForkFiles, StartFiles, ServeFiles DEF Next

LEMMA FilesAlways == Spec => []Files
<1>1. Init => Files
  BY DEF Init, Files, Privileges, Owned, Named, Saved, Dropped, Loaded
<1>2. QED
  BY <1>1, FilesStep, TypeCorrect, PTL DEF Spec

(* A daemon serves as the user that the document of its start named,       *)
(* whatever documents it and other processes load and save meanwhile.      *)
THEOREM ServiceAsNamed == Spec => []ServesAsNamed
<1>1. Files => ServesAsNamed
  BY DEF Files, Privileges, ServesAsNamed, Dropped
<1>2. QED
  BY <1>1, FilesAlways, PTL

(* The pid file names the process that has the address, as long as it      *)
(* could be written and no two starts were past their save at once.        *)
THEOREM PidFileIsRight == Spec => []PidFileNamesServer
<1>1. TypeOK /\ Files => PidFileNamesServer
  BY DEF TypeOK, Bound, Files, Named, Saved, PidFileNamesServer
<1>2. QED
  BY <1>1, FilesAlways, TypeCorrect, PTL

(* A serving process can open its configuration file, whatever documents   *)
(* it loads and users it names in them, as long as its start could give it *)
(* the file and nobody else gave it away or replaced it.                   *)
THEOREM ReloadIsPossible == Spec => []ServerCanReload
<1>1. Files => ServerCanReload
  BY DEF Files, Privileges, Owned, Saved, Dropped, MayOpen, ServerCanReload
<1>2. QED
  BY <1>1, FilesAlways, PTL
=============================================================================
