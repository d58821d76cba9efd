------------------------------- MODULE Daemon -------------------------------
(***************************************************************************)
(* The processes of the program on one host: the fork of main until init   *)
(* is the parent, the start of a daemon as root, its drop of privileges,   *)
(* and what several starts and reloads do to the files they share.         *)
(*                                                                         *)
(* Two starts may overlap, and a start may find a daemon that already      *)
(* serves.  Whoever owns the configuration file is who can read and write  *)
(* it (mode 0600), root apart.  All documents have the same listen         *)
(* address.  Server looks into the process that serves.                    *)
(***************************************************************************)
EXTENDS Naturals, FiniteSets

CONSTANTS
  Procs,    \* process identifiers
  Docs,     \* documents that LoadConfig can decode
  Broken,   \* the content of a file that it cannot
  NoDoc,    \* s.config before the first load
  Uids,     \* the users a document may name
  Root,     \* who may be one of them: an omitted "uid" is 0
  uidOf,    \* Config.UID
  keyed,    \* documents whose private key can be parsed
  dirOf,    \* who, root apart, can open the directories of the groups
  Init1,    \* process 1
  Shell,    \* any other process that is not ours
  NoProc

ASSUME DocsAssumption == /\ uidOf \in [Docs -> Uids]
                         /\ dirOf \in [Docs -> Uids]
                         /\ keyed \subseteq Docs
                         /\ Broken \notin Docs /\ NoDoc \notin Docs
ASSUME ProcsAssumption == {Init1, Shell, NoProc} \cap Procs = {} /\ Init1 # Shell

VARIABLES
  pc,       \* where each process is in main
  parent,   \* its parent
  launch,   \* history: the process that the operator started it with
  uid,      \* its user
  named,    \* history: the user that the document of its start names
  conf,     \* its s.config
  file,     \* the content of the configuration file
  owner,    \* the owner of that file
  port,     \* the process that listens on the address
  pidFile,  \* the content of the pid file
  crowded,  \* history: a start saved while a process of another one lived
  strange,  \* history: the file has another owner than the one that the
            \* start of a live process gave it, or could not give it
  unwritten \* history: the last start could not write its pid file

procVars == <<pc, parent, launch, uid, named, conf>>
fileVars == <<file, owner, crowded, strange>>
pidVars  == <<pidFile, unwritten>>
vars     == <<procVars, fileVars, pidVars, port>>

Stages == {"none", "main", "forking", "exiting", "read", "save", "pid", "key", "listen",
           "drop", "accept", "notify", "ready", "saving", "dead"}

At(p, from, to) == pc[p] = from /\ pc' = [pc EXCEPT ![p] = to]

-----------------------------------------------------------------------------
(* From the command to the daemon.                                         *)

(* An operator or init starts the program, as root.                        *)
Launch(p, by) ==
  /\ At(p, "none", "main")
  /\ parent' = [parent EXCEPT ![p] = by]
  /\ launch' = [launch EXCEPT ![p] = p]
  /\ UNCHANGED <<uid, named, conf, fileVars, pidVars, port>>

(* os.Getppid, which is asked once.                                        *)
Getppid(p) ==
  /\ At(p, "main", IF parent[p] = Init1 THEN "read" ELSE "forking")
  /\ UNCHANGED <<parent, launch, uid, named, conf, fileVars, pidVars, port>>

(* Defect: the parent does not exit.                                       *)
SpawnGoesOn(p) ==
  /\ pc[p] = "forking"
  /\ \E q \in Procs :
       /\ pc[q] = "none"
       /\ pc' = [pc EXCEPT ![p] = "read", ![q] = "main"]
       /\ parent' = [parent EXCEPT ![q] = p]
       /\ launch' = [launch EXCEPT ![q] = launch[p]]
  /\ UNCHANGED <<uid, named, conf, fileVars, pidVars, port>>

(* cmd.Start: the child runs main while its parent is still there.         *)
Spawn(p) ==
  /\ pc[p] = "forking"
  /\ \E q \in Procs :
       /\ pc[q] = "none"
       /\ pc' = [pc EXCEPT ![p] = "exiting", ![q] = "main"]
       /\ parent' = [parent EXCEPT ![q] = p]
       /\ launch' = [launch EXCEPT ![q] = launch[p]]
  /\ UNCHANGED <<uid, named, conf, fileVars, pidVars, port>>

(* Its error is not looked at.                                             *)
SpawnFails(p) ==
  /\ At(p, "forking", "exiting")
  /\ UNCHANGED <<parent, launch, uid, named, conf, fileVars, pidVars, port>>

(* A process ends, for whatever reason: its children go to init, its port  *)
(* is free, the files stay.                                                *)
Gone(p) ==
  /\ pc' = [pc EXCEPT ![p] = "dead"]
  /\ parent' = [q \in Procs |-> IF q = p \/ parent[q] = p THEN Init1 ELSE parent[q]]
  /\ launch' = [launch EXCEPT ![p] = NoProc]
  /\ uid' = [uid EXCEPT ![p] = Root]
  /\ named' = [named EXCEPT ![p] = Root]
  /\ conf' = [conf EXCEPT ![p] = NoDoc]
  /\ port' = IF port = p THEN NoProc ELSE port
  /\ UNCHANGED <<fileVars, pidVars>>

Exit(p) == pc[p] = "exiting" /\ Gone(p)

-----------------------------------------------------------------------------
(* New and Start, as root.                                                 *)

LoadConfig(p) ==
  /\ file # Broken
  /\ At(p, "read", "save")
  /\ conf' = [conf EXCEPT ![p] = file]
  /\ named' = [named EXCEPT ![p] = uidOf[file]]
  /\ UNCHANGED <<parent, launch, uid, fileVars, pidVars, port>>

LoadConfigFails(p) == pc[p] = "read" /\ file = Broken /\ Gone(p)

(* The live processes that have saved their configuration.                 *)
Saved == {p \in Procs : pc[p] \in {"pid", "key", "listen", "drop", "accept", "notify",
                                   "ready", "saving"}}

MayOpen(p) == uid[p] \in {owner, Root}

(* saveConfig opens and truncates the file, and its write may be cut off.  *)
Overwrite(p) == MayOpen(p) /\ file' \in {conf[p], Broken}

(* Chown by root.                                                          *)
GiveAway(p) == uid[p] = Root /\ owner' = uidOf[conf[p]]

(* Defect: the file stays with who had it.                                 *)
saveConfigUnchowned(p) ==
  /\ At(p, "save", "pid")
  /\ Overwrite(p)
  /\ crowded' = (Saved # {})
  /\ strange' = (Saved # {} /\ strange)
  /\ UNCHANGED <<parent, launch, uid, named, conf, owner, pidVars, port>>

(* saveConfig of the start.  Neither a failed open nor a failed write or   *)
(* Chown goes further than the log.                                        *)
saveConfig(p) ==
  /\ At(p, "save", "pid")
  /\ \/ /\ Overwrite(p) /\ GiveAway(p)
        /\ strange' = (Saved # {} /\ (strange \/ owner' # owner))
     \/ /\ Overwrite(p) \/ UNCHANGED file
        /\ strange' = (owner # uidOf[conf[p]] \/ (Saved # {} /\ strange))
        /\ UNCHANGED owner
  /\ crowded' = (Saved # {})
  /\ UNCHANGED <<parent, launch, uid, named, conf, pidVars, port>>

(* Defect: the parent writes its own.                                      *)
WriteParentPid(p) ==
  /\ At(p, "pid", "key")
  /\ pidFile' = launch[p]
  /\ unwritten' = FALSE
  /\ UNCHANGED <<parent, launch, uid, named, conf, fileVars, port>>

(* The error of os.WriteFile is dropped: the file is as it was, or empty.  *)
WritePid(p) ==
  /\ At(p, "pid", "key")
  /\ pidFile' \in {p, pidFile, NoProc}
  /\ unwritten' = (pidFile' # p)
  /\ UNCHANGED <<parent, launch, uid, named, conf, fileVars, port>>

setupHostKey(p) ==
  /\ conf[p] \in keyed
  /\ At(p, "key", "listen")
  /\ UNCHANGED <<parent, launch, uid, named, conf, fileVars, pidVars, port>>

(* Defect: the address is shared (SO_REUSEPORT).                           *)
startListenerShared(p) ==
  /\ At(p, "listen", "drop")
  /\ port' = p
  /\ UNCHANGED <<parent, launch, uid, named, conf, fileVars, pidVars>>

startListener(p) ==
  /\ port = NoProc
  /\ At(p, "listen", "drop")
  /\ port' = p
  /\ UNCHANGED <<parent, launch, uid, named, conf, fileVars, pidVars>>

(* log.Fatal: no key, or another daemon has the address.                   *)
StartFails(p) ==
  /\ \/ pc[p] = "key" /\ conf[p] \notin keyed
     \/ pc[p] = "listen" /\ port # NoProc
  /\ Gone(p)

(* Defect: the group is changed, the user is not.                          *)
dropPrivilegesHalf(p) ==
  /\ At(p, "drop", "accept")
  /\ UNCHANGED <<parent, launch, uid, named, conf, fileVars, pidVars, port>>

(* Setgid and Setuid, to root too where the document says so.              *)
dropPrivileges(p) ==
  /\ At(p, "drop", "accept")
  /\ uid' = [uid EXCEPT ![p] = uidOf[conf[p]]]
  /\ UNCHANGED <<parent, launch, named, conf, fileVars, pidVars, port>>

(* The connection handler and the web server start ...                     *)
StartServing(p) ==
  /\ At(p, "accept", "notify")
  /\ UNCHANGED <<parent, launch, uid, named, conf, fileVars, pidVars, port>>

(* ... before signals are handled.                                         *)
Notify(p) ==
  /\ At(p, "notify", "ready")
  /\ UNCHANGED <<parent, launch, uid, named, conf, fileVars, pidVars, port>>

-----------------------------------------------------------------------------
(* The daemon that serves.                                                 *)

(* The directories were opened by root at the start; now the process has   *)
(* only its own rights.                                                    *)
Faulty(p, d) == uid[p] \notin {dirOf[d], Root}

Load(p, d) ==
  /\ At(p, "ready", "saving")
  /\ conf' = [conf EXCEPT ![p] = d]
  /\ UNCHANGED <<parent, launch, uid, named, fileVars, pidVars, port>>

(* A file that cannot be opened or decoded changes nothing.                *)
Hangup(p) == MayOpen(p) /\ file # Broken /\ ~Faulty(p, file) /\ Load(p, file)

(* The nil mapping of a group that has a member is dereferenced.           *)
HangupPanics(p) ==
  pc[p] = "ready" /\ MayOpen(p) /\ file # Broken /\ Faulty(p, file) /\ Gone(p)

(* net/http recovers the same panic.                                       *)
Update(p, d) == ~Faulty(p, d) /\ Load(p, d)

(* saveConfig of a load.  Without the rights of root a file of somebody    *)
(* else cannot be written, and one's own cannot be given away.             *)
Save(p) ==
  /\ At(p, "saving", "ready")
  /\ \/ /\ Overwrite(p) /\ GiveAway(p)
        /\ strange' = (strange \/ (Saved # {p} /\ owner' # owner))
     \/ /\ Overwrite(p) \/ UNCHANGED file
        /\ UNCHANGED <<owner, strange>>
  /\ UNCHANGED <<parent, launch, uid, named, conf, crowded, pidVars, port>>

(* SIGTERM, SIGKILL, a crash; before Notify, SIGHUP too.                   *)
Kill(p) == pc[p] \notin {"none", "dead"} /\ Gone(p)

-----------------------------------------------------------------------------
(* Operators edit the file in place, or put a new one of root's there.     *)
Edit(d) ==
  /\ file' = d
  /\ UNCHANGED <<procVars, owner, crowded, strange, pidVars, port>>

Replace(d) ==
  /\ file' = d
  /\ owner' = Root
  /\ strange' = TRUE
  /\ UNCHANGED <<procVars, crowded, pidVars, port>>

Init ==
  /\ pc = [p \in Procs |-> "none"]
  /\ parent = [p \in Procs |-> Init1]
  /\ launch = [p \in Procs |-> NoProc]
  /\ uid = [p \in Procs |-> Root]
  /\ named = [p \in Procs |-> Root]
  /\ conf = [p \in Procs |-> NoDoc]
  /\ file \in Docs \cup {Broken}
  /\ owner = Root
  /\ port = NoProc
  /\ pidFile = NoProc
  /\ crowded = FALSE /\ unwritten = FALSE
  /\ strange = TRUE

Start(p) ==
  \/ LoadConfig(p) \/ LoadConfigFails(p) \/ saveConfig(p) \/ WritePid(p)
  \/ setupHostKey(p) \/ startListener(p) \/ StartFails(p)
  \/ dropPrivileges(p) \/ StartServing(p) \/ Notify(p)

Serve(p) ==
  \/ Hangup(p) \/ HangupPanics(p) \/ Save(p)
  \/ \E d \in Docs : Update(p, d)

Next ==
  \/ \E p \in Procs :
       \/ Launch(p, Shell) \/ Launch(p, Init1)
       \/ Getppid(p) \/ Spawn(p) \/ SpawnFails(p) \/ Exit(p)
       \/ Start(p) \/ Serve(p) \/ Kill(p)
  \/ \E d \in Docs \cup {Broken} : Edit(d) \/ Replace(d)

Spec == Init /\ [][Next]_vars

-----------------------------------------------------------------------------
(* Correctness.                                                            *)

(* A process has a configuration from its load on, and the one that has    *)
(* the address is past its listen.                                         *)
Loaded == {"save", "pid", "key", "listen", "drop", "accept", "notify", "ready", "saving"}
Bound  == {"drop", "accept", "notify", "ready", "saving"}

TypeOK ==
  /\ pc \in [Procs -> Stages]
  /\ parent \in [Procs -> Procs \cup {Init1, Shell}]
  /\ launch \in [Procs -> Procs \cup {NoProc}]
  /\ uid \in [Procs -> Uids \cup {Root}]
  /\ named \in [Procs -> Uids \cup {Root}]
  /\ conf \in [Procs -> Docs \cup {NoDoc}]
  /\ file \in Docs \cup {Broken}
  /\ owner \in Uids \cup {Root}
  /\ port \in Procs \cup {NoProc}
  /\ pidFile \in Procs \cup {NoProc}
  /\ crowded \in BOOLEAN /\ strange \in BOOLEAN /\ unwritten \in BOOLEAN
  /\ \A p \in Procs : /\ pc[p] \in Loaded => conf[p] \in Docs
                      /\ pc[p] \in Bound <=> port = p

(* However often main forks before it finds init as its parent, one start  *)
(* of the program becomes at most one daemon.                              *)
Daemons(l) == {p \in Procs : launch[p] = l /\ pc[p] \in Loaded \cup {"read"}}

OneDaemonPerLaunch ==
  \A l \in Procs : \A p, q \in Daemons(l) : p = q

(* README.md:189, 249: a daemon serves as the user that the document of    *)
(* its start names, and goes on so whatever documents it loads; as root if *)
(* that says so, or says nothing.                                          *)
ServesAsNamed ==
  \A p \in Procs : pc[p] \in {"notify", "ready", "saving"} => uid[p] = named[p]

(* README.md:239 sends SIGHUP to the process that the pid file names: that *)
(* is the daemon that has the address, whatever earlier starts left there, *)
(* unless it could not write the file, or another start came as far as its *)
(* own save beside it.                                                     *)
PidFileNamesServer ==
  ~crowded /\ ~unwritten => \A p \in Procs : port = p => pidFile = p

(* README.md:235: a daemon whose start gave its configuration file to the  *)
(* user it serves as can read and write it from then on, across its own    *)
(* loads of documents that name other users, as long as nobody replaced    *)
(* the file and no other process gave it away.                             *)
ServerCanReload ==
  ~strange => \A p \in Procs : pc[p] \in {"notify", "ready", "saving"} => MayOpen(p)
=============================================================================
