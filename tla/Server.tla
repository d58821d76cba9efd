------------------------------- MODULE Server -------------------------------
(***************************************************************************)
(* One running process: the mutex that every connection and request takes, *)
(* the signal loop of main, and the configuration file that SIGHUP reads   *)
(* and every load writes.                                                  *)
(*                                                                         *)
(* A section that cannot block while it holds SFTPD.mutex is one action,   *)
(* enabled while nobody holds it.  Two sections are not like that and keep *)
(* "holder": ExportConfig writes to its client, who may not read, and      *)
(* LoadConfig saves the file, which others write too.  A configuration is  *)
(* the document it was loaded from; Sessions, AdminToken and ConfigStore   *)
(* look into it, and into the loads that panic.                            *)
(***************************************************************************)
EXTENDS Naturals, Sequences

CONSTANTS
  Conns,     \* goroutines of handleConn
  Reqs,      \* goroutines of net/http
  Main,      \* the goroutine of main, which receives the signals
  NoOne,     \* the mutex is free
  Docs,      \* documents that LoadConfig can decode
  Broken,    \* the content of a file that it cannot
  NoDoc,     \* no document
  QueueCap   \* the buffer of main's channel (16 in the code)

Actors  == Conns \cup Reqs \cup {Main}
Signals == {"HUP", "TERM"}

ASSUME QueueAssumption == QueueCap \in Nat \ {0}
ASSUME ActorsAssumption == /\ Main \notin Conns \cup Reqs
                           /\ Conns \cap Reqs = {}
                           /\ NoOne \notin Actors
ASSUME DocsAssumption == {Broken, NoDoc} \cap Docs = {} /\ Broken # NoDoc

VARIABLES
  pc,        \* where each goroutine is
  holder,    \* who holds the mutex across steps
  config,    \* s.config
  file,      \* the content of s.configFile
  unsaved,   \* history: the last save failed or was cut off
  pending,   \* signals sent and not yet handed to the channel; equal ones merge
  sigq,      \* main's channel
  edit,      \* history: what an operator wrote last, until a load read it
  signalled, \* history: SIGHUP was sent after that edit
  lost       \* history: a signalled edit was overwritten before it was read

fileVars == <<file, unsaved, edit, signalled, lost>>
sigVars  == <<pending, sigq>>
vars     == <<pc, holder, config, fileVars, sigVars>>

Running == pc[Main] # "exited"

Go(a, to) == pc' = [pc EXCEPT ![a] = to]

(* A section that does not block: mutex.Lock and, at its end, Unlock.      *)
Section(a, from, to) ==
  /\ pc[a] = from
  /\ holder = NoOne
  /\ Go(a, to)
  /\ UNCHANGED <<holder, config, fileVars, sigVars>>

(* A step outside the mutex that touches nothing shared.                   *)
Local(a, from, to) ==
  /\ pc[a] = from
  /\ Go(a, to)
  /\ UNCHANGED <<holder, config, fileVars, sigVars>>

-----------------------------------------------------------------------------
(* SSH connections.                                                        *)

(* getUserByPassword or getUserByPublicKey, in a callback of the handshake;*)
(* a refused client may try again, which is a new handshake here (three    *)
(* tries are allowed).                                                     *)
Credential(c) == \E to \in {"lookup", "idle"} : Section(c, "credential", to)

getUserByLogin(c) == \E to \in {"add", "idle"} : Section(c, "lookup", to)

(* Defect: a refused session returns without Unlock.                       *)
AddSessionKeepsLock(c) ==
  \/ Section(c, "add", "serving")
  \/ /\ pc[c] = "add"
     /\ holder = NoOne
     /\ holder' = c
     /\ Go(c, "idle")
     /\ UNCHANGED <<config, fileVars, sigVars>>

AddSession(c) == \E to \in {"serving", "idle"} : Section(c, "add", to)

DeleteSession(c) == Section(c, "delete", "idle")

(* Defect: no deadline is set, so that only a client that offers something *)
(* gets an end.                                                            *)
HandshakeFailsUntimed(c) == holder = NoOne /\ Local(c, "credential", "idle")

(* The ten-second deadline ends a handshake that is not in a callback, and *)
(* so does a client that goes away.                                        *)
HandshakeFails(c) == Local(c, "handshake", "idle")

(* The connection is closed and the loop over its channels sees it.        *)
ChannelsEnd(c) == Local(c, "closed", "delete")

handleConn(c) ==
  \/ HandshakeFails(c) \/ Credential(c) \/ getUserByLogin(c) \/ AddSession(c)
  \/ ChannelsEnd(c) \/ DeleteSession(c)

(* What clients do: connect, offer a credential, and leave, unless a load  *)
(* closes the session.  One that goes on sending channel requests after it *)
(* asked for sftp jams its connection: nobody reads them while Serve runs, *)
(* nor after it, the multiplexer waits for ever to hand one over, and the  *)
(* loop over the channels never sees the end of the connection.            *)
ConnOutside(c) ==
  \/ Local(c, "idle", "handshake")
  \/ Local(c, "handshake", "credential")
  \/ Local(c, "serving", "closed")
  \/ Local(c, "serving", "jammed")

-----------------------------------------------------------------------------
(* HTTP requests.                                                          *)

(* isIPAllowed: refused, or a static file; handleLogin goes on to set a    *)
(* token, the page and authWrapper to compare one.                         *)
isIPAllowed(r) == \E to \in {"idle", "token", "settoken"} : Section(r, "filter", to)

(* isValidToken: refused, or the page; handleConfig exports, or has read a *)
(* document from the client and loads it.                                  *)
isValidToken(r) == \E to \in {"idle", "export", "load"} : Section(r, "token", to)

(* handleLogin, handleLogout and the end of an update.                     *)
SetToken(r) == Section(r, "settoken", "idle")

(* ExportConfig writes to the client with the mutex held ...               *)
ExportConfig(r) ==
  /\ pc[r] = "export"
  /\ holder = NoOne
  /\ holder' = r
  /\ Go(r, "writing")
  /\ UNCHANGED <<config, fileVars, sigVars>>

(* ... and returns when the client has read, or its connection broke.      *)
ExportEnds(r) ==
  /\ pc[r] = "writing"
  /\ holder' = NoOne
  /\ Go(r, "idle")
  /\ UNCHANGED <<config, fileVars, sigVars>>

ReqOutside(r) ==
  \/ Local(r, "idle", "filter")
  \/ Local(r, "idle", "settoken")

-----------------------------------------------------------------------------
(* LoadConfig and its save.                                                *)

(* Defect: LoadConfig unlocks before it saves.                             *)
LoadUnlocked(a, d) ==
  /\ pc[a] = "load"
  /\ holder = NoOne
  /\ config' = d
  /\ Go(a, "saving")
  /\ UNCHANGED <<holder, sigVars>>

Load(a, d) ==
  /\ pc[a] = "load"
  /\ holder = NoOne
  /\ holder' = a
  /\ config' = d
  /\ Go(a, "saving")
  /\ UNCHANGED sigVars

(* The signal loop reads the file; one that cannot be decoded is left.     *)
HangupLoads ==
  /\ file # Broken
  /\ Load(Main, file)
  /\ edit' = NoDoc
  /\ signalled' = FALSE
  /\ lost' = FALSE
  /\ UNCHANGED <<file, unsaved>>

HangupRefused ==
  /\ file = Broken
  /\ pc[Main] = "load"
  /\ holder = NoOne
  /\ Go(Main, "receive")
  /\ signalled' = FALSE
  /\ lost' = FALSE
  /\ UNCHANGED <<holder, config, file, unsaved, edit, sigVars>>

(* The document that the request has read from its client.                 *)
UpdateLoads(r) == \E d \in Docs : Load(r, d) /\ UNCHANGED fileVars

(* What is written over an edit that no load has read is lost.             *)
Overwrite(d) ==
  /\ file' = d
  /\ edit' = NoDoc
  /\ signalled' = FALSE
  /\ lost' = signalled

AfterSave(a) ==
  /\ pc[a] = "saving"
  /\ Go(a, IF a = Main THEN "receive" ELSE "settoken")
  /\ holder' = NoOne
  /\ UNCHANGED <<config, sigVars>>

(* Defect: LoadConfig returns without Unlock.                              *)
saveConfigKeepsLock(a) ==
  /\ pc[a] = "saving"
  /\ Go(a, IF a = Main THEN "receive" ELSE "settoken")
  /\ Overwrite(config)
  /\ unsaved' = FALSE
  /\ UNCHANGED <<holder, config, sigVars>>

saveConfig(a) ==
  /\ AfterSave(a)
  /\ Overwrite(config)
  /\ unsaved' = FALSE

(* The file cannot be opened, or is left half-written; neither is reported *)
(* to the caller.                                                          *)
SaveFails(a) ==
  /\ AfterSave(a)
  /\ unsaved' = TRUE
  /\ Overwrite(Broken) \/ UNCHANGED <<file, edit, signalled, lost>>

ReqSections(r) ==
  \/ isIPAllowed(r) \/ isValidToken(r) \/ SetToken(r)
  \/ ExportConfig(r) \/ UpdateLoads(r)

Save(a) == saveConfig(a) \/ SaveFails(a)

-----------------------------------------------------------------------------
(* Signals.                                                                *)

(* Defect: main's channel has no buffer, so that a signal is dropped       *)
(* unless main is waiting for it.                                          *)
DeliverUnbuffered(s) ==
  /\ s \in pending
  /\ pending' = pending \ {s}
  /\ sigq' = IF pc[Main] = "receive" /\ sigq = <<>> THEN Append(sigq, s) ELSE sigq
  /\ UNCHANGED <<pc, holder, config, fileVars>>

(* Defect: a full channel gives up its oldest signal for the new one.      *)
DeliverEvictsOldest(s) ==
  /\ s \in pending
  /\ pending' = pending \ {s}
  /\ sigq' = Append(IF Len(sigq) < QueueCap THEN sigq ELSE Tail(sigq), s)
  /\ UNCHANGED <<pc, holder, config, fileVars>>

(* os/signal never blocks: what finds the channel full is dropped.         *)
Deliver(s) ==
  /\ s \in pending
  /\ pending' = pending \ {s}
  /\ sigq' = IF Len(sigq) < QueueCap THEN Append(sigq, s) ELSE sigq
  /\ UNCHANGED <<pc, holder, config, fileVars>>

ReceiveHangup ==
  /\ pc[Main] = "receive"
  /\ sigq # <<>> /\ Head(sigq) = "HUP"
  /\ sigq' = Tail(sigq)
  /\ Go(Main, "load")
  /\ UNCHANGED <<holder, config, fileVars, pending>>

(* os.Exit, from whatever the other goroutines were doing: a save of the   *)
(* web leaves the file half-written, or has not opened it.                 *)
Exit ==
  /\ pc[Main] = "receive"
  /\ sigq # <<>> /\ Head(sigq) = "TERM"
  /\ pc' = [a \in Actors |-> IF a = Main THEN "exited" ELSE "idle"]
  /\ holder' = NoOne
  /\ sigq' = <<>>
  /\ pending' = {}
  /\ IF \E r \in Reqs : pc[r] = "saving"
     THEN /\ unsaved' = TRUE
          /\ Overwrite(Broken) \/ UNCHANGED <<file, edit, signalled, lost>>
     ELSE UNCHANGED fileVars
  /\ UNCHANGED config

-----------------------------------------------------------------------------
(* Operators.                                                              *)

Edit(d) ==
  /\ file' = d
  /\ edit' = d
  /\ signalled' = FALSE
  /\ lost' = signalled
  /\ UNCHANGED <<pc, holder, config, unsaved, sigVars>>

Kill(s) ==
  /\ Running
  /\ pending' = pending \cup {s}
  /\ IF s = "HUP" THEN signalled' = (edit # NoDoc) /\ lost' = FALSE
                  ELSE UNCHANGED <<signalled, lost>>
  /\ UNCHANGED <<pc, holder, config, file, unsaved, edit, sigq>>

(* A new process loads the file; Daemon looks into that.                   *)
Start ==
  /\ ~Running
  /\ file # Broken
  /\ config' = file
  /\ Go(Main, "receive")
  /\ edit' = NoDoc
  /\ signalled' = FALSE
  /\ lost' = FALSE
  /\ unsaved' = FALSE
  /\ UNCHANGED <<holder, file, sigVars>>

-----------------------------------------------------------------------------
Init ==
  /\ config \in Docs
  /\ file = config
  /\ pc = [a \in Actors |-> IF a = Main THEN "receive" ELSE "idle"]
  /\ holder = NoOne
  /\ pending = {}
  /\ sigq = <<>>
  /\ edit = NoDoc
  /\ unsaved = FALSE /\ signalled = FALSE /\ lost = FALSE

ConnSteps == \E c \in Conns : handleConn(c) \/ ConnOutside(c)

ReqSteps == \E r \in Reqs : ReqSections(r) \/ Save(r) \/ ExportEnds(r) \/ ReqOutside(r)

MainSteps == HangupLoads \/ HangupRefused \/ Save(Main) \/ ReceiveHangup \/ Exit

Next ==
  \/ Running /\ (ConnSteps \/ ReqSteps \/ MainSteps)
  \/ \E s \in Signals : Deliver(s) \/ Kill(s)
  \/ \E d \in Docs \cup {Broken} : Edit(d)
  \/ Start

(* sync.Mutex hands itself to the longest waiter after a millisecond, so   *)
(* that a goroutine gets it if it is free again and again; runnable        *)
(* goroutines run, deadlines pass, files are written, signals are          *)
(* delivered.  Nothing is owed by clients (ConnOutside, ReqOutside,        *)
(* ExportEnds) or operators.                                               *)
Fairness ==
  /\ \A c \in Conns : SF_vars(Running /\ handleConn(c))
  /\ \A r \in Reqs : SF_vars(Running /\ (ReqSections(r) \/ Save(r)))
  /\ SF_vars(MainSteps)
  /\ \A s \in Signals : WF_vars(Deliver(s))

Spec == Init /\ [][Next]_vars /\ Fairness

-----------------------------------------------------------------------------
(* Correctness.                                                            *)

ConnPlaces == {"idle", "handshake", "credential", "lookup", "add",
               "serving", "closed", "jammed", "delete"}
ReqPlaces  == {"idle", "filter", "token", "settoken", "export", "writing", "load", "saving"}

(* The mutex is held across steps by exactly the goroutine that writes a   *)
(* file or to a client.                                                    *)
PlacesOK ==
  /\ pc \in [Actors -> ConnPlaces \cup ReqPlaces \cup {"receive", "exited"}]
  /\ \A c \in Conns : pc[c] \in ConnPlaces
  /\ \A r \in Reqs : pc[r] \in ReqPlaces
  /\ pc[Main] \in {"receive", "load", "saving", "exited"}
  /\ holder \in Actors \cup {NoOne}
  /\ \A a \in Actors : holder = a <=> pc[a] \in {"writing", "saving"}

(* Every variable holds a value of its type, the mutex has its holder, and *)
(* the channel of main never holds more than its buffer.                   *)
TypeOK ==
  /\ PlacesOK
  /\ config \in Docs
  /\ file \in Docs \cup {Broken}
  /\ pending \subseteq Signals
  /\ sigq \in Seq(Signals) /\ Len(sigq) <= QueueCap
  /\ edit \in Docs \cup {Broken, NoDoc}
  /\ unsaved \in BOOLEAN /\ signalled \in BOOLEAN /\ lost \in BOOLEAN

(* Whenever the mutex is free the file holds the configuration in force,   *)
(* unless an operator wrote it or a save failed: loads of requests and of  *)
(* the signal loop save in the order in which they load.                   *)
FileIsConfig == holder = NoOne /\ edit = NoDoc /\ ~unsaved => file = config

(* A SIGHUP sent after an edit is never lost, however signals merge and    *)
(* whatever the full channel drops: until a load has read the edit, one is *)
(* still to come, or the process is about to exit.                         *)
InQueue(s) == \E i \in 1..Len(sigq) : sigq[i] = s

HangupNotLost ==
  signalled /\ Running =>
    \/ "HUP" \in pending
    \/ InQueue("HUP") \/ InQueue("TERM")
    \/ pc[Main] = "load"

(* The assumption about clients: each one that asks for the configuration  *)
(* reads it, sooner or later, or goes away.                                *)
ClientsRead == \A r \in Reqs : []<>(pc[r] # "writing")

Waiting(a) == pc[a] \in {"filter", "token", "settoken", "export", "load"}

(* If clients read, every request that asks for the mutex gets it; the     *)
(* three properties below see to connections and to the signal loop.       *)
NobodyWaitsForEver ==
  ClientsRead => \A r \in Reqs : Waiting(r) ~> ~Waiting(r)

(* If clients read, a handler is soon done with what is not up to its own  *)
(* client: the deadline ends a silent handshake, admission waits for the   *)
(* mutex three times beside loads and exports that hold it, and a session  *)
(* that is closed, by its client or by a load, gives its slot back.  Only  *)
(* one that its client has jammed does not.                                *)
HandlersGoOn ==
  ClientsRead => \A c \in Conns :
    pc[c] \notin {"idle", "serving", "jammed"} ~> pc[c] \in {"idle", "serving"}

(* If clients read, an edit that was followed by SIGHUP comes into force   *)
(* unless a save or another edit overwrote it first, or the process ended. *)
HangupTakesEffect ==
  ClientsRead => \A d \in Docs :
    (signalled /\ edit = d) ~> (config = d \/ lost \/ ~Running)

(* If clients read, a SIGTERM that found room in the channel ends the      *)
(* process, behind whatever loads are queued before it.                    *)
TermIsHonoured == ClientsRead => (InQueue("TERM") ~> ~Running)
=============================================================================
