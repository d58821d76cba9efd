---------------------------- MODULE ServerProofs ----------------------------
(***************************************************************************)
(* Proofs about Server, for any connections, requests, documents and size  *)
(* of the signal channel.                                                  *)
(***************************************************************************)
EXTENDS Server, TLAPS

Writing == {"writing", "saving"}

-----------------------------------------------------------------------------
(* Type correctness.                                                       *)

LEMMA ActorsApart ==
  /\ Main \in Actors /\ Main \notin Conns /\ Main \notin Reqs
  /\ Conns \subseteq Actors /\ Reqs \subseteq Actors
  /\ \A c \in Conns : c \notin Reqs
  /\ \A a \in Actors : a # NoOne
  /\ \A a \in Actors : a \in Conns \/ a \in Reqs \/ a = Main
BY ActorsAssumption DEF Actors

(* A goroutine moves, and takes or gives the mutex as its place requires.  *)
LEMMA MoveOK ==
  ASSUME PlacesOK, NEW a \in Actors, NEW to, Go(a, to),
         a \in Conns => to \in ConnPlaces,
         a \in Reqs => to \in ReqPlaces,
         a = Main => to \in {"receive", "load", "saving", "exited"},
         holder \in {a, NoOne},
         holder' = IF to \in Writing THEN a ELSE NoOne
  PROVE  PlacesOK'
<1>1. /\ pc'[a] = to
      /\ \A b \in Actors \ {a} : pc'[b] = pc[b] /\ pc[b] \notin Writing
      /\ to \in ConnPlaces \cup ReqPlaces \cup {"receive", "exited"}
  BY ActorsApart DEF PlacesOK, Go, Writing, ReqPlaces
<1>2. pc' \in [Actors -> ConnPlaces \cup ReqPlaces \cup {"receive", "exited"}]
  BY <1>1 DEF PlacesOK, Go
<1>3. \A b \in Actors : holder' = b <=> pc'[b] \in Writing
  BY <1>1, ActorsApart
<1>4. /\ \A c \in Conns : pc'[c] \in ConnPlaces
      /\ \A r \in Reqs : pc'[r] \in ReqPlaces
      /\ pc'[Main] \in {"receive", "load", "saving", "exited"}
  BY <1>1, ActorsApart DEF PlacesOK
<1>5. holder' \in Actors \cup {NoOne}
  OBVIOUS
<1>6. QED
  BY <1>2, <1>3, <1>4, <1>5 DEF PlacesOK, Writing

(* The same for a move that leaves the mutex alone.                        *)
LEMMA WalkOK ==
  ASSUME PlacesOK, NEW a \in Actors, NEW to, Go(a, to), UNCHANGED holder,
         pc[a] \notin Writing, to \notin Writing,
         a \in Conns => to \in ConnPlaces,
         a \in Reqs => to \in ReqPlaces,
         a = Main => to \in {"receive", "load", "saving", "exited"}
  PROVE  PlacesOK'
<1>1. /\ pc'[a] = to
      /\ \A b \in Actors \ {a} : pc'[b] = pc[b]
      /\ to \in ConnPlaces \cup ReqPlaces \cup {"receive", "exited"}
  BY ActorsApart DEF PlacesOK, Go, ReqPlaces
<1>2. pc' \in [Actors -> ConnPlaces \cup ReqPlaces \cup {"receive", "exited"}]
  BY <1>1 DEF PlacesOK, Go
<1>3. \A b \in Actors : holder' = b <=> pc'[b] \in Writing
  BY <1>1 DEF PlacesOK, Writing
<1>4. /\ \A c \in Conns : pc'[c] \in ConnPlaces
      /\ \A r \in Reqs : pc'[r] \in ReqPlaces
      /\ pc'[Main] \in {"receive", "load", "saving", "exited"}
  BY <1>1, ActorsApart DEF PlacesOK
<1>5. QED
  BY <1>2, <1>3, <1>4 DEF PlacesOK, Writing

LEMMA ConnTypeOK ==
  ASSUME TypeOK, NEW c \in Conns, handleConn(c) \/ ConnOutside(c)
  PROVE  TypeOK'
<1>1. PICK from \in ConnPlaces, to \in ConnPlaces :
        pc[c] = from /\ Go(c, to) /\ UNCHANGED <<holder, config, fileVars, sigVars>>
  BY DEF handleConn, ConnOutside, HandshakeFails, Credential, getUserByLogin, AddSession,
         ChannelsEnd, DeleteSession, Section, Local, ConnPlaces
<1>2. PlacesOK'
  BY <1>1, WalkOK, ActorsApart DEF TypeOK, ConnPlaces, Writing
<1>3. QED
  BY <1>1, <1>2 DEF TypeOK, fileVars, sigVars

LEMMA ReqTypeOK ==
  ASSUME TypeOK, NEW r \in Reqs, ReqSections(r) \/ ExportEnds(r) \/ ReqOutside(r)
  PROVE  TypeOK'
<1>1. CASE isIPAllowed(r) \/ isValidToken(r) \/ SetToken(r) \/ ReqOutside(r)
  <2>1. PICK from \in ReqPlaces \ Writing, to \in ReqPlaces \ Writing :
          pc[r] = from /\ Go(r, to) /\ UNCHANGED <<holder, config, fileVars, sigVars>>
    BY <1>1 DEF isIPAllowed, isValidToken, SetToken, ReqOutside, Section, Local, ReqPlaces, Writing
  <2>2. PlacesOK'
    BY <2>1, WalkOK, ActorsApart DEF TypeOK
  <2>3. QED
    BY <2>1, <2>2 DEF TypeOK, fileVars, sigVars
<1>2. CASE ExportConfig(r)
  <2>1. PlacesOK'
    BY <1>2, MoveOK, ActorsApart DEF ExportConfig, TypeOK, ReqPlaces, Writing
  <2>2. QED
    BY <1>2, <2>1 DEF ExportConfig, TypeOK, fileVars, sigVars
<1>3. CASE ExportEnds(r)
  <2>1. holder = r
    BY <1>3, ActorsApart DEF ExportEnds, TypeOK, PlacesOK
  <2>2. PlacesOK'
    BY <1>3, <2>1, MoveOK, ActorsApart DEF ExportEnds, TypeOK, ReqPlaces, Writing
  <2>3. QED
    BY <1>3, <2>2 DEF ExportEnds, TypeOK, fileVars, sigVars
<1>4. CASE UpdateLoads(r)
  <2>1. PlacesOK'
    BY <1>4, MoveOK, ActorsApart DEF UpdateLoads, Load, TypeOK, ReqPlaces, Writing
  <2>2. QED
    BY <1>4, <2>1 DEF UpdateLoads, Load, TypeOK, fileVars, sigVars
<1>5. QED
  BY <1>1, <1>2, <1>3, <1>4 DEF ReqSections

LEMMA SaveTypeOK ==
  ASSUME TypeOK, NEW a \in Reqs \cup {Main}, Save(a)
  PROVE  TypeOK'
<1>1. AfterSave(a)
  BY DEF Save, saveConfig, SaveFails
<1>2. holder = a
  BY <1>1, ActorsApart DEF AfterSave, TypeOK, PlacesOK
<1>3. PlacesOK'
  BY <1>1, <1>2, MoveOK, ActorsApart DEF AfterSave, TypeOK, ReqPlaces, Writing
<1>4. /\ file' \in Docs \cup {Broken} /\ edit' \in Docs \cup {Broken, NoDoc}
      /\ unsaved' \in BOOLEAN /\ signalled' \in BOOLEAN /\ lost' \in BOOLEAN
  BY DEF Save, saveConfig, SaveFails, Overwrite, TypeOK
<1>5. QED
  BY <1>1, <1>3, <1>4 DEF AfterSave, TypeOK, sigVars

LEMMA ExitTypeOK ==
  ASSUME TypeOK, Exit
  PROVE  TypeOK'
<1>1. /\ file' \in Docs \cup {Broken} /\ edit' \in Docs \cup {Broken, NoDoc}
      /\ unsaved' \in BOOLEAN /\ signalled' \in BOOLEAN /\ lost' \in BOOLEAN
  BY DEF Exit, Overwrite, TypeOK, fileVars
<1>2. sigq' \in Seq(Signals) /\ Len(sigq') <= QueueCap
  BY QueueAssumption DEF Exit
<1>3. \A a \in Actors : pc'[a] = IF a = Main THEN "exited" ELSE "idle"
  BY DEF Exit
<1>4. pc' \in [Actors -> ConnPlaces \cup ReqPlaces \cup {"receive", "exited"}]
  BY DEF Exit, ConnPlaces
<1>5. PlacesOK'
  BY <1>3, <1>4, ActorsApart DEF Exit, PlacesOK, ConnPlaces, ReqPlaces
<1>6. QED
  BY <1>1, <1>2, <1>5 DEF Exit, TypeOK

LEMMA MainTypeOK ==
  ASSUME TypeOK, HangupLoads \/ HangupRefused \/ ReceiveHangup
  PROVE  TypeOK'
<1>1. CASE HangupLoads
  <2>1. PlacesOK'
    BY <1>1, MoveOK, ActorsApart DEF HangupLoads, Load, TypeOK, Writing
  <2>2. QED
    BY <1>1, <2>1 DEF HangupLoads, Load, TypeOK, sigVars
<1>2. CASE HangupRefused
  <2>1. PlacesOK'
    BY <1>2, WalkOK, ActorsApart DEF HangupRefused, TypeOK, Writing
  <2>2. QED
    BY <1>2, <2>1 DEF HangupRefused, TypeOK, sigVars
<1>3. CASE ReceiveHangup
  <2>1. sigq' \in Seq(Signals) /\ Len(sigq') <= QueueCap
    BY <1>3, QueueAssumption DEF ReceiveHangup, TypeOK
  <2>2. PlacesOK'
    BY <1>3, WalkOK, ActorsApart DEF ReceiveHangup, TypeOK, Writing
  <2>3. QED
    BY <1>3, <2>1, <2>2 DEF ReceiveHangup, TypeOK, fileVars
<1>4. QED
  BY <1>1, <1>2, <1>3

LEMMA OutsideTypeOK ==
  ASSUME TypeOK,
         \/ \E s \in Signals : Deliver(s) \/ Kill(s)
         \/ \E d \in Docs \cup {Broken} : Edit(d)
         \/ Start
  PROVE  TypeOK'
<1>1. ASSUME NEW s \in Signals, Deliver(s) PROVE TypeOK'
  <2>1. sigq' \in Seq(Signals) /\ Len(sigq') <= QueueCap
    BY <1>1, QueueAssumption DEF Deliver, TypeOK
  <2>2. QED
    BY <1>1, <2>1 DEF Deliver, TypeOK, PlacesOK, fileVars
<1>2. ASSUME NEW s \in Signals, Kill(s) PROVE TypeOK'
  BY <1>2 DEF Kill, TypeOK, PlacesOK
<1>3. ASSUME NEW d \in Docs \cup {Broken}, Edit(d) PROVE TypeOK'
  BY <1>3 DEF Edit, TypeOK, PlacesOK, sigVars
<1>4. CASE Start
  <2>1. PlacesOK'
    BY <1>4, WalkOK, ActorsApart DEF Start, Running, TypeOK, Writing
  <2>2. QED
    BY <1>4, <2>1 DEF Start, TypeOK, sigVars
<1>5. QED
  BY <1>1, <1>2, <1>3, <1>4

LEMMA TypeStep == TypeOK /\ [Next]_vars => TypeOK'
<1>1. SUFFICES ASSUME TypeOK, [Next]_vars PROVE TypeOK'
  OBVIOUS
<1>2. CASE UNCHANGED vars
  BY <1>1, <1>2 DEF vars, fileVars, sigVars, TypeOK, PlacesOK
<1>3. CASE ConnSteps
  BY <1>1, <1>3, ConnTypeOK DEF ConnSteps
<1>4. CASE ReqSteps
  BY <1>1, <1>4, ReqTypeOK, SaveTypeOK DEF ReqSteps
<1>5. CASE MainSteps
  BY <1>1, <1>5, MainTypeOK, SaveTypeOK, ExitTypeOK DEF MainSteps
<1>6. QED
  BY <1>1, <1>2, <1>3, <1>4, <1>5, OutsideTypeOK DEF Next

(* Types hold, the mutex is held across steps by exactly the goroutine     *)
(* that writes, and the channel of main never exceeds its buffer.          *)
THEOREM TypeCorrect == Spec => []TypeOK
<1>1. ASSUME Init PROVE TypeOK
  <2>1. \A a \in Actors : pc[a] = IF a = Main THEN "receive" ELSE "idle"
    BY <1>1 DEF Init
  <2>2. pc \in [Actors -> ConnPlaces \cup ReqPlaces \cup {"receive", "exited"}]
    BY <1>1 DEF Init, ConnPlaces
  <2>3. PlacesOK
    BY <1>1, <2>1, <2>2, ActorsApart DEF Init, PlacesOK, ConnPlaces, ReqPlaces
  <2>4. sigq \in Seq(Signals) /\ Len(sigq) <= QueueCap
    BY <1>1, QueueAssumption DEF Init
  <2>5. QED
    BY <1>1, <2>3, <2>4 DEF Init, TypeOK
<1>2. QED
  BY <1>1, TypeStep, PTL DEF Spec

-----------------------------------------------------------------------------
(* The file and the configuration.                                         *)

(* What FileIsConfig says also holds while a client is being written to;   *)
(* only a save that is running lets the two differ.                        *)
InStep == (\A a \in Actors : pc[a] # "saving") /\ edit = NoDoc /\ ~unsaved => file = config

(* A goroutine other than a saver moves, and the file and its history stay.*)
LEMMA MoveInStep ==
  ASSUME TypeOK, InStep, NEW a \in Actors, NEW to, Go(a, to), pc[a] # "saving",
         UNCHANGED <<config, fileVars>>
  PROVE  InStep'
<1>1. SUFFICES ASSUME \A b \in Actors : pc'[b] # "saving" PROVE \A b \in Actors : pc[b] # "saving"
  BY DEF InStep, fileVars
<1>2. \A b \in Actors \ {a} : pc'[b] = pc[b]
  BY DEF Go, TypeOK, PlacesOK
<1>3. QED
  BY <1>1, <1>2

LEMMA LoadInStep ==
  ASSUME TypeOK, NEW a \in Actors, NEW d, Load(a, d)
  PROVE  InStep'
BY DEF Load, Go, InStep, TypeOK, PlacesOK

LEMMA SaveInStep ==
  ASSUME TypeOK, NEW a \in Reqs \cup {Main}, Save(a)
  PROVE  InStep'
BY DEF Save, saveConfig, SaveFails, AfterSave, Overwrite, InStep

LEMMA ReqInStep ==
  ASSUME TypeOK, InStep, NEW r \in Reqs, ReqSections(r) \/ ExportEnds(r) \/ ReqOutside(r)
  PROVE  InStep'
<1>1. CASE UpdateLoads(r)
  BY <1>1, LoadInStep, ActorsApart DEF UpdateLoads
<1>2. CASE ~UpdateLoads(r)
  <2>1. PICK to : Go(r, to) /\ pc[r] # "saving" /\ UNCHANGED <<config, fileVars>>
    BY <1>2 DEF ReqSections, ExportEnds, ReqOutside, isIPAllowed, isValidToken, SetToken,
                ExportConfig, Section, Local
  <2>2. QED
    BY <2>1, MoveInStep, ActorsApart
<1>3. QED
  BY <1>1, <1>2

LEMMA MainInStep ==
  ASSUME TypeOK, InStep, HangupLoads \/ HangupRefused \/ ReceiveHangup \/ Exit
  PROVE  InStep'
<1>1. CASE HangupLoads
  BY <1>1, LoadInStep, ActorsApart DEF HangupLoads
<1>2. CASE HangupRefused
  <2>1. \A b \in Actors : pc'[b] # "saving" => pc[b] # "saving"
    BY <1>2 DEF HangupRefused, Go, TypeOK, PlacesOK
  <2>2. QED
    BY <1>2, <2>1 DEF HangupRefused, InStep
<1>3. CASE ReceiveHangup
  BY <1>3, MoveInStep, ActorsApart DEF ReceiveHangup
<1>4. CASE Exit
  <2>1. CASE \E r \in Reqs : pc[r] = "saving"
    BY <1>4, <2>1 DEF Exit, InStep
  <2>2. CASE ~\E r \in Reqs : pc[r] = "saving"
    <3>1. \A a \in Actors : pc[a] # "saving"
      BY <1>4, <2>2, ActorsApart DEF Exit, TypeOK, PlacesOK, ConnPlaces
    <3>2. QED
      BY <1>4, <2>2, <3>1 DEF Exit, InStep, fileVars
  <2>3. QED
    BY <2>1, <2>2
<1>5. QED
  BY <1>1, <1>2, <1>3, <1>4

LEMMA InStepStep == TypeOK /\ InStep /\ [Next]_vars => InStep'
<1>1. SUFFICES ASSUME TypeOK, InStep, [Next]_vars PROVE InStep'
  OBVIOUS
<1>2. CASE UNCHANGED vars
  BY <1>1, <1>2 DEF vars, fileVars, InStep
<1>3. ASSUME NEW c \in Conns, handleConn(c) \/ ConnOutside(c) PROVE InStep'
  <2>1. PICK to : Go(c, to) /\ UNCHANGED <<config, fileVars>>
    BY <1>3 DEF handleConn, ConnOutside, HandshakeFails, Credential, getUserByLogin, AddSession,
                ChannelsEnd, DeleteSession, Section, Local
  <2>2. pc[c] # "saving"
    BY <1>1 DEF TypeOK, PlacesOK, ConnPlaces
  <2>3. QED
    BY <1>1, <2>1, <2>2, MoveInStep, ActorsApart
<1>4. CASE ReqSteps
  BY <1>1, <1>4, ReqInStep, SaveInStep DEF ReqSteps
<1>5. CASE MainSteps
  BY <1>1, <1>5, MainInStep, SaveInStep DEF MainSteps
<1>6. ASSUME NEW s \in Signals, Deliver(s) \/ Kill(s) PROVE InStep'
  BY <1>1, <1>6 DEF Deliver, Kill, InStep, fileVars
<1>7. ASSUME NEW d \in Docs \cup {Broken}, Edit(d) PROVE InStep'
  BY <1>7, DocsAssumption DEF Edit, InStep
<1>8. CASE Start
  BY <1>8 DEF Start, InStep
<1>9. QED
  BY <1>1, <1>2, <1>3, <1>4, <1>5, <1>6, <1>7, <1>8 DEF Next, ConnSteps

(* Whatever loads of the web and of the signal loop interleave, the file   *)
(* holds the configuration in force whenever the mutex is free, unless it  *)
(* was edited or a save failed.                                            *)
THEOREM FileFollowsConfig == Spec => []FileIsConfig
<1>1. Init => InStep
  BY DEF Init, InStep
<1>2. TypeOK /\ InStep => FileIsConfig
  BY ActorsApart DEF TypeOK, PlacesOK, InStep, FileIsConfig
<1>3. QED
  BY <1>1, <1>2, InStepStep, TypeCorrect, PTL DEF Spec

-----------------------------------------------------------------------------
(* Signals.                                                                *)

(* A full channel holds a SIGHUP that is still to be served, or a SIGTERM. *)
LEMMA FullHoldsOne ==
  ASSUME TypeOK, ~(Len(sigq) < QueueCap)
  PROVE  InQueue("HUP") \/ InQueue("TERM")
<1>1. Len(sigq) \in Nat /\ 1 <= Len(sigq)
  BY QueueAssumption DEF TypeOK
<1>2. sigq[1] \in Signals
  BY <1>1 DEF TypeOK
<1>3. QED
  BY <1>1, <1>2 DEF InQueue, Signals

LEMMA DeliverKeeps ==
  ASSUME TypeOK, NEW s \in Signals, Deliver(s), HangupNotLost
  PROVE  HangupNotLost'
<1>1. CASE Len(sigq) < QueueCap
  <2>1. /\ sigq' = Append(sigq, s) /\ Len(sigq') = Len(sigq) + 1
        /\ sigq'[Len(sigq) + 1] = s
        /\ \A i \in 1..Len(sigq) : sigq'[i] = sigq[i]
    BY <1>1 DEF Deliver, TypeOK
  <2>2. InQueue(s)' /\ \A t \in Signals : InQueue(t) => InQueue(t)'
    BY <2>1 DEF InQueue, TypeOK
  <2>3. QED
    BY <2>2 DEF Deliver, HangupNotLost, Running, Signals, fileVars
<1>2. CASE ~(Len(sigq) < QueueCap)
  BY <1>2, FullHoldsOne DEF Deliver, HangupNotLost, InQueue
<1>3. QED
  BY <1>1, <1>2

(* Of a connection, a request or a save that leaves the signals alone.     *)
LEMMA OthersKeep ==
  ASSUME HangupNotLost, NEW a \in Actors, NEW to, Go(a, to), TypeOK,
         UNCHANGED sigVars, signalled' => signalled,
         a # Main \/ pc[Main] = "saving"
  PROVE  HangupNotLost'
<1>1. pc'[Main] = pc[Main] \/ pc[Main] = "saving"
  BY ActorsApart DEF Go, TypeOK, PlacesOK
<1>2. QED
  BY <1>1 DEF HangupNotLost, Running, InQueue, sigVars

LEMMA HangupStep == TypeOK /\ HangupNotLost /\ [Next]_vars => HangupNotLost'
<1>1. SUFFICES ASSUME TypeOK, HangupNotLost, [Next]_vars PROVE HangupNotLost'
  OBVIOUS
<1>2. CASE UNCHANGED vars
  BY <1>1, <1>2 DEF vars, fileVars, sigVars, HangupNotLost, Running, InQueue
<1>3. ASSUME NEW c \in Conns, handleConn(c) \/ ConnOutside(c) PROVE HangupNotLost'
  <2>1. PICK to : Go(c, to) /\ UNCHANGED <<fileVars, sigVars>>
    BY <1>3 DEF handleConn, ConnOutside, HandshakeFails, Credential, getUserByLogin, AddSession,
                ChannelsEnd, DeleteSession, Section, Local
  <2>2. QED
    BY <1>1, <2>1, OthersKeep, ActorsApart DEF fileVars
<1>4. ASSUME NEW r \in Reqs, ReqSections(r) \/ ExportEnds(r) \/ ReqOutside(r) PROVE HangupNotLost'
  <2>1. PICK to : Go(r, to) /\ UNCHANGED <<fileVars, sigVars>>
    BY <1>4 DEF ReqSections, ExportEnds, ReqOutside, isIPAllowed, isValidToken, SetToken,
                ExportConfig, UpdateLoads, Load, Section, Local
  <2>2. QED
    BY <1>1, <2>1, OthersKeep, ActorsApart DEF fileVars
<1>5. ASSUME NEW a \in Reqs \cup {Main}, Save(a) PROVE HangupNotLost'
  <2>1. PICK to : Go(a, to)
    BY <1>5 DEF Save, saveConfig, SaveFails, AfterSave
  <2>2. pc[a] = "saving" /\ UNCHANGED sigVars /\ (signalled' => signalled)
    BY <1>5 DEF Save, saveConfig, SaveFails, AfterSave, Overwrite
  <2>3. QED
    BY <1>1, <2>1, <2>2, OthersKeep, ActorsApart
<1>6. CASE HangupLoads \/ HangupRefused \/ Start
  BY <1>6 DEF HangupLoads, HangupRefused, Start, HangupNotLost
<1>7. CASE ReceiveHangup
  BY <1>1, <1>7, ActorsApart DEF ReceiveHangup, Go, HangupNotLost, TypeOK, PlacesOK
<1>8. CASE Exit
  BY <1>8, ActorsApart DEF Exit, HangupNotLost, Running
<1>9. ASSUME NEW s \in Signals, Kill(s) PROVE HangupNotLost'
  BY <1>1, <1>9 DEF Kill, HangupNotLost, Running, InQueue, Signals
<1>10. ASSUME NEW d \in Docs \cup {Broken}, Edit(d) PROVE HangupNotLost'
  BY <1>10 DEF Edit, HangupNotLost
<1>11. QED
  BY <1>1, <1>2, <1>3, <1>4, <1>5, <1>6, <1>7, <1>8, <1>9, <1>10, DeliverKeeps
     DEF Next, ConnSteps, ReqSteps, MainSteps

(* A SIGHUP that follows an edit is never lost to merging or to a full     *)
(* channel, whatever its size.                                             *)
THEOREM HangupsAreKept == Spec => []HangupNotLost
<1>1. Init => HangupNotLost
  BY DEF Init, HangupNotLost
<1>2. QED
  BY <1>1, HangupStep, TypeCorrect, PTL DEF Spec

-----------------------------------------------------------------------------
(* The safety half of TermIsHonoured, for a channel of any size: a SIGTERM *)
(* that found room stays at its place, or moves up by one when main takes  *)
(* the SIGHUP at the head; only the end of the process removes it, whoever *)
(* holds the mutex and however many signals follow (cmd/main.go:37).       *)

KeepsPlace(i) ==
  \/ i <= Len(sigq') /\ sigq'[i] = "TERM"
  \/ i > 1 /\ sigq' = Tail(sigq) /\ sigq'[i - 1] = "TERM"
  \/ ~Running'

TermKeepsItsPlace ==
  [][\A i \in 1..Len(sigq) : sigq[i] = "TERM" => KeepsPlace(i)]_vars

LEMMA DeliverKeepsPlace ==
  ASSUME TypeOK, NEW s \in Signals, Deliver(s),
         NEW i \in 1..Len(sigq), sigq[i] = "TERM"
  PROVE  KeepsPlace(i)
<1>1. CASE Len(sigq) < QueueCap
  <2>1. /\ Len(sigq) \in Nat
        /\ Len(Append(sigq, s)) = Len(sigq) + 1
        /\ Append(sigq, s)[i] = sigq[i]
    BY DEF TypeOK
  <2>2. sigq' = Append(sigq, s)
    BY <1>1 DEF Deliver
  <2>3. QED
    BY <2>1, <2>2 DEF KeepsPlace
<1>2. CASE ~(Len(sigq) < QueueCap)
  BY <1>2 DEF Deliver, KeepsPlace
<1>3. QED
  BY <1>1, <1>2

LEMMA ReceiveKeepsPlace ==
  ASSUME TypeOK, ReceiveHangup, NEW i \in 1..Len(sigq), sigq[i] = "TERM"
  PROVE  KeepsPlace(i)
<1>1. sigq # <<>> /\ sigq[1] = "HUP" /\ sigq' = Tail(sigq) /\ sigq \in Seq(Signals)
  BY DEF ReceiveHangup, TypeOK
<1>2. i # 1
  BY <1>1
<1>3. i > 1 /\ Tail(sigq)[i - 1] = sigq[i]
  BY <1>1, <1>2
<1>4. QED
  BY <1>1, <1>3 DEF KeepsPlace

LEMMA OthersLeaveQueue ==
  ASSUME Next,
         ~Exit, ~ReceiveHangup, \A s \in Signals : ~Deliver(s)
  PROVE  sigq' = sigq
<1>1. ASSUME NEW c \in Conns, handleConn(c) \/ ConnOutside(c) PROVE sigq' = sigq
  BY <1>1 DEF handleConn, ConnOutside, HandshakeFails, Credential, getUserByLogin, AddSession,
              ChannelsEnd, DeleteSession, Section, Local, sigVars
<1>2. ASSUME NEW r \in Reqs, ReqSections(r) \/ ExportEnds(r) \/ ReqOutside(r)
      PROVE  sigq' = sigq
  BY <1>2 DEF ReqSections, ExportEnds, ReqOutside, isIPAllowed, isValidToken, SetToken,
              ExportConfig, UpdateLoads, Load, Section, Local, sigVars
<1>3. ASSUME NEW a \in Actors, Save(a) PROVE sigq' = sigq
  BY <1>3 DEF Save, saveConfig, SaveFails, AfterSave, sigVars
<1>4. CASE HangupLoads \/ HangupRefused \/ Start
  BY <1>4 DEF HangupLoads, HangupRefused, Start, Load, sigVars
<1>5. ASSUME NEW s \in Signals, Kill(s) PROVE sigq' = sigq
  BY <1>5 DEF Kill
<1>6. ASSUME NEW d \in Docs \cup {Broken}, Edit(d) PROVE sigq' = sigq
  BY <1>6 DEF Edit, sigVars
<1>7. QED
  BY <1>1, <1>2, <1>3, <1>4, <1>5, <1>6, ActorsApart
     DEF Next, ConnSteps, ReqSteps, MainSteps

(* A queued SIGTERM is never dropped, overtaken or answered by anything    *)
(* but the end of the process.                                             *)
THEOREM TermsKeepTheirPlace == Spec => TermKeepsItsPlace
<1>1. TypeOK /\ [Next]_vars
        => [\A i \in 1..Len(sigq) : sigq[i] = "TERM" => KeepsPlace(i)]_vars
  <2> SUFFICES ASSUME TypeOK, Next, NEW i \in 1..Len(sigq), sigq[i] = "TERM"
               PROVE  KeepsPlace(i)
    OBVIOUS
  <2>1. CASE Exit
    BY <2>1, ActorsApart DEF Exit, KeepsPlace, Running
  <2>2. CASE ReceiveHangup
    BY <2>2, ReceiveKeepsPlace
  <2>3. ASSUME NEW s \in Signals, Deliver(s) PROVE KeepsPlace(i)
    BY <2>3, DeliverKeepsPlace
  <2>4. CASE sigq' = sigq
    BY <2>4 DEF KeepsPlace
  <2>5. QED
    BY <2>1, <2>2, <2>3, <2>4, OthersLeaveQueue
<1>2. QED
  BY <1>1, TypeCorrect, PTL DEF Spec, TermKeepsItsPlace
=============================================================================
