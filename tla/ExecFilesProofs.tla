-------------------------- MODULE ExecFilesProofs --------------------------
(***************************************************************************)
(* Proofs about ExecFiles, for any channels, scripts and reloads.          *)
(***************************************************************************)
EXTENDS ExecFiles, TLAPS

PCs     == {"none", "admitted", "idle", "running", "checked"}
Scripts == {"none", "ends", "hangs", "dead", "failed"}

-----------------------------------------------------------------------------
(* The assignment of an output: one place of "output" changes, writers and *)
(* torn readers become idle, and what the channels of the record are due   *)
(* grows by the new output, or for a writer becomes just that.             *)

Assigned(c, W, o) ==
  /\ output' \in [Records -> [Names -> Slices]]
  /\ \A r \in Records, n \in Names :
       output'[r][n] = IF r = user[c] /\ n = name[c] THEN o ELSE output[r][n]
  /\ pc' \in [Chans -> PCs] /\ got' \in [Chans -> Slices \cup {None}]
  /\ \A d \in Chans :
       \/ d \in W /\ pc'[d] = "idle" /\ got'[d] = got[d]
       \/ /\ pc[d] = "checked" /\ Same(d, c) /\ pc'[d] = "idle" /\ got'[d] = Torn
          /\ due'[d][name[c]] # {} => Torn \in due'[d][name[c]]
       \/ d \notin W /\ pc'[d] = pc[d] /\ got'[d] = got[d]
  /\ due' \in [Chans -> [Names -> SUBSET Slices]]
  /\ \A d \in Chans, n \in Names :
       IF user[d] = user[c] /\ n = name[c]
       THEN \/ d \in W /\ due'[d][n] = {o}
            \/ d \notin W /\ due[d][n] = {} /\ due'[d][n] = {}
            \/ d \notin W /\ due[d][n] # {} /\ due[d][n] \cup {o} \subseteq due'[d][n]
       ELSE due'[d][n] = due[d][n]
  /\ UNCHANGED <<current, user, name, forked, closed>>

LEMMA DueEffect ==
  ASSUME NEW d, NEW n, NEW W, NEW T, NEW o, NEW S, S = DueAfter(d, n, W, T, o)
  PROVE  /\ S \subseteq due[d][n] \cup {o, Torn}
         /\ \/ d \in W /\ S = {o}
            \/ d \notin W /\ due[d][n] = {} /\ S = {}
            \/ d \notin W /\ due[d][n] # {} /\ due[d][n] \cup {o} \subseteq S
         /\ d \in T /\ d \notin W /\ S # {} => Torn \in S
BY DEF DueAfter

LEMMA SetOutputEffect ==
  ASSUME TypeOK, NEW c \in Chans, pc[c] = "running", NEW W \in SUBSET Chans,
         \A d \in W : pc[d] = "running",
         NEW o \in Slices, SetOutput(c, W, o)
  PROVE  Assigned(c, W, o)
<1>1. /\ user[c] \in Records /\ name[c] \in Names
      /\ output \in [Records -> [Names -> Slices]]
      /\ pc \in [Chans -> PCs] /\ got \in [Chans -> Slices \cup {None}]
  BY DEF TypeOK, Slices, PCs
<1>2. /\ output' \in [Records -> [Names -> Slices]]
      /\ \A r \in Records, n \in Names :
           output'[r][n] = IF r = user[c] /\ n = name[c] THEN o ELSE output[r][n]
  BY <1>1 DEF SetOutput
<1>3. PICK T \in TornReaders(c) :
        /\ pc'  = [d \in Chans |-> IF d \in W \cup T THEN "idle" ELSE pc[d]]
        /\ got' = [d \in Chans |-> IF d \in T THEN Torn ELSE got[d]]
        /\ due' = [d \in Chans |->
                     IF user[d] # user[c] THEN due[d]
                     ELSE [due[d] EXCEPT ![name[c]] = DueAfter(d, name[c], W, T, o)]]
  BY DEF SetOutput
<1>4. \A d \in T : d \in Chans /\ pc[d] = "checked" /\ Same(d, c) /\ d \notin W
  BY DEF TornReaders
<1>5. pc' \in [Chans -> PCs] /\ got' \in [Chans -> Slices \cup {None}]
  BY <1>1, <1>3 DEF PCs, Slices
<1>6. ASSUME NEW d \in Chans, NEW n \in Names
      PROVE  /\ due'[d] \in [Names -> SUBSET Slices]
             /\ IF user[d] = user[c] /\ n = name[c]
                THEN due'[d][n] = DueAfter(d, n, W, T, o)
                ELSE due'[d][n] = due[d][n]
  <2>1. due[d] \in [Names -> SUBSET Slices]
    BY DEF TypeOK
  <2>2. due'[d] = IF user[d] # user[c] THEN due[d]
                  ELSE [due[d] EXCEPT ![name[c]] = DueAfter(d, name[c], W, T, o)]
    BY <1>3
  <2>3. DueAfter(d, name[c], W, T, o) \subseteq Slices
    <3>1. DueAfter(d, name[c], W, T, o) \subseteq due[d][name[c]] \cup {o, Torn}
      BY DueEffect
    <3>2. due[d][name[c]] \subseteq Slices
      BY <1>1, <2>1
    <3>3. QED
      BY <3>1, <3>2 DEF Slices
  <2>4. QED
    BY <1>1, <2>1, <2>2, <2>3
<1>7. due' \in [Chans -> [Names -> SUBSET Slices]]
  <2>1. \A d \in Chans : due'[d] \in [Names -> SUBSET Slices]
    BY <1>1, <1>6
  <2>2. QED
    BY <1>3, <2>1
<1>8. ASSUME NEW d \in Chans, NEW n \in Names
      PROVE  IF user[d] = user[c] /\ n = name[c]
             THEN \/ d \in W /\ due'[d][n] = {o}
                  \/ d \notin W /\ due[d][n] = {} /\ due'[d][n] = {}
                  \/ d \notin W /\ due[d][n] # {} /\ due[d][n] \cup {o} \subseteq due'[d][n]
             ELSE due'[d][n] = due[d][n]
  BY <1>6, DueEffect
<1>9. ASSUME NEW d \in Chans
      PROVE  \/ d \in W /\ pc'[d] = "idle" /\ got'[d] = got[d]
             \/ /\ pc[d] = "checked" /\ Same(d, c) /\ pc'[d] = "idle" /\ got'[d] = Torn
                /\ due'[d][name[c]] # {} => Torn \in due'[d][name[c]]
             \/ d \notin W /\ pc'[d] = pc[d] /\ got'[d] = got[d]
  <2>1. CASE d \in T
    <3>1. user[d] = user[c] /\ d \notin W /\ name[c] \in Names
      BY <1>1, <1>4, <2>1 DEF Same
    <3>2. due'[d][name[c]] = DueAfter(d, name[c], W, T, o)
      BY <1>6, <3>1
    <3>3. due'[d][name[c]] # {} => Torn \in due'[d][name[c]]
      BY <2>1, <3>1, <3>2, DueEffect
    <3>4. QED
      BY <1>3, <1>4, <2>1, <3>3
  <2>2. CASE d \notin T /\ d \in W
    BY <1>3, <2>2
  <2>3. CASE d \notin T /\ d \notin W
    BY <1>3, <2>3
  <2>4. QED
    BY <2>1, <2>2, <2>3
<1>10. UNCHANGED <<current, user, name, forked, closed>>
  BY DEF SetOutput
<1>11. QED
  BY <1>2, <1>5, <1>7, <1>8, <1>9, <1>10 DEF Assigned

(* A run that returns assigns its own output, two that return at once one  *)
(* value that both are due.                                                *)
LEMMA ScriptReturnsEffect ==
  ASSUME TypeOK, NEW c \in Chans, ScriptReturns(c)
  PROVE  \E o \in Slices :
           pc[c] = "running" /\ SetOutput(c, {c}, o) /\ Assigned(c, {c}, o)
<1>1. PICK o \in CombinedOutput(c) : SetOutput(c, {c}, o)
  BY DEF ScriptReturns
<1>2. pc[c] = "running" /\ o \in Slices
  BY <1>1 DEF ScriptReturns, Ended, CombinedOutput, Slices
<1>3. QED
  BY <1>1, <1>2, SetOutputEffect

LEMMA ScriptsReturnEffect ==
  ASSUME TypeOK, NEW c \in Chans, NEW d \in Chans, ScriptsReturn(c, d)
  PROVE  /\ pc[c] = "running" /\ pc[d] = "running" /\ c # d
         /\ \E o \in Slices : SetOutput(c, {c, d}, o) /\ Assigned(c, {c, d}, o)
<1>1. pc[c] = "running" /\ pc[d] = "running" /\ c # d
  BY DEF ScriptsReturn, Ended
<1>2. PICK o \in {NoOutput, Torn} : SetOutput(c, {c, d}, o)
  BY DEF ScriptsReturn
<1>3. o \in Slices
  BY DEF Slices
<1>4. Assigned(c, {c, d}, o)
  BY <1>1, <1>2, <1>3, SetOutputEffect
<1>5. QED
  BY <1>1, <1>2, <1>3, <1>4

-----------------------------------------------------------------------------
(* Type correctness.                                                       *)

LEMMA AssignedTypeOK ==
  ASSUME TypeOK, NEW c \in Chans, NEW W \in SUBSET Chans,
         \A d \in W : pc[d] = "running",
         NEW o, SetOutput(c, W, o), Assigned(c, W, o)
  PROVE  TypeOK'
<1>1. /\ current' \in Records /\ user' \in [Chans -> Records \cup {None}]
      /\ name' \in [Chans -> Names \cup {None}]
      /\ forked' \in [Chans -> BOOLEAN] /\ closed' \in [Chans -> BOOLEAN]
  BY DEF Assigned, TypeOK
<1>2. script' \in [Chans -> Scripts]
  BY DEF SetOutput, TypeOK, Scripts
<1>3. ASSUME NEW d \in Chans
      PROVE  /\ pc'[d] = "none" <=> user'[d] = None
             /\ pc'[d] \in {"running", "checked"} => name'[d] # None
             /\ got'[d] # None => name'[d] # None
  BY DEF Assigned, TypeOK, PCs
<1>4. /\ output' \in [Records -> [Names -> Slices]]
      /\ pc' \in [Chans -> PCs] /\ got' \in [Chans -> Slices \cup {None}]
      /\ due' \in [Chans -> [Names -> SUBSET Slices]]
  BY DEF Assigned
<1>5. QED
  BY <1>1, <1>2, <1>3, <1>4 DEF TypeOK, PCs, Scripts

LEMMA ServeTypeOK ==
  ASSUME TypeOK, NEW c \in Chans, Serve(c)
  PROVE  TypeOK'
<1>1. CASE AddSession(c)
  BY <1>1 DEF AddSession, TypeOK
<1>2. CASE Leave(c)
  BY <1>2 DEF Leave, Fresh, TypeOK
<1>3. CASE NewReader(c)
  <2>1. user[c] \in Records /\ name[c] \in Names
    BY <1>3 DEF NewReader, TypeOK
  <2>2. output[user[c]][name[c]] \in Slices
    BY <2>1 DEF TypeOK
  <2>3. QED
    BY <1>3, <2>1, <2>2 DEF NewReader, TypeOK
<1>4. CASE ScriptEnds(c)
  BY <1>4 DEF ScriptEnds, TypeOK
<1>5. CASE ScriptReturns(c)
  <2>1. PICK o \in Slices :
          pc[c] = "running" /\ SetOutput(c, {c}, o) /\ Assigned(c, {c}, o)
    BY <1>5, ScriptReturnsEffect
  <2>2. QED
    BY <2>1, AssignedTypeOK
<1>6. QED
  BY <1>1, <1>2, <1>3, <1>4, <1>5 DEF Serve

LEMMA OutsideTypeOK ==
  ASSUME TypeOK, NEW c \in Chans, Outside(c)
  PROVE  TypeOK'
<1>1. CASE getUserByLogin(c)
  BY <1>1, MarksAssumption DEF getUserByLogin, TypeOK
<1>2. CASE Disconnect(c)
  BY <1>2 DEF Disconnect, TypeOK
<1>3. CASE ChildEnds(c)
  BY <1>3 DEF ChildEnds, TypeOK
<1>4. ASSUME NEW n \in Names, Filewrite(c, n)
      PROVE  TypeOK'
  <2>1. PICK s \in {"ends", "hangs", "failed"}, f \in BOOLEAN :
          script' = [script EXCEPT ![c] = s] /\ forked' = [forked EXCEPT ![c] = f]
    BY <1>4 DEF Filewrite
  <2>2. QED
    BY <1>4, <2>1, MarksAssumption DEF Filewrite, TypeOK
<1>5. ASSUME NEW n \in Names, Fileread(c, n)
      PROVE  TypeOK'
  BY <1>5, MarksAssumption DEF Fileread, TypeOK, Slices
<1>6. QED
  BY <1>1, <1>2, <1>3, <1>4, <1>5 DEF Outside

(* Every variable holds a value of its type.                               *)
THEOREM TypeCorrect == Spec => []TypeOK
<1>1. Init => TypeOK
  BY MaxLoadsAssumption, MarksAssumption DEF Init, TypeOK, Records, Slices
<1>2. TypeOK /\ [Next]_vars => TypeOK'
  <2> SUFFICES ASSUME TypeOK, [Next]_vars
               PROVE  TypeOK'
    OBVIOUS
  <2>1. CASE \E c \in Chans : Serve(c) \/ Outside(c)
    BY <2>1, ServeTypeOK, OutsideTypeOK
  <2>2. ASSUME NEW c \in Chans, NEW d \in Chans, ScriptsReturn(c, d)
        PROVE  TypeOK'
    <3>1. pc[c] = "running" /\ pc[d] = "running"
      BY <2>2, ScriptsReturnEffect
    <3>2. PICK o \in Slices : SetOutput(c, {c, d}, o) /\ Assigned(c, {c, d}, o)
      BY <2>2, ScriptsReturnEffect
    <3>3. {c, d} \in SUBSET Chans /\ \A e \in {c, d} : pc[e] = "running"
      BY <3>1
    <3>4. QED
      BY <3>2, <3>3, AssignedTypeOK
  <2>3. CASE LoadConfig
    BY <2>3, MaxLoadsAssumption DEF LoadConfig, TypeOK, Records
  <2>4. CASE UNCHANGED vars
    BY <2>4 DEF vars, TypeOK
  <2>5. QED
    BY <2>1, <2>2, <2>3, <2>4 DEF Next
<1>3. QED
  BY <1>1, <1>2, PTL DEF Spec

-----------------------------------------------------------------------------
(* The inductive invariant behind ReadsOwnOrLater.                         *)

(* A channel that waits for a script has no answer yet.                    *)
RunningUnanswered == \A c \in Chans : pc[c] = "running" => got[c] = None

(* What a record stores is among what its channels are due.                *)
DueStored ==
  \A c \in Chans, n \in Names :
    due[c][n] # {} => user[c] # None /\ output[user[c]][n] \in due[c][n]

IInv == TypeOK /\ RunningUnanswered /\ DueStored /\ ReadsOwnOrLater

LEMMA InitIInv == Init => IInv
<1> SUFFICES ASSUME Init PROVE IInv
  OBVIOUS
<1>1. TypeOK
  BY MaxLoadsAssumption, MarksAssumption DEF Init, TypeOK, Records, Slices
<1>2. RunningUnanswered /\ DueStored /\ ReadsOwnOrLater
  BY DEF Init, RunningUnanswered, DueStored, ReadsOwnOrLater
<1>3. QED
  BY <1>1, <1>2 DEF IInv

LEMMA AssignedIInv ==
  ASSUME IInv, NEW c \in Chans, NEW W \in SUBSET Chans,
         \A d \in W : pc[d] = "running", c \in W,
         NEW o \in Slices, Assigned(c, W, o)
  PROVE  RunningUnanswered' /\ DueStored' /\ ReadsOwnOrLater'
<1>1. /\ user[c] \in Records /\ name[c] \in Names
      /\ user' = user /\ name' = name
  BY DEF IInv, TypeOK, Assigned
<1>2. RunningUnanswered'
  BY DEF IInv, RunningUnanswered, Assigned
<1>3. DueStored'
  <2> SUFFICES ASSUME NEW d \in Chans, NEW n \in Names, due'[d][n] # {}
               PROVE  user[d] # None /\ output'[user[d]][n] \in due'[d][n]
    BY <1>1 DEF DueStored
  <2>1. CASE user[d] = user[c] /\ n = name[c]
    <3>1. o \in due'[d][n] /\ output'[user[d]][n] = o
      BY <1>1, <2>1 DEF Assigned
    <3>2. QED
      BY <1>1, <2>1, <3>1, MarksAssumption
  <2>2. CASE ~(user[d] = user[c] /\ n = name[c])
    <3>1. due[d][n] # {} /\ due'[d][n] = due[d][n]
      BY <2>2 DEF Assigned
    <3>2. user[d] # None /\ output[user[d]][n] \in due[d][n]
      BY <3>1 DEF IInv, DueStored
    <3>3. user[d] \in Records
      BY <3>2 DEF IInv, TypeOK
    <3>4. output'[user[d]][n] = output[user[d]][n]
      BY <2>2, <3>3 DEF Assigned
    <3>5. QED
      BY <3>1, <3>2, <3>4
  <2>3. QED
    BY <2>1, <2>2
<1>4. ReadsOwnOrLater'
  <2> SUFFICES ASSUME NEW d \in Chans, got'[d] # None, due'[d][name[d]] # {}
               PROVE  \/ got'[d] \in due'[d][name[d]]
                      \/ got'[d] = NoOutput /\ Torn \in due'[d][name[d]]
    BY <1>1 DEF ReadsOwnOrLater
  <2>1. CASE d \notin W /\ got'[d] = got[d]
    <3>1. name[d] \in Names
      BY <2>1 DEF IInv, TypeOK
    <3>2. due[d][name[d]] \subseteq due'[d][name[d]]
      BY <1>1, <2>1, <3>1 DEF Assigned
    <3>3. due[d][name[d]] # {}
      BY <2>1, <3>1 DEF Assigned
    <3>4. QED
      BY <2>1, <3>2, <3>3 DEF IInv, ReadsOwnOrLater
  <2>2. CASE d \in W
    BY <2>2 DEF IInv, RunningUnanswered, Assigned
  <2>3. CASE d \notin W /\ got'[d] # got[d]
    BY <1>1, <2>3 DEF Assigned, Same
  <2>4. QED
    BY <2>1, <2>2, <2>3
<1>5. QED
  BY <1>2, <1>3, <1>4

LEMMA ServeIInv ==
  ASSUME IInv, NEW c \in Chans, Serve(c)
  PROVE  IInv'
<1>0. TypeOK'
  BY ServeTypeOK DEF IInv
<1>1. CASE AddSession(c)
  <2>1. /\ UNCHANGED <<output, user, name, got, due>> /\ pc'[c] = "idle"
        /\ \A d \in Chans \ {c} : pc'[d] = pc[d]
    BY <1>1 DEF AddSession, IInv, TypeOK
  <2>2. QED
    BY <1>0, <2>1 DEF IInv, RunningUnanswered, DueStored, ReadsOwnOrLater
<1>2. CASE Leave(c)
  <2>1. /\ output' = output /\ pc'[c] = "none" /\ got'[c] = None
        /\ \A n \in Names : due'[c][n] = {}
        /\ \A d \in Chans \ {c} : /\ pc'[d] = pc[d] /\ user'[d] = user[d]
                                  /\ name'[d] = name[d] /\ got'[d] = got[d]
                                  /\ due'[d] = due[d]
    BY <1>2 DEF Leave, Fresh, IInv, TypeOK
  <2>2. QED
    BY <1>0, <2>1 DEF IInv, RunningUnanswered, DueStored, ReadsOwnOrLater
<1>3. CASE NewReader(c)
  <2>1. /\ UNCHANGED <<output, user, name, due>> /\ pc'[c] = "idle"
        /\ got'[c] = output[user[c]][name[c]]
        /\ \A d \in Chans \ {c} : pc'[d] = pc[d] /\ got'[d] = got[d]
        /\ user[c] \in Records /\ name[c] \in Names
    BY <1>3 DEF NewReader, IInv, TypeOK
  <2>2. RunningUnanswered' /\ DueStored'
    BY <2>1 DEF IInv, RunningUnanswered, DueStored
  <2>3. ReadsOwnOrLater'
    BY <2>1 DEF IInv, DueStored, ReadsOwnOrLater
  <2>4. QED
    BY <1>0, <2>2, <2>3 DEF IInv
<1>4. CASE ScriptEnds(c)
  BY <1>0, <1>4 DEF ScriptEnds, IInv, RunningUnanswered, DueStored, ReadsOwnOrLater
<1>5. CASE ScriptReturns(c)
  <2>1. PICK o \in Slices : pc[c] = "running" /\ Assigned(c, {c}, o)
    BY <1>5, ScriptReturnsEffect DEF IInv
  <2>2. QED
    BY <1>0, <2>1, AssignedIInv DEF IInv
<1>6. QED
  BY <1>1, <1>2, <1>3, <1>4, <1>5 DEF Serve

LEMMA OutsideIInv ==
  ASSUME IInv, NEW c \in Chans, Outside(c)
  PROVE  IInv'
<1>0. TypeOK'
  BY OutsideTypeOK DEF IInv
<1>1. CASE getUserByLogin(c)
  <2>1. /\ UNCHANGED <<output, name, got, due>> /\ pc'[c] = "admitted"
        /\ \A d \in Chans \ {c} : pc'[d] = pc[d] /\ user'[d] = user[d]
        /\ user[c] = None
    BY <1>1 DEF getUserByLogin, IInv, TypeOK
  <2>2. \A n \in Names : due[c][n] = {}
    BY <2>1 DEF IInv, DueStored
  <2>3. RunningUnanswered' /\ ReadsOwnOrLater'
    BY <2>1 DEF IInv, RunningUnanswered, ReadsOwnOrLater
  <2>4. DueStored'
    BY <2>1, <2>2 DEF IInv, DueStored
  <2>5. QED
    BY <1>0, <2>3, <2>4 DEF IInv
<1>2. CASE Disconnect(c) \/ ChildEnds(c)
  BY <1>0, <1>2 DEF Disconnect, ChildEnds, IInv, RunningUnanswered, DueStored, ReadsOwnOrLater
<1>3. ASSUME NEW n \in Names, Filewrite(c, n)
      PROVE  IInv'
  <2>1. /\ UNCHANGED <<output, user, due>> /\ got'[c] = None
        /\ \A d \in Chans \ {c} : /\ pc'[d] = pc[d] /\ name'[d] = name[d]
                                  /\ got'[d] = got[d]
    BY <1>3 DEF Filewrite, IInv, TypeOK
  <2>2. QED
    BY <1>0, <2>1 DEF IInv, RunningUnanswered, DueStored, ReadsOwnOrLater
<1>4. ASSUME NEW n \in Names, Fileread(c, n)
      PROVE  IInv'
  <2>1. /\ UNCHANGED <<output, user, due>> /\ pc'[c] # "running" /\ name'[c] = n
        /\ \/ output[user[c]][n] \in {NoOutput, Torn} /\ got'[c] = NoOutput
           \/ got'[c] = None
        /\ \A d \in Chans \ {c} : /\ pc'[d] = pc[d] /\ name'[d] = name[d]
                                  /\ got'[d] = got[d]
    BY <1>4 DEF Fileread, IInv, TypeOK
  <2>2. RunningUnanswered' /\ DueStored'
    BY <2>1 DEF IInv, RunningUnanswered, DueStored
  <2>3. ReadsOwnOrLater'
    <3> SUFFICES ASSUME NEW d \in Chans, got'[d] # None, due[d][name'[d]] # {}
                 PROVE  \/ got'[d] \in due[d][name'[d]]
                        \/ got'[d] = NoOutput /\ Torn \in due[d][name'[d]]
      BY <2>1 DEF ReadsOwnOrLater
    <3>1. CASE d = c
      <4>1. due[c][n] # {} /\ got'[c] = NoOutput /\ output[user[c]][n] \in {NoOutput, Torn}
        BY <2>1, <3>1
      <4>2. output[user[c]][n] \in due[c][n]
        BY <4>1 DEF IInv, DueStored
      <4>3. QED
        BY <2>1, <3>1, <4>1, <4>2
    <3>2. CASE d # c
      BY <2>1, <3>2 DEF IInv, ReadsOwnOrLater
    <3>3. QED
      BY <3>1, <3>2
  <2>4. QED
    BY <1>0, <2>2, <2>3 DEF IInv
<1>5. QED
  BY <1>1, <1>2, <1>3, <1>4 DEF Outside

LEMMA NextIInv == IInv /\ [Next]_vars => IInv'
<1> SUFFICES ASSUME IInv, [Next]_vars
             PROVE  IInv'
  OBVIOUS
<1>1. CASE \E c \in Chans : Serve(c) \/ Outside(c)
  BY <1>1, ServeIInv, OutsideIInv
<1>2. ASSUME NEW c \in Chans, NEW d \in Chans, ScriptsReturn(c, d)
      PROVE  IInv'
  <2>1. pc[c] = "running" /\ pc[d] = "running"
    BY <1>2, ScriptsReturnEffect DEF IInv
  <2>2. PICK o \in Slices : SetOutput(c, {c, d}, o) /\ Assigned(c, {c, d}, o)
    BY <1>2, ScriptsReturnEffect DEF IInv
  <2>3. /\ {c, d} \in SUBSET Chans /\ c \in {c, d}
        /\ \A e \in {c, d} : pc[e] = "running"
    BY <2>1
  <2>4. TypeOK'
    BY <2>2, <2>3, AssignedTypeOK DEF IInv
  <2>5. RunningUnanswered' /\ DueStored' /\ ReadsOwnOrLater'
    BY <2>2, <2>3, AssignedIInv
  <2>6. QED
    BY <2>4, <2>5 DEF IInv
<1>3. CASE LoadConfig
  <2>1. UNCHANGED <<output, pc, user, name, got, due>>
    BY <1>3 DEF LoadConfig
  <2>2. TypeOK'
    BY <1>3, MaxLoadsAssumption DEF LoadConfig, IInv, TypeOK, Records
  <2>3. QED
    BY <2>1, <2>2 DEF IInv, RunningUnanswered, DueStored, ReadsOwnOrLater
<1>4. CASE UNCHANGED vars
  BY <1>4 DEF vars, IInv, TypeOK, RunningUnanswered, DueStored, ReadsOwnOrLater
<1>5. QED
  BY <1>1, <1>2, <1>3, <1>4 DEF Next

(* A channel that ran a script and reads it back gets what its run         *)
(* printed, or a later one of another session, however the sessions of a   *)
(* user and reloads interleave; a mixture only where accesses overlap.     *)
THEOREM OwnOrLaterIsRead == Spec => []ReadsOwnOrLater
<1>1. IInv => ReadsOwnOrLater
  BY DEF IInv
<1>2. QED
  BY <1>1, InitIInv, NextIInv, PTL DEF Spec

-----------------------------------------------------------------------------
(* The safety half of RunEnds: a run that is answered has ended, script    *)
(* and children alike, and until then its channel waits for it with the    *)
(* record and the name it was started with: no disconnection, reload or    *)
(* run of another session cuts it short, brings a script back or makes it  *)
(* answer for another record (handlers.go:132).                            *)

GoesOn(d) ==
  /\ pc'[d] = "running" /\ user'[d] = user[d] /\ name'[d] = name[d]
  /\ script[d] = "dead" => script'[d] = "dead"
  /\ forked'[d] => forked[d]

Answered(d) == Ended(d) /\ pc'[d] = "idle"

RunIsAwaited ==
  [][\A d \in Chans : pc[d] = "running" => GoesOn(d) \/ Answered(d)]_vars

LEMMA AssignedAwaits ==
  ASSUME TypeOK, NEW c \in Chans, NEW W \in SUBSET Chans, NEW o, \A d \in W : Ended(d),
         SetOutput(c, W, o), Assigned(c, W, o), NEW d \in Chans, pc[d] = "running"
  PROVE  GoesOn(d) \/ Answered(d)
<1>1. CASE d \in W
  BY <1>1 DEF Assigned, Ended, Answered
<1>2. CASE d \notin W
  <2>1. pc'[d] = "running" /\ UNCHANGED <<user, name, forked>>
    BY <1>2 DEF Assigned
  <2>2. script'[d] = script[d]
    BY <1>2 DEF SetOutput
  <2>3. QED
    BY <2>1, <2>2 DEF GoesOn
<1>3. QED
  BY <1>1, <1>2

LEMMA ChannelAwaits ==
  ASSUME TypeOK, NEW c \in Chans, Serve(c) \/ Outside(c), NEW d \in Chans, pc[d] = "running"
  PROVE  GoesOn(d) \/ Answered(d)
<1>1. CASE ScriptReturns(c)
  <2>1. PICK o \in Slices : SetOutput(c, {c}, o) /\ Assigned(c, {c}, o)
    BY <1>1, ScriptReturnsEffect
  <2>2. {c} \in SUBSET Chans /\ \A e \in {c} : Ended(e)
    BY <1>1 DEF ScriptReturns
  <2>3. QED
    BY <2>1, <2>2, AssignedAwaits
<1>2. CASE AddSession(c) \/ Leave(c) \/ NewReader(c)
  BY <1>2 DEF AddSession, Leave, Fresh, NewReader, TypeOK, GoesOn
<1>3. CASE ScriptEnds(c)
  BY <1>3 DEF ScriptEnds, TypeOK, GoesOn
<1>4. CASE getUserByLogin(c) \/ Disconnect(c) \/ ChildEnds(c)
  BY <1>4 DEF getUserByLogin, Disconnect, ChildEnds, TypeOK, GoesOn
<1>5. ASSUME NEW n \in Names, Filewrite(c, n) PROVE GoesOn(d)
  BY <1>5 DEF Filewrite, TypeOK, GoesOn
<1>6. ASSUME NEW n \in Names, Fileread(c, n) PROVE GoesOn(d)
  BY <1>6 DEF Fileread, TypeOK, GoesOn
<1>7. QED
  BY <1>1, <1>2, <1>3, <1>4, <1>5, <1>6 DEF Serve, Outside

(* A run is left only when it has ended, on the record it was started on.  *)
THEOREM RunsAreAwaited == Spec => RunIsAwaited
<1>1. TypeOK /\ [Next]_vars
        => [\A d \in Chans : pc[d] = "running" => GoesOn(d) \/ Answered(d)]_vars
  <2> SUFFICES ASSUME TypeOK, Next, NEW d \in Chans, pc[d] = "running"
               PROVE  GoesOn(d) \/ Answered(d)
    OBVIOUS
  <2>1. ASSUME NEW c \in Chans, NEW e \in Chans, ScriptsReturn(c, e)
        PROVE  GoesOn(d) \/ Answered(d)
    <3>1. PICK o \in Slices : SetOutput(c, {c, e}, o) /\ Assigned(c, {c, e}, o)
      BY <2>1, ScriptsReturnEffect
    <3>2. {c, e} \in SUBSET Chans /\ \A f \in {c, e} : Ended(f)
      BY <2>1 DEF ScriptsReturn
    <3>3. QED
      BY <3>1, <3>2, AssignedAwaits
  <2>2. CASE LoadConfig
    BY <2>2 DEF LoadConfig, GoesOn
  <2>3. QED
    BY <2>1, <2>2, ChannelAwaits DEF Next
<1>2. QED
  BY <1>1, TypeCorrect, PTL DEF Spec, RunIsAwaited
=============================================================================
