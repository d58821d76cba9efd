----------------------------- MODULE ExecFiles -----------------------------
(***************************************************************************)
(* The "exec" mappings of one user: a write to one runs its script, a read *)
(* of it returns what the script printed.  The output is kept in the       *)
(* Mapping of the user's record, which all sessions of that user share;    *)
(* each sftp channel has a handler with a lock of its own, so that nothing *)
(* orders the accesses of two channels.  LoadConfig copies every mapping   *)
(* for every user: users share no output, and a new record starts without. *)
(*                                                                         *)
(* One channel's opens are handled one after the other (pkg/sftp).  An     *)
(* output is a slice, three words, assigned and read without a common      *)
(* lock: Torn stands for words of two outputs put together.  What a reader *)
(* then makes of it is not followed.                                       *)
(***************************************************************************)
EXTENDS Naturals

CONSTANTS
  Chans,     \* sftp channels, one per connection
  Names,     \* the exec mappings; each has a command
  Texts,     \* what a script may print, the empty text among them
  MaxLoads,  \* bounds the number of reloads
  NoOutput,  \* the nil slice: no run yet, or a command that could not be started
  Torn,      \* words of two different outputs
  None       \* no answer, no record, no name

ASSUME MaxLoadsAssumption == MaxLoads \in Nat

Records == 0 .. MaxLoads
Slices  == Texts \cup {NoOutput, Torn}

ASSUME MarksAssumption ==
  /\ NoOutput # Torn /\ NoOutput # None /\ Torn # None
  /\ {NoOutput, Torn, None} \cap Texts = {}
  /\ None \notin Records \cup Names

VARIABLES
  current, \* the record that s.config.Users has for the user
  output,  \* m.output of each mapping, in each record
  pc,      \* where the channel's goroutine is
  user,    \* v.user: the record a channel works on
  name,    \* the mapping of its last request
  script,  \* the process of the script: one that ends by itself, or not,
           \* or a command that cannot be started
  forked,  \* a child of the script still holds its standard output
  closed,  \* the connection is closed, by either side
  got,     \* what the last read returned; NoOutput is "does not exist"
  due      \* history: what a read may be answered once the channel has run
           \* the script: its own output, or that of a run that ended later

vars == <<current, output, pc, user, name, script, forked, closed, got, due>>

-----------------------------------------------------------------------------
(* Sessions come and go: what module Sessions shows in detail.  A load     *)
(* between getUserByLogin and AddSession leaves a channel on an old record.*)

Fresh(c) ==
  /\ name'   = [name   EXCEPT ![c] = None]
  /\ script' = [script EXCEPT ![c] = "none"]
  /\ forked' = [forked EXCEPT ![c] = FALSE]
  /\ closed' = [closed EXCEPT ![c] = FALSE]
  /\ got'    = [got    EXCEPT ![c] = None]
  /\ due'    = [due    EXCEPT ![c] = [n \in Names |-> {}]]

(* Defect: the record that was found is not kept.                          *)
getUserByLoginNil(c) ==
  /\ pc[c] = "none"
  /\ pc' = [pc EXCEPT ![c] = "admitted"]
  /\ UNCHANGED <<current, output, user, name, script, forked, closed, got, due>>

getUserByLogin(c) ==
  /\ pc[c] = "none"
  /\ pc'   = [pc   EXCEPT ![c] = "admitted"]
  /\ user' = [user EXCEPT ![c] = current]
  /\ UNCHANGED <<current, output, name, script, forked, closed, got, due>>

AddSession(c) ==
  /\ pc[c] = "admitted"
  /\ pc' = [pc EXCEPT ![c] = "idle"]
  /\ UNCHANGED <<current, output, user, name, script, forked, closed, got, due>>

(* The session is refused, or Serve has returned on a closed connection.   *)
Leave(c) ==
  /\ pc[c] = "admitted" \/ (pc[c] = "idle" /\ closed[c])
  /\ pc'   = [pc   EXCEPT ![c] = "none"]
  /\ user' = [user EXCEPT ![c] = None]
  /\ Fresh(c)
  /\ UNCHANGED <<current, output>>

Disconnect(c) ==
  /\ pc[c] # "none"
  /\ ~closed[c]
  /\ closed' = [closed EXCEPT ![c] = TRUE]
  /\ UNCHANGED <<current, output, pc, user, name, script, forked, got, due>>

(* The new record starts without outputs; what scripts printed before the  *)
(* load is only read by sessions that outlive it.                          *)
LoadConfig ==
  /\ current < MaxLoads
  /\ current' = current + 1
  /\ closed' = [c \in Chans |-> closed[c] \/ pc[c] \in {"idle", "running", "checked"}]
  /\ UNCHANGED <<output, pc, user, name, script, forked, got, due>>

-----------------------------------------------------------------------------
(* Filewrite on an exec mapping.  Requests that were queued before the     *)
(* connection closed are still handled.                                    *)

(* The script may end by itself or not, and leave a child that holds its   *)
(* standard output or not; or it does not start at all.                    *)
Filewrite(c, n) ==
  /\ pc[c] = "idle"
  /\ pc'   = [pc   EXCEPT ![c] = "running"]
  /\ name' = [name EXCEPT ![c] = n]
  /\ got'  = [got  EXCEPT ![c] = None]
  /\ \E s \in {"ends", "hangs", "failed"}, f \in BOOLEAN :
       /\ s = "failed" => ~f
       /\ script' = [script EXCEPT ![c] = s]
       /\ forked' = [forked EXCEPT ![c] = f]
  /\ UNCHANGED <<current, output, user, closed, due>>

(* Defect: the command runs without the context that kills it.             *)
ScriptEndsUntimed(c) ==
  /\ pc[c] = "running"
  /\ script[c] = "ends"
  /\ script' = [script EXCEPT ![c] = "dead"]
  /\ UNCHANGED <<current, output, pc, user, name, forked, closed, got, due>>

(* It ends, or ExecTimeout passes and it is killed.                        *)
ScriptEnds(c) ==
  /\ pc[c] = "running"
  /\ script[c] \in {"ends", "hangs"}
  /\ script' = [script EXCEPT ![c] = "dead"]
  /\ UNCHANGED <<current, output, pc, user, name, forked, closed, got, due>>

ChildEnds(c) ==
  /\ pc[c] = "running"
  /\ forked[c]
  /\ forked' = [forked EXCEPT ![c] = FALSE]
  /\ UNCHANGED <<current, output, pc, user, name, script, closed, got, due>>

(* CombinedOutput returns when the script has ended and nobody holds its   *)
(* standard output any more.                                               *)
Ended(c) == pc[c] = "running" /\ script[c] \in {"dead", "failed"} /\ ~forked[c]

(* Its buffer is there, if empty, as soon as the command was started.      *)
CombinedOutput(c) == IF script[c] = "failed" THEN {NoOutput} ELSE Texts

Same(c, d) == user[c] = user[d] /\ name[c] = name[d]

(* The channels whose read of the slice overlaps an assignment by c.       *)
TornReaders(c) == SUBSET {r \in Chans : pc[r] = "checked" /\ Same(r, c)}

(* What d may be answered when o is assigned, by it or by another channel. *)
DueAfter(d, n, W, T, o) ==
  IF d \in W THEN {o}
  ELSE IF due[d][n] = {} THEN {}
  ELSE due[d][n] \cup {o} \cup {Torn : t \in T \cap {d}}

(* The channels in W assign o to the mapping that they all wrote to.       *)
SetOutput(c, W, o) ==
  /\ output' = [output EXCEPT ![user[c]][name[c]] = o]
  /\ \E T \in TornReaders(c) :
       /\ pc'  = [d \in Chans |-> IF d \in W \cup T THEN "idle" ELSE pc[d]]
       /\ got' = [d \in Chans |-> IF d \in T THEN Torn ELSE got[d]]
       /\ due' = [d \in Chans |->
                    IF user[d] # user[c] THEN due[d]
                    ELSE [due[d] EXCEPT ![name[c]] = DueAfter(d, name[c], W, T, o)]]
  /\ script' = [d \in Chans |-> IF d \in W THEN "none" ELSE script[d]]
  /\ UNCHANGED <<current, user, name, forked, closed>>

(* Defect: the output is only kept if the command could be started.        *)
ScriptReturnsQuietly(c) ==
  /\ Ended(c)
  /\ \E o \in CombinedOutput(c) :
       IF o # NoOutput THEN SetOutput(c, {c}, o)
       ELSE /\ pc'     = [pc     EXCEPT ![c] = "idle"]
            /\ script' = [script EXCEPT ![c] = "none"]
            /\ due'    = [due    EXCEPT ![c][name[c]] = {o}]
            /\ UNCHANGED <<current, output, user, name, forked, closed, got>>

(* The error of the command is dropped.                                    *)
ScriptReturns(c) ==
  /\ Ended(c)
  /\ \E o \in CombinedOutput(c) : SetOutput(c, {c}, o)

(* Two assignments of the same slice at once.                              *)
ScriptsReturn(c, d) ==
  /\ c # d
  /\ Ended(c) /\ Ended(d) /\ Same(c, d)
  /\ SetOutput(c, {c, d}, IF {script[c], script[d]} = {"failed"} THEN NoOutput ELSE Torn)

-----------------------------------------------------------------------------
(* Fileread on an exec mapping: the slice is compared with nil ...         *)
Fileread(c, n) ==
  /\ pc[c] = "idle"
  /\ name' = [name EXCEPT ![c] = n]
  /\ \/ /\ output[user[c]][n] \in {NoOutput, Torn}
        /\ got' = [got EXCEPT ![c] = NoOutput]
        /\ UNCHANGED pc
     \/ /\ output[user[c]][n] # NoOutput
        /\ got' = [got EXCEPT ![c] = None]
        /\ pc'  = [pc  EXCEPT ![c] = "checked"]
  /\ UNCHANGED <<current, output, user, script, forked, closed, due>>

(* ... and then read.  The reader keeps the slice it got: no run writes    *)
(* into the buffer of another.                                             *)
NewReader(c) ==
  /\ pc[c] = "checked"
  /\ got' = [got EXCEPT ![c] = output[user[c]][name[c]]]
  /\ pc'  = [pc  EXCEPT ![c] = "idle"]
  /\ UNCHANGED <<current, output, user, name, script, forked, closed, due>>

-----------------------------------------------------------------------------
Init ==
  /\ current = 0
  /\ output = [r \in Records |-> [n \in Names |-> NoOutput]]
  /\ pc     = [c \in Chans |-> "none"]
  /\ user   = [c \in Chans |-> None]
  /\ name   = [c \in Chans |-> None]
  /\ script = [c \in Chans |-> "none"]
  /\ forked = [c \in Chans |-> FALSE]
  /\ closed = [c \in Chans |-> FALSE]
  /\ got    = [c \in Chans |-> None]
  /\ due    = [c \in Chans |-> [n \in Names |-> {}]]

(* What the server does by itself, and what clients and scripts do.        *)
Serve(c) == \/ AddSession(c) \/ Leave(c) \/ NewReader(c)
            \/ ScriptEnds(c) \/ ScriptReturns(c)

Outside(c) == \/ getUserByLogin(c) \/ Disconnect(c) \/ ChildEnds(c)
              \/ \E n \in Names : Filewrite(c, n) \/ Fileread(c, n)

Next ==
  \/ \E c \in Chans : Serve(c) \/ Outside(c)
  \/ \E c, d \in Chans : ScriptsReturn(c, d)
  \/ LoadConfig

(* Goroutines run, and the context of a command kills it in time; nothing  *)
(* makes a client act or a child of a script end.                          *)
Fairness == \A c \in Chans : WF_vars(Serve(c))

Spec == Init /\ [][Next]_vars /\ Fairness

-----------------------------------------------------------------------------
(* Correctness.                                                            *)

(* Every variable holds a value of its type, and a channel has a record    *)
(* exactly while it has a session.                                         *)
TypeOK ==
  /\ current \in Records
  /\ output \in [Records -> [Names -> Slices]]
  /\ pc     \in [Chans -> {"none", "admitted", "idle", "running", "checked"}]
  /\ user   \in [Chans -> Records \cup {None}]
  /\ name   \in [Chans -> Names \cup {None}]
  /\ script \in [Chans -> {"none", "ends", "hangs", "dead", "failed"}]
  /\ forked \in [Chans -> BOOLEAN]
  /\ closed \in [Chans -> BOOLEAN]
  /\ got    \in [Chans -> Slices \cup {None}]
  /\ due    \in [Chans -> [Names -> SUBSET Slices]]
  /\ \A c \in Chans : /\ pc[c] = "none" <=> user[c] = None
                      /\ pc[c] \in {"running", "checked"} => name[c] # None
                      /\ got[c] # None => name[c] # None

(* handlers.go:103-106, README.md:197: a channel that ran a script and     *)
(* reads it back gets what its own run printed, or what a run that another *)
(* session of the user ended later printed - never an older output, nor    *)
(* "does not exist" for a script that was started.  Words of two outputs,  *)
(* and what the reader makes of them, it gets only where two assignments,  *)
(* or one and its read, overlap.                                           *)
ReadsOwnOrLater ==
  \A c \in Chans : got[c] # None /\ due[c][name[c]] # {} =>
    \/ got[c] \in due[c][name[c]]
    \/ got[c] = NoOutput /\ Torn \in due[c][name[c]]

(* types.go:21: a write to an exec mapping is answered, even if the script *)
(* hangs, unless a child of the script holds its standard output.          *)
RunEnds ==
  \A c \in Chans : (pc[c] = "running") ~> (pc[c] # "running" \/ forked[c])
=============================================================================
