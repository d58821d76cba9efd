----------------------------- MODULE Credentials -----------------------------
(***************************************************************************)
(* What the configuration promises about credentials, with no cipher, no   *)
(* export and no null mapping in sight: a process takes the texts that the *)
(* file, or a document that is posted, gives it, completed from those in   *)
(* use; and the file holds what somebody wrote there, exactly the texts    *)
(* that are in use, or, when a save was cut short, nothing.                *)
(***************************************************************************)
CONSTANTS
  Logins,
  Docs,    \* documents: for each user what becomes of its password and key
  Blank,   \* no text; in a document: keep the old one
  Remove,  \* in a document: drop the old password
  Dash,    \* the text that Remove is for a user that has no old password
  NoUser, None, Torn

VARIABLES
  inUse,   \* the texts that the process accepts; None while there is none
  durable  \* the document that the file holds, or Torn

Kept(t, old) == IF t = Blank THEN old ELSE t

GivenUser(u, old) ==
  IF u = NoUser THEN NoUser
  ELSE IF old = NoUser THEN <<IF u[1] = Remove THEN Dash ELSE u[1], u[2]>>
  ELSE <<IF u[1] = Remove THEN Blank ELSE Kept(u[1], old[1]), Kept(u[2], old[2])>>

(* The texts in use after a document was loaded over the old ones.  The    *)
(* host key is never kept.                                                 *)
Given(doc, old) ==
  [users   |-> [l \in Logins |->
                  GivenUser(doc.users[l], IF old = None THEN NoUser ELSE old.users[l])],
   private |-> doc.private,
   http    |-> Kept(doc.http, IF old = None THEN Blank ELSE old.http)]

Init == inUse = None /\ durable \in Docs

(* A process starts from the file alone.                                   *)
Start ==
  /\ inUse = None /\ durable # Torn
  /\ inUse' = Given(durable, None)
  /\ UNCHANGED durable

Hangup ==
  /\ inUse # None /\ durable # Torn
  /\ inUse' = Given(durable, inUse)
  /\ UNCHANGED durable

Update(doc) ==
  /\ inUse # None
  /\ inUse' = Given(doc, inUse)
  /\ UNCHANGED durable

Stop == inUse' = None /\ UNCHANGED durable

(* A save empties the file ...                                             *)
Tear == inUse # None /\ durable' = Torn /\ UNCHANGED inUse

(* ... and then writes what is in use.                                     *)
Persist == inUse # None /\ durable' = inUse /\ UNCHANGED inUse

Edit(doc) == durable' = doc /\ UNCHANGED inUse

Next ==
  \/ Start \/ Hangup \/ Stop \/ Tear \/ Persist
  \/ \E doc \in Docs : Update(doc) \/ Edit(doc)

Spec == Init /\ [][Next]_<<inUse, durable>>
=============================================================================
