---------------------------- MODULE ConfigStore ----------------------------
(***************************************************************************)
(* The configuration and its file: how LoadConfig completes what an        *)
(* operator wrote or posted from the configuration in force, how           *)
(* saveConfig rewrites the file in place, how ExportConfig hands the       *)
(* configuration to the web page, and what a new process finds.            *)
(*                                                                         *)
(* A secret has two sides, the string in the JSON document (Password) and  *)
(* the plaintext in use (password).  Its string is blank, clear or sealed  *)
(* by the cipher, whose frames are in Framing; texts are short enough.     *)
(* LoadConfig holds SFTPD.mutex until its save has ended, so that only the *)
(* end of the process comes between their steps.  The web user name and    *)
(* URL go through the same helper as the web password and are left out.    *)
(***************************************************************************)
EXTENDS Framing

CONSTANTS
  Logins,  \* the keys of Config.Users
  Texts,   \* plaintexts of passwords and keys
  sizeOf,  \* their lengths
  Dash,    \* the plaintext "-"
  Docs,    \* the documents an operator writes to the file or posts
  Blank,   \* the empty string
  NoUser,  \* a login that a document does not have
  NoConf,  \* s.config before the first load
  Torn     \* the content of a file that was truncated and not written

Clear(t)   == [sealed |-> FALSE, text |-> t]
Encrypt(t) == [sealed |-> TRUE,  text |-> t]

String == {Blank} \cup [sealed : BOOLEAN, text : Texts]
Text   == Texts \cup {Blank}

(* A document.  One group stands for all: "mapping" tells whether the root *)
(* of its directory can be opened or its entry is null, "member" who is    *)
(* in it.                                                                  *)
DocUser == [Password : String, PubKey : String, member : BOOLEAN]
Doc     == [users : [Logins -> DocUser \cup {NoUser}], private : String,
            http : String, mapping : {"open", "missing", "null"}]

(* A configuration in memory: each secret has its string and its text.     *)
Secret == [json : String, run : Text]
User   == [pw : Secret, key : Secret, member : BOOLEAN]
Conf   == [users : [Logins -> User \cup {NoUser}], private : Secret,
           http : Secret, mapping : {"open", "missing", "null"}]

(* What a document says, or a configuration has, of texts alone.           *)
Wish   == Text \cup {Clear(Dash)}
Wishes == [users : [Logins -> Wish \X Text \cup {NoUser}], private : Text, http : Text]

ASSUME SizeAssumption  == sizeOf \in [Texts -> Lengths] /\ \A t \in Texts : sizeOf[t] < Width - 2
ASSUME DashAssumption  == Dash \in Texts /\ Clear(Dash) \notin Texts
ASSUME DocsAssumption  == Docs \subseteq Doc
ASSUME BlankAssumption == /\ Blank \notin Texts
                          /\ Blank \notin [sealed : BOOLEAN, text : Texts]
ASSUME MarksAssumption == /\ NoUser \notin DocUser \cup User \cup Wish \X Text
                          /\ NoConf \notin Conf \cup Wishes
                          /\ Torn \notin Doc \cup Wishes

VARIABLES
  conf,       \* s.config
  file,       \* the content of s.configFile
  phase,      \* "down", "ready", or the step of saveConfig that is next
  edited,     \* history: an operator wrote the file since the last save
  saveFailed, \* history: the last save failed or was cut off
  panicked    \* history: a load of the file panicked and stopped the process

vars == <<conf, file, phase, edited, saveFailed, panicked>>

-----------------------------------------------------------------------------
(* Completing a document.                                                  *)

(* A sealed text of which not all comes out of its frame is as good as     *)
(* none.                                                                   *)
Opened(t) == IF Unframe(Frame(sizeOf[t])) = sizeOf[t] THEN t ELSE Blank

Decrypt(s) == IF s = Blank THEN Blank ELSE IF s.sealed THEN Opened(s.text) ELSE s.text

(* Defect: a blank field does not keep the old credential.                 *)
processSecureFieldAnew(s, old) ==
  [json |-> IF s = Blank THEN s ELSE Encrypt(Decrypt(s)), run |-> Decrypt(s)]

processSecureField(s, old) ==
  LET run == IF s = Blank THEN old ELSE Decrypt(s)
  IN  [json |-> IF run = Blank THEN s ELSE Encrypt(run), run |-> run]

(* Defect: the string of the old configuration is copied as it is, though  *)
(* an export may have blanked it.                                          *)
KeptAsIs(s, old) == IF s # Blank THEN s ELSE old.json

(* A blank field keeps the old credential, sealed anew when an export has  *)
(* blanked its string.                                                     *)
Kept(s, old) ==
  IF s # Blank THEN s
  ELSE IF old.json = Blank /\ old.run # Blank THEN Encrypt(old.run) ELSE old.json

(* Defect: what was typed stays in clear.                                  *)
CompletedClear(s) == [json |-> s, run |-> Decrypt(s)]

(* A clear string is sealed, and then opened like one that was.            *)
Completed(s) ==
  LET json == IF s = Blank THEN Blank ELSE Encrypt(s.text)
  IN  [json |-> json, run |-> Decrypt(json)]

(* The credentials of a user.  Only a user of the configuration in force   *)
(* can keep them, or lose its password to a dash.                          *)
LoadUser(u, old) ==
  LET pw  == IF old = NoUser THEN u.Password
             ELSE IF u.Password = Clear(Dash) THEN Blank ELSE Kept(u.Password, old.pw)
      key == IF old = NoUser THEN u.PubKey ELSE Kept(u.PubKey, old.key)
  IN  [pw |-> Completed(pw), key |-> Completed(key), member |-> u.member]

Loaded(doc, old) ==
  [users   |-> [l \in Logins |->
                  IF doc.users[l] = NoUser THEN NoUser
                  ELSE LoadUser(doc.users[l], IF old = NoConf THEN NoUser ELSE old.users[l])],
   private |-> processSecureField(doc.private, Blank),
   http    |-> processSecureField(doc.http, IF old = NoConf THEN Blank ELSE old.http.run),
   mapping |-> IF doc.mapping = "missing" THEN "null" ELSE doc.mapping]

(* A null mapping is dereferenced by the loop over the groups, and by the  *)
(* loop over the users for each member that has a credential.              *)
Panics(doc, old) ==
  \/ doc.mapping = "null"
  \/ doc.mapping = "missing" /\ \E l \in Logins :
       LET u == Loaded(doc, old).users[l]
       IN  u # NoUser /\ u.member /\ (u.pw.json # Blank \/ u.key.json # Blank)

(* Defect: the key's string is left out of the document.                   *)
SavedWithoutKeys(c) ==
  [users   |-> [l \in Logins |->
                  IF c.users[l] = NoUser THEN NoUser
                  ELSE [Password |-> c.users[l].pw.json, PubKey |-> Blank,
                        member |-> c.users[l].member]],
   private |-> c.private.json, http |-> c.http.json, mapping |-> c.mapping]

(* What the JSON encoder writes of a configuration.                        *)
Saved(c) ==
  [users   |-> [l \in Logins |->
                  IF c.users[l] = NoUser THEN NoUser
                  ELSE [Password |-> c.users[l].pw.json, PubKey |-> c.users[l].key.json,
                        member |-> c.users[l].member]],
   private |-> c.private.json, http |-> c.http.json, mapping |-> c.mapping]

-----------------------------------------------------------------------------
(* The process.                                                            *)

(* LoadConfig up to the save; a load that fails to decode does nothing.    *)
Load(doc, old) ==
  /\ ~Panics(doc, old)
  /\ conf' = Loaded(doc, old)
  /\ phase' = "opening"
  /\ UNCHANGED <<file, edited, saveFailed, panicked>>

Start == phase = "down" /\ file # Torn /\ Load(file, NoConf)

Hangup == phase = "ready" /\ file # Torn /\ Load(file, conf)

Update(doc) == phase = "ready" /\ Load(doc, conf)

(* The signal loop or main itself panics; the web path recovers, and the   *)
(* configuration stays as it was.                                          *)
LoadPanics ==
  /\ \/ phase = "down"  /\ file # Torn /\ Panics(file, NoConf)
     \/ phase = "ready" /\ file # Torn /\ Panics(file, conf)
  /\ phase' = "down"
  /\ panicked' = TRUE
  /\ UNCHANGED <<conf, file, edited, saveFailed>>

(* Defect: the file is opened without O_TRUNC.                             *)
OpenTruncatesNot ==
  /\ phase = "opening"
  /\ phase' = "writing"
  /\ UNCHANGED <<conf, file, edited, saveFailed, panicked>>

(* saveConfig: the file is truncated when it is opened ...                 *)
OpenTruncates ==
  /\ phase = "opening"
  /\ file' = Torn
  /\ phase' = "writing"
  /\ UNCHANGED <<conf, edited, saveFailed, panicked>>

(* ... and then written.                                                   *)
Encode ==
  /\ phase = "writing"
  /\ file' = Saved(conf)
  /\ phase' = "ready"
  /\ edited' = FALSE
  /\ saveFailed' = FALSE
  /\ UNCHANGED <<conf, panicked>>

(* Neither an open nor a write that fails is reported to the caller.       *)
SaveFails ==
  /\ phase \in {"opening", "writing"}
  /\ phase' = "ready"
  /\ saveFailed' = TRUE
  /\ UNCHANGED <<conf, file, edited, panicked>>

(* The document for the web page is made in the live configuration.        *)
ExportConfig ==
  /\ phase = "ready"
  /\ conf' =
       [conf EXCEPT
          !.users = [l \in Logins |->
                       IF conf.users[l] = NoUser THEN NoUser
                       ELSE [conf.users[l] EXCEPT !.pw.json = Blank, !.key.json = Blank]],
          !.private.json = IF conf.private.run = Blank THEN @ ELSE Clear(conf.private.run),
          !.http.json = Blank]
  /\ UNCHANGED <<file, phase, edited, saveFailed, panicked>>

(* A signal, a crash or a power cut, at any point.                         *)
Exit ==
  /\ phase # "down"
  /\ phase' = "down"
  /\ saveFailed' = (saveFailed \/ phase # "ready")
  /\ UNCHANGED <<conf, file, edited, panicked>>

(* An operator writes the file, while no save is running.                  *)
Edit(doc) ==
  /\ phase \in {"down", "ready"}
  /\ file' = doc
  /\ edited' = TRUE
  /\ UNCHANGED <<conf, phase, saveFailed, panicked>>

-----------------------------------------------------------------------------
Init ==
  /\ conf = NoConf
  /\ file \in Docs
  /\ phase = "down"
  /\ edited = TRUE
  /\ saveFailed = FALSE
  /\ panicked = FALSE

Next ==
  \/ Start \/ Hangup \/ LoadPanics
  \/ \E doc \in Docs : Update(doc) \/ Edit(doc)
  \/ OpenTruncates \/ Encode \/ SaveFails
  \/ ExportConfig \/ Exit

Spec == Init /\ [][Next]_vars

-----------------------------------------------------------------------------
(* Correctness.                                                            *)

(* Every variable holds a value of its type; a process that runs has a     *)
(* configuration, and the file that is being written has no content yet.   *)
TypeOK ==
  /\ conf \in Conf \cup {NoConf}
  /\ file \in Doc \cup {Torn}
  /\ phase \in {"down", "ready", "opening", "writing"}
  /\ edited \in BOOLEAN
  /\ saveFailed \in BOOLEAN
  /\ panicked \in BOOLEAN
  /\ phase # "down" => conf # NoConf
  /\ phase = "writing" => file = Torn

(* The secrets a configuration has in use.                                 *)
InUse(c) ==
  [users   |-> [l \in Logins |-> IF c.users[l] = NoUser THEN NoUser
                                 ELSE <<c.users[l].pw.run, c.users[l].key.run>>],
   private |-> c.private.run,
   http    |-> c.http.run]

(* A restart brings back the secrets that were in use: whatever was kept,  *)
(* removed, posted or exported, the file that the last save wrote opens to *)
(* the same texts without any old configuration to complete it.            *)
RestartRestores ==
  phase = "ready" /\ ~edited /\ ~saveFailed
    => file # Torn /\ InUse(Loaded(file, NoConf)) = InUse(conf)

(* README.md:248: the server writes no secret in clear, not even one that  *)
(* an export has put in clear in the live configuration.                   *)
Unreadable(s) == s = Blank \/ s.sealed

SecretsSealed ==
  ~edited /\ file # Torn =>
    /\ Unreadable(file.private) /\ Unreadable(file.http)
    /\ \A l \in Logins : file.users[l] # NoUser =>
         Unreadable(file.users[l].Password) /\ Unreadable(file.users[l].PubKey)

(* A load gives each user what the document says, in terms of the texts:   *)
(* blank keeps, a dash removes the password, anything else replaces; and   *)
(* no export in between makes a difference.                                *)
Meant(s, old) == IF s = Blank THEN old ELSE s.text

MeantUser(u, old) ==
  <<IF old # NoUser /\ u.Password = Clear(Dash) THEN Blank
    ELSE Meant(u.Password, IF old = NoUser THEN Blank ELSE old.pw.run),
    Meant(u.PubKey, IF old = NoUser THEN Blank ELSE old.key.run)>>

GivesWhatItSays(doc) ==
  \A l \in Logins : doc.users[l] # NoUser =>
    InUse(conf').users[l] = MeantUser(doc.users[l], conf.users[l])

LoadsAsWritten ==
  [][/\ Hangup => GivesWhatItSays(file)
     /\ \A doc \in Docs : Update(doc) => GivesWhatItSays(doc)]_vars

-----------------------------------------------------------------------------
(* What ConfigStore implements.                                            *)

(* What a document says: a clear dash for a password is a mark, anything   *)
(* else stands for its text.                                               *)
Wanted(doc) ==
  [users   |-> [l \in Logins |->
                  LET u == doc.users[l]
                  IN  IF u = NoUser THEN NoUser
                      ELSE <<IF u.Password = Clear(Dash) THEN u.Password ELSE Decrypt(u.Password),
                             Decrypt(u.PubKey)>>],
   private |-> Decrypt(doc.private),
   http    |-> Decrypt(doc.http)]

inUseMap   == IF phase = "down" THEN NoConf ELSE InUse(conf)
durableMap == IF file = Torn THEN Torn ELSE Wanted(file)

Abstract == INSTANCE Credentials
              WITH inUse <- inUseMap, durable <- durableMap, None <- NoConf,
                   Docs <- {Wanted(doc) : doc \in Docs}, Remove <- Clear(Dash)

(* Sealing, keeping, exporting, saving and panicking leave nothing to see  *)
(* but texts: each load gives exactly those it says, each save writes      *)
(* exactly those in use, and nothing else touches either.                  *)
ImplementsCredentials == Abstract!Spec

-----------------------------------------------------------------------------
(* What the documentation says and the code does not keep.                 *)

(* README.md:13 "Graceful config reload (SIGHUP)": a file that the server  *)
(* wrote does not stop it, or keep it from starting, when it is loaded.    *)
OwnFileLoads == panicked => edited
=============================================================================
