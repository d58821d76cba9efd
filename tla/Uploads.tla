------------------------------ MODULE Uploads ------------------------------
(***************************************************************************)
(* Directory mappings: uploads, and the commands that race with them.  An  *)
(* upload is an open, pieces that pkg/sftp writes with eight goroutines in *)
(* any order, and a close that waits for them.  Filewrite makes the        *)
(* directory of the file first and truncates whatever it opens.            *)
(*                                                                         *)
(* Several mappings, of one user or of many, may lead to one directory of  *)
(* the host; each has an os.Root of its own.  A mapped directory has one   *)
(* subdirectory here, which may be missing, and the files are in it.  An   *)
(* open file is an inode: it follows a rename and outlives a removal.      *)
(***************************************************************************)
EXTENDS Naturals

CONSTANTS
  Chans,     \* the uploads and commands of clients, one at a time for each
  Mappings,  \* directory mappings
  Dirs,      \* directories of the host
  Files,     \* the names of files
  Inodes,    \* bounds the number of files
  Payloads,  \* what a piece of a file may hold
  Pieces,    \* bounds the length of a file
  dirOf,     \* where a mapping leads
  modeOf,    \* its mode; LoadConfig takes any word
  None       \* no file, no mapping, no content

Offsets == 1 .. Pieces
Content == [Offsets -> Payloads \cup {None}]

ASSUME PiecesAssumption   == Pieces \in Nat
ASSUME MappingsAssumption == /\ dirOf \in [Mappings -> Dirs]
                             /\ modeOf \in [Mappings -> {"ro", "rw", "other"}]
ASSUME NoneAssumption     == None \notin Inodes \cup Mappings \cup Files \cup Payloads

VARIABLES
  sub,       \* the subdirectory of each directory exists
  entry,     \* the inode behind each name in it
  data,      \* the content of each inode
  pc,        \* what each client is doing
  map,       \* the mapping it uploads through
  file,      \* the name it opened
  handle,    \* the inode it has opened, or had when it closed it
  want,      \* the content it uploads
  left,      \* the pieces that are not yet written
  disturbed  \* history: another client opened, removed, renamed or wrote
             \* the file since the client opened it

tree   == <<sub, entry, data>>
upload == <<pc, map, file, handle, want, left>>
vars   == <<tree, upload, disturbed>>

-----------------------------------------------------------------------------
Empty == [o \in Offsets |-> None]

Free(i) == /\ \A d \in Dirs, f \in Files : entry[d][f] # i
           /\ \A c \in Chans : handle[c] # i

(* The other clients whose file this is; the client itself starts afresh.  *)
Names(e, d, F) == map[e] # None /\ dirOf[map[e]] = d /\ file[e] \in F

DisturbName(c, d, F) ==
  disturbed' = [e \in Chans |-> e # c /\ (disturbed[e] \/ Names(e, d, F))]

DisturbInode(c, i) ==
  disturbed' = [e \in Chans |-> disturbed[e] \/ (e # c /\ handle[e] = i)]

(* The client has no file open and keeps none in mind.                     *)
Forget(c) ==
  /\ pc'     = [pc     EXCEPT ![c] = "idle"]
  /\ map'    = [map    EXCEPT ![c] = None]
  /\ file'   = [file   EXCEPT ![c] = None]
  /\ handle' = [handle EXCEPT ![c] = None]
  /\ want'   = [want   EXCEPT ![c] = Empty]
  /\ left'   = [left   EXCEPT ![c] = {}]
  /\ disturbed' = [disturbed EXCEPT ![c] = FALSE]

-----------------------------------------------------------------------------
(* Filewrite.                                                              *)

(* The directory of the file is made, or is there already ...              *)
Filewrite(c, m, f) ==
  /\ pc[c] = "idle"
  /\ modeOf[m] # "ro"
  /\ sub' = [sub EXCEPT ![dirOf[m]] = TRUE]
  /\ pc'   = [pc   EXCEPT ![c] = "opening"]
  /\ map'  = [map  EXCEPT ![c] = m]
  /\ file' = [file EXCEPT ![c] = f]
  /\ UNCHANGED <<entry, data, handle, want, left, disturbed>>

(* The inode that an open of the file finds or creates.                    *)
Opened(c, i) ==
  LET d == dirOf[map[c]]
  IN  /\ pc[c] = "opening"
      /\ sub[d]
      /\ IF entry[d][file[c]] # None
         THEN i = entry[d][file[c]] /\ UNCHANGED entry
         ELSE Free(i) /\ entry' = [entry EXCEPT ![d][file[c]] = i]
      /\ DisturbName(c, d, {file[c]})
      /\ handle' = [handle EXCEPT ![c] = i]
      /\ pc'     = [pc     EXCEPT ![c] = "open"]
      /\ \E p \in Payloads, k \in 0 .. Pieces :
           /\ want' = [want EXCEPT ![c] = [o \in Offsets |-> IF o <= k THEN p ELSE None]]
           /\ left' = [left EXCEPT ![c] = 1 .. k]
      /\ UNCHANGED <<sub, map, file>>

(* Defect: the open does not truncate.                                     *)
OpenFileKeeps(c) == \E i \in Inodes : Opened(c, i) /\ UNCHANGED data

(* ... and the file is opened, created or truncated.                       *)
OpenFile(c) == \E i \in Inodes : Opened(c, i) /\ data' = [data EXCEPT ![i] = Empty]

(* Someone removed the directory meanwhile, or the host refuses.           *)
OpenFails(c) ==
  /\ pc[c] = "opening"
  /\ Forget(c)
  /\ UNCHANGED tree

(* One of the eight goroutines writes a piece.                             *)
WriteAt(c, o) ==
  /\ pc[c] = "open"
  /\ o \in left[c]
  /\ data' = [data EXCEPT ![handle[c]][o] = want[c][o]]
  /\ left' = [left EXCEPT ![c] = @ \ {o}]
  /\ DisturbInode(c, handle[c])
  /\ UNCHANGED <<sub, entry, pc, map, file, handle, want>>

(* A close waits for the writes before it.                                 *)
Close(c) ==
  /\ pc[c] = "open"
  /\ left[c] = {}
  /\ pc' = [pc EXCEPT ![c] = "stored"]
  /\ UNCHANGED <<tree, map, file, handle, want, left, disturbed>>

(* The connection breaks, a reload closes it, a write fails and the client *)
(* gives up; or, after the close, the client turns to something else.      *)
Leave(c) ==
  /\ pc[c] \in {"open", "stored"}
  /\ Forget(c)
  /\ UNCHANGED tree

-----------------------------------------------------------------------------
(* Filecmd, by a client that is not uploading.                             *)

(* Remove and Rmdir are the same call: this is a file ...                  *)
Remove(c, m, f) ==
  LET d == dirOf[m]
  IN  /\ pc[c] = "idle"
      /\ modeOf[m] = "rw"
      /\ entry[d][f] # None
      /\ entry' = [entry EXCEPT ![d][f] = None]
      /\ DisturbName(c, d, {f})
      /\ UNCHANGED <<sub, data, upload>>

(* ... and this an empty directory.                                        *)
Rmdir(c, m) ==
  /\ pc[c] = "idle"
  /\ modeOf[m] = "rw"
  /\ sub[dirOf[m]]
  /\ \A f \in Files : entry[dirOf[m]][f] = None
  /\ sub' = [sub EXCEPT ![dirOf[m]] = FALSE]
  /\ UNCHANGED <<entry, data, upload, disturbed>>

Mkdir(c, m) ==
  /\ pc[c] = "idle"
  /\ modeOf[m] = "rw"
  /\ sub' = [sub EXCEPT ![dirOf[m]] = TRUE]
  /\ UNCHANGED <<entry, data, upload, disturbed>>

(* Defect: the roots of the two paths are not compared.                    *)
SameRootAssumed(m, n) == TRUE

(* Every mapping of a user has a root of its own.                          *)
SameRoot(m, n) == m = n

(* Defect: the old name stays.                                             *)
RenameLinks(c, m, f, n, g) ==
  LET d == dirOf[m] IN
  /\ pc[c] = "idle"
  /\ modeOf[m] = "rw"
  /\ SameRoot(m, n)
  /\ entry[d][f] # None /\ sub[dirOf[n]] /\ <<d, f>> # <<dirOf[n], g>>
  /\ entry' = [entry EXCEPT ![dirOf[n]][g] = entry[d][f]]
  /\ DisturbName(c, d, {f, g})
  /\ UNCHANGED <<sub, data, upload>>

(* The target's mode is not looked at, and a file of its name is replaced. *)
Rename(c, m, f, n, g) ==
  LET d == dirOf[m] IN
  /\ pc[c] = "idle"
  /\ modeOf[m] = "rw"
  /\ SameRoot(m, n)
  /\ entry[d][f] # None /\ sub[dirOf[n]] /\ <<d, f>> # <<dirOf[n], g>>
  /\ entry' = [entry EXCEPT ![d][f] = None, ![dirOf[n]][g] = entry[d][f]]
  /\ DisturbName(c, d, {f, g})
  /\ UNCHANGED <<sub, data, upload>>

-----------------------------------------------------------------------------
Init ==
  /\ sub \in [Dirs -> BOOLEAN]
  /\ entry \in [Dirs -> [Files -> Inodes \cup {None}]]
  /\ \A d \in Dirs, f \in Files : entry[d][f] # None =>
       /\ sub[d]
       /\ \A e \in Dirs, g \in Files : entry[e][g] = entry[d][f] => <<e, g>> = <<d, f>>
  /\ data = [i \in Inodes |-> Empty]
  /\ pc     = [c \in Chans |-> "idle"]
  /\ map    = [c \in Chans |-> None]
  /\ file   = [c \in Chans |-> None]
  /\ handle = [c \in Chans |-> None]
  /\ want   = [c \in Chans |-> Empty]
  /\ left   = [c \in Chans |-> {}]
  /\ disturbed = [c \in Chans |-> FALSE]

Upload(c) == \/ \E m \in Mappings, f \in Files : Filewrite(c, m, f)
             \/ OpenFile(c) \/ OpenFails(c) \/ Close(c) \/ Leave(c)
             \/ \E o \in Offsets : WriteAt(c, o)

Filecmd(c, m) == \/ \E f \in Files : Remove(c, m, f)
                 \/ Rmdir(c, m) \/ Mkdir(c, m)
                 \/ \E f, g \in Files, n \in Mappings : Rename(c, m, f, n, g)

Next == \E c \in Chans : Upload(c) \/ \E m \in Mappings : Filecmd(c, m)

Spec == Init /\ [][Next]_vars

-----------------------------------------------------------------------------
(* Correctness.                                                            *)

(* Every variable holds a value of its type; a file has one name, in a     *)
(* directory that exists, and an upload has its mapping and its file.      *)
TypeOK ==
  /\ sub    \in [Dirs -> BOOLEAN]
  /\ entry  \in [Dirs -> [Files -> Inodes \cup {None}]]
  /\ data   \in [Inodes -> Content]
  /\ pc     \in [Chans -> {"idle", "opening", "open", "stored"}]
  /\ map    \in [Chans -> Mappings \cup {None}]
  /\ file   \in [Chans -> Files \cup {None}]
  /\ handle \in [Chans -> Inodes \cup {None}]
  /\ want   \in [Chans -> Content]
  /\ left   \in [Chans -> SUBSET Offsets]
  /\ disturbed \in [Chans -> BOOLEAN]
  /\ \A d \in Dirs, f \in Files : entry[d][f] # None =>
       /\ sub[d]
       /\ \A e \in Dirs, g \in Files : entry[e][g] = entry[d][f] => e = d /\ g = f
  /\ \A c \in Chans : /\ pc[c] # "idle" => map[c] \in Mappings /\ file[c] \in Files
                      /\ pc[c] \in {"open", "stored"} <=> handle[c] # None

(* handlers.go:152: an upload that was closed and that nobody disturbed is *)
(* stored whole - its pieces and nothing of an older, longer file - under  *)
(* its name, in whatever order its pieces were written.                    *)
QuietUploadIsWhole ==
  \A c \in Chans : pc[c] = "stored" /\ ~disturbed[c] =>
    LET i == entry[dirOf[map[c]]][file[c]]
    IN  i # None /\ data[i] = want[c]

(* handlers.go:143-145, :166-168: a directory that all its mappings map    *)
(* read-only is never changed: not by a rename out of a writable mapping,  *)
(* whose target's mode Filecmd does not look at, and not through a file    *)
(* that was opened elsewhere.                                              *)
ReadOnly == {d \in Dirs : \A m \in Mappings : dirOf[m] = d => modeOf[m] = "ro"}

ReadOnlyIsUntouched ==
  [][\A d \in ReadOnly :
       /\ sub'[d] = sub[d] /\ entry'[d] = entry[d]
       /\ \A f \in Files : LET i == entry[d][f] IN i # None => data'[i] = data[i]]_vars
=============================================================================
