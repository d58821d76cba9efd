--------------------------- MODULE UploadsProofs ---------------------------
(***************************************************************************)
(* Proofs about Uploads, for any clients, mappings, directories and files. *)
(***************************************************************************)
EXTENDS Uploads, TLAPS

-----------------------------------------------------------------------------
(* What the steps that touch a name do to the names.                       *)

LEMMA OpenedEffect ==
  ASSUME TypeOK, NEW c \in Chans, NEW i \in Inodes, Opened(c, i)
  PROVE  /\ map[c] \in Mappings /\ file[c] \in Files /\ dirOf[map[c]] \in Dirs
         /\ pc[c] = "opening" /\ sub[dirOf[map[c]]]
         /\ entry' \in [Dirs -> [Files -> Inodes \cup {None}]]
         /\ \A d \in Dirs, f \in Files :
              entry'[d][f] = IF d = dirOf[map[c]] /\ f = file[c] THEN i ELSE entry[d][f]
         /\ \/ entry[dirOf[map[c]]][file[c]] = i
            \/ entry[dirOf[map[c]]][file[c]] = None /\ Free(i)
<1>1. /\ map[c] \in Mappings /\ file[c] \in Files
      /\ pc[c] = "opening" /\ sub[dirOf[map[c]]]
  BY DEF Opened, TypeOK
<1>2. dirOf[map[c]] \in Dirs
  BY <1>1, MappingsAssumption
<1>3. \/ entry[dirOf[map[c]]][file[c]] = i /\ entry' = entry
      \/ /\ entry[dirOf[map[c]]][file[c]] = None /\ Free(i)
         /\ entry' = [entry EXCEPT ![dirOf[map[c]]][file[c]] = i]
  BY DEF Opened
<1>4. entry \in [Dirs -> [Files -> Inodes \cup {None}]]
  BY DEF TypeOK
<1>5. QED
  BY <1>1, <1>2, <1>3, <1>4

LEMMA RemoveEffect ==
  ASSUME TypeOK, NEW c \in Chans, NEW m \in Mappings, NEW f \in Files, Remove(c, m, f)
  PROVE  /\ entry' \in [Dirs -> [Files -> Inodes \cup {None}]]
         /\ \A d \in Dirs, h \in Files :
              entry'[d][h] = IF d = dirOf[m] /\ h = f THEN None ELSE entry[d][h]
<1>1. entry' = [entry EXCEPT ![dirOf[m]][f] = None]
  BY DEF Remove
<1>2. entry \in [Dirs -> [Files -> Inodes \cup {None}]] /\ dirOf[m] \in Dirs
  BY MappingsAssumption DEF TypeOK
<1>3. QED
  BY <1>1, <1>2

LEMMA RenameEffect ==
  ASSUME TypeOK, NEW c \in Chans, NEW m \in Mappings, NEW n \in Mappings,
         NEW f \in Files, NEW g \in Files, Rename(c, m, f, n, g)
  PROVE  /\ n = m /\ f # g /\ dirOf[m] \in Dirs /\ sub[dirOf[m]]
         /\ entry[dirOf[m]][f] # None
         /\ entry' \in [Dirs -> [Files -> Inodes \cup {None}]]
         /\ \A d \in Dirs, h \in Files :
              entry'[d][h] = IF d = dirOf[m] /\ h = f THEN None
                             ELSE IF d = dirOf[m] /\ h = g THEN entry[d][f]
                             ELSE entry[d][h]
<1>1. /\ n = m /\ f # g /\ sub[dirOf[m]] /\ entry[dirOf[m]][f] # None
      /\ entry' = [entry EXCEPT ![dirOf[m]][f] = None, ![dirOf[m]][g] = entry[dirOf[m]][f]]
  BY DEF Rename, SameRoot
<1>2. entry \in [Dirs -> [Files -> Inodes \cup {None}]] /\ dirOf[m] \in Dirs
  BY MappingsAssumption DEF TypeOK
<1>3. QED
  BY <1>1, <1>2

(* No two names lead to one file, and every name is in a directory.        *)
Linked(e) ==
  \A d \in Dirs, f \in Files : e[d][f] # None =>
    \A b \in Dirs, g \in Files : e[b][g] = e[d][f] => b = d /\ g = f

Placed(s, e) == \A d \in Dirs, f \in Files : e[d][f] # None => s[d]

(* What remains of the type invariant.                                     *)
Shapes ==
  /\ sub    \in [Dirs -> BOOLEAN]
  /\ entry  \in [Dirs -> [Files -> Inodes \cup {None}]]
  /\ data   \in [Inodes -> Content]

UploadShapes ==
  /\ pc     \in [Chans -> {"idle", "opening", "open", "stored"}]
  /\ map    \in [Chans -> Mappings \cup {None}]
  /\ file   \in [Chans -> Files \cup {None}]
  /\ handle \in [Chans -> Inodes \cup {None}]
  /\ want   \in [Chans -> Content]
  /\ left   \in [Chans -> SUBSET Offsets]
  /\ disturbed \in [Chans -> BOOLEAN]
  /\ \A c \in Chans : /\ pc[c] # "idle" => map[c] \in Mappings /\ file[c] \in Files
                      /\ pc[c] \in {"open", "stored"} <=> handle[c] # None

LEMMA TypeParts == TypeOK <=> Shapes /\ UploadShapes /\ Linked(entry) /\ Placed(sub, entry)
BY DEF TypeOK, Shapes, UploadShapes, Linked, Placed

LEMMA TypePartsNext ==
  TypeOK' <=> Shapes' /\ UploadShapes' /\ Linked(entry') /\ Placed(sub', entry')
BY DEF TypeOK, Shapes, UploadShapes, Linked, Placed

LEMMA EmptyContent == Empty \in Content
BY DEF Empty, Content

LEMMA ForgetShapes ==
  ASSUME TypeOK, NEW c \in Chans, Forget(c)
  PROVE  UploadShapes'
BY EmptyContent DEF Forget, TypeOK, UploadShapes

-----------------------------------------------------------------------------
(* Type correctness.                                                       *)

LEMMA OpenFileTypeOK ==
  ASSUME TypeOK, NEW c \in Chans, OpenFile(c)
  PROVE  TypeOK'
<1>1. PICK i \in Inodes : Opened(c, i) /\ data' = [data EXCEPT ![i] = Empty]
  BY DEF OpenFile
<1>2. /\ map[c] \in Mappings /\ file[c] \in Files /\ dirOf[map[c]] \in Dirs
      /\ pc[c] = "opening" /\ sub[dirOf[map[c]]]
      /\ entry' \in [Dirs -> [Files -> Inodes \cup {None}]]
      /\ \A d \in Dirs, f \in Files :
           entry'[d][f] = IF d = dirOf[map[c]] /\ f = file[c] THEN i ELSE entry[d][f]
      /\ \/ entry[dirOf[map[c]]][file[c]] = i
         \/ entry[dirOf[map[c]]][file[c]] = None /\ Free(i)
  BY <1>1, OpenedEffect
<1>3. i # None
  BY NoneAssumption
<1>4. sub' = sub /\ Shapes'
  BY <1>1, <1>2, EmptyContent DEF Opened, Shapes, TypeOK
<1>5. Linked(entry')
  BY <1>2, <1>3 DEF Linked, TypeOK, Free
<1>6. Placed(sub', entry')
  BY <1>2, <1>4 DEF Placed, TypeOK
<1>7. UploadShapes'
  <2>1. PICK p \in Payloads, k \in 0 .. Pieces :
          /\ want' = [want EXCEPT ![c] = [o \in Offsets |-> IF o <= k THEN p ELSE None]]
          /\ left' = [left EXCEPT ![c] = 1 .. k]
    BY <1>1 DEF Opened
  <2>2. /\ [o \in Offsets |-> IF o <= k THEN p ELSE None] \in Content
        /\ 1 .. k \in SUBSET Offsets
    BY PiecesAssumption DEF Content, Offsets
  <2>3. want' \in [Chans -> Content] /\ left' \in [Chans -> SUBSET Offsets]
    BY <2>1, <2>2 DEF TypeOK
  <2>4. /\ handle' = [handle EXCEPT ![c] = i] /\ pc' = [pc EXCEPT ![c] = "open"]
        /\ map' = map /\ file' = file
    BY <1>1 DEF Opened
  <2>5. disturbed' \in [Chans -> BOOLEAN]
    BY <1>1 DEF Opened, DisturbName, Names, TypeOK
  <2>6. QED
    BY <1>2, <1>3, <2>3, <2>4, <2>5 DEF UploadShapes, TypeOK
<1>8. QED
  BY <1>4, <1>5, <1>6, <1>7, TypePartsNext

LEMMA UploadTypeOK ==
  ASSUME TypeOK, NEW c \in Chans, Upload(c)
  PROVE  TypeOK'
<1>1. ASSUME NEW m \in Mappings, NEW f \in Files, Filewrite(c, m, f)
      PROVE  TypeOK'
  <2>1. Shapes' /\ UploadShapes'
    BY <1>1, NoneAssumption, MappingsAssumption
    DEF Filewrite, TypeOK, Shapes, UploadShapes
  <2>2. Linked(entry') /\ Placed(sub', entry')
    BY <1>1, MappingsAssumption DEF Filewrite, TypeOK, Linked, Placed
  <2>3. QED
    BY <2>1, <2>2, TypePartsNext
<1>2. CASE OpenFile(c)
  BY <1>2, OpenFileTypeOK
<1>3. CASE OpenFails(c) \/ Leave(c)
  <2>1. UploadShapes' /\ UNCHANGED <<sub, entry, data>>
    BY <1>3, ForgetShapes DEF OpenFails, Leave, tree
  <2>2. Shapes' /\ Linked(entry') /\ Placed(sub', entry')
    BY <2>1, TypeParts DEF Shapes
  <2>3. QED
    BY <2>1, <2>2, TypePartsNext
<1>4. CASE Close(c)
  <2>1. UploadShapes' /\ UNCHANGED <<sub, entry, data>>
    BY <1>4 DEF Close, tree, TypeOK, UploadShapes
  <2>2. Shapes' /\ Linked(entry') /\ Placed(sub', entry')
    BY <2>1, TypeParts DEF Shapes
  <2>3. QED
    BY <2>1, <2>2, TypePartsNext
<1>5. ASSUME NEW o \in Offsets, WriteAt(c, o)
      PROVE  TypeOK'
  <2>1. handle[c] \in Inodes /\ want[c][o] \in Payloads \cup {None}
    BY <1>5 DEF WriteAt, TypeOK, Content
  <2>2. data' = [data EXCEPT ![handle[c]][o] = want[c][o]]
    BY <1>5 DEF WriteAt
  <2>3. data' \in [Inodes -> Content]
    BY <2>1, <2>2 DEF TypeOK, Content
  <2>4. Shapes' /\ sub' = sub /\ entry' = entry
    BY <1>5, <2>3 DEF WriteAt, Shapes, TypeOK
  <2>5. UploadShapes'
    BY <1>5 DEF WriteAt, DisturbInode, UploadShapes, TypeOK
  <2>6. QED
    BY <2>4, <2>5, TypeParts, TypePartsNext
<1>6. QED
  BY <1>1, <1>2, <1>3, <1>4, <1>5 DEF Upload

LEMMA FilecmdTypeOK ==
  ASSUME TypeOK, NEW c \in Chans, NEW m \in Mappings, Filecmd(c, m)
  PROVE  TypeOK'
<1>1. ASSUME NEW f \in Files, Remove(c, m, f)
      PROVE  TypeOK'
  <2>1. /\ entry' \in [Dirs -> [Files -> Inodes \cup {None}]]
        /\ \A d \in Dirs, h \in Files :
             entry'[d][h] = IF d = dirOf[m] /\ h = f THEN None ELSE entry[d][h]
    BY <1>1, RemoveEffect
  <2>2. Shapes' /\ UploadShapes' /\ sub' = sub
    BY <1>1, <2>1 DEF Remove, upload, DisturbName, Names, Shapes, UploadShapes, TypeOK
  <2>3. Linked(entry') /\ Placed(sub', entry')
    BY <2>1, <2>2 DEF Linked, Placed, TypeOK
  <2>4. QED
    BY <2>2, <2>3, TypePartsNext
<1>2. CASE Rmdir(c, m)
  <2>1. Shapes' /\ UploadShapes' /\ entry' = entry
    BY <1>2, MappingsAssumption DEF Rmdir, upload, Shapes, UploadShapes, TypeOK
  <2>2. Placed(sub', entry')
    BY <1>2, MappingsAssumption DEF Rmdir, Placed, TypeOK
  <2>3. QED
    BY <2>1, <2>2, TypeParts, TypePartsNext
<1>3. CASE Mkdir(c, m)
  <2>1. Shapes' /\ UploadShapes' /\ entry' = entry
    BY <1>3, MappingsAssumption DEF Mkdir, upload, Shapes, UploadShapes, TypeOK
  <2>2. Placed(sub', entry')
    BY <1>3, MappingsAssumption DEF Mkdir, Placed, TypeOK
  <2>3. QED
    BY <2>1, <2>2, TypeParts, TypePartsNext
<1>4. ASSUME NEW f \in Files, NEW g \in Files, NEW n \in Mappings, Rename(c, m, f, n, g)
      PROVE  TypeOK'
  <2>1. /\ n = m /\ f # g /\ dirOf[m] \in Dirs /\ sub[dirOf[m]]
        /\ entry[dirOf[m]][f] # None
        /\ entry' \in [Dirs -> [Files -> Inodes \cup {None}]]
        /\ \A d \in Dirs, h \in Files :
             entry'[d][h] = IF d = dirOf[m] /\ h = f THEN None
                            ELSE IF d = dirOf[m] /\ h = g THEN entry[d][f]
                            ELSE entry[d][h]
    BY <1>4, RenameEffect
  <2>2. Shapes' /\ UploadShapes' /\ sub' = sub
    BY <1>4, <2>1 DEF Rename, upload, DisturbName, Names, Shapes, UploadShapes, TypeOK
  <2>3. Linked(entry')
    BY <2>1 DEF Linked, TypeOK
  <2>4. Placed(sub', entry')
    BY <2>1, <2>2 DEF Placed, TypeOK
  <2>5. QED
    BY <2>2, <2>3, <2>4, TypePartsNext
<1>5. QED
  BY <1>1, <1>2, <1>3, <1>4 DEF Filecmd

(* Every variable holds a value of its type, and a file has one name.      *)
THEOREM TypeCorrect == Spec => []TypeOK
<1>1. Init => TypeOK
  BY EmptyContent, NoneAssumption DEF Init, TypeOK
<1>2. TypeOK /\ [Next]_vars => TypeOK'
  <2> SUFFICES ASSUME TypeOK, [Next]_vars
               PROVE  TypeOK'
    OBVIOUS
  <2>1. CASE Next
    BY <2>1, UploadTypeOK, FilecmdTypeOK DEF Next
  <2>2. CASE UNCHANGED vars
    BY <2>2 DEF vars, tree, upload, TypeOK
  <2>3. QED
    BY <2>1, <2>2
<1>3. QED
  BY <1>1, <1>2, PTL DEF Spec
-----------------------------------------------------------------------------
(* An upload that nobody disturbed: its name still leads to the file it    *)
(* opened, and the file holds exactly the pieces written so far.           *)

Whole(c) ==
  /\ entry[dirOf[map[c]]][file[c]] = handle[c]
  /\ \A o \in Offsets : data[handle[c]][o] = IF o \in left[c] THEN None ELSE want[c][o]

QuietIsHeld ==
  \A c \in Chans : /\ pc[c] \in {"open", "stored"} /\ ~disturbed[c] => Whole(c)
                   /\ pc[c] = "stored" => left[c] = {}

(* What another client keeps when a client forgets its upload.             *)
LEMMA ForgetKeepsQuiet ==
  ASSUME TypeOK, QuietIsHeld, NEW c \in Chans, Forget(c), UNCHANGED tree
  PROVE  QuietIsHeld'
<1> SUFFICES ASSUME NEW e \in Chans
             PROVE  /\ pc'[e] \in {"open", "stored"} /\ ~disturbed'[e] => Whole(e)'
                    /\ pc'[e] = "stored" => left'[e] = {}
  BY DEF QuietIsHeld
<1>1. CASE e = c
  BY <1>1 DEF Forget, TypeOK
<1>2. CASE e # c
  <2>1. /\ pc'[e] = pc[e] /\ map'[e] = map[e] /\ file'[e] = file[e] /\ handle'[e] = handle[e]
        /\ want'[e] = want[e] /\ left'[e] = left[e] /\ disturbed'[e] = disturbed[e]
        /\ entry' = entry /\ data' = data
    BY <1>2 DEF Forget, TypeOK, tree
  <2>2. QED
    BY <2>1 DEF QuietIsHeld, Whole
<1>3. QED
  BY <1>1, <1>2

(* A step that changes names disturbs those who use them.                  *)
LEMMA NamesKeepQuiet ==
  ASSUME TypeOK, QuietIsHeld, NEW c \in Chans, pc[c] = "idle",
         NEW d \in Dirs, NEW F \in SUBSET Files, DisturbName(c, d, F),
         UNCHANGED <<data, upload>>,
         \A b \in Dirs, f \in Files : ~(b = d /\ f \in F) => entry'[b][f] = entry[b][f]
  PROVE  QuietIsHeld'
<1> SUFFICES ASSUME NEW e \in Chans
             PROVE  /\ pc'[e] \in {"open", "stored"} /\ ~disturbed'[e] => Whole(e)'
                    /\ pc'[e] = "stored" => left'[e] = {}
  BY DEF QuietIsHeld
<1>1. UNCHANGED <<data, pc, map, file, handle, want, left>>
  BY DEF upload
<1>2. pc'[e] = "stored" => left'[e] = {}
  BY <1>1 DEF QuietIsHeld
<1>3. ASSUME pc[e] \in {"open", "stored"}, ~disturbed'[e]
      PROVE  Whole(e)'
  <2>1. e # c /\ map[e] \in Mappings /\ file[e] \in Files
    BY <1>3 DEF TypeOK
  <2>2. dirOf[map[e]] \in Dirs /\ map[e] # None
    BY <2>1, MappingsAssumption, NoneAssumption
  <2>3. ~disturbed[e] /\ ~(dirOf[map[e]] = d /\ file[e] \in F)
    BY <1>3, <2>1, <2>2 DEF DisturbName, Names
  <2>4. entry'[dirOf[map[e]]][file[e]] = entry[dirOf[map[e]]][file[e]]
    BY <2>1, <2>2, <2>3
  <2>5. Whole(e)
    BY <1>3, <2>3 DEF QuietIsHeld
  <2>6. QED
    BY <1>1, <2>4, <2>5 DEF Whole
<1>4. QED
  BY <1>1, <1>2, <1>3

LEMMA OpenFileQuiet ==
  ASSUME TypeOK, QuietIsHeld, NEW c \in Chans, OpenFile(c)
  PROVE  QuietIsHeld'
<1>1. PICK i \in Inodes : Opened(c, i) /\ data' = [data EXCEPT ![i] = Empty]
  BY DEF OpenFile
<1>2. /\ map[c] \in Mappings /\ file[c] \in Files /\ dirOf[map[c]] \in Dirs
      /\ \A d \in Dirs, f \in Files :
           entry'[d][f] = IF d = dirOf[map[c]] /\ f = file[c] THEN i ELSE entry[d][f]
      /\ \/ entry[dirOf[map[c]]][file[c]] = i
         \/ entry[dirOf[map[c]]][file[c]] = None /\ Free(i)
  BY <1>1, OpenedEffect
<1>3. /\ map' = map /\ file' = file
      /\ handle' = [handle EXCEPT ![c] = i] /\ pc' = [pc EXCEPT ![c] = "open"]
      /\ DisturbName(c, dirOf[map[c]], {file[c]})
  BY <1>1 DEF Opened
<1>4. PICK p \in Payloads, k \in 0 .. Pieces :
        /\ want' = [want EXCEPT ![c] = [o \in Offsets |-> IF o <= k THEN p ELSE None]]
        /\ left' = [left EXCEPT ![c] = 1 .. k]
  BY <1>1 DEF Opened
<1> SUFFICES ASSUME NEW e \in Chans
             PROVE  /\ pc'[e] \in {"open", "stored"} /\ ~disturbed'[e] => Whole(e)'
                    /\ pc'[e] = "stored" => left'[e] = {}
  BY DEF QuietIsHeld
<1>5. CASE e = c
  <2>1. pc'[e] = "open" /\ handle'[e] = i
    BY <1>3, <1>5 DEF TypeOK
  <2>2. entry'[dirOf[map'[e]]][file'[e]] = handle'[e]
    BY <1>2, <1>3, <1>5, <2>1
  <2>3. ASSUME NEW o \in Offsets
        PROVE  data'[handle'[e]][o] = IF o \in left'[e] THEN None ELSE want'[e][o]
    <3>1. data'[handle'[e]][o] = None
      BY <1>1, <2>1 DEF Empty, TypeOK
    <3>2. left'[e] = 1 .. k /\ want'[e][o] = IF o <= k THEN p ELSE None
      BY <1>4, <1>5 DEF TypeOK
    <3>3. o <= k => o \in 1 .. k
      BY PiecesAssumption DEF Offsets
    <3>4. QED
      BY <3>1, <3>2, <3>3
  <2>4. QED
    BY <2>1, <2>2, <2>3 DEF Whole
<1>6. CASE e # c
  <2>1. /\ pc'[e] = pc[e] /\ handle'[e] = handle[e] /\ want'[e] = want[e] /\ left'[e] = left[e]
    BY <1>3, <1>4, <1>6 DEF TypeOK
  <2>2. pc'[e] = "stored" => left'[e] = {}
    BY <2>1 DEF QuietIsHeld
  <2>3. ASSUME pc[e] \in {"open", "stored"}, ~disturbed'[e]
        PROVE  Whole(e)'
    <3>1. map[e] \in Mappings /\ file[e] \in Files /\ handle[e] \in Inodes
      BY <2>3 DEF TypeOK
    <3>2. dirOf[map[e]] \in Dirs /\ map[e] # None
      BY <3>1, MappingsAssumption, NoneAssumption
    <3>3. ~disturbed[e] /\ ~(dirOf[map[e]] = dirOf[map[c]] /\ file[e] = file[c])
      BY <1>3, <1>6, <2>3, <3>2 DEF DisturbName, Names
    <3>4. entry'[dirOf[map[e]]][file[e]] = entry[dirOf[map[e]]][file[e]]
      BY <1>2, <3>1, <3>2, <3>3
    <3>5. Whole(e)
      BY <2>3, <3>3 DEF QuietIsHeld
    <3>6. handle[e] # i
      <4>1. CASE Free(i)
        BY <4>1 DEF Free
      <4>2. CASE entry[dirOf[map[c]]][file[c]] = i
        BY <1>2, <3>1, <3>2, <3>3, <3>5, <4>2, NoneAssumption DEF Whole, TypeOK
      <4>3. QED
        BY <1>2, <4>1, <4>2
    <3>7. data'[handle[e]] = data[handle[e]]
      BY <1>1, <3>1, <3>6 DEF TypeOK
    <3>8. QED
      BY <1>3, <2>1, <3>4, <3>5, <3>7 DEF Whole
  <2>4. QED
    BY <2>1, <2>2, <2>3
<1>7. QED
  BY <1>5, <1>6

LEMMA WriteAtQuiet ==
  ASSUME TypeOK, QuietIsHeld, NEW c \in Chans, NEW o \in Offsets, WriteAt(c, o)
  PROVE  QuietIsHeld'
<1>1. /\ pc[c] = "open" /\ o \in left[c]
      /\ data' = [data EXCEPT ![handle[c]][o] = want[c][o]]
      /\ left' = [left EXCEPT ![c] = left[c] \ {o}]
      /\ DisturbInode(c, handle[c])
      /\ UNCHANGED <<entry, pc, map, file, handle, want>>
  BY DEF WriteAt
<1>2. handle[c] \in Inodes /\ data[handle[c]] \in Content
  BY <1>1 DEF TypeOK
<1> SUFFICES ASSUME NEW e \in Chans
             PROVE  /\ pc[e] \in {"open", "stored"} /\ ~disturbed'[e] => Whole(e)'
                    /\ pc[e] = "stored" => left'[e] = {}
  BY <1>1 DEF QuietIsHeld
<1>3. CASE e = c
  <2>1. left'[e] = left[c] \ {o} /\ disturbed'[e] = disturbed[c]
    BY <1>1, <1>3 DEF DisturbInode, TypeOK
  <2>2. data'[handle[c]] = [data[handle[c]] EXCEPT ![o] = want[c][o]]
    BY <1>1, <1>2 DEF TypeOK
  <2>3. ASSUME ~disturbed'[e]
        PROVE  Whole(e)'
    <3>1. Whole(c)
      BY <1>1, <2>1, <2>3 DEF QuietIsHeld
    <3>2. ASSUME NEW q \in Offsets
          PROVE  data'[handle[c]][q] = IF q \in left'[e] THEN None ELSE want[c][q]
      BY <1>2, <2>1, <2>2, <3>1 DEF Whole, Content
    <3>3. QED
      BY <1>1, <1>3, <3>1, <3>2 DEF Whole
  <2>4. QED
    BY <1>1, <1>3, <2>3
<1>4. CASE e # c
  <2>1. left'[e] = left[e]
    BY <1>1, <1>4 DEF TypeOK
  <2>2. ASSUME pc[e] \in {"open", "stored"}, ~disturbed'[e]
        PROVE  Whole(e)'
    <3>1. ~disturbed[e] /\ handle[e] # handle[c]
      BY <1>1, <1>4, <2>2 DEF DisturbInode
    <3>2. handle[e] \in Inodes
      BY <2>2 DEF TypeOK
    <3>3. data'[handle[e]] = data[handle[e]]
      BY <1>1, <1>2, <3>1, <3>2 DEF TypeOK
    <3>4. QED
      BY <1>1, <2>1, <2>2, <3>1, <3>3 DEF Whole, QuietIsHeld
  <2>3. QED
    BY <2>1, <2>2 DEF QuietIsHeld
<1>5. QED
  BY <1>3, <1>4

LEMMA UploadQuiet ==
  ASSUME TypeOK, QuietIsHeld, NEW c \in Chans, Upload(c)
  PROVE  QuietIsHeld'
<1>1. ASSUME NEW m \in Mappings, NEW f \in Files, Filewrite(c, m, f)
      PROVE  QuietIsHeld'
  <2> SUFFICES ASSUME NEW e \in Chans
               PROVE  /\ pc'[e] \in {"open", "stored"} /\ ~disturbed'[e] => Whole(e)'
                      /\ pc'[e] = "stored" => left'[e] = {}
    BY DEF QuietIsHeld
  <2>1. CASE e = c
    BY <1>1, <2>1 DEF Filewrite, TypeOK
  <2>2. CASE e # c
    <3>1. /\ pc'[e] = pc[e] /\ map'[e] = map[e] /\ file'[e] = file[e]
          /\ UNCHANGED <<entry, data, handle, want, left, disturbed>>
      BY <1>1, <2>2 DEF Filewrite, TypeOK
    <3>2. QED
      BY <3>1 DEF QuietIsHeld, Whole
  <2>3. QED
    BY <2>1, <2>2
<1>2. CASE OpenFile(c)
  BY <1>2, OpenFileQuiet
<1>3. CASE OpenFails(c) \/ Leave(c)
  BY <1>3, ForgetKeepsQuiet DEF OpenFails, Leave
<1>4. CASE Close(c)
  <2>1. /\ UNCHANGED <<entry, data, map, file, handle, want, left, disturbed>>
        /\ pc[c] = "open" /\ left[c] = {}
        /\ \A e \in Chans : pc'[e] = IF e = c THEN "stored" ELSE pc[e]
    BY <1>4 DEF Close, tree, TypeOK
  <2>2. QED
    BY <2>1 DEF QuietIsHeld, Whole
<1>5. ASSUME NEW o \in Offsets, WriteAt(c, o)
      PROVE  QuietIsHeld'
  BY <1>5, WriteAtQuiet
<1>6. QED
  BY <1>1, <1>2, <1>3, <1>4, <1>5 DEF Upload

LEMMA FilecmdQuiet ==
  ASSUME TypeOK, QuietIsHeld, NEW c \in Chans, NEW m \in Mappings, Filecmd(c, m)
  PROVE  QuietIsHeld'
<1>1. dirOf[m] \in Dirs
  BY MappingsAssumption
<1>2. ASSUME NEW f \in Files, Remove(c, m, f)
      PROVE  QuietIsHeld'
  <2>1. /\ pc[c] = "idle" /\ DisturbName(c, dirOf[m], {f}) /\ UNCHANGED <<data, upload>>
        /\ {f} \in SUBSET Files
    BY <1>2 DEF Remove
  <2>2. \A b \in Dirs, h \in Files : ~(b = dirOf[m] /\ h \in {f}) => entry'[b][h] = entry[b][h]
    BY <1>2, RemoveEffect
  <2>3. QED
    BY <1>1, <2>1, <2>2, NamesKeepQuiet
<1>3. CASE Rmdir(c, m) \/ Mkdir(c, m)
  <2>1. UNCHANGED <<entry, data, pc, map, file, handle, want, left, disturbed>>
    BY <1>3 DEF Rmdir, Mkdir, upload
  <2>2. QED
    BY <2>1 DEF QuietIsHeld, Whole
<1>4. ASSUME NEW f \in Files, NEW g \in Files, NEW n \in Mappings, Rename(c, m, f, n, g)
      PROVE  QuietIsHeld'
  <2>1. /\ pc[c] = "idle" /\ DisturbName(c, dirOf[m], {f, g}) /\ UNCHANGED <<data, upload>>
        /\ {f, g} \in SUBSET Files
    BY <1>4 DEF Rename
  <2>2. \A b \in Dirs, h \in Files : ~(b = dirOf[m] /\ h \in {f, g}) => entry'[b][h] = entry[b][h]
    BY <1>4, RenameEffect
  <2>3. QED
    BY <1>1, <2>1, <2>2, NamesKeepQuiet
<1>5. QED
  BY <1>2, <1>3, <1>4 DEF Filecmd

(* handlers.go:152: whatever the other clients do, an upload that none of  *)
(* them disturbed is stored whole under its name when its close returns.   *)
THEOREM QuietUploadsAreWhole == Spec => []QuietUploadIsWhole
<1>1. Init => QuietIsHeld
  BY DEF Init, QuietIsHeld
<1>2. TypeOK /\ QuietIsHeld /\ [Next]_vars => QuietIsHeld'
  <2> SUFFICES ASSUME TypeOK, QuietIsHeld, [Next]_vars
               PROVE  QuietIsHeld'
    OBVIOUS
  <2>1. CASE Next
    BY <2>1, UploadQuiet, FilecmdQuiet DEF Next
  <2>2. CASE UNCHANGED vars
    BY <2>2 DEF vars, tree, upload, QuietIsHeld, Whole
  <2>3. QED
    BY <2>1, <2>2
<1>3. TypeOK /\ QuietIsHeld => QuietUploadIsWhole
  <2> SUFFICES ASSUME TypeOK, QuietIsHeld, NEW c \in Chans, pc[c] = "stored", ~disturbed[c]
               PROVE  /\ entry[dirOf[map[c]]][file[c]] # None
                      /\ data[entry[dirOf[map[c]]][file[c]]] = want[c]
    BY DEF QuietUploadIsWhole
  <2>1. handle[c] \in Inodes /\ handle[c] # None
    BY DEF TypeOK
  <2>2. Whole(c) /\ left[c] = {}
    BY DEF QuietIsHeld
  <2>3. data[handle[c]] \in Content /\ want[c] \in Content
    BY <2>1 DEF TypeOK
  <2>4. \A o \in Offsets : data[handle[c]][o] = want[c][o]
    BY <2>2 DEF Whole
  <2>5. data[handle[c]] = want[c]
    BY <2>3, <2>4 DEF Content
  <2>6. QED
    BY <2>1, <2>2, <2>5 DEF Whole
<1>4. QED
  BY <1>1, <1>2, <1>3, TypeCorrect, PTL DEF Spec

-----------------------------------------------------------------------------
(* Read-only directories: nobody has a file of theirs open.                *)

HandlesElsewhere ==
  \A c \in Chans :
    /\ pc[c] # "idle" => modeOf[map[c]] # "ro"
    /\ handle[c] # None => \A d \in ReadOnly, f \in Files : entry[d][f] # handle[c]

Untouched ==
  \A d \in ReadOnly :
    /\ sub'[d] = sub[d] /\ entry'[d] = entry[d]
    /\ \A f \in Files : LET i == entry[d][f] IN i # None => data'[i] = data[i]

LEMMA WritableIsElsewhere ==
  ASSUME NEW m \in Mappings, modeOf[m] # "ro"
  PROVE  dirOf[m] \in Dirs /\ dirOf[m] \notin ReadOnly
BY MappingsAssumption DEF ReadOnly

LEMMA OpenFileElsewhere ==
  ASSUME TypeOK, HandlesElsewhere, NEW c \in Chans, OpenFile(c)
  PROVE  Untouched /\ HandlesElsewhere'
<1>1. PICK i \in Inodes : Opened(c, i) /\ data' = [data EXCEPT ![i] = Empty]
  BY DEF OpenFile
<1>2. /\ map[c] \in Mappings /\ file[c] \in Files /\ dirOf[map[c]] \in Dirs
      /\ pc[c] = "opening"
      /\ entry' \in [Dirs -> [Files -> Inodes \cup {None}]]
      /\ \A d \in Dirs, f \in Files :
           entry'[d][f] = IF d = dirOf[map[c]] /\ f = file[c] THEN i ELSE entry[d][f]
      /\ \/ entry[dirOf[map[c]]][file[c]] = i
         \/ entry[dirOf[map[c]]][file[c]] = None /\ Free(i)
  BY <1>1, OpenedEffect
<1>3. /\ sub' = sub /\ map' = map
      /\ handle' = [handle EXCEPT ![c] = i] /\ pc' = [pc EXCEPT ![c] = "open"]
  BY <1>1 DEF Opened
<1>4. modeOf[map[c]] # "ro"
  BY <1>2 DEF HandlesElsewhere
<1>5. dirOf[map[c]] \notin ReadOnly
  BY <1>2, <1>4, WritableIsElsewhere
<1>6. ASSUME NEW d \in ReadOnly
      PROVE  entry'[d] = entry[d] /\ \A f \in Files : entry[d][f] # i
  <2>1. d \in Dirs /\ d # dirOf[map[c]]
    BY <1>5 DEF ReadOnly
  <2>2. entry'[d] \in [Files -> Inodes \cup {None}] /\ entry[d] \in [Files -> Inodes \cup {None}]
    BY <1>2, <2>1 DEF TypeOK
  <2>3. \A f \in Files : entry'[d][f] = entry[d][f]
    BY <1>2, <2>1
  <2>4. entry'[d] = entry[d]
    BY <2>2, <2>3
  <2>5. \A f \in Files : entry[d][f] # i
    BY <1>2, <2>1, NoneAssumption DEF Free, TypeOK
  <2>6. QED
    BY <2>4, <2>5
<1>7. Untouched
  <2>1. \A j \in Inodes : j # i => data'[j] = data[j]
    BY <1>1 DEF TypeOK
  <2>2. \A d \in ReadOnly, f \in Files : entry[d][f] # None => entry[d][f] \in Inodes
    BY DEF ReadOnly, TypeOK
  <2>3. QED
    BY <1>3, <1>6, <2>1, <2>2 DEF Untouched
<1>8. HandlesElsewhere'
  BY <1>3, <1>4, <1>6 DEF HandlesElsewhere, TypeOK, ReadOnly
<1>9. QED
  BY <1>7, <1>8

LEMMA UploadElsewhere ==
  ASSUME TypeOK, HandlesElsewhere, NEW c \in Chans, Upload(c)
  PROVE  Untouched /\ HandlesElsewhere'
<1>1. ASSUME NEW m \in Mappings, NEW f \in Files, Filewrite(c, m, f)
      PROVE  Untouched /\ HandlesElsewhere'
  <2>1. modeOf[m] # "ro" /\ dirOf[m] \notin ReadOnly
    BY <1>1, WritableIsElsewhere DEF Filewrite
  <2>2. /\ UNCHANGED <<entry, data, handle>>
        /\ sub' = [sub EXCEPT ![dirOf[m]] = TRUE]
        /\ pc' = [pc EXCEPT ![c] = "opening"] /\ map' = [map EXCEPT ![c] = m]
    BY <1>1 DEF Filewrite
  <2>3. Untouched
    BY <2>1, <2>2 DEF Untouched, ReadOnly, TypeOK
  <2>4. HandlesElsewhere'
    BY <2>1, <2>2 DEF HandlesElsewhere, TypeOK, ReadOnly
  <2>5. QED
    BY <2>3, <2>4
<1>2. CASE OpenFile(c)
  BY <1>2, OpenFileElsewhere
<1>3. CASE OpenFails(c) \/ Leave(c)
  <2>1. /\ UNCHANGED <<sub, entry, data>>
        /\ handle' = [handle EXCEPT ![c] = None] /\ pc' = [pc EXCEPT ![c] = "idle"]
        /\ map' = [map EXCEPT ![c] = None]
    BY <1>3 DEF OpenFails, Leave, Forget, tree
  <2>2. Untouched
    BY <2>1 DEF Untouched
  <2>3. HandlesElsewhere'
    BY <2>1 DEF HandlesElsewhere, TypeOK, ReadOnly
  <2>4. QED
    BY <2>2, <2>3
<1>4. CASE Close(c)
  <2>1. /\ UNCHANGED <<sub, entry, data, map, handle>>
        /\ pc[c] = "open" /\ pc' = [pc EXCEPT ![c] = "stored"]
    BY <1>4 DEF Close, tree
  <2>2. QED
    BY <2>1 DEF Untouched, HandlesElsewhere, TypeOK, ReadOnly
<1>5. ASSUME NEW o \in Offsets, WriteAt(c, o)
      PROVE  Untouched /\ HandlesElsewhere'
  <2>1. /\ UNCHANGED <<sub, entry, pc, map, handle>>
        /\ data' = [data EXCEPT ![handle[c]][o] = want[c][o]]
    BY <1>5 DEF WriteAt
  <2>2. handle[c] \in Inodes /\ handle[c] # None
    BY <1>5 DEF WriteAt, TypeOK
  <2>3. \A j \in Inodes : j # handle[c] => data'[j] = data[j]
    BY <2>1, <2>2 DEF TypeOK
  <2>4. \A d \in ReadOnly, f \in Files : entry[d][f] # None => entry[d][f] \in Inodes
    BY DEF ReadOnly, TypeOK
  <2>5. \A d \in ReadOnly, f \in Files : entry[d][f] # handle[c]
    BY <2>2 DEF HandlesElsewhere
  <2>6. Untouched
    BY <2>1, <2>3, <2>4, <2>5 DEF Untouched
  <2>7. HandlesElsewhere'
    BY <2>1 DEF HandlesElsewhere, ReadOnly
  <2>8. QED
    BY <2>6, <2>7
<1>6. QED
  BY <1>1, <1>2, <1>3, <1>4, <1>5 DEF Upload

(* The names that a step leaves alone: those outside its directory.        *)
OnlyIn(w) ==
  /\ entry' \in [Dirs -> [Files -> Inodes \cup {None}]]
  /\ \A d \in Dirs, f \in Files : d # w => entry'[d][f] = entry[d][f]

LEMMA FilecmdElsewhere ==
  ASSUME TypeOK, HandlesElsewhere, NEW c \in Chans, NEW m \in Mappings, Filecmd(c, m)
  PROVE  Untouched /\ HandlesElsewhere'
<1>1. modeOf[m] = "rw" /\ UNCHANGED <<data, pc, map, handle>>
  BY DEF Filecmd, Remove, Rmdir, Mkdir, Rename, upload
<1>2. dirOf[m] \in Dirs /\ dirOf[m] \notin ReadOnly
  BY <1>1, WritableIsElsewhere
<1>3. sub' \in [Dirs -> BOOLEAN] /\ \A d \in Dirs : d # dirOf[m] => sub'[d] = sub[d]
  BY <1>2 DEF Filecmd, Remove, Rmdir, Mkdir, Rename, TypeOK
<1>4. OnlyIn(dirOf[m])
  <2>1. ASSUME NEW f \in Files, Remove(c, m, f)
        PROVE  OnlyIn(dirOf[m])
    BY <2>1, RemoveEffect DEF OnlyIn
  <2>2. CASE Rmdir(c, m) \/ Mkdir(c, m)
    BY <2>2 DEF Rmdir, Mkdir, OnlyIn, TypeOK
  <2>3. ASSUME NEW f \in Files, NEW g \in Files, NEW n \in Mappings, Rename(c, m, f, n, g)
        PROVE  OnlyIn(dirOf[m])
    BY <2>3, RenameEffect DEF OnlyIn
  <2>4. QED
    BY <2>1, <2>2, <2>3 DEF Filecmd
<1>5. ASSUME NEW d \in ReadOnly
      PROVE  sub'[d] = sub[d] /\ entry'[d] = entry[d]
  <2>1. d \in Dirs /\ d # dirOf[m]
    BY <1>2 DEF ReadOnly
  <2>2. entry'[d] \in [Files -> Inodes \cup {None}] /\ entry[d] \in [Files -> Inodes \cup {None}]
    BY <1>4, <2>1 DEF OnlyIn, TypeOK
  <2>3. \A f \in Files : entry'[d][f] = entry[d][f]
    BY <1>4, <2>1 DEF OnlyIn
  <2>4. QED
    BY <1>3, <2>1, <2>2, <2>3
<1>6. Untouched
  BY <1>1, <1>5 DEF Untouched
<1>7. HandlesElsewhere'
  BY <1>1, <1>5 DEF HandlesElsewhere, ReadOnly
<1>8. QED
  BY <1>6, <1>7

(* handlers.go:143-145, :166-168: whatever its clients do, the server      *)
(* never changes a directory that all its mappings map read-only.          *)
THEOREM ReadOnlyHolds == Spec => ReadOnlyIsUntouched
<1>1. Init => HandlesElsewhere
  <2>1. Init => pc = [c \in Chans |-> "idle"] /\ handle = [c \in Chans |-> None]
    BY Zenon DEF Init
  <2>2. QED
    BY <2>1 DEF HandlesElsewhere
<1>2. TypeOK /\ HandlesElsewhere /\ [Next]_vars => Untouched /\ HandlesElsewhere'
  <2> SUFFICES ASSUME TypeOK, HandlesElsewhere, [Next]_vars
               PROVE  Untouched /\ HandlesElsewhere'
    OBVIOUS
  <2>1. CASE Next
    BY <2>1, UploadElsewhere, FilecmdElsewhere DEF Next
  <2>2. CASE UNCHANGED vars
    BY <2>2 DEF vars, tree, upload, Untouched, HandlesElsewhere, ReadOnly
  <2>3. QED
    BY <2>1, <2>2
<1>3. Spec => []HandlesElsewhere
  BY <1>1, <1>2, TypeCorrect, PTL DEF Spec
<1>4. TypeOK /\ HandlesElsewhere /\ [Next]_vars => [Untouched]_vars
  BY <1>2
<1>5. Spec => [][Untouched]_vars
  BY <1>3, <1>4, TypeCorrect, PTL DEF Spec
<1>6. QED
  BY <1>5 DEF ReadOnlyIsUntouched, Untouched
=============================================================================
